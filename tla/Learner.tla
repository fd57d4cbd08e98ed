-------------------------------- MODULE Learner --------------------------------
(***************************************************************************)
(* The rule learner (shelltype/src/trie.c): a trie of the commands it was  *)
(* fed.                                                                    *)
(*                                                                         *)
(* A node stands for a word or, when the word was classified, for its type *)
(* alone: the text is gone, and the node keeps only whether every value    *)
(* had the same metadata.  A node is named by its path, a sequence of      *)
(* literal and wildcard tokens, and the trie is a function of the paths.   *)
(*                                                                         *)
(* An insertion walks down the trie and counts as it goes; a node it has   *)
(* to create may fail to be allocated, and then everything it did is       *)
(* undone.  An allocation that fails before the trie is touched changes    *)
(* nothing and is not an action.                                           *)
(***************************************************************************)
EXTENDS TokenMatch, FiniteSetsExt, SequencesExt

CONSTANTS
    Commands,       \* command lines fed: sequences of words
    Meta,           \* [Types \X Words -> Params \cup {NoParam}],
                    \* st_metadata_value_id
    MaxCount,       \* UINT32_MAX
    BlacklistRules, \* rules a caller may blacklist
    Configs         \* configurations a caller may set

(* A command has at most ST_MAX_CMD_TOKENS words of less than              *)
(* ST_MAX_TOKEN_LEN bytes, so there are finitely many.                      *)
ASSUME LearnerAssumption ==
    /\ Commands \subseteq Seq(Words) \ {<<>>} /\ IsFiniteSet(Commands)
    /\ Meta \in [Types \X Words -> Params \cup {NoParam}]
    /\ \A t \in Types, w \in Words :
          LET p == Meta[<<t, w>>] IN
          p # NoParam => ParamType[p] = t /\ w \in ParamWords[p]
    /\ MaxCount \in Nat \ {0}

VARIABLES
    trie,       \* trie.root: [path -> node]
    total,      \* trie.total_commands
    blacklist,  \* set of rules
    config,     \* min_support, min_confidence, max_suggestions
    cmd,        \* the command being inserted, or <<>>
    done,       \* how many of its words are in
    created,    \* created_index: the first word that made a node, or 0
    saved,      \* the nodes on the path, as they were
    before,     \* history: the trie as the last call left it
    fed         \* history: how often each command was learned

learnerVars == <<trie, total, blacklist, config, cmd, done, created, saved,
                 before, fed>>

-------------------------------------------------------------------------------
NewNode == [count |-> 0, observed |-> {}, observations |-> 0,
            common |-> NoParam, mixed |-> FALSE]

(* node_find_child: a literal is found by its text, a typed word by type. *)
Label(command, i) ==
    LET type == CommandType(command, i) IN
    IF type = LiteralType
    THEN [kind |-> "lit", word |-> command[i]]
    ELSE [kind |-> "wild", type |-> type, param |-> NoParam]

Path(command, n) == [i \in 1..n |-> Label(command, i)]

Put(t, path, node) ==
    [p \in DOMAIN t \cup {path} |-> IF p = path THEN node ELSE t[p]]

Node(t, path) == IF path \in DOMAIN t THEN t[path] ELSE NewNode

(* Faulty variant: a value without metadata does not end the agreement.     *)
ObserveLenient(node, type, meta) ==
    [node EXCEPT
        !.observed = @ \cup {type},
        !.common = IF node.observations = 0 /\ meta # NoParam THEN meta ELSE @,
        !.mixed = @ \/ (meta # NoParam /\ node.observations # 0
                          /\ node.common # meta),
        !.observations = @ + 1]

(* One value of a typed node: the first one's metadata is remembered, any  *)
(* other value without it, or with another, makes the node mixed.          *)
Observe(node, type, meta) ==
    LET first == node.observations = 0 /\ meta # NoParam IN
    [node EXCEPT
        !.observed = @ \cup {type},
        !.common = IF first THEN meta ELSE @,
        !.mixed = @ \/ (~first /\ (meta = NoParam \/ node.common # meta)),
        !.observations = @ + 1]

Counted(node, command, i) ==
    LET n    == [node EXCEPT !.count = @ + 1]
        type == CommandType(command, i)
    IN IF type = LiteralType THEN n
       ELSE Observe(n, type, Meta[<<type, command[i]>>])

-------------------------------------------------------------------------------
Idle == cmd = <<>>

Init ==
    /\ trie = [p \in {<<>>} |-> NewNode] /\ total = 0
    /\ blacklist = {} /\ config \in Configs
    /\ cmd = <<>> /\ done = 0 /\ created = 0 /\ saved = <<>>
    /\ before = trie /\ fed = [c \in Commands |-> 0]

(* Faulty variant: no limit on the number of commands. *)
FeedUnlimited(command) ==
    /\ Idle
    /\ trie' = [trie EXCEPT ![<<>>].count = @ + 1]
    /\ cmd' = command /\ done' = 0 /\ created' = 0 /\ saved' = <<>>
    /\ UNCHANGED <<total, blacklist, config, before, fed>>

(* learner_insert_atomic, up to the root: refused when the total or a      *)
(* counter on the existing path is at its limit.                           *)
Feed(command) ==
    /\ Idle /\ total < MaxCount
    /\ \A n \in 0..Len(command) : Node(trie, Path(command, n)).count < MaxCount
    /\ trie' = [trie EXCEPT ![<<>>].count = @ + 1]
    /\ cmd' = command /\ done' = 0 /\ created' = 0 /\ saved' = <<>>
    /\ UNCHANGED <<total, blacklist, config, before, fed>>

NextPath == Path(cmd, done + 1)

Saturated ==
    /\ CommandType(cmd, done + 1) # LiteralType
    /\ Node(trie, NextPath).observations = MaxCount

InsertWord ==
    /\ done < Len(cmd) /\ ~Saturated
    /\ LET node == Node(trie, NextPath) IN
       /\ trie' = Put(trie, NextPath, Counted(node, cmd, done + 1))
       /\ saved' = Append(saved, node)
    /\ created' = IF created = 0 /\ NextPath \notin DOMAIN trie
                  THEN done + 1 ELSE created
    /\ done' = done + 1
    /\ UNCHANGED <<total, blacklist, config, cmd, before, fed>>

InsertDone ==
    /\ ~Idle /\ done = Len(cmd)
    /\ total' = total + 1
    /\ fed' = [fed EXCEPT ![cmd] = @ + 1]
    /\ before' = trie
    /\ cmd' = <<>> /\ done' = 0 /\ created' = 0 /\ saved' = <<>>
    /\ UNCHANGED <<trie, blacklist, config>>

Unlinked(path) ==
    /\ created # 0 /\ Len(path) >= created
    /\ SubSeq(path, 1, created) = Path(cmd, created)

OnPath(path) == \E n \in 0..done : path = Path(cmd, n)

(* Faulty variant: the metadata of the nodes passed is not put back. *)
RestoredCount(path) == [trie[path] EXCEPT !.count = @ - 1]

(* A node on the path gets its count and its metadata back.                *)
Restored(path) ==
    LET n == [trie[path] EXCEPT !.count = @ - 1] IN
    IF path = <<>> THEN n
    ELSE LET old == saved[Len(path)] IN
         [n EXCEPT !.observed = old.observed,
                   !.observations = old.observations,
                   !.common = old.common, !.mixed = old.mixed]

(* memory_failure, and limit_failure, which first undoes the word it       *)
(* stopped at: counts and metadata back along the path, the first created  *)
(* node unlinked and freed with its subtree.                               *)
Rollback ==
    /\ done < Len(cmd)
    /\ NextPath \in DOMAIN trie => Saturated
    /\ trie' = [p \in {q \in DOMAIN trie : ~Unlinked(q)} |->
                  IF OnPath(p) THEN Restored(p) ELSE trie[p]]
    /\ cmd' = <<>> /\ done' = 0 /\ created' = 0 /\ saved' = <<>>
    /\ UNCHANGED <<total, blacklist, config, before, fed>>

(* st_learner_blacklist_add_netpattern: idempotent. *)
Blacklist(rule) ==
    /\ Idle
    /\ blacklist' = blacklist \cup {rule}
    /\ UNCHANGED <<trie, total, config, cmd, done, created, saved, before, fed>>

SetConfig(c) ==
    /\ Idle
    /\ config' = c
    /\ UNCHANGED <<trie, total, blacklist, cmd, done, created, saved, before,
                   fed>>

LearnerNext ==
    \/ \E command \in Commands : Feed(command)
    \/ InsertWord \/ InsertDone \/ Rollback
    \/ \E rule \in BlacklistRules : Blacklist(rule)
    \/ \E c \in Configs : SetConfig(c)

-------------------------------------------------------------------------------
Below(path) ==
    {c \in Commands : Len(c) >= Len(path) /\ Path(c, Len(path)) = path}
LearnedBelow(path) == MapThenSumSet(LAMBDA c : fed[c], Below(path))

(* The metadata of the values a typed node stands for.                      *)
MetadataBelow(path) ==
    {Meta[<<path[Len(path)].type, c[Len(path)]>>] :
        c \in {b \in Below(path) : fed[b] > 0}}

(* Whatever was fed, refused half way, saved or loaded, the trie says       *)
(* exactly what was learned: its nodes are the prefixes of the commands     *)
(* learned, each with the number of commands through it, and it names the   *)
(* metadata of a bucket exactly when all of its values had that metadata.   *)
TrieExact ==
    Idle =>
        /\ total = LearnedBelow(<<>>)
        /\ DOMAIN trie = {<<>>} \cup UNION {{Path(c, n) : n \in 1..Len(c)} :
                                            c \in {b \in Commands : fed[b] > 0}}
        /\ \A p \in DOMAIN trie :
            /\ trie[p].count = LearnedBelow(p)
            /\ p # <<>> /\ Last(p).kind = "wild" =>
                 /\ trie[p].observed = {Last(p).type}
                 /\ trie[p].observations = trie[p].count
                 /\ ~trie[p].mixed <=> \E m \in Params : MetadataBelow(p) = {m}
                 /\ ~trie[p].mixed => MetadataBelow(p) = {trie[p].common}

(* Between calls the trie is the one the last successful call left: a feed  *)
(* that fails after it has counted, remembered metadata and created nodes   *)
(* leaves no trace.                                                         *)
FeedAtomic == Idle => trie = before

(* The counters of the nodes never reach their limit before the total does: *)
(* no feed is refused for a counter inside the trie, and the limit found    *)
(* after the trie was touched is never met.                                 *)
LimitsExact ==
    /\ \A p \in DOMAIN trie : trie[p].count <= MaxCount
                              /\ trie[p].observations <= MaxCount
    /\ Idle /\ total < MaxCount =>
          \A p \in DOMAIN trie : trie[p].count < MaxCount
    /\ ~Idle /\ done < Len(cmd) => ~Saturated

LearnerSpec == Init /\ [][LearnerNext]_learnerVars
===============================================================================

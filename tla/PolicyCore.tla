------------------------------ MODULE PolicyCore ------------------------------
(***************************************************************************)
(* The storage of one st_policy as a value, and the operations of          *)
(* shelltype/src/policy.c on it.  A policy is a record:                    *)
(*                                                                         *)
(*   nodes   reachable trie states, each named by the token path to it     *)
(*   pid     pattern_id of the state at the end of a rule                  *)
(*   reg     pattern registry: id -> rule, NoRule where inactive           *)
(*   slots   entries of the registry ever used (patterns.count)            *)
(*   bucket  len_buckets[n].indices, as a set of ids                       *)
(*   wild    len_buckets[n].explicit_wildcard_count                        *)
(*   count   pattern_count                                                 *)
(*   epoch   epoch; built[d] is pos_built_epoch of level d                 *)
(*   filter, mask, comp   pos_filters, pos_wildcard_mask, pos_has_compound *)
(*                                                                         *)
(* Level d of the filters is token position d (1..Levels).  A vacuum       *)
(* filter is the set of words inserted in it: a false positive only leads  *)
(* to a trie walk, whose answer is exact.                                  *)
(***************************************************************************)
EXTENDS RuleUniverse, FiniteSets

CONSTANTS
    MaxPatterns,\* ST_MAX_POLICY_PATTERNS
    LevelCount  \* FILTER_POS_LEVELS

ASSUME LimitsAssumption ==
    /\ MaxPatterns \in Nat \ {0}
    /\ LevelCount \in Nat \ {0}

Ids     == 0..(MaxPatterns - 1)
NoId    == MaxPatterns          \* UINT16_MAX
NoRule  == <<>>                 \* an inactive registry entry
Levels  == 1..LevelCount
NoFilter == {NoCapture}         \* a NULL pos_filters entry: no set of words
Lengths == {Len(rule) : rule \in Rules}

Prefix(path, n) == SubSeq(path, 1, n)
Path(rule, n)   == {Prefix(rule, j) : j \in 0..n}
IsPrefix(s, t)  == Len(s) <= Len(t) /\ Prefix(t, Len(s)) = s
Paths           == UNION {Path(rule, Len(rule)) : rule \in Rules}

Policy ==
    [nodes : SUBSET Paths, pid : [Rules -> Ids \cup {NoId}],
     reg : [Ids -> Rules \cup {NoRule}], slots : 0..MaxPatterns,
     bucket : [Lengths -> SUBSET Ids], wild : [Lengths -> Nat], count : Nat,
     epoch : Nat, built : [Levels -> Nat],
     filter : [Levels -> (SUBSET Words) \cup {NoFilter}],
     mask : [Levels -> SUBSET Types], comp : [Levels -> BOOLEAN]]

(* st_policy_new *)
EmptyPolicy ==
    [nodes |-> {<<>>}, pid |-> [r \in Rules |-> NoId],
     reg |-> [i \in Ids |-> NoRule], slots |-> 0,
     bucket |-> [n \in Lengths |-> {}], wild |-> [n \in Lengths |-> 0],
     count |-> 0, epoch |-> 1, built |-> [d \in Levels |-> 0],
     filter |-> [d \in Levels |-> NoFilter],
     mask |-> [d \in Levels |-> {}], comp |-> [d \in Levels |-> FALSE]]

ActiveIds(P)   == {i \in Ids : P.reg[i] # NoRule}
ActiveRules(P) == {P.reg[i] : i \in ActiveIds(P)}

-------------------------------------------------------------------------------
(* st_policy_add_locked_view: the decisions taken before any mutation. *)

(* Concrete rules skip the subsumption scan while their length bucket holds *)
(* no explicit wildcard.                                                    *)
NeedsScan(P, rule) == ~PlainLiteral(rule) \/ P.wild[Len(rule)] # 0

Redundant(P, rule) ==
    IF NeedsScan(P, rule)
    THEN \E i \in P.bucket[Len(rule)] :
             P.reg[i] # NoRule /\ Subsumes(P.reg[i], rule)
    ELSE rule \in P.nodes /\ P.pid[rule] # NoId

Subsumed(P, rule) ==
    IF NeedsScan(P, rule)
    THEN {i \in P.bucket[Len(rule)] :
             P.reg[i] # NoRule /\ Subsumes(rule, P.reg[i])}
    ELSE {}

AtLimit(P, rule) == P.count >= MaxPatterns /\ Subsumed(P, rule) = {}

(* Trie insertion of the first n tokens of the rule.  Every missing edge   *)
(* updates the filter of its level at once (insert_child); "lost" is the   *)
(* set of levels whose vacuum filter cannot take the word and is dropped.  *)
Missing(P, rule, n, d) == d <= n /\ Prefix(rule, d) \notin P.nodes

(* Faulty variant: new literal edges do not reach the filter. *)
ExtendUnfiltered(P, rule, n, lost) == [P EXCEPT !.nodes = @ \cup Path(rule, n)]

Extend(P, rule, n, lost) ==
    [P EXCEPT
        !.nodes  = @ \cup Path(rule, n),
        !.filter = [d \in Levels |->
            IF /\ Missing(P, rule, n, d) /\ rule[d].kind = "lit"
               /\ P.filter[d] # NoFilter
            THEN IF d \in lost THEN NoFilter
                 ELSE P.filter[d] \cup {rule[d].word}
            ELSE P.filter[d]],
        !.mask   = [d \in Levels |->
            IF Missing(P, rule, n, d) /\ rule[d].kind = "wild"
            THEN P.mask[d] \cup {rule[d].type} ELSE P.mask[d]],
        !.comp   = [d \in Levels |->
            P.comp[d] \/ (Missing(P, rule, n, d) /\ rule[d].kind = "comp")]]

(* insert_child returned 1 somewhere: a filter must be rebuilt. *)
NeedsRebuild(P, rule, lost) ==
    \E d \in Levels :
        /\ Missing(P, rule, Len(rule), d)
        /\ \/ rule[d].kind = "comp"
           \/ rule[d].kind = "lit" /\ (P.filter[d] = NoFilter \/ d \in lost)

(* pattern_reg_commit and the bucket append. *)
FreeId(P) == CHOOSE i \in Ids : P.reg[i] = NoRule
                            /\ \A j \in Ids : P.reg[j] = NoRule => i <= j


Commit(P, rule) ==
    LET id == FreeId(P) IN
    [P EXCEPT !.pid[rule] = id, !.reg[id] = rule,
              !.slots = IF id >= @ THEN id + 1 ELSE @,
              !.bucket[Len(rule)] = @ \cup {id},
              !.wild[Len(rule)] = IF HasWildcard(rule) THEN @ + 1 ELSE @,
              !.count = @ + 1]

(* remove_pattern_by_id_locked for each id of a set.  Pruning goes from the *)
(* leaf to the root and drops the states that carry no pattern and no       *)
(* child: those all of whose extensions lie on a removed path.              *)
Removed(P, ids) == {P.reg[i] : i \in {j \in ids : /\ P.reg[j] # NoRule
                                             /\ P.reg[j] \in P.nodes
                                             /\ P.pid[P.reg[j]] = j}}

(* Faulty variant: pruning does not stop where other rules branch off. *)
DeadPath(P, rules, node) == node # <<>> /\ \E r \in rules : IsPrefix(node, r)

Dead(P, rules, node) ==
    /\ node # <<>>
    /\ \A m \in P.nodes : IsPrefix(node, m) =>
           /\ \E r \in rules : IsPrefix(m, r)
           /\ m \in Rules \ rules => P.pid[m] = NoId

(* Faulty variant: the ids stay in their length bucket. *)
RemoveIdsKeepsBucket(P, ids) ==
    LET rules == Removed(P, ids)
        gone  == {P.pid[r] : r \in rules}
    IN [P EXCEPT
          !.nodes  = {m \in @ : ~Dead(P, rules, m)},
          !.pid    = [r \in Rules |-> IF r \in rules THEN NoId ELSE @[r]],
          !.reg    = [i \in Ids |-> IF i \in gone THEN NoRule ELSE @[i]],
          !.count  = @ - Cardinality(gone)]

RemoveIds(P, ids) ==
    LET rules == Removed(P, ids)
        gone  == {P.pid[r] : r \in rules}
    IN [P EXCEPT
          !.nodes  = {m \in @ : ~Dead(P, rules, m)},
          !.pid    = [r \in Rules |-> IF r \in rules THEN NoId ELSE @[r]],
          !.reg    = [i \in Ids |-> IF i \in gone THEN NoRule ELSE @[i]],
          !.bucket = [n \in Lengths |-> @[n] \ gone],
          !.wild   = [n \in Lengths |-> @[n] -
                        Cardinality({r \in rules : Len(r) = n
                                                /\ HasWildcard(r)})],
          !.count  = @ - Cardinality(gone)]

(* A successful add.  Subsumed rules are removed after the new rule is     *)
(* published, except when the registry is exhausted and their slot is      *)
(* needed.                                                                 *)
AddRule(P, rule, lost) ==
    LET E    == Extend(P, rule, Len(rule), lost)
        old  == Subsumed(P, rule)
        Q    == IF P.slots >= MaxPatterns /\ old # {}
                THEN Commit(RemoveIds(E, old), rule)
                ELSE RemoveIds(Commit(E, rule), old)
    IN [Q EXCEPT !.epoch = IF NeedsRebuild(P, rule, lost) THEN @ + 1 ELSE @]

-------------------------------------------------------------------------------
(* policy_rebuild_filters.  "complete" fails when the queue cannot be       *)
(* allocated; "lost" is the set of levels whose filter cannot be built.     *)
AtLevel(P, d) == {m[d] : m \in {n \in P.nodes : Len(n) = d}}

LevelWords(P, d) == {t.word : t \in {u \in AtLevel(P, d) : u.kind = "lit"}}
LevelMask(P, d)  == {t.type : t \in {u \in AtLevel(P, d) : u.kind = "wild"}}
LevelComp(P, d)  == \E t \in AtLevel(P, d) : t.kind = "comp"

Rebuild(P, complete, lost) ==
    [P EXCEPT
        !.filter = [d \in Levels |-> IF complete /\ d \notin lost
                                     THEN LevelWords(P, d) ELSE NoFilter],
        !.mask   = [d \in Levels |-> IF complete THEN LevelMask(P, d) ELSE {}],
        !.comp   = [d \in Levels |-> complete => LevelComp(P, d)],
        !.built  = [d \in Levels |-> P.epoch]]

(* st_policy_clear: everything but the explicit-wildcard counts. *)
Cleared(P) ==
    [EmptyPolicy EXCEPT !.wild = P.wild, !.epoch = P.epoch + 1]

(* What a batch or a load installs: all of the staged policy but its epoch *)
(* and its compound flags; a compaction installs the flags too.            *)
Published(P, staged) ==
    [staged EXCEPT !.comp = P.comp, !.epoch = P.epoch + 1]


Compacted(P, staged) == [staged EXCEPT !.epoch = P.epoch + 1]

-------------------------------------------------------------------------------
(* policy_eval: filter pre-check, then trie walk. *)

CheckLevels(n) == {d \in Levels : d <= n}

Stale(P, n) == \E d \in CheckLevels(n) : P.built[d] # P.epoch

FilterPasses(P, command) ==
    \A d \in CheckLevels(Len(command)) :
        \/ P.comp[d]
        \/ P.mask[d] \cap Mask[CommandType(command, d)] # {}
        \/ P.filter[d] = NoFilter
        \/ P.filter[d] = {}
        \/ command[d] \in P.filter[d]

(* matching_walk_locked finds an accepting state along existing edges. *)
WalkAccepts(P, command) ==
    \E rule \in Rules :
        /\ Path(rule, Len(rule)) \subseteq P.nodes
        /\ P.pid[rule] # NoId
        /\ Matches(rule, command)

Verdict(P, command) == FilterPasses(P, command) /\ WalkAccepts(P, command)
===============================================================================

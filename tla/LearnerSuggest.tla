----------------------------- MODULE LearnerSuggest -----------------------------
(***************************************************************************)
(* The rules the learner proposes (st_learner_suggest, trie.c) and the     *)
(* types it offers for one token of a rule                                 *)
(* (st_learner_suggest_token_variants, trie_variants.c).                   *)
(*                                                                         *)
(* Proposals are made bottom up, merging the children of a node that       *)
(* continue alike.  They are then counted over the whole trie with the     *)
(* predicate the policy applies at run time; where the trie has dropped    *)
(* the text that would decide it, the count is unknown and the rule is     *)
(* not published.                                                          *)
(***************************************************************************)
EXTENDS Learner

CONSTANTS
    Join,           \* [Types \X Types -> Types], st_type_join
    ValueParams,    \* parameters only some values of their type satisfy
    OptionAffix,    \* [Words -> Affixes \cup {NoAffix}], option_capture
    NoAffix,
    ValueType,      \* ST_TYPE_VALUE
    General,        \* [subset of Types -> Types]: the category offered with a type
    MaxVariants     \* ST_MAX_TOKEN_VARIANTS

ASSUME SuggestAssumption ==
    /\ Join \in [Types \X Types -> Types]
    /\ ValueParams \subseteq Params
    /\ \A p \in Params \ ValueParams : ParamWords[p] = Words
    /\ \A p \in ValueParams : \A w \in ParamWords[p] : Meta[<<ParamType[p], w>>] = p
    /\ OptionAffix \in [Words -> Affixes \cup {NoAffix}]
    /\ \A w \in Words : OptionAffix[w] # NoAffix =>
           Capture[<<OptionAffix[w], w>>] # NoCapture
    /\ MaxVariants \in Nat \ {0, 1}

(* No word is classified "*", and the category offered with a type has     *)
(* nothing above it but "*".                                               *)
ASSUME VariantsAssumption ==
    /\ IsFiniteSet(Types)
    /\ \A word \in Words, ctx \in Contexts : Classify[<<word, ctx>>] # AnyType
    /\ ValueType \in Types \ {LiteralType, AnyType}
    /\ \A t \in DOMAIN General :
          /\ t \in Types /\ General[t] \in Types \ {LiteralType, AnyType}
          /\ \A u \in Types \ {AnyType, General[t]} : <<General[t], u>> \notin Compatible

(* A word satisfies its own type, and a join covers the types it joins.    *)
ASSUME JoinAssumption ==
    /\ \A t \in Types : t \in Mask[t]
    /\ \A a, b \in Types \ {LiteralType} :
          /\ Join[<<a, b>>] # LiteralType
          /\ <<a, Join[<<a, b>>]>> \in Compatible
          /\ <<b, Join[<<a, b>>]>> \in Compatible

Children(path) ==
    {p \in DOMAIN trie : Len(p) = Len(path) + 1 /\ Front(p) = path}

CountOf(path) == trie[path].count

(* node_terminal_count: the commands that end at the node. *)
Terminal(path) == CountOf(path) - MapThenSumSet(CountOf, Children(path))

-------------------------------------------------------------------------------
(* collect_complete_continuations. *)

WildcardOf(type, param) == [kind |-> "wild", type |-> type, param |-> param]

(* The text of a literal option, "--name=value", as prefix and capture. *)
CaptureType(path) ==
    LET word == Last(path).word IN
    Classify[<<Capture[<<OptionAffix[word], word>>], SpanContext>>]

IsOption(path) ==
    /\ OptionAffix[Last(path).word] # NoAffix
    /\ CaptureType(path) # LiteralType

JoinAll(types) ==
    LET join(a, b) == IF b = LiteralType THEN a ELSE Join[<<b, a>>]
    IN FoldSet(join, LiteralType, types)

(* node_suggestion_token: the metadata all values shared, once there are   *)
(* two of them.                                                            *)
CommonParam(path) ==
    IF trie[path].observations >= 2 /\ ~trie[path].mixed
    THEN trie[path].common ELSE NoParam

(* A child that continues with a given suffix, and how often it does.      *)
Literals(group) == {b \in group : Last(b.child).kind = "lit"}
Typeds(group)   == {b \in group : Last(b.child).kind = "wild"}
TypeOf(branch)  == Last(branch.child).type
Support(group)  == LET count(b) == b.count IN MapThenSumSet(count, group)

Proposal(token, branch, count, local) ==
    [rule |-> <<token>> \o branch.rule, count |-> count,
     depth |-> IF local THEN 0 ELSE branch.depth + 1]

Alone(token, branch) == Proposal(token, branch, branch.count, branch.rule = <<>>)

(* Two literals or more that continue alike become one compound, when they *)
(* are values of the same option, or else "*"; never at the head.          *)
SameOption(literals) ==
    /\ \A b \in literals : IsOption(b.child)
    /\ Cardinality({OptionAffix[Last(b.child).word] : b \in literals}) = 1

LiteralProposals(group, head) ==
    LET literals == Literals(group)
        one      == CHOOSE b \in literals : TRUE
    IN IF Cardinality(literals) < 2 \/ head
       THEN {Alone(Last(b.child), b) : b \in literals}
       ELSE LET token == IF Typeds(group) = {} /\ SameOption(literals)
                         THEN [kind |-> "comp",
                               affix |-> OptionAffix[Last(one.child).word],
                               type |-> JoinAll({CaptureType(b.child) : b \in literals}),
                               param |-> NoParam]
                         ELSE WildcardOf(AnyType, NoParam)
            IN {Proposal(token, one, Support(group), TRUE)}

(* Several types become the dominant one, when it has 70% of the commands, *)
(* or their join.  Ties go to the first type of the enumeration: any.      *)
Dominant(typeds) ==
    CHOOSE b \in typeds : \A o \in typeds : b.count >= o.count

TypedProposals(group) ==
    LET typeds == Typeds(group)
        top    == Dominant(typeds)
    IN CASE typeds = {} -> {}
         [] Cardinality(typeds) = 1 ->
              {Alone(WildcardOf(TypeOf(top), CommonParam(top.child)), top)}
         [] OTHER ->
              IF top.count * 10 >= Support(typeds) * 7
              THEN {Proposal(WildcardOf(TypeOf(top), CommonParam(top.child)),
                             top, top.count, TRUE)}
              ELSE {Proposal(WildcardOf(JoinAll({TypeOf(b) : b \in typeds}), NoParam),
                             top, Support(typeds), TRUE)}

GroupProposals(group, head) ==
    LiteralProposals(group, head)
    \cup (IF Cardinality(Literals(group)) >= 2 /\ ~head THEN {}
          ELSE TypedProposals(group))

(* Every way the commands of the trie continue after a node. *)
Continuations[path \in DOMAIN trie] ==
    LET branches == UNION {{[child |-> q, rule |-> c.rule, count |-> c.count,
                             depth |-> c.depth] : c \in Continuations[q]}
                             : q \in Children(path)}
        suffixes == {b.rule : b \in branches}
        ended == IF Terminal(path) = 0 THEN {}
                 ELSE {[rule |-> <<>>, count |-> Terminal(path), depth |-> 0]}
    IN ended \cup UNION {GroupProposals({b \in branches : b.rule = s}, path = <<>>)
                           : s \in suffixes}

-------------------------------------------------------------------------------
(* account_candidate_support. *)

ParamEvidence(token, node) ==
    IF token.param \notin ValueParams THEN "yes"
    ELSE IF node.mixed THEN "unknown"
    ELSE IF node.common = token.param THEN "yes" ELSE "no"

(* Faulty variant: a bucket of typed values is taken not to hold the word. *)
EvidenceNoBucket(rule, i, label, node) ==
    LET token == rule[i] IN
    CASE token.kind = "lit"  -> IF label = token THEN "yes" ELSE "no"
      [] token.kind = "comp" -> IF label.kind = "wild" THEN "unknown"
                                ELSE IF CompoundAccepts(token, label.word)
                                     THEN "yes" ELSE "no"
      [] token.kind = "wild" ->
           LET type == IF label.kind = "lit" THEN LiteralType ELSE label.type IN
           IF token.type \notin Mask[type]
              \/ (token.param # NoParam /\ type # token.type)
           THEN "no" ELSE ParamEvidence(token, node)

(* support_prefix_match: whether a token of a rule accepts the words a     *)
(* node stands for.  A bucket of typed values may hold the literal, or a   *)
(* word with the affixes; mixed metadata leaves a parameter undecided.     *)
Evidence(rule, i, label, node) ==
    LET token == rule[i] IN
    CASE token.kind = "lit" ->
           IF label.kind = "wild"
           THEN IF label.type \in LiteralTypes(rule, i) THEN "unknown" ELSE "no"
           ELSE IF label = token THEN "yes" ELSE "no"
      [] token.kind = "comp" ->
           IF label.kind = "wild" THEN "unknown"
           ELSE IF CompoundAccepts(token, label.word) THEN "yes" ELSE "no"
      [] token.kind = "wild" ->
           LET type == IF label.kind = "lit" THEN LiteralType ELSE label.type IN
           IF token.type \notin Mask[type]
              \/ (token.param # NoParam /\ type # token.type)
           THEN "no" ELSE ParamEvidence(token, node)

EvidenceAt(rule, path, i) ==
    Evidence(rule, i, path[i], trie[SubSeq(path, 1, i)])

(* support_walk: the nodes the first tokens of a rule lead to, and those   *)
(* of them that were reached through an undecided token.                   *)
Reached(rule, depth) ==
    {p \in DOMAIN trie : Len(p) = depth
        /\ \A i \in 1..depth : EvidenceAt(rule, p, i) # "no"}

Undecided(rule, depth) ==
    {p \in Reached(rule, depth) :
        \E i \in 1..depth : EvidenceAt(rule, p, i) = "unknown"}

SupportOf(rule)      == MapThenSumSet(Terminal, Reached(rule, Len(rule)))
ScopeOf(rule, depth) == MapThenSumSet(CountOf, Reached(rule, depth))

Unknown(rule, depth) ==
    \/ \E p \in Undecided(rule, Len(rule)) : Terminal(p) # 0
    \/ \E p \in Undecided(rule, depth) : CountOf(p) # 0

(* support_fallback: the rule without the parameters that tell values apart. *)
Fallback(rule) ==
    [i \in 1..Len(rule) |->
        IF rule[i].kind # "lit" /\ rule[i].param \in ValueParams
        THEN [rule[i] EXCEPT !.param = NoParam] ELSE rule[i]]

(* Faulty variant: a rule may begin with "*". *)
ProposalsAny == {c \in Continuations[<<>>] : c.rule # <<>>}

Proposals == {c \in Continuations[<<>>] :
                c.rule # <<>> /\ ~(c.rule[1].kind = "wild" /\ c.rule[1].type = AnyType)}

Counts(rule, depth) ==
    [rule |-> rule, depth |-> depth, support |-> SupportOf(rule),
     scope |-> ScopeOf(rule, depth)]

(* What is published for a proposal: the rule when its counts are known,   *)
(* else its fallback when that one's are.                                  *)
Published(c) ==
    LET plain == Fallback(c.rule)
        rule  == IF Unknown(c.rule, c.depth) THEN plain ELSE c.rule
    IN IF Unknown(rule, c.depth) \/ ScopeOf(rule, c.depth) = 0 THEN {}
       ELSE {Counts(rule, c.depth)}

Accounted == UNION {Published(c) : c \in Proposals}

(* collect_suggestions, then st_learner_suggest: filtered, one entry for   *)
(* each rule, the most confident first, at most max_suggestions.           *)
Better(a, b) ==
    \/ a.support * b.scope > b.support * a.scope
    \/ a.support * b.scope = b.support * a.scope /\ a.support > b.support

Suggestions ==
    LET eligible ==
            {c \in Accounted :
                /\ c.support >= config.min_support
                /\ c.support * config.min_confidence[2]
                      >= c.scope * config.min_confidence[1]
                /\ c.rule \notin blacklist}
        best == {c \in eligible :
                    \A o \in eligible : o.rule = c.rule => ~Better(o, c)}
    IN {[rule |-> c.rule, support |-> c.support, scope |-> c.scope] :
          c \in {b \in best : Cardinality({o \in best : Better(o, b)})
                                < config.max_suggestions}}

-------------------------------------------------------------------------------
(* st_learner_suggest_token_variants.                                      *)


(* variant_prefix_matches: whether the words of a node may follow a token  *)
(* of the rule; a parameter asks for proof from the whole bucket.          *)
Follows(rule, i, label, node) ==
    LET token == rule[i] IN
    CASE token.kind = "lit" ->
           IF label.kind = "wild" THEN label.type \in LiteralTypes(rule, i)
           ELSE label = token
      [] token.kind = "comp" ->
           label.kind = "lit" /\ CompoundAccepts(token, label.word)
      [] token.kind = "wild" ->
           /\ token.type \in Mask[IF label.kind = "lit" THEN LiteralType
                                  ELSE label.type]
           /\ token.param \in ValueParams =>
                 ~node.mixed /\ node.common = token.param

(* collect_variants_at: what was seen in the place of the token, of words, *)
(* or of captures when the token is a compound.                            *)
ObservedTypes(rule, pos) ==
    LET token == rule[pos]
        at    == {p \in DOMAIN trie : Len(p) = pos
                    /\ \A i \in 1..(pos - 1) :
                          Follows(rule, i, p[i], trie[SubSeq(p, 1, i)])}
        inner == {Capture[<<token.affix, Last(p).word>>] :
                     p \in {q \in at : Last(q).kind = "lit"}} \ {NoCapture}
    IN IF token.kind = "comp"
       THEN {Classify[<<w, SpanContext>>] : w \in inner}
       ELSE (UNION {trie[p].observed : p \in at}) \ {AnyType}

EditType(token) == IF token.kind = "lit" THEN LiteralType ELSE token.type

(* Faulty variant: the most general of the remaining types comes first. *)
MostGeneral(remaining) ==
    CHOOSE t \in remaining : \A u \in remaining \ {t} : <<t, u>> \notin Compatible

MostSpecific(remaining) ==
    CHOOSE t \in remaining : \A u \in remaining \ {t} : <<u, t>> \notin Compatible

(* most_specific_remaining, until it finds none. *)
Ordered[remaining \in SUBSET (Types \ {LiteralType, AnyType})] ==
    IF remaining = {} THEN <<>>
    ELSE LET t == MostSpecific(remaining) IN <<t>> \o Ordered[remaining \ {t}]

Truncated(list, n) == IF Len(list) <= n THEN list ELSE SubSeq(list, 1, n)

LearnerVariants(rule, pos) ==
    LET current  == EditType(rule[pos])
        seen     == ObservedTypes(rule, pos)
        observed == IF seen # {} THEN seen
                    ELSE IF current = LiteralType THEN {ValueType}
                    ELSE {current} \ {AnyType}
        first    == IF current # AnyType /\ current \in observed
                    THEN <<current>> ELSE <<>>
        listed   == Truncated(first \o Ordered[observed \ {current, LiteralType, AnyType}],
                              MaxVariants - 1)
        general  == IF /\ Len(listed) < MaxVariants - 1
                       /\ current \in DOMAIN General
                       /\ ~Contains(listed, General[current])
                    THEN <<General[current]>> ELSE <<>>
        any      == IF pos # 1 THEN <<AnyType>> ELSE <<>>
    IN IF HeadAllowed(rule) THEN listed \o general \o any ELSE <<>>

-------------------------------------------------------------------------------
PrefixMatches(rule, depth, command) ==
    /\ Len(command) >= depth
    /\ \A i \in 1..depth :
           TokenAccepts(rule[i], command[i], CommandType(command, i))

LearnedWhere(P(_)) ==
    MapThenSumSet(LAMBDA c : fed[c], {c \in Commands : P(c)})

(* The numbers shown for a suggestion are those of the commands that were   *)
(* fed, although their texts are gone: its support is the number of them    *)
(* the rule accepts at run time, its scope the number of them that share    *)
(* the prefix its confidence is relative to.                                *)
SupportExact ==
    Idle => \A s \in Accounted :
        /\ s.support = LearnedWhere(LAMBDA c : Matches(s.rule, c))
        /\ s.scope = LearnedWhere(LAMBDA c : PrefixMatches(s.rule, s.depth, c))

(* An edit of a suggestion offers, as far as the list has room, every type  *)
(* seen in that place among the commands the tokens before it let through,  *)
(* unless one of those asks for the text of the words; each but the current *)
(* one comes after those it generalises.                                    *)
VariantsObserved ==
    Idle => \A s \in Accounted : \A pos \in 1..Len(s.rule) :
        LET offered == LearnerVariants(s.rule, pos)
            seen == {CommandType(c, pos) :
                       c \in {d \in Commands : fed[d] > 0 /\ Len(d) >= pos
                                /\ PrefixMatches(s.rule, pos - 1, d)}}
            plain == \A i \in 1..(pos - 1) :
                        /\ s.rule[i].kind # "comp"
                        /\ s.rule[i].kind = "wild" => s.rule[i].param \notin ValueParams
        IN /\ Len(offered) <= MaxVariants
           /\ plain /\ s.rule[pos].kind # "comp"
              /\ Cardinality(ToSet(offered) \ {AnyType}) < MaxVariants - 1 =>
                 seen \ {LiteralType} \subseteq ToSet(offered)
           /\ \A i \in 2..Len(offered), j \in 2..Len(offered) :
                 i < j => <<offered[j], offered[i]>> \notin Compatible

(* What a user is shown can be added to a policy as it stands: each rule    *)
(* once, none that was blacklisted or that a policy refuses for its head,   *)
(* and each accepting at least min_support of the commands that were fed.   *)
SuggestionsUsable ==
    Idle => \A s \in Suggestions :
        /\ s.rule \in Seq(Token) \ blacklist /\ HeadAllowed(s.rule)
        /\ LearnedWhere(LAMBDA c : Matches(s.rule, c)) >= config.min_support
        /\ \A o \in Suggestions : o.rule = s.rule => o = s
===============================================================================

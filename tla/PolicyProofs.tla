------------------------------ MODULE PolicyProofs ------------------------------
(***************************************************************************)
(* First: pattern_subsumes is sound and transitive for any type tables     *)
(* that meet the assumptions of TokenMatch, any vocabulary and any rule    *)
(* length.                                                                 *)
(*                                                                         *)
(* Then: the position filters of a policy never reject a command its trie  *)
(* accepts, for any rules, any number of levels and of threads, and any    *)
(* failure of an allocation or of a vacuum filter.  The invariant is on    *)
(* trie states rather than rules: a filter that exists covers the last     *)
(* token of every state at its depth, reachable or left behind by a failed *)
(* insertion.  Then storage, publication and the refinement of RuleSet.    *)
(* Last: the types offered for a token are those above what it may stand   *)
(* for, for any lattice of types.                                          *)
(***************************************************************************)
EXTENDS Policy, RuleVariants, FiniteSetTheorems, WellFoundedInduction, TLAPS

-------------------------------------------------------------------------------
(* Subsumption.                                                            *)

(* What each kind of token carries.                                        *)
LEMMA TokenShape ==
    ASSUME NEW rule \in Seq(Token), NEW i \in 1..Len(rule)
    PROVE  /\ rule[i].kind \in {"lit", "wild", "comp"}
           /\ rule[i].kind = "lit" => rule[i].word \in Words
           /\ rule[i].kind # "lit" =>
                  /\ rule[i].type \in Types \ {LiteralType}
                  /\ rule[i].param \in Params \cup {NoParam}
                  /\ rule[i].param # NoParam =>
                         ParamType[rule[i].param] = rule[i].type
           /\ rule[i].kind = "comp" => rule[i].affix \in Affixes
<1>1. rule[i] \in Token
  OBVIOUS
<1>2. CASE rule[i] \in LiteralToken
  BY <1>2 DEF LiteralToken
<1>3. CASE rule[i] \in WildcardToken
  BY <1>3 DEF WildcardToken
<1>4. CASE rule[i] \in CompoundToken
  BY <1>4 DEF CompoundToken
<1> QED BY <1>1, <1>2, <1>3, <1>4 DEF Token

LEMMA TokenKinds ==
    ASSUME NEW rule \in Rules, NEW i \in 1..Len(rule)
    PROVE  /\ rule[i].kind \in {"lit", "wild", "comp"}
           /\ rule[i].kind = "lit" => rule[i].word \in Words
           /\ rule[i].kind # "lit" =>
                  /\ rule[i].type \in Types \ {LiteralType}
                  /\ rule[i].param \in Params \cup {NoParam}
                  /\ rule[i].param # NoParam =>
                         ParamType[rule[i].param] = rule[i].type
           /\ rule[i].kind = "comp" => rule[i].affix \in Affixes
<1>1. rule \in Seq(Token)
  BY RulesAssumption
<1> QED BY <1>1, TokenShape

LEMMA CommandTypes ==
    ASSUME NEW c \in Commands, NEW i \in 1..Len(c)
    PROVE  c[i] \in Words /\ CommandType(c, i) \in Types
<1>1. c \in Seq(Words)
  BY RulesAssumption
<1>2. \A j \in 1..Len(c) : c[j] \in Words
  BY <1>1
<1>3. CASE i = 1
  BY <1>2, <1>3, TableAssumption DEF CommandType
<1>4. CASE i # 1
  <2>1. i - 1 \in 1..Len(c)
    BY <1>1, <1>4
  <2>2. After[c[i - 1]] \in Contexts
    BY <1>2, <2>1, TableAssumption
  <2> QED BY <1>2, <1>4, <2>2, TableAssumption DEF CommandType
<1> QED BY <1>2, <1>3, <1>4

(* The run-time type of a word that a literal of the rule matches is among *)
(* the types the rule side allows for.                                     *)
LEMMA LiteralTypesCover ==
    ASSUME NEW rule \in Rules, NEW c \in Commands, Matches(rule, c),
           NEW i \in 1..Len(rule), rule[i].kind = "lit"
    PROVE  c[i] = rule[i].word /\ CommandType(c, i) \in LiteralTypes(rule, i)
<1>1. Len(rule) \in Nat /\ Len(c) = Len(rule)
  BY RulesAssumption DEF Matches
<1>2. \A j \in 1..Len(rule) : rule[j].kind = "lit" => c[j] = rule[j].word
  BY DEF Matches, TokenAccepts
<1>3. CASE i = 1
  BY <1>2, <1>3 DEF CommandType, LiteralTypes
<1>4. CASE i # 1
  <2>1. i - 1 \in 1..Len(rule)
    BY <1>1, <1>4
  <2>2. CASE rule[i - 1].kind = "lit"
    BY <1>2, <1>4, <2>1, <2>2 DEF CommandType, LiteralTypes
  <2>3. CASE rule[i - 1].kind # "lit"
    <3>1. After[c[i - 1]] \in Contexts
      BY <1>1, <2>1, CommandTypes, TableAssumption
    <3> QED BY <1>2, <1>4, <2>3, <3>1 DEF CommandType, LiteralTypes
  <2> QED BY <2>2, <2>3
<1> QED BY <1>2, <1>3, <1>4

(* Widening a wildcard along st_type_compatible keeps what it accepts.     *)
LEMMA WiderAccepts ==
    ASSUME NEW a, NEW b, NEW word \in Words, NEW type \in Types,
           a.type \in Types, b.type \in Types \ {LiteralType},
           a.param # NoParam => ParamType[a.param] = a.type,
           b.param # NoParam => ParamType[b.param] = b.type,
           <<b.type, a.type>> \in Compatible, ParamSubsumes(a, b),
           WildcardAccepts(b, word, type)
    PROVE  WildcardAccepts(a, word, type)
<1>1. a.type \in Mask[type]
  BY UpwardAssumption DEF WildcardAccepts
<1>2. ParamMatches(word, type, a)
  BY DEF WildcardAccepts, ParamMatches, ParamSubsumes
<1> QED BY <1>1, <1>2 DEF WildcardAccepts

(* "*" accepts every word.                                                 *)
LEMMA AnyAccepts ==
    ASSUME NEW a, NEW word, NEW type \in Types, a.type = AnyType,
           a.param \in Params \cup {NoParam},
           a.param # NoParam => ParamType[a.param] = a.type
    PROVE  WildcardAccepts(a, word, type)
BY AnyAssumption, TableAssumption DEF WildcardAccepts, ParamMatches

(* One token of a subsuming rule accepts what the subsumed rule matched.   *)
LEMMA TokenSound ==
    ASSUME NEW p \in Seq(Token), NEW q \in Rules, NEW c \in Commands,
           Len(p) = Len(q), Matches(q, c),
           NEW i \in 1..Len(q), TokenSubsumes(p[i], q, i)
    PROVE  TokenAccepts(p[i], c[i], CommandType(c, i))
<1> DEFINE a == p[i]
           b == q[i]
           t == CommandType(c, i)
<1>1. i \in 1..Len(p) /\ i \in 1..Len(c)
  BY DEF Matches
<1>2. c[i] \in Words /\ t \in Types
  BY <1>1, CommandTypes
<1>3. TokenAccepts(b, c[i], t)
  BY DEF Matches
<1>4. CASE a.kind = "comp" /\ b.kind = "comp"
  <2>1. a.affix = b.affix /\ <<b.type, a.type>> \in Compatible
        /\ ParamSubsumes(a, b)
    BY <1>4 DEF TokenSubsumes
  <2> DEFINE inner == Capture[<<b.affix, c[i]>>]
             u     == Classify[<<inner, SpanContext>>]
  <2>2. inner # NoCapture /\ WildcardAccepts(b, inner, u)
    BY <1>3, <1>4 DEF TokenAccepts, CompoundAccepts
  <2>3. b.affix \in Affixes
    BY <1>4, TokenKinds
  <2>4. inner \in Words
    BY <1>2, <2>2, <2>3, TableAssumption
  <2>5. u \in Types
    BY <2>4, TableAssumption
  <2>6. a.type \in Types /\ (a.param # NoParam => ParamType[a.param] = a.type)
    BY <1>1, <1>4, TokenShape
  <2>7. /\ b.type \in Types \ {LiteralType}
        /\ b.param # NoParam => ParamType[b.param] = b.type
    BY <1>4, TokenKinds
  <2>8. WildcardAccepts(a, inner, u)
    BY <2>1, <2>2, <2>4, <2>5, <2>6, <2>7, WiderAccepts
  <2> QED BY <1>4, <2>1, <2>2, <2>8 DEF TokenAccepts, CompoundAccepts
<1>5. CASE a.kind = "wild" /\ b.kind = "comp"
  <2>1. a.type = AnyType
    BY <1>5 DEF TokenSubsumes
  <2>2. /\ a.param \in Params \cup {NoParam}
        /\ a.param # NoParam => ParamType[a.param] = a.type
    BY <1>1, <1>5, TokenShape
  <2>3. WildcardAccepts(a, c[i], t)
    BY <1>2, <2>1, <2>2, AnyAccepts
  <2> QED BY <1>5, <2>3 DEF TokenAccepts
<1>6. CASE a.kind = "lit" /\ b.kind = "lit"
  BY <1>3, <1>6 DEF TokenSubsumes, TokenAccepts
<1>7. CASE a.kind = "wild" /\ b.kind = "wild"
  <2>1. <<b.type, a.type>> \in Compatible /\ ParamSubsumes(a, b)
    BY <1>7 DEF TokenSubsumes
  <2>2. WildcardAccepts(b, c[i], t)
    BY <1>3, <1>7 DEF TokenAccepts
  <2>3. a.type \in Types /\ (a.param # NoParam => ParamType[a.param] = a.type)
    BY <1>1, <1>7, TokenShape
  <2>4. /\ b.type \in Types \ {LiteralType}
        /\ b.param # NoParam => ParamType[b.param] = b.type
    BY <1>7, TokenKinds
  <2>5. WildcardAccepts(a, c[i], t)
    BY <1>2, <2>1, <2>2, <2>3, <2>4, WiderAccepts
  <2> QED BY <1>7, <2>5 DEF TokenAccepts
<1>8. CASE a.kind = "wild" /\ b.kind = "lit"
  <2>1. c[i] = b.word /\ t \in LiteralTypes(q, i)
    BY <1>8, LiteralTypesCover
  <2>2. WildcardAccepts(a, b.word, t)
    BY <1>8, <2>1 DEF TokenSubsumes
  <2> QED BY <1>8, <2>1, <2>2 DEF TokenAccepts
<1>9. \/ a.kind = "comp" /\ b.kind = "comp"
      \/ a.kind = "wild" /\ b.kind = "comp"
      \/ a.kind = "lit" /\ b.kind = "lit"
      \/ a.kind = "wild" /\ b.kind = "wild"
      \/ a.kind = "wild" /\ b.kind = "lit"
  BY DEF TokenSubsumes
<1> QED BY <1>4, <1>5, <1>6, <1>7, <1>8, <1>9

(* A rule accepts every command that a rule it subsumes accepts: dropping  *)
(* the subsumed rule loses no command (policy.c:920).                      *)
THEOREM SubsumptionSound ==
    ASSUME NEW p \in Seq(Token), NEW q \in Rules, NEW c \in Commands,
           Subsumes(p, q), Matches(q, c)
    PROVE  Matches(p, c)
<1>1. Len(p) = Len(q) /\ Len(q) = Len(c)
  BY DEF Subsumes, Matches
<1>2. \A i \in 1..Len(p) : TokenAccepts(p[i], c[i], CommandType(c, i))
  BY <1>1, TokenSound DEF Subsumes
<1> QED BY <1>1, <1>2 DEF Matches

(* The scan only ever looks at rules of the policy.                        *)
THEOREM TypeCorrect == PairSpec => []TypeOK
<1>1. PairInit => TypeOK
  BY DEF PairInit, TypeOK
<1>2. TypeOK /\ [PairNext]_pair => TypeOK'
  BY DEF TypeOK, PairNext, Compare, pair
<1> QED BY <1>1, <1>2, PTL DEF PairSpec

(* pattern_subsumes means what its comment says, for all tables.           *)
THEOREM Sound == PairSpec => []SubsumesSound
<1>1. TypeOK => SubsumesSound
  BY SubsumptionSound, RulesAssumption DEF TypeOK, SubsumesSound
<1> QED BY <1>1, TypeCorrect, PTL

-------------------------------------------------------------------------------
(* Transitivity.                                                           *)

(* A literal of the narrower of two rules can be classified in no more     *)
(* ways than the same literal of the wider one.                            *)
LEMMA LiteralTypesShrink ==
    ASSUME NEW q \in Rules, NEW r \in Rules, Subsumes(q, r),
           NEW i \in 1..Len(r), q[i].kind = "lit"
    PROVE  /\ r[i].kind = "lit" /\ r[i].word = q[i].word
           /\ LiteralTypes(r, i) \subseteq LiteralTypes(q, i)
<1>1. Len(q) = Len(r) /\ Len(r) \in Nat
  BY RulesAssumption DEF Subsumes
<1>2. \A j \in 1..Len(r) : q[j].kind = "lit" =>
          r[j].kind = "lit" /\ r[j].word = q[j].word
  BY <1>1 DEF Subsumes, TokenSubsumes
<1>3. CASE i = 1
  BY <1>2, <1>3 DEF LiteralTypes
<1>4. CASE i # 1
  <2>1. i - 1 \in 1..Len(r)
    BY <1>1, <1>4
  <2>2. CASE q[i - 1].kind = "lit"
    BY <1>2, <1>4, <2>1, <2>2 DEF LiteralTypes
  <2>3. CASE q[i - 1].kind # "lit"
    <3>1. LiteralTypes(q, i) = {Classify[<<q[i].word, ctx>>] : ctx \in Contexts}
      BY <1>4, <2>3 DEF LiteralTypes
    <3>2. CASE r[i - 1].kind = "lit"
      <4>1. After[r[i - 1].word] \in Contexts
        BY <2>1, <3>2, TokenKinds, TableAssumption
      <4>2. LiteralTypes(r, i) =
                {Classify[<<r[i].word, After[r[i - 1].word]>>]}
        BY <1>4, <3>2 DEF LiteralTypes
      <4> QED BY <1>2, <3>1, <4>1, <4>2
    <3>3. CASE r[i - 1].kind # "lit"
      BY <1>2, <1>4, <3>1, <3>3 DEF LiteralTypes
    <3> QED BY <1>2, <3>2, <3>3
  <2> QED BY <2>2, <2>3
<1> QED BY <1>2, <1>3, <1>4

(* Whatever the context, a literal has a type.                             *)
LEMMA LiteralTypesTyped ==
    ASSUME NEW r \in Rules, NEW i \in 1..Len(r), r[i].kind = "lit"
    PROVE  LiteralTypes(r, i) \subseteq Types
<1>1. Len(r) \in Nat /\ r[i].word \in Words
  BY RulesAssumption, TokenKinds
<1>2. CASE i = 1
  BY <1>1, <1>2, TableAssumption DEF LiteralTypes
<1>3. CASE i # 1
  <2>1. i - 1 \in 1..Len(r)
    BY <1>1, <1>3
  <2>2. r[i - 1].kind = "lit" => After[r[i - 1].word] \in Contexts
    BY <2>1, TokenKinds, TableAssumption
  <2>3. \A ctx \in Contexts : Classify[<<r[i].word, ctx>>] \in Types
    BY <1>1, TableAssumption
  <2>4. CASE r[i - 1].kind = "lit"
    BY <1>3, <2>2, <2>3, <2>4 DEF LiteralTypes
  <2>5. CASE r[i - 1].kind # "lit"
    <3>1. LiteralTypes(r, i) = {Classify[<<r[i].word, ctx>>] : ctx \in Contexts}
      BY <1>3, <2>5 DEF LiteralTypes
    <3> QED BY <2>3, <3>1
  <2> QED BY <2>4, <2>5
<1> QED BY <1>2, <1>3

(* Nothing but "*" is above "*".                                           *)
LEMMA AnyTop ==
    ASSUME NEW a \in Types, <<AnyType, a>> \in Compatible
    PROVE  a = AnyType
BY CompatibleAssumption, AnyAssumption, TableAssumption

(* One position of a transitive chain of rules.                            *)
LEMMA TokenTransitive ==
    ASSUME NEW p \in Rules, NEW q \in Rules, NEW r \in Rules,
           Subsumes(p, q), Subsumes(q, r), NEW i \in 1..Len(r)
    PROVE  TokenSubsumes(p[i], r, i)
<1>1. /\ i \in 1..Len(p) /\ i \in 1..Len(q)
      /\ TokenSubsumes(p[i], q, i) /\ TokenSubsumes(q[i], r, i)
  BY DEF Subsumes
<1>2. /\ p[i].kind # "lit" => p[i].type \in Types
      /\ q[i].kind # "lit" => q[i].type \in Types \ {LiteralType}
      /\ r[i].kind # "lit" => r[i].type \in Types
      /\ q[i].kind # "lit" /\ q[i].param # NoParam =>
             ParamType[q[i].param] = q[i].type
      /\ p[i].kind # "lit" /\ p[i].param # NoParam =>
             ParamType[p[i].param] = p[i].type
  BY <1>1, TokenKinds
<1>3. CASE q[i].kind = "lit"
  <2>1. /\ r[i].kind = "lit" /\ r[i].word = q[i].word
        /\ LiteralTypes(r, i) \subseteq LiteralTypes(q, i)
    BY <1>3, LiteralTypesShrink
  <2> QED BY <1>1, <1>3, <2>1 DEF TokenSubsumes
<1>4. CASE q[i].kind = "comp"
  <2>1. /\ r[i].kind = "comp" /\ q[i].affix = r[i].affix
        /\ <<r[i].type, q[i].type>> \in Compatible
        /\ ParamSubsumes(q[i], r[i])
    BY <1>1, <1>4 DEF TokenSubsumes
  <2>2. CASE p[i].kind = "wild"
    BY <1>1, <1>4, <2>1, <2>2 DEF TokenSubsumes
  <2>3. CASE p[i].kind = "comp"
    <3>1. /\ p[i].affix = q[i].affix /\ <<q[i].type, p[i].type>> \in Compatible
          /\ ParamSubsumes(p[i], q[i])
      BY <1>1, <1>4, <2>3 DEF TokenSubsumes
    <3>2. <<r[i].type, p[i].type>> \in Compatible
      BY <1>2, <1>4, <2>1, <2>3, <3>1, CompatibleAssumption
    <3> QED BY <2>1, <2>3, <3>1, <3>2 DEF TokenSubsumes, ParamSubsumes
  <2> QED BY <1>1, <1>4, <2>2, <2>3 DEF TokenSubsumes
<1>5. CASE q[i].kind = "wild"
  <2>1. /\ p[i].kind = "wild" /\ <<q[i].type, p[i].type>> \in Compatible
        /\ ParamSubsumes(p[i], q[i])
    BY <1>1, <1>5 DEF TokenSubsumes
  <2>2. CASE r[i].kind = "wild"
    <3>1. <<r[i].type, q[i].type>> \in Compatible /\ ParamSubsumes(q[i], r[i])
      BY <1>1, <1>5, <2>2 DEF TokenSubsumes
    <3>2. <<r[i].type, p[i].type>> \in Compatible
      BY <1>2, <1>5, <2>1, <2>2, <3>1, CompatibleAssumption
    <3> QED BY <2>1, <2>2, <3>1, <3>2 DEF TokenSubsumes, ParamSubsumes
  <2>3. CASE r[i].kind = "comp"
    <3>1. q[i].type = AnyType
      BY <1>1, <1>5, <2>3 DEF TokenSubsumes
    <3>2. p[i].type \in Types
      BY <1>2, <2>1
    <3>3. p[i].type = AnyType
      BY <2>1, <3>1, <3>2, AnyTop
    <3> QED BY <2>1, <2>3, <3>3 DEF TokenSubsumes
  <2>4. CASE r[i].kind = "lit"
    <3>1. SUFFICES ASSUME NEW t \in LiteralTypes(r, i)
                   PROVE  WildcardAccepts(p[i], r[i].word, t)
      BY <2>1, <2>4 DEF TokenSubsumes
    <3>2. WildcardAccepts(q[i], r[i].word, t)
      BY <1>1, <1>5, <2>4 DEF TokenSubsumes
    <3>3. t \in Types /\ r[i].word \in Words
      BY <2>4, LiteralTypesTyped, TokenKinds
    <3> QED BY <1>2, <1>5, <2>1, <3>2, <3>3, WiderAccepts
  <2> QED BY <1>1, <1>5, <2>2, <2>3, <2>4 DEF TokenSubsumes
<1> QED BY <1>1, <1>3, <1>4, <1>5, TokenKinds

(* A chain of two subsumptions is a subsumption.                           *)
LEMMA SubsumesChain ==
    ASSUME NEW p \in Rules, NEW q \in Rules, NEW r \in Rules,
           Subsumes(p, q), Subsumes(q, r)
    PROVE  Subsumes(p, r)
<1>1. Len(p) = Len(r)
  BY DEF Subsumes
<1>2. \A i \in 1..Len(r) : TokenSubsumes(p[i], r, i)
  BY TokenTransitive
<1> QED BY <1>1, <1>2 DEF Subsumes

(* pattern_subsumes is transitive on the rules of a policy, so removing    *)
(* subsumed rules one by one, in any order, reaches the same rules.        *)
THEOREM Transitive == PairSpec => []SubsumesTransitive
<1>1. TypeOK => SubsumesTransitive
  BY SubsumesChain DEF TypeOK, SubsumesTransitive
<1> QED BY <1>1, TypeCorrect, PTL

-------------------------------------------------------------------------------
(* With reflexivity and antisymmetry pattern_subsumes is a partial order,  *)
(* so a policy has exactly one set of maximal rules.                       *)

LEMMA SubsumesSelf ==
    ASSUME NEW p \in Rules
    PROVE  Subsumes(p, p)
<1>1. ASSUME NEW i \in 1..Len(p) PROVE TokenSubsumes(p[i], p, i)
  <2>1. /\ p[i].kind \in {"lit", "wild", "comp"}
        /\ p[i].kind # "lit" => p[i].type \in Types
    BY TokenKinds
  <2>2. p[i].kind # "lit" => <<p[i].type, p[i].type>> \in Compatible
    BY <2>1, CompatibleAssumption
  <2> QED BY <2>1, <2>2 DEF TokenSubsumes, ParamSubsumes
<1> QED BY <1>1 DEF Subsumes

(* Two tokens that subsume one another are the same token.                 *)
LEMMA TokenAntisymmetric ==
    ASSUME NEW p \in Rules, NEW q \in Rules, Subsumes(p, q), Subsumes(q, p),
           NEW i \in 1..Len(p)
    PROVE  p[i] = q[i]
<1>1. /\ i \in 1..Len(q) /\ p \in Seq(Token) /\ q \in Seq(Token)
      /\ TokenSubsumes(p[i], q, i) /\ TokenSubsumes(q[i], p, i)
  BY RulesAssumption DEF Subsumes
<1>2. p[i] \in Token /\ q[i] \in Token
  BY <1>1
<1>3. CASE p[i].kind = "lit"
  <2>1. q[i].kind = "lit" /\ q[i].word = p[i].word
    BY <1>1, <1>3 DEF TokenSubsumes
  <2>2. p[i] \in LiteralToken /\ q[i] \in LiteralToken
    BY <1>2, <1>3, <2>1 DEF Token, WildcardToken, CompoundToken
  <2> QED BY <2>1, <2>2 DEF LiteralToken
<1>4. CASE p[i].kind = "wild"
  <2>1. q[i].kind = "wild"
    BY <1>1, <1>4 DEF TokenSubsumes
  <2>2. p[i] \in WildcardToken /\ q[i] \in WildcardToken
    BY <1>2, <1>4, <2>1 DEF Token, LiteralToken, CompoundToken
  <2>3. /\ <<q[i].type, p[i].type>> \in Compatible
        /\ <<p[i].type, q[i].type>> \in Compatible
        /\ ParamSubsumes(p[i], q[i]) /\ ParamSubsumes(q[i], p[i])
    BY <1>1, <1>4, <2>1 DEF TokenSubsumes
  <2>4. p[i].type \in Types /\ q[i].type \in Types
    BY <2>2 DEF WildcardToken
  <2>5. p[i].type = q[i].type /\ p[i].param = q[i].param
    BY <2>3, <2>4, CompatibleAssumption DEF ParamSubsumes
  <2> QED BY <2>2, <2>5 DEF WildcardToken
<1>5. CASE p[i].kind = "comp"
  <2>1. q[i].kind = "comp"
    BY <1>1, <1>5 DEF TokenSubsumes
  <2>2. p[i] \in CompoundToken /\ q[i] \in CompoundToken
    BY <1>2, <1>5, <2>1 DEF Token, LiteralToken, WildcardToken
  <2>3. /\ <<q[i].type, p[i].type>> \in Compatible
        /\ <<p[i].type, q[i].type>> \in Compatible
        /\ ParamSubsumes(p[i], q[i]) /\ ParamSubsumes(q[i], p[i])
        /\ p[i].affix = q[i].affix
    BY <1>1, <1>5, <2>1 DEF TokenSubsumes
  <2>4. p[i].type \in Types /\ q[i].type \in Types
    BY <2>2 DEF CompoundToken
  <2>5. p[i].type = q[i].type /\ p[i].param = q[i].param
    BY <2>3, <2>4, CompatibleAssumption DEF ParamSubsumes
  <2> QED BY <2>2, <2>3, <2>5 DEF CompoundToken
<1> QED BY <1>1, <1>3, <1>4, <1>5, TokenKinds

LEMMA SubsumesAntisymmetric ==
    ASSUME NEW p \in Rules, NEW q \in Rules, Subsumes(p, q), Subsumes(q, p)
    PROVE  p = q
<1>1. p \in Seq(Token) /\ q \in Seq(Token) /\ Len(p) = Len(q)
  BY RulesAssumption DEF Subsumes
<1>2. \A i \in 1..Len(p) : p[i] = q[i]
  BY TokenAntisymmetric
<1> QED BY <1>1, <1>2

(* The only rule that covers a rule of plain words and holds no wildcard   *)
(* is the rule itself, and a rule of plain words covers nothing else.      *)
LEMMA PlainAlone ==
    ASSUME NEW p \in Rules, NEW q \in Rules, Subsumes(p, q),
           PlainLiteral(p) \/ (PlainLiteral(q) /\ ~HasWildcard(p))
    PROVE  p = q
<1>1. p \in Seq(Token) /\ q \in Seq(Token) /\ Len(p) = Len(q)
  BY RulesAssumption DEF Subsumes
<1>2. ASSUME NEW i \in 1..Len(p) PROVE p[i] = q[i]
  <2>1. i \in 1..Len(q) /\ TokenSubsumes(p[i], q, i)
    BY <1>1 DEF Subsumes
  <2>2. p[i].kind = "lit" /\ q[i].kind = "lit" /\ p[i].word = q[i].word
    BY <2>1 DEF TokenSubsumes, PlainLiteral, HasWildcard
  <2>3. p[i] \in Token /\ q[i] \in Token
    BY <1>1, <2>1
  <2>4. p[i] \in LiteralToken /\ q[i] \in LiteralToken
    BY <2>2, <2>3 DEF Token, WildcardToken, CompoundToken
  <2> QED BY <2>2, <2>4 DEF LiteralToken
<1> QED BY <1>1, <1>2

-------------------------------------------------------------------------------
(* The position filters.                                                   *)

Fields == {"nodes", "pid", "reg", "slots", "bucket", "wild", "count", "epoch",
           "built", "filter", "mask", "comp"}

IsPolicy(P) == P = [f \in Fields |-> P[f]]

(* Level d of the filters lets a word matched by token t through. *)
Covered(P, d, t) ==
    \/ P.filter[d] = NoFilter
    \/ /\ t.kind = "lit"  => t.word \in P.filter[d]
       /\ t.kind = "wild" => t.type \in P.mask[d]
       /\ t.kind = "comp" => P.comp[d]

AllCovered(P) ==
    \A m \in P.nodes : Len(m) \in Levels => Covered(P, Len(m), m[Len(m)])

NoFilters(P) == \A d \in Levels : P.filter[d] = NoFilter

IInv ==
    /\ IsPolicy(live) /\ AllCovered(live)
    /\ IsPolicy(staged) /\ NoFilters(staged)

(* The n-th prefix of a rule is a state of depth n that ends in token n.   *)
LEMMA PrefixShape ==
    ASSUME NEW rule \in Rules, NEW j \in 0..Len(rule)
    PROVE  /\ Len(Prefix(rule, j)) = j
           /\ j > 0 => Prefix(rule, j)[j] = rule[j]
<1>1. rule \in Seq(Token)
  BY RulesAssumption
<1> QED BY <1>1 DEF Prefix

(* What Extend does to the fields the filters depend on.                   *)
LEMMA ExtendFields ==
    ASSUME NEW P, IsPolicy(P), NEW rule, NEW n, NEW lost
    PROVE  LET Q == Extend(P, rule, n, lost) IN
           /\ IsPolicy(Q)
           /\ Q.nodes = P.nodes \cup Path(rule, n)
           /\ Q.filter = [d \in Levels |->
                 IF /\ Missing(P, rule, n, d) /\ rule[d].kind = "lit"
                    /\ P.filter[d] # NoFilter
                 THEN IF d \in lost THEN NoFilter
                      ELSE P.filter[d] \cup {rule[d].word}
                 ELSE P.filter[d]]
           /\ Q.mask = [d \in Levels |->
                 IF Missing(P, rule, n, d) /\ rule[d].kind = "wild"
                 THEN P.mask[d] \cup {rule[d].type} ELSE P.mask[d]]
           /\ Q.comp = [d \in Levels |->
                 P.comp[d] \/ (Missing(P, rule, n, d) /\ rule[d].kind = "comp")]
BY DEF Extend, IsPolicy, Fields

(* Publishing a rule in the registry touches no trie state and no filter.  *)
LEMMA CommitFields ==
    ASSUME NEW P, IsPolicy(P), NEW rule
    PROVE  LET Q == Commit(P, rule) IN
           /\ IsPolicy(Q) /\ Q.nodes = P.nodes
           /\ Q.filter = P.filter /\ Q.mask = P.mask /\ Q.comp = P.comp
BY DEF Commit, IsPolicy, Fields

(* Removing rules prunes states and touches no filter.                     *)
LEMMA RemoveFields ==
    ASSUME NEW P, IsPolicy(P), NEW ids
    PROVE  LET Q == RemoveIds(P, ids) IN
           /\ IsPolicy(Q) /\ Q.nodes \subseteq P.nodes
           /\ Q.filter = P.filter /\ Q.mask = P.mask /\ Q.comp = P.comp
BY DEF RemoveIds, IsPolicy, Fields

(* An add is an insertion of its path followed by registry updates: it     *)
(* leaves the filters of Extend and at most its states.                    *)
LEMMA AddFields ==
    ASSUME NEW P, IsPolicy(P), NEW rule, NEW lost
    PROVE  LET Q == AddRule(P, rule, lost)
               E == Extend(P, rule, Len(rule), lost)
           IN
           /\ IsPolicy(Q) /\ Q.nodes \subseteq E.nodes
           /\ Q.filter = E.filter /\ Q.mask = E.mask /\ Q.comp = E.comp
<1> DEFINE E   == Extend(P, rule, Len(rule), lost)
           old == Subsumed(P, rule)
           A   == Commit(RemoveIds(E, old), rule)
           B   == RemoveIds(Commit(E, rule), old)
           Q   == IF P.slots >= MaxPatterns /\ old # {} THEN A ELSE B
<1>1. IsPolicy(E)
  BY ExtendFields
<1>2. /\ IsPolicy(A) /\ A.nodes \subseteq E.nodes
      /\ A.filter = E.filter /\ A.mask = E.mask /\ A.comp = E.comp
  BY <1>1, CommitFields, RemoveFields
<1>3. /\ IsPolicy(B) /\ B.nodes \subseteq E.nodes
      /\ B.filter = E.filter /\ B.mask = E.mask /\ B.comp = E.comp
  BY <1>1, CommitFields, RemoveFields
<1> HIDE DEF A, B, E
<1>4. AddRule(P, rule, lost) =
          [Q EXCEPT !.epoch = IF NeedsRebuild(P, rule, lost) THEN @ + 1 ELSE @]
  BY DEF AddRule, A, B, E
<1>5. /\ IsPolicy(Q) /\ Q.nodes \subseteq E.nodes
      /\ Q.filter = E.filter /\ Q.mask = E.mask /\ Q.comp = E.comp
  BY <1>2, <1>3
<1> HIDE DEF Q
<1> QED BY <1>4, <1>5 DEF IsPolicy, Fields, E

(* A policy with the same filters and no new state stays covered.          *)
LEMMA CoveredShrinks ==
    ASSUME NEW P, NEW Q, AllCovered(P), Q.nodes \subseteq P.nodes,
           Q.filter = P.filter, Q.mask = P.mask, Q.comp = P.comp
    PROVE  AllCovered(Q)
BY DEF AllCovered, Covered

(* Inserting a path covers its new states and keeps the old ones covered.  *)
LEMMA CoveredExtends ==
    ASSUME NEW P, IsPolicy(P), AllCovered(P), NEW rule \in Rules,
           NEW n \in 0..Len(rule), NEW lost
    PROVE  AllCovered(Extend(P, rule, n, lost))
<1> DEFINE Q == Extend(P, rule, n, lost)
<1>1. /\ Q.nodes = P.nodes \cup Path(rule, n)
      /\ Q.filter = [d \in Levels |->
            IF /\ Missing(P, rule, n, d) /\ rule[d].kind = "lit"
               /\ P.filter[d] # NoFilter
            THEN IF d \in lost THEN NoFilter
                 ELSE P.filter[d] \cup {rule[d].word}
            ELSE P.filter[d]]
      /\ Q.mask = [d \in Levels |->
            IF Missing(P, rule, n, d) /\ rule[d].kind = "wild"
            THEN P.mask[d] \cup {rule[d].type} ELSE P.mask[d]]
      /\ Q.comp = [d \in Levels |->
            P.comp[d] \/ (Missing(P, rule, n, d) /\ rule[d].kind = "comp")]
  BY ExtendFields
<1> HIDE DEF Q
<1> SUFFICES ASSUME NEW m \in Q.nodes, Len(m) \in Levels
             PROVE  Covered(Q, Len(m), m[Len(m)])
  BY DEF AllCovered, Q
<1> DEFINE d == Len(m)
           t == m[d]
<1>2. /\ Q.filter[d] = IF /\ Missing(P, rule, n, d) /\ rule[d].kind = "lit"
                          /\ P.filter[d] # NoFilter
                       THEN IF d \in lost THEN NoFilter
                            ELSE P.filter[d] \cup {rule[d].word}
                       ELSE P.filter[d]
      /\ Q.mask[d] = IF Missing(P, rule, n, d) /\ rule[d].kind = "wild"
                     THEN P.mask[d] \cup {rule[d].type} ELSE P.mask[d]
      /\ Q.comp[d] = (P.comp[d] \/ (Missing(P, rule, n, d)
                                    /\ rule[d].kind = "comp"))
  BY <1>1
<1>3. CASE m \in P.nodes
  <2>1. Covered(P, d, t)
    BY <1>3 DEF AllCovered
  <2> QED BY <1>2, <2>1 DEF Covered
<1>4. CASE m \in Path(rule, n) /\ m \notin P.nodes
  <2>1. PICK j \in 0..n : m = Prefix(rule, j)
    BY <1>4 DEF Path
  <2>2. Len(rule) \in Nat
    BY RulesAssumption
  <2>3. j \in 0..Len(rule)
    BY <2>1, <2>2
  <2>4. d = j /\ d > 0
    BY <2>1, <2>3, PrefixShape, RulesAssumption DEF Levels
  <2>5. t = rule[d]
    BY <2>1, <2>3, <2>4, PrefixShape
  <2>6. Missing(P, rule, n, d)
    BY <1>4, <2>1, <2>4 DEF Missing
  <2> QED BY <1>2, <2>5, <2>6 DEF Covered
<1> QED BY <1>1, <1>3, <1>4

(* An add keeps every state of the trie covered by the filters.            *)
LEMMA CoveredAdds ==
    ASSUME NEW P, IsPolicy(P), AllCovered(P), NEW rule \in Rules, NEW lost
    PROVE  AllCovered(AddRule(P, rule, lost))
<1>1. Len(rule) \in 0..Len(rule)
  BY RulesAssumption
<1>2. AllCovered(Extend(P, rule, Len(rule), lost))
  BY <1>1, CoveredExtends
<1> QED BY <1>2, AddFields, CoveredShrinks

(* A rebuild covers every state, or disables what it could not build.      *)
LEMMA RebuildCovers ==
    ASSUME NEW P, IsPolicy(P), NEW complete \in BOOLEAN, NEW lost
    PROVE  IsPolicy(Rebuild(P, complete, lost))
           /\ AllCovered(Rebuild(P, complete, lost))
<1> DEFINE Q == Rebuild(P, complete, lost)
<1>1. /\ IsPolicy(Q) /\ Q.nodes = P.nodes
      /\ Q.filter = [d \in Levels |-> IF complete /\ d \notin lost
                                      THEN LevelWords(P, d) ELSE NoFilter]
      /\ Q.mask = [d \in Levels |-> IF complete THEN LevelMask(P, d) ELSE {}]
      /\ Q.comp = [d \in Levels |-> complete => LevelComp(P, d)]
  BY DEF Rebuild, IsPolicy, Fields
<1> HIDE DEF Q
<1>2. ASSUME NEW m \in P.nodes, Len(m) \in Levels, complete
      PROVE  /\ m[Len(m)].kind = "lit" => m[Len(m)].word \in LevelWords(P, Len(m))
             /\ m[Len(m)].kind = "wild" => m[Len(m)].type \in LevelMask(P, Len(m))
             /\ m[Len(m)].kind = "comp" => LevelComp(P, Len(m))
  <2>1. m[Len(m)] \in AtLevel(P, Len(m))
    BY DEF AtLevel
  <2> QED BY <2>1 DEF LevelWords, LevelMask, LevelComp
<1>3. AllCovered(Q)
  BY <1>1, <1>2 DEF AllCovered, Covered
<1> QED BY <1>1, <1>3 DEF Q

(* Without filters everything passes.                                      *)
LEMMA NoFiltersCover ==
    ASSUME NEW P, NoFilters(P)
    PROVE  AllCovered(P)
BY DEF NoFilters, AllCovered, Covered

(* A staged policy never gets a filter: only a rebuild makes one.          *)
LEMMA NoFiltersExtends ==
    ASSUME NEW P, IsPolicy(P), NoFilters(P), NEW rule, NEW n, NEW lost
    PROVE  NoFilters(Extend(P, rule, n, lost))
<1> DEFINE E == Extend(P, rule, n, lost)
<1>1. /\ IsPolicy(E)
      /\ E.nodes = P.nodes \cup Path(rule, n)
      /\ E.filter = [d \in Levels |->
            IF /\ Missing(P, rule, n, d) /\ rule[d].kind = "lit"
               /\ P.filter[d] # NoFilter
            THEN IF d \in lost THEN NoFilter
                 ELSE P.filter[d] \cup {rule[d].word}
            ELSE P.filter[d]]
      /\ E.mask = [d \in Levels |->
            IF Missing(P, rule, n, d) /\ rule[d].kind = "wild"
            THEN P.mask[d] \cup {rule[d].type} ELSE P.mask[d]]
      /\ E.comp = [d \in Levels |->
            P.comp[d] \/ (Missing(P, rule, n, d) /\ rule[d].kind = "comp")]
  BY ExtendFields
<1> HIDE DEF E
<1>2. \A d \in Levels : E.filter[d] = NoFilter
  BY <1>1 DEF NoFilters
<1> QED BY <1>2 DEF NoFilters, E

(* Adding to a staged policy makes no filter.                              *)
LEMMA NoFiltersAdds ==
    ASSUME NEW P, IsPolicy(P), NoFilters(P), NEW rule, NEW lost
    PROVE  NoFilters(AddRule(P, rule, lost))
<1>1. NoFilters(Extend(P, rule, Len(rule), lost))
  BY NoFiltersExtends
<1> QED BY <1>1, AddFields DEF NoFilters

(* A new policy, a cleared one and a freshly published one have no filter. *)
LEMMA EmptyFields == IsPolicy(EmptyPolicy) /\ NoFilters(EmptyPolicy)
BY DEF EmptyPolicy, IsPolicy, Fields, NoFilters

(* Clearing, publishing and compacting leave the filters of the staged or  *)
(* empty policy that is installed.                                         *)
LEMMA ReplacedFields ==
    ASSUME NEW P, IsPolicy(P), NEW S, IsPolicy(S), NoFilters(S)
    PROVE  /\ IsPolicy(Cleared(P)) /\ NoFilters(Cleared(P))
           /\ IsPolicy(Published(P, S)) /\ NoFilters(Published(P, S))
           /\ IsPolicy(Compacted(P, S)) /\ NoFilters(Compacted(P, S))
<1>1. IsPolicy(Cleared(P)) /\ NoFilters(Cleared(P))
  BY DEF Cleared, EmptyPolicy, IsPolicy, Fields, NoFilters
<1>2. IsPolicy(Published(P, S)) /\ Published(P, S).filter = S.filter
  BY DEF Published, IsPolicy, Fields
<1>3. IsPolicy(Compacted(P, S)) /\ Compacted(P, S).filter = S.filter
  BY DEF Compacted, IsPolicy, Fields
<1> QED BY <1>1, <1>2, <1>3 DEF NoFilters

-------------------------------------------------------------------------------
(* st_policy_new establishes the invariant.                                *)
LEMMA InitIInv == Init => IInv
BY EmptyFields, NoFiltersCover DEF Init, IInv

(* One step per action of Policy.                                          *)
LEMMA NextIInv == IInv /\ [Next]_vars => IInv'
<1> SUFFICES ASSUME IInv, [Next]_vars PROVE IInv'
  OBVIOUS
<1> USE DEF IInv
<1>1. ASSUME NEW rule \in Rules, Add(rule) PROVE IInv'
  <2>1. PICK lost \in SUBSET Levels : live' = AddRule(live, rule, lost)
    BY <1>1 DEF Add
  <2>2. IsPolicy(live') /\ AllCovered(live')
    BY <2>1, AddFields, CoveredAdds
  <2> QED BY <1>1, <2>2 DEF Add
<1>2. ASSUME NEW rule \in Rules, AddFails(rule) PROVE IInv'
  <2>1. PICK n \in 0..Len(rule), lost \in SUBSET Levels :
            live' = Extend(live, rule, n, lost)
    BY <1>2 DEF AddFails
  <2>2. IsPolicy(live') /\ AllCovered(live')
    BY <2>1, ExtendFields, CoveredExtends
  <2> QED BY <1>2, <2>2 DEF AddFails
<1>3. ASSUME NEW rule \in Rules, Remove(rule) PROVE IInv'
  <2>1. PICK i \in ActiveIds(live) :
            live' = [RemoveIds(live, {i}) EXCEPT !.epoch = @ + 1]
    BY <1>3 DEF Remove
  <2> DEFINE Q == RemoveIds(live, {i})
  <2>2. /\ IsPolicy(Q) /\ Q.nodes \subseteq live.nodes
        /\ Q.filter = live.filter /\ Q.mask = live.mask /\ Q.comp = live.comp
    BY RemoveFields
  <2> HIDE DEF Q
  <2>3. /\ IsPolicy(live') /\ live'.nodes = Q.nodes
        /\ live'.filter = Q.filter /\ live'.mask = Q.mask
        /\ live'.comp = Q.comp
    BY <2>1, <2>2 DEF IsPolicy, Fields, Q
  <2>4. AllCovered(live')
    BY <2>2, <2>3, CoveredShrinks
  <2> QED BY <1>3, <2>3, <2>4 DEF Remove
<1>4. CASE Clear
  BY <1>4, ReplacedFields, NoFiltersCover DEF Clear
<1>5. ASSUME NEW kind, NEW clear, NEW new, Start(kind, clear, new) PROVE IInv'
  BY <1>5, EmptyFields DEF Start
<1>6. CASE StageAdd
  BY <1>6, AddFields, NoFiltersAdds DEF StageAdd
<1>7. CASE Abandon
  BY <1>7, EmptyFields DEF Abandon
<1>8. CASE Publish
  BY <1>8, EmptyFields, ReplacedFields, NoFiltersCover DEF Publish
<1>9. ASSUME NEW r \in Readers, NEW c \in Commands,
             EvalFresh(r, c) \/ EvalStale(r, c)
      PROVE  IInv'
  BY <1>9 DEF EvalFresh, EvalStale
<1>10. ASSUME NEW r \in Readers, EvalRebuild(r) PROVE IInv'
  BY <1>10, RebuildCovers DEF EvalRebuild
<1>11. ASSUME NEW r \in Readers, EvalRelock(r) \/ EvalReturn(r) PROVE IInv'
  BY <1>11 DEF EvalRelock, EvalReturn
<1>12. CASE UNCHANGED vars
  BY <1>12 DEF vars
<1> QED
  BY <1>1, <1>2, <1>3, <1>4, <1>5, <1>6, <1>7, <1>8, <1>9, <1>10, <1>11,
     <1>12
  DEF Next, BatchBegin, LoadBegin, CompactBegin

(* The live trie is covered by its filters at every moment, also between   *)
(* the lock sections of policy_eval.                                       *)
THEOREM Invariance == Spec => []IInv
BY InitIInv, NextIInv, PTL DEF Spec

(* A covered trie passes its filters: the pre-check of policy_eval never   *)
(* turns an accepted command into a rejected one (policy.c:2522).          *)
THEOREM FiltersSound == Spec => []FilterSound
<1>1. IInv => FilterSound
  <2> SUFFICES ASSUME IInv, NEW c \in Commands, WalkAccepts(live, c),
                      NEW d \in CheckLevels(Len(c)),
                      ~live.comp[d], live.filter[d] # NoFilter
               PROVE  \/ live.mask[d] \cap Mask[CommandType(c, d)] # {}
                      \/ c[d] \in live.filter[d]
    BY DEF FilterSound, FilterPasses
  <2>1. PICK rule \in Rules : /\ Path(rule, Len(rule)) \subseteq live.nodes
                              /\ Matches(rule, c)
    BY DEF WalkAccepts
  <2>2. /\ Len(rule) \in Nat /\ Len(rule) = Len(c)
        /\ d \in Levels /\ d \in 1..Len(rule)
    BY <2>1, RulesAssumption DEF CheckLevels, Levels, Matches
  <2>3. Prefix(rule, d) \in live.nodes
    BY <2>1, <2>2 DEF Path
  <2>4. Len(Prefix(rule, d)) = d /\ Prefix(rule, d)[d] = rule[d]
    BY <2>2, PrefixShape
  <2>5. Covered(live, d, rule[d])
    BY <2>2, <2>3, <2>4 DEF IInv, AllCovered
  <2>6. TokenAccepts(rule[d], c[d], CommandType(c, d))
    BY <2>1, <2>2 DEF Matches
  <2>7. CASE rule[d].kind = "lit"
    BY <2>5, <2>6, <2>7 DEF Covered, TokenAccepts
  <2>8. CASE rule[d].kind = "wild"
    BY <2>5, <2>6, <2>8 DEF Covered, TokenAccepts, WildcardAccepts
  <2>9. CASE rule[d].kind = "comp"
    BY <2>5, <2>9 DEF Covered
  <2> QED BY <2>6, <2>7, <2>8, <2>9 DEF TokenAccepts
<1> QED BY <1>1, Invariance, PTL

-------------------------------------------------------------------------------
(* Registry, trie, length buckets and counters of a policy agree, and no   *)
(* active rule covers another.                                             *)

Accepting(P)    == {r \in Rules : P.pid[r] # NoId}
WildRules(P, n) == {r \in Accepting(P) : Len(r) = n /\ HasWildcard(r)}

Typed(P) ==
    /\ P.nodes \subseteq Seq(Token)
    /\ P.pid \in [Rules -> Ids \cup {NoId}]
    /\ P.reg \in [Ids -> Rules \cup {NoRule}]
    /\ P.slots \in Nat
    /\ P.wild \in [Lengths -> Int]

Registered(P) ==
    /\ \A i \in ActiveIds(P) :
           /\ P.pid[P.reg[i]] = i
           /\ Path(P.reg[i], Len(P.reg[i])) \subseteq P.nodes
           /\ i < P.slots
    /\ \A r \in Accepting(P) : P.reg[P.pid[r]] = r

(* A cleared policy keeps its wildcard counts, so they only bound.         *)
Counted(P) ==
    /\ P.bucket = [n \in Lengths |-> {i \in ActiveIds(P) : Len(P.reg[i]) = n}]
    /\ \A n \in Lengths : Cardinality(WildRules(P, n)) <= P.wild[n]
    /\ P.count = Cardinality(ActiveIds(P))

Antichain(rules) == \A a, b \in rules : Subsumes(a, b) => a = b

Stored(P) == IsPolicy(P) /\ Typed(P) /\ Registered(P) /\ Counted(P)

(* The rules a staged operation has taken over so far.                     *)
Done(P, j) ==
    (IF j.clear THEN {} ELSE ActiveRules(P) \ {P.reg[i] : i \in j.old})
        \cup {j.new[k] : k \in 1..(j.next - 1)}

Covers(rules, all) == \A s \in all : \E a \in rules : Subsumes(a, s)

JobInv ==
    job.kind # "none" =>
        /\ job = [kind |-> job.kind, clear |-> job.clear, old |-> job.old,
                  new |-> job.new, next |-> job.next]
        /\ job.old \subseteq ActiveIds(live)
        /\ job.next \in 1..(Len(job.new) + 1)
        /\ IF job.kind = "compact" THEN job.new = <<>>
                                   ELSE job.new \in Batches
        /\ job.clear => job.old = {} /\ job.kind = "load"
        /\ job.clear \in BOOLEAN
        /\ ActiveRules(staged) \subseteq Done(live, job)
        /\ Covers(ActiveRules(staged), Done(live, job))
        /\ job.kind = "compact" =>
               staged.nodes = {<<>>} \cup
                   UNION {Path(r, Len(r)) : r \in Done(live, job)}

SInv ==
    /\ Stored(live) /\ Antichain(ActiveRules(live))
    /\ Stored(staged) /\ Antichain(ActiveRules(staged))
    /\ JobInv
-------------------------------------------------------------------------------
(* Facts about rules, prefixes and least ids.                              *)

LEMMA RuleFacts ==
    ASSUME NEW rule \in Rules
    PROVE  /\ rule \in Seq(Token) /\ Len(rule) \in Nat \ {0}
           /\ rule # NoRule /\ Len(rule) \in Lengths
           /\ \A n \in 0..Len(rule) : Path(rule, n) \subseteq Seq(Token)
           /\ rule \in Path(rule, Len(rule))
<1>1. rule \in Seq(Token) /\ Len(rule) \in Nat \ {0}
  BY RulesAssumption
<1>2. rule # NoRule
  BY <1>1 DEF NoRule
<1>3. \A j \in 0..Len(rule) : Prefix(rule, j) \in Seq(Token)
  BY <1>1 DEF Prefix
<1>4. Prefix(rule, Len(rule)) = rule
  BY <1>1 DEF Prefix
<1>5. \A n \in 0..Len(rule) : Path(rule, n) \subseteq Seq(Token)
  BY <1>1, <1>3 DEF Path
<1>6. rule \in Path(rule, Len(rule))
  BY <1>1, <1>4 DEF Path
<1> QED BY <1>1, <1>2, <1>5, <1>6 DEF Lengths

(* A state on the path of a rule is a prefix of that rule and of itself.   *)
LEMMA PathPrefix ==
    ASSUME NEW rule \in Rules, NEW m \in Path(rule, Len(rule))
    PROVE  IsPrefix(m, rule) /\ IsPrefix(m, m) /\ m \in Seq(Token)
<1>1. rule \in Seq(Token) /\ Len(rule) \in Nat
  BY RuleFacts
<1>2. PICK j \in 0..Len(rule) : m = Prefix(rule, j)
  BY DEF Path
<1>3. m \in Seq(Token) /\ Len(m) = j
  BY <1>1, <1>2 DEF Prefix
<1>4. Prefix(m, Len(m)) = m
  BY <1>3 DEF Prefix
<1> QED BY <1>1, <1>2, <1>3, <1>4 DEF IsPrefix

(* A set of ids that is not empty has a least id.                          *)
LEMMA LeastId ==
    ASSUME NEW S \in SUBSET Nat, S # {}
    PROVE  \E i \in S : \A j \in S : i <= j
<1>1. PICK i \in S : \A j \in S : ~ (<<j, i>> \in OpToRel(<, Nat))
  BY WFMin, NatLessThanWellFounded
<1>2. \A j \in S : ~ (j < i)
  BY <1>1 DEF OpToRel
<1> QED BY <1>2

LEMMA IdFacts ==
    /\ Ids \subseteq Nat /\ NoId \notin Ids
    /\ \A i \in Ids : i < MaxPatterns
    /\ IsFiniteSet(Ids) /\ Cardinality(Ids) = MaxPatterns
<1>1. MaxPatterns \in Nat \ {0}
  BY LimitsAssumption
<1>2. IsFiniteSet(Ids) /\ Cardinality(Ids) = MaxPatterns
  BY <1>1, FS_Interval DEF Ids
<1> QED BY <1>1, <1>2 DEF Ids, NoId

(* The sets the counters count are finite.                                 *)
LEMMA FiniteIds ==
    ASSUME NEW P
    PROVE  /\ IsFiniteSet(ActiveIds(P))
           /\ Cardinality(ActiveIds(P)) \in Nat
           /\ Cardinality(ActiveIds(P)) <= MaxPatterns
<1>1. ActiveIds(P) \in SUBSET Ids
  BY DEF ActiveIds
<1> QED BY <1>1, IdFacts, FS_Subset, FS_CardinalityType

(* Active ids and accepting rules are two views of one set.                *)
LEMMA ActiveAccepting ==
    ASSUME NEW P, Typed(P), Registered(P)
    PROVE  /\ ActiveRules(P) = Accepting(P)
           /\ \A i \in ActiveIds(P) : P.reg[i] \in Accepting(P)
           /\ \A r \in Accepting(P) :
                  P.pid[r] \in ActiveIds(P) /\ P.reg[P.pid[r]] = r
<1>1. ASSUME NEW i \in ActiveIds(P) PROVE P.reg[i] \in Accepting(P)
  <2>1. i \in Ids /\ P.reg[i] \in Rules
    BY DEF ActiveIds, Typed
  <2>2. P.pid[P.reg[i]] = i /\ i # NoId
    BY <2>1, IdFacts DEF Registered
  <2> QED BY <2>1, <2>2 DEF Accepting
<1>2. ASSUME NEW r \in Accepting(P)
      PROVE  P.pid[r] \in ActiveIds(P) /\ P.reg[P.pid[r]] = r
  <2>1. r \in Rules /\ P.pid[r] \in Ids
    BY DEF Accepting, Typed
  <2>2. P.reg[P.pid[r]] = r /\ r # NoRule
    BY <2>1, RuleFacts DEF Registered
  <2> QED BY <2>1, <2>2 DEF ActiveIds
<1>3. ActiveRules(P) = Accepting(P)
  BY <1>1, <1>2 DEF ActiveRules
<1> QED BY <1>1, <1>2, <1>3

LEMMA AcceptingCount ==
    ASSUME NEW P, Typed(P), Registered(P)
    PROVE  /\ IsFiniteSet(Accepting(P))
           /\ Cardinality(Accepting(P)) = Cardinality(ActiveIds(P))
<1> DEFINE f == [i \in ActiveIds(P) |-> P.reg[i]]
<1>1. f \in [ActiveIds(P) -> Accepting(P)]
  BY ActiveAccepting
<1>2. ASSUME NEW i \in ActiveIds(P), NEW j \in ActiveIds(P), f[i] = f[j]
      PROVE  i = j
  BY <1>2 DEF Registered
<1>3. \A r \in Accepting(P) : \E i \in ActiveIds(P) : f[i] = r
  BY ActiveAccepting
<1>4. f \in Bijection(ActiveIds(P), Accepting(P))
  BY <1>1, <1>2, <1>3 DEF Bijection, Injection, Surjection, IsInjective
<1>5. ExistsBijection(ActiveIds(P), Accepting(P))
  BY <1>4 DEF ExistsBijection
<1> QED BY <1>5, FiniteIds, FS_Bijection

LEMMA WildFinite ==
    ASSUME NEW P, Typed(P), Registered(P), NEW n
    PROVE  IsFiniteSet(WildRules(P, n)) /\ Cardinality(WildRules(P, n)) \in Nat
<1>1. WildRules(P, n) \in SUBSET Accepting(P)
  BY DEF WildRules
<1> QED BY <1>1, AcceptingCount, FS_Subset, FS_CardinalityType

-------------------------------------------------------------------------------
(* The storage operations keep the storage consistent.                     *)

SameRegistry(P, Q) ==
    /\ Q.pid = P.pid /\ Q.reg = P.reg /\ Q.slots = P.slots
    /\ Q.bucket = P.bucket /\ Q.wild = P.wild /\ Q.count = P.count

LEMMA StoredKeeps ==
    ASSUME NEW P, Stored(P), NEW Q, IsPolicy(Q), SameRegistry(P, Q),
           P.nodes \subseteq Q.nodes, Q.nodes \subseteq Seq(Token)
    PROVE  /\ Stored(Q) /\ ActiveIds(Q) = ActiveIds(P)
           /\ ActiveRules(Q) = ActiveRules(P)
<1>1. ActiveIds(Q) = ActiveIds(P) /\ Accepting(Q) = Accepting(P)
  BY DEF SameRegistry, ActiveIds, Accepting
<1>2. ActiveRules(Q) = ActiveRules(P)
  BY <1>1 DEF SameRegistry, ActiveRules
<1>3. \A n : WildRules(Q, n) = WildRules(P, n)
  BY <1>1 DEF WildRules
<1>4. Typed(Q)
  BY DEF Stored, Typed, SameRegistry
<1>5. Registered(Q)
  BY <1>1 DEF Stored, Registered, SameRegistry
<1>6. Counted(Q)
  BY <1>1, <1>3 DEF Stored, Counted, SameRegistry
<1> QED BY <1>1, <1>2, <1>4, <1>5, <1>6 DEF Stored

LEMMA EmptyStored ==
    /\ Stored(EmptyPolicy) /\ ActiveIds(EmptyPolicy) = {}
    /\ ActiveRules(EmptyPolicy) = {} /\ EmptyPolicy.nodes = {<<>>}
<1> DEFINE E == EmptyPolicy
<1>1. ActiveIds(E) = {} /\ Accepting(E) = {}
  BY DEF EmptyPolicy, ActiveIds, Accepting
<1>2. ActiveRules(E) = {} /\ \A n : WildRules(E, n) = {}
  BY <1>1 DEF ActiveRules, WildRules
<1>3. Typed(E)
  <2>1. <<>> \in Seq(Token)
    OBVIOUS
  <2> QED BY <2>1 DEF EmptyPolicy, Typed
<1>4. Registered(E)
  BY <1>1 DEF Registered
<1>5. Counted(E)
  <2>1. /\ E.bucket = [n \in Lengths |-> {}] /\ E.count = 0
        /\ E.wild = [n \in Lengths |-> 0]
    BY DEF EmptyPolicy
  <2> HIDE DEF E
  <2> QED BY <2>1, <1>1, <1>2, FS_EmptySet DEF Counted
<1> QED
  BY <1>1, <1>2, <1>3, <1>4, <1>5, EmptyFields DEF Stored, EmptyPolicy

LEMMA ExtendStored ==
    ASSUME NEW P, Stored(P), NEW rule \in Rules, NEW n \in 0..Len(rule),
           NEW lost
    PROVE  LET Q == Extend(P, rule, n, lost) IN
           /\ Stored(Q) /\ SameRegistry(P, Q)
           /\ ActiveIds(Q) = ActiveIds(P) /\ ActiveRules(Q) = ActiveRules(P)
           /\ Q.nodes = P.nodes \cup Path(rule, n)
<1> DEFINE Q == Extend(P, rule, n, lost)
<1>1. SameRegistry(P, Q)
  BY DEF Stored, IsPolicy, Fields, Extend, SameRegistry
<1>2. IsPolicy(Q) /\ Q.nodes = P.nodes \cup Path(rule, n)
  <2>1. IsPolicy(P)
    BY DEF Stored
  <2> QED BY <2>1 DEF Extend, IsPolicy, Fields
<1>3. Q.nodes \subseteq Seq(Token)
  BY <1>2, RuleFacts DEF Stored, Typed
<1> HIDE DEF Q
<1>4. /\ Stored(Q) /\ ActiveIds(Q) = ActiveIds(P)
      /\ ActiveRules(Q) = ActiveRules(P)
  BY <1>1, <1>2, <1>3, StoredKeeps
<1> QED BY <1>1, <1>2, <1>4 DEF Q

(* While fewer than all rules are active there is a free id.               *)
LEMMA FreeIdExists ==
    ASSUME NEW P, Stored(P), P.count < MaxPatterns \/ P.slots < MaxPatterns
    PROVE  FreeId(P) \in Ids /\ P.reg[FreeId(P)] = NoRule
<1> DEFINE free == {i \in Ids : P.reg[i] = NoRule}
<1>1. free # {}
  <2>1. CASE P.count < MaxPatterns
    <3>1. ActiveIds(P) # Ids
      BY <2>1, IdFacts, LimitsAssumption DEF Stored, Counted
    <3> QED BY <3>1 DEF ActiveIds
  <2>2. CASE P.slots < MaxPatterns
    <3>1. P.slots \in Ids
      BY <2>2, LimitsAssumption DEF Stored, Typed, Ids
    <3>2. P.slots \notin ActiveIds(P)
      BY <3>1, IdFacts DEF Stored, Registered
    <3> QED BY <3>1, <3>2 DEF ActiveIds
  <2> QED BY <2>1, <2>2
<1>2. \E i \in free : \A j \in free : i <= j
  <2>1. free \in SUBSET Nat
    BY IdFacts
  <2> HIDE DEF free
  <2> QED BY <1>1, <2>1, LeastId
<1>3. \E i \in Ids : P.reg[i] = NoRule
                     /\ \A j \in Ids : P.reg[j] = NoRule => i <= j
  BY <1>2
<1> QED BY <1>3 DEF FreeId

LEMMA CommitStored ==
    ASSUME NEW P, Stored(P), NEW rule \in Rules, rule \notin ActiveRules(P),
           Path(rule, Len(rule)) \subseteq P.nodes,
           P.count < MaxPatterns \/ P.slots < MaxPatterns
    PROVE  LET Q == Commit(P, rule) IN
           /\ Stored(Q) /\ Q.nodes = P.nodes
           /\ ActiveRules(Q) = ActiveRules(P) \cup {rule}
           /\ \A i \in ActiveIds(P) : i \in ActiveIds(Q) /\ Q.reg[i] = P.reg[i]
<1> DEFINE id == FreeId(P)
           Q  == Commit(P, rule)
           n  == Len(rule)
<1>1. id \in Ids /\ P.reg[id] = NoRule /\ id \notin ActiveIds(P)
  BY FreeIdExists DEF ActiveIds
<1>2. /\ rule \in Seq(Token) /\ n \in Lengths /\ rule # NoRule
      /\ id \in Nat /\ id # NoId /\ P.slots \in Nat
      /\ P.wild \in [Lengths -> Int]
  BY <1>1, RuleFacts, IdFacts DEF Stored, Typed
<1>3. /\ IsPolicy(Q) /\ Q.nodes = P.nodes
      /\ Q.pid = [P.pid EXCEPT ![rule] = id]
      /\ Q.reg = [P.reg EXCEPT ![id] = rule]
      /\ Q.slots = IF id >= P.slots THEN id + 1 ELSE P.slots
      /\ Q.bucket = [P.bucket EXCEPT ![n] = P.bucket[n] \cup {id}]
      /\ Q.wild = [P.wild EXCEPT ![n] = IF HasWildcard(rule)
                                        THEN P.wild[n] + 1 ELSE P.wild[n]]
      /\ Q.count = P.count + 1
  BY DEF Commit, Stored, IsPolicy, Fields
<1> HIDE DEF id, Q
<1>4. /\ P.pid \in [Rules -> Ids \cup {NoId}]
      /\ P.reg \in [Ids -> Rules \cup {NoRule}]
  BY DEF Stored, Typed
<1>5. ActiveIds(Q) = ActiveIds(P) \cup {id}
  BY <1>1, <1>2, <1>3, <1>4 DEF ActiveIds
<1>6. \A i \in ActiveIds(P) : i \in ActiveIds(Q) /\ Q.reg[i] = P.reg[i]
  BY <1>1, <1>3, <1>4, <1>5 DEF ActiveIds
<1>7. Q.reg[id] = rule /\ Q.pid[rule] = id
  BY <1>1, <1>3, <1>4
<1>8. ActiveRules(Q) = ActiveRules(P) \cup {rule}
  BY <1>5, <1>6, <1>7 DEF ActiveRules
<1>9. rule \notin Accepting(P) /\ Accepting(Q) = Accepting(P) \cup {rule}
  <2>1. rule \notin Accepting(P)
    BY ActiveAccepting DEF Stored
  <2> QED BY <2>1, <1>2, <1>3, <1>4 DEF Accepting
<1>10. Typed(Q)
  BY <1>1, <1>2, <1>3, <1>4 DEF Stored, Typed
<1>11. Registered(Q)
  <2>1. ASSUME NEW i \in ActiveIds(Q)
        PROVE  /\ Q.pid[Q.reg[i]] = i
               /\ Path(Q.reg[i], Len(Q.reg[i])) \subseteq Q.nodes
               /\ i < Q.slots
    <3>1. CASE i = id
      BY <1>2, <1>3, <1>7, <3>1
    <3>2. CASE i \in ActiveIds(P)
      <4>1. P.reg[i] # rule /\ P.reg[i] \in Rules /\ i \in Nat
        BY <3>2, <1>4, IdFacts DEF ActiveRules, ActiveIds
      <4>2. P.pid[P.reg[i]] = i /\ i < P.slots
            /\ Path(P.reg[i], Len(P.reg[i])) \subseteq P.nodes
        BY <3>2 DEF Stored, Registered
      <4>3. Q.reg[i] = P.reg[i]
        BY <3>2, <1>6
      <4>4. Q.pid[Q.reg[i]] = i
        BY <4>1, <4>2, <4>3, <1>3, <1>4
      <4>5. i < Q.slots
        BY <4>1, <4>2, <1>2, <1>3
      <4> QED BY <4>2, <4>3, <4>4, <4>5, <1>3
    <3> QED BY <3>1, <3>2, <1>5
  <2>2. ASSUME NEW r \in Accepting(Q) PROVE Q.reg[Q.pid[r]] = r
    <3>1. CASE r = rule
      BY <3>1, <1>7
    <3>2. CASE r # rule
      <4>1. r \in Accepting(P)
        BY <3>2, <1>9
      <4>2. P.pid[r] \in ActiveIds(P) /\ P.reg[P.pid[r]] = r
        BY <4>1, ActiveAccepting DEF Stored
      <4>3. Q.pid[r] = P.pid[r]
        BY <3>2, <1>3, <1>4, <4>1 DEF Accepting
      <4> QED BY <4>2, <4>3, <1>6
    <3> QED BY <3>1, <3>2
  <2> QED BY <2>1, <2>2 DEF Registered
<1>12. Counted(Q)
  <2>1. Q.bucket = [k \in Lengths |-> {i \in ActiveIds(Q) : Len(Q.reg[i]) = k}]
    <3>1. P.bucket = [k \in Lengths |-> {i \in ActiveIds(P) : Len(P.reg[i]) = k}]
      BY DEF Stored, Counted
    <3>2. ASSUME NEW k \in Lengths
          PROVE  Q.bucket[k] = {i \in ActiveIds(Q) : Len(Q.reg[i]) = k}
      <4>1. CASE k = n
        BY <4>1, <3>1, <1>2, <1>3, <1>5, <1>6, <1>7
      <4>2. CASE k # n
        BY <4>2, <3>1, <1>2, <1>3, <1>5, <1>6, <1>7
      <4> QED BY <4>1, <4>2
    <3>3. Q.bucket = [k \in Lengths |-> Q.bucket[k]]
      BY <3>1, <1>3
    <3> QED BY <3>2, <3>3
  <2>2. ASSUME NEW k \in Lengths PROVE Cardinality(WildRules(Q, k)) <= Q.wild[k]
    <3>1. /\ IsFiniteSet(WildRules(P, k)) /\ Cardinality(WildRules(P, k)) \in Nat
          /\ Cardinality(WildRules(P, k)) <= P.wild[k]
          /\ P.wild[k] \in Int
      BY <1>2, WildFinite DEF Stored, Counted
    <3>2. CASE k = n /\ HasWildcard(rule)
      <4>1. WildRules(Q, k) = WildRules(P, k) \cup {rule}
        BY <3>2, <1>9 DEF WildRules
      <4>2. rule \notin WildRules(P, k)
        BY <1>9 DEF WildRules
      <4>3. Cardinality(WildRules(Q, k)) = Cardinality(WildRules(P, k)) + 1
        BY <3>1, <4>1, <4>2, FS_AddElement
      <4>4. Q.wild[k] = P.wild[k] + 1
        BY <3>2, <1>2, <1>3
      <4> QED BY <3>1, <4>3, <4>4
    <3>3. CASE ~(k = n /\ HasWildcard(rule))
      <4>1. WildRules(Q, k) = WildRules(P, k)
        BY <3>3, <1>9 DEF WildRules
      <4>2. Q.wild[k] = P.wild[k]
        BY <3>3, <1>2, <1>3
      <4> QED BY <3>1, <4>1, <4>2
    <3> QED BY <3>2, <3>3
  <2>3. Q.count = Cardinality(ActiveIds(Q))
    <3>1. Cardinality(ActiveIds(Q)) = Cardinality(ActiveIds(P)) + 1
      BY <1>1, <1>5, FiniteIds, FS_AddElement
    <3> QED BY <3>1, <1>3 DEF Stored, Counted
  <2> QED BY <2>1, <2>2, <2>3 DEF Counted
<1> QED BY <1>3, <1>6, <1>8, <1>10, <1>11, <1>12 DEF Stored, Q

(* A removal takes out exactly the given active ids; the path of every     *)
(* other rule survives the pruning.                                        *)
LEMMA RemoveStored ==
    ASSUME NEW P, Stored(P), NEW ids \in SUBSET ActiveIds(P)
    PROVE  LET Q == RemoveIds(P, ids) IN
           /\ Stored(Q)
           /\ ActiveIds(Q) = ActiveIds(P) \ ids
           /\ ActiveRules(Q) = ActiveRules(P) \ {P.reg[i] : i \in ids}
           /\ \A i \in ActiveIds(Q) : Q.reg[i] = P.reg[i]
           /\ Q.count = P.count - Cardinality(ids)
           /\ ids = {} => \A m \in P.nodes : IsPrefix(m, m) => m \in Q.nodes
<1> DEFINE rules == Removed(P, ids)
           gone  == {P.pid[r] : r \in rules}
           Q     == RemoveIds(P, ids)
           W(n)  == {r \in rules : Len(r) = n /\ HasWildcard(r)}
<1>1. ASSUME NEW i \in ActiveIds(P)
      PROVE  /\ i \in Ids /\ P.reg[i] \in Rules /\ P.reg[i] # NoRule
             /\ P.reg[i] \in P.nodes /\ P.pid[P.reg[i]] = i
  <2>1. i \in Ids /\ P.reg[i] \in Rules /\ P.reg[i] # NoRule
    BY DEF ActiveIds, Stored, Typed
  <2>2. /\ P.pid[P.reg[i]] = i
        /\ Path(P.reg[i], Len(P.reg[i])) \subseteq P.nodes
    BY DEF Stored, Registered
  <2> QED BY <2>1, <2>2, RuleFacts
<1>2. rules = {P.reg[i] : i \in ids}
  BY <1>1 DEF Removed
<1>3. gone = ids
  BY <1>1, <1>2
<1>4. /\ IsPolicy(Q)
      /\ Q.nodes = {m \in P.nodes : ~Dead(P, rules, m)}
      /\ Q.pid = [r \in Rules |-> IF r \in rules THEN NoId ELSE P.pid[r]]
      /\ Q.reg = [i \in Ids |-> IF i \in gone THEN NoRule ELSE P.reg[i]]
      /\ Q.slots = P.slots
      /\ Q.bucket = [n \in Lengths |-> P.bucket[n] \ gone]
      /\ Q.wild = [n \in Lengths |-> P.wild[n] - Cardinality(W(n))]
      /\ Q.count = P.count - Cardinality(gone)
  BY DEF RemoveIds, Stored, IsPolicy, Fields
<1>5. /\ P.pid \in [Rules -> Ids \cup {NoId}]
      /\ P.reg \in [Ids -> Rules \cup {NoRule}]
      /\ P.slots \in Nat /\ P.wild \in [Lengths -> Int]
      /\ rules \subseteq Accepting(P)
  <2>1. rules \subseteq Accepting(P)
    BY <1>1, <1>2, IdFacts DEF Accepting
  <2> QED BY <2>1 DEF Stored, Typed
<1> HIDE DEF rules, gone, Q
<1>6. ActiveIds(Q) = ActiveIds(P) \ ids
  BY <1>3, <1>4, <1>5 DEF ActiveIds
<1>7. \A i \in ActiveIds(Q) : Q.reg[i] = P.reg[i]
  BY <1>3, <1>4, <1>6 DEF ActiveIds
<1>8. ActiveRules(Q) = ActiveRules(P) \ rules
  BY <1>1, <1>2, <1>6, <1>7 DEF ActiveRules
<1>9. Accepting(Q) = Accepting(P) \ rules
  BY <1>4, <1>5 DEF Accepting
<1>10. Typed(Q)
  <2>1. Q.nodes \subseteq Seq(Token)
    BY <1>4 DEF Stored, Typed
  <2>2. \A n \in Lengths : Cardinality(W(n)) \in Nat
    <3>1. ASSUME NEW n \in Lengths
          PROVE  W(n) \in SUBSET WildRules(P, n)
      BY <1>5 DEF WildRules
    <3>2. ASSUME NEW n \in Lengths
          PROVE  IsFiniteSet(WildRules(P, n))
      BY WildFinite DEF Stored
    <3> QED BY <3>1, <3>2, FS_Subset, FS_CardinalityType
  <2>3. Q.wild \in [Lengths -> Int]
    BY <1>4, <1>5, <2>2
  <2> QED BY <1>4, <1>5, <2>1, <2>3 DEF Typed
<1>11. Registered(Q)
  <2>1. ASSUME NEW i \in ActiveIds(Q)
        PROVE  /\ Q.pid[Q.reg[i]] = i
               /\ Path(Q.reg[i], Len(Q.reg[i])) \subseteq Q.nodes
               /\ i < Q.slots
    <3> DEFINE s == P.reg[i]
    <3>1. /\ i \in ActiveIds(P) /\ i \notin ids
          /\ Q.reg[i] = s /\ s \in Rules /\ P.pid[s] = i /\ i \in Ids
      BY <1>1, <1>6, <1>7
    <3>2. s \notin rules
      BY <1>1, <1>2, <3>1
    <3>3. Path(s, Len(s)) \subseteq P.nodes /\ i < P.slots
      BY <3>1 DEF Stored, Registered
    <3>4. ASSUME NEW m \in Path(s, Len(s)) PROVE ~Dead(P, rules, m)
      <4>1. s \in P.nodes /\ IsPrefix(m, s)
        BY <1>1, <3>1, PathPrefix
      <4>2. P.pid[s] # NoId
        BY <3>1, IdFacts
      <4> QED BY <3>1, <3>2, <4>1, <4>2 DEF Dead
    <3>5. Q.pid[s] = i
      BY <1>4, <3>1, <3>2
    <3> QED BY <1>4, <3>1, <3>3, <3>4, <3>5
  <2>2. ASSUME NEW r \in Accepting(Q) PROVE Q.reg[Q.pid[r]] = r
    <3>1. r \in Accepting(P) /\ r \notin rules
      BY <1>9
    <3>2. P.pid[r] \in ActiveIds(P) /\ P.reg[P.pid[r]] = r
      BY <3>1, ActiveAccepting DEF Stored
    <3>3. P.pid[r] \notin ids
      BY <1>2, <3>1, <3>2
    <3>4. Q.pid[r] = P.pid[r]
      BY <1>4, <3>1 DEF Accepting
    <3> QED BY <1>6, <1>7, <3>2, <3>3, <3>4
  <2> QED BY <2>1, <2>2 DEF Registered
<1>12. Counted(Q)
  <2>1. Q.bucket = [k \in Lengths |-> {i \in ActiveIds(Q) : Len(Q.reg[i]) = k}]
    <3>1. P.bucket = [k \in Lengths |-> {i \in ActiveIds(P) : Len(P.reg[i]) = k}]
      BY DEF Stored, Counted
    <3>2. ASSUME NEW k \in Lengths
          PROVE  Q.bucket[k] = {i \in ActiveIds(Q) : Len(Q.reg[i]) = k}
      BY <3>1, <1>3, <1>4, <1>6, <1>7
    <3> QED BY <3>2, <1>4
  <2>2. ASSUME NEW k \in Lengths PROVE Cardinality(WildRules(Q, k)) <= Q.wild[k]
    <3>1. /\ IsFiniteSet(WildRules(P, k)) /\ Cardinality(WildRules(P, k)) \in Nat
          /\ Cardinality(WildRules(P, k)) <= P.wild[k]
          /\ P.wild[k] \in Int
      BY <1>5, WildFinite DEF Stored, Counted
    <3>2. WildRules(Q, k) = WildRules(P, k) \ W(k)
      BY <1>9 DEF WildRules
    <3>3. WildRules(P, k) \cap W(k) = W(k)
      BY <1>5 DEF WildRules
    <3> DEFINE all == WildRules(P, k)
               out == W(k)
    <3>4. Cardinality(all \ out) = Cardinality(all) - Cardinality(all \cap out)
      <4>1. IsFiniteSet(all)
        BY <3>1
      <4> HIDE DEF all, out
      <4> QED BY <4>1, FS_Difference
    <3>5. Cardinality(W(k)) \in Nat
      <4>1. W(k) \in SUBSET WildRules(P, k)
        BY <3>3
      <4> QED BY <3>1, <4>1, FS_Subset, FS_CardinalityType
    <3>6. Q.wild[k] = P.wild[k] - Cardinality(W(k))
      BY <1>4
    <3> HIDE DEF W
    <3> QED BY <3>1, <3>2, <3>3, <3>4, <3>5, <3>6
  <2>3. Q.count = Cardinality(ActiveIds(Q))
    <3>1. IsFiniteSet(ActiveIds(P))
      BY FiniteIds
    <3>2. Cardinality(ActiveIds(P) \ ids) =
              Cardinality(ActiveIds(P)) - Cardinality(ActiveIds(P) \cap ids)
      BY <3>1, FS_Difference
    <3>3. ActiveIds(P) \cap ids = ids
      OBVIOUS
    <3> QED BY <1>3, <1>4, <1>6, <3>2, <3>3 DEF Stored, Counted
  <2> QED BY <2>1, <2>2, <2>3 DEF Counted
<1>13. ids = {} => \A m \in P.nodes : IsPrefix(m, m) => m \in Q.nodes
  BY <1>2, <1>4 DEF Dead
<1>14. Stored(Q)
  BY <1>4, <1>10, <1>11, <1>12 DEF Stored
<1> QED
  BY <1>2, <1>3, <1>4, <1>6, <1>7, <1>8, <1>13, <1>14 DEF Q

(* The removed ids are no longer counted.                                  *)
LEMMA RemovedCount ==
    ASSUME NEW P, Stored(P), NEW ids \in SUBSET ActiveIds(P), ids # {}
    PROVE  RemoveIds(P, ids).count < MaxPatterns
<1>1. IsFiniteSet(ids) /\ Cardinality(ids) \in Nat /\ Cardinality(ids) # 0
  BY FiniteIds, FS_Subset, FS_CardinalityType, FS_EmptySet
<1>2. P.count <= MaxPatterns /\ P.count \in Nat
  BY FiniteIds DEF Stored, Counted
<1>3. RemoveIds(P, ids).count = P.count - Cardinality(ids)
  BY RemoveStored
<1> QED BY <1>1, <1>2, <1>3, LimitsAssumption

-------------------------------------------------------------------------------
(* The decisions and the effect of st_policy_add_locked_view.              *)

(* A bucket scan, and the shortcut that avoids it, decide over exactly the *)
(* active rules.                                                           *)
LEMMA ScanExact ==
    ASSUME NEW P, Stored(P), NEW rule \in Rules
    PROVE  /\ Redundant(P, rule) <=>
                  \E a \in ActiveRules(P) : Subsumes(a, rule)
           /\ Subsumed(P, rule) \subseteq ActiveIds(P)
           /\ ~Redundant(P, rule) =>
                  {P.reg[i] : i \in Subsumed(P, rule)} =
                      {a \in ActiveRules(P) : Subsumes(rule, a)}
<1> DEFINE n == Len(rule)
<1>1. n \in Lengths /\ rule \in P.nodes \cup Path(rule, n)
  BY RuleFacts
<1>2. P.bucket[n] = {i \in ActiveIds(P) : Len(P.reg[i]) = n}
  BY <1>1 DEF Stored, Counted
<1>3. \A i \in ActiveIds(P) : P.reg[i] # NoRule /\ P.reg[i] \in Rules
  BY DEF ActiveIds, Stored, Typed
<1>4. CASE NeedsScan(P, rule)
  <2>1. Redundant(P, rule) <=>
            \E i \in ActiveIds(P) : Len(P.reg[i]) = n /\ Subsumes(P.reg[i], rule)
    BY <1>2, <1>3, <1>4 DEF Redundant
  <2>2. Subsumed(P, rule) =
            {i \in ActiveIds(P) : Len(P.reg[i]) = n /\ Subsumes(rule, P.reg[i])}
    BY <1>2, <1>3, <1>4 DEF Subsumed
  <2>3. \A a : /\ Subsumes(a, rule) => Len(a) = n
               /\ Subsumes(rule, a) => Len(a) = n
    BY DEF Subsumes
  <2> QED BY <2>1, <2>2, <2>3 DEF ActiveRules
<1>5. CASE ~NeedsScan(P, rule)
  <2>1. PlainLiteral(rule) /\ P.wild[n] = 0
    BY <1>5 DEF NeedsScan
  <2>2. WildRules(P, n) = {}
    <3>1. /\ IsFiniteSet(WildRules(P, n)) /\ Cardinality(WildRules(P, n)) \in Nat
          /\ Cardinality(WildRules(P, n)) <= P.wild[n]
      BY <1>1, WildFinite DEF Stored, Counted
    <3> QED BY <2>1, <3>1, FS_EmptySet
  <2>3. ActiveRules(P) = Accepting(P)
    BY ActiveAccepting DEF Stored
  <2>4. ASSUME NEW a \in ActiveRules(P), Subsumes(a, rule) PROVE a = rule
    <3>1. Len(a) = n /\ a \in Rules
      BY <2>3, <2>4 DEF Subsumes, Accepting
    <3>2. ~HasWildcard(a)
      BY <2>2, <2>3, <3>1 DEF WildRules
    <3> QED BY <2>1, <2>4, <3>1, <3>2, PlainAlone
  <2>5. ASSUME NEW a \in ActiveRules(P), Subsumes(rule, a) PROVE a = rule
    BY <2>1, <2>3, <2>5, PlainAlone DEF Accepting
  <2>6. Redundant(P, rule) <=> rule \in ActiveRules(P)
    <3>1. Redundant(P, rule) <=> rule \in P.nodes /\ P.pid[rule] # NoId
      BY <1>5 DEF Redundant
    <3>2. ASSUME rule \in ActiveRules(P) PROVE rule \in P.nodes
      <4>1. PICK i \in ActiveIds(P) : P.reg[i] = rule
        BY <3>2 DEF ActiveRules
      <4>2. Path(rule, n) \subseteq P.nodes
        BY <4>1 DEF Stored, Registered
      <4> QED BY <4>2, RuleFacts
    <3> QED BY <2>3, <3>1, <3>2 DEF Accepting
  <2>7. Subsumes(rule, rule)
    BY SubsumesSelf
  <2>8. Subsumed(P, rule) = {}
    BY <1>5 DEF Subsumed
  <2> QED BY <2>4, <2>5, <2>6, <2>7, <2>8
<1> QED BY <1>4, <1>5

(* An add that is neither redundant nor refused replaces the rules it      *)
(* covers by the new one, whatever order registry exhaustion imposes.      *)
LEMMA AddStored ==
    ASSUME NEW P, Stored(P), NEW rule \in Rules, NEW lost,
           ~Redundant(P, rule), ~AtLimit(P, rule)
    PROVE  LET Q == AddRule(P, rule, lost) IN
           /\ Stored(Q)
           /\ ActiveRules(Q) =
                  {a \in ActiveRules(P) : ~Subsumes(rule, a)} \cup {rule}
           /\ /\ Subsumed(P, rule) = {}
              /\ \A m \in P.nodes : IsPrefix(m, m)
              => Q.nodes = P.nodes \cup Path(rule, Len(rule))
<1> DEFINE n   == Len(rule)
           E   == Extend(P, rule, n, lost)
           old == Subsumed(P, rule)
           A   == Commit(RemoveIds(E, old), rule)
           B   == RemoveIds(Commit(E, rule), old)
           Q   == IF P.slots >= MaxPatterns /\ old # {} THEN A ELSE B
           kept == {a \in ActiveRules(P) : ~Subsumes(rule, a)}
<1>1. n \in 0..n
  BY RuleFacts
<1>2. /\ Stored(E) /\ SameRegistry(P, E)
      /\ ActiveIds(E) = ActiveIds(P) /\ ActiveRules(E) = ActiveRules(P)
      /\ E.nodes = P.nodes \cup Path(rule, n)
  BY <1>1, ExtendStored
<1>3. /\ old \in SUBSET ActiveIds(P)
      /\ {P.reg[i] : i \in old} = {a \in ActiveRules(P) : Subsumes(rule, a)}
      /\ rule \notin ActiveRules(P)
  BY ScanExact, SubsumesSelf
<1>4. {E.reg[i] : i \in old} = {a \in ActiveRules(P) : Subsumes(rule, a)}
  BY <1>2, <1>3 DEF SameRegistry
<1> HIDE DEF E, old
<1>5. ASSUME P.slots >= MaxPatterns, old # {}
      PROVE  Stored(A) /\ ActiveRules(A) = kept \cup {rule}
  <2> DEFINE R == RemoveIds(E, old)
  <2>1. old \in SUBSET ActiveIds(E)
    BY <1>2, <1>3
  <2>2. /\ Stored(R) /\ ActiveRules(R) = kept
        /\ R.count < MaxPatterns
    <3>1. /\ Stored(R)
          /\ ActiveRules(R) = ActiveRules(E) \ {E.reg[i] : i \in old}
      BY <1>2, <2>1, RemoveStored
    <3>2. R.count < MaxPatterns
      BY <1>2, <1>5, <2>1, RemovedCount
    <3> QED BY <1>2, <1>4, <3>1, <3>2
  <2>3. Path(rule, n) \subseteq R.nodes
    <3>1. R.nodes = {m \in E.nodes : ~Dead(E, Removed(E, old), m)}
      BY <1>2 DEF RemoveIds, Stored, IsPolicy, Fields
    <3>2. ASSUME NEW r \in Removed(E, old) PROVE ~IsPrefix(rule, r)
      <4>1. r \in ActiveRules(P) /\ Subsumes(rule, r)
        BY <1>4 DEF Removed
      <4>2. r \in Rules
        BY <4>1, ActiveAccepting DEF Stored, Accepting
      <4>3. /\ r # rule /\ Len(r) = n
            /\ r \in Seq(Token)
        BY <1>3, <4>1, <4>2, RuleFacts DEF Subsumes
      <4>4. Prefix(r, n) = r
        BY <4>3 DEF Prefix
      <4> QED BY <4>3, <4>4 DEF IsPrefix
    <3>3. ASSUME NEW m \in Path(rule, n) PROVE ~Dead(E, Removed(E, old), m)
      <4>1. rule \in E.nodes /\ IsPrefix(m, rule)
        BY <1>2, RuleFacts, PathPrefix
      <4> QED BY <3>2, <4>1 DEF Dead
    <3> QED BY <1>2, <3>1, <3>3
  <2> HIDE DEF R
  <2>4. rule \notin kept
    BY <1>3
  <2> QED BY <2>2, <2>3, <2>4, CommitStored DEF R
<1>6. ASSUME ~(P.slots >= MaxPatterns /\ old # {})
      PROVE  /\ Stored(B) /\ ActiveRules(B) = kept \cup {rule}
             /\ old = {} /\ (\A m \in P.nodes : IsPrefix(m, m)) =>
                    P.nodes \cup Path(rule, n) \subseteq B.nodes
  <2> DEFINE C == Commit(E, rule)
  <2>1. E.count < MaxPatterns \/ E.slots < MaxPatterns
    <3>1. CASE old = {}
      <4>1. P.count < MaxPatterns
        <5>1. P.count \in Nat
          BY FiniteIds DEF Stored, Counted
        <5> QED BY <3>1, <5>1, LimitsAssumption DEF AtLimit, old
      <4> QED BY <4>1, <1>2 DEF SameRegistry
    <3>2. CASE P.slots < MaxPatterns
      BY <3>2, <1>2 DEF SameRegistry
    <3>3. P.slots \in Nat
      BY DEF Stored, Typed
    <3> QED BY <1>6, <3>1, <3>2, <3>3, LimitsAssumption
  <2>2. /\ Stored(C) /\ C.nodes = E.nodes
        /\ ActiveRules(C) = ActiveRules(P) \cup {rule}
        /\ \A i \in ActiveIds(P) : i \in ActiveIds(C) /\ C.reg[i] = E.reg[i]
    BY <1>2, <1>3, <2>1, CommitStored
  <2> HIDE DEF C
  <2>3. old \in SUBSET ActiveIds(C) /\ {C.reg[i] : i \in old} =
            {a \in ActiveRules(P) : Subsumes(rule, a)}
    BY <1>3, <1>4, <2>2
  <2>4. /\ Stored(RemoveIds(C, old))
        /\ ActiveRules(RemoveIds(C, old)) =
               ActiveRules(C) \ {C.reg[i] : i \in old}
        /\ old = {} => \A m \in C.nodes :
               IsPrefix(m, m) => m \in RemoveIds(C, old).nodes
    BY <2>2, <2>3, RemoveStored
  <2>5. ActiveRules(C) \ {C.reg[i] : i \in old} = kept \cup {rule}
    BY <1>3, <2>2, <2>3
  <2>6. \A m \in Path(rule, n) : IsPrefix(m, m)
    BY PathPrefix
  <2> QED BY <1>2, <2>2, <2>4, <2>5, <2>6 DEF C
<1> HIDE DEF A, B
<1>7. /\ Stored(Q) /\ ActiveRules(Q) = kept \cup {rule}
      /\ old = {} /\ (\A m \in P.nodes : IsPrefix(m, m)) =>
             P.nodes \cup Path(rule, n) \subseteq Q.nodes
  BY <1>5, <1>6
<1> HIDE DEF Q
<1> DEFINE Z == AddRule(P, rule, lost)
<1>8. Z = [Q EXCEPT !.epoch = IF NeedsRebuild(P, rule, lost)
                              THEN @ + 1 ELSE @]
  BY DEF AddRule, A, B, E, Q, old
<1>9. IsPolicy(Z) /\ SameRegistry(Q, Z) /\ Z.nodes = Q.nodes
  BY <1>7, <1>8 DEF Stored, IsPolicy, Fields, SameRegistry
<1>10. Z.nodes \subseteq E.nodes
  <2>1. IsPolicy(P)
    BY DEF Stored
  <2> QED BY <2>1, AddFields DEF E
<1> HIDE DEF Z
<1>11. Q.nodes \subseteq Seq(Token)
  BY <1>7 DEF Stored, Typed
<1>12. Stored(Z) /\ ActiveRules(Z) = ActiveRules(Q)
  BY <1>7, <1>9, <1>11, StoredKeeps
<1> QED BY <1>2, <1>7, <1>9, <1>10, <1>12 DEF Z, old, kept

(* Clearing empties everything but the wildcard counts, which stay bounds. *)
LEMMA ClearStored ==
    ASSUME NEW P, Stored(P)
    PROVE  Stored(Cleared(P)) /\ ActiveRules(Cleared(P)) = {}
<1> DEFINE Q == Cleared(P)
           E == EmptyPolicy
<1>1. /\ IsPolicy(Q) /\ Q.nodes = E.nodes /\ Q.pid = E.pid /\ Q.reg = E.reg
      /\ Q.slots = E.slots /\ Q.bucket = E.bucket /\ Q.count = E.count
      /\ Q.wild = P.wild
  BY DEF Cleared, EmptyPolicy, IsPolicy, Fields
<1>2. /\ Stored(E) /\ ActiveIds(E) = {} /\ ActiveRules(E) = {}
  BY EmptyStored
<1> HIDE DEF Q, E
<1>3. /\ ActiveIds(Q) = {} /\ ActiveRules(Q) = {}
      /\ Accepting(Q) = Accepting(E)
  BY <1>1, <1>2 DEF ActiveIds, ActiveRules, Accepting
<1>4. Accepting(Q) = {}
  BY <1>2, <1>3, ActiveAccepting DEF Stored
<1>5. Typed(Q)
  BY <1>1, <1>2 DEF Stored, Typed
<1>6. Registered(Q)
  BY <1>3, <1>4 DEF Registered
<1>7. ASSUME NEW n \in Lengths PROVE Cardinality(WildRules(Q, n)) <= Q.wild[n]
  <2>1. WildRules(Q, n) = {}
    BY <1>4 DEF WildRules
  <2>2. /\ Cardinality(WildRules(P, n)) \in Nat
        /\ Cardinality(WildRules(P, n)) <= P.wild[n]
        /\ P.wild[n] \in Int
    BY WildFinite DEF Stored, Counted, Typed
  <2> QED BY <1>1, <2>1, <2>2, FS_EmptySet
<1>8. Counted(Q)
  BY <1>1, <1>2, <1>3, <1>7 DEF Stored, Counted
<1> QED BY <1>1, <1>3, <1>5, <1>6, <1>8 DEF Stored, Q

(* Changes of the epoch and of the filters leave the storage alone.        *)
LEMMA RebuildStored ==
    ASSUME NEW P, Stored(P), NEW complete, NEW lost
    PROVE  LET Q == Rebuild(P, complete, lost) IN
           /\ Stored(Q) /\ SameRegistry(P, Q)
           /\ ActiveIds(Q) = ActiveIds(P) /\ ActiveRules(Q) = ActiveRules(P)
<1> DEFINE Q == Rebuild(P, complete, lost)
<1>1. IsPolicy(Q) /\ SameRegistry(P, Q) /\ Q.nodes = P.nodes
  BY DEF Rebuild, Stored, IsPolicy, Fields, SameRegistry
<1>2. P.nodes \subseteq Seq(Token)
  BY DEF Stored, Typed
<1> HIDE DEF Q
<1>3. /\ Stored(Q) /\ ActiveIds(Q) = ActiveIds(P)
      /\ ActiveRules(Q) = ActiveRules(P)
  BY <1>1, <1>2, StoredKeeps
<1> QED BY <1>1, <1>3 DEF Q

(* A replacement installs the rules and the trie of the staged policy.     *)
LEMMA ReplaceStored ==
    ASSUME NEW P, NEW S, Stored(S), NEW Q,
           Q = Published(P, S) \/ Q = Compacted(P, S)
    PROVE  Stored(Q) /\ ActiveRules(Q) = ActiveRules(S) /\ Q.nodes = S.nodes
<1>1. IsPolicy(Q) /\ SameRegistry(S, Q) /\ Q.nodes = S.nodes
  BY DEF Published, Compacted, Stored, IsPolicy, Fields, SameRegistry
<1>2. S.nodes \subseteq Seq(Token)
  BY DEF Stored, Typed
<1> QED BY <1>1, <1>2, StoredKeeps

LEMMA ActiveAreRules ==
    ASSUME NEW P, Stored(P)
    PROVE  ActiveRules(P) \subseteq Rules
BY ActiveAccepting DEF Stored, Accepting

-------------------------------------------------------------------------------
(* What subsumption leaves of a set of rules.                              *)

LEMMA MaximalOfAdd ==
    ASSUME NEW S \in SUBSET Rules, Antichain(S), NEW rule \in Rules,
           \A a \in S : ~Subsumes(a, rule)
    PROVE  LET T == {a \in S : ~Subsumes(rule, a)} \cup {rule} IN
           Antichain(T) /\ T = Maximal(S \cup {rule})
<1>1. rule \notin S
  BY SubsumesSelf
<1> QED BY <1>1 DEF Antichain, Maximal

LEMMA MaximalCovers ==
    ASSUME NEW D \in SUBSET Rules, NEW A \in SUBSET D, Antichain(A),
           Covers(A, D)
    PROVE  A = Maximal(D)
<1>1. ASSUME NEW a \in A, NEW b \in D, b # a PROVE ~Subsumes(b, a)
  <2> SUFFICES ASSUME Subsumes(b, a) PROVE FALSE
    OBVIOUS
  <2>1. PICK c \in A : Subsumes(c, b)
    BY DEF Covers
  <2>2. Subsumes(c, a)
    BY <2>1, SubsumesChain
  <2>3. c = a
    BY <2>2 DEF Antichain
  <2>4. a = b
    BY <2>1, <2>3, SubsumesAntisymmetric
  <2> QED BY <1>1, <2>4
<1>2. ASSUME NEW m \in Maximal(D) PROVE m \in A
  <2>1. m \in D /\ \A b \in D : b # m => ~Subsumes(b, m)
    BY DEF Maximal
  <2>2. PICK a \in A : Subsumes(a, m)
    BY <2>1 DEF Covers
  <2> QED BY <2>1, <2>2
<1>3. A \subseteq Maximal(D)
  BY <1>1 DEF Maximal
<1> QED BY <1>2, <1>3

(* An antichain is its own set of maximal rules.                           *)
LEMMA MaximalSelf ==
    ASSUME NEW S \in SUBSET Rules, Antichain(S)
    PROVE  Maximal(S) = S
BY DEF Maximal, Antichain

-------------------------------------------------------------------------------
(* The storage invariant, action by action.                                *)

LEMMA InitSInv == Init => SInv
BY EmptyStored DEF Init, SInv, JobInv, NoJob, Antichain

LEMMA AddSInv ==
    ASSUME SInv, NEW rule \in Rules, Add(rule)
    PROVE  /\ SInv'
           /\ ActiveRules(live') = Maximal(ActiveRules(live) \cup {rule})
<1>1. PICK lost \in SUBSET Levels : live' = AddRule(live, rule, lost)
  BY DEF Add
<1>2. /\ job' = job /\ staged' = staged /\ job.kind = "none"
      /\ ~Redundant(live, rule) /\ ~AtLimit(live, rule)
  BY DEF Add, Mutable, NoJob
<1>3. /\ Stored(live')
      /\ ActiveRules(live') =
             {a \in ActiveRules(live) : ~Subsumes(rule, a)} \cup {rule}
  BY <1>1, <1>2, AddStored DEF SInv
<1>4. \A a \in ActiveRules(live) : ~Subsumes(a, rule)
  BY <1>2, ScanExact DEF SInv
<1>5. /\ Antichain(ActiveRules(live'))
      /\ ActiveRules(live') = Maximal(ActiveRules(live) \cup {rule})
  <2> DEFINE S == ActiveRules(live)
  <2>1. S \in SUBSET Rules /\ Antichain(S)
    BY ActiveAreRules DEF SInv
  <2> HIDE DEF S
  <2>2. LET T == {a \in S : ~Subsumes(rule, a)} \cup {rule} IN
        Antichain(T) /\ T = Maximal(S \cup {rule})
    BY <2>1, <1>4, MaximalOfAdd DEF S
  <2> QED BY <2>2, <1>3 DEF S
<1> QED BY <1>2, <1>3, <1>5 DEF SInv, JobInv

LEMMA AddFailsSInv ==
    ASSUME SInv, NEW rule \in Rules, AddFails(rule)
    PROVE  SInv' /\ ActiveRules(live') = ActiveRules(live)
<1>1. PICK n \in 0..Len(rule), lost \in SUBSET Levels :
          live' = Extend(live, rule, n, lost)
  BY DEF AddFails
<1>2. job' = job /\ staged' = staged /\ job.kind = "none"
  BY DEF AddFails, Mutable, NoJob
<1>3. Stored(live') /\ ActiveRules(live') = ActiveRules(live)
  BY <1>1, ExtendStored DEF SInv
<1> QED BY <1>2, <1>3 DEF SInv, JobInv

LEMMA RemoveSInv ==
    ASSUME SInv, NEW rule \in Rules, Remove(rule)
    PROVE  /\ SInv'
           /\ rule \in ActiveRules(live)
           /\ ActiveRules(live') = ActiveRules(live) \ {rule}
<1>1. PICK i \in ActiveIds(live) :
          /\ live.reg[i] = rule
          /\ live' = [RemoveIds(live, {i}) EXCEPT !.epoch = @ + 1]
  BY DEF Remove
<1>2. job' = job /\ staged' = staged /\ job.kind = "none"
  BY DEF Remove, Mutable, NoJob
<1> DEFINE Q == RemoveIds(live, {i})
<1>3. Stored(Q) /\ ActiveRules(Q) = ActiveRules(live) \ {rule}
  <2>1. {i} \in SUBSET ActiveIds(live)
    OBVIOUS
  <2>2. ActiveRules(Q) = ActiveRules(live) \ {live.reg[j] : j \in {i}}
    BY <2>1, RemoveStored DEF SInv
  <2>3. Stored(Q)
    BY <2>1, RemoveStored DEF SInv
  <2> QED BY <1>1, <2>2, <2>3
<1> HIDE DEF Q
<1>4. IsPolicy(live') /\ SameRegistry(Q, live') /\ live'.nodes = Q.nodes
  BY <1>1, <1>3 DEF Stored, IsPolicy, Fields, SameRegistry, Q
<1>5. Stored(live') /\ ActiveRules(live') = ActiveRules(Q)
  <2>1. Q.nodes \subseteq Seq(Token)
    BY <1>3 DEF Stored, Typed
  <2> QED BY <1>3, <1>4, <2>1, StoredKeeps
<1>6. Antichain(ActiveRules(live'))
  BY <1>3, <1>5 DEF SInv, Antichain
<1>7. rule \in ActiveRules(live)
  BY <1>1 DEF ActiveRules
<1> QED BY <1>2, <1>3, <1>5, <1>6, <1>7 DEF SInv, JobInv

LEMMA ClearSInv ==
    ASSUME SInv, Clear
    PROVE  SInv' /\ ActiveRules(live') = {}
<1>1. /\ job' = job /\ staged' = staged /\ job.kind = "none"
      /\ live' = Cleared(live)
  BY DEF Clear, Mutable, NoJob
<1>2. Stored(live') /\ ActiveRules(live') = {}
  BY <1>1, ClearStored DEF SInv
<1> QED BY <1>1, <1>2 DEF SInv, JobInv, Antichain

LEMMA StartSInv ==
    ASSUME SInv, NEW kind \in {"batch", "load", "compact"},
           NEW clear \in BOOLEAN, NEW new, Start(kind, clear, new),
           IF kind = "compact" THEN new = <<>> ELSE new \in Batches,
           clear => kind = "load"
    PROVE  SInv' /\ live' = live
<1>1. /\ job' = [kind |-> kind, clear |-> clear,
                 old |-> IF clear THEN {} ELSE ActiveIds(live),
                 new |-> new, next |-> 1]
      /\ staged' = EmptyPolicy /\ live' = live
  BY DEF Start
<1>2. new \in Seq(Rules)
  <2>1. <<>> \in Seq(Rules)
    OBVIOUS
  <2> QED BY <2>1, PolicyAssumption
<1>3. Done(live, job') = {}
  BY <1>1 DEF Done, ActiveRules
<1>4. JobInv'
  <2>1. /\ ActiveRules(staged') = {} /\ staged'.nodes = {<<>>}
    BY <1>1, EmptyStored
  <2>2. job'.old \subseteq ActiveIds(live')
    BY <1>1
  <2>3. job'.next \in 1..(Len(job'.new) + 1)
    BY <1>1, <1>2
  <2>4. Done(live', job') = {}
    BY <1>1, <1>3
  <2>5. {<<>>} \cup UNION {Path(r, Len(r)) : r \in Done(live', job')} = {<<>>}
    BY <2>4
  <2>6. Covers(ActiveRules(staged'), Done(live', job'))
    BY <2>4 DEF Covers
  <2> QED BY <1>1, <2>1, <2>2, <2>3, <2>4, <2>5, <2>6 DEF JobInv
<1> QED BY <1>1, <1>4, EmptyStored DEF SInv, Antichain

LEMMA AbandonSInv ==
    ASSUME SInv, Abandon
    PROVE  SInv' /\ live' = live
BY EmptyStored DEF Abandon, SInv, JobInv, NoJob, Antichain

(* Staging one rule moves it into the set of rules taken over.             *)
LEMMA StageDone ==
    ASSUME SInv, StageAdd
    PROVE  /\ StagedRule \in Rules
           /\ Done(live, job') = Done(live, job) \cup {StagedRule}
           /\ job' = [job EXCEPT !.old = job'.old, !.next = job'.next]
           /\ job'.old \subseteq ActiveIds(live)
           /\ job.old = {} => job'.old = {}
           /\ job'.next \in 1..(Len(job.new) + 1)
           /\ job.kind = "compact" => StagedRule \in ActiveRules(live)
                                      /\ StagedRule \notin Done(live, job)
<1>1. /\ job.kind # "none" /\ job' = JobAdvanced
      /\ job.old # {} \/ job.next <= Len(job.new)
  BY DEF StageAdd, Staging
<1>2. /\ job = [kind |-> job.kind, clear |-> job.clear, old |-> job.old,
                new |-> job.new, next |-> job.next]
      /\ job.old \subseteq ActiveIds(live)
      /\ job.next \in 1..(Len(job.new) + 1)
      /\ job.clear => job.old = {}
      /\ IF job.kind = "compact" THEN job.new = <<>> ELSE job.new \in Batches
      /\ job.kind = "compact" => ~job.clear
  BY <1>1 DEF SInv, JobInv
<1>3. job.new \in Seq(Rules) /\ Len(job.new) \in Nat
  <2>1. <<>> \in Seq(Rules)
    OBVIOUS
  <2>2. job.new \in Seq(Rules)
    BY <1>2, <2>1, PolicyAssumption
  <2> QED BY <2>2
<1>4. CASE job.old # {}
  <2> DEFINE i == NextOld
             s == StagedRule
  <2>1. i \in job.old
    <3>1. job.old \in SUBSET Nat
      BY <1>2, IdFacts DEF ActiveIds
    <3>2. \E k \in job.old : \A j \in job.old : k <= j
      BY <1>4, <3>1, LeastId
    <3> QED BY <3>2 DEF NextOld
  <2>2. s = live.reg[i] /\ i \in ActiveIds(live)
    BY <1>2, <1>4, <2>1 DEF StagedRule
  <2>3. job' = [job EXCEPT !.old = job.old \ {i}]
    BY <1>1, <1>4 DEF JobAdvanced
  <2> HIDE DEF i, s
  <2>4. /\ job'.old = job.old \ {i} /\ job'.next = job.next
        /\ job'.new = job.new /\ job'.clear = job.clear /\ ~job.clear
    BY <1>2, <1>4, <2>3
  <2>5. s \in ActiveRules(live) /\ s \in Rules
    BY <2>2, ActiveAreRules DEF ActiveRules, SInv
  <2>6. \A j \in ActiveIds(live) : live.reg[j] = s => j = i
    BY <2>2 DEF SInv, Stored, Registered
  <2>7. ActiveRules(live) \ {live.reg[j] : j \in job.old \ {i}} =
            (ActiveRules(live) \ {live.reg[j] : j \in job.old}) \cup {s}
    BY <1>2, <2>1, <2>2, <2>5, <2>6 DEF ActiveRules
  <2>8. s \in {live.reg[j] : j \in job.old}
    BY <2>1, <2>2
  <2>9. Done(live, job') = Done(live, job) \cup {s}
    BY <2>4, <2>7 DEF Done
  <2>10. job.kind = "compact" => s \notin Done(live, job)
    <3>1. job.kind = "compact" =>
              Done(live, job) = ActiveRules(live) \ {live.reg[j] : j \in job.old}
      <4>1. job.kind = "compact" => 1..(job.next - 1) = {}
        BY <1>2
      <4> QED BY <2>4, <4>1 DEF Done
    <3> QED BY <2>8, <3>1
  <2>11. job' = [job EXCEPT !.old = job'.old, !.next = job'.next]
    BY <1>2, <2>3, <2>4
  <2> QED
    BY <1>2, <1>3, <1>4, <2>4, <2>5, <2>9, <2>10, <2>11 DEF s
<1>5. CASE job.old = {}
  <2> DEFINE s == StagedRule
             k == job.next
  <2>1. k \in 1..Len(job.new)
    BY <1>1, <1>2, <1>3, <1>5
  <2>2. s = job.new[k] /\ s \in Rules
    BY <1>3, <1>5, <2>1 DEF StagedRule
  <2>3. job' = [job EXCEPT !.next = k + 1]
    BY <1>1, <1>5 DEF JobAdvanced
  <2>4. /\ job'.old = {} /\ job'.next = k + 1
        /\ job'.new = job.new /\ job'.clear = job.clear
    BY <1>2, <1>5, <2>3
  <2>5. job.kind # "compact"
    BY <1>2, <2>1
  <2>6. 1..((k + 1) - 1) = 1..(k - 1) \cup {k}
    BY <2>1, <1>3
  <2>7. {job.new[j] : j \in 1..((k + 1) - 1)} =
            {job.new[j] : j \in 1..(k - 1)} \cup {s}
    BY <2>2, <2>6
  <2>8. Done(live, job') = Done(live, job) \cup {s}
    BY <1>5, <2>4, <2>7 DEF Done
  <2>9. k + 1 \in 1..(Len(job.new) + 1)
    BY <2>1, <1>3
  <2>10. job' = [job EXCEPT !.old = job'.old, !.next = job'.next]
    BY <1>2, <1>5, <2>3, <2>4
  <2> QED BY <2>2, <2>4, <2>5, <2>8, <2>9, <2>10
<1> QED BY <1>4, <1>5

LEMMA StageAddSInv ==
    ASSUME SInv, StageAdd
    PROVE  SInv' /\ live' = live
<1> DEFINE s == StagedRule
           D == Done(live, job)
           A == ActiveRules(staged)
<1>1. /\ live' = live /\ job.kind # "none"
      /\ \/ Redundant(staged, s) /\ staged' = staged
         \/ /\ ~Redundant(staged, s) /\ ~AtLimit(staged, s)
            /\ staged' = AddRule(staged, s, {})
  BY DEF StageAdd, Staging
<1>2. /\ s \in Rules /\ Done(live, job') = D \cup {s}
      /\ job.kind = "compact" => s \in ActiveRules(live) /\ s \notin D
      /\ job' = [job EXCEPT !.old = job'.old, !.next = job'.next]
      /\ job'.old \subseteq ActiveIds(live)
      /\ job.old = {} => job'.old = {}
      /\ job'.next \in 1..(Len(job.new) + 1)
  BY StageDone
<1>3. /\ job = [kind |-> job.kind, clear |-> job.clear, old |-> job.old,
                new |-> job.new, next |-> job.next]
      /\ IF job.kind = "compact" THEN job.new = <<>> ELSE job.new \in Batches
      /\ job.clear => job.old = {} /\ job.kind = "load"
      /\ job.clear \in BOOLEAN
      /\ A \subseteq D /\ Covers(A, D)
      /\ job.kind = "compact" =>
             staged.nodes = {<<>>} \cup UNION {Path(r, Len(r)) : r \in D}
  BY <1>1 DEF SInv, JobInv
<1>4. /\ Stored(live) /\ Antichain(ActiveRules(live))
      /\ Stored(staged) /\ Antichain(A) /\ A \subseteq Rules
  BY ActiveAreRules DEF SInv
<1>5. /\ job' = [kind |-> job'.kind, clear |-> job'.clear, old |-> job'.old,
                 new |-> job'.new, next |-> job'.next]
      /\ job'.kind = job.kind /\ job'.clear = job.clear
      /\ job'.new = job.new
  <2> DEFINE o == job'.old
             x == job'.next
  <2>1. job' = [job EXCEPT !.old = o, !.next = x]
    BY <1>2
  <2> HIDE DEF o, x
  <2>2. job' = [kind |-> job.kind, clear |-> job.clear, old |-> o,
                new |-> job.new, next |-> x]
    BY <1>3, <2>1
  <2> QED BY <2>2 DEF o, x
<1>6. Redundant(staged, s) <=> \E a \in A : Subsumes(a, s)
  BY <1>2, <1>4, ScanExact
(* A compaction re-adds rules of an antichain: nothing is redundant.       *)
<1>7. ASSUME job.kind = "compact", NEW a \in A
      PROVE  ~Subsumes(a, s) /\ ~Subsumes(s, a)
  <2>1. D \subseteq ActiveRules(live)
    <3>1. job.new = <<>> /\ ~job.clear /\ job.next \in 1..1
      BY <1>1, <1>3, <1>7 DEF SInv, JobInv
    <3>2. 1..(job.next - 1) = {}
      BY <3>1
    <3> QED BY <3>1, <3>2 DEF Done
  <2>2. a \in ActiveRules(live) /\ s \in ActiveRules(live) /\ a # s
    BY <1>2, <1>3, <1>7, <2>1
  <2> QED BY <1>4, <2>2 DEF Antichain
<1>8. /\ Stored(staged') /\ Antichain(ActiveRules(staged'))
      /\ ActiveRules(staged') \subseteq D \cup {s}
      /\ Covers(ActiveRules(staged'), D \cup {s})
      /\ job.kind = "compact" => staged'.nodes = staged.nodes \cup Path(s, Len(s))
  <2>1. CASE Redundant(staged, s) /\ staged' = staged
    <3>1. PICK a \in A : Subsumes(a, s)
      BY <1>6, <2>1
    <3>2. job.kind # "compact"
      BY <1>7, <3>1
    <3>3. Covers(A, D \cup {s})
      BY <1>3, <3>1 DEF Covers
    <3> QED BY <1>3, <1>4, <2>1, <3>2, <3>3
  <2>2. CASE /\ ~Redundant(staged, s) /\ ~AtLimit(staged, s)
             /\ staged' = AddRule(staged, s, {})
    <3> DEFINE T == {a \in A : ~Subsumes(s, a)} \cup {s}
    <3>1. /\ Stored(staged') /\ ActiveRules(staged') = T
          /\ /\ Subsumed(staged, s) = {}
             /\ \A m \in staged.nodes : IsPrefix(m, m)
             => staged'.nodes = staged.nodes \cup Path(s, Len(s))
      BY <1>2, <1>4, <2>2, AddStored
    <3>2. Antichain(T)
      <4>1. \A a \in A : ~Subsumes(a, s)
        BY <1>6, <2>2
      <4> HIDE DEF A, s
      <4> QED BY <1>2, <1>4, <4>1, MaximalOfAdd
    <3>3. T \subseteq D \cup {s}
      BY <1>3
    <3>4. Covers(T, D \cup {s})
      <4> SUFFICES ASSUME NEW d \in D \cup {s}
                   PROVE  \E t \in T : Subsumes(t, d)
        BY DEF Covers
      <4>1. CASE d = s
        BY <1>2, <4>1, SubsumesSelf
      <4>2. CASE d \in D
        <5>1. PICK a \in A : Subsumes(a, d)
          BY <1>3, <4>2 DEF Covers
        <5>2. CASE Subsumes(s, a)
          <6>1. d \in Rules /\ a \in Rules
            <7>1. D \subseteq Rules
              <8>1. job.new \in Seq(Rules) /\ job.next \in 1..(Len(job.new) + 1)
                <9>1. <<>> \in Seq(Rules)
                  OBVIOUS
                <9> QED BY <1>1, <9>1, PolicyAssumption DEF SInv, JobInv
              <8>2. \A k \in 1..(job.next - 1) : job.new[k] \in Rules
                BY <8>1
              <8> QED BY <1>4, <8>2, ActiveAreRules DEF Done
            <7> QED BY <1>4, <4>2, <7>1
          <6>2. Subsumes(s, d)
            BY <1>2, <5>1, <5>2, <6>1, SubsumesChain
          <6> QED BY <6>2
        <5>3. CASE ~Subsumes(s, a)
          BY <5>1, <5>3
        <5> QED BY <5>2, <5>3
      <4> QED BY <4>1, <4>2
    <3>5. ASSUME job.kind = "compact"
          PROVE  staged'.nodes = staged.nodes \cup Path(s, Len(s))
      <4>1. Subsumed(staged, s) = {}
        <5>1. {staged.reg[i] : i \in Subsumed(staged, s)} =
                  {a \in A : Subsumes(s, a)}
          BY <1>2, <1>4, <2>2, ScanExact
        <5>2. {a \in A : Subsumes(s, a)} = {}
          BY <1>7, <3>5
        <5> QED BY <5>1, <5>2
      <4>2. ASSUME NEW m \in staged.nodes PROVE IsPrefix(m, m)
        <5>1. m \in Seq(Token)
          BY <1>4 DEF Stored, Typed
        <5> QED BY <5>1 DEF IsPrefix, Prefix
      <4> QED BY <3>1, <4>1, <4>2
    <3> QED BY <3>1, <3>2, <3>3, <3>4, <3>5
  <2> QED BY <1>1, <2>1, <2>2
<1>9. JobInv'
  <2>1. Done(live', job') = D \cup {s}
    BY <1>1, <1>2
  <2>2. job.kind = "compact" => staged'.nodes = {<<>>} \cup
            UNION {Path(r, Len(r)) : r \in D \cup {s}}
    BY <1>3, <1>8
  <2> HIDE DEF D, s
  <2> QED BY <1>1, <1>2, <1>3, <1>5, <1>8, <2>1, <2>2 DEF JobInv
<1> QED BY <1>1, <1>4, <1>8, <1>9 DEF SInv

(* A replacement installs the maximal rules of what it was given.          *)
LEMMA PublishSInv ==
    ASSUME SInv, Publish
    PROVE  /\ SInv'
           /\ ActiveRules(live') =
                  Maximal((IF job.clear THEN {} ELSE ActiveRules(live))
                              \cup Members(job.new))
           /\ job.kind = "compact" => job.new = <<>> /\ ~job.clear
                  /\ live'.nodes = {<<>>} \cup
                      UNION {Path(r, Len(r)) : r \in ActiveRules(live)}
<1> DEFINE all == (IF job.clear THEN {} ELSE ActiveRules(live))
                      \cup Members(job.new)
<1>1. /\ job.kind # "none" /\ job.old = {} /\ ~(job.next <= Len(job.new))
      /\ live' = Compacted(live, staged) \/ live' = Published(live, staged)
      /\ job' = NoJob /\ staged' = EmptyPolicy
  BY DEF Publish, Staging
<1>2. /\ job.next \in 1..(Len(job.new) + 1)
      /\ ActiveRules(staged) \subseteq Done(live, job)
      /\ Covers(ActiveRules(staged), Done(live, job))
      /\ IF job.kind = "compact" THEN job.new = <<>> ELSE job.new \in Batches
      /\ job.kind = "compact" => ~job.clear
      /\ job.kind = "compact" => staged.nodes = {<<>>} \cup
             UNION {Path(r, Len(r)) : r \in Done(live, job)}
  BY <1>1 DEF SInv, JobInv
<1>3. job.new \in Seq(Rules)
  <2>1. <<>> \in Seq(Rules)
    OBVIOUS
  <2> QED BY <1>2, <2>1, PolicyAssumption
<1>4. Len(job.new) \in Nat /\ job.next = Len(job.new) + 1
  BY <1>1, <1>2, <1>3
<1>5. Done(live, job) = all
  <2>1. 1..(job.next - 1) = 1..Len(job.new)
    BY <1>4
  <2>2. {live.reg[i] : i \in job.old} = {}
    BY <1>1
  <2> QED BY <2>1, <2>2 DEF Done, Members
<1>6. all \subseteq Rules
  <2>1. Members(job.new) \subseteq Rules
    BY <1>3 DEF Members
  <2> QED BY <2>1, ActiveAreRules DEF SInv
<1>7. /\ Stored(live') /\ ActiveRules(live') = ActiveRules(staged)
      /\ live'.nodes = staged.nodes
  BY <1>1, ReplaceStored DEF SInv
<1>8. ActiveRules(staged) = Maximal(all)
  <2> DEFINE A == ActiveRules(staged)
  <2>1. A \subseteq all /\ Antichain(A) /\ Covers(A, all)
    BY <1>2, <1>5 DEF SInv
  <2> HIDE DEF A, all
  <2>2. A = Maximal(all)
    BY <1>6, <2>1, MaximalCovers
  <2> QED BY <2>2 DEF A
<1>9. ASSUME job.kind = "compact" PROVE all = ActiveRules(live)
  <2>1. job.new = <<>> /\ ~job.clear
    BY <1>2, <1>9
  <2>2. Members(job.new) = {}
    BY <2>1 DEF Members
  <2> QED BY <2>1, <2>2
<1>10. SInv'
  BY <1>1, <1>7, EmptyStored DEF SInv, JobInv, NoJob, Antichain
<1> QED BY <1>2, <1>5, <1>7, <1>8, <1>9, <1>10

(* A step of policy_eval. *)
Evaluates(r) ==
    \/ \E c \in Commands : EvalFresh(r, c) \/ EvalStale(r, c)
    \/ EvalRebuild(r) \/ EvalRelock(r) \/ EvalReturn(r)

(* Evaluations change filters and epochs, never the rules.                 *)
LEMMA EvalSInv ==
    ASSUME SInv, NEW r \in Readers, Evaluates(r)
    PROVE  SInv' /\ ActiveRules(live') = ActiveRules(live)
<1>1. /\ job' = job /\ staged' = staged
      /\ \/ live' = live
         \/ \E complete \in BOOLEAN, lost \in SUBSET Levels :
                live' = Rebuild(live, complete, lost)
  BY DEF Evaluates, EvalFresh, EvalStale, EvalRebuild, EvalRelock, EvalReturn
<1>2. /\ Stored(live') /\ live'.reg = live.reg
      /\ ActiveIds(live') = ActiveIds(live)
      /\ ActiveRules(live') = ActiveRules(live)
  BY <1>1, RebuildStored DEF SInv, SameRegistry
<1>3. Done(live', job') = Done(live, job)
  BY <1>1, <1>2 DEF Done
<1> QED BY <1>1, <1>2, <1>3 DEF SInv, JobInv

LEMMA NextSInv == SInv /\ [Next]_vars => SInv'
<1> SUFFICES ASSUME SInv, [Next]_vars PROVE SInv'
  OBVIOUS
<1>1. ASSUME NEW rule \in Rules, Add(rule) \/ AddFails(rule) \/ Remove(rule)
      PROVE  SInv'
  BY <1>1, AddSInv, AddFailsSInv, RemoveSInv
<1>2. CASE Clear
  BY <1>2, ClearSInv
<1>3. ASSUME NEW batch \in Batches, BatchBegin(batch) PROVE SInv'
  BY <1>3, StartSInv DEF BatchBegin
<1>4. ASSUME NEW batch \in Batches, NEW clear \in BOOLEAN,
             LoadBegin(batch, clear)
      PROVE  SInv'
  BY <1>4, StartSInv DEF LoadBegin
<1>5. CASE CompactBegin
  BY <1>5, StartSInv DEF CompactBegin
<1>6. CASE StageAdd
  BY <1>6, StageAddSInv
<1>7. CASE Abandon
  BY <1>7, AbandonSInv
<1>8. CASE Publish
  BY <1>8, PublishSInv
<1>9. ASSUME NEW r \in Readers, Evaluates(r) PROVE SInv'
  BY <1>9, EvalSInv
<1>10. CASE UNCHANGED vars
  BY <1>10 DEF vars, SInv, JobInv
<1> QED
  BY <1>1, <1>2, <1>3, <1>4, <1>5, <1>6, <1>7, <1>8, <1>9, <1>10
  DEF Next, Evaluates

(* The storage of the live policy and of a replacement under construction  *)
(* stays consistent in every interleaving.                                 *)
THEOREM StorageInvariance == Spec => []SInv
BY InitSInv, NextSInv, PTL DEF Spec

-------------------------------------------------------------------------------
(* The properties of the runs.                                             *)

(* Registry, trie, length buckets and rule count agree at every moment, so *)
(* save writes a header its records match.                                 *)
THEOREM StorageAgreed == Spec => []StorageAgrees
<1>1. SInv => StorageAgrees
  <2> SUFFICES ASSUME SInv PROVE StorageAgrees
    OBVIOUS
  <2>1. live.count = Cardinality({r \in Rules : live.pid[r] # NoId})
    BY AcceptingCount DEF SInv, Stored, Counted, Accepting
  <2>2. \A n \in Lengths : live.bucket[n] =
            {i \in ActiveIds(live) : Len(live.reg[i]) = n}
    BY DEF SInv, Stored, Counted
  <2> QED
    BY <2>1, <2>2 DEF SInv, Stored, Registered, Accepting, StorageAgrees
<1> QED BY <1>1, StorageInvariance, PTL

(* Leaving out the bucket scan for a concrete rule never changes what add  *)
(* decides or removes.                                                     *)
THEOREM ScanSkipped == Spec => []ScanSkipExact
<1>1. SInv => ScanSkipExact
  BY ScanExact DEF SInv, ScanSkipExact
<1> QED BY <1>1, StorageInvariance, PTL

(* policy_eval answers "some active rule matches" at every moment it may   *)
(* take its final read lock, whatever the filters hold by then.            *)
THEOREM EvaluationExact == Spec => []EvalExact
<1>1. SInv /\ FilterSound => EvalExact
  <2> SUFFICES ASSUME SInv, FilterSound, NEW c \in Commands
               PROVE  Verdict(live, c) =
                          (\E rule \in ActiveRules(live) : Matches(rule, c))
    BY DEF EvalExact
  <2>1. ASSUME WalkAccepts(live, c)
        PROVE  \E rule \in ActiveRules(live) : Matches(rule, c)
    <3>1. PICK rule \in Rules : live.pid[rule] # NoId /\ Matches(rule, c)
      BY <2>1 DEF WalkAccepts
    <3>2. rule \in ActiveRules(live)
      BY <3>1, ActiveAccepting DEF SInv, Stored, Accepting
    <3> QED BY <3>1, <3>2
  <2>2. ASSUME NEW rule \in ActiveRules(live), Matches(rule, c)
        PROVE  WalkAccepts(live, c)
    <3>1. PICK i \in ActiveIds(live) : live.reg[i] = rule
      BY DEF ActiveRules
    <3>2. Path(rule, Len(rule)) \subseteq live.nodes
      BY <3>1 DEF SInv, Stored, Registered
    <3>3. rule \in Rules /\ live.pid[rule] # NoId
      BY ActiveAccepting DEF SInv, Stored, Accepting
    <3> QED BY <2>2, <3>2, <3>3 DEF WalkAccepts
  <2>3. WalkAccepts(live, c) => FilterPasses(live, c)
    BY DEF FilterSound
  <2>4. Verdict(live, c) <=> \E rule \in ActiveRules(live) : Matches(rule, c)
    BY <2>1, <2>2, <2>3 DEF Verdict
  <2> QED BY <2>4 DEF Verdict
<1> QED BY <1>1, StorageInvariance, FiltersSound, PTL

(* Batch add, merge, load and compaction install the maximal rules of what *)
(* they were given, and a compacted trie holds no dead state.              *)
THEOREM PublicationExact == Spec => PublishExact
<1>1. SInv /\ [Next]_vars =>
        [Publish =>
           /\ ActiveRules(live') =
                  Maximal((IF job.clear THEN {} ELSE ActiveRules(live))
                              \cup Members(job.new))
           /\ job.kind = "compact" =>
                  live'.nodes = {<<>>} \cup
                      UNION {Path(r, Len(r)) : r \in ActiveRules(live)}]_vars
  BY PublishSInv
<1> QED BY <1>1, StorageInvariance, PTL DEF Spec, PublishExact

-------------------------------------------------------------------------------
(* Refinement of RuleSet.                                                  *)

LEMMA MaximalSame == \A S : Rule!MaximalOf(S) = Maximal(S)
BY DEF Rule!MaximalOf, Maximal

(* Every step of the policy is a step of the plain set of rules or leaves  *)
(* it alone: failed insertions, evaluations and the building of a staged   *)
(* policy are invisible.                                                   *)
THEOREM Refinement == Spec => ImplementsRuleSet
<1>1. Init => Rule!Init
  BY EmptyStored DEF Init, Rule!Init
<1>2. SInv /\ [Next]_vars => [Rule!Next]_(ActiveRules(live))
  <2> SUFFICES ASSUME SInv, [Next]_vars
               PROVE  Rule!Next \/ ActiveRules(live') = ActiveRules(live)
    OBVIOUS
  <2>1. ASSUME NEW rule \in Rules, Add(rule) PROVE Rule!AddOne(rule)
    BY <2>1, AddSInv, MaximalSame DEF Rule!AddOne
  <2>2. ASSUME NEW rule \in Rules, AddFails(rule)
        PROVE  ActiveRules(live') = ActiveRules(live)
    BY <2>2, AddFailsSInv
  <2>3. ASSUME NEW rule \in Rules, Remove(rule) PROVE Rule!Remove(rule)
    BY <2>3, RemoveSInv DEF Rule!Remove
  <2>4. CASE Clear
    <3>1. Rule!Clear
      BY <2>4, ClearSInv DEF Rule!Clear
    <3> QED BY <3>1 DEF Rule!Next
  <2>5. CASE \/ \E batch \in Batches : BatchBegin(batch)
             \/ \E batch \in Batches, clear \in BOOLEAN :
                    LoadBegin(batch, clear)
             \/ CompactBegin
    BY <2>5 DEF BatchBegin, LoadBegin, CompactBegin, Start
  <2>6. CASE StageAdd \/ Abandon
    BY <2>6 DEF StageAdd, Abandon
  <2>7. CASE Publish
    <3>1. /\ ActiveRules(live') =
                 Maximal((IF job.clear THEN {} ELSE ActiveRules(live))
                             \cup Members(job.new))
          /\ job.kind = "compact" => job.new = <<>> /\ ~job.clear
          /\ job.kind # "compact" => job.new \in Batches
      BY <2>7, PublishSInv DEF Publish, SInv, JobInv
    <3>2. CASE job.kind = "compact"
      <4>1. Members(job.new) = {}
        BY <3>1, <3>2 DEF Members
      <4>2. ActiveRules(live') = Maximal(ActiveRules(live))
        BY <3>1, <3>2, <4>1
      <4>3. Maximal(ActiveRules(live)) = ActiveRules(live)
        BY ActiveAreRules, MaximalSelf DEF SInv
      <4> QED BY <4>2, <4>3
    <3>3. CASE job.kind # "compact" /\ job.clear
      <4>1. Rule!Replace(job.new)
        BY <3>1, <3>3, MaximalSame DEF Rule!Replace
      <4> QED BY <3>1, <3>3, <4>1 DEF Rule!Next
    <3>4. CASE job.kind # "compact" /\ ~job.clear
      <4>1. Rule!AddAll(job.new)
        BY <3>1, <3>4, MaximalSame DEF Rule!AddAll
      <4> QED BY <3>1, <3>4, <4>1 DEF Rule!Next
    <3> QED BY <3>2, <3>3, <3>4
  <2>8. ASSUME NEW r \in Readers, Evaluates(r)
        PROVE  ActiveRules(live') = ActiveRules(live)
    BY <2>8, EvalSInv
  <2>9. CASE UNCHANGED vars
    BY <2>9 DEF vars
  <2> QED
    BY <2>1, <2>2, <2>3, <2>4, <2>5, <2>6, <2>7, <2>8, <2>9
    DEF Next, Evaluates, Rule!Next
<1> QED BY <1>1, <1>2, StorageInvariance, PTL
        DEF Spec, ImplementsRuleSet, Rule!Spec

-------------------------------------------------------------------------------
(* The types offered for a token.                                          *)

(* A set of natural numbers that is not empty has a least one. *)
LEMMA Least ==
    ASSUME NEW T \in SUBSET Nat, T # {}
    PROVE  \E x \in T : \A y \in T : x <= y
<1> DEFINE R == OpToRel(<, Nat)
<1>1. IsWellFoundedOn(R, Nat)
  BY NatLessThanWellFounded
<1>2. \A x, y \in Nat : <<y, x>> \in R <=> y < x
  BY DEF OpToRel
<1> HIDE DEF R
<1>3. PICK x \in T : \A y \in T : ~ (<<y, x>> \in R)
  BY <1>1, WFMin
<1>4. ASSUME NEW y \in T PROVE x <= y
  <2>1. ~(y < x) /\ x \in Nat /\ y \in Nat
    BY <1>2, <1>3, Zenon
  <2> QED
    BY <2>1, SMT
<1> QED
  BY <1>4

LEMMA SmallestSet ==
    ASSUME NEW S, IsFiniteSet(S), NEW Bad \in SUBSET (SUBSET S), Bad # {}
    PROVE  \E s \in Bad : s \in SUBSET S /\ \A x \in s : s \ {x} \notin Bad
<1> DEFINE Sizes == {Cardinality(s) : s \in Bad}
<1>1. \A s \in SUBSET S : IsFiniteSet(s) /\ Cardinality(s) \in Nat
  BY FS_Subset, FS_CardinalityType
<1>2. Sizes \in SUBSET Nat /\ Sizes # {}
  BY <1>1
<1>3. PICK n \in Sizes : \A m \in Sizes : n <= m
  BY <1>2, Least
<1>4. PICK s \in Bad : Cardinality(s) = n
  BY <1>3
<1>5. ASSUME NEW x \in s, s \ {x} \in Bad PROVE FALSE
  <2>1. Cardinality(s \ {x}) = Cardinality(s) - 1
    BY <1>1, <1>5, FS_RemoveElement
  <2>2. n <= Cardinality(s \ {x}) /\ n \in Nat
    BY <1>2, <1>3, <1>5
  <2> QED BY <1>4, <2>1, <2>2
<1> QED BY <1>5

Comparable(S) ==
    \A a, b \in S : <<a, b>> \in Compatible \/ <<b, a>> \in Compatible

Lowest(t, S) == t \in S /\ \A v \in S : <<t, v>> \in Compatible

(* The narrowest of some types above the same one exists. *)
LEMMA LowestExists ==
    ASSUME NEW S \in SUBSET Types, S # {}, Comparable(S)
    PROVE  Lowest(Narrowest(S), S)
<1> DEFINE Bad == {s \in SUBSET Types : /\ s # {} /\ Comparable(s)
                                        /\ ~\E t : Lowest(t, s)}
<1>1. Bad = {}
  <2> SUFFICES ASSUME Bad # {} PROVE FALSE
    OBVIOUS
  <2>1. PICK s \in Bad : s \in SUBSET Types /\ \A x \in s : s \ {x} \notin Bad
    <3>1. Bad \in SUBSET (SUBSET Types)
      OBVIOUS
    <3> HIDE DEF Bad
    <3> QED BY <3>1, VariantsAssumption, SmallestSet
  <2>2. s # {} /\ Comparable(s) /\ ~\E t : Lowest(t, s)
    BY <2>1
  <2>3. PICK x : x \in s
    BY <2>2
  <2>4. x \in Types /\ <<x, x>> \in Compatible
    BY <2>1, <2>3, CompatibleAssumption
  <2>5. CASE s \ {x} = {}
    <3>1. Lowest(x, s)
      BY <2>3, <2>4, <2>5 DEF Lowest
    <3> QED BY <2>2, <3>1
  <2>6. CASE s \ {x} # {}
    <3>1. Comparable(s \ {x})
      BY <2>2 DEF Comparable
    <3>2. PICK t : Lowest(t, s \ {x})
      BY <2>1, <2>3, <2>6, <3>1
    <3>3. t \in s /\ \A v \in s \ {x} : <<t, v>> \in Compatible
      BY <3>2 DEF Lowest
    <3>4. CASE <<t, x>> \in Compatible
      <4>1. Lowest(t, s)
        BY <3>3, <3>4 DEF Lowest
      <4> QED BY <2>2, <4>1
    <3>5. CASE <<x, t>> \in Compatible
      <4>1. \A v \in s \ {x} : <<x, v>> \in Compatible
        BY <2>1, <2>3, <3>3, <3>5, CompatibleAssumption
      <4>2. Lowest(x, s)
        BY <2>3, <2>4, <4>1 DEF Lowest
      <4> QED BY <2>2, <4>2
    <3>6. <<t, x>> \in Compatible \/ <<x, t>> \in Compatible
      BY <2>2, <2>3, <3>3 DEF Comparable
    <3> QED BY <3>4, <3>5, <3>6
  <2> QED BY <2>5, <2>6
<1>2. \E t : Lowest(t, S)
  BY <1>1
<1> HIDE DEF Bad
<1>3. \E t \in S : \A v \in S : <<t, v>> \in Compatible
  BY <1>2 DEF Lowest
<1>4. Narrowest(S) \in S /\ \A v \in S : <<Narrowest(S), v>> \in Compatible
  BY <1>3, Zenon DEF Narrowest
<1> QED BY <1>4 DEF Lowest

(* A join is above both types, and is the second if that is above the first. *)
LEMMA JoinFacts ==
    ASSUME NEW a \in Types, NEW b \in Types
    PROVE  /\ Join[<<a, b>>] \in Types
           /\ <<a, Join[<<a, b>>]>> \in Compatible
           /\ <<b, Join[<<a, b>>]>> \in Compatible
           /\ <<a, b>> \in Compatible => Join[<<a, b>>] = b
<1> PICK j : j = Join[<<a, b>>]
  OBVIOUS
<1>1. j \in Types
  BY VariantsAssumption
<1>2. \A w \in Types : <<j, w>> \in Compatible <=>
          <<a, w>> \in Compatible /\ <<b, w>> \in Compatible
  BY LatticeAssumption
<1>3. <<j, j>> \in Compatible /\ <<b, b>> \in Compatible
  BY <1>1, CompatibleAssumption
<1>4. <<a, j>> \in Compatible /\ <<b, j>> \in Compatible
  BY <1>1, <1>2, <1>3
<1>5. ASSUME <<a, b>> \in Compatible PROVE j = b
  <2>1. <<j, b>> \in Compatible
    BY <1>2, <1>3, <1>5
  <2> QED BY <1>1, <1>4, <2>1, CompatibleAssumption
<1> QED BY <1>1, <1>4, <1>5

(* The wildcard types strictly above another, but for "*". *)
Above(t) == {w \in Concrete : <<t, w>> \in Compatible /\ w # t}

LEMMA AboveConcrete ==
    ASSUME NEW t \in Concrete, NEW w \in Types, <<t, w>> \in Compatible
    PROVE  w # LiteralType
<1>1. <<LiteralType, t>> \in Compatible /\ t \in Types /\ t # LiteralType
  BY LatticeAssumption DEF Concrete
<1> QED BY <1>1, CompatibleAssumption, TableAssumption

LEMMA WiderShape ==
    ASSUME NEW c \in Concrete, NEW seen \in SUBSET Types
    PROVE  /\ Wider(c, seen) \in SUBSET Concrete
           /\ \A w \in Wider(c, seen) : <<c, w>> \in Compatible /\ w \notin seen
           /\ Wider(c, seen) # {} => Lowest(Narrowest(Wider(c, seen)), Wider(c, seen))
<1> DEFINE W == Wider(c, seen)
<1>1. c \in Types /\ c # LiteralType
  BY DEF Concrete
<1>2. ASSUME NEW w \in W
      PROVE  w \in Concrete /\ <<c, w>> \in Compatible /\ w \notin seen
  <2>1. PICK t \in Types : w = Join[<<c, t>>]
    BY DEF Wider
  <2>2. w \in Types /\ <<c, w>> \in Compatible
    BY <1>1, <2>1, JoinFacts
  <2>3. w # AnyType /\ w \notin seen
    BY DEF Wider
  <2> QED BY <2>2, <2>3, AboveConcrete DEF Concrete
<1>3. Comparable(W)
  <2> HIDE DEF W
  <2>1. \A w \in W : w \in Types
    BY <1>2 DEF Concrete
  <2> QED BY <1>1, <1>2, <2>1, LatticeAssumption DEF Comparable
<1>4. W \in SUBSET Types
  BY <1>2 DEF Concrete
<1> HIDE DEF W
<1>5. W # {} => Lowest(Narrowest(W), W)
  BY <1>3, <1>4, LowestExists
<1> QED BY <1>2, <1>5 DEF W

(* As long as nothing above the current type was listed, all is left. *)
LEMMA WiderIs ==
    ASSUME NEW c \in Concrete, NEW seen \in SUBSET Types,
           \A w \in seen : <<c, w>> \in Compatible => w = c, c \in seen
    PROVE  Wider(c, seen) = Above(c)
<1>1. ASSUME NEW w \in Wider(c, seen) PROVE w \in Above(c)
  BY <1>1, WiderShape DEF Above
<1>2. ASSUME NEW w \in Above(c) PROVE w \in Wider(c, seen)
  <2>1. w \in Types /\ w # LiteralType /\ w # AnyType /\ <<c, w>> \in Compatible
    BY DEF Above, Concrete
  <2>2. w \notin seen /\ c \in Types
    BY DEF Above, Concrete
  <2>3. Join[<<c, w>>] = w
    BY <2>1, <2>2, JoinFacts
  <2>4. w \in Types \ (seen \cup {LiteralType})
    BY <2>1, <2>2
  <2>5. w \in {Join[<<c, t>>] : t \in Types \ (seen \cup {LiteralType})}
    BY <2>3, <2>4
  <2> QED BY <2>1, <2>2, <2>5 DEF Wider
<1> QED BY <1>1, <1>2

(* The equation of Widened on the states of its loop with little room *)
Loops == Concrete \X (SUBSET Types) \X (0..MaxVariants)

LoopsUpto(n) == {x \in Loops : x[3] <= n}

WidenedStep(g, x) ==
    IF Wider(x[1], x[2]) = {} \/ x[3] = 0 THEN <<>>
    ELSE <<Narrowest(Wider(x[1], x[2]))>>
         \o g[<<Narrowest(Wider(x[1], x[2])),
                x[2] \cup {Narrowest(Wider(x[1], x[2]))}, x[3] - 1>>]

LEMMA NextLoop ==
    ASSUME NEW x \in Loops, Wider(x[1], x[2]) # {}, x[3] # 0
    PROVE  LET t == Narrowest(Wider(x[1], x[2])) IN
           /\ <<t, x[2] \cup {t}, x[3] - 1>> \in LoopsUpto(x[3] - 1)
           /\ x[3] - 1 \in Nat
<1>1. x[1] \in Concrete /\ x[2] \in SUBSET Types /\ x[3] \in 0..MaxVariants
  BY DEF Loops
<1> DEFINE t == Narrowest(Wider(x[1], x[2]))
<1>2. t \in Concrete /\ t \in Types
  <2>1. Lowest(t, Wider(x[1], x[2])) /\ Wider(x[1], x[2]) \in SUBSET Concrete
    BY <1>1, WiderShape
  <2> QED BY <2>1 DEF Lowest, Concrete
<1> HIDE DEF t
<1>3. x[3] - 1 \in 0..MaxVariants /\ x[3] - 1 \in Nat
  BY <1>1, VariantsAssumption
<1>4. x[2] \cup {t} \in SUBSET Types
  BY <1>1, <1>2
<1>5. <<t, x[2] \cup {t}, x[3] - 1>> \in LoopsUpto(x[3] - 1)
  BY <1>2, <1>3, <1>4 DEF Loops, LoopsUpto
<1> QED BY <1>3, <1>5 DEF t

LEMMA LoopsGrow ==
    ASSUME NEW n \in Nat, NEW m \in Nat, m <= n
    PROVE  LoopsUpto(m) \subseteq LoopsUpto(n)
<1> SUFFICES ASSUME NEW x \in LoopsUpto(m) PROVE x \in LoopsUpto(n)
  OBVIOUS
<1>1. x \in Loops /\ x[3] <= m
  BY DEF LoopsUpto
<1>2. x[3] \in 0..MaxVariants
  BY <1>1 DEF Loops
<1>3. x[3] <= n
  BY <1>1, <1>2, VariantsAssumption
<1> QED BY <1>1, <1>3 DEF LoopsUpto

LEMMA WidenedUpto ==
    \A n \in Nat : \E g : g = [x \in LoopsUpto(n) |-> WidenedStep(g, x)]
<1> DEFINE Bad == {n \in Nat : ~ \E g : g = [x \in LoopsUpto(n) |-> WidenedStep(g, x)]}
<1> SUFFICES ASSUME Bad # {} PROVE FALSE
  OBVIOUS
<1>1. PICK n \in Bad : \A m \in Bad : n <= m
  BY Least
<1>2. PICK g : n # 0 => g = [x \in LoopsUpto(n - 1) |-> WidenedStep(g, x)]
  <2>1. CASE n = 0
    BY <2>1
  <2>2. CASE n # 0
    <3>1. n - 1 \in Nat /\ n - 1 \notin Bad
      BY <1>1, <2>2
    <3> QED BY <3>1
  <2> QED BY <2>1, <2>2
<1> DEFINE h == [x \in LoopsUpto(n) |-> WidenedStep(g, x)]
<1>3. ASSUME NEW x \in LoopsUpto(n) PROVE WidenedStep(g, x) = WidenedStep(h, x)
  <2>1. CASE Wider(x[1], x[2]) = {} \/ x[3] = 0
    BY <2>1 DEF WidenedStep
  <2>2. CASE Wider(x[1], x[2]) # {} /\ x[3] # 0
    <3> DEFINE t == Narrowest(Wider(x[1], x[2]))
               y == <<t, x[2] \cup {t}, x[3] - 1>>
    <3>1. x \in Loops /\ x[3] <= n
      BY DEF LoopsUpto
    <3>2. y \in LoopsUpto(x[3] - 1) /\ x[3] - 1 \in Nat
      BY <2>2, <3>1, NextLoop
    <3> HIDE DEF y
    <3>3. n # 0 /\ n - 1 \in Nat /\ x[3] - 1 <= n - 1 /\ x[3] - 1 <= n
      <4>1. x[3] \in Nat
        BY <3>1 DEF Loops
      <4> QED BY <3>1, <3>2, <4>1
    <3>4. y \in LoopsUpto(n - 1) /\ y \in LoopsUpto(n)
      BY <3>2, <3>3, LoopsGrow
    <3>5. g[y] = h[y]
      BY <1>2, <3>3, <3>4
    <3> HIDE DEF h
    <3>6. WidenedStep(g, x) = <<t>> \o g[y]
      BY <2>2 DEF WidenedStep, y
    <3>7. WidenedStep(h, x) = <<t>> \o h[y]
      BY <2>2 DEF WidenedStep, y
    <3> QED BY <3>5, <3>6, <3>7
  <2> QED BY <2>1, <2>2
<1>4. h = [x \in LoopsUpto(n) |-> WidenedStep(h, x)]
  BY <1>3
<1> HIDE DEF h
<1> QED BY <1>4

LEMMA WidenedFunction == Widened = [x \in Loops |-> WidenedStep(Widened, x)]
<1>1. LoopsUpto(MaxVariants) = Loops
  <2>1. \A x \in Loops : x[3] <= MaxVariants
    BY VariantsAssumption DEF Loops
  <2> QED BY <2>1 DEF LoopsUpto
<1>2. \E g : g = [x \in LoopsUpto(MaxVariants) |-> WidenedStep(g, x)]
  BY WidenedUpto, VariantsAssumption
<1>3. \E g : g = [x \in Loops |-> WidenedStep(g, x)]
  BY <1>1, <1>2, Zenon
<1> QED BY <1>3 DEF Widened, WidenedStep, Loops

LEMMA WidenedDef == \A x \in Loops : Widened[x] = WidenedStep(Widened, x)
<1> DEFINE g == Widened
<1>1. g = [x \in Loops |-> WidenedStep(g, x)]
  BY WidenedFunction, Zenon
<1> HIDE DEF g
<1>2. \A x \in Loops : g[x] = WidenedStep(g, x)
  BY <1>1, Zenon
<1> QED BY <1>2 DEF g

(* The list has types above the current one, as many as there is room for, *)
(* and all of them if there is.                                            *)
Lists(list, S, n) ==
    /\ list \in Seq(S) /\ Len(list) <= n
    /\ Len(list) < n => \A w \in S : \E i \in 1..Len(list) : list[i] = w

LEMMA LongerLists ==
    ASSUME NEW S, NEW t \in S, NEW R \in SUBSET S, S \ {t} \subseteq R,
           NEW n \in Nat \ {0}, NEW list, Lists(list, R, n - 1)
    PROVE  Lists(<<t>> \o list, S, n)
<1> DEFINE long == <<t>> \o list
<1>1. list \in Seq(R) /\ Len(list) \in Nat /\ Len(list) <= n - 1
  BY DEF Lists
<1>2. list \in Seq(S)
  BY <1>1
<1>3. <<t>> \in Seq(S) /\ Len(<<t>>) = 1
  OBVIOUS
<1>4. /\ long \in Seq(S) /\ Len(long) = Len(list) + 1 /\ long[1] = t
      /\ \A i \in 1..Len(list) : long[i + 1] = list[i]
  BY <1>1, <1>2, <1>3
<1> HIDE DEF long
<1>5. ASSUME Len(long) < n, NEW w \in S PROVE \E i \in 1..Len(long) : long[i] = w
  <2>1. CASE w = t
    BY <1>1, <1>4, <2>1
  <2>2. CASE w # t
    <3>1. Len(list) < n - 1 /\ w \in R
      BY <1>1, <1>4, <1>5, <2>2
    <3>2. PICK i \in 1..Len(list) : list[i] = w
      BY <3>1 DEF Lists
    <3>3. i + 1 \in 1..Len(long) /\ long[i + 1] = w
      BY <1>1, <1>4, <3>2
    <3> QED BY <3>3
  <2> QED BY <2>1, <2>2
<1>6. Len(long) <= n
  BY <1>1, <1>4
<1> QED BY <1>4, <1>5, <1>6 DEF Lists, long

Fresh(c, seen) == c \in seen /\ \A w \in seen : <<c, w>> \in Compatible => w = c

LEMMA WidenedLists ==
    \A n \in 0..MaxVariants : \A c \in Concrete, seen \in SUBSET Types :
        Fresh(c, seen) => Lists(Widened[<<c, seen, n>>], Above(c), n)
<1> DEFINE Good(n) == \A c \in Concrete, seen \in SUBSET Types :
               Fresh(c, seen) => Lists(Widened[<<c, seen, n>>], Above(c), n)
           Bad == {n \in 0..MaxVariants : ~Good(n)}
<1> SUFFICES ASSUME Bad # {} PROVE FALSE
  OBVIOUS
<1>1. Bad \in SUBSET Nat
  OBVIOUS
<1>2. PICK n \in Bad : \A m \in Bad : n <= m
  <2> HIDE DEF Bad
  <2> QED BY <1>1, Least
<1>3. n \in 0..MaxVariants /\ n \in Nat /\ ~Good(n)
  BY <1>2
<1>4. n # 0 => n - 1 \in 0..MaxVariants /\ Good(n - 1)
  <2>1. ASSUME n # 0 PROVE n - 1 \in 0..MaxVariants /\ n - 1 \notin Bad
    BY <1>1, <1>2, <1>3, <2>1, VariantsAssumption
  <2> QED BY <2>1
<1> HIDE DEF Bad
<1>5. Good(n)
  <2> SUFFICES ASSUME NEW c \in Concrete, NEW seen \in SUBSET Types, Fresh(c, seen)
               PROVE  Lists(Widened[<<c, seen, n>>], Above(c), n)
    OBVIOUS
  <2> HIDE DEF Good
  <2> PICK x : x = <<c, seen, n>>
    OBVIOUS
  <2>1. x \in Loops /\ x[1] = c /\ x[2] = seen /\ x[3] = n
    BY <1>3 DEF Loops
  <2>2. Widened[x] = WidenedStep(Widened, x)
    BY <2>1, WidenedDef
  <2>3. Wider(c, seen) = Above(c)
    BY WiderIs DEF Fresh
  <2>4. CASE Above(c) = {} \/ n = 0
    <3>1. Widened[x] = <<>>
      BY <2>1, <2>2, <2>3, <2>4 DEF WidenedStep
    <3>2. <<>> \in Seq(Above(c)) /\ Len(<<>>) = 0
      OBVIOUS
    <3>3. Lists(<<>>, Above(c), n)
      BY <1>3, <2>4, <3>2 DEF Lists
    <3> QED BY <3>1, <3>3
  <2>5. CASE Above(c) # {} /\ n # 0
    <3> DEFINE t == Narrowest(Above(c))
               more == Widened[<<t, seen \cup {t}, n - 1>>]
    <3>1. Widened[x] = <<t>> \o more
      BY <2>1, <2>2, <2>3, <2>5 DEF WidenedStep
    <3>2. t \in Above(c) /\ \A w \in Above(c) : <<t, w>> \in Compatible
      <4>1. Lowest(t, Above(c))
        BY <2>3, <2>5, WiderShape
      <4> QED BY <4>1 DEF Lowest
    <3> HIDE DEF t
    <3>3. t \in Concrete /\ t \in Types /\ <<c, t>> \in Compatible /\ t # c /\ c \in Types
      BY <3>2 DEF Above, Concrete
    <3>4. seen \cup {t} \in SUBSET Types
      BY <3>3
    <3>5. Fresh(t, seen \cup {t})
      <4> SUFFICES ASSUME NEW w \in seen, <<t, w>> \in Compatible PROVE w = t
        BY DEF Fresh
      <4>1. w \in Types /\ <<c, w>> \in Compatible
        BY <3>3, CompatibleAssumption
      <4>2. w = c
        BY <4>1 DEF Fresh
      <4> QED BY <3>3, <4>2, CompatibleAssumption
    <3>6. Lists(more, Above(t), n - 1)
      BY <1>4, <2>5, <3>3, <3>4, <3>5 DEF Good
    <3>7. ASSUME NEW w \in Above(t) PROVE w \in Above(c)
      <4>1. w \in Concrete /\ w \in Types /\ <<t, w>> \in Compatible /\ w # t
        BY DEF Above, Concrete
      <4>2. <<c, w>> \in Compatible
        BY <3>3, <4>1, CompatibleAssumption
      <4>3. w # c
        BY <3>3, <4>1, CompatibleAssumption
      <4> QED BY <4>1, <4>2, <4>3 DEF Above
    <3>8. Above(c) \ {t} \subseteq Above(t)
      <4>1. \A w \in Above(c) : w \in Concrete
        BY DEF Above
      <4> QED BY <3>2, <4>1 DEF Above
    <3> HIDE DEF more
    <3>9. Lists(<<t>> \o more, Above(c), n)
      <4>1. n \in Nat \ {0} /\ Above(t) \in SUBSET Above(c)
        BY <1>3, <2>5, <3>7
      <4> QED BY <3>2, <3>6, <3>8, <4>1, LongerLists
    <3> QED BY <3>1, <3>9
  <2> QED BY <2>4, <2>5
<1> QED BY <1>3, <1>5

(* The equation of a join of several types on the sets up to a size *)
Upto(S, n) == {s \in SUBSET S : Cardinality(s) <= n}

JoinStep(g, s) ==
    IF s = {} THEN LiteralType
    ELSE LET x == CHOOSE x \in s : TRUE IN Join[<<g[s \ {x}], x>>]

LEMMA JoinsUpto ==
    ASSUME NEW S, IsFiniteSet(S)
    PROVE  \A n \in Nat : \E g : g = [s \in Upto(S, n) |-> JoinStep(g, s)]
<1> DEFINE Bad == {n \in Nat : ~ \E g : g = [s \in Upto(S, n) |-> JoinStep(g, s)]}
<1> SUFFICES ASSUME Bad # {} PROVE FALSE
  OBVIOUS
<1>1. PICK n \in Bad : \A m \in Bad : n <= m
  BY Least
<1>2. PICK g : n # 0 => g = [s \in Upto(S, n - 1) |-> JoinStep(g, s)]
  <2>1. CASE n = 0
    BY <2>1
  <2>2. CASE n # 0
    <3>1. n - 1 \in Nat /\ n - 1 \notin Bad
      BY <1>1, <2>2
    <3> QED BY <3>1
  <2> QED BY <2>1, <2>2
<1> DEFINE h == [s \in Upto(S, n) |-> JoinStep(g, s)]
<1>3. ASSUME NEW s \in Upto(S, n) PROVE JoinStep(g, s) = JoinStep(h, s)
  <2>1. CASE s = {}
    BY <2>1 DEF JoinStep
  <2>2. CASE s # {}
    <3> DEFINE x == CHOOSE x \in s : TRUE
    <3>1. x \in s
      BY <2>2
    <3> HIDE DEF x
    <3>2. n # 0 /\ s \ {x} \in Upto(S, n - 1) /\ s \ {x} \in Upto(S, n)
      <4>1. IsFiniteSet(s) /\ Cardinality(s) \in Nat /\ Cardinality(s) <= n
        BY FS_Subset, FS_CardinalityType DEF Upto
      <4>2. Cardinality(s \ {x}) = Cardinality(s) - 1 /\ Cardinality(s) # 0
        BY <3>1, <4>1, FS_RemoveElement, FS_EmptySet
      <4>3. s \ {x} \in SUBSET S
        BY DEF Upto
      <4> QED BY <4>1, <4>2, <4>3 DEF Upto
    <3>3. g[s \ {x}] = h[s \ {x}]
      BY <1>2, <3>2
    <3> HIDE DEF h
    <3> QED BY <2>2, <3>3 DEF JoinStep, x
  <2> QED BY <2>1, <2>2
<1>4. h = [s \in Upto(S, n) |-> JoinStep(h, s)]
  BY <1>3
<1> HIDE DEF h
<1> QED BY <1>4

(* The join of some types is their least upper bound. *)
Bound(s, t) ==
    /\ t \in Types
    /\ \A w \in Types : <<t, w>> \in Compatible <=> \A u \in s : <<u, w>> \in Compatible

LEMMA BoundStep ==
    ASSUME NEW s \in SUBSET Types, NEW x \in s, NEW t, Bound(s \ {x}, t)
    PROVE  Bound(s, Join[<<t, x>>])
<1>1. t \in Types /\ x \in Types
  BY DEF Bound
<1> PICK j : j = Join[<<t, x>>]
  OBVIOUS
<1>2. j \in Types
  BY <1>1, JoinFacts
<1>3. ASSUME NEW w \in Types
      PROVE  <<j, w>> \in Compatible <=> \A u \in s : <<u, w>> \in Compatible
  <2>1. <<j, w>> \in Compatible <=> <<t, w>> \in Compatible /\ <<x, w>> \in Compatible
    BY <1>1, LatticeAssumption
  <2>2. <<t, w>> \in Compatible <=> \A u \in s \ {x} : <<u, w>> \in Compatible
    BY DEF Bound
  <2> QED BY <2>1, <2>2
<1> QED BY <1>2, <1>3 DEF Bound

LEMMA JoinAllBound ==
    ASSUME NEW S \in SUBSET Types
    PROVE  Bound(S, JoinAll(S))
<1> DEFINE Eq(g) == g = [s \in SUBSET S |-> JoinStep(g, s)]
           g == CHOOSE g : Eq(g)
           n == Cardinality(S)
<1>0. IsFiniteSet(S)
  BY VariantsAssumption, FS_Subset
<1>1. n \in Nat /\ Upto(S, n) = SUBSET S
  BY <1>0, FS_CardinalityType, FS_Subset DEF Upto
<1> HIDE DEF n
<1>2. \E h : h = [s \in Upto(S, n) |-> JoinStep(h, s)]
  <2>1. \A m \in Nat : \E h : h = [s \in Upto(S, m) |-> JoinStep(h, s)]
    BY <1>0, JoinsUpto
  <2> QED BY <1>1, <2>1
<1>3. \E h : Eq(h)
  BY <1>1, <1>2, Zenon
<1>4. Eq(g)
  BY <1>3, Zenon
<1>5. JoinAll(S) = g[S]
  BY Zenon DEF JoinAll, FoldSet, MapThenFoldSet, JoinStep
<1> HIDE DEF g
<1>6. \A s \in SUBSET S : g[s] = JoinStep(g, s)
  BY <1>4
<1> HIDE DEF Eq
<1> DEFINE Bad == {s \in SUBSET S : ~Bound(s, g[s])}
<1>7. Bad = {}
  <2> SUFFICES ASSUME Bad # {} PROVE FALSE
    OBVIOUS
  <2>1. PICK s \in Bad : s \in SUBSET S /\ \A x \in s : s \ {x} \notin Bad
    <3>1. Bad \in SUBSET (SUBSET S)
      OBVIOUS
    <3> HIDE DEF Bad
    <3> QED BY <1>0, <3>1, SmallestSet
  <2>2. s \in SUBSET Types /\ g[s] = JoinStep(g, s)
    BY <1>6, <2>1
  <2>3. CASE s = {}
    <3>1. g[s] = LiteralType
      BY <2>2, <2>3 DEF JoinStep
    <3>2. Bound(s, LiteralType)
      BY <2>3, LatticeAssumption, TableAssumption DEF Bound
    <3> QED BY <2>1, <3>1, <3>2
  <2>4. CASE s # {}
    <3> DEFINE x == CHOOSE x \in s : TRUE
    <3>1. x \in s
      BY <2>4
    <3>2. g[s] = Join[<<g[s \ {x}], x>>]
      BY <2>2, <2>4 DEF JoinStep
    <3> HIDE DEF x
    <3>3. s \ {x} \in SUBSET S
      BY <2>1
    <3>4. Bound(s \ {x}, g[s \ {x}])
      BY <2>1, <3>1, <3>3
    <3>5. Bound(s, g[s])
      BY <2>2, <3>1, <3>2, <3>4, BoundStep
    <3> QED BY <2>1, <3>5
  <2> QED BY <2>3, <2>4
<1>8. S \in SUBSET S
  OBVIOUS
<1>9. Bound(S, g[S])
  BY <1>7, <1>8
<1> QED BY <1>5, <1>9

-------------------------------------------------------------------------------
(* The types a token may stand for, and the wildcards that take them all.  *)

TypesAt(rule, i) ==
    IF rule[i].kind = "lit" THEN LiteralTypes(rule, i) ELSE {rule[i].type}

Covering(rule, i) ==
    {w \in Types \ {LiteralType} :
        /\ \A t \in TypesAt(rule, i) \ {LiteralType} : <<t, w>> \in Compatible
        /\ LiteralType \in TypesAt(rule, i) => w = AnyType
        /\ w = AnyType => i # 1}

LEMMA TypesAtShape ==
    ASSUME NEW rule \in Rules, NEW i \in 1..Len(rule)
    PROVE  TypesAt(rule, i) \in SUBSET Types /\ TypesAt(rule, i) # {}
<1>1. CASE rule[i].kind = "lit"
  <2>1. LiteralTypes(rule, i) \subseteq Types
    BY <1>1, LiteralTypesTyped
  <2>2. LiteralTypes(rule, i) # {}
    <3> DEFINE typed == {Classify[<<rule[i].word, ctx>>] : ctx \in Contexts}
    <3>1. Classify[<<rule[i].word, NoContext>>] \in typed
      BY TableAssumption
    <3>2. typed # {}
      BY <3>1
    <3>3. \/ LiteralTypes(rule, i) = typed
          \/ \E t : LiteralTypes(rule, i) = {t}
      BY DEF LiteralTypes
    <3> HIDE DEF typed
    <3> QED BY <3>2, <3>3
  <2> QED BY <1>1, <2>1, <2>2 DEF TypesAt
<1>2. CASE rule[i].kind # "lit"
  <2>1. rule[i].type \in Types
    BY <1>2, TokenKinds
  <2> QED BY <1>2, <2>1 DEF TypesAt
<1> QED BY <1>1, <1>2

(* The wildcards that take a token are those from its start type on. *)
LEMMA StartExact ==
    ASSUME NEW rule \in Rules, NEW i \in 1..Len(rule)
    PROVE  /\ StartType(rule, i) \in Types
           /\ StartType(rule, i) = LiteralType <=> TypesAt(rule, i) = {LiteralType}
           /\ StartType(rule, i) # LiteralType =>
                 Covering(rule, i) =
                    {w \in Types \ {LiteralType} : /\ <<StartType(rule, i), w>> \in Compatible
                                                   /\ w = AnyType => i # 1}
           /\ StartType(rule, i) = LiteralType =>
                 Covering(rule, i) = IF i = 1 THEN {} ELSE {AnyType}
<1> DEFINE T == TypesAt(rule, i)
           start == StartType(rule, i)
<1>1. T \in SUBSET Types /\ T # {}
  BY TypesAtShape
<1>2. LiteralType \in Types /\ AnyType \in Types /\ LiteralType # AnyType
      /\ \A t \in Types : <<t, AnyType>> \in Compatible
  BY TableAssumption, AnyAssumption
<1>3. \/ LiteralType \in T /\ T # {LiteralType} /\ start = AnyType
      \/ T = {LiteralType} /\ start = LiteralType
      \/ LiteralType \notin T /\ start # LiteralType /\ Bound(T, start)
  <2>1. CASE rule[i].kind = "lit" /\ LiteralType \in T /\ T # {LiteralType}
    BY <2>1 DEF StartType, TypesAt
  <2>2. CASE rule[i].kind = "lit" /\ ~(LiteralType \in T /\ T # {LiteralType})
    <3>1. start = JoinAll(T)
      BY <2>2 DEF StartType, TypesAt
    <3>2. Bound(T, start)
      BY <1>1, <3>1, JoinAllBound
    <3> HIDE DEF T, start
    <3>3. CASE T = {LiteralType}
      <4>1. start \in Types /\ (<<start, LiteralType>> \in Compatible <=>
                                  <<LiteralType, LiteralType>> \in Compatible)
        BY <1>2, <3>2, <3>3 DEF Bound
      <4>2. <<LiteralType, start>> \in Compatible /\ <<LiteralType, LiteralType>> \in Compatible
        BY <1>2, <4>1, LatticeAssumption
      <4> QED BY <1>2, <3>3, <4>1, <4>2, CompatibleAssumption
    <3>4. CASE T # {LiteralType}
      <4>1. LiteralType \notin T
        BY <2>2, <3>4
      <4>2. PICK t \in T : t \in Types /\ t # LiteralType
        BY <1>1, <4>1
      <4>3. start \in Types /\ <<start, start>> \in Compatible
        BY <3>2, CompatibleAssumption DEF Bound
      <4>4. <<t, start>> \in Compatible
        BY <3>2, <4>3 DEF Bound
      <4>5. <<LiteralType, t>> \in Compatible
        BY <4>2, LatticeAssumption
      <4>6. start # LiteralType
        BY <1>2, <4>2, <4>4, <4>5, CompatibleAssumption
      <4> QED BY <3>2, <4>1, <4>6
    <3> QED BY <3>3, <3>4
  <2>3. CASE rule[i].kind # "lit"
    <3>1. start = rule[i].type /\ T = {rule[i].type}
      BY <2>3 DEF StartType, TypesAt
    <3>2. rule[i].type \in Types \ {LiteralType}
      BY <2>3, TokenKinds
    <3>3. Bound(T, start)
      BY <3>1, <3>2 DEF Bound
    <3> QED BY <3>1, <3>2, <3>3
  <2> QED BY <2>1, <2>2, <2>3
<1>4. Covering(rule, i) =
        {w \in Types \ {LiteralType} :
            /\ \A t \in T \ {LiteralType} : <<t, w>> \in Compatible
            /\ LiteralType \in T => w = AnyType
            /\ w = AnyType => i # 1}
  BY DEF Covering
<1> HIDE DEF T, start
<1>5. CASE LiteralType \in T /\ T # {LiteralType} /\ start = AnyType
  <2>1. \A w \in Types : <<AnyType, w>> \in Compatible <=> w = AnyType
    BY <1>2, AnyTop
  <2>2. ASSUME NEW w \in Types \ {LiteralType}
        PROVE  (/\ \A t \in T \ {LiteralType} : <<t, w>> \in Compatible
                /\ LiteralType \in T => w = AnyType)
               <=> <<start, w>> \in Compatible
    BY <1>1, <1>2, <1>5, <2>1
  <2>3. Covering(rule, i) = {w \in Types \ {LiteralType} :
                                <<start, w>> \in Compatible /\ (w = AnyType => i # 1)}
    BY <1>4, <2>2
  <2> QED BY <1>2, <1>5, <2>3 DEF T, start
<1>6. CASE T = {LiteralType} /\ start = LiteralType
  <2>1. Covering(rule, i) = {w \in Types \ {LiteralType} : w = AnyType /\ (w = AnyType => i # 1)}
    BY <1>4, <1>6
  <2>2. Covering(rule, i) = IF i = 1 THEN {} ELSE {AnyType}
    BY <1>2, <2>1
  <2> QED BY <1>2, <1>6, <2>2 DEF T, start
<1>7. CASE LiteralType \notin T /\ start # LiteralType /\ Bound(T, start)
  <2>1. start \in Types
    BY <1>7 DEF Bound
  <2>2. ASSUME NEW w \in Types \ {LiteralType}
        PROVE  (/\ \A t \in T \ {LiteralType} : <<t, w>> \in Compatible
                /\ LiteralType \in T => w = AnyType)
               <=> <<start, w>> \in Compatible
    BY <1>7 DEF Bound
  <2>3. Covering(rule, i) = {w \in Types \ {LiteralType} :
                                <<start, w>> \in Compatible /\ (w = AnyType => i # 1)}
    BY <1>4, <2>2
  <2> QED BY <1>7, <2>1, <2>3 DEF T, start
<1> QED BY <1>3, <1>5, <1>6, <1>7

-------------------------------------------------------------------------------
(* The list that is offered.                                               *)

(* What is in the list but the literal itself, and when it must be all. *)
Offers(list, S, max) ==
    /\ list \in Seq(Types) /\ Len(list) <= max
    /\ \A k \in 1..Len(list) : list[k] # LiteralType => list[k] \in S
    /\ Len(list) < max => \A w \in S : \E k \in 1..Len(list) : list[k] = w

(* Three lists, one after the other *)
Joining(d, a, b, c) ==
    /\ Len(d) = Len(a) + Len(b) + Len(c)
    /\ \A k \in 1..Len(d) : \/ \E j \in 1..Len(a) : d[k] = a[j]
                            \/ \E j \in 1..Len(b) : d[k] = b[j]
                            \/ \E j \in 1..Len(c) : d[k] = c[j]
    /\ \A j \in 1..Len(a) : \E k \in 1..Len(d) : d[k] = a[j]
    /\ \A j \in 1..Len(b) : \E k \in 1..Len(d) : d[k] = b[j]
    /\ \A j \in 1..Len(c) : \E k \in 1..Len(d) : d[k] = c[j]

LEMMA JoiningSeqs ==
    ASSUME NEW a \in Seq(Types), NEW b \in Seq(Types), NEW c \in Seq(Types)
    PROVE  Joining(a \o b \o c, a, b, c)
<1> DEFINE d == a \o b \o c
           l == Len(a)
           m == Len(b)
           n == Len(c)
<1>1. l \in Nat /\ m \in Nat /\ n \in Nat
  OBVIOUS
<1>2. Len(d) = l + m + n
  OBVIOUS
<1>3. \A j \in 1..l : d[j] = a[j]
  OBVIOUS
<1>4. \A j \in 1..m : d[l + j] = b[j]
  OBVIOUS
<1>5. \A j \in 1..n : d[l + m + j] = c[j]
  OBVIOUS
<1> HIDE DEF d, l, m, n
<1>6. ASSUME NEW k \in 1..Len(d)
      PROVE  \/ \E j \in 1..l : d[k] = a[j]
             \/ \E j \in 1..m : d[k] = b[j]
             \/ \E j \in 1..n : d[k] = c[j]
  <2>1. CASE k <= l
    <3>1. k \in 1..l
      BY <1>1, <2>1
    <3> QED BY <1>3, <3>1
  <2>2. CASE ~(k <= l) /\ k <= l + m
    <3>1. k - l \in 1..m /\ l + (k - l) = k
      BY <1>1, <2>2
    <3>2. d[k] = b[k - l]
      BY <1>4, <3>1
    <3> QED BY <3>1, <3>2
  <2>3. CASE ~(k <= l + m)
    <3>1. k - (l + m) \in 1..n /\ l + m + (k - (l + m)) = k
      BY <1>1, <1>2, <2>3
    <3>2. d[k] = c[k - (l + m)]
      BY <1>5, <3>1
    <3> QED BY <3>1, <3>2
  <2> QED BY <1>1, <2>1, <2>2, <2>3
<1>7. \A j \in 1..l : \E k \in 1..Len(d) : d[k] = a[j]
  <2>1. \A j \in 1..l : j \in 1..Len(d)
    BY <1>1, <1>2
  <2> QED BY <1>3, <2>1
<1>8. \A j \in 1..m : \E k \in 1..Len(d) : d[k] = b[j]
  <2>1. \A j \in 1..m : l + j \in 1..Len(d)
    BY <1>1, <1>2
  <2> QED BY <1>4, <2>1
<1>9. \A j \in 1..n : \E k \in 1..Len(d) : d[k] = c[j]
  <2>1. \A j \in 1..n : l + m + j \in 1..Len(d)
    BY <1>1, <1>2
  <2> QED BY <1>5, <2>1
<1>10. Len(d) = Len(a) + Len(b) + Len(c)
  BY <1>2 DEF l, m, n
<1> QED BY <1>6, <1>7, <1>8, <1>9, <1>10 DEF Joining, d, l, m, n

(* The wildcards that take a token of a certain start type: itself, those  *)
(* above it, and "*".                                                      *)
LEMMA CoveringIs ==
    ASSUME NEW t \in Concrete, NEW i \in Nat
    PROVE  {w \in Types \ {LiteralType} : <<t, w>> \in Compatible /\ (w = AnyType => i # 1)}
               = {t} \cup Above(t) \cup (IF i = 1 THEN {} ELSE {AnyType})
<1>1. /\ t \in Types /\ t # LiteralType /\ t # AnyType /\ <<t, t>> \in Compatible
      /\ AnyType \in Types /\ AnyType # LiteralType /\ <<t, AnyType>> \in Compatible
  BY TableAssumption, AnyAssumption, CompatibleAssumption DEF Concrete
<1>2. \A w : w \in Above(t) <=> /\ w \in Types /\ w # LiteralType /\ w # AnyType
                                /\ <<t, w>> \in Compatible /\ w # t
  BY DEF Above, Concrete
<1> QED BY <1>1, <1>2

LEMMA VariantsOffer ==
    ASSUME NEW rule \in Rules, HeadAllowed(rule), NEW i \in 1..Len(rule),
           NEW max \in 1..MaxVariants
    PROVE  Offers(TokenVariants(rule, i, max), Covering(rule, i), max)
<1> DEFINE start  == StartType(rule, i)
           exact  == IF rule[i].kind = "comp" THEN <<>> ELSE <<LiteralType>>
           listed == IF \/ start = LiteralType \/ Len(exact) = max
                        \/ start = AnyType /\ ~(i # 1)
                     THEN exact ELSE Append(exact, start)
           wider  == IF start \in {LiteralType, AnyType} THEN <<>>
                     ELSE Widened[<<start, {start}, max - Len(listed)>>]
           any    == IF i # 1 /\ start # AnyType /\ Len(listed) + Len(wider) < max
                     THEN <<AnyType>> ELSE <<>>
           list   == TokenVariants(rule, i, max)
           S      == Covering(rule, i)
<1>1. list = listed \o wider \o any
  BY DEF TokenVariants
<1>2. /\ LiteralType \in Types /\ AnyType \in Types /\ LiteralType # AnyType
      /\ max \in Nat /\ max >= 1 /\ max <= MaxVariants /\ MaxVariants \in Nat
      /\ i \in Nat
  <2>1. rule \in Seq(Token)
    BY RulesAssumption
  <2> QED BY <2>1, TableAssumption, VariantsAssumption
<1>3. start \in Types
  BY StartExact
<1>4. /\ start = LiteralType => rule[i].kind # "comp" /\ S = (IF i = 1 THEN {} ELSE {AnyType})
      /\ start = AnyType => S = (IF i = 1 THEN {} ELSE {AnyType})
      /\ start \in Concrete => S = {start} \cup Above(start) \cup (IF i = 1 THEN {} ELSE {AnyType})
  <2>1. start = LiteralType => rule[i].kind # "comp"
    <3>1. rule[i].kind # "lit" => rule[i].type # LiteralType
      BY TokenKinds
    <3> QED BY <3>1 DEF StartType
  <2>2. start = LiteralType => S = (IF i = 1 THEN {} ELSE {AnyType})
    BY StartExact
  <2>3. start # LiteralType => S = {w \in Types \ {LiteralType} : <<start, w>> \in Compatible
                                                   /\ (w = AnyType => i # 1)}
    BY StartExact
  <2> HIDE DEF start, S
  <2>4. ASSUME start = AnyType PROVE S = (IF i = 1 THEN {} ELSE {AnyType})
    <3>1. \A w \in Types : <<AnyType, w>> \in Compatible <=> w = AnyType
      BY <1>2, AnyTop, AnyAssumption
    <3> QED BY <1>2, <2>3, <2>4, <3>1
  <2>5. ASSUME start \in Concrete
        PROVE  S = {start} \cup Above(start) \cup (IF i = 1 THEN {} ELSE {AnyType})
    <3>1. start # LiteralType
      BY <2>5 DEF Concrete
    <3> QED BY <1>2, <2>3, <2>5, <3>1, CoveringIs
  <2> QED BY <2>1, <2>2, <2>4, <2>5
<1>5. exact \in Seq(Types) /\ Len(exact) \in {0, 1}
      /\ (\A k \in 1..Len(exact) : exact[k] = LiteralType)
      /\ (rule[i].kind # "comp" => Len(exact) = 1)
  <2>1. <<>> \in Seq(Types) /\ Len(<<>>) = 0
    OBVIOUS
  <2>2. <<LiteralType>> \in Seq(Types) /\ Len(<<LiteralType>>) = 1 /\ <<LiteralType>>[1] = LiteralType
    BY <1>2
  <2> QED BY <2>1, <2>2
<1> HIDE DEF exact, start, S, list
<1>6. /\ listed \in Seq(Types) /\ Len(listed) \in 0..max
      /\ \A k \in 1..Len(listed) : listed[k] # LiteralType => listed[k] = start
      /\ start = AnyType /\ i = 1 => listed = exact
      /\ start = LiteralType => listed = exact
      /\ (start \in Concrete \/ (start = AnyType /\ i # 1)) /\ Len(listed) < max =>
            \E k \in 1..Len(listed) : listed[k] = start
  <2>1. CASE start = LiteralType \/ Len(exact) = max \/ (start = AnyType /\ ~(i # 1))
    <3>1. listed = exact
      BY <2>1
    <3>2. start \in Concrete => start # LiteralType /\ start # AnyType
      BY DEF Concrete
    <3> HIDE DEF listed
    <3>3. Len(listed) \in 0..max
      BY <1>2, <1>5, <3>1
    <3> QED BY <1>2, <1>5, <2>1, <3>1, <3>2, <3>3
  <2>2. CASE ~(start = LiteralType \/ Len(exact) = max \/ (start = AnyType /\ ~(i # 1)))
    <3>1. listed = Append(exact, start)
      BY <2>2
    <3> HIDE DEF listed
    <3>2. listed \in Seq(Types) /\ Len(listed) = Len(exact) + 1
          /\ listed[Len(exact) + 1] = start
          /\ \A k \in 1..Len(exact) : listed[k] = exact[k]
      BY <1>3, <1>5, <3>1
    <3>3. Len(exact) \in Nat /\ Len(exact) < max
      BY <1>2, <1>5, <2>2
    <3>4. Len(listed) \in 0..max
      BY <1>2, <3>2, <3>3
    <3>5. \A k \in 1..Len(listed) : k = Len(exact) + 1 \/ k \in 1..Len(exact)
      BY <3>2, <3>3
    <3>6. \A k \in 1..Len(listed) : listed[k] # LiteralType => listed[k] = start
      BY <1>5, <3>2, <3>5
    <3>7. Len(exact) + 1 \in 1..Len(listed)
      BY <3>2, <3>3
    <3> QED BY <2>2, <3>2, <3>4, <3>6, <3>7
  <2> QED BY <2>1, <2>2
<1> HIDE DEF listed
<1>7. /\ wider \in Seq(Types) /\ Len(wider) \in Nat /\ Len(listed) + Len(wider) <= max
      /\ start \notin Concrete => wider = <<>>
      /\ start \in Concrete => /\ \A k \in 1..Len(wider) : wider[k] \in Above(start)
                               /\ Len(listed) + Len(wider) < max =>
                                     \A w \in Above(start) : \E k \in 1..Len(wider) : wider[k] = w
  <2>1. CASE start \notin Concrete
    <3>1. wider = <<>>
      BY <1>3, <2>1 DEF Concrete
    <3> HIDE DEF wider
    <3>2. <<>> \in Seq(Types) /\ Len(<<>>) = 0
      OBVIOUS
    <3> QED BY <1>2, <1>6, <2>1, <3>1, <3>2
  <2>2. CASE start \in Concrete
    <3> DEFINE n == max - Len(listed)
    <3>1. n \in 0..MaxVariants /\ Len(listed) \in Nat
      BY <1>2, <1>6
    <3>2. wider = Widened[<<start, {start}, n>>]
      BY <2>2 DEF Concrete
    <3>3. Fresh(start, {start}) /\ {start} \in SUBSET Types
      BY <1>3 DEF Fresh
    <3>4. Lists(Widened[<<start, {start}, n>>], Above(start), n)
      <4> HIDE DEF n, wider
      <4> QED BY <2>2, <3>1, <3>3, WidenedLists
    <3> HIDE DEF wider
    <3>5. Lists(wider, Above(start), n)
      BY <3>2, <3>4
    <3>6. wider \in Seq(Above(start)) /\ Len(wider) <= n
          /\ (Len(wider) < n => \A w \in Above(start) : \E k \in 1..Len(wider) : wider[k] = w)
      BY <3>5 DEF Lists
    <3>7. Len(wider) \in Nat /\ \A k \in 1..Len(wider) : wider[k] \in Above(start)
      BY <3>6
    <3>8. wider \in Seq(Types)
      <4>1. Above(start) \subseteq Types
        BY DEF Above, Concrete
      <4> QED BY <3>6, <4>1
    <3>9. Len(listed) + Len(wider) <= max
          /\ (Len(listed) + Len(wider) < max => Len(wider) < n)
      BY <1>2, <3>1, <3>6, <3>7
    <3> QED BY <2>2, <3>6, <3>7, <3>8, <3>9
  <2> QED BY <2>1, <2>2
<1> HIDE DEF wider
<1>8. /\ any \in Seq(Types) /\ Len(any) \in Nat
      /\ Len(listed) + Len(wider) + Len(any) <= max
      /\ \A k \in 1..Len(any) : any[k] = AnyType /\ i # 1
      /\ i # 1 /\ start # AnyType /\ Len(listed) + Len(wider) + Len(any) < max =>
             \E k \in 1..Len(any) : any[k] = AnyType
  <2>1. <<>> \in Seq(Types) /\ Len(<<>>) = 0
    OBVIOUS
  <2>2. <<AnyType>> \in Seq(Types) /\ Len(<<AnyType>>) = 1 /\ <<AnyType>>[1] = AnyType
    BY <1>2
  <2>3. Len(listed) \in Nat /\ Len(wider) \in Nat
    BY <1>6, <1>7
  <2>4. CASE i # 1 /\ start # AnyType /\ Len(listed) + Len(wider) < max
    <3>1. any = <<AnyType>>
      BY <2>4
    <3> HIDE DEF any
    <3>2. Len(any) = 1 /\ any[1] = AnyType /\ any \in Seq(Types)
      BY <2>2, <3>1
    <3>3. Len(listed) + Len(wider) + 1 <= max
      BY <1>2, <2>3, <2>4
    <3>4. \A k \in 1..Len(any) : k = 1
      BY <3>2
    <3> QED BY <2>4, <3>2, <3>3, <3>4
  <2>5. CASE ~(i # 1 /\ start # AnyType /\ Len(listed) + Len(wider) < max)
    <3>1. any = <<>>
      BY <2>5
    <3> HIDE DEF any
    <3>2. Len(any) = 0 /\ any \in Seq(Types)
      BY <2>1, <3>1
    <3>3. Len(listed) + Len(wider) + Len(any) = Len(listed) + Len(wider)
      BY <2>3, <3>2
    <3> QED BY <1>7, <2>5, <3>2, <3>3
  <2> QED BY <2>4, <2>5
<1> HIDE DEF any
<1>9. /\ Len(list) = Len(listed) + Len(wider) + Len(any)
      /\ \A k \in 1..Len(list) : \/ \E j \in 1..Len(listed) : list[k] = listed[j]
                                 \/ \E j \in 1..Len(wider) : list[k] = wider[j]
                                 \/ \E j \in 1..Len(any) : list[k] = any[j]
      /\ \A j \in 1..Len(listed) : \E k \in 1..Len(list) : list[k] = listed[j]
      /\ \A j \in 1..Len(wider) : \E k \in 1..Len(list) : list[k] = wider[j]
      /\ \A j \in 1..Len(any) : \E k \in 1..Len(list) : list[k] = any[j]
  <2>1. listed \in Seq(Types) /\ wider \in Seq(Types) /\ any \in Seq(Types)
    BY <1>6, <1>7, <1>8
  <2>2. Joining(list, listed, wider, any)
    BY <1>1, <2>1, JoiningSeqs
  <2> QED BY <2>2 DEF Joining
<1>10. list \in Seq(Types) /\ Len(list) <= max
  <2>1. list \in Seq(Types)
    BY <1>1, <1>6, <1>7, <1>8
  <2> QED BY <1>2, <1>6, <1>7, <1>8, <1>9, <2>1
<1>11. start = LiteralType \/ start = AnyType \/ start \in Concrete
  BY <1>3 DEF Concrete
<1>12. LiteralType \notin Concrete /\ AnyType \notin Concrete
  BY DEF Concrete
<1>13. ASSUME NEW k \in 1..Len(list), list[k] # LiteralType PROVE list[k] \in S
  <2>1. CASE \E j \in 1..Len(listed) : list[k] = listed[j]
    <3>1. list[k] = start
      BY <1>6, <1>13, <2>1
    <3>2. start = AnyType => i # 1
      BY <1>5, <1>6, <1>13, <2>1, <3>1
    <3> QED BY <1>4, <1>11, <1>13, <3>1, <3>2
  <2>2. CASE \E j \in 1..Len(wider) : list[k] = wider[j]
    <3>1. start \in Concrete
      BY <1>7, <2>2
    <3>2. list[k] \in Above(start)
      BY <1>7, <2>2, <3>1
    <3> QED BY <1>4, <3>1, <3>2
  <2>3. CASE \E j \in 1..Len(any) : list[k] = any[j]
    <3>1. list[k] = AnyType /\ i # 1
      BY <1>8, <2>3
    <3> QED BY <1>4, <1>11, <3>1
  <2> QED BY <1>9, <2>1, <2>2, <2>3
<1>14. ASSUME Len(list) < max, NEW w \in S PROVE \E k \in 1..Len(list) : list[k] = w
  <2>1. Len(listed) \in Nat /\ Len(wider) \in Nat /\ Len(any) \in Nat
    BY <1>6, <1>7, <1>8
  <2>2. Len(listed) < max /\ Len(listed) + Len(wider) < max
    BY <1>2, <1>9, <1>14, <2>1
  <2>3. CASE w = AnyType
    <3>1. i # 1
      BY <1>4, <1>11, <1>12, <1>14, <2>3 DEF Above
    <3>2. CASE start = AnyType
      <4>1. \E j \in 1..Len(listed) : listed[j] = w
        BY <1>6, <2>2, <2>3, <3>1, <3>2
      <4> QED BY <1>9, <4>1
    <3>3. CASE start # AnyType
      <4>1. \E j \in 1..Len(any) : any[j] = w
        BY <1>8, <1>9, <1>14, <2>3, <3>1, <3>3
      <4> QED BY <1>9, <4>1
    <3> QED BY <3>2, <3>3
  <2>4. CASE w # AnyType
    <3>1. start \in Concrete /\ (w = start \/ w \in Above(start))
      BY <1>4, <1>11, <1>14, <2>4
    <3>2. CASE w = start
      <4>1. \E j \in 1..Len(listed) : listed[j] = w
        BY <1>6, <2>2, <3>1, <3>2
      <4> QED BY <1>9, <4>1
    <3>3. CASE w \in Above(start)
      <4>1. \E j \in 1..Len(wider) : wider[j] = w
        BY <1>7, <2>2, <3>1, <3>3
      <4> QED BY <1>9, <4>1
    <3> QED BY <3>1, <3>2, <3>3
  <2> QED BY <2>3, <2>4
<1> QED BY <1>10, <1>13, <1>14 DEF Offers, list, S

(* A wildcard that covers a token takes every word of it. *)
LEMMA CoveringAccepts ==
    ASSUME NEW rule \in Rules, NEW i \in 1..Len(rule), rule[i].kind = "lit",
           NEW type \in Covering(rule, i), NEW token,
           token.type = type, token.param = NoParam,
           NEW t \in LiteralTypes(rule, i)
    PROVE  WildcardAccepts(token, rule[i].word, t)
<1>1. TypesAt(rule, i) = LiteralTypes(rule, i)
  BY DEF TypesAt
<1>2. t \in TypesAt(rule, i) /\ t \in Types
  BY <1>1, TypesAtShape
<1>3. /\ type \in Types
      /\ \A u \in TypesAt(rule, i) \ {LiteralType} : <<u, type>> \in Compatible
      /\ LiteralType \in TypesAt(rule, i) => type = AnyType
  BY DEF Covering
<1>4. type \in Mask[t]
  <2>1. CASE t = LiteralType
    BY <1>2, <1>3, <2>1, AnyAssumption
  <2>2. CASE t # LiteralType
    <3>1. t \in Mask[t] /\ <<t, type>> \in Compatible
      BY <1>2, <1>3, <2>2, LatticeAssumption
    <3> QED BY <1>2, <1>3, <2>2, <3>1, UpwardAssumption
  <2> QED BY <2>1, <2>2
<1> QED BY <1>4 DEF WildcardAccepts, ParamMatches

(* A rule with another token in one place *)
LEMMA EditedRule ==
    ASSUME NEW rule \in Rules, HeadAllowed(rule), NEW i \in 1..Len(rule),
           NEW token \in Token, TokenSubsumes(token, rule, i),
           i = 1 => token.kind = "wild" /\ token.type # AnyType
    PROVE  LET edited == [rule EXCEPT ![i] = token] IN
           edited \in Seq(Token) /\ HeadAllowed(edited) /\ Subsumes(edited, rule)
<1> PICK edited : edited = [rule EXCEPT ![i] = token]
  OBVIOUS
<1>1. rule \in Seq(Token) /\ Len(rule) \in Nat /\ Len(rule) > 0
  BY RulesAssumption
<1>2. edited \in Seq(Token) /\ Len(edited) = Len(rule)
      /\ \A j \in 1..Len(rule) : edited[j] = IF j = i THEN token ELSE rule[j]
  BY <1>1
<1>3. HeadAllowed(edited)
  <2>1. 1 \in 1..Len(rule)
    BY <1>1
  <2>2. edited[1] = IF 1 = i THEN token ELSE rule[1]
    BY <1>2, <2>1
  <2> QED BY <2>2 DEF HeadAllowed
<1>4. \A j \in 1..Len(rule) : TokenSubsumes(edited[j], rule, j)
  <2>1. \A j \in 1..Len(rule) : TokenSubsumes(rule[j], rule, j)
    BY SubsumesSelf DEF Subsumes
  <2> QED BY <1>2, <2>1
<1>5. Subsumes(edited, rule)
  BY <1>2, <1>4 DEF Subsumes
<1> QED BY <1>2, <1>3, <1>5

(* The edited rule is a rule, and it subsumes the one it was made from. *)
LEMMA EditWidens ==
    ASSUME NEW rule \in Rules, HeadAllowed(rule), NEW i \in 1..Len(rule),
           NEW type \in Covering(rule, i)
    PROVE  /\ ApplyType(rule, i, type) \in Seq(Token)
           /\ HeadAllowed(ApplyType(rule, i, type))
           /\ Subsumes(ApplyType(rule, i, type), rule)
<1> DEFINE token == IF rule[i].kind = "comp"
                    THEN [rule[i] EXCEPT !.type = type, !.param = NoParam]
                    ELSE [kind |-> "wild", type |-> type, param |-> NoParam]
           edited == ApplyType(rule, i, type)
<1>1. rule \in Seq(Token) /\ Len(rule) \in Nat /\ Len(rule) > 0 /\ i \in Nat
      /\ rule[i] \in Token
  <2>1. rule \in Seq(Token) /\ Len(rule) > 0
    BY RulesAssumption
  <2> QED BY <2>1
<1>2. edited = [rule EXCEPT ![i] = token]
  BY DEF ApplyType
<1>3. /\ type \in Types \ {LiteralType}
      /\ \A u \in TypesAt(rule, i) \ {LiteralType} : <<u, type>> \in Compatible
      /\ type = AnyType => i # 1
  BY DEF Covering
<1> DEFINE Good(t) == /\ t \in Token /\ TokenSubsumes(t, rule, i)
                      /\ i = 1 => t.kind = "wild" /\ t.type # AnyType
<1>6. ASSUME Good(token)
      PROVE  edited \in Seq(Token) /\ HeadAllowed(edited) /\ Subsumes(edited, rule)
  <2> HIDE DEF edited, token
  <2> QED BY <1>2, <1>6, EditedRule
<1> HIDE DEF edited
<1>4. CASE rule[i].kind = "comp"
  <2>1. rule[i] \in CompoundToken
    BY <1>1, <1>4 DEF Token, LiteralToken, WildcardToken
  <2>2. PICK a, t, p : rule[i] = [kind |-> "comp", affix |-> a, type |-> t, param |-> p]
                       /\ a \in Affixes /\ t \in Types \ {LiteralType}
    BY <2>1 DEF CompoundToken
  <2>3. token = [kind |-> "comp", affix |-> a, type |-> type, param |-> NoParam]
    <3> PICK r : r = rule[i]
      OBVIOUS
    <3>1. token = [r EXCEPT !.type = type, !.param = NoParam]
      BY <1>4
    <3>2. r = [kind |-> "comp", affix |-> a, type |-> t, param |-> p]
      BY <2>2
    <3> PICK s : s = [r EXCEPT !.type = type]
      OBVIOUS
    <3>3. s = [kind |-> "comp", affix |-> a, type |-> type, param |-> p]
      BY <3>2
    <3>4. token = [s EXCEPT !.param = NoParam]
      BY <3>1
    <3> HIDE DEF token
    <3> QED BY <3>3, <3>4
  <2> HIDE DEF token
  <2>4. token \in Token
    BY <1>3, <2>2, <2>3 DEF Token, CompoundToken
  <2>5. TypesAt(rule, i) = {t}
    BY <2>2, <1>4 DEF TypesAt
  <2>6. TokenSubsumes(token, rule, i)
    BY <1>3, <2>2, <2>3, <2>5 DEF TokenSubsumes, ParamSubsumes
  <2>7. i # 1
    BY <1>4 DEF HeadAllowed
  <2> QED BY <1>6, <2>4, <2>6, <2>7 DEF edited
<1>5. CASE rule[i].kind # "comp"
  <2>1. token = [kind |-> "wild", type |-> type, param |-> NoParam]
    BY <1>5
  <2> HIDE DEF token
  <2>2. token \in Token
    BY <1>3, <2>1 DEF Token, WildcardToken
  <2>3. CASE rule[i].kind = "lit"
    <3>1. \A t \in LiteralTypes(rule, i) : WildcardAccepts(token, rule[i].word, t)
      <4>1. token.type = type /\ token.param = NoParam
        BY <2>1
      <4> QED BY <2>3, <4>1, CoveringAccepts
    <3>2. TokenSubsumes(token, rule, i)
      BY <2>1, <2>3, <3>1 DEF TokenSubsumes
    <3>3. i = 1 => token.kind = "wild" /\ token.type # AnyType
      BY <1>3, <2>1
    <3> QED BY <1>6, <2>2, <3>2, <3>3 DEF edited
  <2>4. CASE rule[i].kind = "wild"
    <3>1. TypesAt(rule, i) = {rule[i].type} /\ rule[i].type # LiteralType
      BY <2>4, TokenKinds DEF TypesAt
    <3>2. <<rule[i].type, type>> \in Compatible
      BY <1>3, <3>1
    <3>3. TokenSubsumes(token, rule, i)
      BY <2>1, <2>4, <3>2 DEF TokenSubsumes, ParamSubsumes
    <3>4. i = 1 => token.kind = "wild" /\ token.type # AnyType
      BY <1>3, <2>1
    <3> QED BY <1>6, <2>2, <3>3, <3>4 DEF edited
  <2> QED BY <1>5, <2>3, <2>4, TokenKinds
<1> QED BY <1>4, <1>5

(* What a user may pick, and what else there is. *)
LEMMA VariantsGood ==
    ASSUME NEW rule \in Rules, NEW i \in 1..Len(rule), NEW max \in 1..MaxVariants
    PROVE  /\ Len(TokenVariants(rule, i, max)) <= max
           /\ Offered(rule, i, max) # {} => HeadAllowed(rule)
           /\ HeadAllowed(rule) =>
                 /\ Offered(rule, i, max) \subseteq Covering(rule, i)
                 /\ Len(TokenVariants(rule, i, max)) < max =>
                       Offered(rule, i, max) = Covering(rule, i)
<1> PICK list : list = TokenVariants(rule, i, max)
  OBVIOUS
<1>1. Offered(rule, i, max) = {list[k] : k \in DOMAIN list} \ {LiteralType}
  BY DEF Offered, Range
<1>2. CASE ~HeadAllowed(rule)
  <2>1. list = <<>>
    BY <1>2 DEF TokenVariants
  <2>2. Len(list) = 0 /\ DOMAIN list = {}
    BY <2>1
  <2>3. Len(list) <= max
    BY <2>2
  <2> QED BY <1>1, <1>2, <2>2, <2>3
<1>3. CASE HeadAllowed(rule)
  <2>1. Offers(list, Covering(rule, i), max)
    BY <1>3, VariantsOffer
  <2>2. DOMAIN list = 1..Len(list) /\ Len(list) <= max
    BY <2>1 DEF Offers
  <2>3. Offered(rule, i, max) \subseteq Covering(rule, i)
    BY <1>1, <2>1, <2>2 DEF Offers
  <2>4. LiteralType \notin Covering(rule, i)
    BY DEF Covering
  <2>5. ASSUME Len(list) < max PROVE Covering(rule, i) \subseteq Offered(rule, i, max)
    BY <1>1, <2>1, <2>2, <2>4, <2>5 DEF Offers
  <2> QED BY <1>3, <2>2, <2>3, <2>5
<1> QED BY <1>2, <1>3

(* Whatever type is picked for a token, the edited rule is legal and takes *)
(* all that the rule took; and no type that generalises the token is       *)
(* missing from a list that is not full, for any lattice of types.         *)
THEOREM VariantsRight == PairSpec => []VariantsExact
<1>1. TypeOK => VariantsExact
  <2> SUFFICES ASSUME narrow \in Rules PROVE VariantsWiden /\ VariantsComplete
    BY DEF TypeOK, VariantsExact
  <2>1. VariantsWiden
    <3> SUFFICES ASSUME NEW i \in 1..Len(narrow), NEW max \in 1..MaxVariants
                 PROVE  /\ Len(TokenVariants(narrow, i, max)) <= max
                        /\ \A type \in Offered(narrow, i, max) :
                              LET edited == ApplyType(narrow, i, type) IN
                              /\ HeadAllowed(edited) /\ Subsumes(edited, narrow)
                              /\ \A c \in Commands : Matches(narrow, c) => Matches(edited, c)
      BY DEF VariantsWiden
    <3>1. Len(TokenVariants(narrow, i, max)) <= max
      BY VariantsGood
    <3>2. ASSUME NEW type \in Offered(narrow, i, max)
          PROVE  LET edited == ApplyType(narrow, i, type) IN
                 /\ HeadAllowed(edited) /\ Subsumes(edited, narrow)
                 /\ \A c \in Commands : Matches(narrow, c) => Matches(edited, c)
      <4>1. HeadAllowed(narrow) /\ type \in Covering(narrow, i)
        BY <3>2, VariantsGood
      <4> PICK edited : edited = ApplyType(narrow, i, type)
        OBVIOUS
      <4>2. edited \in Seq(Token) /\ HeadAllowed(edited) /\ Subsumes(edited, narrow)
        BY <4>1, EditWidens
      <4>3. \A c \in Commands : Matches(narrow, c) => Matches(edited, c)
        BY <4>2, SubsumptionSound
      <4> QED BY <4>2, <4>3
    <3> QED BY <3>1, <3>2
  <2>2. VariantsComplete
    <3> SUFFICES ASSUME NEW i \in 1..Len(narrow), NEW max \in 1..MaxVariants,
                        HeadAllowed(narrow), Len(TokenVariants(narrow, i, max)) < max
                 PROVE  Offered(narrow, i, max) = Covering(narrow, i)
      BY Zenon DEF VariantsComplete, Covering, TypesAt
    <3> QED BY VariantsGood
  <2> QED BY <2>1, <2>2
<1> QED BY <1>1, TypeCorrect, PTL
===============================================================================

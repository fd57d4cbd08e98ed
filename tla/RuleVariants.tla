------------------------------ MODULE RuleVariants ------------------------------
(***************************************************************************)
(* Editing one token of a rule: the wildcard types offered for it          *)
(* (st_token_variants_at, shelltype/src/trie_variants.c), from the         *)
(* narrowest that covers it up to "*", and the rule with the chosen type   *)
(* in its place (st_netpattern_apply_type_at_owned).  The rule edited is   *)
(* the narrow one of Subsumption, so that the edit can be compared with it.*)
(***************************************************************************)
EXTENDS Subsumption, FiniteSetsExt, Functions

CONSTANTS
    Join,       \* [Types \X Types -> Types], st_type_join
    MaxVariants \* max_variants: every value up to it is explored

ASSUME VariantsAssumption ==
    /\ Join \in [Types \X Types -> Types] /\ MaxVariants \in Nat \ {0}
    /\ IsFiniteSet(Types)

(* The lattice of normalize.c: LITERAL at the bottom, the join is the least *)
(* upper bound, what generalises a wildcard is a chain, and a classified   *)
(* word satisfies the type it is classified as.                            *)
ASSUME LatticeAssumption ==
    /\ \A t \in Types : <<LiteralType, t>> \in Compatible
    /\ \A a, b, w \in Types :
           <<Join[<<a, b>>], w>> \in Compatible <=>
               <<a, w>> \in Compatible /\ <<b, w>> \in Compatible
    /\ \A t \in Types \ {LiteralType}, a, b \in Types :
           <<t, a>> \in Compatible /\ <<t, b>> \in Compatible =>
               <<a, b>> \in Compatible \/ <<b, a>> \in Compatible
    /\ \A t \in Types : t # LiteralType => t \in Mask[t]

JoinAll(types) == FoldSet(LAMBDA t, joined : Join[<<joined, t>>], LiteralType, types)

(* Faulty variant: an unclassified word is joined like any other. *)
StartTypePlain(rule, i) ==
    IF rule[i].kind = "lit" THEN JoinAll(LiteralTypes(rule, i)) ELSE rule[i].type

(* The narrowest type of the token: its own, or for a literal the join of  *)
(* what it may be classified as.  An unclassified word has none but "*".   *)
StartType(rule, i) ==
    IF rule[i].kind # "lit" THEN rule[i].type
    ELSE LET types == LiteralTypes(rule, i) IN
         IF LiteralType \in types /\ types # {LiteralType} THEN AnyType
         ELSE JoinAll(types)

Concrete == Types \ {LiteralType, AnyType}

Wider(current, seen) ==
    {Join[<<current, t>>] : t \in Types \ (seen \cup {LiteralType})} \ (seen \cup {AnyType})

Narrowest(types) == CHOOSE w \in types : \A v \in types : <<w, v>> \in Compatible

(* The types above the current one, each the narrowest not listed yet, as  *)
(* far as there is room: x is <<current, seen, room>>.                     *)
Widened[x \in Concrete \X (SUBSET Types) \X (0..MaxVariants)] ==
    LET wider == Wider(x[1], x[2])
        next  == Narrowest(wider)
    IN IF wider = {} \/ x[3] = 0 THEN <<>>
       ELSE <<next>> \o Widened[<<next, x[2] \cup {next}, x[3] - 1>>]

(* Faulty variant: "*" is offered for the head of the rule, too. *)
TokenVariantsAny(rule, i, max) ==
    LET start  == StartType(rule, i)
        exact  == IF rule[i].kind = "comp" THEN <<>> ELSE <<LiteralType>>
        listed == IF start = LiteralType \/ Len(exact) = max THEN exact
                  ELSE Append(exact, start)
        wider  == IF start \in {LiteralType, AnyType} THEN <<>>
                  ELSE Widened[<<start, {start}, max - Len(listed)>>]
        any    == IF start # AnyType /\ Len(listed) + Len(wider) < max
                  THEN <<AnyType>> ELSE <<>>
    IN IF HeadAllowed(rule) THEN listed \o wider \o any ELSE <<>>

(* The literal itself, the start type, the wider ones, and "*", which is   *)
(* not legal at the head, as far as the array has room.  Nothing is        *)
(* offered for a rule with an illegal head.                                *)
TokenVariants(rule, i, max) ==
    LET start    == StartType(rule, i)
        allowAny == i # 1
        exact    == IF rule[i].kind = "comp" THEN <<>> ELSE <<LiteralType>>
        listed   == IF \/ start = LiteralType \/ Len(exact) = max
                       \/ start = AnyType /\ ~allowAny
                    THEN exact ELSE Append(exact, start)
        wider    == IF start \in {LiteralType, AnyType} THEN <<>>
                    ELSE Widened[<<start, {start}, max - Len(listed)>>]
        any      == IF allowAny /\ start # AnyType
                       /\ Len(listed) + Len(wider) < max
                    THEN <<AnyType>> ELSE <<>>
    IN IF HeadAllowed(rule) THEN listed \o wider \o any ELSE <<>>

(* The token keeps its affixes and loses its parameter. *)
ApplyType(rule, i, type) ==
    [rule EXCEPT ![i] =
        IF @.kind = "comp" THEN [@ EXCEPT !.type = type, !.param = NoParam]
        ELSE [kind |-> "wild", type |-> type, param |-> NoParam]]

Offered(rule, i, max) == Range(TokenVariants(rule, i, max)) \ {LiteralType}

(* Whatever type a user picks, the edited rule is one a policy takes, and   *)
(* it covers the rule it was made from: no command that was allowed is     *)
(* lost.                                                                   *)
VariantsWiden ==
    \A i \in 1..Len(narrow), max \in 1..MaxVariants :
        /\ Len(TokenVariants(narrow, i, max)) <= max
        /\ \A type \in Offered(narrow, i, max) :
               LET edited == ApplyType(narrow, i, type) IN
               /\ HeadAllowed(edited) /\ Subsumes(edited, narrow)
               /\ \A c \in Commands : Matches(narrow, c) => Matches(edited, c)

(* With room for them, no type that generalises the token is missing: a    *)
(* list that is not full has exactly the types above every classification  *)
(* the token may have.                                                     *)
VariantsComplete ==
    \A i \in 1..Len(narrow), max \in 1..MaxVariants :
        LET types == IF narrow[i].kind = "lit" THEN LiteralTypes(narrow, i)
                     ELSE {narrow[i].type}
        IN HeadAllowed(narrow) /\ Len(TokenVariants(narrow, i, max)) < max =>
              Offered(narrow, i, max) =
                  {w \in Types \ {LiteralType} :
                      /\ \A t \in types \ {LiteralType} : <<t, w>> \in Compatible
                      /\ LiteralType \in types => w = AnyType
                      /\ w = AnyType => i # 1}

(* The types offered for a token (st_token_variants_at): safe to pick at   *)
(* any capacity, and with room for them all that there are.  (A rule is    *)
(* edited on its own, so one state of each is enough.)                     *)
VariantsExact == wide = narrow => VariantsWiden /\ VariantsComplete
===============================================================================

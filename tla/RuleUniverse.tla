------------------------------ MODULE RuleUniverse ------------------------------
(* The rules clients may give a policy, and the commands it may be asked   *)
(* about: canonical netpatterns and argv vectors of any length.            *)
EXTENDS TokenMatch

CONSTANTS
    Rules,      \* the netpatterns clients may use
    Commands    \* the commands that are evaluated

(* The decoder refuses a rule without tokens. *)
ASSUME RulesAssumption ==
    /\ Rules \subseteq Seq(Token)
    /\ \A rule \in Rules : Len(rule) > 0
    /\ Commands \subseteq Seq(Words)
===============================================================================

------------------------------- MODULE RuleSet -------------------------------
(***************************************************************************)
(* What a policy promises its callers (shelltype.h, policy API): a set of  *)
(* rules none of which subsumes another.  Adding rules keeps the maximal   *)
(* rules of the union, a replacing load keeps those of the file, a removal *)
(* takes out one exact rule, and compaction, evaluation and every failing  *)
(* operation change nothing.                                               *)
(***************************************************************************)
CONSTANTS Rules, Batches, Subsumes(_, _), Members(_)

VARIABLE rules

MaximalOf(set) == {a \in set : \A b \in set : b # a => ~Subsumes(b, a)}

Init == rules = {}

AddAll(batch)  == rules' = MaximalOf(rules \cup Members(batch))
AddOne(rule)   == rules' = MaximalOf(rules \cup {rule})
Replace(batch) == rules' = MaximalOf(Members(batch))
Remove(rule)   == rule \in rules /\ rules' = rules \ {rule}
Clear          == rules' = {}

Next ==
    \/ \E rule \in Rules : AddOne(rule) \/ Remove(rule)
    \/ \E batch \in Batches : AddAll(batch) \/ Replace(batch)
    \/ Clear

Spec == Init /\ [][Next]_rules
===============================================================================

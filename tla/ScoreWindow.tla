------------------------------ MODULE ScoreWindow ------------------------------
(***************************************************************************)
(* What the adaptive threshold of a gate is computed from (ANOMALY.md,     *)
(* adaptive threshold): the latest scores, at most size of them, all       *)
(* measured under one regime, that is by one pair of models and one way    *)
(* of combining their scores.  A new regime or size starts over.           *)
(***************************************************************************)
EXTENDS Naturals, Sequences

CONSTANTS Scores

VARIABLES window, size, regime

vars == <<window, size, regime>>

Init == window = <<>>

Observe(score) ==
    /\ size > 0
    /\ window' = Append(IF Len(window) < size THEN window ELSE Tail(window),
                        score)
    /\ UNCHANGED <<size, regime>>

Restart == window' = <<>>

Next == (\E score \in Scores : Observe(score)) \/ Restart

Spec == Init /\ [][Next]_vars
===============================================================================

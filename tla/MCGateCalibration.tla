--------------------------- MODULE MCGateCalibration ---------------------------
(* Weights that use both components or only one of them; two windows, one  *)
(* shorter and one longer than the histogram minimum.                      *)
EXTENDS GateCalibration

MCWeighed == [w \in Weightings |-> IF w = "both" THEN Components ELSE {"raw"}]
===============================================================================

------------------------------ MODULE ReplacedFile ------------------------------
(***************************************************************************)
(* What a save promises about its path (st_policy_save in shelltype.h,     *)
(* sg_anomaly_model_save in sg_anomaly.h).  The path always shows a        *)
(* complete version; a crash leaves the last settled one or one installed  *)
(* since; a save that returned success is settled.                         *)
(***************************************************************************)
EXTENDS Integers

CONSTANTS Versions  \* numbered as saved; 0 and below: what is no regular file

VARIABLES shown,    \* the version at the path
          stable,   \* the versions a crash may leave there
          acked     \* the last version reported as saved, or 0

Init == shown \in Versions /\ stable = {shown} /\ acked = 0

Install(v) ==
    /\ v > shown /\ v > acked
    /\ shown' = v /\ stable' = stable \cup {v}
    /\ UNCHANGED acked

Settle == stable' = {shown} /\ UNCHANGED <<shown, acked>>

Acknowledge ==
    /\ stable = {shown} /\ acked' = shown
    /\ UNCHANGED <<shown, stable>>

Crash ==
    /\ shown' \in stable /\ stable' = {shown'}
    /\ UNCHANGED acked

Next == (\E v \in Versions : Install(v)) \/ Settle \/ Acknowledge \/ Crash

Spec == Init /\ [][Next]_<<shown, stable, acked>>
===============================================================================

----------------------------- MODULE MCFlinkJob -----------------------------
(* Instances of FlinkJob for TLC. *)
EXTENDS FlinkJob

MCEventTime == {2, 7}
MCNoWatermark == -100
=============================================================================

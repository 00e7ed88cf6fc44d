-------------------------- MODULE MCLiteProcessor --------------------------
(* Instances of LiteProcessor for TLC.  Articles mention no ticker here: which *)
(* offsets are committed does not depend on event time.                        *)
EXTENDS LiteProcessor

MCEventTime == {0}
MCNoWatermark == -100
=============================================================================

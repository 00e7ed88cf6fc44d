---------------------------- MODULE MCStandalone ----------------------------
(* Instance of Standalone for TLC. *)
EXTENDS Standalone

MCEventTime == -8..12
MCFeedDate == {-3, 1}
MCNoWatermark == -100
=============================================================================

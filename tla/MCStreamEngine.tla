--------------------------- MODULE MCStreamEngine ---------------------------
(***************************************************************************)
(* Instances of StreamEngine for TLC, and the refinement mapping to the    *)
(* abstract window operator.                                               *)
(***************************************************************************)
EXTENDS StreamEngine

\* Size 4 and slide 2 with these timestamps: an element on a window boundary, two
\* that share a window with it, and one that closes them.
MCEventTime == {0, 2, 5, 7}
MCFewTimes  == {0, 2, 7}
MCNoWatermark == -100
=============================================================================

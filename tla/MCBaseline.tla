----------------------------- MODULE MCBaseline -----------------------------
(***************************************************************************)
(* One ticker, two scores and a trailing window of two ticks, so that      *)
(* observations age out while seedings and writes are still under way.     *)
(***************************************************************************)
EXTENDS Baseline
=============================================================================

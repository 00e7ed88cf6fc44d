----------------------------- MODULE MCAlerting -----------------------------
(***************************************************************************)
(* TLC instances of Alerting.                                              *)
(***************************************************************************)
EXTENDS Alerting, TLC

\* Accounts and hooks are interchangeable; guests only among themselves.
Symmetry == Permutations(User \ Guest) \cup Permutations(Guest) \cup Permutations(Hook)
=============================================================================

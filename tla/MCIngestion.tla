---------------------------- MODULE MCIngestion ----------------------------
(* Instances of Ingestion for TLC. *)
EXTENDS Ingestion, TLC

MCEventTime == {-5, -2, 0, 1, 3, 8}
IdSymmetry == Permutations(Id)
=============================================================================

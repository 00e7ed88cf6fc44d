--------------------------- MODULE MCRequestGuard ---------------------------
(* Instance of RequestGuard for TLC. *)
EXTENDS RequestGuard

MCChunkSize == {1, 2}
=============================================================================

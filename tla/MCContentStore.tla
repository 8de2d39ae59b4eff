--------------------------- MODULE MCContentStore ---------------------------
(* ContentStore for TLC. *)
EXTENDS ContentStore, TLC
=============================================================================

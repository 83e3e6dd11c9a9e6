--------------------------- MODULE MCWriteBehind ----------------------------
(* A small instance of WriteBehind for TLC. *)
EXTENDS WriteBehind
=============================================================================

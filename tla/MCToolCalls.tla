---------------------------- MODULE MCToolCalls -----------------------------
(* A small instance of ToolCalls for TLC. *)
EXTENDS ToolCalls
=============================================================================

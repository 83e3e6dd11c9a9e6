---------------------------- MODULE MCAgentLoop -----------------------------
(* A small instance of AgentLoop for TLC. *)
EXTENDS AgentLoop
=============================================================================

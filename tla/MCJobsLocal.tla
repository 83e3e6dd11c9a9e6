---------------------------- MODULE MCJobsLocal -----------------------------
(* A small instance of JobsLocal for TLC. *)
EXTENDS JobsLocal
=============================================================================

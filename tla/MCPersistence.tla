--------------------------- MODULE MCPersistence ----------------------------
(* Small instances of Persistence for TLC.  Calls of prepare are           *)
(* interchangeable; the symmetry serves the safety run only.               *)
EXTENDS Persistence

AnyCall == Permutations(Consumers)
=============================================================================

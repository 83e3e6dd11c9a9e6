----------------------------- MODULE MCSchedule -----------------------------
\* Schedule, with interchangeable tool calls in the safety run.
EXTENDS Schedule, TLC

AnyCall == Permutations(Calls)
=============================================================================

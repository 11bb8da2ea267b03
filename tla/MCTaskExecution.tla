--------------------------- MODULE MCTaskExecution ---------------------------
(***************************************************************************)
(* TaskExecution for TLC.  Processes and issues are interchangeable, which *)
(* the run that checks no liveness makes use of.                           *)
(***************************************************************************)
EXTENDS TaskExecution, TLC

Symmetry == Permutations(Process) \cup Permutations(Issue)
=============================================================================

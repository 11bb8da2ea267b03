------------------------- MODULE NightlyWorkerClaims -------------------------
(***************************************************************************)
(* What the repository says of the nightly worker and the code does not do.*)
(***************************************************************************)
EXTENDS MCNightlyWorker

\* ADR 0002: when agy refuses its service (AGY_AUTH, AGY_QUOTA) twice in a row
\* within a batch, no further task is started.  In the code such an execution
\* exits with 0, and the category is looked for in files nothing writes.
AgyRefusalsStopBatch == pc = "running" => refused < MaxFailures

\* ADR 0001, DD-004: when a time is up the whole process tree is ended.  On POSIX
\* agy has a session of its own, which killpg of the worker does not reach; on
\* Windows the worker only logs that taskkill has failed.
KillsTakeTheTree == \A p \in Project, s \in Survivor : left[p][s] = 0
=============================================================================

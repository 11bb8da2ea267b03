------------------------- MODULE TaskExecutionClaims -------------------------
(***************************************************************************)
(* What documents and comments of the repository say of executions and     *)
(* what the code does not do.  Each is violated by a run of its own.       *)
(***************************************************************************)
EXTENDS TaskExecution

\* p takes the step.
Moves(p) == pc'[p] # pc[p] \/ job'[p] # job[p]

\* "update_task_state() updates the entry of the given issue only, atomically":
\* an entry changes only when a process writes that issue
\* (docs/design/SBOS-DD-007, 3.1; update_task_state, reset_task_state).
OnlyOwnEntryWritten ==
  [][\A i \in Issue : store'[i] # store[i] =>
       \E p \in Process : Moves(p) /\ job[p].req.issue = i]_vars

\* "An issue whose consecutive FAILED_B7 reached this number is handed back to a
\* human": no automatic run of it starts (comment of MAX_CONSECUTIVE_B7,
\* tools/metadata_store.py).
HandedBackToHuman ==
  [][\A p \in Process :
       pc[p] = "decide" /\ pc'[p] = "prepare" /\ Automatic(job[p].req)
       => LET i == job[p].req.issue
          IN  ~(last[i] = "FAILED_B7" /\ streak[i] >= MaxConsecutiveB7)]_vars

\* "run_task.py discards changes after it has taken the lock": while a process
\* holds the lock, nobody else changes the repository (docs/design/SBOS-DD-003,
\* 9.1 and 10.2; clean_satellite_repository, reset_task_environment).
RepositoryIsExclusive ==
  [][\A p \in Process :
       Lock!Holds(p) /\ repo' # repo => Moves(p) \/ made' # made]_vars

\* "Uncommitted changes become a WIP commit" when an issue is resumed: a resumed
\* run starts with the edits its last FAILED_B7 run left (docs/design/SBOS-DD-003,
\* 5.2; execute_issue's resume mode).
ResumedRunHasItsEdits ==
  [][\A p \in Process :
       pc[p] = "prepare" /\ pc'[p] = "run" /\ job[p].resuming
       => unsaved[job[p].req.issue] \subseteq repo'.commits[job[p].req.issue]]_vars

\* "Switch to the existing work branch and rebase it; stop if that fails": a
\* resumed run works on the issue's branch (docs/design/SBOS-DD-003, 5.2;
\* execute_issue's resume mode).
ResumesOnWorkBranch ==
  [][\A p \in Process :
       pc[p] = "prepare" /\ pc'[p] = "run" /\ job[p].resuming
       => repo'.head = job[p].req.issue]_vars
=============================================================================

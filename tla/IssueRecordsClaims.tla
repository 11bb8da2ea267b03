-------------------------- MODULE IssueRecordsClaims --------------------------
(***************************************************************************)
(* What docs and comments promise of the issue records and the programs do *)
(* not keep.                                                               *)
(***************************************************************************)
EXTENDS IssueRecords

\* stage:ready is the label of an issue whose specification is settled and that
\* may be implemented (SBOS-DD-007 section 2): a line reaches it through the
\* promotion of its own issue.
OnlyApprovedIsReady == \A n \in Candidates : tasks[n].issue \in approved

\* The synchronisation sets the stage of an open issue labelled stage:ready
\* (docstring of sync_issue_statuses_to_tasks_md).
SyncRaises ==
  [][SyncHeal /\ Undisturbed =>
       \A i \in DOMAIN Fetched : Ready(i) => tasks[IdOf(tasks, i)].stage = "ready"]_vars

\* The specification is kept in the work tree, so a nightly run never has to
\* guess what to do (SBOS-DD-007 section 3.10), not even when no other program
\* is at work.
RunHasItsSpec ==
  run.pc = "running" /\ run.by = "nightly" /\ (\A t \in Tool : At(t, "idle"))
    => run.spec # NoSpec

\* A nightly run is given the settled specification, with the chosen approach
\* (SBOS-DD-007 section 3.10, item 2).
RunHasSettledSpec ==
  run.pc = "running" /\ run.by = "nightly" => run.spec = NoSpec \/ run.spec.final

\* tasks.md, specification and issue correspond one to one (SBOS-DD-007
\* section 3.10), so an id never comes to stand for another issue.
IdNamesOneIssue == \A n \in Id : Cardinality(named[n]) <= 1

\* A promoted issue is one the nightly worker can take up (promote_issue.py
\* logs it as raised to stage:ready).
PromotedIsSelectable == \A n \in DOMAIN tasks : tasks[n].stage # "garbled"

\* The task looked up for an issue number is that issue's
\* (resolve_task_id_for_issue).
NumberFindsItsTask ==
  run.pc = "running" /\ run.by = "human" /\ run.spec # NoSpec => run.spec.issue = run.issue

\* A task that was found to be done already is marked as completed and is not
\* taken up again (done_node, mark_task_completed_in_tasks_md).
CompletedStaysCompleted ==
  [][\A n \in DOMAIN tasks \cap DOMAIN tasks' :
       tasks[n].box = "x" /\ tasks[n].issue = tasks'[n].issue => tasks'[n].box = "x"]_vars

\* Only issues that are still ideas are closed for their age
\* (close_stale_issues.py).
ApprovedIsNotStale == [][\A i \in Issue : Ready(i) /\ StaleClose => gh'[i].state = "open"]_vars
=============================================================================

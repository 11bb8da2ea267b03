----------------------------- MODULE IssueRecords -----------------------------
(***************************************************************************)
(* The three records of one satellite's issues and the programs that keep  *)
(* them in step: the issues on GitHub, the lines of docs/tasks.md, and the *)
(* specifications docs/issues/<TASK_ID>.md.                                *)
(*                                                                         *)
(* promote_issue.py, periodic_review_runner.py (with the run_review.py it  *)
(* starts) and close_stale_issues.py each read GitHub or tasks.md, work on *)
(* what they read and write the whole file back; no lock orders them.      *)
(* run_task.py and the graph take the same files away when they clean the  *)
(* satellite, since nothing but a human commits them.                      *)
(*                                                                         *)
(* Task ids are KEY-%04d with the highest number plus one and no program   *)
(* deletes a line, so a line's id is its position.                         *)
(***************************************************************************)
EXTENDS Naturals, Sequences, FiniteSets

CONSTANTS
  Issue,       \* the issue numbers that may come to exist
  Initial,     \* those that are open already
  FetchLimit,  \* how many of these issues gh issue list --limit may reach, among all others
  Human,       \* what humans do besides closing issues
  MaxStarts    \* starts and crashes of programs and acts of humans, synchronisation and commits excepted

ASSUME RecordsAssumption ==
  /\ Issue \subseteq 1 .. 99 /\ Initial \subseteq Issue
  /\ FetchLimit \subseteq Nat \ {0} /\ MaxStarts \in Nat
  /\ Human \subseteq {"label", "line", "commit"}

Tool == {"promote", "periodic", "stale"}
Id == 1 .. Cardinality(Issue)

VARIABLES
  gh,        \* the issues on GitHub
  tasks,     \* the lines of docs/tasks.md in the work tree
  specs,     \* docs/issues/<id>.md: the issue it describes, and whether an approach was chosen
  saved,     \* both as the base branch has them
  tool,      \* the programs: step, issue, and what they have read
  run,       \* the run of a task
  approved,  \* history: issues a human has approved
  named,     \* history: the issues each id has stood for in tasks.md
  lost,      \* history: uncommitted records were taken away, or a stale copy was written
  starts

records == <<tasks, specs>>
history == <<approved, lost>>
vars == <<gh, tasks, specs, saved, tool, run, approved, named, lost, starts>>

Label == {"ideation", "ready"}

\* Faulty variant: box and stage are swapped.
LineSwapped(i, box, stage) == [issue |-> i, box |-> stage, stage |-> box]

LineOf(i, box, stage) == [issue |-> i, box |-> box, stage |-> stage]
SpecOf(i, final) == [issue |-> i, final |-> final]
NoSpec == SpecOf(0, FALSE)
Opened == [state |-> "open", labels |-> {"ideation"}, final |-> FALSE]
NoIssue == [state |-> "none", labels |-> {}, final |-> FALSE]
Rest == [pc |-> "idle", issue |-> 0, text |-> <<>>, known |-> <<>>]
NoRun == [pc |-> "idle", by |-> "none", id |-> 0, issue |-> 0, guessed |-> FALSE,
          spec |-> NoSpec]

At(t, step) == tool[t].pc = step
Go(t, step) == tool' = [tool EXCEPT ![t].pc = step]
End(t) == tool' = [tool EXCEPT ![t] = Rest]
Ready(i) == gh[i].state = "open" /\ "ready" \in gh[i].labels

\* The text "issue:#1" is found in a line with issue:#1 and in one with issue:#12.
TagIn(i, n) == n = i \/ n \div 10 = i

\* Faulty variant: finished lines are passed over.
RegisteredOpen(text, i) == \E n \in DOMAIN text : text[n].issue = i /\ text[n].box = " "

Registered(text, i) == \E n \in DOMAIN text : text[n].issue = i
IdOf(text, i) == CHOOSE n \in DOMAIN text : text[n].issue = i /\ \A k \in 1 .. n - 1 : text[k].issue # i

Init ==
  /\ gh = [i \in Issue |-> IF i \in Initial THEN Opened ELSE NoIssue]
  /\ tasks = <<>> /\ specs = [n \in Id |-> NoSpec]
  /\ saved = [tasks |-> <<>>, specs |-> specs]
  /\ tool = [t \in Tool |-> Rest] /\ run = NoRun
  /\ approved = {} /\ lost = FALSE /\ starts = 0
  /\ named = [n \in Id |-> {}]

Start == starts < MaxStarts /\ starts' = starts + 1

\* The program writes what it made of the copy it had read.
WriteTasks(t, text) ==
  /\ tasks' = text
  /\ lost' = (lost \/ (text # tasks /\ tool[t].text # tasks))

ReadTasks(t, step) ==
  /\ tool' = [tool EXCEPT ![t].pc = step, ![t].text = tasks]
  /\ UNCHANGED <<gh, records, saved, run, history, starts>>

WriteSpec(n, spec) == specs' = [specs EXCEPT ![n] = spec]

----------------------------------------------------------------------------
(***************************************************************************)
(* promote_issue: fetch the issue, edit body and labels on GitHub, raise   *)
(* or append the line, write the specification over what is there.         *)
(***************************************************************************)
PromoteStart(i) ==
  /\ At("promote", "idle") /\ gh[i].state # "none" /\ Start
  /\ tool' = [tool EXCEPT !["promote"] =
                [Rest EXCEPT !.pc = "edit", !.issue = i, !.known = [j \in {i} |-> gh[j]]]]
  /\ approved' = approved \cup {i}
  /\ UNCHANGED <<gh, records, saved, run, lost>>

\* The body with the chosen approach ticked and the other one moved to the
\* non-goals.
Settled(issue) == [issue EXCEPT !.final = TRUE]

PromoteEdit ==
  LET i == tool["promote"].issue
  IN /\ At("promote", "edit")
     /\ gh' = [gh EXCEPT ![i] = [Settled(gh[i]) EXCEPT !.labels = (@ \ {"ideation"}) \cup {"ready"}]]
     /\ Go("promote", "read")
     /\ UNCHANGED <<records, saved, run, history, starts>>

\* Faulty variant: every line of the file is raised.
RaisedAll(text, i) == [n \in DOMAIN text |-> [text[n] EXCEPT !.stage = "ready"]]

\* Faulty variant: a promoted line is written anew, unticked.
RaisedAnew(text, i) ==
  [n \in DOMAIN text |-> IF text[n].issue = i THEN LineOf(i, " ", "ready") ELSE text[n]]

\* A line without a stage gets one inside and another behind its comment, and
\* is then no line the nightly worker can parse.
Raised(text, i) ==
  [n \in DOMAIN text |->
     IF ~TagIn(i, text[n].issue) THEN text[n]
     ELSE [text[n] EXCEPT !.stage = CASE @ = "ideation" -> "ready"
                                      [] @ = "none" -> "garbled"
                                      [] OTHER -> @]]

PromoteRead == At("promote", "read") /\ ReadTasks("promote", "write")

PromoteWrite ==
  LET text == tool["promote"].text
      i == tool["promote"].issue
      there == \E n \in DOMAIN text : TagIn(i, text[n].issue)
      new == IF there THEN Raised(text, i) ELSE Append(text, LineOf(i, " ", "ready"))
  IN /\ At("promote", "write")
     /\ IF new = text THEN UNCHANGED <<tasks, lost>> ELSE WriteTasks("promote", new)
     /\ Go("promote", "spec")
     /\ UNCHANGED <<gh, specs, saved, run, approved, starts>>

\* The id is looked up again, by the exact number this time.
PromoteSpec ==
  LET i == tool["promote"].issue
  IN /\ At("promote", "spec")
     /\ IF Registered(tasks, i) THEN WriteSpec(IdOf(tasks, i), SpecOf(i, TRUE)) ELSE UNCHANGED specs
     /\ End("promote")
     /\ UNCHANGED <<gh, tasks, saved, run, history, starts>>

----------------------------------------------------------------------------
(***************************************************************************)
(* sync_issue_statuses_to_tasks_md: mirror what was fetched into the       *)
(* lines, append unknown issues in ascending order, then                   *)
(* self_heal_missing_specs.  A failed fetch changes nothing.               *)
(***************************************************************************)
Newest(limit) ==
  {i \in Issue : gh[i].state # "none"
                   /\ Cardinality({j \in Issue : j > i /\ gh[j].state # "none"}) < limit}

SyncFetch ==
  /\ At("periodic", "idle")
  /\ \E limit \in FetchLimit :
       /\ Newest(limit) # {}
       /\ tool' = [tool EXCEPT !["periodic"] =
                     [Rest EXCEPT !.pc = "read", !.known = [i \in Newest(limit) |-> gh[i]]]]
  /\ UNCHANGED <<gh, records, saved, run, history, starts>>

\* Faulty variant: the labels are looked at before the state.
MirroredByLabel(line, issue) ==
  IF line.stage = "ideation" /\ "ready" \in issue.labels THEN [line EXCEPT !.stage = "ready"]
  ELSE IF issue.state = "closed" THEN [line EXCEPT !.box = "x"]
  ELSE line

\* Faulty variant: only the state is mirrored.
MirroredState(line, issue) ==
  IF issue.state = "closed" THEN [line EXCEPT !.box = "x"] ELSE line

\* The mark for work in progress hangs on a label stage:in_progress that no
\* program creates (theirs is stage:in-progress), so it is left out.
Mirrored(line, issue) ==
  IF issue.state = "closed" THEN [line EXCEPT !.box = "x"]
  ELSE IF line.stage = "ideation" /\ "ready" \in issue.labels THEN [line EXCEPT !.stage = "ready"]
  ELSE line

NewLine(i, issue) ==
  LineOf(i, IF issue.state = "closed" THEN "x" ELSE " ",
         IF "ready" \in issue.labels THEN "ready" ELSE "ideation")

\* Faulty variant: new issues are put before the known ones.
PrependNew(lines, new) == new \o lines

AppendNew(lines, new) == lines \o new

\* The lines as of one fetch.
Synced(text, known) ==
  LET unseen == {i \in DOMAIN known : ~Registered(text, i)}
      nth(n) == CHOOSE i \in unseen : Cardinality({j \in unseen : j < i}) = n - 1
      mirrored == [n \in DOMAIN text |->
                     IF text[n].issue \in DOMAIN known THEN Mirrored(text[n], known[text[n].issue])
                     ELSE text[n]]
  IN AppendNew(mirrored,
       [n \in 1 .. Cardinality(unseen) |-> NewLine(nth(n), known[nth(n)])])

SyncRead == At("periodic", "read") /\ ReadTasks("periodic", "write")

SyncWrite ==
  LET text == tool["periodic"].text
      new == Synced(text, tool["periodic"].known)
  IN /\ At("periodic", "write")
     /\ IF new = text THEN UNCHANGED <<tasks, lost>> ELSE WriteTasks("periodic", new)
     /\ Go("periodic", "heal")
     /\ UNCHANGED <<gh, specs, saved, run, approved, starts>>

\* Faulty variant: a line's specification is looked for by the issue's place among the fetched ones.
HealedInOrder(n, known, reachable) ==
  IF specs[n] # NoSpec THEN specs[n]
  ELSE LET i == CHOOSE j \in DOMAIN known : \A k \in DOMAIN known : j <= k
       IN SpecOf(i, known[i].final)

\* The body is the fetched one; an issue that was not fetched is fetched now, if
\* GitHub answers.
Healed(n, known, reachable) ==
  LET i == tasks[n].issue
      issue == IF i \in DOMAIN known THEN known[i] ELSE IF reachable THEN gh[i] ELSE NoIssue
  IN IF specs[n] = NoSpec /\ issue.state # "none" THEN SpecOf(i, issue.final) ELSE specs[n]

SyncHeal ==
  /\ At("periodic", "heal")
  /\ \E reachable \in BOOLEAN :
       specs' = [n \in Id |-> IF n \in DOMAIN tasks THEN Healed(n, tool["periodic"].known, reachable)
                              ELSE specs[n]]
  /\ End("periodic")
  /\ UNCHANGED <<gh, tasks, saved, run, history, starts>>

----------------------------------------------------------------------------
(***************************************************************************)
(* create_github_issue and sync_review_to_tasks_md of run_review.py.       *)
(***************************************************************************)
NextNumber(i) == \A j \in Issue : j >= i => gh[j].state = "none"

ReviewCreate(i) ==
  /\ At("periodic", "idle") /\ NextNumber(i) /\ Start
  /\ gh' = [gh EXCEPT ![i] = Opened]
  /\ tool' = [tool EXCEPT !["periodic"] = [Rest EXCEPT !.pc = "register", !.issue = i]]
  /\ UNCHANGED <<records, saved, run, history>>

ReviewRead == At("periodic", "register") /\ ReadTasks("periodic", "append")

ReviewWrite ==
  LET text == tool["periodic"].text
      i == tool["periodic"].issue
  IN /\ At("periodic", "append")
     /\ IF \E n \in DOMAIN text : TagIn(i, text[n].issue)
          THEN End("periodic") /\ UNCHANGED <<tasks, lost>>
          ELSE /\ WriteTasks("periodic", Append(text, LineOf(i, " ", "ideation")))
               /\ Go("periodic", "place")
     /\ UNCHANGED <<gh, specs, saved, run, approved, starts>>

\* The id is the one the line was written with; a file of that name stays.
ReviewPlace ==
  LET n == Len(tool["periodic"].text) + 1
  IN /\ At("periodic", "place")
     /\ IF specs[n] = NoSpec THEN WriteSpec(n, SpecOf(tool["periodic"].issue, FALSE))
        ELSE UNCHANGED specs
     /\ End("periodic")
     /\ UNCHANGED <<gh, tasks, saved, run, history, starts>>

(***************************************************************************)
(* process_stale_issues: list the open issues labelled ideation, then      *)
(* close those that were old.                                              *)
(***************************************************************************)
StaleList ==
  /\ At("stale", "idle") /\ Start
  /\ \E old \in SUBSET {i \in Issue : gh[i].state = "open" /\ "ideation" \in gh[i].labels} :
       /\ old # {}
       /\ tool' = [tool EXCEPT !["stale"] =
                     [Rest EXCEPT !.pc = "close", !.known = [i \in old |-> gh[i]]]]
  /\ UNCHANGED <<gh, records, saved, run, history>>

\* One after the other; one that cannot be closed is passed over.
StaleClose ==
  /\ At("stale", "close")
  /\ \E i \in DOMAIN tool["stale"].known :
       LET left == [j \in DOMAIN tool["stale"].known \ {i} |-> tool["stale"].known[j]]
       IN /\ gh' \in {gh, [gh EXCEPT ![i].state = "closed"]}
          /\ IF left = << >> THEN End("stale") ELSE tool' = [tool EXCEPT !["stale"].known = left]
  /\ UNCHANGED <<records, saved, run, history, starts>>

\* A program fails or is killed between two of its steps.
Crash(t) ==
  /\ ~At(t, "idle") /\ Start /\ End(t)
  /\ UNCHANGED <<gh, records, saved, run, history>>

----------------------------------------------------------------------------
(***************************************************************************)
(* Runs.  The nightly worker takes a line that parses, is open and ready   *)
(* (parse_tasks_md_candidates); a human may name an issue by its number    *)
(* (resolve_task_id_for_issue), which falls back to KEY-<number>.          *)
(***************************************************************************)
\* Faulty variant: the stage is not looked at.
CandidatesOfAnyStage == {n \in DOMAIN tasks : tasks[n].box = " "}

Candidates == {n \in DOMAIN tasks : tasks[n].box = " " /\ tasks[n].stage = "ready"}

Nightly ==
  /\ run.pc = "idle" /\ Start
  /\ \E n \in Candidates :
       run' = [NoRun EXCEPT !.pc = "clean", !.by = "nightly", !.id = n, !.issue = tasks[n].issue]
  /\ UNCHANGED <<gh, records, saved, tool, history>>

\* The line of that number, or else the id that has the number itself.
TaskIdOf(i) == IF Registered(tasks, i) THEN IdOf(tasks, i) ELSE i

RunByNumber(i) ==
  /\ run.pc = "idle" /\ gh[i].state # "none" /\ Start
  /\ run' = [NoRun EXCEPT !.pc = "clean", !.by = "human", !.issue = i, !.id = TaskIdOf(i),
                          !.guessed = ~Registered(tasks, i)]
  /\ UNCHANGED <<gh, records, saved, tool, history>>

Dirty == tasks # saved.tasks \/ specs # saved.specs
Restore(kept) ==
  /\ tasks' = saved.tasks
  /\ specs' = [n \in Id |-> IF saved.specs[n] = NoSpec /\ kept THEN specs[n] ELSE saved.specs[n]]
  /\ lost' = (lost \/ records' # records)

\* clean_satellite_repository: the nightly worker has the changes stashed, and
\* nothing ever takes them out again; without --auto-stash the run is refused.
Clean ==
  /\ run.pc = "clean" /\ (Dirty => run.by = "nightly")
  /\ Restore(FALSE)
  /\ run' = [run EXCEPT !.pc = "load"]
  /\ UNCHANGED <<gh, saved, tool, approved, starts>>

RefuseDirty ==
  /\ run.pc = "clean" /\ Dirty /\ run.by = "human"
  /\ run' = NoRun
  /\ UNCHANGED <<gh, records, saved, tool, history, starts>>

\* execute_issue: without the file the instruction is "Implement issue <id>".
Load ==
  /\ run.pc = "load"
  /\ run' = [run EXCEPT !.pc = "running",
                        !.spec = IF run.id \in Id THEN specs[run.id] ELSE NoSpec]
  /\ UNCHANGED <<gh, records, saved, tool, history, starts>>

\* The clean-up after a coder call takes the other programs' changes for the
\* agent's and undoes them.
Rollback ==
  /\ run.pc = "running" /\ Dirty /\ Restore(FALSE)
  /\ UNCHANGED <<gh, saved, tool, run, approved, starts>>

Deliver ==
  /\ run.pc = "running" /\ run' = NoRun
  /\ UNCHANGED <<gh, records, saved, tool, history, starts>>

\* Nothing was left to do: the base branch is checked out by force and the line
\* is marked in the work tree, uncommitted (mark_task_completed_in_tasks_md).
AlreadySatisfied ==
  LET done == [n \in DOMAIN saved.tasks |->
                 IF n = run.id THEN [saved.tasks[n] EXCEPT !.box = "x"] ELSE saved.tasks[n]]
  IN /\ run.pc = "running"
     /\ tasks' = done
     /\ specs' = [n \in Id |-> IF saved.specs[n] = NoSpec THEN specs[n] ELSE saved.specs[n]]
     /\ lost' = (lost \/ tasks # saved.tasks \/ specs' # specs)
     /\ run' = NoRun
     /\ UNCHANGED <<gh, saved, tool, approved, starts>>

----------------------------------------------------------------------------
(***************************************************************************)
(* Humans: an issue is opened or closed (a merged pull request), approved  *)
(* or marked by its label, a line is written by hand, the records are      *)
(* committed and pushed.                                                   *)
(***************************************************************************)
Open(i) == NextNumber(i) /\ gh' = [gh EXCEPT ![i] = Opened] /\ UNCHANGED approved
Close(i) == gh[i].state = "open" /\ gh' = [gh EXCEPT ![i].state = "closed"] /\ UNCHANGED approved
Approve(i) ==
  /\ "label" \in Human /\ gh[i].state = "open"
  /\ gh' = [gh EXCEPT ![i].labels = @ \cup {"ready"}]
  /\ approved' = approved \cup {i}

OnGitHub ==
  /\ Start
  /\ \E i \in Issue : Open(i) \/ Close(i) \/ Approve(i)
  /\ UNCHANGED <<records, saved, tool, run, lost>>

WriteLine(i) ==
  /\ "line" \in Human /\ Start
  /\ gh[i].state = "open" /\ ~Registered(tasks, i)
  /\ tasks' = Append(tasks, LineOf(i, " ", "none"))
  /\ UNCHANGED <<gh, specs, saved, tool, run, history>>

Commit ==
  /\ "commit" \in Human
  /\ Dirty /\ saved' = [tasks |-> tasks, specs |-> specs]
  /\ UNCHANGED <<gh, records, tool, run, history, starts>>

----------------------------------------------------------------------------
Promote == (\E i \in Issue : PromoteStart(i)) \/ PromoteEdit \/ PromoteRead \/ PromoteWrite
             \/ PromoteSpec
Sync == SyncFetch \/ SyncRead \/ SyncWrite \/ SyncHeal
Review == (\E i \in Issue : ReviewCreate(i)) \/ ReviewRead \/ ReviewWrite \/ ReviewPlace
CloseStale == StaleList \/ StaleClose
Run == Nightly \/ (\E i \in Issue : RunByNumber(i)) \/ Clean \/ RefuseDirty \/ Load
         \/ Rollback \/ Deliver \/ AlreadySatisfied

Remember ==
  named' = [n \in Id |-> IF n \in DOMAIN tasks' THEN named[n] \cup {tasks'[n].issue} ELSE named[n]]

Next ==
  /\ \/ Promote \/ Sync \/ Review \/ CloseStale \/ Run
     \/ (\E t \in Tool : Crash(t))
     \/ OnGitHub \/ (\E i \in Issue : WriteLine(i)) \/ Commit
  /\ Remember

\* The periodic program is started again and again and its steps end; a run of
\* it that is killed is followed by another.
Spec == Init /\ [][Next]_vars
FairSpec == Spec /\ WF_vars((Sync \/ ReviewRead \/ ReviewWrite \/ ReviewPlace) /\ Remember)

----------------------------------------------------------------------------
\* Every variable keeps its type.
TypeOK ==
  /\ gh \in [Issue -> [state : {"none", "open", "closed"}, labels : SUBSET Label, final : BOOLEAN]]
  /\ DOMAIN tasks \subseteq Id
  /\ \A n \in DOMAIN tasks :
       tasks[n] \in [issue : Issue, box : {" ", "x"},
                     stage : {"none", "ideation", "ready", "garbled"}]
  /\ specs \in [Id -> [issue : Issue \cup {0}, final : BOOLEAN]]
  /\ saved.specs \in [Id -> [issue : Issue \cup {0}, final : BOOLEAN]]
  /\ \A t \in Tool : tool[t].issue \in Issue \cup {0} /\ DOMAIN tool[t].known \subseteq Issue
  /\ run.pc \in {"idle", "clean", "load", "running"} /\ run.by \in {"none", "nightly", "human"}
  /\ approved \subseteq Issue /\ lost \in BOOLEAN
  /\ starts \in 0 .. MaxStarts

\* However the programs interleave and wherever they stop, tasks.md never has
\* two lines of one issue (the three "already registered" checks).
OneLinePerIssue ==
  \A m, n \in DOMAIN tasks : tasks[m].issue = tasks[n].issue => m = n

\* The issues whose lines the promotion of one of these may raise: those whose
\* number begins with its number.
RaisedBy(issues) == {n \in Issue : \E i \in issues : TagIn(i, n)}

\* A line that the nightly worker takes up belongs to an issue a human has
\* approved, or to one whose number begins with the number of such an issue
\* (sync_to_tasks_md, sync_issue_statuses_to_tasks_md).
ReadyMeansApproved == \A n \in Candidates : tasks[n].issue \in RaisedBy(approved)

\* As long as no uncommitted record was taken away and no stale copy written,
\* a task id stands for one issue for ever: state.json, the work branch and the
\* specification are filed under the id.
TaskIdKeepsItsIssue == ~lost => \A n \in Id : Cardinality(named[n]) <= 1

\* Under the same condition a specification is that of its line's issue
\* (SBOS-DD-007 section 3.10: the three records correspond one to one).
SpecMatchesTask ==
  ~lost => \A n \in DOMAIN tasks : specs[n] # NoSpec => specs[n].issue = tasks[n].issue

\* Under the same condition a run implements the issue it was selected for, if
\* it has a specification at all and its id was not guessed from a number, and
\* the nightly worker's is one that ReadyMeansApproved allows.
RunsWhatWasSelected ==
  run.pc = "running" /\ ~lost /\ ~run.guessed =>
    /\ run.spec # NoSpec => run.spec.issue = run.issue
    /\ run.by = "nightly" => run.issue \in RaisedBy(approved)

\* A hand-written line may have no stage; the promotion spoils it (Raised) and
\* the synchronisation, which replaces stage:ideation and nothing else, leaves
\* it, so that the nightly worker never takes it up.
Unstaged == {"none", "garbled"}
StageArrived(i) == tasks[IdOf(tasks, i)].stage \in {"ready"} \cup Unstaged

\* A synchronisation that nothing disturbed leaves every fetched issue with a
\* line and a specification, closed ones ticked off and approved open ones at
\* stage:ready, unless their line is one without a stage.
UpToDate(i) ==
  /\ Registered(tasks, i) /\ specs'[IdOf(tasks, i)] # NoSpec
  /\ gh[i].state = "closed" => tasks[IdOf(tasks, i)].box = "x"
  /\ Ready(i) => StageArrived(i)
Fetched == tool["periodic"].known
Undisturbed ==
  /\ tasks = Synced(tool["periodic"].text, Fetched)
  /\ \A i \in DOMAIN Fetched : Fetched[i] = gh[i]
SyncMirrors ==
  [][SyncHeal /\ Undisturbed => \A i \in DOMAIN Fetched : UpToDate(i)]_vars

\* A line that was ticked off stays so, unless the records are taken away or a
\* stale copy is written: no closed issue is implemented again.
TickedStaysTicked ==
  [][\A n \in DOMAIN tasks : tasks[n].box = "x" /\ ~lost' =>
       n \in DOMAIN tasks' /\ tasks'[n].box = "x"]_vars

\* An approval that reached GitHub reaches tasks.md, whatever became of the
\* program that was promoting the issue, unless its line is one without a stage.
ApprovalArrives ==
  \A i \in Issue : Ready(i) ~> (~Ready(i) \/ (Registered(tasks, i) /\ StageArrived(i)))
=============================================================================

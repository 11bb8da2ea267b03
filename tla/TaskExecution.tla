---------------------------- MODULE TaskExecution ----------------------------
(***************************************************************************)
(* The executions of a project's issues: execute_issue around the issue    *)
(* graph (tools/orchestrator_graph.py), the wrapper tools/run_task.py that *)
(* cleans or resets the satellite repository first, state.json             *)
(* (tools/metadata_store.py) and the satellite repository they all share.  *)
(*                                                                         *)
(* A process carries out one request at a time and may die at any point.   *)
(* The steps of a process are as fine as what others can see in between:   *)
(* state.json is read in one step and replaced in another, git commands    *)
(* run in steps of their own where no lock protects them, and the graph is *)
(* reduced to its edit of the code and its outcome (module IssueGraph has  *)
(* the rest).  Code is abstracted to edits: what one execution changed.    *)
(***************************************************************************)
EXTENDS Naturals

CONSTANTS
  Process, Inode, PosixUnlink, None,   \* see ProjectLock
  Issue,            \* the issues of the project
  EntryPoint,       \* the ways in that are used, a subset of EntryPoints
  Flag,             \* the options that are used, a subset of Flags
  GitMayFail,       \* git status and git switch may fail while others work
  MaxExecutions     \* bound: requests carried out in a behaviour

EntryPoints == {"execute", "run_task", "reset", "retry"}
Flags       == {"resume", "fresh", "stash", "force"}

ASSUME NoneAssumption == None \notin Process \cup Inode
ASSUME PosixUnlinkAssumption == PosixUnlink \in BOOLEAN
ASSUME EntryPointAssumption == EntryPoint \subseteq EntryPoints
ASSUME IssueAssumption == "base" \notin Issue   \* work branches are sbos/<issue>
ASSUME FlagAssumption == Flag \subseteq Flags
ASSUME GitMayFailAssumption == GitMayFail \in BOOLEAN
ASSUME MaxExecutionsAssumption == MaxExecutions \in Nat

VARIABLES
  path, open, owner,   \* the project lock
  store,               \* state.json: the entry of each issue
  repo,                \* the satellite repository
  pc,                  \* what each process does next
  job,                 \* each process's request and local variables
  executions,          \* requests begun so far
  \* history: what the properties need to remember
  made,                \* edits made
  discarded,           \* edits a human ordered to be thrown away
  streak,              \* FAILED_B7 endings in a row, by the rules of DD-003 5.6
  last,                \* how the last graph run of each issue ended
  unsaved              \* edits each issue's last FAILED_B7 run left uncommitted

lockVars == <<path, open, owner>>
history  == <<made, discarded, streak, last, unsaved>>
vars     == <<lockVars, store, repo, pc, job, executions, history>>

Lock == INSTANCE ProjectLock

-------------------------------------------------------------------------------
\* state.json

Status == {"COMPLETED", "PR_FAILED", "FAILED_B7", "FAILED_SYSTEM",
           "ESCALATED_NEEDS_REVISION", "SKIPPED_LOCKED"}

Entry   == [status : Status \cup {"none"}, b7 : Nat]
NoEntry == [status |-> "none", b7 |-> 0]

MaxConsecutiveB7 == 2   \* MAX_CONSECUTIVE_B7

\* next_consecutive_b7
NextConsecutiveB7(previous, status) ==
  CASE status = "FAILED_B7" -> previous + 1
    [] status = "COMPLETED" -> 0
    [] OTHER                -> previous

\* Faulty variant: an update without a count starts again from 0 (Issue #91).
EntryToWriteForgetful(v, previous) ==
  [status |-> v.status, b7 |-> IF v.count THEN v.b7 ELSE 0]

\* Faulty variant: a missing count is written as it is.
EntryToWriteBlank(v, previous) ==
  [status |-> v.status, b7 |-> IF v.count THEN v.b7 ELSE None]

\* update_task_state: the entry that replaces previous.  Without a count of its
\* own (consecutive_b7 = None) the verdict carries the old one over.
EntryToWrite(v, previous) ==
  [status |-> v.status, b7 |-> IF v.count THEN v.b7 ELSE previous.b7]

Verdict == [status : Status, count : BOOLEAN, b7 : Nat]
Uncounted(s) == [status |-> s, count |-> FALSE, b7 |-> 0]

\* The statuses execute_issue resumes from.  CHANGES_REQUESTED and IN_REVIEW
\* are in its list as well, but nothing writes them.
Resumable == {"PR_FAILED", "FAILED_B7"}

-------------------------------------------------------------------------------
\* The satellite repository.  An edit is <<issue, number of the execution>>.

Edit   == Issue \X (1 .. MaxExecutions)
Branch == Issue \cup {"base"}

\* head: the branch checked out     tree: uncommitted edits
\* exists: local work branches      commits: edits committed to a branch
\* remote: edits pushed             shelf: edits in stashes, backup branches
Repository ==
  [head : Branch, tree : SUBSET Edit, exists : SUBSET Issue,
   commits : [Branch -> SUBSET Edit], remote : [Issue -> SUBSET Edit],
   shelf : SUBSET Edit]

EmptyRepository ==
  [head |-> "base", tree |-> {}, exists |-> {},
   commits |-> [b \in Branch |-> {}], remote |-> [i \in Issue |-> {}],
   shelf |-> {}]

Kept(r) ==
  r.tree \cup r.shelf \cup (UNION {r.commits[b] : b \in Branch})
         \cup (UNION {r.remote[i] : i \in Issue})

Stash(r)        == [r EXCEPT !.shelf = @ \cup r.tree, !.tree = {}]
Commit(r)       == [r EXCEPT !.commits[r.head] = @ \cup r.tree, !.tree = {}]
Switch(r, b)    == [r EXCEPT !.head = b]
DropBranch(r, i) == [r EXCEPT !.exists = @ \ {i}, !.commits[i] = {}]
CreateFrom(r, i, edits) ==
  [r EXCEPT !.exists = @ \cup {i}, !.head = i, !.commits[i] = edits]

Unmerged(r, i) == i \in r.exists /\ ~(r.commits[i] \subseteq r.commits["base"])

\* A work branch with unmerged commits is renamed to a backup branch, any other
\* one deleted.
Retire(r, i) ==
  DropBranch(IF Unmerged(r, i) THEN [r EXCEPT !.shelf = @ \cup r.commits[i]]
                               ELSE r, i)

\* The branch to go on with: the local one, else the pushed one, else a new one.
WorkBranch(r, i) ==
  CASE i \in r.exists     -> Switch(r, i)
    [] i \notin r.exists  -> CreateFrom(r, i, IF r.remote[i] # {} THEN r.remote[i]
                                              ELSE r.commits["base"])

Rebase(r, i) == [r EXCEPT !.commits[i] = @ \cup r.commits["base"]]
Push(r, i)   == [r EXCEPT !.remote[i] = r.commits[i]]

-------------------------------------------------------------------------------
\* Requests and the state of a process.

\* run_task.py --resume cleans nothing and is the same as execute --resume;
\* --retry implies --fresh.
Request ==
  {r \in [kind : EntryPoint, issue : Issue, flags : SUBSET Flags] :
     /\ r.flags \subseteq Flag \cup (IF r.kind = "retry" THEN {"fresh"} ELSE {})
     /\ "resume" \in r.flags => r.kind = "execute"
     /\ "fresh" \in r.flags => r.kind # "reset"
     /\ "force" \in r.flags => r.kind # "execute"
     /\ r.kind = "retry" => "fresh" \in r.flags}

Fresh(r)     == "fresh" \in r.flags
AutoStash(r) == "stash" \in r.flags
Forced(r)     == "force" \in r.flags
Automatic(r) == r.flags \cap {"resume", "fresh"} = {}

\* seen: the entry read under the lock     snapshot: state.json as last loaded
\* verdict: what is to be recorded         number: of this execution
Idle ==
  [req |-> None, number |-> 0, seen |-> NoEntry, resuming |-> FALSE,
   snapshot |-> None, verdict |-> None]

Step == {"idle", "forget", "erase", "safeguard", "wipe", "unlock", "context",
         "lock", "decide", "prepare", "run", "load", "save", "release"}

Job ==
  [req : Request \cup {None}, number : 0 .. MaxExecutions, seen : Entry,
   resuming : BOOLEAN, snapshot : [Issue -> Entry] \cup {None},
   verdict : Verdict \cup {None}]

TypeOK ==
  /\ Lock!TypeOK
  /\ store \in [Issue -> Entry]
  /\ repo \in Repository
  /\ pc \in [Process -> Step]
  /\ job \in [Process -> Job]
  /\ executions \in 0 .. MaxExecutions
  /\ made \subseteq Edit /\ discarded \subseteq Edit
  /\ streak \in [Issue -> Nat]
  /\ last \in [Issue -> Status \cup {"none"}]
  /\ unsaved \in [Issue -> SUBSET Edit]

Init ==
  /\ Lock!Init
  /\ store = [i \in Issue |-> NoEntry]
  /\ repo = EmptyRepository
  /\ pc = [p \in Process |-> "idle"]
  /\ job = [p \in Process |-> Idle]
  /\ executions = 0
  /\ made = {} /\ discarded = {}
  /\ streak = [i \in Issue |-> 0]
  /\ last = [i \in Issue |-> "none"]
  /\ unsaved = [i \in Issue |-> {}]

Goto(p, step) == pc' = [pc EXCEPT ![p] = step]

\* The process is through with its request.
Finished(p) == Goto(p, "idle") /\ job' = [job EXCEPT ![p] = Idle]

\* The outcome v is to be recorded.
Record(p, v) == Goto(p, "load") /\ job' = [job EXCEPT ![p].verdict = v]

-------------------------------------------------------------------------------
\* run_task.py

Start(p) ==
  /\ pc[p] = "idle"
  /\ executions < MaxExecutions
  /\ executions' = executions + 1
  /\ \E r \in Request :
       /\ job' = [job EXCEPT ![p].req = r, ![p].number = executions']
       /\ Goto(p, CASE r.kind \in {"reset", "retry"} -> "forget"
                    [] r.kind = "run_task"             -> "safeguard"
                    [] r.kind = "execute"              -> "context")
  /\ UNCHANGED <<lockVars, store, repo, history>>

\* reset_task_state reads state.json ...
Forget(p) ==
  /\ pc[p] = "forget"
  /\ job' = [job EXCEPT ![p].snapshot = store]
  /\ Goto(p, "erase")
  /\ UNCHANGED <<lockVars, store, repo, executions, history>>

\* ... and replaces it, without the issue's entry if there was one.
Erase(p) ==
  LET i   == job[p].req.issue
      old == job[p].snapshot
  IN  /\ pc[p] = "erase"
      /\ store' = IF old[i] = NoEntry THEN store ELSE [old EXCEPT ![i] = NoEntry]
      /\ streak' = [streak EXCEPT ![i] = 0]
      /\ last' = [last EXCEPT ![i] = "none"]
      /\ unsaved' = [unsaved EXCEPT ![i] = {}]
      /\ job' = [job EXCEPT ![p].snapshot = None]
      /\ Goto(p, "safeguard")
      /\ UNCHANGED <<lockVars, repo, executions, made, discarded>>

\* Faulty variant: an unclean repository is not stashed.
SafeguardNothing(p) ==
  /\ pc[p] = "safeguard"
  /\ Goto(p, "wipe")
  /\ UNCHANGED <<lockVars, store, repo, job, executions, history>>

\* check_and_safeguard_working_tree.  It takes a failing git status for a clean
\* repository.
Safeguard(p) ==
  LET req == job[p].req
  IN  /\ pc[p] = "safeguard"
      /\ \/ /\ repo.tree = {} \/ Forced(req) \/ GitMayFail
            /\ Goto(p, "wipe")
            /\ UNCHANGED <<repo, job>>
         \/ /\ repo.tree # {} /\ ~Forced(req) /\ AutoStash(req)
            /\ repo' = Stash(repo)
            /\ Goto(p, "wipe")
            /\ UNCHANGED job
         \/ /\ repo.tree # {} /\ ~Forced(req)      \* no --auto-stash, or it failed
            /\ Finished(p)
            /\ UNCHANGED repo
      /\ UNCHANGED <<lockVars, store, executions, history>>

\* clean_satellite_repository and reset_task_environment after the safeguard:
\* checkout -f base, for a reset branch -D, reset --hard origin/base, clean -fd.
\* A branch -D that fails is ignored, any other failure ends run_task.py.
Wipe(p) ==
  LET req     == job[p].req
      i       == req.issue
      reset   == req.kind \in {"reset", "retry"}
      onBase  == [Switch(repo, "base") EXCEPT !.tree = {}]
      reached == {onBase} \cup (IF reset THEN {DropBranch(onBase, i)} ELSE {})
      ordered == (IF Forced(req) THEN repo.tree ELSE {}) \cup
                 (IF reset THEN repo.commits[i] ELSE {})
  IN  /\ pc[p] = "wipe"
      /\ \/ /\ repo' \in {[r EXCEPT !.commits["base"] = {}] : r \in reached}
            /\ discarded' = discarded \cup ordered
            /\ Goto(p, IF reset THEN "unlock" ELSE "context")
            /\ UNCHANGED job
         \/ /\ repo' \in reached
            /\ discarded' = discarded \cup ordered
            /\ Finished(p)
         \/ Finished(p) /\ UNCHANGED <<repo, discarded>>
      /\ UNCHANGED <<lockVars, store, executions, made, streak, last, unsaved>>

\* reset_task_environment ends with force_unlock_project.
Unlock(p) ==
  /\ pc[p] = "unlock"
  /\ Lock!ForceUnlock
  /\ \/ job[p].req.kind = "retry" /\ Goto(p, "context") /\ UNCHANGED job
     \/ job[p].req.kind = "reset" /\ Finished(p)
  /\ UNCHANGED <<store, repo, executions, history>>

-------------------------------------------------------------------------------
\* execute_issue

\* The project's context is resolved before the lock is taken.
Context(p) ==
  /\ pc[p] = "context"
  /\ \/ Lock!OpenLockFile(p) /\ Goto(p, "lock") /\ UNCHANGED job
     \/ Record(p, Uncounted("FAILED_SYSTEM")) /\ UNCHANGED lockVars
  /\ UNCHANGED <<store, repo, executions, history>>

\* Faulty variant: a busy lock does not stop the execution.
TryLockIgnored(p) ==
  /\ pc[p] = "lock"
  /\ Lock!TakeLock(p) \/ Lock!LockBusy(p)
  /\ Goto(p, "decide")
  /\ UNCHANGED <<store, repo, job, executions, history>>

TryLock(p) ==
  /\ pc[p] = "lock"
  /\ \/ Lock!TakeLock(p) /\ Goto(p, "decide") /\ UNCHANGED job
     \/ Lock!LockBusy(p) /\ Record(p, Uncounted("SKIPPED_LOCKED"))
  /\ UNCHANGED <<store, repo, executions, history>>

\* Faulty variant: the guard lets one more run through.
BlockedTooLate(r, e) ==
  /\ Automatic(r)
  /\ e.status = "FAILED_B7"
  /\ e.b7 > MaxConsecutiveB7

\* The guard against a third automatic run, for the entry e and the request r.
Blocked(r, e) ==
  /\ Automatic(r)
  /\ e.status = "FAILED_B7"
  /\ e.b7 >= MaxConsecutiveB7

\* The entry is read, the run is refused or its mode decided.  A refusal is
\* recorded in the history only.
Decide(p) ==
  LET r == job[p].req
      e == store[r.issue]
  IN  /\ pc[p] = "decide"
      /\ \/ /\ Blocked(r, e)
            /\ Goto(p, "release")
            /\ UNCHANGED job
         \/ /\ ~Blocked(r, e)
            /\ Goto(p, "prepare")
            /\ job' = [job EXCEPT ![p].seen = e,
                 ![p].resuming = "resume" \in r.flags \/ (~Fresh(r) /\ e.status \in Resumable)]
      /\ UNCHANGED <<lockVars, store, repo, executions, history>>

\* Resume mode: uncommitted edits become a WIP commit, but only on the work
\* branch, and the branch is rebased onto base.  When git refuses to switch, to
\* check out the remote branch and to create a new one, the run goes on where
\* it is: the result of the last attempt is not looked at.
ResumeReady(p) ==
  LET i == job[p].req.issue
  IN  /\ pc[p] = "prepare" /\ job[p].resuming
      /\ repo.tree = {} \/ repo.head = i
      /\ \/ repo' = Rebase(WorkBranch(Commit(repo), i), i)
         \/ GitMayFail /\ repo.head # i /\ repo' = Commit(repo)
      /\ Goto(p, "run")
      /\ UNCHANGED <<lockVars, store, job, executions, history>>

\* The wrong branch, a failing WIP commit, a rebase conflict (the rebase is
\* aborted) or a failing git status.
ResumeStops(p) ==
  LET i == job[p].req.issue
  IN  /\ pc[p] = "prepare" /\ job[p].resuming
      /\ \/ /\ repo.tree # {} \/ (repo.head # i /\ GitMayFail)
            /\ UNCHANGED repo
         \/ /\ repo.tree = {} \/ repo.head = i
            /\ i \in repo.exists \/ repo.remote[i] # {}
            /\ repo' = WorkBranch(Commit(repo), i)
      /\ Record(p, Uncounted("FAILED_SYSTEM"))
      /\ UNCHANGED <<lockVars, store, executions, history>>

\* Fresh mode: uncommitted edits are stashed if asked for, base is checked out
\* and pulled, and the work branch is made anew.
FreshReady(p) ==
  LET r == job[p].req
  IN  /\ pc[p] = "prepare" /\ ~job[p].resuming
      /\ repo.tree = {} \/ AutoStash(r)
      /\ repo' = CreateFrom(Retire(Stash(repo), r.issue), r.issue,
                           repo.commits["base"])
      /\ Goto(p, "run")
      /\ UNCHANGED <<lockVars, store, job, executions, history>>

\* Unclean without --auto-stash, a failing stash, switch, pull, rename of the
\* work branch, or creation of the new one.
FreshStops(p) ==
  LET r    == job[p].req
      base == Switch(Stash(repo), "base")
  IN  /\ pc[p] = "prepare" /\ ~job[p].resuming
      /\ \/ UNCHANGED repo
         \/ /\ repo.tree = {} \/ AutoStash(r)
            /\ repo' \in {Stash(repo), base,
                          Retire(base, r.issue)}
      /\ Record(p, Uncounted("FAILED_SYSTEM"))
      /\ UNCHANGED <<lockVars, store, executions, history>>

\* The coding agent edits the code that is checked out.
EditCode(p) ==
  LET e == <<job[p].req.issue, job[p].number>>
  IN  /\ pc[p] = "run"
      /\ e \notin made
      /\ made' = made \cup {e}
      /\ repo' = [repo EXCEPT !.tree = @ \cup {e}]
      /\ UNCHANGED <<lockVars, store, pc, job, executions, discarded, streak, last,
                     unsaved>>

\* What execute_issue records for the graph's final status s.
Ended(p, s) ==
  LET previous == IF Fresh(job[p].req) THEN 0 ELSE job[p].seen.b7
  IN  [status |-> s, count |-> TRUE, b7 |-> NextConsecutiveB7(previous, s)]

\* The graph gives up; nothing is committed.
GiveUp(p) ==
  /\ pc[p] = "run"
  /\ \E s \in {"FAILED_B7", "FAILED_SYSTEM", "ESCALATED_NEEDS_REVISION"} :
       Record(p, Ended(p, s))
  /\ UNCHANGED <<lockVars, store, repo, executions, history>>

\* done_node: commit to the branch checked out, push --force-with-lease of the
\* work branch, pull request; the first that fails ends it.  (A task found to be
\* satisfied already never gets here, see IssueGraphClaims.)
Deliver(p) ==
  LET i         == job[p].req.issue
      committed == Commit(repo)
  IN  /\ pc[p] = "run"
      /\ \/ /\ i \in repo.exists
            /\ repo' = Push(committed, i)
            /\ \E s \in {"COMPLETED", "PR_FAILED"} : Record(p, Ended(p, s))
         \/ /\ repo' \in {repo, committed}
            /\ Record(p, Ended(p, "PR_FAILED"))
      /\ UNCHANGED <<lockVars, store, executions, history>>

\* An exception leaves the with statement and is recorded without the lock.
Raise(p) ==
  /\ pc[p] = "run"
  /\ Lock!Release(p)
  /\ Record(p, Uncounted("FAILED_SYSTEM"))
  /\ UNCHANGED <<store, repo, executions, history>>

\* update_task_state reads state.json ...
Load(p) ==
  /\ pc[p] = "load"
  /\ job' = [job EXCEPT ![p].snapshot = store]
  /\ Goto(p, "save")
  /\ UNCHANGED <<lockVars, store, repo, executions, history>>

\* ... and replaces it by what it read, with the issue's entry replaced.
Save(p) ==
  LET i   == job[p].req.issue
      v   == job[p].verdict
      old == job[p].snapshot
      row == IF Fresh(job[p].req) THEN 0 ELSE streak[i]   \* DD-003 5.6
  IN  /\ pc[p] = "save"
      /\ store' = [old EXCEPT ![i] = EntryToWrite(v, old[i])]
      /\ IF v.count
         THEN /\ streak' = [streak EXCEPT ![i] =
                              CASE v.status = "FAILED_B7" -> row + 1
                                [] v.status = "COMPLETED" -> 0
                                [] OTHER                  -> row]
              /\ last' = [last EXCEPT ![i] = v.status]
              /\ unsaved' = [unsaved EXCEPT ![i] =
                               IF v.status = "FAILED_B7"
                               THEN {e \in repo.tree : e[1] = i} ELSE {}]
         ELSE UNCHANGED <<streak, last, unsaved>>
      /\ \/ /\ Lock!Holds(p)
            /\ Goto(p, "release")
            /\ job' = [job EXCEPT ![p].snapshot = None]
         \/ ~Lock!Holds(p) /\ Finished(p)
      /\ UNCHANGED <<lockVars, repo, executions, made, discarded>>

\* Faulty variant: the end of the with statement gives nothing back.
ReleaseForgotten(p) ==
  /\ pc[p] = "release"
  /\ Finished(p)
  /\ UNCHANGED <<lockVars, store, repo, executions, history>>

\* The end of the with statement.
Release(p) ==
  /\ pc[p] = "release"
  /\ Lock!Release(p)
  /\ Finished(p)
  /\ UNCHANGED <<store, repo, executions, history>>

\* The process dies, or the nightly worker kills it when its time is up.
Crash(p) ==
  /\ pc[p] # "idle"
  /\ Lock!Crash(p)
  /\ Finished(p)
  /\ UNCHANGED <<store, repo, executions, history>>

-------------------------------------------------------------------------------
Work(p) ==
  \/ Forget(p) \/ Erase(p) \/ Safeguard(p) \/ Wipe(p) \/ Unlock(p)
  \/ Context(p) \/ TryLock(p) \/ Decide(p)
  \/ ResumeReady(p) \/ ResumeStops(p) \/ FreshReady(p) \/ FreshStops(p)
  \/ EditCode(p) \/ GiveUp(p) \/ Deliver(p) \/ Raise(p)
  \/ Load(p) \/ Save(p) \/ Release(p)

Next == \E p \in Process : Start(p) \/ Work(p) \/ Crash(p)

\* A process that is running goes on: every call it makes has a timeout.
Fairness == \A p \in Process : WF_vars(Work(p))

Spec == Init /\ [][Next]_vars /\ Fairness

-------------------------------------------------------------------------------
\* Properties

\* A process between entering and leaving the with statement of execute_issue.
InSection(p) ==
  \/ pc[p] \in {"decide", "prepare", "run", "release"}
  \/ pc[p] \in {"load", "save"} /\ Lock!Holds(p)

\* No two executions work on the repository, or decide from state.json, at the
\* same time (ProjectLockManager in execute_issue).
OneRunAtATime ==
  \A p, q \in Process :
    InSection(p) /\ InSection(q) => p = q

\* No edit is lost: whatever was edited is still uncommitted, committed, pushed,
\* stashed or on a backup branch, unless a human gave --force or reset the task
\* (stash, WIP commit and backup branches of execute_issue and run_task.py).
EditsSurvive == made \subseteq Kept(repo) \cup discarded

\* state.json counts the runs that ended in FAILED_B7 as DD-003 5.6 defines,
\* through refusals, failed preparations, crashes and resets
\* (next_consecutive_b7, update_task_state, reset_task_state).
CountIsTrue == \A i \in Issue : store[i].b7 = streak[i]

\* After MaxConsecutiveB7 runs in a row that ended in FAILED_B7, no run resumes
\* the issue unless its caller asked for it (the guard of Issue #91).
NoThirdAutomaticResume ==
  [][\A p \in Process :
       pc[p] = "prepare" /\ pc'[p] = "run" /\ job[p].resuming
         /\ Automatic(job[p].req)
       => LET i == job[p].req.issue
          IN  ~(last[i] = "FAILED_B7" /\ streak[i] >= MaxConsecutiveB7)]_vars

\* The lock does not outlive the executions that take it: whoever dies or ends in
\* whatever way, it becomes free again (the FileLock of ProjectLockManager, which
\* the operating system gives back).
LockIsFreed ==
  (\E f \in Inode : owner[f] # None) ~> (\A f \in Inode : owner[f] = None)
=============================================================================

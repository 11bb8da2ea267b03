------------------------ MODULE TaskExecutionProofs ------------------------
(***************************************************************************)
(* What TaskExecution guarantees for every number of processes, issues and *)
(* requests.                                                               *)
(***************************************************************************)
EXTENDS TaskExecution, TLAPS

LP == INSTANCE ProjectLockProofs

-----------------------------------------------------------------------------
\* The operations on the repository give repositories.

\* Stashing, committing, switching, dropping and creating branches, rebasing and
\* pushing lead from repository to repository (the git commands of execute_issue
\* and run_task.py).
LEMMA RepositoryOps ==
  ASSUME NEW r \in Repository, NEW i \in Issue, NEW b \in Branch,
         NEW edits \in SUBSET Edit
  PROVE  /\ Stash(r) \in Repository
         /\ Commit(r) \in Repository
         /\ Switch(r, b) \in Repository
         /\ DropBranch(r, i) \in Repository
         /\ CreateFrom(r, i, edits) \in Repository
         /\ Rebase(r, i) \in Repository
         /\ Push(r, i) \in Repository
<1> USE DEF Repository, Branch
<1>1. Stash(r) \in Repository
  BY DEF Stash
<1>2. Commit(r) \in Repository
  BY DEF Commit
<1>3. Switch(r, b) \in Repository
  BY DEF Switch
<1>4. DropBranch(r, i) \in Repository
  BY DEF DropBranch
<1>5. CreateFrom(r, i, edits) \in Repository
  BY DEF CreateFrom
<1>6. Rebase(r, i) \in Repository
  BY DEF Rebase
<1>7. Push(r, i) \in Repository
  BY DEF Push
<1> QED BY <1>1, <1>2, <1>3, <1>4, <1>5, <1>6, <1>7

\* So do the branch to go on with and the retirement of a work branch.
LEMMA BranchOps ==
  ASSUME NEW r \in Repository, NEW i \in Issue
  PROVE  WorkBranch(r, i) \in Repository /\ Retire(r, i) \in Repository
<1>1. WorkBranch(r, i) \in Repository
  <2>1. r.remote[i] \in SUBSET Edit /\ r.commits["base"] \in SUBSET Edit
    BY DEF Repository, Branch
  <2>2. CASE i \in r.exists
    BY <2>2, RepositoryOps DEF WorkBranch, Branch
  <2>3. CASE i \notin r.exists
    <3> DEFINE edits == IF r.remote[i] # {} THEN r.remote[i] ELSE r.commits["base"]
    <3>1. edits \in SUBSET Edit
      BY <2>1
    <3>2. WorkBranch(r, i) = CreateFrom(r, i, edits)
      BY <2>3 DEF WorkBranch
    <3> HIDE DEF edits
    <3>3. CreateFrom(r, i, edits) \in Repository
      BY <3>1, RepositoryOps, "base" \in Branch DEF Branch
    <3> QED BY <3>2, <3>3
  <2> QED BY <2>2, <2>3
<1>2. Retire(r, i) \in Repository
  <2>1. [r EXCEPT !.shelf = @ \cup r.commits[i]] \in Repository
    BY DEF Repository, Branch
  <2> DEFINE kept == IF Unmerged(r, i) THEN [r EXCEPT !.shelf = @ \cup r.commits[i]]
                                       ELSE r
  <2>2. kept \in Repository
    BY <2>1
  <2>3. Retire(r, i) = DropBranch(kept, i)
    BY DEF Retire
  <2> HIDE DEF kept
  <2>4. DropBranch(kept, i) \in Repository
    BY <2>2, RepositoryOps, "base" \in Branch, {} \in SUBSET Edit DEF Branch
  <2> QED BY <2>3, <2>4
<1> QED BY <1>1, <1>2

-----------------------------------------------------------------------------
\* Executions use the project lock as ProjectLock describes it.

\* Every step is a step of the lock or leaves it alone (execute_issue,
\* reset_task_environment).
LEMMA LockSteps == [Next]_vars => [Lock!Next]_(Lock!vars)
<1> SUFFICES ASSUME [Next]_vars PROVE [Lock!Next]_(Lock!vars)
  OBVIOUS
<1> USE DEF Lock!Next, Lock!vars, lockVars
<1>1. CASE UNCHANGED vars
  BY <1>1 DEF vars
<1>2. ASSUME NEW p \in Process, Context(p) \/ TryLock(p) \/ Unlock(p) \/ Raise(p)
                               \/ Release(p) \/ Crash(p)
      PROVE  [Lock!Next]_(Lock!vars)
  BY <1>2 DEF Context, TryLock, Unlock, Raise, Release, Crash
<1>3. ASSUME NEW p \in Process, Start(p) \/ Forget(p) \/ Erase(p) \/ Safeguard(p)
                               \/ Wipe(p) \/ Decide(p)
      PROVE  UNCHANGED lockVars
  BY <1>3 DEF Start, Forget, Erase, Safeguard, Wipe, Decide
<1>4. ASSUME NEW p \in Process, ResumeReady(p) \/ ResumeStops(p) \/ FreshReady(p)
                               \/ FreshStops(p) \/ EditCode(p) \/ GiveUp(p)
                               \/ Deliver(p) \/ Load(p) \/ Save(p)
      PROVE  UNCHANGED lockVars
  BY <1>4 DEF ResumeReady, ResumeStops, FreshReady, FreshStops, EditCode, GiveUp,
              Deliver, Load, Save
<1> QED BY <1>1, <1>2, <1>3, <1>4 DEF Next, Work

\* The proofs of ProjectLock are about the same lock.
LEMMA SameLock ==
  /\ Lock!TypeOK <=> LP!TypeOK
  /\ Lock!Init <=> LP!Init
  /\ [Lock!Next]_(Lock!vars) <=> [LP!Next]_(LP!vars)
  /\ Lock!OneLockFile <=> LP!OneLockFile
<1>1. (Lock!TypeOK <=> LP!TypeOK) /\ (Lock!Init <=> LP!Init)
  BY DEF Lock!TypeOK, LP!TypeOK, Lock!Init, LP!Init
<1>2. Lock!OneLockFile <=> LP!OneLockFile
  BY DEF Lock!OneLockFile, LP!OneLockFile
<1>3. ASSUME NEW p \in Process
      PROVE  /\ Lock!OpenLockFile(p) <=> LP!OpenLockFile(p)
             /\ Lock!TakeLock(p) <=> LP!TakeLock(p)
             /\ Lock!LockBusy(p) <=> LP!LockBusy(p)
             /\ Lock!Release(p) <=> LP!Release(p)
             /\ Lock!Crash(p) <=> LP!Crash(p)
  <2>1. Lock!Close(p) <=> LP!Close(p)
    BY DEF Lock!Close, LP!Close
  <2> QED
    BY <2>1 DEF Lock!OpenLockFile, LP!OpenLockFile, Lock!IsOpen, LP!IsOpen,
      Lock!TakeLock, LP!TakeLock, Lock!LockBusy, LP!LockBusy, Lock!Release, LP!Release,
      Lock!Holds, LP!Holds, Lock!Crash, LP!Crash
<1>4. Lock!ForceUnlock <=> LP!ForceUnlock
  BY DEF Lock!ForceUnlock, LP!ForceUnlock, Lock!IsOpen, LP!IsOpen
<1>5. Lock!Next <=> LP!Next
  BY <1>3, <1>4 DEF Lock!Next, LP!Next
<1>6. UNCHANGED Lock!vars <=> UNCHANGED LP!vars
  BY DEF Lock!vars, LP!vars
<1> QED BY <1>1, <1>2, <1>5, <1>6

\* Whatever executions do with the project lock, ProjectLock allows (execute_issue
\* and run_task.py as users of ProjectLockManager).
THEOREM ExecutionsUseTheLock == Spec => Lock!Spec
<1>1. Init => Lock!Init
  BY DEF Init
<1> QED BY <1>1, LockSteps, PTL DEF Spec, Lock!Spec

-----------------------------------------------------------------------------
\* Types

\* Process p, about to take the step, has what the step needs: its request, the
\* number of its execution, the state.json it read, the outcome to record.
Equipped(j, step) ==
  /\ j \in Job
  /\ step # "idle" => j.req \in Request /\ j.number \in 1 .. MaxExecutions
  /\ step \in {"erase", "save"} => j.snapshot \in [Issue -> Entry]
  /\ step \in {"load", "save"} => j.verdict \in Verdict

Control ==
  /\ pc \in [Process -> Step]
  /\ job \in [Process -> Job]
  /\ \A p \in Process : Equipped(job[p], pc[p])

Store ==
  /\ store \in [Issue -> Entry]
  /\ executions \in 0 .. MaxExecutions
  /\ streak \in [Issue -> Nat]
  /\ last \in [Issue -> Status \cup {"none"}]

Code ==
  /\ repo \in Repository
  /\ made \subseteq Edit /\ discarded \subseteq Edit
  /\ unsaved \in [Issue -> SUBSET Edit]

TypeInv == Lock!TypeOK /\ Control /\ Store /\ Code

\* A process that is given what its next step needs keeps Control (pc and the
\* local variables of run_task.py's main and execute_issue).
LEMMA StepControl ==
  ASSUME Control, NEW p \in Process, NEW step \in Step, NEW j,
         Equipped(j, step),
         pc' = [pc EXCEPT ![p] = step], job' = [job EXCEPT ![p] = j]
  PROVE  Control'
BY DEF Control, Equipped

\* A process without a request is equipped to be idle (the end of main).
LEMMA IdleEquipped == Equipped(Idle, "idle")
BY MaxExecutionsAssumption DEF Equipped, Idle, Job, Entry, NoEntry

\* The end of a request keeps Control (the end of main, crashes).
LEMMA FinishedControl ==
  ASSUME Control, NEW p \in Process, Finished(p)
  PROVE  Control'
<1>1. pc' = [pc EXCEPT ![p] = "idle"] /\ job' = [job EXCEPT ![p] = Idle]
  BY DEF Finished, Goto
<1> QED BY <1>1, IdleEquipped, StepControl DEF Step

\* So does going on with the same local variables.
LEMMA GotoControl ==
  ASSUME Control, NEW p \in Process, NEW step \in Step, Goto(p, step),
         Equipped(job[p], step), UNCHANGED job
  PROVE  Control'
BY DEF Control, Goto

\* So does deciding what to record (_fail_system, the end of execute_issue).
LEMMA RecordControl ==
  ASSUME Control, NEW p \in Process, pc[p] # "idle", NEW v \in Verdict,
         Record(p, v)
  PROVE  Control'
<1> DEFINE j == [job[p] EXCEPT !.verdict = v]
<1>1. Equipped(job[p], pc[p]) /\ job[p] \in Job
  BY DEF Control
<1>2. Equipped(j, "load")
  BY <1>1 DEF Equipped, Job
<1>3. pc' = [pc EXCEPT ![p] = "load"] /\ job' = [job EXCEPT ![p] = j]
  BY DEF Record, Goto
<1> HIDE DEF j
<1> QED BY <1>2, <1>3, StepControl DEF Step

\* The start is well typed (no file, no branch, no process at work).
LEMMA InitType == Init => TypeInv
<1> SUFFICES ASSUME Init PROVE TypeInv
  OBVIOUS
<1>1. Lock!TypeOK
  BY DEF Init, Lock!Init, Lock!TypeOK
<1>2. Control
  BY IdleEquipped DEF Init, Control, Step, Equipped
<1>3. Store
  BY MaxExecutionsAssumption DEF Init, Store, Entry, NoEntry
<1>4. Code
  BY DEF Init, Code, EmptyRepository, Repository, Branch
<1> QED BY <1>1, <1>2, <1>3, <1>4 DEF TypeInv

\* An outcome without a count is an outcome (SKIPPED_LOCKED, FAILED_SYSTEM).
LEMMA UncountedVerdict ==
  ASSUME NEW s \in Status PROVE Uncounted(s) \in Verdict
BY DEF Uncounted, Verdict

\* So is what the end of a graph run records (the end of execute_issue).
LEMMA EndedVerdict ==
  ASSUME Control, NEW p \in Process, NEW s \in Status
  PROVE  Ended(p, s) \in Verdict
<1>1. job[p].seen \in Entry
  BY DEF Control, Job
<1>2. (IF Fresh(job[p].req) THEN 0 ELSE job[p].seen.b7) \in Nat
  BY <1>1 DEF Entry
<1>3. ASSUME NEW n \in Nat PROVE NextConsecutiveB7(n, s) \in Nat
  BY <1>3 DEF NextConsecutiveB7
<1> QED BY <1>2, <1>3 DEF Ended, Verdict

\* What update_task_state writes is an entry.
LEMMA EntryWritten ==
  ASSUME NEW v \in Verdict, NEW e \in Entry
  PROVE  EntryToWrite(v, e) \in Entry
BY DEF EntryToWrite, Verdict, Entry

\* Preparing, running and ending executions keeps TypeInv: the steps of run_task.py.
LEMMA WrapperType ==
  ASSUME TypeInv, NEW p \in Process,
         Start(p) \/ Forget(p) \/ Erase(p) \/ Safeguard(p) \/ Wipe(p) \/ Unlock(p)
  PROVE  Control' /\ Store' /\ Code'
<1> USE DEF TypeInv
<1>0. job[p] \in Job /\ Equipped(job[p], pc[p])
  BY DEF Control
<1>1. CASE Start(p)
  <2>1. PICK r \in Request :
          /\ job' = [job EXCEPT ![p].req = r, ![p].number = executions']
          /\ Goto(p, CASE r.kind \in {"reset", "retry"} -> "forget"
                       [] r.kind = "run_task"           -> "safeguard"
                       [] r.kind = "execute"            -> "context")
    BY <1>1 DEF Start
  <2>2. r.kind \in EntryPoints
    BY EntryPointAssumption DEF Request
  <2>3. executions' \in 1 .. MaxExecutions
    BY <1>1, MaxExecutionsAssumption DEF Start, Store
  <2> DEFINE j == [job[p] EXCEPT !.req = r, !.number = executions']
             step == CASE r.kind \in {"reset", "retry"} -> "forget"
                       [] r.kind = "run_task"           -> "safeguard"
                       [] r.kind = "execute"            -> "context"
  <2>4. step \in {"forget", "safeguard", "context"}
    BY <2>2 DEF EntryPoints
  <2>5. j \in Job /\ j.req \in Request /\ j.number \in 1 .. MaxExecutions
    <3>1. executions' \in 0 .. MaxExecutions
      BY <2>3, MaxExecutionsAssumption
    <3>2. j.req = r /\ j.number = executions'
      BY <1>0 DEF Job
    <3>3. j \in Job
      BY <1>0, <3>1 DEF Job
    <3> QED BY <2>3, <3>2, <3>3
  <2>6. job' = [job EXCEPT ![p] = j] /\ pc' = [pc EXCEPT ![p] = step]
    BY <2>1 DEF Goto
  <2> HIDE DEF j, step
  <2>7. Equipped(j, step) /\ step \in Step
    BY <2>4, <2>5 DEF Equipped, Step
  <2>8. Control'
    BY <2>6, <2>7, StepControl
  <2>9. Store' /\ Code'
    BY <1>1, <2>3 DEF Start, Store, Code, history
  <2> QED BY <2>8, <2>9
<1>2. CASE Forget(p)
  <2> DEFINE j == [job[p] EXCEPT !.snapshot = store]
  <2>1. Equipped(j, "erase")
    BY <1>0, <1>2 DEF Forget, Equipped, Job, Store
  <2>2. job' = [job EXCEPT ![p] = j] /\ pc' = [pc EXCEPT ![p] = "erase"]
    BY <1>2 DEF Forget, Goto
  <2> HIDE DEF j
  <2>3. Control'
    BY <2>1, <2>2, StepControl DEF Step
  <2>4. Store' /\ Code'
    BY <1>2 DEF Forget, Store, Code, history
  <2> QED BY <2>3, <2>4
<1>3. CASE Erase(p)
  <2> DEFINE j == [job[p] EXCEPT !.snapshot = None]
  <2>1. Equipped(j, "safeguard")
    BY <1>0, <1>3 DEF Erase, Equipped, Job
  <2>2. job' = [job EXCEPT ![p] = j] /\ pc' = [pc EXCEPT ![p] = "safeguard"]
    BY <1>3 DEF Erase, Goto
  <2> HIDE DEF j
  <2>3. Control'
    BY <2>1, <2>2, StepControl DEF Step
  <2>4. job[p].snapshot \in [Issue -> Entry] /\ job[p].req.issue \in Issue
    BY <1>0, <1>3 DEF Erase, Equipped, Request
  <2>5. NoEntry \in Entry
    BY DEF NoEntry, Entry
  <2>6. Store'
    BY <1>3, <2>4, <2>5 DEF Erase, Store
  <2>7. Code'
    BY <1>3, <2>4 DEF Erase, Code
  <2> QED BY <2>3, <2>6, <2>7
<1>4. CASE Safeguard(p)
  <2>1. pc[p] # "idle" /\ Equipped(job[p], "wipe")
    BY <1>0, <1>4 DEF Safeguard, Equipped
  <2>2. Control'
    BY <1>4, <2>1, GotoControl, FinishedControl DEF Safeguard, Step
  <2>3. repo' \in Repository
    <3>1. Stash(repo) \in Repository
      BY DEF Code, Repository, Stash
    <3> QED BY <1>4, <3>1 DEF Safeguard, Code
  <2> QED BY <1>4, <2>2, <2>3 DEF Safeguard, Store, Code, history
<1>5. CASE Wipe(p)
  <2>1. job[p].req \in Request /\ job[p].req.issue \in Issue
    BY <1>0, <1>5 DEF Wipe, Equipped, Request
  <2>2. Equipped(job[p], "unlock") /\ Equipped(job[p], "context")
    BY <1>0, <1>5 DEF Wipe, Equipped
  <2>3. Control'
    BY <1>5, <2>2, GotoControl, FinishedControl DEF Wipe, Step
  <2> DEFINE onBase == [Switch(repo, "base") EXCEPT !.tree = {}]
  <2>4. onBase \in Repository
    BY DEF Code, Repository, Switch, Branch
  <2>5. DropBranch(onBase, job[p].req.issue) \in Repository
    BY <2>1, <2>4 DEF Repository, DropBranch, Branch
  <2>6. ASSUME NEW r \in Repository
        PROVE  [r EXCEPT !.commits["base"] = {}] \in Repository
    BY DEF Repository, Branch
  <2>7. repo' \in Repository
    BY <1>5, <2>4, <2>5, <2>6 DEF Wipe, Code
  <2>8. repo.tree \subseteq Edit /\ repo.commits[job[p].req.issue] \subseteq Edit
    BY <2>1 DEF Code, Repository, Branch
  <2>9. discarded' \subseteq Edit
    BY <1>5, <2>8 DEF Wipe, Code
  <2> QED BY <1>5, <2>3, <2>7, <2>9 DEF Wipe, Store, Code
<1>6. CASE Unlock(p)
  <2>1. Equipped(job[p], "context")
    BY <1>0, <1>6 DEF Unlock, Equipped
  <2>2. Control'
    BY <1>6, <2>1, GotoControl, FinishedControl DEF Unlock, Step
  <2> QED BY <1>6, <2>2 DEF Unlock, Store, Code, history
<1> QED BY <1>1, <1>2, <1>3, <1>4, <1>5, <1>6

\* Preparing an execution keeps the types: the steps of execute_issue before the
\* graph.
LEMMA PrepareType ==
  ASSUME TypeInv, NEW p \in Process,
         Context(p) \/ TryLock(p) \/ Decide(p) \/ ResumeReady(p) \/ ResumeStops(p)
           \/ FreshReady(p) \/ FreshStops(p)
  PROVE  Control' /\ Store' /\ Code'
<1> USE DEF TypeInv
<1>0. job[p] \in Job /\ Equipped(job[p], pc[p])
  BY DEF Control
<1>i. pc[p] # "idle" => job[p].req \in Request /\ job[p].req.issue \in Issue
  BY <1>0 DEF Equipped, Request
<1>s. Uncounted("FAILED_SYSTEM") \in Verdict /\ Uncounted("SKIPPED_LOCKED") \in Verdict
  BY UncountedVerdict DEF Status
<1>r. repo \in Repository
  BY DEF Code
<1>st. Stash(repo) \in Repository /\ Switch(Stash(repo), "base") \in Repository
  BY <1>r DEF Repository, Stash, Switch, Branch
<1>1. CASE Context(p)
  <2>1. Equipped(job[p], "lock") /\ pc[p] # "idle"
    BY <1>0, <1>1 DEF Context, Equipped
  <2>2. Control'
    BY <1>1, <1>s, <2>1, GotoControl, RecordControl DEF Context, Step
  <2> QED BY <1>1, <2>2 DEF Context, Store, Code, history
<1>2. CASE TryLock(p)
  <2>1. Equipped(job[p], "decide") /\ pc[p] # "idle"
    BY <1>0, <1>2 DEF TryLock, Equipped
  <2>2. Control'
    BY <1>2, <1>s, <2>1, GotoControl, RecordControl DEF TryLock, Step
  <2> QED BY <1>2, <2>2 DEF TryLock, Store, Code, history
<1>3. CASE Decide(p)
  <2> DEFINE r == job[p].req
             e == store[r.issue]
             j == [job[p] EXCEPT !.seen = e,
                     !.resuming = "resume" \in r.flags
                                    \/ (~Fresh(r) /\ e.status \in Resumable)]
  <2>1. Equipped(job[p], "release")
    BY <1>0, <1>3 DEF Decide, Equipped
  <2>2. CASE Goto(p, "release") /\ UNCHANGED job
    <3>1. Control'
      BY <2>1, <2>2, GotoControl DEF Step
    <3> QED BY <1>3, <3>1 DEF Decide, Store, Code, history
  <2>3. CASE Goto(p, "prepare") /\ job' = [job EXCEPT ![p] = j]
    <3>1. e \in Entry
      BY <1>i, <1>3 DEF Decide, Store
    <3>2. ("resume" \in r.flags \/ (~Fresh(r) /\ e.status \in Resumable)) \in BOOLEAN
      OBVIOUS
    <3>3. j \in Job
      BY <1>0, <3>1, <3>2 DEF Job
    <3>4. j.req = job[p].req /\ j.number = job[p].number
      BY <1>0 DEF Job
    <3> HIDE DEF j
    <3>5. Equipped(j, "prepare")
      BY <1>0, <1>3, <3>3, <3>4 DEF Equipped, Decide
    <3>6. Control'
      BY <2>3, <3>5, StepControl DEF Goto, Step
    <3> QED BY <1>3, <3>6 DEF Decide, Store, Code, history
  <2>4. \/ Goto(p, "release") /\ UNCHANGED job
        \/ Goto(p, "prepare") /\ job' = [job EXCEPT ![p] = j]
    BY <1>0, <1>3 DEF Decide
  <2> QED BY <2>2, <2>3, <2>4
<1>4. CASE ResumeReady(p)
  <2>1. Equipped(job[p], "run")
    BY <1>0, <1>4 DEF ResumeReady, Equipped
  <2>2. Control'
    BY <1>4, <2>1, GotoControl DEF ResumeReady, Step
  <2>3. Commit(repo) \in Repository
    BY <1>r DEF Repository, Commit
  <2>4. Rebase(WorkBranch(Commit(repo), job[p].req.issue), job[p].req.issue) \in Repository
    <3>1. WorkBranch(Commit(repo), job[p].req.issue) \in Repository
      BY <1>4, <1>i, <2>3, BranchOps DEF ResumeReady
    <3> HIDE DEF Repository
    <3> QED BY <1>4, <1>i, <3>1 DEF ResumeReady, Rebase, Repository, Branch
  <2> QED BY <1>4, <2>2, <2>3, <2>4 DEF ResumeReady, Store, Code, history
<1>5. CASE ResumeStops(p)
  <2>1. Control'
    BY <1>5, <1>s, RecordControl DEF ResumeStops
  <2>2. Commit(repo) \in Repository
    BY <1>r DEF Repository, Commit
  <2>3. WorkBranch(Commit(repo), job[p].req.issue) \in Repository
    BY <1>5, <1>i, <2>2, BranchOps DEF ResumeStops
  <2> QED BY <1>5, <1>r, <2>1, <2>3 DEF ResumeStops, Store, Code, history
<1>6. CASE FreshReady(p)
  <2>1. Equipped(job[p], "run")
    BY <1>0, <1>6 DEF FreshReady, Equipped
  <2>2. Control'
    BY <1>6, <2>1, GotoControl DEF FreshReady, Step
  <2> DEFINE i == job[p].req.issue
  <2>3. i \in Issue
    BY <1>6, <1>i DEF FreshReady
  <2>4. Retire(Stash(repo), i) \in Repository
    BY <1>st, <2>3, BranchOps
  <2>5. repo.commits["base"] \in SUBSET Edit
    BY <1>r DEF Repository, Branch
  <2>6. CreateFrom(Retire(Stash(repo), i), i, repo.commits["base"]) \in Repository
    BY <2>3, <2>4, <2>5, RepositoryOps, "base" \in Branch DEF Branch
  <2> QED BY <1>6, <2>2, <2>6 DEF FreshReady, Store, Code, history
<1>7. CASE FreshStops(p)
  <2>1. Control'
    BY <1>7, <1>s, RecordControl DEF FreshStops
  <2>2. Retire(Switch(Stash(repo), "base"), job[p].req.issue) \in Repository
    BY <1>7, <1>i, <1>st, BranchOps DEF FreshStops
  <2>3. repo' \in Repository
    BY <1>7, <1>r, <1>st, <2>2 DEF FreshStops
  <2> QED BY <1>7, <2>1, <2>3 DEF FreshStops, Store, Code, history
<1> QED BY <1>1, <1>2, <1>3, <1>4, <1>5, <1>6, <1>7

\* Running the graph and recording the outcome keeps the types: the rest of
\* execute_issue.
LEMMA OutcomeType ==
  ASSUME TypeInv, NEW p \in Process,
         EditCode(p) \/ GiveUp(p) \/ Deliver(p) \/ Raise(p) \/ Load(p) \/ Save(p)
           \/ Release(p) \/ Crash(p)
  PROVE  Control' /\ Store' /\ Code'
<1> USE DEF TypeInv
<1>0. job[p] \in Job /\ Equipped(job[p], pc[p])
  BY DEF Control
<1>i. pc[p] # "idle" => job[p].req \in Request /\ job[p].req.issue \in Issue
  BY <1>0 DEF Equipped, Request
<1>r. repo \in Repository
  BY DEF Code
<1>1. CASE EditCode(p)
  <2>1. <<job[p].req.issue, job[p].number>> \in Edit
    BY <1>0, <1>1, <1>i DEF EditCode, Equipped, Edit
  <2>2. repo' \in Repository
    BY <1>1, <1>r, <2>1 DEF EditCode, Repository
  <2> QED BY <1>1, <2>1, <2>2 DEF EditCode, Control, Store, Code
<1>2. CASE GiveUp(p)
  <2>1. Control'
    BY <1>2, EndedVerdict, RecordControl DEF GiveUp, Status
  <2> QED BY <1>2, <2>1 DEF GiveUp, Store, Code, history
<1>3. CASE Deliver(p)
  <2>1. Control'
    BY <1>3, EndedVerdict, RecordControl DEF Deliver, Status
  <2>2. Commit(repo) \in Repository
    BY <1>r DEF Repository, Commit
  <2>3. Push(Commit(repo), job[p].req.issue) \in Repository
    BY <1>3, <1>i, <2>2 DEF Deliver, Push, Repository, Branch
  <2>4. repo' \in Repository
    BY <1>3, <1>r, <2>2, <2>3 DEF Deliver
  <2> QED BY <1>3, <2>1, <2>4 DEF Deliver, Store, Code, history
<1>4. CASE Raise(p)
  <2>1. Control'
    BY <1>4, UncountedVerdict, RecordControl DEF Raise, Status
  <2> QED BY <1>4, <2>1 DEF Raise, Store, Code, history
<1>5. CASE Load(p)
  <2> DEFINE j == [job[p] EXCEPT !.snapshot = store]
  <2>1. Equipped(j, "save")
    BY <1>0, <1>5 DEF Load, Equipped, Job, Store
  <2>2. job' = [job EXCEPT ![p] = j] /\ pc' = [pc EXCEPT ![p] = "save"]
    BY <1>5 DEF Load, Goto
  <2> HIDE DEF j
  <2>3. Control'
    BY <2>1, <2>2, StepControl DEF Step
  <2> QED BY <1>5, <2>3 DEF Load, Store, Code, history
<1>6. CASE Save(p)
  <2> DEFINE j == [job[p] EXCEPT !.snapshot = None]
             i == job[p].req.issue
             v == job[p].verdict
             old == job[p].snapshot
  <2>0. i \in Issue /\ v \in Verdict /\ old \in [Issue -> Entry]
    BY <1>0, <1>6, <1>i DEF Save, Equipped
  <2>1. Control'
    <3>1. CASE Goto(p, "release") /\ job' = [job EXCEPT ![p] = j]
      <4>1. Equipped(j, "release")
        BY <1>0, <1>6 DEF Save, Equipped, Job
      <4> HIDE DEF j
      <4> QED BY <3>1, <4>1, StepControl DEF Goto, Step
    <3>2. CASE Finished(p)
      BY <3>2, FinishedControl
    <3>3. (Goto(p, "release") /\ job' = [job EXCEPT ![p] = j]) \/ Finished(p)
      BY <1>6 DEF Save
    <3> QED BY <3>1, <3>2, <3>3
  <2>2. store' \in [Issue -> Entry]
    <3>1. EntryToWrite(v, old[i]) \in Entry
      BY <2>0, EntryWritten
    <3> QED BY <1>6, <2>0, <3>1 DEF Save
  <2>3. streak' \in [Issue -> Nat]
    <3> DEFINE row == IF Fresh(job[p].req) THEN 0 ELSE streak[i]
    <3>1. row \in Nat
      BY <2>0 DEF Store
    <3>2. (CASE v.status = "FAILED_B7" -> row + 1
             [] v.status = "COMPLETED" -> 0
             [] OTHER                  -> row) \in Nat
      BY <3>1
    <3> HIDE DEF row
    <3>3. streak' \in { streak,
             [streak EXCEPT ![i] = CASE v.status = "FAILED_B7" -> row + 1
                                     [] v.status = "COMPLETED" -> 0
                                     [] OTHER                  -> row] }
      BY <1>6 DEF Save, row
    <3> QED BY <3>2, <3>3 DEF Store
  <2>4. last' \in [Issue -> Status \cup {"none"}]
    BY <1>6, <2>0 DEF Save, Store, Verdict
  <2>5. unsaved' \in [Issue -> SUBSET Edit]
    <3>1. {e \in repo.tree : e[1] = i} \in SUBSET Edit
      BY <1>r DEF Repository
    <3> QED BY <1>6, <3>1 DEF Save, Code
  <2> QED BY <1>6, <2>1, <2>2, <2>3, <2>4, <2>5 DEF Save, Store, Code
<1>7. CASE Release(p)
  <2>1. Control'
    BY <1>7, FinishedControl DEF Release
  <2> QED BY <1>7, <2>1 DEF Release, Store, Code, history
<1>8. CASE Crash(p)
  <2>1. Control'
    BY <1>8, FinishedControl DEF Crash
  <2> QED BY <1>8, <2>1 DEF Crash, Store, Code, history
<1> QED BY <1>1, <1>2, <1>3, <1>4, <1>5, <1>6, <1>7, <1>8

\* Every step keeps the types.
LEMMA NextType == TypeInv /\ [Next]_vars => TypeInv'
<1> SUFFICES ASSUME TypeInv, [Next]_vars PROVE TypeInv'
  OBVIOUS
<1>1. Lock!TypeOK'
  <2>1. LP!TypeOK' <=> Lock!TypeOK'
    BY DEF Lock!TypeOK, LP!TypeOK
  <2>2. LP!TypeOK /\ [LP!Next]_(LP!vars) => LP!TypeOK'
    BY LP!NextType, NoneAssumption, PosixUnlinkAssumption
  <2> QED BY LockSteps, SameLock, <2>1, <2>2 DEF TypeInv
<1>2. CASE UNCHANGED vars
  BY <1>1, <1>2 DEF vars, history, TypeInv, Control, Store, Code
<1>3. CASE Next
  BY <1>1, <1>3, WrapperType, PrepareType, OutcomeType DEF Next, Work, TypeInv
<1> QED BY <1>2, <1>3

\* Every variable keeps its type, for any number of processes and issues.
THEOREM TypeCorrect == Spec => []TypeOK
<1>1. TypeInv => TypeOK
  BY DEF TypeInv, TypeOK, Control, Store, Code
<1> QED BY InitType, NextType, <1>1, PTL DEF Spec

-----------------------------------------------------------------------------
\* One execution at a time

\* Whoever is inside the with statement of execute_issue holds the lock.
SectionLocked ==
  \A p \in Process : pc[p] \in {"decide", "prepare", "run", "release"} => Lock!Holds(p)

\* What one process does to the lock takes it from no other.
LEMMA HoldersKeep ==
  ASSUME Lock!TypeOK, NEW p \in Process, NEW q \in Process \ {p}, Lock!Holds(q),
         \/ Lock!OpenLockFile(p) \/ Lock!TakeLock(p) \/ Lock!LockBusy(p)
         \/ Lock!Release(p) \/ Lock!Crash(p) \/ Lock!ForceUnlock
         \/ UNCHANGED lockVars
  PROVE  Lock!Holds(q)'
<1> USE NoneAssumption DEF Lock!TypeOK, Lock!Holds
<1>1. CASE Lock!OpenLockFile(p)
  BY <1>1 DEF Lock!OpenLockFile
<1>2. CASE Lock!TakeLock(p)
  BY <1>2 DEF Lock!TakeLock
<1>3. CASE Lock!LockBusy(p)
  BY <1>3 DEF Lock!LockBusy
<1>4. CASE Lock!Release(p)
  BY <1>4 DEF Lock!Release, Lock!Close
<1>5. CASE Lock!Crash(p)
  BY <1>5 DEF Lock!Crash, Lock!Close
<1>6. CASE Lock!ForceUnlock
  BY <1>6 DEF Lock!ForceUnlock
<1>7. CASE UNCHANGED lockVars
  BY <1>7 DEF lockVars
<1> QED BY <1>1, <1>2, <1>3, <1>4, <1>5, <1>6, <1>7

\* Only with the lock does a process enter the section, and it leaves the section
\* when it gives the lock up.
LEMMA NextSection == TypeInv /\ SectionLocked /\ [Next]_vars => SectionLocked'
<1> SUFFICES ASSUME TypeInv, SectionLocked, [Next]_vars PROVE SectionLocked'
  OBVIOUS
<1> DEFINE In == {"decide", "prepare", "run", "release"}
<1>0. pc \in [Process -> Step] /\ Lock!TypeOK
  BY DEF TypeInv, Control
<1>1. CASE UNCHANGED vars
  BY <1>1 DEF vars, lockVars, SectionLocked, Lock!Holds
<1>2. ASSUME NEW p \in Process, Start(p) \/ Work(p) \/ Crash(p) PROVE SectionLocked'
  <2>1. ASSUME NEW q \in Process \ {p} PROVE pc'[q] = pc[q]
    BY <1>0, <1>2 DEF Work, Start, Forget, Erase, Safeguard, Wipe, Unlock, Context,
      TryLock, Decide, ResumeReady, ResumeStops, FreshReady, FreshStops, EditCode,
      GiveUp, Deliver, Raise, Load, Save, Release, Crash, Goto, Finished, Record
  <2>2. \/ Lock!OpenLockFile(p) \/ Lock!TakeLock(p) \/ Lock!LockBusy(p)
        \/ Lock!Release(p) \/ Lock!Crash(p) \/ Lock!ForceUnlock
        \/ UNCHANGED lockVars
    BY <1>2 DEF Work, Start, Forget, Erase, Safeguard, Wipe, Unlock, Context,
      TryLock, Decide, ResumeReady, ResumeStops, FreshReady, FreshStops, EditCode,
      GiveUp, Deliver, Raise, Load, Save, Release, Crash
  <2>3. ASSUME NEW q \in Process \ {p}, pc'[q] \in In PROVE Lock!Holds(q)'
    BY <1>0, <2>1, <2>2, <2>3, HoldersKeep DEF SectionLocked
  <2>4. pc'[p] \in In => Lock!Holds(p)'
    <3> SUFFICES ASSUME pc'[p] \in In PROVE Lock!Holds(p)'
      OBVIOUS
    <3>1. CASE Start(p)
      <4>1. PICK r \in Request :
              Goto(p, CASE r.kind \in {"reset", "retry"} -> "forget"
                        [] r.kind = "run_task"           -> "safeguard"
                        [] r.kind = "execute"            -> "context")
        BY <3>1 DEF Start
      <4>2. r.kind \in {"execute", "run_task", "reset", "retry"}
        BY EntryPointAssumption DEF Request, EntryPoints
      <4> QED BY <1>0, <4>1, <4>2 DEF Goto
    <3>2. CASE Forget(p) \/ Erase(p) \/ Safeguard(p) \/ Wipe(p)
      BY <1>0, <3>2 DEF Forget, Erase, Safeguard, Wipe, Goto, Finished
    <3>3. CASE Unlock(p) \/ Context(p)
      BY <1>0, <3>3 DEF Unlock, Context, Goto, Finished, Record
    <3>4. CASE TryLock(p)
      <4>1. Lock!TakeLock(p)
        BY <1>0, <3>4 DEF TryLock, Goto, Record
      <4> QED BY <1>0, <4>1, NoneAssumption DEF Lock!TakeLock, Lock!Holds, Lock!TypeOK
    <3>5. CASE Decide(p) \/ ResumeReady(p) \/ FreshReady(p) \/ EditCode(p)
      BY <3>5 DEF Decide, ResumeReady, FreshReady, EditCode, lockVars, SectionLocked,
        Lock!Holds
    <3>6. CASE ResumeStops(p) \/ FreshStops(p) \/ GiveUp(p) \/ Deliver(p) \/ Raise(p)
                 \/ Load(p)
      BY <1>0, <3>6 DEF ResumeStops, FreshStops, GiveUp, Deliver, Raise, Load, Goto,
        Record
    <3>7. CASE Save(p)
      BY <1>0, <3>7 DEF Save, Goto, Finished, lockVars, Lock!Holds
    <3>8. CASE Release(p) \/ Crash(p)
      BY <1>0, <3>8 DEF Release, Crash, Goto, Finished
    <3> QED BY <1>2, <3>1, <3>2, <3>3, <3>4, <3>5, <3>6, <3>7, <3>8 DEF Work
  <2> QED BY <2>3, <2>4 DEF SectionLocked
<1> QED BY <1>1, <1>2 DEF Next

\* No two executions are inside execute_issue's with statement at the same time:
\* for any number of processes, crashes, resets and forced unlocks, where an open
\* file cannot be removed.
THEOREM OneExecutionAtATime ==
  ASSUME PosixUnlink = FALSE
  PROVE  Spec => []OneRunAtATime
<1>1. Init => SectionLocked
  BY DEF Init, SectionLocked
<1>2. Lock!Spec => LP!Spec
  BY SameLock, PTL DEF Lock!Spec, LP!Spec
<1>3. LP!Spec => []LP!MutualExclusion
  BY LP!LockExcludes, NoneAssumption, PosixUnlinkAssumption
<1>4. LP!MutualExclusion /\ SectionLocked => OneRunAtATime
  BY DEF LP!MutualExclusion, LP!Holds, Lock!Holds, SectionLocked, OneRunAtATime,
    InSection
<1> QED BY <1>1, <1>2, <1>3, <1>4, InitType, NextType, NextSection,
           ExecutionsUseTheLock, PTL DEF Spec

-----------------------------------------------------------------------------
\* No edit is lost

\* Where an edit may be: what Kept says of one edit.
LEMMA KeptEdit ==
  ASSUME NEW r \in Repository, NEW e
  PROVE  e \in Kept(r) <=> \/ e \in r.tree \/ e \in r.shelf
                           \/ \E b \in Branch : e \in r.commits[b]
                           \/ \E i \in Issue : e \in r.remote[i]
<1>1. e \in UNION {r.commits[b] : b \in Branch} <=> \E b \in Branch : e \in r.commits[b]
  BY Zenon
<1>2. e \in UNION {r.remote[i] : i \in Issue} <=> \E i \in Issue : e \in r.remote[i]
  BY Zenon
<1> QED BY <1>1, <1>2, Zenon DEF Kept

\* A branch that does not exist holds nothing, and what was pushed from a branch is
\* still on it, on a backup branch, or in base, unless it is in D, what was ordered to
\* be thrown away.
Tidy(r, D) ==
  /\ \A i \in Issue : i \notin r.exists => r.commits[i] = {}
  /\ \A i \in Issue :
       r.remote[i] \subseteq r.commits[i] \cup r.shelf \cup r.commits["base"] \cup D

\* The branch checked out exists.
HeadExists(r) == r.head = "base" \/ r.head \in r.exists

\* s keeps all edits of r but those of D.
Keeps(r, s, D) == \A e : e \in Kept(r) => e \in Kept(s) \cup D

\* Stashing, WIP commits, rebasing, pushing and checking out base lose nothing
\* (execute_issue, done_node).
LEMMA SafeOps ==
  ASSUME NEW D, NEW r \in Repository, Tidy(r, D), HeadExists(r), NEW i \in Issue
  PROVE  /\ Tidy(Stash(r), D) /\ HeadExists(Stash(r)) /\ Keeps(r, Stash(r), D)
         /\ Tidy(Commit(r), D) /\ HeadExists(Commit(r)) /\ Keeps(r, Commit(r), D)
         /\ Tidy(Switch(r, "base"), D) /\ HeadExists(Switch(r, "base"))
         /\ Keeps(r, Switch(r, "base"), D)
         /\ i \in r.exists => /\ Tidy(Rebase(r, i), D) /\ HeadExists(Rebase(r, i))
                              /\ Keeps(r, Rebase(r, i), D)
                              /\ Tidy(Push(r, i), D) /\ HeadExists(Push(r, i))
                              /\ Keeps(r, Push(r, i), D)
<1> USE IssueAssumption DEF Branch
<1>1. Tidy(Stash(r), D) /\ HeadExists(Stash(r)) /\ Keeps(r, Stash(r), D)
  <2>1. Stash(r) \in Repository
    BY DEF Stash, Repository
  <2>2. Tidy(Stash(r), D) /\ HeadExists(Stash(r))
    BY DEF Stash, Repository, Tidy, HeadExists
  <2>3. Keeps(r, Stash(r), D)
    BY <2>1, KeptEdit DEF Keeps, Stash, Repository
  <2> QED BY <2>2, <2>3
<1>2. Tidy(Commit(r), D) /\ HeadExists(Commit(r)) /\ Keeps(r, Commit(r), D)
  <2>1. Commit(r) \in Repository
    BY DEF Commit, Repository
  <2>2. Tidy(Commit(r), D) /\ HeadExists(Commit(r))
    BY DEF Commit, Repository, Tidy, HeadExists
  <2>3. Keeps(r, Commit(r), D)
    BY <2>1, KeptEdit DEF Keeps, Commit, Repository
  <2> QED BY <2>2, <2>3
<1>3. /\ Tidy(Switch(r, "base"), D) /\ HeadExists(Switch(r, "base"))
      /\ Keeps(r, Switch(r, "base"), D)
  <2>1. Switch(r, "base") \in Repository
    BY DEF Switch, Repository
  <2>2. Tidy(Switch(r, "base"), D) /\ HeadExists(Switch(r, "base"))
    BY DEF Switch, Repository, Tidy, HeadExists
  <2>3. Keeps(r, Switch(r, "base"), D)
    BY <2>1, KeptEdit DEF Keeps, Switch, Repository
  <2> QED BY <2>2, <2>3
<1>4. ASSUME i \in r.exists
      PROVE  /\ Tidy(Rebase(r, i), D) /\ HeadExists(Rebase(r, i))
             /\ Keeps(r, Rebase(r, i), D)
  <2>1. Rebase(r, i) \in Repository
    BY DEF Rebase, Repository
  <2>2. Tidy(Rebase(r, i), D) /\ HeadExists(Rebase(r, i))
    BY <1>4 DEF Rebase, Repository, Tidy, HeadExists
  <2>3. Keeps(r, Rebase(r, i), D)
    BY <2>1, KeptEdit DEF Keeps, Rebase, Repository
  <2> QED BY <2>2, <2>3
<1>5. ASSUME i \in r.exists
      PROVE  Tidy(Push(r, i), D) /\ HeadExists(Push(r, i)) /\ Keeps(r, Push(r, i), D)
  <2>1. Push(r, i) \in Repository
    BY DEF Push, Repository
  <2>2. Tidy(Push(r, i), D) /\ HeadExists(Push(r, i))
    BY DEF Push, Repository, Tidy, HeadExists
  <2>3. ASSUME NEW e \in Kept(r) PROVE e \in Kept(Push(r, i)) \cup D
    <3>1. \/ e \in r.tree \/ e \in r.shelf \/ \E b \in Branch : e \in r.commits[b]
          \/ \E k \in Issue : e \in r.remote[k]
      BY <2>3, KeptEdit
    <3>2. \/ e \in r.tree \/ e \in r.shelf \/ \E b \in Branch : e \in r.commits[b]
          \/ e \in D
      BY <3>1 DEF Tidy
    <3>3. /\ Push(r, i).tree = r.tree /\ Push(r, i).shelf = r.shelf
          /\ Push(r, i).commits = r.commits
      BY DEF Push, Repository
    <3> QED BY <2>1, <3>2, <3>3, KeptEdit
  <2> QED BY <2>2, <2>3 DEF Keeps
<1> QED BY <1>1, <1>2, <1>3, <1>4, <1>5

\* The branch to go on with loses nothing either, nor does a new one in the place
\* of a retired one, nor the retirement once another branch is checked out.
LEMMA SafeBranchOps ==
  ASSUME NEW D, NEW r \in Repository, Tidy(r, D), HeadExists(r), NEW i \in Issue
  PROVE  /\ Tidy(WorkBranch(r, i), D) /\ HeadExists(WorkBranch(r, i))
         /\ Keeps(r, WorkBranch(r, i), D) /\ i \in WorkBranch(r, i).exists
         /\ Tidy(Retire(r, i), D) /\ Keeps(r, Retire(r, i), D)
         /\ r.head # i => HeadExists(Retire(r, i))
         /\ i \notin Retire(r, i).exists
<1> USE IssueAssumption DEF Branch
<1>1. /\ Tidy(WorkBranch(r, i), D) /\ HeadExists(WorkBranch(r, i))
      /\ Keeps(r, WorkBranch(r, i), D) /\ i \in WorkBranch(r, i).exists
  <2>0. WorkBranch(r, i) \in Repository
    BY BranchOps
  <2>1. CASE i \in r.exists
    <3>1. WorkBranch(r, i) = [r EXCEPT !.head = i]
      BY <2>1 DEF WorkBranch, Switch
    <3>2. /\ Tidy(WorkBranch(r, i), D) /\ HeadExists(WorkBranch(r, i))
          /\ i \in WorkBranch(r, i).exists
      BY <2>1, <3>1 DEF Repository, Tidy, HeadExists
    <3>3. Keeps(r, WorkBranch(r, i), D)
      BY <2>0, <3>1, KeptEdit DEF Keeps, Repository
    <3> QED BY <3>2, <3>3
  <2>2. CASE i \notin r.exists
    <3> DEFINE edits == IF r.remote[i] # {} THEN r.remote[i] ELSE r.commits["base"]
               w == WorkBranch(r, i)
    <3>1. w = [r EXCEPT !.exists = @ \cup {i}, !.head = i, !.commits[i] = edits]
      BY <2>2 DEF WorkBranch, CreateFrom
    <3>2. w.exists = r.exists \cup {i} /\ w.head = i /\ w.commits[i] = edits
      BY <3>1 DEF Repository
    <3>3. \A b \in Branch \ {i} : w.commits[b] = r.commits[b]
      BY <3>1 DEF Repository
    <3>4. w.tree = r.tree /\ w.shelf = r.shelf /\ w.remote = r.remote
      BY <3>1 DEF Repository
    <3>5. r.commits[i] = {}
      BY <2>2 DEF Tidy
    <3> HIDE DEF w
    <3>6. Tidy(w, D) /\ HeadExists(w) /\ i \in w.exists
      BY <3>2, <3>3, <3>4, <3>5 DEF Tidy, HeadExists
    <3>7. ASSUME NEW e \in Kept(r) PROVE e \in Kept(w)
      BY <2>0, <3>3, <3>4, <3>5, <3>7, KeptEdit DEF w
    <3> QED BY <3>6, <3>7 DEF Keeps, w
  <2> QED BY <2>1, <2>2
<1>2. /\ Tidy(Retire(r, i), D) /\ Keeps(r, Retire(r, i), D)
      /\ r.head # i => HeadExists(Retire(r, i))
      /\ i \notin Retire(r, i).exists
  <2> DEFINE w == Retire(r, i)
  <2>0. w \in Repository
    BY BranchOps
  <2>1. /\ w.exists = r.exists \ {i} /\ w.head = r.head
        /\ w.tree = r.tree /\ w.remote = r.remote
        /\ w.commits = [r.commits EXCEPT ![i] = {}]
    BY DEF Retire, DropBranch, Repository
  <2>2. w.shelf = IF Unmerged(r, i) THEN r.shelf \cup r.commits[i] ELSE r.shelf
    BY DEF Retire, DropBranch, Repository
  <2>3. r.commits[i] \subseteq w.shelf \cup w.commits["base"]
    BY <2>1, <2>2 DEF Unmerged, Tidy, Repository
  <2>4. r.shelf \subseteq w.shelf /\ w.commits["base"] = r.commits["base"]
    BY <2>1, <2>2 DEF Repository
  <2>5. \A b \in Branch \ {i} : w.commits[b] = r.commits[b]
    BY <2>1 DEF Repository
  <2>6. w.commits[i] = {}
    BY <2>1 DEF Repository
  <2> HIDE DEF w
  <2>7. Tidy(w, D)
    BY <2>1, <2>3, <2>4, <2>5, <2>6 DEF Tidy
  <2>8. ASSUME NEW e \in Kept(r) PROVE e \in Kept(w)
    <3>1. \/ e \in r.tree \/ e \in r.shelf \/ \E b \in Branch : e \in r.commits[b]
          \/ \E k \in Issue : e \in r.remote[k]
      BY <2>8, KeptEdit
    <3> QED BY <2>0, <2>1, <2>3, <2>4, <2>5, <3>1, KeptEdit
  <2>9. (r.head # i => HeadExists(w)) /\ i \notin w.exists
    BY <2>1 DEF HeadExists
  <2> QED BY <2>7, <2>8, <2>9 DEF Keeps, w
<1> QED BY <1>1, <1>2

\* A new work branch in the place of none loses nothing (_create_branch_strict).
LEMMA SafeCreation ==
  ASSUME NEW D, NEW r \in Repository, Tidy(r, D), NEW i \in Issue, i \notin r.exists,
         NEW edits \in SUBSET Edit
  PROVE  LET s == CreateFrom(r, i, edits)
         IN  Tidy(s, D) /\ HeadExists(s) /\ Keeps(r, s, D)
<1> USE IssueAssumption DEF Branch
<1> DEFINE s == CreateFrom(r, i, edits)
<1>1. s \in Repository
  BY DEF CreateFrom, Repository
<1>2. /\ s.exists = r.exists \cup {i} /\ s.head = i /\ s.tree = r.tree
      /\ s.shelf = r.shelf /\ s.remote = r.remote
      /\ \A b \in Branch \ {i} : s.commits[b] = r.commits[b]
  BY DEF CreateFrom, Repository
<1>3. r.commits[i] = {}
  BY DEF Tidy
<1> HIDE DEF s
<1>4. Tidy(s, D) /\ HeadExists(s)
  BY <1>2, <1>3 DEF Tidy, HeadExists
<1>5. ASSUME NEW e \in Kept(r) PROVE e \in Kept(s)
  BY <1>1, <1>2, <1>3, <1>5, KeptEdit
<1> QED BY <1>4, <1>5 DEF Keeps, s

\* What the executions of execute_issue keep true of the repository.
CodeSafe == Tidy(repo, discarded) /\ HeadExists(repo) /\ EditsSurvive

\* A step that keeps every edit, and discards none, keeps CodeSafe.
LEMMA KeepingIsSafe ==
  ASSUME EditsSurvive, Tidy(repo, discarded)', HeadExists(repo)',
         Keeps(repo, repo', discarded), UNCHANGED <<made, discarded>>
  PROVE  CodeSafe'
BY DEF CodeSafe, EditsSurvive, Keeps

\* Preparing a run, in either mode and wherever it stops, keeps every edit.
LEMMA PreparationIsSafe ==
  ASSUME TypeInv, CodeSafe, NEW p \in Process,
         ResumeReady(p) \/ ResumeStops(p) \/ FreshReady(p) \/ FreshStops(p)
  PROVE  CodeSafe'
<1> DEFINE i == job[p].req.issue
<1>0. repo \in Repository /\ i \in Issue
  BY DEF TypeInv, Control, Code, Equipped, Request, ResumeReady, ResumeStops, FreshReady,
    FreshStops
<1>1. UNCHANGED <<made, discarded>>
  BY DEF ResumeReady, ResumeStops, FreshReady, FreshStops, history
<1>2. Tidy(repo, discarded) /\ HeadExists(repo) /\ EditsSurvive
  BY DEF CodeSafe
<1> SUFFICES Tidy(repo', discarded) /\ HeadExists(repo') /\ Keeps(repo, repo', discarded)
  BY <1>1, <1>2, KeepingIsSafe DEF Tidy, HeadExists
<1> HIDE DEF i
<1>3. Keeps(repo, repo, discarded)
  BY DEF Keeps
<1>4. /\ Commit(repo) \in Repository /\ Stash(repo) \in Repository
      /\ repo.commits["base"] \in SUBSET Edit
  BY <1>0, RepositoryOps, "base" \in Branch, {} \in SUBSET Edit DEF Branch, Repository
<1>5. /\ Tidy(Commit(repo), discarded) /\ HeadExists(Commit(repo))
      /\ Keeps(repo, Commit(repo), discarded)
      /\ Tidy(Stash(repo), discarded) /\ HeadExists(Stash(repo))
      /\ Keeps(repo, Stash(repo), discarded)
  BY <1>0, <1>2, SafeOps
<1> DEFINE work == WorkBranch(Commit(repo), i)
<1>6. work \in Repository
  BY <1>0, <1>4, BranchOps
<1>7. /\ Tidy(work, discarded) /\ HeadExists(work) /\ i \in work.exists
      /\ Keeps(repo, work, discarded)
  BY <1>0, <1>4, <1>5, SafeBranchOps DEF Keeps
<1> HIDE DEF work
<1>8. CASE ResumeReady(p)
  <2>1. repo' = Rebase(work, i) \/ repo' = Commit(repo)
    BY <1>8 DEF ResumeReady, i, work
  <2>2. /\ Tidy(Rebase(work, i), discarded) /\ HeadExists(Rebase(work, i))
        /\ Keeps(work, Rebase(work, i), discarded)
    BY <1>0, <1>6, <1>7, SafeOps
  <2>3. Keeps(repo, Rebase(work, i), discarded)
    BY <1>7, <2>2 DEF Keeps
  <2> QED BY <1>5, <2>1, <2>2, <2>3
<1>9. CASE ResumeStops(p)
  <2>1. repo' = repo \/ repo' = work
    BY <1>9 DEF ResumeStops, i, work
  <2> QED BY <1>2, <1>3, <1>7, <2>1
<1>10. CASE FreshReady(p)
  <2> DEFINE bare == Retire(Stash(repo), i)
  <2>1. repo' = CreateFrom(bare, i, repo.commits["base"])
    BY <1>10 DEF FreshReady, i
  <2>2. bare \in Repository /\ Tidy(bare, discarded) /\ i \notin bare.exists
    BY <1>0, <1>4, <1>5, BranchOps, SafeBranchOps
  <2>3. Keeps(repo, bare, discarded)
    BY <1>0, <1>4, <1>5, SafeBranchOps DEF Keeps
  <2> HIDE DEF bare
  <2>4. Tidy(repo', discarded) /\ HeadExists(repo') /\ Keeps(bare, repo', discarded)
    BY <1>0, <1>4, <2>1, <2>2, SafeCreation
  <2> QED BY <2>3, <2>4 DEF Keeps
<1>11. CASE FreshStops(p)
  <2> DEFINE base == Switch(Stash(repo), "base")
             bare == Retire(base, i)
  <2>1. repo' = repo \/ repo' \in {Stash(repo), base, bare}
    BY <1>11 DEF FreshStops, i
  <2>2. base \in Repository /\ base.head = "base"
    BY <1>4 DEF Switch, Repository, Branch
  <2>3. Tidy(base, discarded) /\ HeadExists(base) /\ Keeps(repo, base, discarded)
    BY <1>0, <1>4, <1>5, SafeOps DEF Keeps
  <2> HIDE DEF base
  <2>4. base.head # i
    BY <1>0, <2>2, IssueAssumption
  <2>5. Tidy(bare, discarded) /\ HeadExists(bare) /\ Keeps(repo, bare, discarded)
    BY <1>0, <2>2, <2>3, <2>4, SafeBranchOps DEF Keeps
  <2> HIDE DEF bare
  <2> QED BY <1>2, <1>3, <1>5, <2>1, <2>3, <2>5
<1> QED BY <1>8, <1>9, <1>10, <1>11

\* So do the coder's edits and the delivery (done_node).
LEMMA RunIsSafe ==
  ASSUME TypeInv, CodeSafe, NEW p \in Process, EditCode(p) \/ Deliver(p)
  PROVE  CodeSafe'
<1> DEFINE i == job[p].req.issue
           e == <<i, job[p].number>>
<1>0. repo \in Repository /\ repo' \in Repository /\ i \in Issue
  <2>1. [Next]_vars
    BY DEF Next, Work
  <2> QED BY <2>1, NextType DEF TypeInv, Control, Code, Equipped, Request, EditCode, Deliver
<1>2. Tidy(repo, discarded) /\ HeadExists(repo) /\ EditsSurvive
  BY DEF CodeSafe
<1>3. CASE EditCode(p)
  <2>1. /\ repo' = [repo EXCEPT !.tree = @ \cup {e}]
        /\ made' = made \cup {e} /\ discarded' = discarded
    BY <1>3 DEF EditCode
  <2>2. /\ repo'.tree = repo.tree \cup {e} /\ repo'.shelf = repo.shelf
        /\ repo'.commits = repo.commits /\ repo'.remote = repo.remote
        /\ repo'.exists = repo.exists /\ repo'.head = repo.head
    BY <1>0, <2>1 DEF Repository
  <2> HIDE DEF e
  <2>3. Tidy(repo, discarded)' /\ HeadExists(repo)'
    BY <1>2, <2>1, <2>2 DEF Tidy, HeadExists
  <2>4. e \in Kept(repo') /\ \A d : d \in Kept(repo) => d \in Kept(repo')
    BY <1>0, <2>2, KeptEdit
  <2> QED BY <1>2, <2>1, <2>3, <2>4 DEF CodeSafe, EditsSurvive
<1>4. CASE Deliver(p)
  <2>1. UNCHANGED <<made, discarded>>
    BY <1>4 DEF Deliver, history
  <2> SUFFICES Tidy(repo', discarded) /\ HeadExists(repo') /\ Keeps(repo, repo', discarded)
    BY <1>2, <2>1, KeepingIsSafe DEF Tidy, HeadExists
  <2> DEFINE committed == Commit(repo)
  <2>2. /\ Tidy(committed, discarded) /\ HeadExists(committed)
        /\ Keeps(repo, committed, discarded)
        /\ committed.exists = repo.exists
    BY <1>0, <1>2, SafeOps DEF Commit, Repository
  <2>3. committed \in Repository
    BY <1>0, RepositoryOps, "base" \in Branch, {} \in SUBSET Edit DEF Branch
  <2>4. \/ i \in repo.exists /\ repo' = Push(committed, i)
        \/ repo' \in {repo, committed}
    BY <1>4 DEF Deliver
  <2> HIDE DEF committed, i
  <2>5. CASE i \in repo.exists /\ repo' = Push(committed, i)
    BY <1>0, <2>2, <2>3, <2>5, SafeOps DEF Keeps
  <2>6. CASE repo' \in {repo, committed}
    BY <1>2, <2>2, <2>6 DEF Keeps
  <2> QED BY <2>4, <2>5, <2>6
<1> QED BY <1>3, <1>4

\* No process is in run_task.py's own steps when nobody uses it.
ExecuteOnly ==
  \A p \in Process : pc[p] \notin {"forget", "erase", "safeguard", "wipe", "unlock"}

\* Every step keeps CodeSafe if run_task.py is not used.
LEMMA NextCodeSafe ==
  ASSUME EntryPoint \subseteq {"execute"}
  PROVE  TypeInv /\ ExecuteOnly /\ CodeSafe /\ [Next]_vars => (ExecuteOnly /\ CodeSafe)'
<1> SUFFICES ASSUME TypeInv, ExecuteOnly, CodeSafe, [Next]_vars
             PROVE  (ExecuteOnly /\ CodeSafe)'
  OBVIOUS
<1>0. pc \in [Process -> Step]
  BY DEF TypeInv, Control
<1>1. CASE UNCHANGED vars
  BY <1>1 DEF vars, history, ExecuteOnly, CodeSafe, EditsSurvive, Tidy, HeadExists, Kept
<1>2. ASSUME NEW p \in Process, Start(p) \/ Work(p) \/ Crash(p)
      PROVE  (ExecuteOnly /\ CodeSafe)'
  <2>1. ~(Forget(p) \/ Erase(p) \/ Safeguard(p) \/ Wipe(p) \/ Unlock(p))
    BY DEF ExecuteOnly, Forget, Erase, Safeguard, Wipe, Unlock
  <2>2. CASE Start(p)
    <3>1. PICK r \in Request :
            Goto(p, CASE r.kind \in {"reset", "retry"} -> "forget"
                      [] r.kind = "run_task"           -> "safeguard"
                      [] r.kind = "execute"            -> "context")
      BY <2>2 DEF Start
    <3>2. r.kind = "execute"
      BY DEF Request
    <3>3. ExecuteOnly'
      BY <1>0, <3>1, <3>2 DEF Goto, ExecuteOnly
    <3> QED BY <2>2, <3>3 DEF Start, history, CodeSafe, EditsSurvive
  <2>3. CASE \/ Context(p) \/ TryLock(p) \/ Decide(p) \/ GiveUp(p) \/ Raise(p) \/ Load(p)
             \/ Save(p) \/ Release(p) \/ Crash(p)
    <3>1. ExecuteOnly'
      BY <1>0, <2>3 DEF ExecuteOnly, Context, TryLock, Decide, GiveUp, Raise, Load, Save,
        Release, Crash, Goto, Finished, Record
    <3>2. UNCHANGED <<repo, made, discarded>>
      BY <2>3 DEF Context, TryLock, Decide, GiveUp, Raise, Load, Save, Release, Crash, history
    <3> QED BY <3>1, <3>2 DEF CodeSafe, EditsSurvive
  <2>4. CASE ResumeReady(p) \/ ResumeStops(p) \/ FreshReady(p) \/ FreshStops(p)
    <3>1. ExecuteOnly'
      BY <1>0, <2>4 DEF ExecuteOnly, ResumeReady, ResumeStops, FreshReady, FreshStops, Goto,
        Record
    <3> QED BY <2>4, <3>1, PreparationIsSafe
  <2>5. CASE EditCode(p) \/ Deliver(p)
    <3>1. ExecuteOnly'
      BY <1>0, <2>5 DEF ExecuteOnly, EditCode, Deliver, Record, Goto
    <3> QED BY <2>5, <3>1, RunIsSafe
  <2> QED BY <1>2, <2>1, <2>2, <2>3, <2>4, <2>5 DEF Work
<1> QED BY <1>1, <1>2 DEF Next

\* No edit is lost by any number of executions that go through execute_issue only,
\* whatever options they have, however git fails and wherever they die.  That one
\* preparation is not interleaved with another is the lock's doing: a preparation is
\* one step of the model because of OneExecutionAtATime.
THEOREM NoEditIsLost ==
  ASSUME EntryPoint \subseteq {"execute"}
  PROVE  Spec => []EditsSurvive
<1>1. Init => ExecuteOnly /\ CodeSafe
  BY DEF Init, ExecuteOnly, CodeSafe, EditsSurvive, Tidy, HeadExists, EmptyRepository,
    Branch
<1>2. CodeSafe => EditsSurvive
  BY DEF CodeSafe
<1> QED BY <1>1, <1>2, InitType, NextType, NextCodeSafe, PTL DEF Spec

-----------------------------------------------------------------------------
\* The count of failed runs, when one process at a time works on the project

\* Executions one after the other, as run_task.py by hand or one nightly worker
\* makes them.  With two processes the count is not true: see lost_update in
\* TaskExecutionClaims.
OneProcess == \A p, q \in Process : p = q

\* What p read of state.json, and still uses, is what is there.
OwnView(p) ==
  /\ pc[p] \in {"erase", "save"} => job[p].snapshot = store
  /\ pc[p] \in {"prepare", "run"} => job[p].seen = store[job[p].req.issue]

\* The count p is to record continues the row; an outcome without a count is none
\* that is resumed from.
CountDue(p) ==
  pc[p] \in {"load", "save"} =>
    IF job[p].verdict.count
    THEN job[p].verdict.b7 =
           NextConsecutiveB7(IF Fresh(job[p].req) THEN 0 ELSE streak[job[p].req.issue],
                             job[p].verdict.status)
    ELSE job[p].verdict.status \notin Resumable

\* A run that was resumed automatically has passed the guard of Decide.
GuardPassed(p) ==
  pc[p] = "prepare" /\ job[p].resuming /\ Automatic(job[p].req) =>
    /\ job[p].seen.status \in Resumable
    /\ ~Blocked(job[p].req, job[p].seen)

\* A status that is resumed from is how the last graph run ended.  Statuses without
\* a count replace it, but none of them is resumed from.
StatusIsLast ==
  \A i \in Issue : store[i].status \in Resumable => last[i] = store[i].status

Recorded  == CountIsTrue /\ StatusIsLast
Counts(p) == OwnView(p) /\ CountDue(p) /\ GuardPassed(p)
Counted   == Recorded /\ \A p \in Process : Counts(p)

\* What the graph's end leaves to be recorded continues the row (the call of
\* next_consecutive_b7 at the end of execute_issue).
LEMMA EndedContinues ==
  ASSUME CountIsTrue, NEW p \in Process, OwnView(p), pc[p] = "run",
         job[p].req.issue \in Issue, NEW s \in Status
  PROVE  /\ Ended(p, s).count
         /\ Ended(p, s).status = s
         /\ Ended(p, s).b7 =
              NextConsecutiveB7(IF Fresh(job[p].req) THEN 0 ELSE streak[job[p].req.issue], s)
BY DEF Ended, OwnView, CountIsTrue

\* Deciding what to record keeps Counts (_fail_system, the end of execute_issue).
LEMMA RecordCounts ==
  ASSUME TypeInv, NEW p \in Process, NEW v \in Verdict, Record(p, v), UNCHANGED streak,
         IF v.count
         THEN v.b7 = NextConsecutiveB7(IF Fresh(job[p].req) THEN 0
                                       ELSE streak[job[p].req.issue], v.status)
         ELSE v.status \notin Resumable
  PROVE  Counts(p)'
<1>1. pc'[p] = "load" /\ job'[p].verdict = v /\ job'[p].req = job[p].req
  BY DEF Record, Goto, TypeInv, Control, Job
<1> QED BY <1>1 DEF Counts, OwnView, CountDue, GuardPassed

\* A process at rest, or about to release the lock, owes nothing.
LEMMA NothingDue ==
  ASSUME NEW p \in Process,
         pc'[p] \notin {"erase", "prepare", "run", "load", "save"}
  PROVE  Counts(p)'
BY DEF Counts, OwnView, CountDue, GuardPassed

\* The entry that is written carries on the row and, if it can be resumed from, the
\* end of the run (next_consecutive_b7, update_task_state).
LEMMA SaveCounts ==
  ASSUME TypeInv, Counted, NEW p \in Process, Save(p)
  PROVE  Recorded'
<1> DEFINE i == job[p].req.issue
           v == job[p].verdict
           row == IF Fresh(job[p].req) THEN 0 ELSE streak[i]
<1>1. v \in Verdict /\ i \in Issue
  BY DEF TypeInv, Control, Equipped, Save, Request
<1>2. store \in [Issue -> Entry] /\ streak \in [Issue -> Nat]
      /\ last \in [Issue -> Status \cup {"none"}]
  BY DEF TypeInv, Store
<1>3. store' = [store EXCEPT ![i] = EntryToWrite(v, store[i])]
  BY DEF Save, Counted, Counts, OwnView
<1>4. \A k \in Issue : store[k].b7 = streak[k]
  BY DEF Counted, Recorded, CountIsTrue
<1>5. \A k \in Issue : store[k].status \in Resumable => last[k] = store[k].status
  BY DEF Counted, Recorded, StatusIsLast
<1>6. IF v.count THEN v.b7 = NextConsecutiveB7(row, v.status)
                 ELSE v.status \notin Resumable
  BY DEF Save, Counted, Counts, CountDue
<1>7. CASE v.count
  <2>1. streak' = [streak EXCEPT ![i] = CASE v.status = "FAILED_B7" -> row + 1
                                          [] v.status = "COMPLETED" -> 0
                                          [] OTHER                  -> row]
        /\ last' = [last EXCEPT ![i] = v.status]
    BY <1>7 DEF Save
  <2>2. streak'[i] = v.b7 /\ last'[i] = v.status
    BY <1>1, <1>2, <1>6, <1>7, <2>1 DEF NextConsecutiveB7
  <2>3. store'[i].b7 = v.b7 /\ store'[i].status = v.status
    BY <1>1, <1>2, <1>3, <1>7 DEF EntryToWrite
  <2>4. ASSUME NEW k \in Issue, k # i
        PROVE  store'[k] = store[k] /\ streak'[k] = streak[k] /\ last'[k] = last[k]
    BY <1>2, <1>3, <2>1, <2>4
  <2> QED BY <1>4, <1>5, <2>2, <2>3, <2>4 DEF Recorded, CountIsTrue, StatusIsLast
<1>8. CASE ~v.count
  <2>1. UNCHANGED <<streak, last>>
    BY <1>8 DEF Save
  <2>2. store'[i].b7 = store[i].b7 /\ store'[i].status \notin Resumable
    BY <1>1, <1>2, <1>3, <1>6, <1>8 DEF EntryToWrite
  <2>3. ASSUME NEW k \in Issue, k # i PROVE store'[k] = store[k]
    BY <1>2, <1>3, <2>3
  <2> QED BY <1>4, <1>5, <2>1, <2>2, <2>3 DEF Recorded, CountIsTrue, StatusIsLast
<1> QED BY <1>7, <1>8

\* Every step of the process keeps Recorded.
LEMMA NextRecorded ==
  ASSUME TypeInv, Counted, NEW p \in Process, Start(p) \/ Work(p) \/ Crash(p)
  PROVE  Recorded'
<1>1. CASE Save(p)
  BY <1>1, SaveCounts
<1>2. CASE Erase(p)
  <2> DEFINE i == job[p].req.issue
  <2>1. i \in Issue
    BY <1>2 DEF TypeInv, Control, Equipped, Erase, Request
  <2>2. store \in [Issue -> Entry] /\ streak \in [Issue -> Nat]
        /\ last \in [Issue -> Status \cup {"none"}]
    BY DEF TypeInv, Store
  <2>3. job[p].snapshot = store
    BY <1>2 DEF Erase, Counted, Counts, OwnView
  <2>4. /\ store' = IF store[i] = NoEntry THEN store ELSE [store EXCEPT ![i] = NoEntry]
        /\ streak' = [streak EXCEPT ![i] = 0]
        /\ last' = [last EXCEPT ![i] = "none"]
    BY <1>2, <2>3 DEF Erase
  <2>5. store'[i] = NoEntry /\ streak'[i] = 0
    BY <2>1, <2>2, <2>4
  <2>6. ASSUME NEW k \in Issue, k # i
        PROVE  store'[k] = store[k] /\ streak'[k] = streak[k] /\ last'[k] = last[k]
    BY <2>2, <2>4, <2>6
  <2> QED
    BY <2>5, <2>6 DEF Counted, Recorded, CountIsTrue, StatusIsLast, NoEntry, Resumable
<1>3. CASE ~Save(p) /\ ~Erase(p)
  <2>1. UNCHANGED <<store, streak, last>>
    BY <1>3 DEF Work, Start, Forget, Safeguard, Wipe, Unlock, Context, TryLock, Decide,
      ResumeReady, ResumeStops, FreshReady, FreshStops, EditCode, GiveUp, Deliver, Raise,
      Load, Release, Crash, history
  <2> QED BY <2>1 DEF Counted, Recorded, CountIsTrue, StatusIsLast
<1> QED BY <1>1, <1>2, <1>3

\* Every step of the process keeps Counts.
LEMMA NextCounts ==
  ASSUME TypeInv, Counted, NEW p \in Process, Start(p) \/ Work(p) \/ Crash(p)
  PROVE  Counts(p)'
<1>0. /\ pc \in [Process -> Step] /\ job \in [Process -> Job]
      /\ pc[p] # "idle" => job[p].req \in Request /\ job[p].req.issue \in Issue
  BY DEF TypeInv, Control, Equipped, Request
<1>1. CASE Start(p)
  <2>1. PICK r \in Request :
          Goto(p, CASE r.kind \in {"reset", "retry"} -> "forget"
                    [] r.kind = "run_task"           -> "safeguard"
                    [] r.kind = "execute"            -> "context")
    BY <1>1 DEF Start
  <2>2. r.kind \in {"execute", "run_task", "reset", "retry"}
    BY EntryPointAssumption DEF Request, EntryPoints
  <2>3. pc'[p] \in {"forget", "safeguard", "context"}
    BY <1>0, <2>1, <2>2 DEF Goto
  <2> QED BY <2>3, NothingDue
<1>2. CASE Forget(p)
  <2>1. pc'[p] = "erase" /\ job'[p].snapshot = store /\ UNCHANGED store
    BY <1>0, <1>2 DEF Forget, Goto, Job
  <2> QED BY <2>1 DEF Counts, OwnView, CountDue, GuardPassed
<1>3. CASE Erase(p) \/ Safeguard(p) \/ Wipe(p) \/ Unlock(p) \/ Release(p) \/ Crash(p)
            \/ Save(p)
  <2>1. pc'[p] \in {"safeguard", "wipe", "idle", "unlock", "context", "release"}
    BY <1>0, <1>3 DEF Erase, Safeguard, Wipe, Unlock, Release, Crash, Save, Goto, Finished
  <2> QED BY <2>1, NothingDue
<1>4. CASE Context(p) \/ TryLock(p)
  <2>1. CASE Record(p, Uncounted("FAILED_SYSTEM")) \/ Record(p, Uncounted("SKIPPED_LOCKED"))
    <3>1. \A s \in {"FAILED_SYSTEM", "SKIPPED_LOCKED"} :
            /\ Uncounted(s) \in Verdict
            /\ ~Uncounted(s).count
            /\ Uncounted(s).status \notin Resumable
      BY DEF Uncounted, Verdict, Status, Resumable
    <3>2. UNCHANGED streak
      BY <1>4 DEF Context, TryLock, history
    <3> QED BY <2>1, <3>1, <3>2, RecordCounts
  <2>2. CASE pc'[p] \in {"lock", "decide"}
    BY <2>2, NothingDue
  <2> QED BY <1>0, <1>4, <2>1, <2>2 DEF Context, TryLock, Goto
<1>5. CASE Decide(p)
  <2> DEFINE r == job[p].req
             e == store[r.issue]
  <2>1. CASE pc'[p] = "release"
    BY <2>1, NothingDue
  <2>2. CASE pc'[p] # "release"
    <3>1. /\ ~Blocked(r, e)
          /\ pc'[p] = "prepare"
          /\ job'[p].seen = e
          /\ job'[p].req = r
          /\ job'[p].resuming =
               ("resume" \in r.flags \/ (~Fresh(r) /\ e.status \in Resumable))
          /\ UNCHANGED store
      BY <1>0, <1>5, <2>2 DEF Decide, Goto, Job
    <3>2. Automatic(r) /\ job'[p].resuming => e.status \in Resumable
      BY <3>1 DEF Automatic
    <3>3. OwnView(p)' /\ CountDue(p)'
      BY <3>1 DEF OwnView, CountDue
    <3>4. GuardPassed(p)'
      BY <3>1, <3>2 DEF GuardPassed
    <3> QED BY <3>3, <3>4 DEF Counts
  <2> QED BY <2>1, <2>2
<1>6. CASE ResumeReady(p) \/ FreshReady(p) \/ EditCode(p)
  <2>1. pc'[p] = "run" /\ UNCHANGED <<job, store>> /\ pc[p] \in {"prepare", "run"}
    BY <1>0, <1>6 DEF ResumeReady, FreshReady, EditCode, Goto
  <2> QED BY <2>1 DEF Counted, Counts, OwnView, CountDue, GuardPassed
<1>7. CASE ResumeStops(p) \/ FreshStops(p) \/ Raise(p)
  <2>1. Record(p, Uncounted("FAILED_SYSTEM")) /\ UNCHANGED streak
    BY <1>7 DEF ResumeStops, FreshStops, Raise, history
  <2>2. /\ Uncounted("FAILED_SYSTEM") \in Verdict
        /\ ~Uncounted("FAILED_SYSTEM").count
        /\ Uncounted("FAILED_SYSTEM").status \notin Resumable
    BY DEF Uncounted, Verdict, Status, Resumable
  <2> QED BY <2>1, <2>2, RecordCounts
<1>8. CASE GiveUp(p) \/ Deliver(p)
  <2>1. PICK s \in Status : Record(p, Ended(p, s))
    BY <1>8 DEF GiveUp, Deliver, Status
  <2>2. UNCHANGED streak /\ pc[p] = "run"
    BY <1>8 DEF GiveUp, Deliver, history
  <2>3. Ended(p, s) \in Verdict
    BY EndedVerdict DEF TypeInv
  <2>4. CountIsTrue /\ OwnView(p)
    BY DEF Counted, Counts, Recorded
  <2> QED BY <1>0, <2>1, <2>2, <2>3, <2>4, EndedContinues, RecordCounts
<1>9. CASE Load(p)
  <2>1. /\ pc[p] = "load" /\ pc'[p] = "save"
        /\ job'[p].snapshot = store /\ UNCHANGED <<store, streak>>
        /\ job'[p].req = job[p].req /\ job'[p].verdict = job[p].verdict
    BY <1>0, <1>9 DEF Load, Goto, Job, history
  <2>2. CountDue(p)'
    BY <2>1 DEF Counted, Counts, CountDue
  <2> QED BY <2>1, <2>2 DEF Counts, OwnView, GuardPassed
<1> QED BY <1>1, <1>2, <1>3, <1>4, <1>5, <1>6, <1>7, <1>8, <1>9 DEF Work

\* So does every step of the system when one process works on the project.
LEMMA NextCounted ==
  ASSUME OneProcess
  PROVE  TypeInv /\ Counted /\ [Next]_vars => Counted'
<1> SUFFICES ASSUME TypeInv, Counted, [Next]_vars PROVE Counted'
  OBVIOUS
<1>1. CASE UNCHANGED vars
  BY <1>1 DEF vars, history, Counted, Recorded, CountIsTrue, StatusIsLast, Counts,
    OwnView, CountDue, GuardPassed
<1>2. ASSUME NEW p \in Process, Start(p) \/ Work(p) \/ Crash(p) PROVE Counted'
  <2>1. Recorded' /\ Counts(p)'
    BY <1>2, NextRecorded, NextCounts
  <2>2. ASSUME NEW q \in Process PROVE Counts(q)'
    <3>1. q = p
      BY DEF OneProcess
    <3> QED BY <2>1, <3>1
  <2> QED BY <2>1, <2>2 DEF Counted
<1> QED BY <1>1, <1>2 DEF Next

\* Nothing has been counted at the start.
LEMMA InitCounted == Init => Counted
BY DEF Init, Counted, Recorded, CountIsTrue, StatusIsLast, Counts, OwnView, CountDue,
  GuardPassed, NoEntry, Resumable

\* state.json counts the runs that ended in FAILED_B7 in a row as DD-003 5.6 says, for
\* any number of issues and requests and wherever the process dies, as long as one
\* process at a time works on the project (next_consecutive_b7, update_task_state,
\* reset_task_state).
THEOREM RowIsCounted ==
  ASSUME OneProcess
  PROVE  Spec => []CountIsTrue
<1>1. Counted => CountIsTrue
  BY DEF Counted, Recorded
<1> QED BY <1>1, InitType, NextType, InitCounted, NextCounted, PTL DEF Spec

\* After MaxConsecutiveB7 failed runs in a row no run is resumed without an order:
\* outcomes recorded in between without a count replace the status the guard looks
\* at, but are themselves not resumed from (the guard of Issue #91).
THEOREM NoResumeAfterTheRow ==
  ASSUME OneProcess
  PROVE  Spec => NoThirdAutomaticResume
<1> DEFINE Third == \A p \in Process :
             pc[p] = "prepare" /\ pc'[p] = "run" /\ job[p].resuming
               /\ Automatic(job[p].req)
             => LET i == job[p].req.issue
                IN  ~(last[i] = "FAILED_B7" /\ streak[i] >= MaxConsecutiveB7)
<1>1. TypeInv /\ Counted => Third
  <2> SUFFICES ASSUME TypeInv, Counted, NEW p \in Process, pc[p] = "prepare",
                      job[p].resuming, Automatic(job[p].req)
               PROVE  ~(/\ last[job[p].req.issue] = "FAILED_B7"
                        /\ streak[job[p].req.issue] >= MaxConsecutiveB7)
    OBVIOUS
  <2> DEFINE i == job[p].req.issue
  <2>1. i \in Issue
    BY DEF TypeInv, Control, Equipped, Request
  <2>2. job[p].seen = store[i] /\ store[i].status \in Resumable
        /\ ~Blocked(job[p].req, store[i])
    BY DEF Counted, Counts, OwnView, GuardPassed
  <2>3. last[i] = store[i].status /\ store[i].b7 = streak[i]
    BY <2>1, <2>2 DEF Counted, Recorded, StatusIsLast, CountIsTrue
  <2> QED BY <2>2, <2>3 DEF Blocked
<1>2. TypeInv /\ Counted => [Third]_vars
  BY <1>1
<1> HIDE DEF Third
<1>3. Spec => [][Third]_vars
  BY <1>2, InitType, NextType, InitCounted, NextCounted, PTL DEF Spec
<1> QED BY <1>3 DEF NoThirdAutomaticResume, Third

-----------------------------------------------------------------------------
\* No edit is lost by run_task.py either, when one process at a time works on the
\* project and git does not fail

\* Nothing is committed to base, run_task.py wipes uncommitted edits only if told to
\* with --force, and a run goes on on its own work branch.
Sheltered ==
  /\ repo.commits["base"] = {}
  /\ \A p \in Process :
       /\ pc[p] = "wipe" => repo.tree = {} \/ Forced(job[p].req)
       /\ pc[p] = "run"  => repo.head = job[p].req.issue

\* Stashing first and then going back to base throws away nothing that was not
\* ordered to be (check_and_safeguard_working_tree, clean_satellite_repository,
\* reset_task_environment).
LEMMA WrapperIsSafe ==
  ASSUME GitMayFail = FALSE, TypeInv, CodeSafe, Sheltered, NEW p \in Process,
         Safeguard(p) \/ Wipe(p)
  PROVE  CodeSafe'
<1> DEFINE req == job[p].req
           i   == req.issue
<1>0. repo \in Repository /\ i \in Issue
  BY DEF TypeInv, Control, Code, Equipped, Request, Safeguard, Wipe
<1>1. Tidy(repo, discarded) /\ HeadExists(repo) /\ EditsSurvive
  BY DEF CodeSafe
<1>2. CASE UNCHANGED <<repo, made, discarded>>
  BY <1>2 DEF CodeSafe, EditsSurvive
<1>3. CASE Safeguard(p)
  <2>1. UNCHANGED <<made, discarded>> /\ (repo' = repo \/ repo' = Stash(repo))
    BY <1>3 DEF Safeguard, history
  <2>2. /\ Tidy(Stash(repo), discarded) /\ HeadExists(Stash(repo))
        /\ Keeps(repo, Stash(repo), discarded)
    BY <1>0, <1>1, SafeOps
  <2>3. CASE repo' = Stash(repo)
    <3>1. Tidy(repo, discarded)' /\ HeadExists(repo)'
      BY <2>1, <2>2, <2>3 DEF Tidy, HeadExists
    <3> QED BY <1>1, <2>1, <2>2, <2>3, <3>1, KeepingIsSafe
  <2> QED BY <1>2, <2>1, <2>3
<1>4. CASE Wipe(p)
  <2> DEFINE reset   == req.kind \in {"reset", "retry"}
             ordered == (IF Forced(req) THEN repo.tree ELSE {}) \cup
                        (IF reset THEN repo.commits[i] ELSE {})
             onBase  == [Switch(repo, "base") EXCEPT !.tree = {}]
  <2>1. CASE UNCHANGED <<repo, discarded>>
    BY <1>2, <1>4, <2>1 DEF Wipe
  <2>2. CASE ~UNCHANGED <<repo, discarded>>
    <3>1. /\ discarded' = discarded \cup ordered /\ made' = made
          /\ \E r \in {onBase} \cup (IF reset THEN {DropBranch(onBase, i)} ELSE {}) :
               repo' = r \/ repo' = [r EXCEPT !.commits["base"] = {}]
      BY <1>4, <2>2 DEF Wipe
    <3>2. repo.tree \subseteq ordered /\ repo.commits["base"] = {}
      BY <1>4 DEF Sheltered, Wipe
    <3>3. reset => repo.commits[i] \subseteq ordered
      OBVIOUS
    <3>4. /\ onBase \in Repository /\ onBase.head = "base"
          /\ onBase.exists = repo.exists /\ onBase.shelf = repo.shelf
          /\ onBase.commits = repo.commits /\ onBase.remote = repo.remote
      BY <1>0 DEF Switch, Repository, Branch
    <3> HIDE DEF onBase, ordered, reset, i
    <3>5. PICK r \in {onBase} \cup (IF reset THEN {DropBranch(onBase, i)} ELSE {}) :
            repo' = r \/ repo' = [r EXCEPT !.commits["base"] = {}]
      BY <3>1
    <3>6. CASE r = onBase
      <4>1. /\ repo' \in Repository /\ repo'.head = "base" /\ repo'.exists = repo.exists
            /\ repo'.shelf = repo.shelf /\ repo'.remote = repo.remote
            /\ \A b \in Branch : repo'.commits[b] = repo.commits[b]
        BY <1>0, <3>2, <3>4, <3>5, <3>6 DEF Repository, Branch
      <4>2. Tidy(repo, discarded)' /\ HeadExists(repo)'
        BY <1>1, <3>1, <4>1 DEF Tidy, HeadExists, Branch
      <4>3. ASSUME NEW e \in Kept(repo) PROVE e \in Kept(repo') \cup discarded'
        <5>1. \/ e \in repo.tree \/ e \in repo.shelf
              \/ \E b \in Branch : e \in repo.commits[b]
              \/ \E k \in Issue : e \in repo.remote[k]
          BY <1>0, <4>3, KeptEdit
        <5> QED BY <3>1, <3>2, <4>1, <5>1, KeptEdit
      <4>4. EditsSurvive'
        BY <1>1, <3>1, <4>3 DEF EditsSurvive
      <4> QED BY <4>2, <4>4 DEF CodeSafe
    <3>7. CASE reset /\ r = DropBranch(onBase, i)
      <4>0. /\ r \in Repository /\ r.head = "base" /\ r.exists = repo.exists \ {i}
            /\ r.shelf = repo.shelf /\ r.remote = repo.remote
            /\ \A b \in Branch \ {i} : r.commits[b] = repo.commits[b]
            /\ r.commits[i] = {}
        BY <1>0, <3>4, <3>7, IssueAssumption DEF DropBranch, Repository, Branch
      <4>1. /\ repo' \in Repository /\ repo'.head = "base"
            /\ repo'.exists = repo.exists \ {i}
            /\ repo'.shelf = repo.shelf /\ repo'.remote = repo.remote
            /\ \A b \in Branch \ {i} : repo'.commits[b] = repo.commits[b]
            /\ repo'.commits[i] = {}
        <5>1. CASE repo' = r
          BY <4>0, <5>1
        <5>2. CASE repo' = [r EXCEPT !.commits["base"] = {}]
          BY <1>0, <3>2, <4>0, <5>2, IssueAssumption DEF Repository, Branch
        <5> QED BY <3>5, <5>1, <5>2
      <4>2. repo.commits[i] \subseteq discarded'
        BY <3>1, <3>3, <3>7
      <4>3. Tidy(repo, discarded)' /\ HeadExists(repo)'
        BY <1>0, <1>1, <3>1, <4>1, <4>2, IssueAssumption DEF Tidy, HeadExists, Branch
      <4>4. ASSUME NEW e \in Kept(repo) PROVE e \in Kept(repo') \cup discarded'
        <5>1. \/ e \in repo.tree \/ e \in repo.shelf
              \/ \E b \in Branch : e \in repo.commits[b]
              \/ \E k \in Issue : e \in repo.remote[k]
          BY <1>0, <4>4, KeptEdit
        <5> QED BY <3>1, <3>2, <4>1, <4>2, <5>1, KeptEdit
      <4>5. EditsSurvive'
        BY <1>1, <3>1, <4>4 DEF EditsSurvive
      <4> QED BY <4>3, <4>5 DEF CodeSafe
    <3> QED BY <3>5, <3>6, <3>7
  <2> QED BY <2>1, <2>2
<1> QED BY <1>3, <1>4

\* Preparing a run leaves base alone and leads to the work branch.
LEMMA PreparationShelters ==
  ASSUME GitMayFail = FALSE, TypeInv, Sheltered, NEW p \in Process,
         ResumeReady(p) \/ ResumeStops(p) \/ FreshReady(p) \/ FreshStops(p)
  PROVE  /\ repo'.commits["base"] = {}
         /\ pc'[p] = "run" => repo'.head = job[p].req.issue
         /\ pc'[p] # "wipe" /\ job'[p].req = job[p].req
<1> DEFINE i == job[p].req.issue
<1> USE IssueAssumption DEF Branch
<1>0. /\ repo \in Repository /\ i \in Issue /\ repo.commits["base"] = {}
      /\ pc \in [Process -> Step] /\ job \in [Process -> Job]
  BY DEF TypeInv, Control, Code, Equipped, Request, ResumeReady, ResumeStops, FreshReady,
    FreshStops, Sheltered
<1>1. pc'[p] \in {"run", "load"} /\ job'[p].req = job[p].req
  BY <1>0 DEF ResumeReady, ResumeStops, FreshReady, FreshStops, Goto, Record, Job
<1>2. ResumeStops(p) \/ FreshStops(p) => pc'[p] = "load"
  BY <1>0 DEF ResumeStops, FreshStops, Goto, Record
<1> HIDE DEF i
<1>3. Stash(repo) \in Repository /\ Commit(repo) \in Repository
  BY <1>0, RepositoryOps, {} \in SUBSET Edit
<1>4. ASSUME NEW r \in Repository, r.commits["base"] = {}
      PROVE  /\ WorkBranch(r, i) \in Repository
             /\ WorkBranch(r, i).commits["base"] = {} /\ WorkBranch(r, i).head = i
             /\ Retire(r, i) \in Repository /\ Retire(r, i).commits["base"] = {}
  <2>1. WorkBranch(r, i) \in Repository /\ Retire(r, i) \in Repository
    BY <1>0, <1>4, BranchOps
  <2>2. Retire(r, i).commits["base"] = {}
    BY <1>0, <1>4 DEF Retire, DropBranch, Repository
  <2>3. WorkBranch(r, i).commits["base"] = {} /\ WorkBranch(r, i).head = i
    BY <1>0, <1>4 DEF WorkBranch, Switch, CreateFrom, Repository
  <2> QED BY <2>1, <2>2, <2>3
<1>5. CASE ResumeReady(p) \/ ResumeStops(p)
  <2>1. CASE UNCHANGED repo /\ ResumeStops(p)
    BY <1>0, <1>1, <1>2, <2>1
  <2>2. CASE ~(UNCHANGED repo /\ ResumeStops(p))
    <3>1. repo.tree = {} \/ repo.head = i
      BY <1>5, <2>2 DEF ResumeReady, ResumeStops, i
    <3>2. Commit(repo).commits["base"] = {}
      BY <1>0, <3>1 DEF Commit, Repository
    <3> DEFINE w == WorkBranch(Commit(repo), i)
    <3>3. repo' = w \/ repo' = Rebase(w, i)
      BY <1>5, <2>2 DEF ResumeReady, ResumeStops, i
    <3>4. w \in Repository /\ w.commits["base"] = {} /\ w.head = i
      BY <1>3, <1>4, <3>2
    <3> HIDE DEF w
    <3>5. Rebase(w, i).commits["base"] = {} /\ Rebase(w, i).head = i
      BY <1>0, <3>4 DEF Rebase, Repository
    <3> QED BY <1>1, <3>3, <3>4, <3>5 DEF i
  <2> QED BY <2>1, <2>2
<1>6. CASE FreshReady(p)
  <2>1. Stash(repo).commits["base"] = {}
    BY <1>0 DEF Stash, Repository
  <2> DEFINE bare == Retire(Stash(repo), i)
  <2>2. bare \in Repository /\ bare.commits["base"] = {}
    BY <1>3, <1>4, <2>1
  <2>3. repo' = CreateFrom(bare, i, repo.commits["base"])
    BY <1>6 DEF FreshReady, i
  <2> HIDE DEF bare
  <2>4. repo'.commits["base"] = {} /\ repo'.head = i
    BY <1>0, <2>2, <2>3 DEF CreateFrom, Repository
  <2> QED BY <1>1, <2>4 DEF i
<1>7. CASE FreshStops(p)
  <2> DEFINE base == Switch(Stash(repo), "base")
  <2>1. Stash(repo).commits["base"] = {}
    BY <1>0 DEF Stash, Repository
  <2>2. base \in Repository /\ base.commits["base"] = {}
    BY <1>3, <2>1 DEF Switch, Repository
  <2>3. repo' \in {repo, Stash(repo), base, Retire(base, i)}
    BY <1>7 DEF FreshStops, i
  <2> HIDE DEF base
  <2>4. Retire(base, i).commits["base"] = {}
    BY <1>4, <2>2
  <2> QED BY <1>0, <1>1, <1>2, <1>7, <2>1, <2>2, <2>3, <2>4
<1> QED BY <1>5, <1>6, <1>7

\* Every step of the one process keeps Sheltered.
LEMMA NextSheltered ==
  ASSUME OneProcess, GitMayFail = FALSE, TypeInv, Sheltered, NEW p \in Process,
         Start(p) \/ Work(p) \/ Crash(p)
  PROVE  Sheltered'
<1>0. /\ pc \in [Process -> Step] /\ job \in [Process -> Job] /\ repo \in Repository
      /\ repo.commits["base"] = {}
      /\ pc[p] # "idle" => job[p].req.issue \in Issue
  BY DEF TypeInv, Control, Code, Equipped, Request, Sheltered
<1> SUFFICES /\ repo'.commits["base"] = {}
             /\ pc'[p] = "wipe" => repo'.tree = {} \/ Forced(job'[p].req)
             /\ pc'[p] = "run"  => repo'.head = job'[p].req.issue
  BY DEF Sheltered, OneProcess
<1>1. CASE Start(p)
  <2>1. PICK r \in Request :
          Goto(p, CASE r.kind \in {"reset", "retry"} -> "forget"
                    [] r.kind = "run_task"           -> "safeguard"
                    [] r.kind = "execute"            -> "context")
    BY <1>1 DEF Start
  <2>2. r.kind \in {"execute", "run_task", "reset", "retry"}
    BY EntryPointAssumption DEF Request, EntryPoints
  <2>3. pc'[p] \in {"forget", "safeguard", "context"}
    BY <1>0, <2>1, <2>2 DEF Goto
  <2> QED BY <1>0, <1>1, <2>3 DEF Start
<1>2. CASE Safeguard(p)
  <2>1. Stash(repo).tree = {} /\ Stash(repo).commits["base"] = {}
    BY <1>0 DEF Stash, Repository
  <2>2. pc'[p] \in {"wipe", "idle"}
    BY <1>0, <1>2 DEF Safeguard, Goto, Finished
  <2>3. pc'[p] = "wipe" => job' = job
    BY <1>0, <1>2 DEF Safeguard, Goto, Finished
  <2>4. pc'[p] = "wipe" => repo'.tree = {} \/ Forced(job'[p].req)
    BY <1>0, <1>2, <2>1, <2>3 DEF Safeguard, Goto, Finished
  <2>5. repo' = repo \/ repo' = Stash(repo)
    BY <1>2 DEF Safeguard
  <2> QED BY <1>0, <2>1, <2>2, <2>4, <2>5
<1>3. CASE Wipe(p)
  <2> DEFINE i == job[p].req.issue
             onBase == [Switch(repo, "base") EXCEPT !.tree = {}]
  <2>1. onBase \in Repository /\ onBase.commits["base"] = {}
    BY <1>0 DEF Switch, Repository, Branch
  <2>2. i \in Issue
    BY <1>0, <1>3 DEF Wipe
  <2>3. \/ repo' = repo
        \/ \E r \in {onBase, DropBranch(onBase, i)} :
             repo' = r \/ repo' = [r EXCEPT !.commits["base"] = {}]
    BY <1>3 DEF Wipe
  <2> HIDE DEF onBase, i
  <2>4. /\ DropBranch(onBase, i) \in Repository
        /\ DropBranch(onBase, i).commits["base"] = {}
    BY <2>1, <2>2, IssueAssumption DEF DropBranch, Repository, Branch
  <2>5. \A r \in Repository : [r EXCEPT !.commits["base"] = {}].commits["base"] = {}
    BY DEF Repository, Branch
  <2>6. repo'.commits["base"] = {}
    BY <1>0, <2>1, <2>3, <2>4, <2>5
  <2>7. pc'[p] \in {"unlock", "context", "idle"}
    BY <1>0, <1>3 DEF Wipe, Goto, Finished
  <2> QED BY <2>6, <2>7
<1>4. CASE \/ Forget(p) \/ Erase(p) \/ Unlock(p) \/ Context(p) \/ TryLock(p) \/ Decide(p)
           \/ GiveUp(p) \/ Raise(p) \/ Load(p) \/ Save(p) \/ Release(p) \/ Crash(p)
  <2>1. UNCHANGED repo
    BY <1>4 DEF Forget, Erase, Unlock, Context, TryLock, Decide, GiveUp, Raise, Load, Save,
      Release, Crash
  <2>2. pc'[p] \notin {"wipe", "run"}
    BY <1>0, <1>4 DEF Forget, Erase, Unlock, Context, TryLock, Decide, GiveUp, Raise, Load,
      Save, Release, Crash, Goto, Finished, Record
  <2> QED BY <1>0, <2>1, <2>2
<1>5. CASE ResumeReady(p) \/ ResumeStops(p) \/ FreshReady(p) \/ FreshStops(p)
  BY <1>5, PreparationShelters
<1>6. CASE EditCode(p)
  <2>1. UNCHANGED <<pc, job>> /\ pc[p] = "run"
    BY <1>6 DEF EditCode
  <2>2. repo'.head = repo.head /\ repo'.commits = repo.commits
    BY <1>0, <1>6 DEF EditCode, Repository
  <2> QED BY <1>0, <2>1, <2>2 DEF Sheltered
<1>7. CASE Deliver(p)
  <2> DEFINE i == job[p].req.issue
  <2>1. pc'[p] = "load"
    BY <1>0, <1>7 DEF Deliver, Goto, Record
  <2>2. repo.head = i /\ i \in Issue
    BY <1>0, <1>7 DEF Deliver, Sheltered
  <2>3. Commit(repo) \in Repository /\ Commit(repo).commits["base"] = {}
    BY <1>0, <2>2, IssueAssumption DEF Commit, Repository, Branch
  <2>4. Push(Commit(repo), i).commits = Commit(repo).commits
    BY <2>3 DEF Push, Repository
  <2>5. repo' \in {repo, Commit(repo), Push(Commit(repo), i)}
    BY <1>7 DEF Deliver
  <2> QED BY <1>0, <2>1, <2>3, <2>4, <2>5
<1> QED BY <1>1, <1>2, <1>3, <1>4, <1>5, <1>6, <1>7 DEF Work

\* Every step of the system keeps Sheltered and CodeSafe.
LEMMA NextShelteredCode ==
  ASSUME OneProcess, GitMayFail = FALSE
  PROVE  TypeInv /\ Sheltered /\ CodeSafe /\ [Next]_vars => (Sheltered /\ CodeSafe)'
<1> SUFFICES ASSUME TypeInv, Sheltered, CodeSafe, [Next]_vars
             PROVE  (Sheltered /\ CodeSafe)'
  OBVIOUS
<1>1. CASE UNCHANGED vars
  BY <1>1 DEF vars, history, Sheltered, CodeSafe, EditsSurvive
<1>2. ASSUME NEW p \in Process, Start(p) \/ Work(p) \/ Crash(p)
      PROVE  (Sheltered /\ CodeSafe)'
  <2>1. Sheltered'
    BY <1>2, NextSheltered
  <2>2. CASE Safeguard(p) \/ Wipe(p)
    BY <2>1, <2>2, WrapperIsSafe
  <2>3. CASE ResumeReady(p) \/ ResumeStops(p) \/ FreshReady(p) \/ FreshStops(p)
    BY <2>1, <2>3, PreparationIsSafe
  <2>4. CASE EditCode(p) \/ Deliver(p)
    BY <2>1, <2>4, RunIsSafe
  <2>5. CASE \/ Start(p) \/ Forget(p) \/ Erase(p) \/ Unlock(p) \/ Context(p) \/ TryLock(p)
             \/ Decide(p) \/ GiveUp(p) \/ Raise(p) \/ Load(p) \/ Save(p) \/ Release(p)
             \/ Crash(p)
    <3>1. UNCHANGED <<repo, made, discarded>>
      BY <2>5 DEF Start, Forget, Erase, Unlock, Context, TryLock, Decide, GiveUp, Raise,
        Load, Save, Release, Crash, history
    <3> QED BY <2>1, <3>1 DEF CodeSafe, EditsSurvive
  <2> QED BY <1>2, <2>2, <2>3, <2>4, <2>5 DEF Work
<1> QED BY <1>1, <1>2 DEF Next

\* No edit is lost through any sequence of executions, cleanings, resets and retries,
\* with whatever options, through crashes and failing deliveries, except what a human
\* ordered to be thrown away.  One process at a time, and git status and git switch
\* work: see the configurations unlocked_clean and status_fails of
\* TaskExecutionClaims for two processes and for a git status that fails.
THEOREM NoEditIsLostByHand ==
  ASSUME OneProcess, GitMayFail = FALSE
  PROVE  Spec => []EditsSurvive
<1>1. Init => Sheltered /\ CodeSafe
  BY DEF Init, Sheltered, CodeSafe, EditsSurvive, Tidy, HeadExists, EmptyRepository, Branch
<1>2. CodeSafe => EditsSurvive
  BY DEF CodeSafe
<1> QED BY <1>1, <1>2, InitType, NextType, NextShelteredCode, PTL DEF Spec
=============================================================================

---------------------------- MODULE NightlyWorker ----------------------------
(***************************************************************************)
(* The nightly worker (tools/nightly_task_worker.py) in its loop mode: it  *)
(* waits for a time of day, selects tasks from tasks.md and hands them one *)
(* by one to run_task.py, whose processes it kills when their time is up.  *)
(*                                                                         *)
(* The execution itself is reduced to the processes it consists of and to  *)
(* its exit code (module TaskExecution has the rest):                      *)
(*   worker -> run_task.py -> orchestrator_graph.py -> agy.                *)
(* What a kill does not reach goes on by itself, beside the next execution.*)
(* The clock counts in ticks, Day of them to a day.  Stop requests come at *)
(* any time; tasks.md and the configuration change from batch to batch.    *)
(***************************************************************************)
EXTENDS Integers, FiniteSets

CONSTANTS
  Task,           \* the tasks of tasks.md, by their line numbers
  Score,          \* the score of each task
  Project,        \* the projects, each with a satellite and a lock
  ProjectOf,      \* the project of each task
  Line,           \* the forms a line of tasks.md takes, a subset of Lines
  MaxTasks,       \* max_tasks_per_run
  MaxFailures,    \* max_consecutive_auth_quota_failures
  MaxIterations,  \* --max-iterations
  Mode,           \* loop modes the configuration may name, a subset of Modes
  Day, Slots,     \* ticks in a day, and those named by daily_times
  Interval,       \* interval_seconds, in ticks
  Posix,          \* a process group is killed, and agy has one of its own
  MaxTime,        \* bound: the last tick
  MaxErrors       \* bound: configuration errors survived

Lines == [status : {" ", "/", "x"}, stage : {"ready", "ideation"},
          blocked : BOOLEAN]
Modes == {"daily", "malformed", "interval"}   \* malformed: daily_times is not

ASSUME TaskAssumption == Task \subseteq Nat /\ IsFiniteSet(Task)
ASSUME ScoreAssumption == Score \in [Task -> Nat]
ASSUME ProjectAssumption == ProjectOf \in [Task -> Project] /\ Posix \in BOOLEAN
ASSUME LineAssumption == Line \subseteq Lines
ASSUME LimitAssumption ==
  MaxTasks \in Nat /\ MaxFailures \in Nat /\ MaxIterations \in Nat \ {0}
ASSUME ModeAssumption == Mode \subseteq Modes
ASSUME SlotsAssumption ==
  Day \in Nat \ {0} /\ Slots # {} /\ Slots \subseteq 0 .. Day - 1
ASSUME IntervalAssumption == Interval \in Nat
ASSUME BoundsAssumption == MaxTime \in Nat /\ MaxErrors \in Nat

\* What agy refuses its service with, and stops the worker.
AgyFaults == {"AGY_AUTH", "AGY_QUOTA", "AGY_POLICY_DENIED"}
Category  == AgyFaults \cup {"none", "other"}

VARIABLES
  pc,          \* what run_loop and run_batch_cycle do next
  stop,        \* stop_event
  iteration,   \* iteration
  mode,        \* the loop mode as last loaded
  now, wake,   \* the clock, and when the wait ends
  queue,       \* tasks_to_execute
  failures,    \* consecutive_auth_quota_failures
  run,         \* the execution under way, or the last one
  leftover,    \* error_category in the files the worker reads
  left,        \* left[p][s]: what killed executions have left behind in p
  \* history: what the properties need to remember
  since,       \* when the wait began
  batches,     \* batches begun
  refused      \* executions in a row, within the batch, that agy refused

loopVars == <<stop, iteration, mode>>
history  == <<since, batches, refused>>
vars == <<pc, loopVars, now, wake, queue, failures, run, leftover, left,
          history>>

\* An orchestrator is started, has the lock, or waits for agy; a lone agy has
\* lost its orchestrator.
Survivor == {"started", "graph", "agy", "lone"}
Stage == {"clean", "started", "graph", "agy", "exited"}
Run   == [task : Task \cup {-1}, stage : Stage, ok : BOOLEAN, fault : Category]
NoRun == [task |-> -1, stage |-> "exited", ok |-> TRUE, fault |-> "none"]

TypeOK ==
  /\ pc \in {"top", "load", "retry", "batch", "launch", "running", "judge", "after",
             "sleep", "ended"}
  /\ stop \in BOOLEAN
  /\ iteration \in 0 .. MaxIterations + MaxErrors
  /\ mode \in Mode \cup {"none"}
  /\ now \in 0 .. MaxTime /\ wake \in Nat
  /\ queue \subseteq Task /\ Cardinality(queue) <= MaxTasks
  /\ failures \in 0 .. MaxTasks
  /\ run \in Run
  /\ leftover \in Category
  /\ left \in [Project -> [Survivor -> Nat]]
  /\ since \in 0 .. MaxTime /\ batches \in Nat /\ refused \in Nat

\* leftover: no code of the repository writes these files; they hold what an
\* operator or an earlier version left there.
Init ==
  /\ pc = "top"
  /\ stop = FALSE /\ iteration = 0 /\ mode = "none"
  /\ now = 0 /\ wake = 0
  /\ queue = {} /\ failures = 0 /\ run = NoRun
  /\ leftover \in {"none", "other", "AGY_QUOTA"}
  /\ left = [p \in Project |-> [s \in Survivor |-> 0]]
  /\ since = 0 /\ batches = 0 /\ refused = 0

Goto(step) == pc' = step

-------------------------------------------------------------------------------
\* Selection: parse_tasks_md_candidates and select_best_task

Candidates(tasksMd) ==
  {t \in Task : tasksMd[t] = [status |-> " ", stage |-> "ready", blocked |-> FALSE]}

\* The order of a stable sort by descending score.
Precedes(t, u) == Score[t] > Score[u] \/ (Score[t] = Score[u] /\ t < u)

\* Faulty variant: an off-by-one in the limit.
BestOneTooMany(S, n) == {t \in S : Cardinality({u \in S : Precedes(u, t)}) <= n}

Best(S, n) == {t \in S : Cardinality({u \in S : Precedes(u, t)}) < n}

-------------------------------------------------------------------------------
\* The times of day: get_next_target_time

Least(S) == CHOOSE t \in S : \A u \in S : t <= u

\* Faulty variant: a time that has just come is taken for one to come.
NextTargetNow(t) == Least({u \in t .. t + Day : u % Day \in Slots})

\* A slot of today if one is still to come, else the first of tomorrow.
NextTarget(t) ==
  LET midnight == t - (t % Day)
      today    == {midnight + s : s \in Slots}
      upcoming == {u \in today : u > t}
      tomorrow == {u + Day : u \in today \ upcoming}
  IN  IF upcoming # {} THEN Least(upcoming) ELSE Least(tomorrow)

-------------------------------------------------------------------------------
\* run_loop

Top ==
  /\ pc = "top"
  /\ \/ stop /\ Goto("ended") /\ UNCHANGED iteration
     \/ ~stop /\ Goto("load") /\ iteration' = iteration + 1
  /\ UNCHANGED <<stop, mode, now, wake, queue, failures, run, leftover,
                 left, history>>

\* The configuration cannot be read: try again in 5 seconds.
ConfigError ==
  /\ pc = "load"
  /\ iteration < MaxIterations + MaxErrors
  /\ Goto("retry")
  /\ UNCHANGED <<loopVars, now, wake, queue, failures, run, leftover,
                 left, history>>

Retry ==
  /\ pc = "retry"
  /\ Goto(IF stop THEN "ended" ELSE "top")
  /\ UNCHANGED <<loopVars, now, wake, queue, failures, run, leftover,
                 left, history>>

\* The configuration is read; it may have been disabled.
ConfigLoaded ==
  /\ pc = "load"
  /\ \/ Goto("ended") /\ UNCHANGED mode
     \/ ~stop /\ Goto("batch") /\ mode' \in Mode
  /\ UNCHANGED <<stop, iteration, now, wake, queue, failures, run, leftover,
                 left, history>>

\* Faulty variant: exactly at the limit is where the loop ends.
AfterBatchAtLimit ==
  /\ pc = "after"
  /\ IF stop \/ iteration = MaxIterations \/ mode = "malformed"
     THEN Goto("ended") /\ UNCHANGED <<wake, since>>
     ELSE /\ Goto("sleep")
          /\ since' = now
          /\ wake' = IF mode = "daily" THEN NextTarget(now) ELSE now + Interval
  /\ UNCHANGED <<loopVars, now, queue, failures, run, leftover, left,
                 batches, refused>>

\* After the batch the loop ends, or waits for the next one.  Malformed
\* daily_times raise a ValueError that ends the worker.
AfterBatch ==
  /\ pc = "after"
  /\ IF stop \/ iteration >= MaxIterations \/ mode = "malformed"
     THEN Goto("ended") /\ UNCHANGED <<wake, since>>
     ELSE /\ Goto("sleep")
          /\ since' = now
          /\ wake' = IF mode = "daily" THEN NextTarget(now) ELSE now + Interval
  /\ UNCHANGED <<loopVars, now, queue, failures, run, leftover, left,
                 batches, refused>>

\* Faulty variant: the wait is a plain sleep.
WakeUpDeaf ==
  /\ pc = "sleep"
  /\ now >= wake
  /\ Goto(IF stop THEN "ended" ELSE "top")
  /\ UNCHANGED <<loopVars, now, wake, queue, failures, run, leftover, left,
                 history>>

\* interruptible_sleep
WakeUp ==
  /\ pc = "sleep"
  /\ \/ stop /\ Goto("ended")
     \/ ~stop /\ now >= wake /\ Goto("top")
  /\ UNCHANGED <<loopVars, now, wake, queue, failures, run, leftover, left,
                 history>>

-------------------------------------------------------------------------------
\* run_batch_cycle

\* tasks.md is read as humans and sync_issue_statuses_to_tasks_md have left it.
StartBatch ==
  /\ pc = "batch"
  /\ \E tasksMd \in [Task -> Line] : queue' = Best(Candidates(tasksMd), MaxTasks)
  /\ failures' = 0 /\ refused' = 0
  /\ batches' = batches + 1
  /\ Goto("launch")
  /\ UNCHANGED <<loopVars, now, wake, run, leftover, left, since>>

EndBatch ==
  /\ pc = "launch"
  /\ queue = {}
  /\ Goto("after")
  /\ UNCHANGED <<loopVars, now, wake, queue, failures, run, leftover, left,
                 history>>

\* execute_autonomous_task starts run_task.py, which cleans the repository.
Launch ==
  /\ pc = "launch"
  /\ \E t \in Best(queue, 1) :
       /\ run' = [task |-> t, stage |-> "clean", ok |-> FALSE, fault |-> "none"]
       /\ queue' = queue \ {t}
  /\ Goto("running")
  /\ UNCHANGED <<loopVars, now, wake, failures, leftover, left, history>>

\* The category is read, and decides, only where the exit code was not 0.
Judge ==
  LET refusal == ~run.ok /\ leftover \in AgyFaults
  IN  /\ pc = "judge"
      /\ failures' = IF refusal THEN failures + 1 ELSE 0
      /\ refused' = IF run.fault \in AgyFaults THEN refused + 1 ELSE 0
      /\ IF refusal /\ failures' >= MaxFailures THEN Goto("after") ELSE Goto("launch")
      /\ run' = NoRun
      /\ UNCHANGED <<loopVars, now, wake, queue, leftover, left, since, batches>>

-------------------------------------------------------------------------------
\* The processes of an execution.

Exit(ok) == /\ run' = [run EXCEPT !.stage = "exited", !.ok = ok]
            /\ Goto("judge")

\* run_task.py cleans the repository and starts the orchestrator, or exits with 1.
Clean ==
  /\ pc = "running" /\ run.stage = "clean"
  /\ \/ run' = [run EXCEPT !.stage = "started"] /\ UNCHANGED pc
     \/ Exit(FALSE)
  /\ UNCHANGED <<loopVars, now, wake, queue, failures, left, leftover, history>>

Works(p, stages) ==
  \/ run.stage \in stages /\ ProjectOf[run.task] = p
  \/ \E s \in stages \cap Survivor : left[p][s] > 0

\* Faulty variant: nobody is thought to work for an execution that was killed.
LockedByRun(p) == run.stage \in {"graph", "agy"} /\ ProjectOf[run.task] = p

\* The lock of a project ends with the process that has taken it.
Locked(p) == Works(p, {"graph", "agy"})

\* Without a valid satellite or the lock the execution is skipped with exit code
\* 0; an exception makes it 1.
TakeLock ==
  /\ pc = "running" /\ run.stage = "started"
  /\ \/ ~Locked(ProjectOf[run.task]) /\ run' = [run EXCEPT !.stage = "graph"] /\ UNCHANGED pc
     \/ \E ok \in BOOLEAN : Exit(ok)
  /\ UNCHANGED <<loopVars, now, wake, queue, failures, left, leftover, history>>

\* A node of the graph starts agy, unless the policy forbids it.
CallAgy ==
  /\ pc = "running" /\ run.stage = "graph" /\ run.fault = "none"
  /\ \/ run' = [run EXCEPT !.stage = "agy"]
     \/ run' = [run EXCEPT !.fault = "AGY_POLICY_DENIED"]
  /\ UNCHANGED <<pc, loopVars, now, wake, queue, failures, leftover, left,
                 history>>

\* agy answers, fails, or is killed by _run_agy when its own time is up; a timeout
\* that the graph retries is an answer here.
AgyReturns ==
  /\ pc = "running" /\ run.stage = "agy"
  /\ \E f \in {"none", "other", "AGY_AUTH", "AGY_QUOTA"} :
       run' = [run EXCEPT !.stage = "graph", !.fault = f]
  /\ UNCHANGED <<pc, loopVars, now, wake, queue, failures, leftover, left,
                 history>>

\* The orchestrator exits with 0 whatever the final status of the graph is, and
\* with 1 only where an exception, none of agy, escapes from execute_issue.
GraphEnds ==
  /\ pc = "running" /\ run.stage = "graph"
  /\ \/ Exit(TRUE)
     \/ run.fault = "none" /\ Exit(FALSE)
  /\ UNCHANGED <<loopVars, now, wake, queue, failures, leftover, left,
                 history>>

\* What a kill leaves of the processes below run_task.py: on POSIX the process
\* group dies, to which agy, started in a session of its own, does not belong; on
\* Windows taskkill walks the tree, and where it fails that is only logged.
AfterKill ==
  CASE Posix -> IF run.stage = "agy" THEN {"lone"} ELSE {"none"}
    [] ~Posix /\ run.stage \in {"started", "graph"} -> {"none", run.stage}
    [] ~Posix /\ run.stage = "agy" -> {"none", "graph", "agy", "lone"}
    [] OTHER -> {"none"}

\* _run_with_tree_kill: run_task.py itself is always killed.
Timeout ==
  /\ pc = "running"
  /\ Exit(FALSE)
  /\ \E s \in AfterKill :
       left' = IF s = "none" THEN left
               ELSE [left EXCEPT ![ProjectOf[run.task]][s] = @ + 1]
  /\ UNCHANGED <<loopVars, now, wake, queue, failures, leftover, history>>

\* A survivor goes on as far as it would have, and nobody learns its end.
Becomes(p, s, t) ==
  /\ left[p][s] > 0
  /\ left' = [left EXCEPT ![p] = [u \in Survivor |->
                CASE u = s -> left[p][u] - 1 [] u = t -> left[p][u] + 1
                  [] OTHER -> left[p][u]]]

SurvivorActs ==
  /\ \E p \in Project :
       \/ ~Locked(p) /\ Becomes(p, "started", "graph")
       \/ Becomes(p, "graph", "agy") \/ Becomes(p, "agy", "graph")
       \/ \E s \in Survivor \ {"agy"} : Becomes(p, s, "none")
  /\ UNCHANGED <<pc, loopVars, now, wake, queue, failures, run, leftover, history>>

-------------------------------------------------------------------------------
\* The environment.

\* A signal.
RequestStop ==
  /\ ~stop /\ pc # "ended"
  /\ stop' = TRUE
  /\ UNCHANGED <<pc, iteration, mode, now, wake, queue, failures, run,
                 leftover, left, history>>

Tick ==
  /\ pc # "ended" /\ now < MaxTime
  /\ now' = now + 1
  /\ UNCHANGED <<pc, loopVars, wake, queue, failures, run, leftover, left,
                 history>>

-------------------------------------------------------------------------------
Worker ==
  \/ Top \/ ConfigError \/ Retry \/ ConfigLoaded \/ AfterBatch \/ WakeUp
  \/ StartBatch \/ EndBatch \/ Launch \/ Judge

Execution == Clean \/ TakeLock \/ CallAgy \/ AgyReturns \/ GraphEnds \/ Timeout

Environment == RequestStop \/ Tick \/ SurvivorActs

Next == Worker \/ Execution \/ Environment

\* The worker goes on as long as it can, and its timeouts fire.  Nothing is
\* assumed of the clock, of agy or of humans.
Fairness == WF_vars(Worker) /\ WF_vars(Timeout)

Spec == Init /\ [][Next]_vars /\ Fairness

-------------------------------------------------------------------------------
\* Properties

\* The wait of the daily mode ends at a time of daily_times, at the first one that
\* comes after the batch, and never at once (get_next_target_time).
WakesAtNextSlot ==
  pc = "sleep" /\ mode = "daily" =>
    /\ wake > since /\ wake % Day \in Slots
    /\ \A t \in since + 1 .. wake - 1 : t % Day \notin Slots

\* Of the agents at work in one satellite at most one has an orchestrator that
\* waits for it, also where taskkill has failed: an orchestrator that goes on
\* after the worker has given its execution up keeps the next one out, and one
\* that had not yet locked the project stays out itself (_run_with_tree_kill,
\* execute_issue).  A lone agent is kept apart from nobody.
OneAgentAtATime ==
  \A p \in Project :
    left[p]["agy"] + (IF run.stage = "agy" /\ ProjectOf[run.task] = p THEN 1 ELSE 0) <= 1

\* --max-iterations limits the batches, also where unreadable configurations
\* have used up iterations (run_loop).
IterationLimitHolds == batches <= MaxIterations

\* A stop request ends the worker, whatever it is doing and without the clock
\* having to move on (handle_signal, stop_event).
StopEndsWorker == stop ~> pc = "ended"
=============================================================================

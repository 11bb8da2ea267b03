# second-brain-graph in TLA+

TLA+ modules that model the core of second-brain-graph, configurations that
check them with TLC, and proofs of the most important properties with TLAPS.
Everything is translated from the code in `src/`; documents of the repository
(`docs/design`, `docs/adr`) were used to find out what the code is *meant* to do,
and where the two disagree a run shows it.

1. [The system](#1-the-system)
2. [The modules and the code](#2-the-modules-and-the-code)
3. [The runs](#3-the-runs)
4. [The proofs](#4-the-proofs)
5. [Disagreements between the code and its documents](#5-disagreements-between-the-code-and-its-documents)
6. [What is not modelled](#6-what-is-not-modelled)
7. [Plan](#7-plan)

## 1. The system

second-brain-graph drives coding agents through the issues of "satellite"
repositories. A nightly worker selects tasks from `tasks.md` and starts
`run_task.py` for each; that cleans the satellite repository and starts
`orchestrator_graph.py`, whose `execute_issue` takes the project lock, prepares a
work branch, runs a LangGraph workflow (plan, code, lint, test, review, deliver)
and records the outcome in `state.json`. Humans call the same entry points by
hand, in particular `run_task.py --reset` and `--retry`.

```
 nightly_task_worker ──spawns, kills on timeout──▶ run_task ──spawns──▶ orchestrator_graph ──spawns──▶ agy
        │ reads tasks.md,                            │ cleans/reset        │ lock, branch, graph        │ edits
        │ error_category                             ▼                     ▼                            ▼
     tasks.md ◀── periodic_review_runner         satellite repository (worktree, branches, origin) ─────┘
        ▲                                            state.json, events, .lock  (tools/.cache/projects/<KEY>)
     promote_issue, run_review, close_stale_issues (GitHub issues and labels, docs/issues/<TASK_ID>.md)
```

### Components

| Component | State it keeps | Operations | What makes it correct | Modelled in |
|---|---|---|---|---|
| Issue graph (`orchestrator_graph.py`, with `jev_adapter.py`, `llm_client.py`, `git_utils.py`) | `GraphState`: status, error category, four retry counters, the shared timeout counter; worktree and work branch | eight nodes, seven routing functions, `compute_recursion_limit` | only code that passed lint, tests and review in its present version is delivered; every run ends, within the recursion limit; its status tells what happened; nothing committed is thrown away | `IssueGraph`, `IssueOutcome` |
| Project lock (`metadata_store.py`) | the file `.lock` and who has it locked | enter, leave, die, `force_unlock_project` | one holder; comes free when the holder dies | `ProjectLock` |
| Task execution (`execute_issue`, `run_task.py`, `state.json`) | satellite repository, `state.json`, local variables of each process | run, resume, fresh, reset, retry, recording | one execution at a time; no edit lost without an order; `consecutive_b7` counts as documented; no endless automatic retry | `TaskExecution` |
| Nightly worker (`nightly_task_worker.py`, processes of `agy_client.py`) | iteration, queue, failure counter, stop event, process tree | loop, wait, select, run, time out, judge | stop requests end it; wakes at the configured times; never two agents of live orchestrators in one satellite; stops when agy refuses service | `NightlyWorker` |
| Coder call (`edit_guard.py`, `agy_runner.py`, `agy_client.py`, `backend_coordinator.py`, `code_node`) | work tree and index, the agy process and its children, `target_files` | call, time out, kill, classify, roll back, extend the targets | what was not permitted is undone, what was permitted stays; the clean-up starts after the agent has ended, and beside which of its processes is known; every call ends | `CoderCall`; routing and policy only as outcomes of a call |
| Issue life cycle (`promote_issue.py`, `issue_spec_manager.py`, `close_stale_issues.py`) and the synchronisation of `periodic_review_runner.py` | GitHub issues and labels, lines of `tasks.md`, `docs/issues/<TASK_ID>.md` | promote, synchronise, repair, register, close | one line per issue; an id stands for one issue; only approved issues are taken up; an approval arrives | `IssueRecords` |
| Periodic review (`periodic_review_runner.py`, `run_review.py`) | `review_state.json`, GitHub issues | find the window, ask agy per theme, open issues, note the commit | no change is left out, duplicates do not pile up | `ReviewRunner` |
| LLM client (`llm_client.py`) | none | call with fallback | an unusable answer is not taken for approval | its answers in `IssueGraph` |
| Execution history and events (`metadata_store.py`) | `history.jsonl`, event files | rewrite under a FileLock whose timeout is swallowed | | no ([section 6](#6-what-is-not-modelled)) |
| Scoring and screening, registration, doctor, sanitizer, configuration and prompts, Ollama models, language verifiers, metadata helpers | caches and configuration files | batch computations, scripts, checks | | no ([section 6](#6-what-is-not-modelled)) |

### What is hard

* **Interleaving.** `state.json` is read, changed and replaced as a whole without a
  lock of its own; `run_task.py` works on the repository before the process that
  takes the project lock exists; `force_unlock_project` removes a lock file that
  somebody may hold. Four programs read `tasks.md`, work on what they read and write
  the whole file back, while a run may stash, restore or delete it.
* **Crashes and timeouts.** The worker kills a process tree at any point, with the
  lock taken, a branch half made, agy still editing. The next run starts from what
  it finds.
* **Long legal sequences.** Edits move through stash, WIP commit, rebase, backup
  branch, `branch -D`, hard reset, depending on recorded status, options, and
  where the last run stopped. Four retry budgets and one timeout counter mix in
  one graph with a recursion limit computed by hand.
* **Stale state.** Keys popped from a LangGraph state keep their channel's value;
  `empty_diff_detected` is never cleared; `consecutive_b7` must survive every path
  that rewrites an entry without it; the worker reads an error category from
  files nothing writes.
* **Partial failure.** `git status`, `git switch`, `git restore`, commit, push and pull
  request fail one by one, and some failures are taken for success. A promotion writes
  three places and may stop between them; a review that agy refused counts as made.
* **An adversary by accident.** The coding agent has all permissions in the work
  tree: it stages and moves files, edits `.gitignore`, starts processes that outlive
  it. The guard looks at the result through `git status` alone.

`PROJECT.json` lists these hazards one by one, at their lines, with the properties
that watch them.

## 2. The modules and the code

| Module | Lines of code it stands for | Content |
|---|---|---|
| `IssueGraph` | nodes and routers of `orchestrator_graph.py` | the workflow of one issue; one action per super-step: a node *and* the router after it |
| `IssueOutcome` | | the abstract promise of a run: working, delivering, stopped |
| `IssueGraphProofs` | | theorems about `IssueGraph` |
| `ProjectLock` | `ProjectLockManager`, `force_unlock_project` | the lock as files, names and handles |
| `ProjectLockProofs` | | theorems about `ProjectLock` |
| `TaskExecution` | `execute_issue`, `run_task.py`, `update_task_state`, `reset_task_state` | processes that share lock, `state.json` and repository; composes `ProjectLock` (`Lock == INSTANCE ProjectLock`) |
| `TaskExecutionProofs` | | theorems about `TaskExecution`, on top of those about the lock |
| `NightlyWorker` | `run_loop`, `run_batch_cycle`, `_run_with_tree_kill`, `_run_agy` | the worker's loop and the processes it starts and kills |
| `CoderCall` | `code_node`, `run_agy_edit`, `_run_agy`, `edit_guard.py` | one call of the coding agent and the guard that undoes what was not permitted |
| `IssueRecords` | `promote_issue.py`, `issue_spec_manager.py`, `close_stale_issues.py`, `sync_*` of the review programs, the cleaning of the satellite | GitHub, `tasks.md` and specifications, and everybody who writes them |
| `ReviewRunner` | `periodic_review_runner.py`, `run_review.py` | which changes a review looks at and which findings become issues |
| `NightlyWorkerProofs`, `CoderCallProofs`, `IssueRecordsProofs`, `ReviewRunnerProofs` | | theorems about these modules |
| `IssueGraphClaims`, `TaskExecutionClaims`, `NightlyWorkerClaims`, `CoderCallClaims`, `IssueRecordsClaims`, `ReviewRunnerClaims` | | sentences of the repository that the code does not keep |
| `MCTaskExecution`, `MCNightlyWorker` | | symmetry sets, constants and bounds for TLC |

Operators commented "Faulty variant" are what a plausible mistake would make of
the definition that follows them; they are used to see that each property
notices such a mistake (`PROJECT.json`, "mutants"), never by a specification.

### IssueGraph

`status`, `errorCategory`, `llmTimeouts`, the counters, `feedback`
(`aider_message`), `testRc` and `emptyDiff` are the fields of `GraphState` that
control flow or a property depends on; `node` is LangGraph's position. Texts are
reduced to where they come from. The satellite repository is two facts: which kinds
of files are changed (`dirty`: ones that `done_node` stages, and others) and whether
the work branch has commits over base (`ahead`). Every answer of a language
model, ruff, pytest, JEV, git or gh is nondeterministic. `gates`, `reviewer`, `fault`
and `steps` are history variables; `steps` counts super-steps up to the recursion
limit, where it stays.

Modelled as the code has them, and worth knowing when reading: an unparsable review
counts as LGTM (`ReadAsLgtm`), JEV refuses empty diffs before it is asked
(`JevAnswers`), a popped key keeps its value (`SpecDraftNode`), and `done_node`
takes `sbos/<issue>` for the work branch whatever prefix is configured
(`HeadBranch`). Assumed: the coder does not run `git commit`, which its prompt forbids
(`config/prompt.yaml:35`).

### ProjectLock

The operating system locks a file, not a name. `path` is the file the name leads to,
`open` the handles, `owner` the locks. `PosixUnlink` tells the two platforms apart:
where an open file can be removed, the next process creates and locks another file
under the same name. That dying closes files and gives up locks is the operating
system's part and marked external in the map.

### TaskExecution

A process carries out one request after another (`job`, `pc`). The grain is what
others can observe: reading and replacing `state.json` are two steps
(`Load`/`Save`, `Forget`/`Erase`), `run_task.py`'s safeguard and wipe are two steps,
preparation under the lock is one step with every way it may stop
(`ResumeReady`, `ResumeStops`, `FreshReady`, `FreshStops`). The graph is reduced to
`EditCode`, `GiveUp`, `Deliver` and `Raise`; `IssueGraph` has the rest. Code is a set of
*edits*, `<<issue, number of the execution>>`, that are in the worktree, on a branch,
pushed, or on the shelf (stashes and backup branches).

`GitMayFail` switches on failures of `git status` and `git switch` that the code takes
for success. Other failures of git are always possible. Abstracted: merges into
`base` (a human's), files that are not tracked, the execution history, failure
reports, a `state.json` damaged from outside, work branches without an `origin/base`.

### NightlyWorker

One action per step of `run_loop` and `run_batch_cycle`; the execution under way is
reduced to which of its processes is at work and what came of it. Time counts in
ticks; `NextTarget` is `get_next_target_time`. `leftover` is what is in the files
the worker reads error categories from; nothing in the repository writes them.

A kill need not reach the whole tree (`AfterKill`). On Windows `taskkill` may fail, of which
`_run_with_tree_kill` only logs the return code; on POSIX (`Posix`) `agy_client.py` has started
agy in a session of its own, which `killpg` misses. `left` counts what has survived in each
project: an orchestrator that is started, in its graph or waiting for agy, or agy alone.
Survivors go on (`SurvivorActs`) and an orchestrator among them keeps the project lock
(`Locked`), so that the worker's next execution of the project is skipped. Forced unlocking is
`ProjectLock`'s subject and left out here.

### CoderCall

`tree` and `index` give each file a content: nothing, a human's or the agent's edit,
or the `HEAD` content of a file; that is enough to derive `git status --porcelain`
(`StatusLines`), on which alone the guard acts. `Violations` and `Revert` are
`detect_unauthorized_changes` and `rollback_unauthorized_changes`, one action per line,
each git command and `unlink` succeeding or not. A call starts in one of five ways
(`Unrouted`, `Refuse`, `Deny`, `NotFound`, `Spawn`) that differ in whether the clean-up
runs. `proc` is agy, `child` a process it has started: in agy's process group with agy's pipes
open (`group`) or with its output redirected (`quiet`), or in a group of its own (`detached`).
`communicate` waits for the end of agy and of file on the pipes, so `Returned` leaves a quiet
child at work, which nothing kills after a normal return; `ChildAfterKill` is
`_terminate_process_tree` on the two platforms. `escaped` is history: the files that
the clean-up could not see or failed to undo, all files once a surviving process has written
after the clean-up's `git status`, and tracked files that git status lists
twice because the agent took them out of the index (`Twice`): what the first line
restores, the second deletes. `ExtendTargets` is what `code_node` does after
success, when whatever `git status` names becomes part of `target_files`. Only
callers in the tests let the snapshot manage `.gitignore`; `Managed` has both. Abstracted:
directories and their removal (`code_node` lists a new one as one name), copies (git reports none by default), and the prefixes
`.aider`, `.agy` and `.pytest` the guard passes over.

### IssueRecords

`gh` is GitHub, `tasks` and `specs` are the files in the work tree, `saved` is what
the base branch has of them; `tool` holds what each program has read, `run` the run of
one task. Every program is split where others can come between: at each call of gh and
each read and write of a file; repairing specifications (`SyncHeal`) is one step. Ids
are given in ascending order and nothing deletes a line, so a line's id is its
position. `TagIn` is the substring test of `sync_to_tasks_md`. A run meets the
records four times: `Clean` (stash or refusal), `Load` (the specification), `Rollback`
(the guard takes them for the agent's work) and `AlreadySatisfied` (the base branch by
force, then the mark). `lost` and `named` are history. Left out: the label of issues in
progress, because `periodic_review_runner.py:265` asks for `stage:in_progress` and
`add_project.py:134` and `doctor.py:43` create `stage:in-progress`, so that the branch is never
taken; the form of a line, but for the one case where promotion writes a line the
worker cannot parse (`garbled`).

Two things the code does and its documents deny are in the properties by name. `RaisedBy` are the
approved issues and those whose number begins with an approved one's: promotion may raise
those too. `Unstaged` are lines without a readable stage: the synchronisation replaces
`stage:ideation` and nothing else, so the approval of such an issue does not arrive.

### ReviewRunner

A commit is the tree of code files it holds, a version for each file; that a file is not there is a
version too. `Changed` is the net difference of two trees (`git diff --name-only`). HEAD may
move to any tree: forward, to one that takes a change back, to another branch and back
again. The work tree is taken to be as HEAD has it. `runner[r].mem` is the state file as it was
read at the start, `cache` the file, `tmp` the temporary file all runners share.

A finding is the file it is about; an answer of agy is a bag of them (`found`), because
`check_duplicates` compares items with the fetched open issues and never with each other. A
fetched list may lack open issues (`FetchIssues`): none at all when gh fails, all but 100
otherwise; `unfetched` counts that.

`settled` is history: the versions of files, each with a theme, that agy has looked at, and those
that a swallowed failure, the limit of the prompt, `--theme` or a HEAD that moved during the
review left out. A version that was reverted in between and is back counts as looked at; the
code does not look at it again.

## 3. The runs

The comment of each property in its module says what it means and which code it is
about. Runs that are expected to pass:

| Run | Bounds | Shows |
|---|---|---|
| `graph_safety` | `MaxRound` 3, as `execute_issue` sets it | `TypeOK`; `RecursionLimitNotReached`: the hand-computed limit is above the longest run; `DeliversVerifiedCode`; `CompletedMeansPublished`; `StatusTellsWhy`; `SecondTimeoutEndsRun`; `CommitsSurvive`; `Termination`; `KeepsPromise`: `IssueGraph` implements `IssueOutcome` |
| `lock` | 4 processes, 5 files, no `PosixUnlink` | `MutualExclusion` with forced unlocks and crashes |
| `serial` | 1 process, 2 issues, 3 requests of every kind and option, crashes | `TypeOK`, `EditsSurvive`, `CountIsTrue`, `NoThirdAutomaticResume` |
| `concurrent` | 2 processes on one issue, 2 requests, executions and resets, failing git | `OneRunAtATime`, `LockIsFreed` |
| `nightly` | 3 tasks of one project, 2 per batch, 2 iterations, 1 configuration error, 3 ticks, a day of 3 with slots 0 and 2, Windows, `taskkill` may fail | `TypeOK`, `WakesAtNextSlot`, `OneAgentAtATime`, `IterationLimitHolds`, `StopEndsWorker` |
| `coder_call` | 6 files, 2 calls, 2 acts of the agent, both platforms, children of every kind, failing git | `TypeOK`, `NothingUnauthorizedLeft`, `AgentIsOver`, `PermittedWorkSurvives`, `TargetsGrowByPermission`, `CallEnds` |
| `records` | issues 1 and 12, 3 starts of programs, crashes or acts of humans (labels, lines, commits) | `TypeOK`, `OneLinePerIssue`, `ReadyMeansApproved`, `TaskIdKeepsItsIssue`, `SpecMatchesTask`, `RunsWhatWasSelected`, `SyncMirrors`, `TickedStaysTicked` |
| `records_repair` | the same without commits, with fairness | `ApprovalArrives` |
| `review` | 2 runners, 1 file with 2 versions, 2 themes, 2 issues per review, 1 fault, any number of moves of HEAD | `TypeOK`, `NothingForgotten`, `DuplicatesDoNotPileUp` |
| `review_live` | 1 runner, 2 files with 2 versions, 1 file per prompt, 2 themes, no issues, 1 fault, any number of moves of HEAD | `ChangesAreReviewed` |

Runs that are expected to find a violation, each for one sentence of the repository
(section 5): `claim_unlocked_clean`, `claim_prefix_raised`.

**Why the bounds are enough.** `MaxRound` 3 is the program's own constant, so
`graph_safety` is no approximation of the control. Five files are one more than four processes
can have open, so a fresh one always exists. A lost edit takes one execution that
makes it, one that moves it and one that destroys it; the third automatic resume takes two
failures and a third start: three requests cover both. Two processes are needed for every race
found here, one to hold the lock and one to come along. `run_task.py` is left out of
`concurrent` because it does not respect the lock: `claim_unlocked_clean` is that
case. `serial` has no `GitMayFail`: the configuration `status_fails` (section 5) is that
case. In the nightly run a day of three ticks with two slots has a slot at
midnight, a gap, and a wait across midnight; tasks 1 and 3 share a score, so the stable sort
matters. All tasks are of one project, since executions of different ones share no lock and
no satellite; two batches of two let up to three survivors of failed kills meet an execution. The six files of `coder_call` are one of each kind the guard tells apart: the
target, which is new; a tracked file that the globs match and one that they do not; a
new one that they match and one that they do not and that an edited `.gitignore` hides;
`.gitignore` itself. Files a human has edited before the run are left to the proofs,
which hold with them. Two acts are what moving and then editing takes, two calls what it takes for
a process of the first to disturb the second; `git rm --cached` and quoted names are left to the
claims of section 5. Issue 1 of `records` is the beginning
of issue 12, the case `claim_prefix_raised` is about, and both are within the fetch limit; three
starts let two programs overlap, or one die, be started again and meet a run. `records` and
`records_repair` have the same state space but for human commits, which only take something
from the file a run may restore; together they do not finish in a few minutes. In `review` two
versions are what reverting takes, and a HEAD that moves without limit gives any history of
them; the fault may be a list that lacks an open issue, so that a runner opens what is open
already. Files do not influence each other but through the limit of the prompt, which `review_live`
has with one file too many for it; it opens no issues, because whether one is opened has no
influence on what is looked at. Deadlock is not checked where requests or iterations
run out; `IssueGraph` has an explicit `Terminated`.

**Symmetry.** Processes and issues in `serial`, runners and versions in `review`: the
properties treat them alike, and neither run checks liveness.

**Fairness.** `IssueGraph`: `WF(Step)` - one thread, and every call of a node (LLM, agy,
ruff, pytest, git, gh) has a timeout. `TaskExecution`: `WF(Work(p))` for every
process - the same, and nobody waits for the lock (timeout 0). Starting and crashing are
not fair. `NightlyWorker`: `WF(Worker)` and `WF(Timeout)`, the `wait` with a timeout
in `_run_with_tree_kill`; nothing is assumed of the clock, agy or humans.
`CoderCall`: `WF(Guard)` - `communicate` has a timeout and so has every git command of the
clean-up; nothing is assumed of the agent. `IssueRecords`: WF of the periodic
program's steps, which a schedule starts over and over. `ReviewRunner`: `WF(Review(r))`
as above, and `SF` of loading the whole tour: the schedule asks for all satellites
and themes again and again, whatever else is started in between.

## 4. The proofs

All theorems are checked by tlapm with SMT, Zenon and, for temporal steps, LS4. They hold for
every value of the constants that satisfies the named assumptions.

**IssueGraphProofs** (any `MaxRound`, default or custom prefix unless the property says
so). The properties of `graph_safety` are not inductive: that the recursion limit is
not reached depends on all counters at once. `BudgetInv` bounds `steps` by what each
node's counters have used up plus what is `Remaining` from the present node; the
longest run takes 8 + 12 * (max_round - 1) super-steps, the limit is larger.
`GateInv` relates the position to the gates the current code has passed,
`DeliveryInv` relates worktree, branch and the empty-diff flag before `done_node`,
`ReasonInv` ties every error category to the counter that explains it, because
`escalate_node` settles the status from the category alone. From these follow
`TypeCorrect`, `LimitNotReached`, `OnlyVerifiedCodeDelivered`,
`CompletedIsPublished`, `CommitsAreKept`, `TimeoutsAreLimited`, `StatusIsExplained` and
`ImplementsOutcome`, the safety part of the refinement.

**ProjectLockProofs** (`PosixUnlink = FALSE`, any number of processes and files).
Mutual exclusion needs `OneLockFile`: a file that somebody has open is the file the name leads to.
`LockExcludes` concludes. With `PosixUnlink` it is false (section 5).

**TaskExecutionProofs.**
* `TypeCorrect`: a plain typing is not inductive, since a step reads
  `job[p].req.issue`. `Control` says which part of `job[p]` is there at which `pc[p]`
  (`Equipped`); `Store` and `Code` type the rest.
* `ExecutionsUseTheLock`: `Spec => Lock!Spec`, so results about the lock carry over.
* `OneExecutionAtATime` (`PosixUnlink = FALSE`): `SectionLocked`, a process between
  `decide` and `release` holds the lock, with `LockExcludes`.
* `NoEditIsLost` (`EntryPoint \subseteq {"execute"}`; any number of processes, git may
  fail): edits made are kept or discarded by order. Invariant: `Tidy` - a branch that does
  not exist holds nothing, and what was pushed from a branch is still on it, on the shelf,
  in base or discarded, so that a forced push cannot drop the last copy - and
  `HeadExists`, so that a commit never lands on a branch that is then recreated empty. Each
  repository operation is shown once to keep both and all edits (`SafeOps`,
  `SafeBranchOps`, `SafeCreation`), the preparation then by composing them. Preparation
  is one step of the model because of `OneExecutionAtATime`.
* `NoEditIsLostByHand` (`OneProcess`, `GitMayFail = FALSE`; every entry point and option):
  the same with cleanings, resets and retries. It needs `Sheltered` besides: nothing is
  committed to base, which a cleaning resets; `wipe` is reached with a clean tree or
  `--force`; a run goes on on its own branch. With two processes (`claim_unlocked_clean`)
  or a failing `git status` (`status_fails`) it is false.
* `RowIsCounted`, `NoResumeAfterTheRow` (`OneProcess`): `Counted` says that what a process
  has read of `state.json` and still uses is what is there (`OwnView`), that the count it
  is to record continues the row (`CountDue`), that a status one can resume from is how
  the last graph run ended (`StatusIsLast`), and what a run that was let through has
  passed (`GuardPassed`). With two processes updates get lost (`lost_update`).

**NightlyWorkerProofs** (any tasks, scores, limits, slots, length of day).
* `TypeCorrect` includes that a batch never has more than `MaxTasks` tasks: the
  numbers of candidates before those selected are distinct and below `MaxTasks`
  (`BestIsLimited`).
* `LimitHolds`: every batch takes up an iteration, and one to come finds one left (`BatchesOK`).
* `WakesInTime`: while the worker sleeps, `wake` is `NextTarget(since)` (`WaitOK`), and
  `NextTarget` is the first slot after `since` (`NextTargetIsNext`, with the arithmetic of
  `\div` and `%`), across midnight too.
* `OneAgent`, on both platforms and with failing kills: `OneHolder` says that in each project at
  most one orchestrator, of the present execution or a survivor, is past `TakeLock`. That a kill
  leaves nothing at all is false (`NightlyWorkerClaims_orphan`).

**CoderCallProofs** (any files, globs, targets, powers of the agent, quoted names and
human edits). `TypeCorrect`; `CleanUpAfterTheAgent`, which says beside which processes of agy's
group the clean-up may run, and that agy itself is over; and
`CleanUpSettles`: the lines of git status are undone in any order and each may fail, so the
invariant has to say of every file outside `target_files` that it is settled - as in HEAD,
permitted, escaped, or moved to a permitted name - or that a line still to be undone
names it, and of every such line that undoing it touches no protected or permitted name.
`CleanUpIsComplete` and `PermittedWorkKept` follow. `TargetsGrowOnlyByPermission` has the
hypothesis `SnapshotIsHarmless`: git tracks `.gitignore`, or the snapshot leaves it
alone. Without it a tracked file moved onto an untracked `.gitignore` joins
`target_files`, because restoring the snapshot takes the name out of the index again;
`code_node`'s own snapshot leaves it alone, so the code is within the hypothesis.

**IssueRecordsProofs** (any issues, numbers and limits). `Types` types what each program
holds at each of its steps, which includes that no text has two lines of an issue; a step
keeps the file's lines or sets `lost` (`Grows`), because a program between reading and
writing holds the file's lines and more. From these `TypeCorrect`, `OneLine`,
`NoLineUnticked`. `NamesKept`: an id was given to the issue of its line only
(`IdsAreStable`). `SpecsKept`: every specification is of its
line's issue, and so is the one a review is about to write under the id of the line it
appended (`SpecsBelongToLines`). `RunKept` says the same of a run. `Approved`: whatever is ready, in
the file, in a program's copy, in git or in what was fetched from GitHub, was approved
(`NothingUnapprovedIsReady`, with `RunKept` `RunsAreOfTheirIssue`), or begins with the number of
one that was (`RaisedBy`), of which `claim_prefix_raised` is an example. `SyncCatchesUp`: the text a synchronisation computes has every fetched issue as
GitHub has it (`SyncedText`), but for the stage of `Unstaged` lines.

**ReviewRunnerProofs** (any satellites, files, themes, runners, limits). `TypeCorrect`.
`DuplicatesAreFew`: the open issues of a finding, together with those that runners who have
fetched a list without it may still open (`Opening`), stay below the bound (`PileInv`). A fetched
list that was complete and shows no open issue proves that there was none, so the count starts from
nothing; an incomplete one is paid for by `unfetched`.
`NothingIsForgotten`: `MemoryInv` says of the state file, of the temporary file all runners
write, and of what each runner has in memory, that every file, as the recorded commit has it, is
settled under every theme (`Remembers`), and of the head a review started from that it is but
for the files and themes the review still has to look at. Net differences then suffice: what does
not differ from the recorded commit is what the recorded commit has.

**Only model-checked:** everything under fairness (`Termination`, the liveness part of
`KeepsPromise`, `LockIsFreed`, `StopEndsWorker`, `CallEnds`, `ApprovalArrives`,
`ChangesAreReviewed`), which is beyond this prover together with ENABLED. Of `Termination` the
safety part is proved: every super-step is counted (`EveryStepCounts`) and the count has a
bound (`LimitNotReached`). All invariants and action properties of the runs that are
expected to pass are proved, those of `serial` for one process as in the run.

## 5. Disagreements between the code and its documents

Violated as expected, each by a run:

| Run | Sentence | Code |
|---|---|---|
| `claim_unlocked_clean` | DD-003 9.1, 10.2: cleanup happens inside `ProjectLockManager` | `run_task.py` cleans before anybody takes the lock |
| `claim_prefix_raised` | DD-007 (issues) 2: an issue labelled `stage:ideation` is kept out of implementation | `promote_issue.py:274` looks for `issue:#1` in the line and also raises `issue:#12` |

Further disagreements, met on the way and kept as configurations that can be run
by hand (`tlc -config <configuration>.cfg <module>`). Each is violated as well; TLC stops
at the first violation, so `IssueGraphClaims.cfg` names one of its four properties and has the
others as comments to exchange it for:

| Configuration | Sentence | Code |
|---|---|---|
| `IssueGraphClaims` (`UnparsableReviewSentBack`) | DD-006: an unparsable review is sent back | the fallback has no comments and is corrected to LGTM |
| the same (`EmptyDiffCanBeApproved`) | `orchestrator_graph.py:1556`: an empty diff the reviewer approves completes the issue | JEV's pre-check refuses every empty diff: the branch cannot be reached, the issue ends as FAILED_B7 |
| the same (`AgyFailureKeepsItsClass`) | DD-003:364: auth and quota failures are recorded as such | `review_node` files all but timeouts under SYSTEM_ERROR |
| the same (`CoderFeedbackComesFromGates`) | DD-004:171: the coder's feedback comes from the gates | feedback on a rejected plan stays in its channel |
| `IssueGraphClaims_prefix` | DD-003:372: pull requests come from the configured prefix | `done_node` pushes `sbos/<issue>` |
| `TaskExecutionClaims_lost_update` | DD-007 (persistence) 3.1: only the given issue's entry is updated, atomically | read, change, replace of the whole file without a lock |
| `TaskExecutionClaims_human` | `metadata_store.py:369`: after the limit the issue is a human's | the guard records nothing and looks at the last *status*; one SKIPPED_LOCKED or FAILED_SYSTEM in between disarms it |
| `TaskExecutionClaims_resume_edits` | DD-003:117: uncommitted changes become a WIP commit | `run_task.py --auto-stash` has stashed them before |
| `TaskExecutionClaims_switch_fails` | DD-003:117: a resumed run works on the issue's branch or stops | the result of the last of three attempts is not looked at |
| `TaskExecutionClaims_status_fails` | `run_task.py:60`: uncommitted changes are safeguarded before a cleanup | a failing `git status` reads as clean |
| `TaskExecutionClaims_posix` | DD-007 (persistence):78: forced unlocking is safe (`run_task.py:408`) | on POSIX a removed lock file leaves two holders |
| `NightlyWorkerClaims_breaker` | ADR 0002: two AGY_AUTH/AGY_QUOTA in a row stop the batch | the execution exits with 0 and the category is read from files nothing writes |
| `NightlyWorkerClaims_orphan` (`KillsTakeTheTree`) | DD-004:119, ADR 0001:29, TEST-001 L3-009: a timeout ends the whole tree | on POSIX agy is in a session of its own and survives `killpg`; on Windows a failed `taskkill` is only logged |
| `CoderCallClaims_untracked` | `rollback_unauthorized_changes`: tracked files are as in HEAD after the clean-up | after `git rm --cached` a file has two lines: the first is restored, then the `??` line deletes it |
| `CoderCallClaims_moved` | the same | `git mv` of a tracked file onto a target is one line with the target's name, and is passed over |
| `CoderCallClaims_quoted` | changes outside `target_files` are undone | names with octal escapes are taken literally, restore and `unlink` miss them |
| `CoderCallClaims_gitignore` | `code_node`: a `.gitignore` the coder changed is put back | it is checked out from the index, where the agent may have staged its change or removed it |
| `CoderCallClaims_authorised` | an untracked file that the globs do not match is deleted | a file that an edited `.gitignore` hid comes to light when `.gitignore` is put back, and becomes one of `target_files`, protected from then on |
| `IssueRecordsClaims_no_spec` | DD-007 (issues) 3.10: a nightly run has its specification | the line was selected, then the cleaning before the run stashes line and specification, which nobody has committed |
| `IssueRecordsClaims_draft` | DD-007 (issues) 3.10 item 2: it is the settled one | an issue approved by its label alone gets a specification from the body as it is, no approach chosen |
| `IssueRecordsClaims_renumbered` | DD-007 (issues) 3.10: records correspond one to one | after the lines are stashed away, the same ids are given to other issues |
| `IssueRecordsClaims_unstaged` (`PromotedIsSelectable`) | `promote_issue.py` logs the issue as raised to ready | a line without a stage gets a second comment and no longer parses |
| the same (`SyncRaises`; `tlc -continue` shows both) | `periodic_review_runner.py:211`: an open issue at `stage:ready` has its line updated | line 261 replaces `stage:ideation` only: a line without a stage stays as it is and is never taken up |
| `IssueRecordsClaims_number` | `resolve_task_id_for_issue`: the task of the number | without a line it is `KEY-<number>`, another issue's id |
| `IssueRecordsClaims_completed` | `done_node`: a task found done is marked and not taken up again | the mark is an uncommitted edit: the next run stashes it, and a program that has read the file before writes it over |
| `IssueRecordsClaims_stale` | `close_stale_issues.py` closes ideas only | the labels are those of the list, an issue approved since is closed too |
| `ReviewRunnerClaims_failed` | `periodic_review_runner.py:6`: the window starts at the commit of the last completed review | a review that agy refused or timed out returns 0, and the commit is noted |

## 6. What is not modelled

* Scoring and screening, sanitizer, prompts, language verifiers: functions from texts to
  texts or numbers; a model would be the text processing again.
* Registration, doctor, Ollama models: sequential scripts around git, gh and ollama that keep no
  state between calls.
* Configuration and metadata helpers: reading and validating files.
* Execution history and events: `record_execution_history` reads, extends and replaces one
  file, under a FileLock whose timeout is swallowed, so an entry may be lost; nothing in
  the repository reads it back, and each event is a file of its own.
* GPU lease: `GpuLeaseAdapter` has no caller left; the other routes of
  `backend_coordinator.py` and the conditions of `agy_policy.py` are functions of the
  configuration, their verdicts outcomes of `CoderCall`.
* Of reviews: `--status-only` and dry runs, severities, the words duplicates are
  recognized by, a state file read in the middle of a write.
* Of modelled components: what languages models write; the texts of messages and reports;
  merges by humans; files outside version control; the one-shot and dry-run modes
  of the worker; how lines of `tasks.md` are parsed; `state.json` damaged from outside.
* Leftover files of error categories are the environment's, and how far processes go that a
  kill has missed.

## 7. Plan

Order: the behaviour that can lose work first, then what decides, then what reports.

1. `IssueGraph`, refined to `IssueOutcome`; proofs. **Done.**
2. `ProjectLock`, `TaskExecution` composing it; runs with crashes, races and failing
   git. **Done.**
3. Proofs about both: types, one execution at a time, no edit lost, the count of failed
   runs. **Done.**
4. `NightlyWorker`, with proofs. **Done.**
5. `CoderCall`, with proofs. **Done.**
6. `IssueRecords`, `ReviewRunner`, with proofs. **Done.**
7. Composing the nightly worker with the records (a selected line that changes during a
   batch) is not planned: the worker keeps its list in memory, and what a stale
   list leads to is `RunsWhatWasSelected` and `IssueRecordsClaims_completed`.

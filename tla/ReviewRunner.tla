----------------------------- MODULE ReviewRunner -----------------------------
(***************************************************************************)
(* The periodic review: periodic_review_runner.py walks over the           *)
(* satellites, finds what differs from the commit review_state.json has    *)
(* for each, starts run_review.py once per theme and remembers the commit. *)
(* run_review.py fetches the issues, has agy look at the files and opens   *)
(* an issue for what is new.                                               *)
(*                                                                         *)
(* Several runners may be at work (a schedule and a human); the state file *)
(* is read at the start and written at the end of each.  A commit is the   *)
(* tree of code files it holds: HEAD may go anywhere, to a new commit, to  *)
(* one that takes a change back, to another branch and back again.  The    *)
(* work tree is that of HEAD.  A finding is the file it is about.  The     *)
(* synchronisation of the records is module IssueRecords.                  *)
(***************************************************************************)
EXTENDS Naturals, FiniteSets, Functions, TLC

CONSTANTS
  Satellite, File, Runner,
  Version,      \* what a file may hold, its absence included
  Theme,        \* the themes of a review, numbers in their order
  PromptLimit,  \* files named in a prompt (50 in build_review_prompt)
  MaxIssues,    \* --max-issues
  MaxFaults,    \* failures of git, gh and agy, lists cut short, and crashes
  NoCommit      \* no entry in review_state.json

Tree == [File -> Version]

ASSUME ReviewAssumption ==
  /\ Satellite # {}
  /\ Theme # {} /\ Theme \subseteq Nat
  /\ PromptLimit \in Nat \ {0} /\ MaxIssues \in Nat /\ MaxFaults \in Nat
  /\ IsFiniteSet(Runner)
  /\ NoCommit \notin Tree

VARIABLES
  head,      \* HEAD of each satellite
  cache,     \* review_state.json: last_reviewed_commit
  tmp,       \* review_state.tmp
  runner,    \* what each runner is doing
  issues,    \* per satellite and finding, the open issues
  settled,   \* history: the versions of files agy has looked at, and the theme, and
             \* those a failure, a limit, --theme or a moving HEAD left out
  unfetched, \* history: how often open issues were missing in a fetched list
  faults

vars == <<head, cache, tmp, runner, issues, settled, unfetched, faults>>
store == <<cache, tmp>>
github == <<issues, unfetched>>

Commit == Tree \cup {NoCommit}
Finding == Satellite \X File
NoFile == [s \in Satellite |-> NoCommit]
Nothing == << >>
NoFinding == [f \in File |-> 0]

Rest == [pc |-> "idle", mem |-> NoFile, todo |-> {}, sat |-> CHOOSE s \in Satellite : TRUE,
         head |-> NoCommit, files |-> {}, wanted |-> Theme, themes |-> {}, force |-> FALSE,
         ok |-> TRUE, known |-> {}, found |-> NoFinding]

At(r, step) == runner[r].pc = step
ThemeOf(r) == CHOOSE t \in runner[r].themes : \A u \in runner[r].themes : t <= u

\* git diff --name-only of two commits, code files only.
Changed(from, to) == {f \in File : from[f] # to[f]}

\* Files, as a tree has them, under some themes.
Views(tree, files, themes) == {<<f, tree[f], t>> : f \in files, t \in themes}
Settle(s, views) == settled' = [settled EXCEPT ![s] = @ \cup views]

Fault == faults < MaxFaults /\ faults' = faults + 1

Init ==
  /\ head \in [Satellite -> Tree]
  /\ cache = NoFile /\ tmp = Nothing
  /\ runner = [r \in Runner |-> Rest]
  /\ issues = [x \in Finding |-> 0] /\ unfetched = 0
  /\ settled = [s \in Satellite |-> {}]
  /\ faults = 0

----------------------------------------------------------------------------
(***************************************************************************)
(* main: the state is loaded once; --target takes one satellite, --theme   *)
(* one theme, --force reviews what has not changed.                        *)
(***************************************************************************)
Load(r, targets, themes, force) ==
  /\ At(r, "idle")
  /\ runner' = [runner EXCEPT ![r] = [Rest EXCEPT !.pc = "next", !.mem = cache, !.todo = targets,
                                                  !.wanted = themes, !.force = force]]
  /\ UNCHANGED <<head, store, github, settled, faults>>

\* The commit is noted in memory.
Noted(r, s, commit) == [runner[r] EXCEPT !.todo = @ \ {s}, !.mem[s] = commit]
Passed(r, s) == [runner[r] EXCEPT !.todo = @ \ {s}]

\* process_satellite up to the review.  Without an entry, everything is
\* reviewed; without a difference in code the commit is noted at once, and so it
\* is when git diff fails.
Inspect(r, s) ==
  LET last == runner[r].mem[s]
      full == last = NoCommit \/ runner[r].force
      files == IF full THEN File ELSE Changed(last, head[s])
  IN /\ At(r, "next") /\ s \in runner[r].todo
     /\ \/ /\ ~full /\ files = {}
           /\ runner' = [runner EXCEPT ![r] = Noted(r, s, head[s])]
           /\ UNCHANGED <<settled, faults>>
        \/ /\ full \/ files # {}
           /\ runner' = [runner EXCEPT ![r] =
                [@ EXCEPT !.pc = "fetch", !.sat = s, !.head = head[s], !.files = files,
                          !.themes = runner[r].wanted, !.ok = TRUE]]
           /\ Settle(s, Views(head[s], files, Theme \ runner[r].wanted))
           /\ UNCHANGED faults
        \/ /\ ~full /\ Fault
           /\ runner' = [runner EXCEPT ![r] = Noted(r, s, head[s])]
           /\ Settle(s, Views(head[s], files, Theme))
     /\ UNCHANGED <<head, store, github>>

\* git rev-parse fails: the satellite is passed over.
NoHead(r, s) ==
  /\ At(r, "next") /\ s \in runner[r].todo /\ Fault
  /\ runner' = [runner EXCEPT ![r] = Passed(r, s)]
  /\ UNCHANGED <<head, store, github, settled>>

----------------------------------------------------------------------------
(***************************************************************************)
(* run_review.py, once per theme.                                          *)
(***************************************************************************)
OpenOf(s) == {f \in File : issues[<<s, f>>] > 0}

\* The list is empty when it cannot be fetched, and stops at 100 issues.
FetchIssues(r) ==
  LET all == OpenOf(runner[r].sat)
      fetched(some) == runner' = [runner EXCEPT ![r].pc = "agent", ![r].known = some]
  IN /\ At(r, "fetch")
     /\ \/ fetched(all) /\ UNCHANGED <<unfetched, faults>>
        \/ /\ \E some \in SUBSET all : some # all /\ fetched(some)
           /\ unfetched' = unfetched + 1 /\ Fault
     /\ UNCHANGED <<head, store, issues, settled>>

\* Faulty variant: the last theme alone decides whether the review succeeded.
WithThemeDoneLast(r, ok) ==
  LET s == runner[r].sat
      left == runner[r].themes \ {ThemeOf(r)}
      clear == [runner[r] EXCEPT !.known = {}, !.found = NoFinding, !.themes = left, !.ok = ok]
  IN IF left # {} THEN [clear EXCEPT !.pc = "fetch"]
     ELSE [clear EXCEPT !.pc = "next", !.todo = @ \ {s}, !.files = {}, !.head = NoCommit, !.ok = TRUE,
                        !.mem[s] = IF ok THEN runner[r].head ELSE @]

\* Faulty variant: the findings of one theme are still there in the next.
WithThemeDoneKeeping(r, ok) ==
  LET all == runner[r].ok /\ ok
      s == runner[r].sat
      left == runner[r].themes \ {ThemeOf(r)}
      clear == [runner[r] EXCEPT !.known = {}, !.themes = left, !.ok = all]
  IN IF left # {} THEN [clear EXCEPT !.pc = "fetch"]
     ELSE [clear EXCEPT !.pc = "next", !.todo = @ \ {s}, !.files = {}, !.head = NoCommit, !.ok = TRUE,
                        !.mem[s] = IF all THEN runner[r].head ELSE @]

\* Faulty variant: the commit that is noted is the head at the end of the review.
WithThemeDoneLate(r, ok) ==
  LET all == runner[r].ok /\ ok
      s == runner[r].sat
      left == runner[r].themes \ {ThemeOf(r)}
      clear == [runner[r] EXCEPT !.known = {}, !.found = NoFinding, !.themes = left, !.ok = all]
  IN IF left # {} THEN [clear EXCEPT !.pc = "fetch"]
     ELSE [clear EXCEPT !.pc = "next", !.todo = @ \ {s}, !.files = {}, !.head = NoCommit, !.ok = TRUE,
                        !.mem[s] = IF all THEN head[s] ELSE @]

\* On to the next theme; after the last, the commit is noted if every call
\* of run_review.py returned 0.
WithThemeDone(r, ok) ==
  LET all == runner[r].ok /\ ok
      s == runner[r].sat
      left == runner[r].themes \ {ThemeOf(r)}
      clear == [runner[r] EXCEPT !.known = {}, !.found = NoFinding, !.themes = left, !.ok = all]
  IN IF left # {} THEN [clear EXCEPT !.pc = "fetch"]
     ELSE [clear EXCEPT !.pc = "next", !.todo = @ \ {s}, !.files = {}, !.head = NoCommit, !.ok = TRUE,
                        !.mem[s] = IF all THEN runner[r].head ELSE @]

\* The prompt names the first files only.
Prompted(files) ==
  IF Cardinality(files) <= PromptLimit THEN {files}
  ELSE {p \in SUBSET files : Cardinality(p) = PromptLimit}

\* agy answers: it has looked at the files of the prompt as HEAD has them by
\* now, and may have found the same thing more than once.
Answer(r) ==
  LET me == runner[r]
      s == me.sat
      theme == {ThemeOf(r)}
  IN /\ At(r, "agent")
     /\ \E prompt \in Prompted(me.files), found \in [File -> 0 .. MaxIssues] :
          /\ \A f \in File \ prompt : found[f] = 0
          /\ Settle(s, Views(head[s], prompt, theme)
                       \cup Views(me.head, me.files \ prompt, theme)
                       \cup Views(me.head, prompt \cap Changed(me.head, head[s]), theme))
          /\ runner' = [runner EXCEPT ![r] =
               IF found = NoFinding THEN WithThemeDone(r, TRUE)
               ELSE [me EXCEPT !.pc = "open", !.found = found]]
     /\ UNCHANGED <<head, store, github, faults>>

\* Denied by the policy, timed out, failed or unreadable: run_agys_review
\* returns no findings, and main returns 0.
NoAnswer(r) ==
  LET me == runner[r]
  IN /\ At(r, "agent") /\ Fault
     /\ Settle(me.sat, Views(me.head, me.files, {ThemeOf(r)}))
     /\ runner' = [runner EXCEPT ![r] = WithThemeDone(r, TRUE)]
     /\ UNCHANGED <<head, store, github>>

\* run_review.py itself ends with an error or is killed.
ReviewFails(r) ==
  /\ runner[r].pc \in {"fetch", "agent", "open"} /\ Fault
  /\ runner' = [runner EXCEPT ![r] = WithThemeDone(r, FALSE)]
  /\ UNCHANGED <<head, store, github, settled>>

\* Faulty variant: no state of an issue is taken for open (state == "open").
UniqueOfAll(found, known) == found

\* check_duplicates: an open issue stops a finding, a closed one does not, nor
\* does another item of the same answer.
Unique(found, known) == [f \in File |-> IF f \in known THEN 0 ELSE found[f]]

\* filter_and_cap_issues and create_github_issue; an issue that cannot be
\* created is logged and forgotten.
OpenIssues(r) ==
  LET s == runner[r].sat
      unique == Unique(runner[r].found, runner[r].known)
  IN /\ At(r, "open")
     /\ \E new \in [File -> 0 .. MaxIssues] :
          /\ \A f \in File : new[f] <= unique[f]
          /\ SumFunction(new) <= MaxIssues
          /\ IF SumFunction(new) < MaxIssues /\ new # unique THEN Fault ELSE UNCHANGED faults
          /\ issues' = [x \in Finding |-> issues[x] + (IF x[1] = s THEN new[x[2]] ELSE 0)]
     /\ runner' = [runner EXCEPT ![r] = WithThemeDone(r, TRUE)]
     /\ UNCHANGED <<head, store, unfetched, settled>>

----------------------------------------------------------------------------
(***************************************************************************)
(* save_review_state: one temporary file, whoever writes it.               *)
(***************************************************************************)
\* What the runner has in memory is of no use to it from here on.
WriteTmp(r) ==
  /\ At(r, "next") /\ runner[r].todo = {}
  /\ tmp' = runner[r].mem
  /\ runner' = [runner EXCEPT ![r] = [Rest EXCEPT !.pc = "replace"]]
  /\ UNCHANGED <<head, cache, github, settled, faults>>

\* The other runner may have moved the file away already.
Replace(r) ==
  /\ At(r, "replace")
  /\ cache' = IF tmp = Nothing THEN cache ELSE tmp
  /\ tmp' = Nothing
  /\ runner' = [runner EXCEPT ![r] = Rest]
  /\ UNCHANGED <<head, github, settled, faults>>

Crash(r) ==
  /\ ~At(r, "idle") /\ Fault
  /\ runner' = [runner EXCEPT ![r] = Rest]
  /\ UNCHANGED <<head, store, github, settled>>

----------------------------------------------------------------------------
\* A commit, one that takes others back, or another branch.
MoveHead(s, tree) ==
  /\ head' = [head EXCEPT ![s] = tree]
  /\ UNCHANGED <<store, runner, github, settled, faults>>

CloseIssue(x) ==
  /\ issues[x] > 0
  /\ issues' = [issues EXCEPT ![x] = @ - 1]
  /\ UNCHANGED <<head, store, runner, unfetched, settled, faults>>

Review(r) ==
  \/ Load(r, Satellite, Theme, FALSE)
  \/ (\E s \in Satellite : Inspect(r, s))
  \/ FetchIssues(r) \/ Answer(r) \/ OpenIssues(r)
  \/ WriteTmp(r) \/ Replace(r)

Next ==
  \/ \E r \in Runner :
       \/ Review(r)
       \/ (\E some \in {{s} : s \in Satellite} \cup {Satellite},
             some_themes \in {{t} : t \in Theme} \cup {Theme}, force \in BOOLEAN :
             Load(r, some, some_themes, force))
       \/ (\E s \in Satellite : NoHead(r, s))
       \/ NoAnswer(r) \/ ReviewFails(r) \/ Crash(r)
  \/ (\E s \in Satellite, tree \in Tree : MoveHead(s, tree))
  \/ (\E x \in Finding : CloseIssue(x))

Spec == Init /\ [][Next]_vars

\* The schedule starts the whole tour again and again, whatever else is started
\* in between; a tour ends, since agy and git have timeouts.
FairSpec ==
  Spec /\ \A r \in Runner : WF_vars(Review(r)) /\ SF_vars(Load(r, Satellite, Theme, FALSE))

\* Runners, files and versions have no order, and safety asks for none.
Alike == Permutations(Runner) \cup Permutations(File) \cup Permutations(Version)

----------------------------------------------------------------------------
\* Every variable keeps its type.
TypeOK ==
  /\ head \in [Satellite -> Tree]
  /\ cache \in [Satellite -> Commit]
  /\ tmp = Nothing \/ tmp \in [Satellite -> Commit]
  /\ \A r \in Runner :
       /\ runner[r].pc \in {"idle", "next", "fetch", "agent", "open", "replace"}
       /\ runner[r].mem \in [Satellite -> Commit] /\ runner[r].themes \subseteq runner[r].wanted
       /\ runner[r].files \subseteq File
       /\ \A f \in File : runner[r].found[f] > 0 => f \in runner[r].files
  /\ issues \in [Finding -> Nat] /\ unfetched \in 0 .. faults
  /\ \A s \in Satellite : settled[s] \subseteq File \X Version \X Theme
  /\ faults \in 0 .. MaxFaults

\* Nothing is forgotten: what HEAD has and the difference from the recorded commit
\* does not name, agy has looked at under every theme, as HEAD has it.  The
\* exceptions are what a swallowed failure, the limit of the prompt or --theme left
\* out, and what was not the version of the noted commit when agy came to look
\* (process_satellite reads HEAD before the review and notes it afterwards).
NothingForgotten ==
  \A s \in Satellite : cache[s] # NoCommit =>
    Views(head[s], File \ Changed(cache[s], head[s]), Theme) \subseteq settled[s]

\* Duplicates do not pile up: however many tours find the same thing, each runner
\* that is at work at the same time, and each list that lacked open issues, opens
\* the issues of one answer at the most (check_duplicates).
DuplicatesDoNotPileUp ==
  \A x \in Finding : issues[x] <= MaxIssues * (Cardinality(Runner) + unfetched)

\* Every version of a file that HEAD keeps is looked at under every theme in the
\* end, or falls under the exceptions of NothingForgotten.
ChangesAreReviewed ==
  \A s \in Satellite, f \in File, v \in Version, t \in Theme :
    head[s][f] = v ~> <<f, v, t>> \in settled[s] \/ head[s][f] # v
=============================================================================

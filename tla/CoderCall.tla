------------------------------ MODULE CoderCall ------------------------------
(***************************************************************************)
(* One call of the coding agent and the write-boundary guard around it:    *)
(* code_node (orchestrator_graph.py) -> run_agy_edit (agy_runner.py) ->    *)
(* _run_agy (agy_client.py), with the clean-up of edit_guard.py in the     *)
(* finally clause.  The agent works in the satellite's work tree with all  *)
(* permissions; afterwards everything outside target_files that git status *)
(* reports is undone, except new files that match allowed_new_file_globs,  *)
(* and what is still changed then becomes part of target_files.            *)
(*                                                                         *)
(* A file's content is "none", "user" or "agent" for an edit, or the name  *)
(* of the file whose HEAD content it has; git's index is kept beside the   *)
(* work tree because the guard acts on the status code, and a rename is    *)
(* one line that names two files.                                          *)
(***************************************************************************)
EXTENDS Naturals, FiniteSets

CONSTANTS
  File,        \* the files of the satellite
  InHead,      \* those HEAD contains
  Target,      \* target_files of the approved plan
  Glob,        \* the names allowed_new_file_globs matches, tracked ones included
  Gitignore,   \* .gitignore
  Hideable,    \* the files an edited .gitignore would ignore
  Dirtied,     \* files a human may have edited before the run, one at a time
  Quoted,      \* names git status prints with octal escapes
  Power,       \* what the agent may do besides writing and deleting files
  Platform,    \* subset of {"posix", "windows"}
  GitMayFail,  \* git or unlink may fail during the clean-up
  Managed,     \* manage_gitignore of the snapshot, a subset of BOOLEAN
  MaxCalls,    \* coder calls of one run
  MaxWrites    \* agent steps, over all calls

ASSUME FilesAssumption ==
  /\ InHead \subseteq File /\ Target \subseteq File /\ Glob \subseteq File
  /\ Gitignore \in File \ (Target \cup Glob)
  /\ Hideable \subseteq File /\ Quoted \subseteq File /\ Dirtied \subseteq File
  /\ File \cap {"none", "user", "agent"} = {}

ASSUME BoundsAssumption ==
  /\ MaxCalls \in Nat /\ MaxWrites \in Nat
  /\ Managed \subseteq BOOLEAN /\ GitMayFail \in BOOLEAN
  /\ Platform \subseteq {"posix", "windows"}

Outcome == {"none", "ok", "unrouted", "refused", "denied", "not_found", "timeout", "failed"}

VARIABLES
  platform,
  pc,       \* where the call is
  tree,     \* content of the work tree
  index,    \* content of git's index
  targets,  \* state["target_files"], which code_node extends
  before,   \* .gitignore as code_node read it before the call
  proc,     \* the agy process of this call
  child,    \* a process agy has started: in its process group with agy's
            \* pipes open, in the group with output of its own, or detached
  todo,     \* the status lines still to be undone
  outcome,  \* what run_agy_edit returns or raises
  escaped,  \* history: files this clean-up cannot see, cannot undo or lists twice
  calls, writes

vars == <<platform, pc, tree, index, targets, before, proc, child, todo,
          outcome, escaped, calls, writes>>
files == <<tree, index>>
process == <<proc, child>>
history == <<calls, writes>>

Content == InHead \cup {"none", "user", "agent"}
Head(f) == IF f \in InHead THEN f ELSE "none"
Clean(f) == tree[f] = Head(f) /\ index[f] = Head(f)

LineOf(xy, f, old) == [xy |-> xy, file |-> f, old |-> old]
Line == [xy : {"??", "A", "R", "M"}, file : File, old : File]

----------------------------------------------------------------------------
(***************************************************************************)
(* git status --porcelain -uall.  "M" stands for every code of a tracked   *)
(* file, deletions included; "A" for a staged new file.  A file that was   *)
(* removed from the index only has two lines, one tracked and one "??".    *)
(***************************************************************************)
Ignored == IF tree[Gitignore] = "agent" THEN Hideable ELSE {}

RenamedTo(f, g) == f \in InHead /\ g \notin InHead /\ index[f] = "none" /\ index[g] = f

StatusLines ==
  {LineOf("R", m[2], m[1]) : m \in {p \in File \X File : RenamedTo(p[1], p[2])}}
    \cup {LineOf("A", f, f) : f \in {g \in File \ InHead :
             index[g] # "none" /\ \A h \in File : ~RenamedTo(h, g)}}
    \cup {LineOf("M", f, f) : f \in {g \in InHead :
             /\ index[g] # g \/ tree[g] # g
             /\ \A h \in File : ~RenamedTo(g, h)}}
    \cup {LineOf("??", f, f) : f \in {g \in File \ Ignored :
             index[g] = "none" /\ tree[g] # "none"}}

\* Faulty variant: the agent's own new files are not in target_files.
IsProtectedInHead(f) == f \in (targets \cap InHead) \cup {Gitignore}

IsProtected(f) == f \in targets \cup {Gitignore}

\* Faulty variant: a tracked file that the globs match is kept as well.
RetainedByName(l) == l.file \in Glob

Retained(l) == l.xy \in {"??", "A"} /\ l.file \in Glob

\* Names that are permitted to appear: the globs match and git tracks no such file.
Permitted == {f \in Glob : f \notin InHead \/ index[f] = "none"}

\* Faulty variant: what the agent has staged is passed over.
UnstagedViolations ==
  {l \in StatusLines : l.xy # "A" /\ ~IsProtected(l.file) /\ ~Retained(l)}

Violations == {l \in StatusLines : ~IsProtected(l.file) /\ ~Retained(l)}

Unseen == {f \in Ignored : index[f] = "none" /\ tree[f] # "none"}

\* Tracked files that were removed from the index and are there: what the first
\* line restores, the second has deleted.
Twice == {f \in InHead : LineOf("??", f, f) \in Violations}

----------------------------------------------------------------------------
Init ==
  /\ platform \in Platform
  /\ \E dirty \in {d \in SUBSET Dirtied : Cardinality(d) <= 1} :
       tree = [f \in File |-> IF f \in dirty THEN "user" ELSE Head(f)]
  /\ index = [f \in File |-> Head(f)]
  /\ targets = Target
  /\ before = "none" /\ proc = "none" /\ child = "none"
  /\ pc = "idle" /\ outcome = "none" /\ todo = {} /\ escaped = {}
  /\ calls = 0 /\ writes = 0

\* A process an earlier call left behind is no part of this call's group.
Survivor == IF child = "none" THEN "none" ELSE "detached"

Begin ==
  /\ pc = "idle" /\ calls < MaxCalls
  /\ calls' = calls + 1
  /\ before' = tree[Gitignore]
  /\ escaped' = {}
  /\ UNCHANGED <<platform, files, targets, todo, writes>>

\* The call ends before anything has run, and nothing is cleaned up.
Declined(reason) ==
  /\ Begin
  /\ outcome' = reason /\ pc' = "return"
  /\ proc' = "none" /\ child' = Survivor

\* The intent has no route, or the profile a backend that is not agy.
Unrouted == Declined("unrouted")

\* The working directory is the mother repository, or a part of it.
Refuse == Declined("refused")

\* The external-send policy does not have the project, or there are secrets.
Deny == Declined("denied")

\* The clean-up runs although no agent did.
NotFound ==
  /\ Begin
  /\ outcome' = "not_found" /\ pc' = "status"
  /\ proc' = "none" /\ child' = Survivor

\* The agent may start a process that outlives it: a "group" one has inherited
\* agy's pipes, a "quiet" one is in the group with its output redirected, and a
\* "detached" one has a session of its own.  Which it will be is chosen with
\* the start of the agent.
Spawn ==
  /\ Begin
  /\ proc' = "running" /\ pc' = "agent" /\ outcome' = "none"
  /\ child' \in IF Survivor # "none" THEN {Survivor}
                ELSE {"none", "group", "quiet"} \cup (Power \cap {"detached"})

----------------------------------------------------------------------------
(***************************************************************************)
(* The agent, and what it leaves behind.                                   *)
(***************************************************************************)
Put(f, inTree, inIndex) ==
  tree' = [tree EXCEPT ![f] = inTree] /\ index' = [index EXCEPT ![f] = inIndex]

WriteFile(f) == \E c \in {"agent", "none"} \ {tree[f]} : Put(f, c, index[f])
GitAdd(f) == "stage" \in Power /\ index[f] # tree[f] /\ Put(f, tree[f], tree[f])
GitRmCached(f) ==
  "untrack" \in Power /\ index[f] # "none" /\ Put(f, tree[f], "none")
GitMv(f, g) ==
  /\ "move" \in Power /\ f # g
  /\ index[f] # "none" /\ tree[f] # "none" /\ tree[g] = "none" /\ index[g] = "none"
  /\ tree' = [tree EXCEPT ![f] = "none", ![g] = tree[f]]
  /\ index' = [index EXCEPT ![f] = "none", ![g] = index[f]]

\* A process that outlived its call writes as well.
AgentStep ==
  /\ writes < MaxWrites
  /\ proc = "running" \/ child # "none"
  /\ \/ \E f \in File : WriteFile(f) \/ GitAdd(f) \/ GitRmCached(f)
     \/ \E f, g \in File : GitMv(f, g)
  /\ writes' = writes + 1
  /\ escaped' = IF pc \in {"revert", "snapshot", "return"} THEN File ELSE escaped
  /\ UNCHANGED <<platform, pc, targets, before, process, todo, outcome, calls>>

ChildEnds ==
  /\ child # "none" /\ child' = "none"
  /\ UNCHANGED <<platform, pc, files, targets, before, proc, todo, outcome, escaped, history>>

AgentExits ==
  /\ proc = "running" /\ proc' = "exited"
  /\ UNCHANGED <<platform, pc, files, targets, before, child, todo, outcome, escaped, history>>

----------------------------------------------------------------------------
\* communicate returns when the process has ended and its pipes are closed,
\* which a "group" child keeps open.  Nothing is killed then, so a child whose
\* output is redirected stays at work.
Returned ==
  /\ pc = "agent" /\ proc = "exited" /\ child # "group"
  /\ outcome' \in {"ok", "failed"}
  /\ pc' = "status" /\ proc' = "none"
  /\ UNCHANGED <<platform, files, targets, before, child, todo, escaped, history>>

\* Faulty variant: only the process itself is killed.
ChildAfterProcKill == {child}

\* killpg reaches the process group; taskkill /T walks down from a process
\* that must still exist, and its failure is only logged.
ChildAfterKill ==
  IF platform = "posix"
    THEN {IF child \in {"group", "quiet"} THEN "none" ELSE child}
    ELSE {child} \cup (IF proc = "running" THEN {"none"} ELSE {})

\* Faulty variant: only a process that still runs is timed out, though its
\* children keep the pipes open.
TimeoutWhileAlive ==
  /\ pc = "agent" /\ proc = "running"
  /\ child' \in ChildAfterKill
  /\ proc' = "none"
  /\ outcome' = "timeout" /\ pc' = "status"
  /\ UNCHANGED <<platform, files, targets, before, todo, escaped, history>>

Timeout ==
  /\ pc = "agent"
  /\ child' \in ChildAfterKill
  /\ proc' = "none"
  /\ outcome' = "timeout" /\ pc' = "status"
  /\ UNCHANGED <<platform, files, targets, before, todo, escaped, history>>

----------------------------------------------------------------------------
(***************************************************************************)
(* rollback_unauthorized_changes.                                          *)
(***************************************************************************)
GitStatus ==
  /\ pc = "status"
  /\ todo' = Violations /\ escaped' = Unseen \cup Twice /\ pc' = "revert"
  /\ UNCHANGED <<platform, files, targets, before, process, outcome, history>>

\* A failed status means that nothing is undone; a status that timed out also
\* skips the snapshot of .gitignore, which is one way of passing through it.
GitStatusFails ==
  /\ pc = "status" /\ GitMayFail
  /\ escaped' = File /\ pc' \in {"snapshot", "return"}
  /\ UNCHANGED <<platform, files, targets, before, process, todo, outcome, history>>

Works(f) == IF f \in Quoted THEN {FALSE} ELSE IF GitMayFail THEN BOOLEAN ELSE {TRUE}

\* The paths git restore is called for.
RestoredBy(l) ==
  (CASE l.xy = "M" -> {l.file} [] l.xy = "R" -> {l.old} [] OTHER -> {}) \ Quoted

\* git rm, git restore and unlink, as far as the line calls for them.  The exit
\* status of git is not looked at, and an exception goes to the log.
Revert(l) ==
  \E rm, unlink \in Works(l.file), restore \in (IF GitMayFail THEN BOOLEAN ELSE {TRUE}) :
    LET staged == l.xy \in {"A", "R"}
        untracked == rm /\ staged
        gone == untracked \/ (unlink /\ (staged \/ l.xy = "??"))
        restored == IF restore THEN RestoredBy(l) ELSE {}
        undone == restored \cup (IF untracked \/ (gone /\ ~staged) THEN {l.file} ELSE {})
    IN /\ tree' = [f \in File |-> IF gone /\ f = l.file THEN "none"
                                  ELSE IF f \in restored THEN Head(f) ELSE tree[f]]
       /\ index' = [f \in File |-> IF untracked /\ f = l.file THEN "none"
                                   ELSE IF f \in restored THEN Head(f) ELSE index[f]]
       /\ escaped' = escaped \cup ({l.file, l.old} \ undone)

\* Tracked lines come first in the output.
UndoLine ==
  /\ pc = "revert"
  /\ \E l \in todo :
       /\ l.xy = "??" => \A k \in todo : k.xy = "??"
       /\ Revert(l)
       /\ todo' = todo \ {l}
  /\ UNCHANGED <<platform, pc, targets, before, process, outcome, history>>

\* With a snapshot that manages .gitignore, the saved content is written back
\* and then replaced by git restore.
RestoreSnapshot(manage) ==
  LET changed == manage /\ tree[Gitignore] # before
      content == IF Head(Gitignore) = "none" THEN before ELSE Head(Gitignore)
  IN IF changed THEN Put(Gitignore, content, Head(Gitignore)) ELSE UNCHANGED files

EndRollback ==
  /\ pc = "revert" /\ todo = {}
  /\ pc' = "snapshot"
  /\ UNCHANGED <<platform, files, targets, before, process, todo, outcome, escaped, history>>

Snapshot ==
  /\ pc = "snapshot"
  /\ \E manage \in Managed : RestoreSnapshot(manage)
  /\ pc' = "return"
  /\ UNCHANGED <<platform, targets, before, process, todo, outcome, escaped, history>>

----------------------------------------------------------------------------
(***************************************************************************)
(* code_node goes on.  After an error the tree stays as it is; after a     *)
(* success .gitignore is checked out from the index if its content is not  *)
(* what it was, and every file git status names becomes a target file.     *)
(***************************************************************************)
Fail ==
  /\ pc = "return" /\ outcome # "ok"
  /\ pc' = "idle"
  /\ UNCHANGED <<platform, files, targets, before, process, todo, outcome, escaped, history>>

CheckoutGitignore ==
  IF before # "none" /\ tree[Gitignore] # before /\ index[Gitignore] # "none"
    THEN tree' = [tree EXCEPT ![Gitignore] = index[Gitignore]]
    ELSE UNCHANGED tree

\* Faulty variant: the wrong columns of a line are taken for the name.
NamedByColumn == {l.xy : l \in StatusLines}

Named == {l.file : l \in StatusLines}

ExtendTargets ==
  /\ pc = "return" /\ outcome = "ok"
  /\ CheckoutGitignore /\ UNCHANGED index
  /\ targets' \in {targets \cup (Named' \ ({Gitignore} \cup Quoted))}
                    \cup (IF GitMayFail THEN {targets} ELSE {})
  /\ pc' = "idle"
  /\ UNCHANGED <<platform, before, process, todo, outcome, escaped, history>>

\* The orchestrator dies; an agent that runs goes on in its own session.
Crash ==
  /\ pc # "idle"
  /\ pc' = "idle" /\ todo' = {} /\ outcome' = "none" /\ proc' = "none"
  /\ child' = IF proc = "running" THEN "detached" ELSE child
  /\ UNCHANGED <<platform, files, targets, before, escaped, history>>

Guard == Timeout \/ Returned \/ GitStatus \/ GitStatusFails \/ UndoLine \/ EndRollback
           \/ Snapshot \/ Fail \/ ExtendTargets
Next ==
  \/ Unrouted \/ Refuse \/ Deny \/ NotFound \/ Spawn
  \/ AgentStep \/ ChildEnds \/ AgentExits
  \/ Guard \/ Crash

\* communicate has a timeout and the clean-up takes only bounded steps: git is
\* run with a timeout of its own.  Nothing is assumed of the agent.
Fairness == WF_vars(Guard)
Spec == Init /\ [][Next]_vars
FairSpec == Spec /\ Fairness

----------------------------------------------------------------------------
\* Every variable keeps its type.
TypeOK ==
  /\ platform \in Platform
  /\ pc \in {"idle", "agent", "status", "revert", "snapshot", "return"}
  /\ tree \in [File -> Content] /\ index \in [File -> Content]
  /\ targets \subseteq File
  /\ before \in Content
  /\ proc \in {"none", "running", "exited"}
  /\ child \in {"none", "group", "quiet", "detached"}
  /\ todo \subseteq Line
  /\ outcome \in Outcome
  /\ escaped \subseteq File
  /\ calls \in 0 .. MaxCalls /\ writes \in 0 .. MaxWrites

\* When the clean-up is over, a file outside target_files differs from HEAD
\* only if it is a new file that the globs permit, if git status could not see
\* it or listed it twice, if its undoing failed, if a process that outlived
\* the agent has written since git status (which excuses every file), or if it
\* was moved into a permitted name (rollback_unauthorized_changes).
NothingUnauthorizedLeft ==
  pc = "snapshot" =>
    \A f \in File \ (targets \cup {Gitignore}) :
      \/ Clean(f)
      \/ f \in Permitted
      \/ f \in escaped
      \/ \E g \in File : RenamedTo(f, g) /\ IsProtected(g)

\* The clean-up never runs beside the agent itself.  Of the agent's process
\* group it runs beside two kinds of process only: beside one that keeps agy's
\* pipes open after a Windows timeout, where taskkill may have failed, and
\* beside one with its output redirected after that or after agy's own end,
\* when nobody kills the group (_run_agy, _terminate_process_tree).
AgentIsOver ==
  pc \in {"status", "revert", "snapshot"} =>
    /\ proc = "none"
    /\ child = "group" => platform = "windows" /\ outcome = "timeout"
    /\ child = "quiet" => platform = "windows" \/ outcome \in {"ok", "failed"}

\* The clean-up leaves the work of the agent that is permitted: a target file
\* and a new file that matches the globs keep their content, unless the agent
\* moved a tracked file away from or onto that name.
PermittedWorkSurvives ==
  [][pc = "revert" /\ writes' = writes =>
       \A f \in targets \cup (Glob \ InHead) :
         \/ tree'[f] = tree[f]
         \/ \E l \in todo : l.xy = "R" /\ f \in {l.file, l.old}]_vars

\* target_files grows only by new files the globs permit and by files the
\* clean-up of the same call could not see, could not undo or met twice, or
\* that were open to a process which wrote after git status of the clean-up
\* (code_node, which takes over whatever git status names).
TargetsGrowByPermission ==
  [][targets' \ targets \subseteq Permitted \cup escaped]_vars

\* A call that was begun ends, whatever the agent does: the timeout, the kill
\* and the clean-up take no part of the agent's cooperation.
CallEnds == (pc # "idle") ~> (pc = "idle")
=============================================================================

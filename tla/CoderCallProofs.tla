--------------------------- MODULE CoderCallProofs ---------------------------
(***************************************************************************)
(* What CoderCall guarantees for any files, any target files and globs,    *)
(* any powers of the agent, and any number of calls and writes.            *)
(***************************************************************************)
EXTENDS CoderCall, TLAPS

-----------------------------------------------------------------------------
\* The lines of git status.

\* A status line is one of four kinds, each with what the index and the work
\* tree say of its file (git status --porcelain -uall).
LEMMA StatusLineKinds ==
  ASSUME NEW l \in StatusLines
  PROVE  /\ l \in Line
         /\ l.xy = "R" => RenamedTo(l.old, l.file)
         /\ l.xy = "A" => /\ l.file \in File \ InHead /\ index[l.file] # "none"
                          /\ \A h \in File : ~RenamedTo(h, l.file)
         /\ l.xy = "M" => /\ l.file \in InHead
                          /\ index[l.file] # l.file \/ tree[l.file] # l.file
                          /\ \A h \in File : ~RenamedTo(l.file, h)
         /\ l.xy = "??" => /\ l.file \in File \ Ignored
                           /\ index[l.file] = "none" /\ tree[l.file] # "none"
         /\ l.xy # "R" => l.old = l.file
<1>1. CASE \E m \in {p \in File \X File : RenamedTo(p[1], p[2])} : l = LineOf("R", m[2], m[1])
  BY <1>1 DEF LineOf, Line
<1>2. CASE \E f \in File \ InHead : /\ l = LineOf("A", f, f) /\ index[f] # "none"
                                    /\ \A h \in File : ~RenamedTo(h, f)
  BY <1>2 DEF LineOf, Line
<1>3. CASE \E f \in InHead : /\ l = LineOf("M", f, f) /\ (index[f] # f \/ tree[f] # f)
                             /\ \A h \in File : ~RenamedTo(f, h)
  BY <1>3, FilesAssumption DEF LineOf, Line
<1>4. CASE \E f \in File \ Ignored : /\ l = LineOf("??", f, f)
                                     /\ index[f] = "none" /\ tree[f] # "none"
  BY <1>4 DEF LineOf, Line
<1> QED BY <1>1, <1>2, <1>3, <1>4 DEF StatusLines

\* What is not as in HEAD has its line, unless it is hidden or was moved away.
LEMMA ChangedIsListed ==
  ASSUME NEW f \in File
  PROVE  /\ \A g \in File : RenamedTo(f, g) => LineOf("R", g, f) \in StatusLines
         /\ (f \notin InHead /\ index[f] # "none" /\ \A h \in File : ~RenamedTo(h, f))
              => LineOf("A", f, f) \in StatusLines
         /\ (f \in InHead /\ (index[f] # f \/ tree[f] # f) /\ \A h \in File : ~RenamedTo(f, h))
              => LineOf("M", f, f) \in StatusLines
         /\ (f \notin Ignored /\ index[f] = "none" /\ tree[f] # "none")
              => LineOf("??", f, f) \in StatusLines
<1>1. ASSUME NEW g \in File, RenamedTo(f, g) PROVE LineOf("R", g, f) \in StatusLines
  <2> DEFINE m == <<f, g>>
  <2>1. m \in {p \in File \X File : RenamedTo(p[1], p[2])}
    BY <1>1
  <2>2. LineOf("R", g, f) = LineOf("R", m[2], m[1])
    OBVIOUS
  <2> QED BY <2>1, <2>2 DEF StatusLines
<1>2. (f \notin InHead /\ index[f] # "none" /\ \A h \in File : ~RenamedTo(h, f))
        => LineOf("A", f, f) \in StatusLines
  BY DEF StatusLines
<1>3. (f \in InHead /\ (index[f] # f \/ tree[f] # f) /\ \A h \in File : ~RenamedTo(f, h))
        => LineOf("M", f, f) \in StatusLines
  BY DEF StatusLines
<1>4. (f \notin Ignored /\ index[f] = "none" /\ tree[f] # "none")
        => LineOf("??", f, f) \in StatusLines
  BY DEF StatusLines
<1> QED BY <1>1, <1>2, <1>3, <1>4

\* Every name in the output of git status is a file.
LEMMA NamedFiles == Named \subseteq File
BY StatusLineKinds DEF Named, Line

-----------------------------------------------------------------------------
\* The clean-up of one line, and types.

\* What undoing a line does: the two files it names are undone or escape, all
\* others keep their content (rollback_unauthorized_changes).
LEMMA RevertEffect ==
  ASSUME TypeOK, NEW l \in Line, Revert(l)
  PROVE  /\ tree' \in [File -> Content] /\ index' \in [File -> Content]
         /\ escaped \subseteq escaped' /\ escaped' \subseteq File
         /\ \A f \in File \ {l.file, l.old} : tree'[f] = tree[f] /\ index'[f] = index[f]
         /\ l.xy \in {"A", "R"} /\ l.file \notin escaped' /\ (l.xy = "R" => l.file # l.old)
              => tree'[l.file] = "none" /\ index'[l.file] = "none"
         /\ l.xy = "??" /\ l.file \notin escaped'
              => tree'[l.file] = "none" /\ index'[l.file] = index[l.file]
         /\ l.xy = "M" /\ l.file \notin escaped'
              => tree'[l.file] = Head(l.file) /\ index'[l.file] = Head(l.file)
         /\ l.xy = "R" /\ l.old \notin escaped' /\ l.file # l.old
              => tree'[l.old] = Head(l.old) /\ index'[l.old] = Head(l.old)
<1> PICK rm \in Works(l.file), unlink \in Works(l.file),
         restore \in (IF GitMayFail THEN BOOLEAN ELSE {TRUE}) : Revert(l)!(rm, unlink, restore)
  BY DEF Revert
<1> DEFINE staged == l.xy \in {"A", "R"}
           untracked == rm /\ staged
           gone == untracked \/ (unlink /\ (staged \/ l.xy = "??"))
           restored == IF restore THEN RestoredBy(l) ELSE {}
           undone == restored \cup (IF untracked \/ (gone /\ ~staged) THEN {l.file} ELSE {})
<1>1. /\ tree' = [f \in File |-> IF gone /\ f = l.file THEN "none"
                                 ELSE IF f \in restored THEN Head(f) ELSE tree[f]]
      /\ index' = [f \in File |-> IF untracked /\ f = l.file THEN "none"
                                  ELSE IF f \in restored THEN Head(f) ELSE index[f]]
      /\ escaped' = escaped \cup ({l.file, l.old} \ undone)
  OBVIOUS
<1>2. /\ l.file \in File /\ l.old \in File
      /\ RestoredBy(l) \subseteq IF l.xy = "M" THEN {l.file} ELSE IF l.xy = "R" THEN {l.old} ELSE {}
  BY DEF RestoredBy, Line
<1>3. tree \in [File -> Content] /\ index \in [File -> Content] /\ escaped \subseteq File
  BY DEF TypeOK
<1>4. "none" \in Content /\ \A f \in File : Head(f) \in Content
  BY DEF Head, Content
<1>5. tree' \in [File -> Content] /\ index' \in [File -> Content]
  BY <1>1, <1>3, <1>4
<1> QED BY <1>1, <1>2, <1>3, <1>5

\* No step changes what the constants fix, and every variable keeps its type.
THEOREM TypeCorrect == Spec => []TypeOK
<1>1. Init => TypeOK
  BY FilesAssumption, BoundsAssumption DEF Init, TypeOK, Head, Content, Outcome
<1>2. TypeOK /\ [Next]_vars => TypeOK'
  <2> SUFFICES ASSUME TypeOK, [Next]_vars PROVE TypeOK'
    OBVIOUS
  <2>0. /\ Gitignore \in File /\ "none" \in Content /\ "agent" \in Content
        /\ \A f \in File : Head(f) \in Content
    BY FilesAssumption DEF Head, Content
  <2>1. ASSUME Begin PROVE calls' \in 0 .. MaxCalls /\ before' \in Content
    BY <2>1, <2>0, BoundsAssumption DEF Begin, TypeOK
  <2>2. CASE Unrouted \/ Refuse \/ Deny
    BY <2>1, <2>2 DEF Unrouted, Refuse, Deny, Declined, Begin, Survivor, TypeOK, Outcome, files
  <2>3. CASE NotFound \/ Spawn
    BY <2>1, <2>3 DEF NotFound, Spawn, Begin, Survivor, TypeOK, Outcome, files
  <2>4. CASE AgentStep
    <3>1. tree' \in [File -> Content] /\ index' \in [File -> Content]
      <4>1. ASSUME NEW f \in File, WriteFile(f) \/ GitAdd(f) \/ GitRmCached(f)
            PROVE  tree' \in [File -> Content] /\ index' \in [File -> Content]
        BY <4>1, <2>0 DEF WriteFile, GitAdd, GitRmCached, Put, TypeOK
      <4>2. ASSUME NEW f \in File, NEW g \in File, GitMv(f, g)
            PROVE  tree' \in [File -> Content] /\ index' \in [File -> Content]
        BY <4>2, <2>0 DEF GitMv, TypeOK
      <4> QED BY <4>1, <4>2, <2>4 DEF AgentStep
    <3>2. writes' \in 0 .. MaxWrites
      BY <2>4, BoundsAssumption DEF AgentStep, TypeOK
    <3> QED BY <3>1, <3>2, <2>4 DEF AgentStep, TypeOK, process
  <2>5. CASE ChildEnds \/ AgentExits
    BY <2>5 DEF ChildEnds, AgentExits, TypeOK, files, history
  <2>6. CASE Timeout \/ Returned
    BY <2>6 DEF Timeout, Returned, ChildAfterKill, TypeOK, Outcome, files, history
  <2>7. CASE GitStatus
    <3>1. Violations \subseteq Line
      BY StatusLineKinds DEF Violations
    <3>2. Unseen \cup Twice \subseteq File
      BY FilesAssumption DEF Unseen, Ignored, Twice
    <3> QED BY <3>1, <3>2, <2>7 DEF GitStatus, TypeOK, files, process, history
  <2>8. CASE GitStatusFails
    BY <2>8 DEF GitStatusFails, TypeOK, files, process, history
  <2>9. CASE UndoLine
    <3>1. PICK l \in todo : Revert(l) /\ todo' = todo \ {l}
      BY <2>9 DEF UndoLine
    <3>2. l \in Line
      BY DEF TypeOK
    <3>3. /\ tree' \in [File -> Content] /\ index' \in [File -> Content]
          /\ escaped' \subseteq File
      BY <3>1, <3>2, RevertEffect
    <3> QED BY <3>1, <3>3, <2>9 DEF UndoLine, TypeOK, process, history
  <2>10. CASE EndRollback \/ Fail
    BY <2>10 DEF EndRollback, Fail, TypeOK, files, process, history
  <2>11. CASE Snapshot
    <3>1. tree' \in [File -> Content] /\ index' \in [File -> Content]
      BY <2>11, <2>0 DEF Snapshot, RestoreSnapshot, Put, files, TypeOK
    <3> QED BY <3>1, <2>11 DEF Snapshot, TypeOK, process, history
  <2>12. CASE ExtendTargets
    <3>1. tree' \in [File -> Content] /\ index' = index
      BY <2>12, <2>0 DEF ExtendTargets, CheckoutGitignore, TypeOK
    <3>2. (Named \subseteq File)'
      BY NamedFiles, PTL
    <3> QED BY <3>1, <3>2, <2>12 DEF ExtendTargets, TypeOK, process, history
  <2>13. CASE Crash
    BY <2>13 DEF Crash, TypeOK, Outcome, files, history
  <2>14. CASE UNCHANGED vars
    BY <2>14 DEF vars, TypeOK
  <2> QED BY <2>2, <2>3, <2>4, <2>5, <2>6, <2>7, <2>8, <2>9, <2>10, <2>11, <2>12, <2>13, <2>14
          DEF Next, Guard
<1> QED BY <1>1, <1>2, PTL DEF Spec

-----------------------------------------------------------------------------
\* The clean-up does not run beside the agent.

\* The clause is inductive as it stands: only Returned and Timeout lead into the
\* clean-up, and a process of this call's group is only started with the call.
THEOREM CleanUpAfterTheAgent == Spec => []AgentIsOver
<1>1. Init => AgentIsOver
  BY DEF Init, AgentIsOver
<1>2. TypeOK /\ AgentIsOver /\ [Next]_vars => AgentIsOver'
  <2> SUFFICES ASSUME TypeOK, AgentIsOver, [Next]_vars PROVE AgentIsOver'
    OBVIOUS
  <2> USE DEF AgentIsOver
  <2>1. CASE Unrouted \/ Refuse \/ Deny \/ NotFound
    BY <2>1 DEF Unrouted, Refuse, Deny, NotFound, Declined, Begin, Survivor
  <2>2. CASE Spawn \/ AgentStep \/ ChildEnds \/ AgentExits
    <3>1. CASE Spawn
      BY <3>1 DEF Spawn
    <3>2. CASE AgentStep
      BY <3>2 DEF AgentStep, process
    <3>3. CASE ChildEnds \/ AgentExits
      BY <3>3 DEF ChildEnds, AgentExits
    <3> QED BY <2>2, <3>1, <3>2, <3>3
  <2>3. CASE Timeout \/ Returned
    BY <2>3, BoundsAssumption DEF Timeout, Returned, ChildAfterKill, TypeOK
  <2>4. CASE GitStatus \/ GitStatusFails \/ UndoLine \/ EndRollback \/ Snapshot
    BY <2>4 DEF GitStatus, GitStatusFails, UndoLine, EndRollback, Snapshot, process
  <2>5. CASE Fail \/ ExtendTargets \/ Crash \/ UNCHANGED vars
    BY <2>5 DEF Fail, ExtendTargets, Crash, vars
  <2> QED BY <2>1, <2>2, <2>3, <2>4, <2>5 DEF Next, Guard
<1> QED BY <1>1, <1>2, TypeCorrect, PTL DEF Spec

-----------------------------------------------------------------------------
\* The inductive invariant of the clean-up.

\* The files the clean-up answers for.
Loose == File \ (targets \cup {Gitignore})

\* A tracked file now has a permitted name, and its own name is free or permitted.
MovedAway(f) == \E g \in File : /\ RenamedTo(f, g) /\ IsProtected(g)
                                /\ tree[f] = "none" \/ f \in Glob

Settled(f) == Clean(f) \/ f \in Permitted \/ f \in escaped \/ MovedAway(f)

\* A line that is still to be undone names it.
Pending(f) == \E l \in todo : f \in {l.file, l.old}

\* What the lines still to be undone are about: never a protected or a permitted
\* name, and undoing a line ends with HEAD's content or with no file.
LineOK(l) ==
  /\ ~IsProtected(l.file) /\ ~Retained(l)
  /\ l.xy # "R" => l.old = l.file
  /\ l.xy = "M" => l.file \in InHead
  /\ l.xy = "A" => l.file \notin InHead
  /\ l.xy = "R" => l.file \notin InHead /\ l.old \in InHead
  /\ l.xy = "??" => l.file \in escaped \/ (l.file \notin InHead /\ index[l.file] = "none")

RevertInv ==
  pc = "revert" => /\ \A l \in todo : LineOK(l)
                   /\ \A f \in Loose : Settled(f) \/ Pending(f)

SnapshotInv == pc = "snapshot" => \A f \in Loose : Settled(f)

\* Until code_node takes the names of git status over.
ReturnInv == pc = "return" /\ outcome = "ok" => \A f \in Loose : Settled(f)

CleanUpInv == RevertInv /\ SnapshotInv

\* What the proofs use of an undone line: its two files are as in HEAD or have
\* escaped, and the rest is as before.
LEMMA LineUndone ==
  ASSUME TypeOK, NEW l \in Line, LineOK(l), Revert(l)
  PROVE  /\ escaped \subseteq escaped'
         /\ \A f \in File \ {l.file, l.old} : tree'[f] = tree[f] /\ index'[f] = index[f]
         /\ \A f \in {l.file, l.old} : Clean(f)' \/ f \in escaped'
<1>1. /\ l.file \in File /\ l.old \in File
      /\ l.xy \in {"??", "A", "R", "M"}
  BY DEF Line
<1>2. l.xy = "R" => l.file # l.old
  BY DEF LineOK
<1>3. ASSUME l.file \notin escaped' PROVE Clean(l.file)'
  <2>1. CASE l.xy = "M"
    BY <1>3, <2>1, RevertEffect DEF Clean, Head
  <2>2. CASE l.xy \in {"A", "R"}
    <3>1. tree'[l.file] = "none" /\ index'[l.file] = "none"
      BY <1>2, <1>3, <2>2, RevertEffect
    <3> QED BY <2>2, <3>1 DEF Clean, Head, LineOK
  <2>3. CASE l.xy = "??"
    <3>1. l.file \notin escaped
      BY <1>3, RevertEffect
    <3>2. tree'[l.file] = "none" /\ index'[l.file] = index[l.file]
      BY <1>3, <2>3, RevertEffect
    <3> QED BY <2>3, <3>1, <3>2 DEF Clean, Head, LineOK
  <2> QED BY <1>1, <2>1, <2>2, <2>3
<1>4. ASSUME l.old \notin escaped' PROVE Clean(l.old)'
  <2>1. CASE l.xy = "R"
    BY <1>2, <1>4, <2>1, RevertEffect DEF Clean, Head
  <2>2. CASE l.xy # "R"
    BY <1>3, <1>4, <2>2 DEF LineOK
  <2> QED BY <2>1, <2>2
<1>5. /\ escaped \subseteq escaped'
      /\ \A f \in File \ {l.file, l.old} : tree'[f] = tree[f] /\ index'[f] = index[f]
  BY RevertEffect
<1> QED BY <1>3, <1>4, <1>5

\* GitStatus establishes the invariant: what is not as in HEAD is permitted, is
\* hidden, was moved into a permitted name, or has its line.
LEMMA StatusEstablishes ==
  ASSUME TypeOK, GitStatus
  PROVE  RevertInv'
<1>1. /\ todo' = Violations /\ escaped' = Unseen \cup Twice
      /\ tree' = tree /\ index' = index /\ targets' = targets
  BY DEF GitStatus, files
<1>2. ASSUME NEW l \in Violations PROVE LineOK(l)'
  <2>1. l \in StatusLines /\ ~IsProtected(l.file) /\ ~Retained(l)
    BY DEF Violations
  <2>2. CASE l.xy = "??"
    <3>1. l = LineOf("??", l.file, l.file)
      BY <2>1, <2>2, StatusLineKinds DEF LineOf, Line
    <3>2. l.file \in InHead => l.file \in Twice
      BY <3>1 DEF Twice
    <3> QED BY <1>1, <2>1, <2>2, <3>2, StatusLineKinds DEF LineOK, IsProtected, Retained
  <2>3. CASE l.xy # "??"
    BY <1>1, <2>1, <2>3, StatusLineKinds DEF LineOK, IsProtected, Retained, RenamedTo
  <2> QED BY <2>2, <2>3
<1>3. ASSUME NEW f \in Loose PROVE Settled(f)' \/ Pending(f)'
  <2>1. /\ f \in File /\ ~IsProtected(f)
        /\ \A l \in Violations : f \in {l.file, l.old} => Pending(f)'
    BY <1>1 DEF Loose, IsProtected, Pending
  <2>2. /\ Clean(f) => Settled(f)'
        /\ f \in Permitted => Settled(f)'
        /\ f \in Unseen \cup Twice => Settled(f)'
        /\ MovedAway(f) => Settled(f)'
    BY <1>1 DEF Settled, Clean, Permitted, MovedAway, RenamedTo, IsProtected
  <2>3. CASE f \notin InHead /\ index[f] # "none"
    <3>1. CASE \E h \in File : RenamedTo(h, f)
      <4>1. PICK h \in File : RenamedTo(h, f)
        BY <3>1
      <4>2. LineOf("R", f, h) \in Violations
        BY <2>1, <4>1, ChangedIsListed DEF Violations, LineOf, Retained
      <4> QED BY <2>1, <4>2 DEF LineOf
    <3>2. CASE \A h \in File : ~RenamedTo(h, f)
      <4>1. LineOf("A", f, f) \in StatusLines
        BY <2>1, <2>3, <3>2, ChangedIsListed
      <4>2. f \in Permitted \/ LineOf("A", f, f) \in Violations
        BY <2>1, <2>3, <4>1 DEF Violations, LineOf, Retained, Permitted
      <4> QED BY <2>1, <2>2, <4>2 DEF LineOf
    <3> QED BY <3>1, <3>2
  <2>4. CASE index[f] = "none" /\ tree[f] # "none" /\ f \in Ignored
    BY <2>2, <2>4, FilesAssumption DEF Unseen
  <2>5. CASE index[f] = "none" /\ tree[f] # "none" /\ f \notin Ignored
    <3>1. LineOf("??", f, f) \in StatusLines
      BY <2>1, <2>5, ChangedIsListed
    <3>2. f \in Permitted \/ LineOf("??", f, f) \in Violations
      BY <2>1, <2>5, <3>1 DEF Violations, LineOf, Retained, Permitted
    <3> QED BY <2>1, <2>2, <3>2 DEF LineOf
  <2>6. CASE f \notin InHead /\ index[f] = "none" /\ tree[f] = "none"
    BY <2>2, <2>6 DEF Clean, Head
  <2>7. CASE f \in InHead /\ \E h \in File : RenamedTo(f, h)
    <3>1. PICK h \in File : RenamedTo(f, h)
      BY <2>7
    <3>2. LineOf("R", h, f) \in StatusLines
      BY <2>1, <3>1, ChangedIsListed
    <3>3. CASE IsProtected(h) /\ tree[f] = "none"
      BY <2>2, <3>1, <3>3 DEF MovedAway
    <3>4. CASE ~IsProtected(h)
      <4>1. LineOf("R", h, f) \in Violations
        BY <3>2, <3>4 DEF Violations, LineOf, Retained
      <4> QED BY <2>1, <4>1 DEF LineOf
    <3>5. index[f] = "none"
      BY <3>1 DEF RenamedTo
    <3> QED BY <2>4, <2>5, <3>3, <3>4, <3>5
  <2>8. CASE f \in InHead /\ \A h \in File : ~RenamedTo(f, h)
    <3>1. CASE index[f] = f /\ tree[f] = f
      BY <2>2, <2>8, <3>1 DEF Clean, Head
    <3>2. CASE ~(index[f] = f /\ tree[f] = f)
      <4>1. LineOf("M", f, f) \in Violations
        BY <2>1, <2>8, <3>2, ChangedIsListed DEF Violations, LineOf, Retained
      <4> QED BY <2>1, <4>1 DEF LineOf
    <3> QED BY <3>1, <3>2
  <2> QED BY <2>3, <2>4, <2>5, <2>6, <2>7, <2>8
<1>4. Loose' = Loose
  BY <1>1 DEF Loose
<1> QED BY <1>1, <1>2, <1>3, <1>4 DEF RevertInv

\* Undoing a line keeps it: a file is settled by its own line, and no other
\* line's meaning changes.
LEMMA UndoKeeps ==
  ASSUME TypeOK, RevertInv, UndoLine
  PROVE  RevertInv'
<1>1. PICK l \in todo : Revert(l) /\ todo' = todo \ {l}
  BY DEF UndoLine
<1>2. /\ pc = "revert" /\ targets' = targets /\ l \in Line /\ LineOK(l)
      /\ \A f \in Loose : Settled(f) \/ Pending(f)
      /\ \A k \in todo : LineOK(k)
  BY DEF UndoLine, RevertInv, TypeOK
<1>3. /\ escaped \subseteq escaped'
      /\ \A f \in File \ {l.file, l.old} : tree'[f] = tree[f] /\ index'[f] = index[f]
      /\ \A f \in {l.file, l.old} : Clean(f)' \/ f \in escaped'
  BY <1>1, <1>2, LineUndone
<1>4. ASSUME NEW k \in todo' PROVE LineOK(k)'
  <2>1. k \in todo /\ k \in Line /\ LineOK(k)
    BY <1>1, <1>2 DEF TypeOK
  <2>2. ASSUME k.xy = "??"
        PROVE  k.file \in escaped' \/ (k.file \notin InHead /\ index'[k.file] = "none")
    <3>1. CASE k.file \in escaped \/ k.file \in escaped'
      BY <1>3, <3>1
    <3>2. CASE k.file \in {l.file, l.old} /\ k.file \notin escaped'
      BY <1>3, <2>1, <2>2, <3>2 DEF LineOK, Clean, Head
    <3>3. CASE k.file \notin {l.file, l.old} /\ k.file \notin escaped
      BY <1>3, <2>1, <2>2, <3>3 DEF LineOK, Line
    <3> QED BY <3>1, <3>2, <3>3
  <2> QED BY <1>2, <2>1, <2>2 DEF LineOK, IsProtected, Retained
<1>5. ASSUME NEW f \in Loose PROVE Settled(f)' \/ Pending(f)'
  <2>1. f \in File
    BY DEF Loose
  <2>2. CASE f \in {l.file, l.old}
    BY <1>3, <2>2 DEF Settled
  <2>3. CASE f \notin {l.file, l.old} /\ Pending(f)
    BY <1>1, <2>3 DEF Pending
  <2>4. CASE f \notin {l.file, l.old} /\ Settled(f)
    <3>1. tree'[f] = tree[f] /\ index'[f] = index[f]
      BY <1>3, <2>1, <2>4
    <3>2. CASE MovedAway(f)
      <4>1. PICK g \in File : /\ RenamedTo(f, g) /\ IsProtected(g)
                              /\ tree[f] = "none" \/ f \in Glob
        BY <3>2 DEF MovedAway
      <4>2. g \notin {l.file, l.old}
        BY <1>2, <4>1 DEF LineOK, RenamedTo, Line
      <4>3. RenamedTo(f, g)' /\ IsProtected(g)'
        BY <1>2, <1>3, <3>1, <4>1, <4>2 DEF RenamedTo, IsProtected
      <4> QED BY <3>1, <4>1, <4>3 DEF Settled, MovedAway
    <3>3. CASE ~MovedAway(f)
      BY <1>3, <2>4, <3>1, <3>3 DEF Settled, Clean, Permitted
    <3> QED BY <3>2, <3>3
  <2> QED BY <1>2, <2>2, <2>3, <2>4, <1>5 DEF Settled
<1>6. Loose' = Loose
  BY <1>2 DEF Loose
<1> QED BY <1>4, <1>5, <1>6 DEF RevertInv

\* What the proofs of the three invariants use of the agent's own step: during
\* and after a clean-up, everything the agent touches has escaped.
LEMMA AgentEscapes ==
  ASSUME AgentStep
  PROVE  /\ pc' = pc /\ todo' = todo /\ targets' = targets /\ outcome' = outcome
         /\ pc \in {"revert", "snapshot", "return"} => escaped' = File
BY DEF AgentStep

\* The clean-up undoes line after line and leaves every file settled.
THEOREM CleanUpSettles == Spec => []CleanUpInv
<1>1. Init => CleanUpInv
  BY DEF Init, CleanUpInv, RevertInv, SnapshotInv
<1>2. TypeOK /\ CleanUpInv /\ [Next]_vars => CleanUpInv'
  <2> SUFFICES ASSUME TypeOK, CleanUpInv, [Next]_vars PROVE CleanUpInv'
    OBVIOUS
  <2>1. CASE Unrouted \/ Refuse \/ Deny \/ NotFound \/ Spawn \/ Timeout \/ Returned
             \/ Snapshot \/ Fail \/ ExtendTargets \/ Crash
    <3>1. pc' \notin {"revert", "snapshot"}
      BY <2>1 DEF Unrouted, Refuse, Deny, Declined, NotFound, Spawn, Timeout, Returned,
                  Snapshot, Fail, ExtendTargets, Crash
    <3> QED BY <3>1 DEF CleanUpInv, RevertInv, SnapshotInv
  <2>2. CASE AgentStep
    <3>1. ASSUME pc' = "revert", NEW l \in todo PROVE LineOK(l)'
      BY <2>2, <3>1, AgentEscapes
         DEF CleanUpInv, RevertInv, TypeOK, Line, LineOK, IsProtected, Retained
    <3>2. ASSUME pc' \in {"revert", "snapshot"}, NEW f \in Loose' PROVE Settled(f)'
      BY <2>2, <3>2, AgentEscapes DEF Settled, Loose
    <3> QED BY <2>2, <3>1, <3>2, AgentEscapes DEF CleanUpInv, RevertInv, SnapshotInv
  <2>3. CASE ChildEnds \/ AgentExits \/ UNCHANGED vars
    <3>1. UNCHANGED <<pc, tree, index, targets, todo, escaped>>
      BY <2>3 DEF ChildEnds, AgentExits, files, vars
    <3> QED BY <3>1 DEF CleanUpInv, RevertInv, SnapshotInv, Loose, Settled, Pending, Clean,
                        Permitted, MovedAway, RenamedTo, IsProtected, LineOK, Retained
  <2>4. CASE GitStatus
    <3>1. pc' = "revert"
      BY <2>4 DEF GitStatus
    <3> QED BY <2>4, <3>1, StatusEstablishes DEF CleanUpInv, SnapshotInv
  <2>5. CASE GitStatusFails
    BY <2>5 DEF GitStatusFails, CleanUpInv, RevertInv, SnapshotInv, Settled, Loose
  <2>6. CASE UndoLine
    <3>1. pc' = "revert"
      BY <2>6 DEF UndoLine
    <3> QED BY <2>6, <3>1, UndoKeeps DEF CleanUpInv, SnapshotInv
  <2>7. CASE EndRollback
    <3>1. /\ pc = "revert" /\ pc' = "snapshot" /\ todo = {}
          /\ UNCHANGED <<tree, index, targets, escaped>>
      BY <2>7 DEF EndRollback, files
    <3>2. \A f \in Loose : Settled(f)
      BY <3>1 DEF CleanUpInv, RevertInv, Pending
    <3>3. Loose' = Loose /\ \A f \in Loose : Settled(f)'
      BY <3>1, <3>2 DEF Loose, Settled, Clean, Permitted, MovedAway, RenamedTo, IsProtected
    <3> QED BY <3>1, <3>3 DEF CleanUpInv, RevertInv, SnapshotInv
  <2> QED BY <2>1, <2>2, <2>3, <2>4, <2>5, <2>6, <2>7 DEF Next, Guard
<1> QED BY <1>1, <1>2, TypeCorrect, PTL DEF Spec

\* When the clean-up is over, nothing that was not permitted is left, apart from
\* what git does not show, shows twice or fails to undo
\* (rollback_unauthorized_changes).
THEOREM CleanUpIsComplete == Spec => []NothingUnauthorizedLeft
<1>1. SnapshotInv => NothingUnauthorizedLeft
  BY DEF SnapshotInv, NothingUnauthorizedLeft, Loose, Settled, MovedAway
<1> QED BY <1>1, CleanUpSettles, PTL DEF CleanUpInv

\* The clean-up never undoes a permitted file of the agent: the lines it works
\* through name none, and undoing a line touches no other file.
THEOREM PermittedWorkKept == Spec => PermittedWorkSurvives
<1>1. TypeOK /\ CleanUpInv /\ [Next]_vars =>
        [pc = "revert" /\ writes' = writes =>
           \A f \in targets \cup (Glob \ InHead) :
             \/ tree'[f] = tree[f]
             \/ \E l \in todo : l.xy = "R" /\ f \in {l.file, l.old}]_vars
  <2> SUFFICES ASSUME TypeOK, CleanUpInv, [Next]_vars, pc = "revert", writes' = writes,
                      NEW f \in targets \cup (Glob \ InHead), tree'[f] # tree[f]
               PROVE  \E l \in todo : l.xy = "R" /\ f \in {l.file, l.old}
    OBVIOUS
  <2>0. f \in File
    BY FilesAssumption DEF TypeOK
  <2>1. CASE Unrouted \/ Refuse \/ Deny \/ NotFound \/ Spawn \/ Timeout \/ Returned
             \/ GitStatus \/ GitStatusFails \/ Snapshot \/ Fail \/ ExtendTargets
    <3>1. pc # "revert"
      BY <2>1 DEF Unrouted, Refuse, Deny, Declined, NotFound, Spawn, Begin, Timeout, Returned,
                  GitStatus, GitStatusFails, Snapshot, Fail, ExtendTargets
    <3> QED BY <3>1
  <2>2. CASE AgentStep
    BY <2>2, BoundsAssumption DEF AgentStep, TypeOK
  <2>3. CASE ChildEnds \/ AgentExits \/ EndRollback \/ Crash \/ UNCHANGED vars
    BY <2>3 DEF ChildEnds, AgentExits, EndRollback, Crash, files, vars
  <2>4. CASE UndoLine
    <3>1. PICK l \in todo : Revert(l)
      BY <2>4 DEF UndoLine
    <3>2. l \in Line /\ LineOK(l)
      BY <3>1 DEF TypeOK, CleanUpInv, RevertInv
    <3>3. f \in {l.file, l.old}
      BY <2>0, <3>1, <3>2, LineUndone
    <3>4. CASE l.xy # "R"
      BY <3>2, <3>3, <3>4 DEF LineOK, IsProtected, Retained, Line
    <3> QED BY <3>3, <3>4
  <2> QED BY <2>1, <2>2, <2>3, <2>4 DEF Next, Guard
<1> QED BY <1>1, TypeCorrect, CleanUpSettles, PTL DEF Spec, PermittedWorkSurvives

-----------------------------------------------------------------------------
\* What code_node takes over.

\* The hypothesis: git tracks .gitignore or the snapshot leaves it alone, as the
\* one of code_node does.  Without it, RestoreSnapshot takes .gitignore, which a
\* tracked file was moved onto, out of the index again.
SnapshotIsHarmless == Gitignore \in InHead \/ TRUE \notin Managed

\* The snapshot of .gitignore settles no file anew and unsettles none.
LEMMA SnapshotKeepsSettled ==
  ASSUME SnapshotIsHarmless, TypeOK, SnapshotInv, Snapshot
  PROVE  \A f \in Loose' : Settled(f)'
<1>1. /\ pc = "snapshot" /\ targets' = targets /\ escaped' = escaped
      /\ \A f \in Loose : Settled(f)
  BY DEF Snapshot, SnapshotInv
<1>2. PICK manage \in Managed : RestoreSnapshot(manage)
  BY DEF Snapshot
<1>3. \A f \in File \ {Gitignore} : tree'[f] = tree[f] /\ index'[f] = index[f]
  BY <1>2 DEF RestoreSnapshot, Put, files, TypeOK
<1>4. Gitignore \notin InHead => index' = index
  BY <1>2, BoundsAssumption DEF RestoreSnapshot, files, SnapshotIsHarmless
<1>5. ASSUME NEW f \in Loose PROVE Settled(f)'
  <2>1. f \in File \ {Gitignore} /\ tree'[f] = tree[f] /\ index'[f] = index[f]
    BY <1>3 DEF Loose
  <2>2. CASE MovedAway(f)
    <3>1. PICK g \in File : /\ RenamedTo(f, g) /\ IsProtected(g)
                            /\ tree[f] = "none" \/ f \in Glob
      BY <2>2 DEF MovedAway
    <3>2. index'[g] = index[g]
      BY <1>3, <1>4, <3>1 DEF RenamedTo
    <3> QED BY <1>1, <2>1, <3>1, <3>2 DEF Settled, MovedAway, RenamedTo, IsProtected
  <2>3. CASE ~MovedAway(f)
    BY <1>1, <1>5, <2>1, <2>3 DEF Settled, Clean, Permitted
  <2> QED BY <2>2, <2>3
<1> QED BY <1>1, <1>5 DEF Loose

\* A successful call comes back to code_node with every file settled.
LEMMA ReturnsSettled == SnapshotIsHarmless => (Spec => []ReturnInv)
<1> SUFFICES ASSUME SnapshotIsHarmless PROVE Spec => []ReturnInv
  OBVIOUS
<1>1. Init => ReturnInv
  BY DEF Init, ReturnInv
<1>2. TypeOK /\ CleanUpInv /\ ReturnInv /\ [Next]_vars => ReturnInv'
  <2> SUFFICES ASSUME TypeOK, CleanUpInv, ReturnInv, [Next]_vars PROVE ReturnInv'
    OBVIOUS
  <2>1. CASE Unrouted \/ Refuse \/ Deny \/ NotFound \/ Spawn \/ Timeout \/ Returned
             \/ GitStatus \/ UndoLine \/ EndRollback \/ Fail \/ ExtendTargets \/ Crash
    <3>1. ~(pc' = "return" /\ outcome' = "ok")
      BY <2>1 DEF Unrouted, Refuse, Deny, Declined, NotFound, Spawn, Timeout, Returned,
                  GitStatus, UndoLine, EndRollback, Fail, ExtendTargets, Crash
    <3> QED BY <3>1 DEF ReturnInv
  <2>2. CASE AgentStep
    BY <2>2, AgentEscapes DEF ReturnInv, Settled, Loose
  <2>3. CASE ChildEnds \/ AgentExits \/ UNCHANGED vars
    <3>1. UNCHANGED <<pc, tree, index, targets, outcome, escaped>>
      BY <2>3 DEF ChildEnds, AgentExits, files, vars
    <3> QED BY <3>1 DEF ReturnInv, Loose, Settled, Clean, Permitted, MovedAway, RenamedTo,
                        IsProtected
  <2>4. CASE GitStatusFails
    BY <2>4 DEF GitStatusFails, ReturnInv, Settled, Loose
  <2>5. CASE Snapshot
    BY <2>5, SnapshotKeepsSettled DEF CleanUpInv, ReturnInv
  <2> QED BY <2>1, <2>2, <2>3, <2>4, <2>5 DEF Next, Guard
<1> QED BY <1>1, <1>2, TypeCorrect, CleanUpSettles, PTL DEF Spec

NamedIsPermitted == \A f \in Named : Settled(f) => f \in Permitted \cup escaped

\* A settled file that git status names is permitted or has escaped.
LEMMA NamedAndSettled == NamedIsPermitted
<1> USE DEF NamedIsPermitted
<1> SUFFICES ASSUME NEW f \in Named, Settled(f) PROVE f \in Permitted \cup escaped
  OBVIOUS
<1>1. PICK l \in StatusLines : f = l.file
  BY DEF Named
<1>2. f \in File /\ l.xy \in {"??", "A", "R", "M"}
  BY <1>1, StatusLineKinds DEF Line
<1>3. ~Clean(f)
  BY <1>1, <1>2, StatusLineKinds, FilesAssumption DEF Clean, Head, RenamedTo
<1>4. MovedAway(f) => f \in Permitted
  BY <1>1, <1>2, StatusLineKinds DEF MovedAway, Permitted, RenamedTo
<1> QED BY <1>3, <1>4 DEF Settled

\* target_files grows by nothing but what is permitted and what escaped the
\* clean-up of the same call (code_node, which takes over what git status names).
THEOREM TargetsGrowOnlyByPermission ==
  SnapshotIsHarmless => (Spec => TargetsGrowByPermission)
<1> SUFFICES ASSUME SnapshotIsHarmless PROVE Spec => TargetsGrowByPermission
  OBVIOUS
<1>1. TypeOK /\ ReturnInv /\ [Next]_vars => [targets' \ targets \subseteq Permitted \cup escaped]_vars
  <2> SUFFICES ASSUME TypeOK, ReturnInv, [Next]_vars, targets' # targets,
                      NEW f \in targets' \ targets
               PROVE  f \in Permitted \cup escaped
    OBVIOUS
  <2>1. ExtendTargets
    BY DEF Next, Guard, Unrouted, Refuse, Deny, Declined, NotFound, Spawn, Begin, AgentStep,
           ChildEnds, AgentExits, Timeout, Returned, GitStatus, GitStatusFails, UndoLine,
           EndRollback, Snapshot, Fail, Crash, vars
  <2>2. /\ pc = "return" /\ outcome = "ok" /\ f \in Named' \ {Gitignore}
        /\ index' = index /\ escaped' = escaped /\ targets \subseteq targets'
        /\ \A g \in File \ {Gitignore} : tree'[g] = tree[g]
    BY <2>1 DEF ExtendTargets, CheckoutGitignore, TypeOK
  <2>3. f \in File \ {Gitignore}
    <3>1. (Named \subseteq File)'
      BY NamedFiles, PTL
    <3> QED BY <2>2, <3>1
  <2>4. Settled(f) /\ tree'[f] = tree[f]
    BY <2>2, <2>3 DEF Loose, ReturnInv
  <2>5. Settled(f)'
    BY <2>2, <2>4 DEF Settled, Clean, Permitted, MovedAway, RenamedTo, IsProtected
  <2>6. NamedIsPermitted'
    BY NamedAndSettled, PTL
  <2>7. (f \in Permitted \cup escaped)'
    <3>1. f \in Named'
      BY <2>2
    <3> QED BY <2>5, <2>6, <3>1 DEF NamedIsPermitted
  <2>8. f \in Permitted' \cup escaped'
    BY <2>7
  <2>9. Permitted' = Permitted
    BY <2>2 DEF Permitted
  <2> QED BY <2>2, <2>8, <2>9
<1> QED BY <1>1, TypeCorrect, ReturnsSettled, PTL DEF Spec, TargetsGrowByPermission
=============================================================================

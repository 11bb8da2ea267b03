------------------------- MODULE ReviewRunnerProofs -------------------------
(***************************************************************************)
(* What ReviewRunner guarantees for any satellites, files, versions and    *)
(* themes, any finite set of runners, any limits, and any number of        *)
(* faults, however HEAD moves.                                             *)
(***************************************************************************)
EXTENDS ReviewRunner, FiniteSetTheorems, WellFoundedInduction, TLAPS

-----------------------------------------------------------------------------
\* Types.

RunnerState ==
  [pc : {"idle", "next", "fetch", "agent", "open", "replace"},
   mem : [Satellite -> Commit], todo : SUBSET Satellite, sat : Satellite, head : Commit,
   files : SUBSET File, wanted : SUBSET Theme, themes : SUBSET Theme, force : BOOLEAN,
   ok : BOOLEAN, known : SUBSET File, found : [File -> 0 .. MaxIssues]]

Busy == {"fetch", "agent", "open"}

\* TypeOK with what its own preservation needs: findings are there only while
\* their issues are opened, and a review has a commit and a theme it was asked for.
RunnerOK(me) ==
  /\ me \in RunnerState
  /\ me.wanted # {} /\ me.themes \subseteq me.wanted
  /\ \A f \in File : me.found[f] > 0 => f \in me.files
  /\ me.pc # "open" => me.found = NoFinding
  /\ me.pc \in Busy => me.head \in Tree /\ me.themes # {}

View == File \X Version \X Theme

Types ==
  /\ head \in [Satellite -> Tree]
  /\ cache \in [Satellite -> Commit]
  /\ tmp = Nothing \/ tmp \in [Satellite -> Commit]
  /\ runner \in [Runner -> RunnerState]
  /\ \A r \in Runner : RunnerOK(runner[r])
  /\ issues \in [Finding -> Nat]
  /\ settled \in [Satellite -> SUBSET View]
  /\ faults \in 0 .. MaxFaults /\ unfetched \in 0 .. faults

\* The first of some themes is one of them.
LEMMA FirstTheme ==
  ASSUME NEW themes \in SUBSET Theme, themes # {}
  PROVE  (CHOOSE t \in themes : \A u \in themes : t <= u) \in themes
<1> DEFINE Less == OpToRel(<, Nat)
<1>1. IsWellFoundedOn(Less, Nat)
  BY NatLessThanWellFounded
<1>2. \A u, t \in Nat : u < t => <<u, t>> \in Less
  BY DEF OpToRel
<1>3. themes \subseteq Nat
  BY ReviewAssumption
<1> HIDE DEF Less
<1>4. PICK t \in themes : \A u \in themes : ~(<<u, t>> \in Less)
  BY <1>1, <1>3, WFMin
<1>5. \A u \in themes : ~(u < t)
  BY <1>2, <1>3, <1>4
<1>6. \A u \in themes : t <= u
  BY <1>3, <1>5
<1> QED BY <1>6

LEMMA ThemeIn ==
  ASSUME NEW r \in Runner, RunnerOK(runner[r]), runner[r].pc \in Busy
  PROVE  ThemeOf(r) \in runner[r].themes /\ ThemeOf(r) \in Theme
<1>1. runner[r].themes \in SUBSET Theme /\ runner[r].themes # {}
  BY DEF RunnerOK, RunnerState
<1> QED BY <1>1, FirstTheme DEF ThemeOf

LEMMA ViewsOK ==
  ASSUME NEW tree \in Tree, NEW files \in SUBSET File, NEW themes \in SUBSET Theme
  PROVE  Views(tree, files, themes) \in SUBSET View
BY DEF Views, View, Tree

\* The state of a runner at rest.
LEMMA RestOK ==
  RunnerOK(Rest) /\ Rest.pc = "idle" /\ Rest.themes = {} /\ Rest.mem = NoFile
<1>1. (CHOOSE s \in Satellite : TRUE) \in Satellite
  BY ReviewAssumption
<1>2. NoFile \in [Satellite -> Commit] /\ NoCommit \in Commit
  BY DEF NoFile, Commit
<1>3. NoFinding \in [File -> 0 .. MaxIssues] /\ \A f \in File : NoFinding[f] = 0
  BY ReviewAssumption DEF NoFinding
<1> HIDE DEF NoFinding
<1>4. Rest \in RunnerState /\ Rest.pc = "idle" /\ Rest.themes = {} /\ Rest.mem = NoFile
      /\ Rest.wanted = Theme /\ Rest.found = NoFinding
  BY <1>1, <1>2, <1>3 DEF Rest, RunnerState
<1> QED BY <1>3, <1>4, ReviewAssumption DEF RunnerOK, Busy

\* A runner that has its file to move only (WriteTmp).
Saving == [Rest EXCEPT !.pc = "replace"]
LEMMA SavingOK ==
  RunnerOK(Saving) /\ Saving.pc = "replace" /\ Saving.mem = NoFile
<1>1. Rest \in RunnerState
  BY RestOK DEF RunnerOK
<1>2. Saving \in RunnerState /\ \A x \in DOMAIN Rest \ {"pc"} : Saving[x] = Rest[x]
  BY <1>1 DEF Saving, RunnerState
<1>3. /\ Saving.pc = "replace" /\ Saving.mem = Rest.mem /\ Saving.wanted = Rest.wanted
      /\ Saving.themes = Rest.themes /\ Saving.found = Rest.found /\ Saving.files = Rest.files
  BY <1>1 DEF Saving, RunnerState
<1> QED BY <1>2, <1>3, RestOK DEF RunnerOK, Busy

\* The end of a theme (WithThemeDone): a runner with the next theme or with the
\* satellite behind it.
LEMMA ThemeDone ==
  ASSUME NEW r \in Runner, NEW ok \in BOOLEAN, RunnerOK(runner[r]), runner[r].pc \in Busy
  PROVE  LET me == runner[r]
             him == WithThemeDone(r, ok)
         IN /\ RunnerOK(him)
            /\ him.themes = me.themes \ {ThemeOf(r)}
            /\ him.themes # {} => /\ him.pc = "fetch" /\ him.mem = me.mem /\ him.sat = me.sat
                                  /\ him.head = me.head /\ him.files = me.files
                                  /\ him.ok => me.ok /\ ok
            /\ him.themes = {} =>
                 /\ him.pc = "next"
                 /\ him.mem = IF me.ok /\ ok THEN [me.mem EXCEPT ![me.sat] = me.head] ELSE me.mem
<1> DEFINE me == runner[r]
           s == me.sat
           all == me.ok /\ ok
           left == me.themes \ {ThemeOf(r)}
           clear == [me EXCEPT !.known = {}, !.found = NoFinding, !.themes = left, !.ok = all]
           next == [clear EXCEPT !.pc = "next", !.todo = @ \ {s}, !.files = {}, !.head = NoCommit,
                                 !.ok = TRUE, !.mem[s] = IF all THEN me.head ELSE @]
<1>1. me \in RunnerState /\ me.themes \subseteq me.wanted /\ me.head \in Tree /\ me.wanted # {}
  BY DEF RunnerOK
<1>2. /\ NoCommit \in Commit /\ Tree \subseteq Commit
      /\ NoFinding \in [File -> 0 .. MaxIssues] /\ \A f \in File : ~(NoFinding[f] > 0)
  BY ReviewAssumption DEF Commit, NoFinding
<1> HIDE DEF NoFinding
<1>3. /\ clear \in RunnerState
      /\ clear.mem = me.mem /\ clear.todo = me.todo /\ clear.sat = me.sat
      /\ clear.head = me.head /\ clear.files = me.files /\ clear.wanted = me.wanted
      /\ clear.themes = left /\ clear.ok = all /\ clear.found = NoFinding
  BY <1>1, <1>2 DEF RunnerState
<1>4. WithThemeDone(r, ok) = IF left # {} THEN [clear EXCEPT !.pc = "fetch"] ELSE next
  BY DEF WithThemeDone
<1> HIDE DEF clear
<1>5. CASE left # {}
  <2> DEFINE him == [clear EXCEPT !.pc = "fetch"]
  <2>1. /\ him \in RunnerState
        /\ him.pc = "fetch" /\ him.mem = me.mem /\ him.sat = me.sat /\ him.head = me.head
        /\ him.files = me.files /\ him.wanted = me.wanted /\ him.themes = left
        /\ him.ok = all /\ him.found = NoFinding
    BY <1>3 DEF RunnerState
  <2>2. WithThemeDone(r, ok) = him
    BY <1>4, <1>5
  <2> HIDE DEF him
  <2>3. RunnerOK(him)
    BY <1>1, <1>2, <1>5, <2>1 DEF RunnerOK
  <2> QED BY <1>5, <2>1, <2>2, <2>3
<1>6. CASE left = {}
  <2> DEFINE mem == [clear.mem EXCEPT ![s] = IF all THEN me.head ELSE @]
  <2>1. mem \in [Satellite -> Commit]
        /\ mem = IF all THEN [me.mem EXCEPT ![s] = me.head] ELSE me.mem
    BY <1>1, <1>2, <1>3 DEF RunnerState
  <2>2. next = [clear EXCEPT !.pc = "next", !.todo = @ \ {s}, !.files = {}, !.head = NoCommit,
                             !.ok = TRUE, !.mem = mem]
    BY <1>3 DEF RunnerState
  <2> HIDE DEF mem, next
  <2>3. /\ next \in RunnerState
        /\ next.pc = "next" /\ next.mem = mem /\ next.themes = left /\ next.found = NoFinding
        /\ next.files = {} /\ next.wanted = me.wanted
    BY <1>2, <1>3, <2>1, <2>2 DEF RunnerState
  <2>4. RunnerOK(next)
    BY <1>1, <1>2, <1>6, <2>3 DEF RunnerOK, Busy
  <2> QED BY <1>4, <1>6, <2>1, <2>3, <2>4
<1> QED BY <1>5, <1>6

\* A step of one runner keeps the types of all.
LEMMA RunnerTypes ==
  ASSUME Types, NEW r \in Runner, NEW him, RunnerOK(him),
         runner' = [runner EXCEPT ![r] = him]
  PROVE  runner' \in [Runner -> RunnerState] /\ \A q \in Runner : RunnerOK(runner'[q])
BY DEF Types, RunnerOK

\* What is settled stays settled and is made of views.
LEMMA SettleTypes ==
  ASSUME Types, NEW s \in Satellite, NEW views \in SUBSET View, Settle(s, views)
  PROVE  settled' \in [Satellite -> SUBSET View]
BY DEF Types, Settle

\* Every step keeps the types.
LEMMA TypesKept == Types /\ [Next]_vars => Types'
<1> SUFFICES ASSUME Types, [Next]_vars PROVE Types'
  OBVIOUS
<1>0. /\ faults \in 0 .. MaxFaults /\ MaxFaults \in Nat /\ unfetched \in 0 .. faults
      /\ \A r \in Runner : RunnerOK(runner[r]) /\ runner[r] \in RunnerState
  BY ReviewAssumption DEF Types
<1>1. /\ Fault => /\ faults' \in 0 .. MaxFaults
                  /\ unfetched \in 0 .. faults' /\ unfetched + 1 \in 0 .. faults'
      /\ faults' = faults => faults' \in 0 .. MaxFaults /\ unfetched \in 0 .. faults'
  BY <1>0 DEF Fault
<1>2. ASSUME NEW r \in Runner, NEW some \in SUBSET Satellite, NEW themes \in SUBSET Theme,
             NEW force \in BOOLEAN, themes # {}, Load(r, some, themes, force)
      PROVE  Types'
  <2> DEFINE him == [Rest EXCEPT !.pc = "next", !.mem = cache, !.todo = some,
                                 !.wanted = themes, !.force = force]
  <2>1. Rest \in RunnerState /\ Rest.themes = {} /\ Rest.found = NoFinding
        /\ \A f \in File : ~(Rest.found[f] > 0)
    BY RestOK DEF RunnerOK, NoFinding
  <2>2. /\ him \in RunnerState /\ him.pc = "next" /\ him.wanted = themes
        /\ him.themes = {} /\ him.found = Rest.found
    BY <2>1 DEF Types, RunnerState
  <2>3. runner' = [runner EXCEPT ![r] = him]
    BY <1>2 DEF Load
  <2> HIDE DEF him
  <2>4. RunnerOK(him)
    BY <1>2, <2>1, <2>2 DEF RunnerOK, Busy
  <2>5. runner' \in [Runner -> RunnerState] /\ \A q \in Runner : RunnerOK(runner'[q])
    BY <2>3, <2>4, RunnerTypes
  <2> QED BY <1>2, <2>5 DEF Load, Types, store, github
<1>3. ASSUME NEW r \in Runner, NEW s \in Satellite, Inspect(r, s)
      PROVE  Types'
  <2> DEFINE me == runner[r]
             last == me.mem[s]
             full == last = NoCommit \/ me.force
             files == IF full THEN File ELSE Changed(last, head[s])
  <2>1. files \in SUBSET File /\ head[s] \in Tree /\ head[s] \in Commit
    BY DEF Types, Changed, Commit
  <2>2. me.pc = "next" /\ me \in RunnerState /\ RunnerOK(me) /\ me.found = NoFinding
    BY <1>0, <1>3 DEF Inspect, At, RunnerOK
  <2> DEFINE him == [me EXCEPT !.pc = "fetch", !.sat = s, !.head = head[s], !.files = files,
                               !.themes = me.wanted, !.ok = TRUE]
  <2>3. /\ runner' = [runner EXCEPT ![r] = Noted(r, s, head[s])]
           \/ runner' = [runner EXCEPT ![r] = him]
        /\ settled' = settled \/ Settle(s, Views(head[s], files, Theme \ me.wanted))
           \/ Settle(s, Views(head[s], files, Theme))
        /\ Fault \/ UNCHANGED faults
        /\ UNCHANGED <<head, store, github>>
    BY <1>3 DEF Inspect, Types
  <2> HIDE DEF files
  <2>4. RunnerOK(him)
    <3>1. /\ him \in RunnerState /\ him.wanted = me.wanted /\ him.themes = me.wanted
          /\ him.found = NoFinding /\ him.head = head[s] /\ him.files = files /\ him.pc = "fetch"
      BY <2>1, <2>2 DEF RunnerState
    <3> HIDE DEF him
    <3> QED BY <2>1, <2>2, <3>1 DEF RunnerOK, NoFinding
  <2>5. RunnerOK(Noted(r, s, head[s]))
    <3> DEFINE it == Noted(r, s, head[s])
    <3>1. /\ it \in RunnerState /\ it.wanted = me.wanted /\ it.themes = me.themes
          /\ it.found = me.found /\ it.pc = "next" /\ it.files = me.files
      BY <2>1, <2>2 DEF Noted, RunnerState
    <3> HIDE DEF it
    <3>2. RunnerOK(it)
      BY <2>2, <3>1 DEF RunnerOK, Busy
    <3> QED BY <3>2 DEF it
  <2> HIDE DEF him
  <2>6. runner' \in [Runner -> RunnerState] /\ \A q \in Runner : RunnerOK(runner'[q])
    BY <2>3, <2>4, <2>5, RunnerTypes
  <2>7. settled' \in [Satellite -> SUBSET View]
    <3>1. Views(head[s], files, Theme) \in SUBSET View
          /\ Views(head[s], files, Theme \ me.wanted) \in SUBSET View
      BY <2>1, ViewsOK
    <3>2. CASE settled' = settled
      BY <3>2 DEF Types
    <3> QED BY <2>3, <3>1, <3>2, SettleTypes
  <2> QED BY <1>1, <2>3, <2>6, <2>7 DEF Types, store, github
<1>4. ASSUME NEW r \in Runner, NEW s \in Satellite, NoHead(r, s)
      PROVE  Types'
  <2> DEFINE me == runner[r]
             him == Passed(r, s)
  <2>1. me \in RunnerState /\ RunnerOK(me) /\ me.pc = "next"
    BY <1>0, <1>4 DEF NoHead, At
  <2>2. /\ him \in RunnerState /\ him.wanted = me.wanted /\ him.themes = me.themes
        /\ him.found = me.found /\ him.pc = "next" /\ him.files = me.files
    BY <2>1 DEF Passed, RunnerState
  <2>3. runner' = [runner EXCEPT ![r] = him]
    BY <1>4 DEF NoHead
  <2> HIDE DEF him
  <2>4. RunnerOK(him)
    BY <2>1, <2>2 DEF RunnerOK, Busy
  <2> QED BY <1>1, <1>4, <2>3, <2>4, RunnerTypes DEF NoHead, Types, store, github
<1>5. ASSUME NEW r \in Runner, FetchIssues(r)
      PROVE  Types'
  <2> DEFINE me == runner[r]
  <2>1. PICK known \in SUBSET File : runner' = [runner EXCEPT ![r].pc = "agent", ![r].known = known]
    BY <1>5 DEF FetchIssues, OpenOf
  <2> DEFINE him == [me EXCEPT !.pc = "agent", !.known = known]
  <2>2. me \in RunnerState /\ RunnerOK(me) /\ me.pc = "fetch"
    BY <1>0, <1>5 DEF FetchIssues, At
  <2>3. /\ him \in RunnerState /\ him.wanted = me.wanted /\ him.themes = me.themes
        /\ him.found = me.found /\ him.pc = "agent" /\ him.files = me.files /\ him.head = me.head
    BY <2>2 DEF RunnerState
  <2>4. runner' = [runner EXCEPT ![r] = him]
    BY <2>1 DEF Types
  <2> HIDE DEF him
  <2>5. RunnerOK(him)
    BY <2>2, <2>3 DEF RunnerOK, Busy
  <2>6. faults' \in 0 .. MaxFaults /\ unfetched' \in 0 .. faults'
    BY <1>1, <1>5 DEF FetchIssues
  <2> QED BY <1>5, <2>4, <2>5, <2>6, RunnerTypes DEF FetchIssues, Types, store
<1>6. ASSUME NEW r \in Runner, Answer(r)
      PROVE  Types'
  <2> DEFINE me == runner[r]
             s == me.sat
             theme == {ThemeOf(r)}
  <2>1. PICK prompt \in Prompted(me.files), found \in [File -> 0 .. MaxIssues] :
          /\ \A f \in File \ prompt : found[f] = 0
          /\ Settle(s, Views(head[s], prompt, theme)
                       \cup Views(me.head, me.files \ prompt, theme)
                       \cup Views(me.head, prompt \cap Changed(me.head, head[s]), theme))
          /\ runner' = [runner EXCEPT ![r] =
               IF found = NoFinding THEN WithThemeDone(r, TRUE)
               ELSE [me EXCEPT !.pc = "open", !.found = found]]
    BY <1>6 DEF Answer
  <2>2. me \in RunnerState /\ RunnerOK(me) /\ me.pc = "agent" /\ me.pc \in Busy
    BY <1>0, <1>6 DEF Answer, At, Busy
  <2>3. prompt \in SUBSET File /\ prompt \subseteq me.files /\ me.files \in SUBSET File
    BY <2>2 DEF Prompted, RunnerState
  <2>4. settled' \in [Satellite -> SUBSET View]
    <3>1. head[s] \in Tree /\ me.head \in Tree /\ s \in Satellite /\ theme \in SUBSET Theme
      BY <2>2, ThemeIn DEF Types, RunnerOK, RunnerState
    <3>2. me.files \ prompt \in SUBSET File /\ prompt \cap Changed(me.head, head[s]) \in SUBSET File
      BY <2>3
    <3> DEFINE a == Views(head[s], prompt, theme)
               b == Views(me.head, me.files \ prompt, theme)
               c == Views(me.head, prompt \cap Changed(me.head, head[s]), theme)
    <3>3. a \in SUBSET View /\ b \in SUBSET View /\ c \in SUBSET View
      BY <2>3, <3>1, <3>2, ViewsOK
    <3>4. Settle(s, a \cup b \cup c)
      BY <2>1
    <3> HIDE DEF a, b, c
    <3>5. a \cup b \cup c \in SUBSET View
      BY <3>3
    <3> QED BY <3>1, <3>4, <3>5, SettleTypes
  <2> DEFINE him == [me EXCEPT !.pc = "open", !.found = found]
  <2>5. RunnerOK(him)
    <3>1. /\ him \in RunnerState /\ him.wanted = me.wanted /\ him.themes = me.themes
          /\ him.found = found /\ him.pc = "open" /\ him.files = me.files /\ him.head = me.head
      BY <2>2 DEF RunnerState
    <3>2. \A f \in File : found[f] > 0 => f \in me.files
      BY <2>1, <2>3
    <3> HIDE DEF him
    <3> QED BY <2>2, <3>1, <3>2 DEF RunnerOK
  <2>6. RunnerOK(WithThemeDone(r, TRUE))
    BY <2>2, ThemeDone
  <2>7. \/ runner' = [runner EXCEPT ![r] = WithThemeDone(r, TRUE)]
        \/ runner' = [runner EXCEPT ![r] = him]
    BY <2>1
  <2> HIDE DEF him
  <2>8. runner' \in [Runner -> RunnerState] /\ \A q \in Runner : RunnerOK(runner'[q])
    BY <2>5, <2>6, <2>7, RunnerTypes
  <2> QED BY <1>6, <2>4, <2>8 DEF Answer, Types, store, github
<1>7. ASSUME NEW r \in Runner, NoAnswer(r)
      PROVE  Types'
  <2> DEFINE me == runner[r]
  <2>1. me \in RunnerState /\ RunnerOK(me) /\ me.pc \in Busy
    BY <1>0, <1>7 DEF NoAnswer, At, Busy
  <2>2. RunnerOK(WithThemeDone(r, TRUE)) /\ runner' = [runner EXCEPT ![r] = WithThemeDone(r, TRUE)]
    BY <1>7, <2>1, ThemeDone DEF NoAnswer
  <2>3. Views(me.head, me.files, {ThemeOf(r)}) \in SUBSET View /\ me.sat \in Satellite
    BY <2>1, ThemeIn, ViewsOK DEF RunnerOK, RunnerState
  <2>4. settled' \in [Satellite -> SUBSET View]
    BY <1>7, <2>3, SettleTypes DEF NoAnswer
  <2> QED BY <1>1, <1>7, <2>2, <2>4, RunnerTypes DEF NoAnswer, Types, store, github
<1>8. ASSUME NEW r \in Runner, ReviewFails(r)
      PROVE  Types'
  <2>1. RunnerOK(WithThemeDone(r, FALSE)) /\ runner' = [runner EXCEPT ![r] = WithThemeDone(r, FALSE)]
    BY <1>0, <1>8, ThemeDone DEF ReviewFails, Busy
  <2> QED BY <1>1, <1>8, <2>1, RunnerTypes DEF ReviewFails, Types, store, github
<1>9. ASSUME NEW r \in Runner, OpenIssues(r)
      PROVE  Types'
  <2>1. runner[r].pc \in Busy
    BY <1>9 DEF OpenIssues, At, Busy
  <2>2. RunnerOK(WithThemeDone(r, TRUE)) /\ runner' = [runner EXCEPT ![r] = WithThemeDone(r, TRUE)]
    BY <1>0, <1>9, <2>1, ThemeDone DEF OpenIssues
  <2>3. issues' \in [Finding -> Nat]
    <3>1. PICK new \in [File -> 0 .. MaxIssues] :
            issues' = [x \in Finding |->
              issues[x] + (IF x[1] = runner[r].sat THEN new[x[2]] ELSE 0)]
      BY <1>9 DEF OpenIssues
    <3>2. \A x \in Finding : x[2] \in File /\ issues[x] \in Nat /\ new[x[2]] \in Nat
      BY ReviewAssumption DEF Finding, Types
    <3> QED BY <3>1, <3>2
  <2>4. (Fault \/ UNCHANGED faults) /\ unfetched' = unfetched
    BY <1>9 DEF OpenIssues
  <2> QED BY <1>1, <1>9, <2>2, <2>3, <2>4, RunnerTypes DEF OpenIssues, Types, store
<1>10. ASSUME NEW r \in Runner, WriteTmp(r)
       PROVE  Types'
  <2>1. runner' = [runner EXCEPT ![r] = Saving] /\ runner[r] \in RunnerState
    BY <1>0, <1>10 DEF WriteTmp, Saving, Types
  <2>2. tmp' \in [Satellite -> Commit]
    BY <1>10, <2>1 DEF WriteTmp, RunnerState
  <2> QED BY <1>10, <2>1, <2>2, SavingOK, RunnerTypes DEF WriteTmp, Types, github
<1>11. ASSUME NEW r \in Runner, Replace(r) \/ Crash(r)
       PROVE  Types'
  <2>1. runner' = [runner EXCEPT ![r] = Rest]
    BY <1>11 DEF Replace, Crash
  <2>2. cache' \in [Satellite -> Commit] /\ (tmp' = Nothing \/ tmp' \in [Satellite -> Commit])
    BY <1>11 DEF Replace, Crash, store, Types
  <2>3. (Fault \/ UNCHANGED faults) /\ unfetched' = unfetched /\ UNCHANGED <<head, issues, settled>>
    BY <1>11 DEF Replace, Crash, github
  <2>4. faults' \in 0 .. MaxFaults /\ unfetched' \in 0 .. faults'
    BY <1>1, <2>3
  <2> QED BY <2>1, <2>2, <2>3, <2>4, RestOK, RunnerTypes DEF Types
<1>12. ASSUME NEW s \in Satellite, NEW tree \in Tree, MoveHead(s, tree)
       PROVE  Types'
  <2>1. head' \in [Satellite -> Tree]
    BY <1>12 DEF MoveHead, Types
  <2> QED BY <1>12, <2>1 DEF MoveHead, Types, store, github
<1>13. ASSUME NEW x \in Finding, CloseIssue(x)
       PROVE  Types'
  <2>1. issues' \in [Finding -> Nat]
    BY <1>13 DEF CloseIssue, Types
  <2> QED BY <1>13, <2>1 DEF CloseIssue, Types, store
<1>14. CASE UNCHANGED vars
  BY <1>14 DEF vars, Types, store, github
<1> QED
  <2>1. Satellite \in SUBSET Satellite /\ \A s \in Satellite : {s} \in SUBSET Satellite
    OBVIOUS
  <2>2. /\ Theme \in SUBSET Theme /\ Theme # {}
        /\ \A t \in Theme : {t} \in SUBSET Theme /\ {t} # {}
    BY ReviewAssumption
  <2>3. ASSUME NEW r \in Runner, Review(r) PROVE Types'
    BY <2>1, <2>2, <2>3, <1>2, <1>3, <1>5, <1>6, <1>9, <1>10, <1>11 DEF Review
  <2>4. ASSUME NEW r \in Runner, NEW some \in {{s} : s \in Satellite} \cup {Satellite},
               NEW some_themes \in {{t} : t \in Theme} \cup {Theme}, NEW force \in BOOLEAN,
               Load(r, some, some_themes, force)
        PROVE  Types'
    <3>1. some \in SUBSET Satellite /\ some_themes \in SUBSET Theme /\ some_themes # {}
      BY <2>2
    <3> QED BY <3>1, <2>4, <1>2
  <2> QED BY <2>3, <2>4, <1>4, <1>7, <1>8, <1>11, <1>12, <1>13, <1>14 DEF Next

\* The first state has them.
LEMMA InitTypes == Init => Types
<1>1. NoFile \in [Satellite -> Commit]
  BY DEF NoFile, Commit
<1>2. 0 \in 0 .. MaxFaults /\ 0 \in 0 .. 0
  BY ReviewAssumption
<1> SUFFICES ASSUME Init PROVE Types
  OBVIOUS
<1>3. runner \in [Runner -> RunnerState] /\ \A r \in Runner : RunnerOK(runner[r])
  BY RestOK DEF Init, RunnerOK
<1>4. issues \in [Finding -> Nat] /\ settled \in [Satellite -> SUBSET View]
  BY DEF Init
<1> QED BY <1>1, <1>2, <1>3, <1>4 DEF Init, Types

\* Every variable keeps its type.
THEOREM TypeCorrect == Spec => []TypeOK
<1>1. Types => TypeOK
  BY DEF Types, TypeOK, RunnerOK, RunnerState, View
<1> QED BY <1>1, InitTypes, TypesKept, PTL DEF Spec

-----------------------------------------------------------------------------
\* The issues.

\* The runners that may still open issues of a finding: they had no open issue of
\* it in their list.
Opening(x) == {r \in Runner : /\ runner[r].pc \in {"agent", "open"}
                              /\ runner[r].sat = x[1] /\ x[2] \notin runner[r].known}

\* What is open and what may still be opened.  As long as nothing is open, no
\* runner can be blamed for not knowing it.
PileInv ==
  \A x \in Finding :
    issues[x] > 0 => issues[x] + MaxIssues * Cardinality(Opening(x))
                       <= MaxIssues * (Cardinality(Runner) + unfetched)

\* Products by the same limit.
LEMMA Times ==
  ASSUME NEW m \in Nat, NEW a \in Nat, NEW b \in Nat
  PROVE  /\ m * a \in Nat /\ m * (a + b) = m * a + m * b /\ m * (a + 1) = m * a + m
         /\ a <= b => m * a <= m * b
<1>1. m * a \in Nat /\ m * (a + b) = m * a + m * b /\ m * (a + 1) = m * a + m
  OBVIOUS
<1>2. ASSUME a <= b PROVE m * a <= m * b
  <2>1. PICK d \in Nat : b = a + d
    <3>1. b - a \in Nat /\ b = a + (b - a)
      BY <1>2
    <3> QED BY <3>1
  <2>2. m * b = m * a + m * d /\ m * d \in Nat /\ m * a \in Nat
    BY <2>1
  <2> HIDE <2>1
  <2> QED BY <2>2
<1> QED BY <1>1, <1>2

\* There are never more of them than runners.
LEMMA OpeningSize ==
  \A x : /\ IsFiniteSet(Opening(x)) /\ Cardinality(Opening(x)) \in Nat
         /\ Cardinality(Opening(x)) <= Cardinality(Runner) /\ Cardinality(Runner) \in Nat
<1> SUFFICES ASSUME NEW x
             PROVE  /\ IsFiniteSet(Opening(x)) /\ Cardinality(Opening(x)) \in Nat
                    /\ Cardinality(Opening(x)) <= Cardinality(Runner)
                    /\ Cardinality(Runner) \in Nat
  OBVIOUS
<1>1. Opening(x) \in SUBSET Runner
  BY DEF Opening
<1>2. IsFiniteSet(Runner)
  BY ReviewAssumption
<1>3. IsFiniteSet(Opening(x)) /\ Cardinality(Opening(x)) <= Cardinality(Runner)
  BY <1>1, <1>2, FS_Subset
<1> QED BY <1>2, <1>3, FS_CardinalityType

\* A step that opens nothing and makes nobody unaware.
LEMMA NoMoreIssues ==
  ASSUME Types, Types', PileInv, unfetched' = unfetched,
         \A x \in Finding : issues'[x] <= issues[x],
         \A x \in Finding : issues'[x] > 0 => Opening(x)' \subseteq Opening(x)
  PROVE  PileInv'
<1> SUFFICES ASSUME NEW x \in Finding, issues'[x] > 0
             PROVE  issues'[x] + MaxIssues * Cardinality(Opening(x)')
                      <= MaxIssues * (Cardinality(Runner) + unfetched')
  BY DEF PileInv
<1> DEFINE a == Cardinality(Opening(x)')
           b == Cardinality(Opening(x))
           top == MaxIssues * (Cardinality(Runner) + unfetched)
<1>1. issues[x] \in Nat /\ issues'[x] \in Nat /\ MaxIssues \in Nat
  BY ReviewAssumption DEF Types
<1>2. issues[x] + MaxIssues * b <= top
  BY <1>1 DEF PileInv
<1>3. IsFiniteSet(Opening(x)) /\ b \in Nat /\ Cardinality(Runner) \in Nat
  BY OpeningSize
<1>4. Opening(x)' \in SUBSET Opening(x)
  OBVIOUS
<1>5. a <= b /\ a \in Nat
  BY <1>3, <1>4, FS_Subset, FS_CardinalityType
<1>6. unfetched \in Nat
  BY DEF Types
<1>7. top \in Nat
  BY <1>1, <1>3, <1>6, Times
<1> HIDE DEF a, b, top
<1>8. MaxIssues * a <= MaxIssues * b /\ MaxIssues * a \in Nat /\ MaxIssues * b \in Nat
  BY <1>1, <1>3, <1>5, Times
<1>9. issues'[x] + MaxIssues * a <= top
  BY <1>1, <1>2, <1>7, <1>8
<1> QED BY <1>9 DEF a, top

\* A list that lacks open issues makes one runner unaware, and counts.
LEMMA FetchPile ==
  ASSUME Types, Types', PileInv, NEW r \in Runner, FetchIssues(r)
  PROVE  PileInv'
<1> DEFINE me == runner[r]
<1>1. me \in RunnerState /\ me.pc = "fetch" /\ issues' = issues
  BY DEF FetchIssues, At, Types
<1>2. PICK some \in SUBSET OpenOf(me.sat) :
        /\ runner' = [runner EXCEPT ![r].pc = "agent", ![r].known = some]
        /\ \/ some = OpenOf(me.sat) /\ unfetched' = unfetched
           \/ unfetched' = unfetched + 1
  BY DEF FetchIssues
<1>3. /\ \A q \in Runner \ {r} : runner'[q] = runner[q]
      /\ runner'[r].pc = "agent" /\ runner'[r].known = some /\ runner'[r].sat = me.sat
  BY <1>1, <1>2 DEF Types, RunnerState
<1>4. \A x : Opening(x)' \subseteq Opening(x) \cup {r}
  BY <1>3 DEF Opening
<1>5. CASE some = OpenOf(me.sat) /\ unfetched' = unfetched
  <2>1. ASSUME NEW x \in Finding, issues'[x] > 0 PROVE r \notin Opening(x)'
    <3>1. x = <<x[1], x[2]>> /\ x[2] \in File
      BY DEF Finding
    <3>2. x[1] = me.sat => x[2] \in OpenOf(me.sat)
      BY <1>1, <2>1, <3>1 DEF OpenOf
    <3> QED BY <1>3, <1>5, <3>2 DEF Opening
  <2>2. \A x \in Finding : issues'[x] <= issues[x]
    BY <1>1 DEF Types
  <2> QED BY <1>4, <1>5, <2>1, <2>2, NoMoreIssues
<1>6. CASE unfetched' = unfetched + 1
  <2> SUFFICES ASSUME NEW x \in Finding, issues'[x] > 0
               PROVE  issues'[x] + MaxIssues * Cardinality(Opening(x)')
                        <= MaxIssues * (Cardinality(Runner) + unfetched')
    BY DEF PileInv
  <2> DEFINE a == Cardinality(Opening(x)')
             b == Cardinality(Opening(x))
             n == Cardinality(Runner) + unfetched
  <2>1. issues[x] \in Nat /\ MaxIssues \in Nat /\ unfetched \in Nat
    BY ReviewAssumption DEF Types
  <2>2. issues[x] + MaxIssues * b <= MaxIssues * n
    BY <1>1 DEF PileInv
  <2>3. IsFiniteSet(Opening(x)) /\ b \in Nat /\ n \in Nat /\ Cardinality(Runner) \in Nat
    BY <2>1, OpeningSize
  <2>4. IsFiniteSet(Opening(x) \cup {r}) /\ Cardinality(Opening(x) \cup {r}) <= b + 1
    <3>1. /\ IsFiniteSet(Opening(x) \cup {r})
          /\ Cardinality(Opening(x) \cup {r}) = IF r \in Opening(x) THEN b ELSE b + 1
      BY <2>3, FS_AddElement
    <3> HIDE DEF b
    <3> QED BY <2>3, <3>1
  <2>5. Opening(x)' \in SUBSET (Opening(x) \cup {r})
    BY <1>4
  <2>6. a <= Cardinality(Opening(x) \cup {r}) /\ IsFiniteSet(Opening(x)')
    BY <2>4, <2>5, FS_Subset
  <2>7. a \in Nat /\ Cardinality(Opening(x) \cup {r}) \in Nat
    BY <2>4, <2>6, FS_CardinalityType
  <2>8. Cardinality(Runner) + unfetched' = n + 1
    BY <1>6, <2>1, <2>3
  <2> HIDE DEF a, b, n
  <2>9. a <= b + 1
    BY <2>3, <2>4, <2>6, <2>7
  <2>10. /\ MaxIssues * a <= MaxIssues * (b + 1) /\ MaxIssues * (b + 1) = MaxIssues * b + MaxIssues
         /\ MaxIssues * (n + 1) = MaxIssues * n + MaxIssues
         /\ MaxIssues * a \in Nat /\ MaxIssues * b \in Nat /\ MaxIssues * n \in Nat
    <3>1. b + 1 \in Nat
      BY <2>3
    <3> QED BY <2>1, <2>3, <2>7, <2>9, <3>1, Times
  <2>11. issues'[x] + MaxIssues * a <= MaxIssues * (n + 1)
    BY <1>1, <2>1, <2>2, <2>10
  <2> QED BY <2>8, <2>11 DEF a
<1> QED BY <1>2, <1>5, <1>6

\* Whoever opens issues of a finding was unaware of it, and is not any more: the
\* pile grows by what was allowed for.
LEMMA OpenPile ==
  ASSUME Types, Types', PileInv, NEW r \in Runner, OpenIssues(r)
  PROVE  PileInv'
<1> DEFINE me == runner[r]
           him == WithThemeDone(r, TRUE)
<1>1. me \in RunnerState /\ me.pc = "open" /\ RunnerOK(me) /\ unfetched' = unfetched
  BY DEF OpenIssues, At, Types
<1>2. PICK new \in [File -> 0 .. MaxIssues] :
        /\ \A f \in File : new[f] <= Unique(me.found, me.known)[f]
        /\ issues' = [x \in Finding |-> issues[x] + (IF x[1] = me.sat THEN new[x[2]] ELSE 0)]
  BY DEF OpenIssues
<1>3. him.pc \in {"fetch", "next"}
  BY <1>1, ThemeDone DEF Busy
<1>4. runner' = [runner EXCEPT ![r] = him]
  BY DEF OpenIssues
<1> HIDE DEF him
<1>5. \A x : Opening(x)' \subseteq Opening(x) \ {r}
  BY <1>3, <1>4 DEF Opening, Types
<1> SUFFICES ASSUME NEW x \in Finding, issues'[x] > 0
             PROVE  issues'[x] + MaxIssues * Cardinality(Opening(x)')
                      <= MaxIssues * (Cardinality(Runner) + unfetched')
  BY DEF PileInv
<1> DEFINE a == Cardinality(Opening(x)')
           b == Cardinality(Opening(x))
           c == Cardinality(Runner)
           k == IF x[1] = me.sat THEN new[x[2]] ELSE 0
<1>6. /\ issues[x] \in Nat /\ MaxIssues \in Nat /\ unfetched \in Nat /\ x[2] \in File
      /\ k \in 0 .. MaxIssues /\ issues'[x] = issues[x] + k
  BY <1>2, ReviewAssumption DEF Types, Finding
<1>7. IsFiniteSet(Opening(x)) /\ b \in Nat /\ c \in Nat /\ b <= c
  BY OpeningSize
<1>8. IsFiniteSet(Opening(x) \ {r})
      /\ Cardinality(Opening(x) \ {r}) = IF r \in Opening(x) THEN b - 1 ELSE b
  BY <1>7, FS_RemoveElement
<1>9. Opening(x)' \in SUBSET (Opening(x) \ {r})
  BY <1>5
<1>10. a <= Cardinality(Opening(x) \ {r}) /\ IsFiniteSet(Opening(x)')
  BY <1>8, <1>9, FS_Subset
<1>11. a \in Nat
  BY <1>10, FS_CardinalityType
<1>12. k > 0 => r \in Opening(x)
  <2> SUFFICES ASSUME k > 0 PROVE r \in Opening(x)
    OBVIOUS
  <2>1. x[1] = me.sat /\ new[x[2]] > 0 /\ new[x[2]] <= Unique(me.found, me.known)[x[2]]
    BY <1>2, <1>6
  <2>2. x[2] \notin me.known
    BY <1>2, <1>6, <2>1 DEF Unique
  <2> QED BY <1>1, <2>1, <2>2 DEF Opening
<1>13. issues[x] > 0 => issues[x] + MaxIssues * b <= MaxIssues * (c + unfetched)
  BY DEF PileInv
<1>14. k > 0 => a + 1 <= b
  BY <1>7, <1>8, <1>10, <1>11, <1>12
<1>15. a <= b
  BY <1>7, <1>8, <1>10, <1>11
<1> HIDE DEF a, b, c, k
<1>16. /\ MaxIssues * b <= MaxIssues * c /\ MaxIssues * a <= MaxIssues * b
       /\ MaxIssues * (c + unfetched) = MaxIssues * c + MaxIssues * unfetched
       /\ MaxIssues * unfetched \in Nat /\ MaxIssues * a \in Nat /\ MaxIssues * b \in Nat
       /\ MaxIssues * c \in Nat
  BY <1>6, <1>7, <1>11, <1>15, Times
<1>17. k > 0 => MaxIssues * a + MaxIssues <= MaxIssues * b
  <2>1. a + 1 \in Nat /\ MaxIssues * (a + 1) = MaxIssues * a + MaxIssues
    BY <1>6, <1>11, Times
  <2>2. a + 1 <= b => MaxIssues * (a + 1) <= MaxIssues * b
    BY <1>6, <1>7, <2>1, Times
  <2> QED BY <1>14, <2>1, <2>2
<1>18. issues'[x] + MaxIssues * a <= MaxIssues * (c + unfetched)
  <2>1. CASE k = 0
    BY <1>6, <1>13, <1>16, <2>1
  <2>2. CASE k > 0 /\ issues[x] = 0
    BY <1>6, <1>16, <1>17, <2>2
  <2>3. CASE k > 0 /\ issues[x] > 0
    BY <1>6, <1>13, <1>16, <1>17, <2>3
  <2> QED BY <1>6, <2>1, <2>2, <2>3
<1> QED BY <1>1, <1>18 DEF a, c

\* Duplicates do not pile up from tour to tour: each runner, and each incomplete
\* list, is good for one answer (check_duplicates).
THEOREM DuplicatesAreFew == Spec => []DuplicatesDoNotPileUp
<1>1. Init => PileInv
  BY DEF Init, PileInv
<1>2. Types /\ Types' /\ PileInv /\ [Next]_vars => PileInv'
  <2> SUFFICES ASSUME Types, Types', PileInv, [Next]_vars PROVE PileInv'
    OBVIOUS
  <2>0. \A x \in Finding : issues[x] \in Nat /\ issues[x] <= issues[x]
    BY DEF Types
  <2>1. ASSUME NEW r \in Runner, NEW him, runner' = [runner EXCEPT ![r] = him],
               UNCHANGED <<issues, unfetched>>,
               him.pc \in {"idle", "next", "fetch", "replace"} \/
               (/\ runner[r].pc \in {"agent", "open"} /\ him.sat = runner[r].sat
                /\ him.known = runner[r].known)
        PROVE  PileInv'
    <3>1. \A x : Opening(x)' \subseteq Opening(x)
      BY <2>1 DEF Opening, Types
    <3> QED BY <2>0, <2>1, <3>1, NoMoreIssues
  <2>2. ASSUME NEW r \in Runner, NEW some, NEW themes, NEW force, Load(r, some, themes, force)
        PROVE  PileInv'
    <3> DEFINE him == [Rest EXCEPT !.pc = "next", !.mem = cache, !.todo = some,
                                   !.wanted = themes, !.force = force]
    <3>1. him.pc = "next" /\ runner' = [runner EXCEPT ![r] = him]
      BY <2>2 DEF Load, Rest
    <3> HIDE DEF him
    <3> QED BY <2>1, <2>2, <3>1 DEF Load, github
  <2>3. ASSUME NEW r \in Runner, NEW s \in Satellite, Inspect(r, s)
        PROVE  PileInv'
    <3> DEFINE files == IF runner[r].mem[s] = NoCommit \/ runner[r].force THEN File
                        ELSE Changed(runner[r].mem[s], head[s])
               him == [runner[r] EXCEPT !.pc = "fetch", !.sat = s, !.head = head[s],
                                   !.files = files, !.themes = runner[r].wanted, !.ok = TRUE]
               it == Noted(r, s, head[s])
    <3>1. runner[r] \in RunnerState /\ runner[r].pc = "next" /\ UNCHANGED <<issues, unfetched>>
      BY <2>3 DEF Inspect, At, Types, github
    <3>2. runner' = [runner EXCEPT ![r] = it] \/ runner' = [runner EXCEPT ![r] = him]
      BY <2>3 DEF Inspect, Types
    <3>3. it.pc = "next" /\ him.pc = "fetch"
      BY <3>1 DEF Noted, RunnerState
    <3> HIDE DEF him, it
    <3>4. CASE runner' = [runner EXCEPT ![r] = him]
      BY <2>1, <3>1, <3>3, <3>4
    <3>5. CASE runner' = [runner EXCEPT ![r] = it]
      BY <2>1, <3>1, <3>3, <3>5
    <3> QED BY <3>2, <3>4, <3>5
  <2>4. ASSUME NEW r \in Runner, NEW s \in Satellite, NoHead(r, s)
        PROVE  PileInv'
    <3>1. Passed(r, s).pc = "next" /\ runner' = [runner EXCEPT ![r] = Passed(r, s)]
      BY <2>4 DEF NoHead, At, Passed, Types, RunnerState
    <3> QED BY <2>1, <2>4, <3>1 DEF NoHead, github
  <2>5. ASSUME NEW r \in Runner, Answer(r)
        PROVE  PileInv'
    <3>1. runner[r].pc = "agent" /\ runner[r] \in RunnerState /\ RunnerOK(runner[r])
      BY <2>5 DEF Answer, At, Types
    <3>2. PICK found \in [File -> 0 .. MaxIssues] :
            \/ runner' = [runner EXCEPT ![r] = WithThemeDone(r, TRUE)]
            \/ runner' = [runner EXCEPT ![r] = [runner[r] EXCEPT !.pc = "open", !.found = found]]
      BY <2>5 DEF Answer
    <3>3. WithThemeDone(r, TRUE).pc \in {"fetch", "next"}
      BY <3>1, ThemeDone DEF Busy
    <3> DEFINE him == [runner[r] EXCEPT !.pc = "open", !.found = found]
    <3>4. him.sat = runner[r].sat /\ him.known = runner[r].known
      BY <3>1 DEF RunnerState
    <3> HIDE DEF him
    <3>5. runner' = [runner EXCEPT ![r] = WithThemeDone(r, TRUE)] \/ runner' = [runner EXCEPT ![r] = him]
      BY <3>2 DEF him
    <3> QED BY <2>1, <2>5, <3>1, <3>3, <3>4, <3>5 DEF Answer, github
  <2>6. ASSUME NEW r \in Runner, NoAnswer(r) \/ ReviewFails(r)
        PROVE  PileInv'
    <3>1. PICK ok \in BOOLEAN : runner' = [runner EXCEPT ![r] = WithThemeDone(r, ok)]
      BY <2>6 DEF NoAnswer, ReviewFails
    <3>2. runner[r].pc \in Busy /\ RunnerOK(runner[r])
      BY <2>6 DEF NoAnswer, ReviewFails, At, Busy, Types
    <3>3. WithThemeDone(r, ok).pc \in {"fetch", "next"}
      BY <3>2, ThemeDone
    <3> QED BY <2>1, <2>6, <3>1, <3>3 DEF NoAnswer, ReviewFails, github
  <2>7. ASSUME NEW r \in Runner, WriteTmp(r)
        PROVE  PileInv'
    <3>1. Saving.pc = "replace" /\ runner' = [runner EXCEPT ![r] = Saving]
      BY <2>7, SavingOK DEF WriteTmp, Saving
    <3> QED BY <2>1, <2>7, <3>1 DEF WriteTmp, github
  <2>8. ASSUME NEW r \in Runner, Replace(r) \/ Crash(r)
        PROVE  PileInv'
    BY <2>1, <2>8, RestOK DEF Replace, Crash, github
  <2>9. ASSUME NEW y \in Finding, CloseIssue(y)
        PROVE  PileInv'
    <3>1. \A x \in Finding : issues'[x] <= issues[x]
      BY <2>9 DEF CloseIssue, Types
    <3>2. \A x : Opening(x)' = Opening(x)
      BY <2>9 DEF CloseIssue, Opening
    <3> QED BY <2>9, <3>1, <3>2, NoMoreIssues DEF CloseIssue
  <2>10. CASE (\E s \in Satellite, tree \in Tree : MoveHead(s, tree)) \/ UNCHANGED vars
    <3>1. UNCHANGED <<runner, issues, unfetched>>
      BY <2>10 DEF MoveHead, vars, github
    <3> QED BY <3>1 DEF PileInv, Opening
  <2> QED BY <2>2, <2>3, <2>4, <2>5, <2>6, <2>7, <2>8, <2>9, <2>10, FetchPile, OpenPile
          DEF Next, Review
<1>3. Types /\ PileInv => DuplicatesDoNotPileUp
  <2> SUFFICES ASSUME Types, PileInv, NEW x \in Finding
               PROVE  issues[x] <= MaxIssues * (Cardinality(Runner) + unfetched)
    BY DEF DuplicatesDoNotPileUp
  <2>1. /\ issues[x] \in Nat /\ MaxIssues \in Nat /\ unfetched \in Nat
        /\ Cardinality(Runner) \in Nat /\ Cardinality(Opening(x)) \in Nat
    BY ReviewAssumption, OpeningSize DEF Types
  <2>2. Cardinality(Runner) + unfetched \in Nat
    BY <2>1
  <2>3. /\ MaxIssues * (Cardinality(Runner) + unfetched) \in Nat
        /\ MaxIssues * Cardinality(Opening(x)) \in Nat
    BY <2>1, <2>2, Times
  <2>4. issues[x] > 0 => issues[x] + MaxIssues * Cardinality(Opening(x))
                           <= MaxIssues * (Cardinality(Runner) + unfetched)
    BY DEF PileInv
  <2> QED BY <2>1, <2>3, <2>4
<1>4. Spec => []Types
  BY InitTypes, TypesKept, PTL DEF Spec
<1> QED BY <1>1, <1>2, <1>3, <1>4, PTL DEF Spec

-----------------------------------------------------------------------------
\* What is remembered.

\* Every commit that is remembered has been settled in full.
Remembers(done, mem) ==
  \A s \in Satellite : mem[s] # NoCommit => Views(mem[s], File, Theme) \subseteq done[s]

\* The themes whose answer the review of a runner still waits for.
Awaited(me) ==
  IF me.pc = "open" THEN me.themes \ {CHOOSE t \in me.themes : \A u \in me.themes : t <= u}
  ELSE me.themes

\* A commit under review will have been settled when the answers are there, as
\* long as no call of run_review.py has failed.
Promises(done, me) ==
  me.pc \in Busy /\ me.ok =>
    \A f \in File, t \in Theme : \/ <<f, me.head[f], t>> \in done[me.sat]
                                 \/ f \in me.files /\ t \in Awaited(me)

MemoryInv ==
  /\ Remembers(settled, cache)
  /\ tmp # Nothing => Remembers(settled, tmp)
  /\ \A r \in Runner : Remembers(settled, runner[r].mem) /\ Promises(settled, runner[r])

\* What is settled stays settled.
Grows == \A s \in Satellite : settled[s] \subseteq settled'[s]

LEMMA SettleGrows ==
  ASSUME Types, NEW s \in Satellite, NEW views, Settle(s, views)
  PROVE  Grows /\ settled'[s] = settled[s] \cup views
BY DEF Types, Settle, Grows

\* Memories and promises survive that.
LEMMA MoreIsSettled ==
  ASSUME Grows
  PROVE  /\ \A mem : Remembers(settled, mem) => Remembers(settled', mem)
         /\ \A me : me.sat \in Satellite /\ Promises(settled, me) => Promises(settled', me)
<1>1. ASSUME NEW mem, Remembers(settled, mem) PROVE Remembers(settled', mem)
  BY <1>1 DEF Grows, Remembers
<1>2. ASSUME NEW me, me.sat \in Satellite, Promises(settled, me) PROVE Promises(settled', me)
  BY <1>2 DEF Grows, Promises
<1> QED BY <1>1, <1>2

\* One runner goes on: what it remembers and what it has under review must be
\* settled, the rest is as before.
LEMMA OneRunner ==
  ASSUME Types, MemoryInv, Grows, NEW r \in Runner, NEW him,
         runner' = [runner EXCEPT ![r] = him],
         Remembers(settled', him.mem), Promises(settled', him),
         Remembers(settled', cache'), tmp' # Nothing => Remembers(settled', tmp')
  PROVE  MemoryInv'
<1>1. \A q \in Runner : runner'[q] = IF q = r THEN him ELSE runner[q]
  BY DEF Types
<1>2. \A q \in Runner : runner[q].sat \in Satellite
  BY DEF Types, RunnerState
<1>3. ASSUME NEW q \in Runner
      PROVE  Remembers(settled', runner'[q].mem) /\ Promises(settled', runner'[q])
  <2>1. CASE q = r
    BY <1>1, <2>1
  <2>2. CASE q # r
    <3>1. Remembers(settled, runner[q].mem) /\ Promises(settled, runner[q])
      BY DEF MemoryInv
    <3> QED BY <1>1, <1>2, <2>2, <3>1, MoreIsSettled
  <2> QED BY <2>1, <2>2
<1> QED BY <1>3 DEF MemoryInv

\* A runner that remembers what it did and has no review under way; the state file
\* stays or takes what somebody remembered.
LEMMA AtRest ==
  ASSUME Types, MemoryInv, Grows, NEW r \in Runner, NEW him,
         runner' = [runner EXCEPT ![r] = him], him.pc \notin Busy,
         him.mem \in {cache, runner[r].mem, NoFile},
         cache' = cache \/ (tmp # Nothing /\ cache' = tmp),
         tmp' \in {tmp, Nothing, runner[r].mem}
  PROVE  MemoryInv'
<1>1. /\ Remembers(settled, cache) /\ Remembers(settled, runner[r].mem)
      /\ tmp # Nothing => Remembers(settled, tmp)
  BY DEF MemoryInv
<1>2. Remembers(settled, NoFile)
  BY DEF Remembers, NoFile
<1>3. Remembers(settled', him.mem) /\ Remembers(settled', cache')
      /\ (tmp' # Nothing => Remembers(settled', tmp'))
  BY <1>1, <1>2, MoreIsSettled
<1>4. Promises(settled', him)
  BY DEF Promises
<1> QED BY <1>3, <1>4, OneRunner

\* A theme is through: after the last one the commit is settled and may be noted
\* (WithThemeDone).
LEMMA AfterTheme ==
  ASSUME Types, MemoryInv, Grows, UNCHANGED store, NEW r \in Runner, NEW ok \in BOOLEAN,
         runner[r].pc \in Busy, runner' = [runner EXCEPT ![r] = WithThemeDone(r, ok)],
         runner[r].ok /\ ok =>
           \A f \in File, t \in Theme :
             \/ <<f, runner[r].head[f], t>> \in settled'[runner[r].sat]
             \/ f \in runner[r].files /\ t \in runner[r].themes \ {ThemeOf(r)}
  PROVE  MemoryInv'
<1> DEFINE me == runner[r]
           him == WithThemeDone(r, ok)
<1>1. me \in RunnerState /\ RunnerOK(me)
  BY DEF Types
<1>2. /\ him.themes = me.themes \ {ThemeOf(r)}
      /\ him.themes # {} => /\ him.pc = "fetch" /\ him.mem = me.mem /\ him.sat = me.sat
                            /\ him.head = me.head /\ him.files = me.files
                            /\ him.ok => me.ok /\ ok
      /\ him.themes = {} =>
           /\ him.pc = "next"
           /\ him.mem = IF me.ok /\ ok THEN [me.mem EXCEPT ![me.sat] = me.head] ELSE me.mem
  BY <1>1, ThemeDone
<1>3. runner' = [runner EXCEPT ![r] = him]
  OBVIOUS
<1> HIDE DEF him
<1>4. Remembers(settled', me.mem)
  BY MoreIsSettled DEF MemoryInv
<1>5. Remembers(settled', him.mem)
  <2>1. CASE him.mem = me.mem
    BY <1>4, <2>1
  <2>2. CASE him.mem # me.mem
    <3>1. him.themes = {} /\ me.ok /\ ok /\ him.mem = [me.mem EXCEPT ![me.sat] = me.head]
      BY <1>2, <2>2
    <3>2. Views(me.head, File, Theme) \subseteq settled'[me.sat]
      BY <1>2, <3>1 DEF Views
    <3>3. me.mem \in [Satellite -> Commit]
      BY <1>1 DEF RunnerState
    <3> QED BY <1>4, <3>1, <3>2, <3>3 DEF Remembers
  <2> QED BY <2>1, <2>2
<1>6. Promises(settled', him)
  <2> SUFFICES ASSUME him.pc \in Busy, him.ok, NEW f \in File, NEW t \in Theme
               PROVE  \/ <<f, him.head[f], t>> \in settled'[him.sat]
                      \/ f \in him.files /\ t \in Awaited(him)
    BY DEF Promises
  <2>1. him.themes # {} /\ Awaited(him) = him.themes
    BY <1>2 DEF Busy, Awaited
  <2> QED BY <1>2, <2>1
<1>7. Remembers(settled', cache') /\ (tmp' # Nothing => Remembers(settled', tmp'))
  BY MoreIsSettled DEF MemoryInv, store
<1> QED BY <1>3, <1>5, <1>6, <1>7, OneRunner

\* The answer to a theme settles the files of the prompt, as HEAD has them, and
\* those that were left out or had changed, as the noted commit has them.
LEMMA AnswerSettles ==
  ASSUME NEW tree, NEW now, NEW files \in SUBSET File, NEW prompt \in SUBSET files, NEW t
  PROVE  Views(tree, files, {t}) \subseteq
           Views(now, prompt, {t}) \cup Views(tree, files \ prompt, {t})
             \cup Views(tree, prompt \cap Changed(tree, now), {t})
<1> SUFFICES ASSUME NEW f \in files
             PROVE  <<f, tree[f], t>> \in Views(now, prompt, {t})
                      \cup Views(tree, files \ prompt, {t})
                      \cup Views(tree, prompt \cap Changed(tree, now), {t})
  BY DEF Views
<1>1. CASE f \notin prompt
  BY <1>1 DEF Views
<1>2. CASE f \in prompt /\ tree[f] = now[f]
  BY <1>2 DEF Views
<1>3. CASE f \in prompt /\ tree[f] # now[f]
  BY <1>3 DEF Views, Changed
<1> QED BY <1>1, <1>2, <1>3

\* A theme of a promise is kept once the files are settled under it.
LEMMA ThemeKept ==
  ASSUME Types, MemoryInv, Grows, NEW r \in Runner, runner[r].pc = "agent", runner[r].ok,
         Views(runner[r].head, runner[r].files, {ThemeOf(r)}) \subseteq settled'[runner[r].sat]
  PROVE  \A f \in File, t \in Theme :
           \/ <<f, runner[r].head[f], t>> \in settled'[runner[r].sat]
           \/ f \in runner[r].files /\ t \in runner[r].themes \ {ThemeOf(r)}
<1> DEFINE me == runner[r]
<1>1. me.sat \in Satellite
  BY DEF Types, RunnerState
<1>2. Promises(settled', me)
  BY <1>1, MoreIsSettled DEF MemoryInv
<1> SUFFICES ASSUME NEW f \in File, NEW t \in Theme,
                    ~(f \in me.files /\ t \in me.themes \ {ThemeOf(r)})
             PROVE  <<f, me.head[f], t>> \in settled'[me.sat]
  OBVIOUS
<1>3. \/ <<f, me.head[f], t>> \in settled'[me.sat]
      \/ f \in me.files /\ t \in me.themes
  BY <1>2 DEF Promises, Awaited, Busy
<1>4. CASE f \in me.files /\ t = ThemeOf(r)
  BY <1>4 DEF Views
<1> QED BY <1>3, <1>4

\* What is remembered stays settled, whatever is done next.
LEMMA MemoryKept == Types /\ MemoryInv /\ [Next]_vars => MemoryInv'
<1> SUFFICES ASSUME Types, MemoryInv, [Next]_vars PROVE MemoryInv'
  OBVIOUS
<1>0. \A r \in Runner : runner[r] \in RunnerState /\ RunnerOK(runner[r])
  BY DEF Types
<1>a. settled' = settled => Grows
  BY DEF Grows
<1>2. ASSUME NEW r \in Runner, NEW some, NEW themes, NEW force, Load(r, some, themes, force)
      PROVE  MemoryInv'
  <2> DEFINE him == [Rest EXCEPT !.pc = "next", !.mem = cache, !.todo = some,
                                 !.wanted = themes, !.force = force]
  <2>1. him.pc = "next" /\ him.mem = cache /\ runner' = [runner EXCEPT ![r] = him]
    BY <1>2 DEF Load, Rest
  <2> HIDE DEF him
  <2>2. Grows /\ cache' = cache /\ tmp' = tmp
    BY <1>a, <1>2 DEF Load, store
  <2> QED BY <2>1, <2>2, AtRest DEF Busy
<1>3. ASSUME NEW r \in Runner, NEW s \in Satellite, Inspect(r, s)
      PROVE  MemoryInv'
  <2> DEFINE me == runner[r]
             last == me.mem[s]
             full == last = NoCommit \/ me.force
             files == IF full THEN File ELSE Changed(last, head[s])
             him == [me EXCEPT !.pc = "fetch", !.sat = s, !.head = head[s], !.files = files,
                               !.themes = me.wanted, !.ok = TRUE]
             it == Noted(r, s, head[s])
  <2>1. me \in RunnerState /\ me.pc = "next" /\ UNCHANGED store /\ head[s] \in Tree
    BY <1>3 DEF Inspect, At, Types
  <2>2. \/ /\ ~full /\ files = {} /\ runner' = [runner EXCEPT ![r] = it]
           /\ settled' = settled
        \/ /\ runner' = [runner EXCEPT ![r] = him]
           /\ Settle(s, Views(head[s], files, Theme \ me.wanted))
        \/ /\ ~full /\ runner' = [runner EXCEPT ![r] = it]
           /\ Settle(s, Views(head[s], files, Theme))
    BY <1>3 DEF Inspect, Types
  <2>3. Grows
    BY <1>a, <2>2, SettleGrows
  <2>4. Remembers(settled', me.mem) /\ Remembers(settled', cache')
        /\ (tmp' # Nothing => Remembers(settled', tmp'))
    BY <2>1, <2>3, MoreIsSettled DEF MemoryInv, store
  <2>5. ~full => \A f \in File \ files, t \in Theme : <<f, head[s][f], t>> \in settled'[s]
    <3> SUFFICES ASSUME ~full, NEW f \in File \ files, NEW t \in Theme
                 PROVE  <<f, head[s][f], t>> \in settled'[s]
      OBVIOUS
    <3>1. last[f] = head[s][f]
      BY DEF Changed
    <3>2. <<f, last[f], t>> \in settled'[s]
      BY <2>4 DEF Remembers, Views
    <3> QED BY <3>1, <3>2
  <2>6. full => files = File
    OBVIOUS
  <2>7. files \in SUBSET File
    BY DEF Changed
  <2>8. /\ it.pc = "next" /\ it.mem = [me.mem EXCEPT ![s] = head[s]]
        /\ him.pc = "fetch" /\ him.mem = me.mem /\ him.sat = s /\ him.head = head[s]
        /\ him.files = files /\ him.themes = me.wanted
    BY <2>1 DEF Noted, RunnerState
  <2>9. me.mem \in [Satellite -> Commit]
    BY <2>1 DEF RunnerState
  <2> HIDE DEF files, full, him, it
  <2>10. ASSUME ~full, runner' = [runner EXCEPT ![r] = it],
                \A f \in files, t \in Theme : <<f, head[s][f], t>> \in settled'[s]
         PROVE  MemoryInv'
    <3>1. Views(head[s], File, Theme) \subseteq settled'[s]
      BY <2>5, <2>10 DEF Views
    <3>2. Remembers(settled', it.mem)
      BY <2>4, <2>8, <2>9, <3>1 DEF Remembers
    <3>3. Promises(settled', it)
      BY <2>8 DEF Promises, Busy
    <3> QED BY <2>3, <2>4, <2>10, <3>2, <3>3, OneRunner
  <2>11. ASSUME runner' = [runner EXCEPT ![r] = him],
                Settle(s, Views(head[s], files, Theme \ me.wanted))
         PROVE  MemoryInv'
    <3>1. Views(head[s], files, Theme \ me.wanted) \subseteq settled'[s]
      BY <2>11, SettleGrows
    <3>2. Promises(settled', him)
      <4> SUFFICES ASSUME NEW f \in File, NEW t \in Theme, ~(f \in files /\ t \in me.wanted)
                   PROVE  <<f, head[s][f], t>> \in settled'[s]
        BY <2>8 DEF Promises, Awaited, Busy
      <4>1. CASE f \notin files
        BY <2>5, <2>6, <4>1
      <4>2. CASE f \in files /\ t \notin me.wanted
        BY <3>1, <4>2 DEF Views
      <4> QED BY <4>1, <4>2
    <3>3. Remembers(settled', him.mem)
      BY <2>4, <2>8
    <3> QED BY <2>3, <2>4, <2>11, <3>2, <3>3, OneRunner
  <2>12. ASSUME Settle(s, Views(head[s], files, Theme))
         PROVE  \A f \in files, t \in Theme : <<f, head[s][f], t>> \in settled'[s]
    BY <2>12, SettleGrows DEF Views
  <2> QED BY <2>2, <2>10, <2>11, <2>12
<1>4. ASSUME NEW r \in Runner, NEW s \in Satellite, NoHead(r, s)
      PROVE  MemoryInv'
  <2>1. Passed(r, s).pc = "next" /\ Passed(r, s).mem = runner[r].mem
    BY <1>0, <1>4 DEF NoHead, At, Passed, RunnerState
  <2>2. Grows /\ cache' = cache /\ tmp' = tmp /\ runner' = [runner EXCEPT ![r] = Passed(r, s)]
    BY <1>a, <1>4 DEF NoHead, store
  <2> QED BY <2>1, <2>2, AtRest DEF Busy
<1>5. ASSUME NEW r \in Runner, FetchIssues(r)
      PROVE  MemoryInv'
  <2> DEFINE me == runner[r]
  <2>1. PICK known \in SUBSET File : runner' = [runner EXCEPT ![r].pc = "agent", ![r].known = known]
    BY <1>5 DEF FetchIssues, OpenOf
  <2> DEFINE him == [me EXCEPT !.pc = "agent", !.known = known]
  <2>2. runner' = [runner EXCEPT ![r] = him] /\ Grows /\ cache' = cache /\ tmp' = tmp
    BY <1>a, <1>5, <2>1 DEF FetchIssues, Types, store
  <2>3. /\ me.pc = "fetch" /\ him.pc = "agent" /\ him.mem = me.mem /\ him.sat = me.sat
        /\ him.head = me.head /\ him.files = me.files /\ him.themes = me.themes
        /\ him.ok = me.ok /\ me.sat \in Satellite
    BY <1>0, <1>5 DEF FetchIssues, At, RunnerState
  <2> HIDE DEF him
  <2>4. /\ Remembers(settled', me.mem) /\ Promises(settled', me) /\ Remembers(settled', cache')
        /\ (tmp' # Nothing => Remembers(settled', tmp'))
    BY <2>2, <2>3, MoreIsSettled DEF MemoryInv
  <2>5. Promises(settled', him)
    BY <2>3, <2>4 DEF Promises, Awaited, Busy
  <2> QED BY <2>2, <2>3, <2>4, <2>5, OneRunner
<1>6. ASSUME NEW r \in Runner, Answer(r)
      PROVE  MemoryInv'
  <2> DEFINE me == runner[r]
             s == me.sat
             theme == {ThemeOf(r)}
  <2>1. PICK prompt \in Prompted(me.files), found \in [File -> 0 .. MaxIssues] :
          /\ Settle(s, Views(head[s], prompt, theme)
                       \cup Views(me.head, me.files \ prompt, theme)
                       \cup Views(me.head, prompt \cap Changed(me.head, head[s]), theme))
          /\ runner' = [runner EXCEPT ![r] =
               IF found = NoFinding THEN WithThemeDone(r, TRUE)
               ELSE [me EXCEPT !.pc = "open", !.found = found]]
    BY <1>6 DEF Answer
  <2>2. me \in RunnerState /\ me.pc = "agent" /\ s \in Satellite /\ UNCHANGED store
        /\ cache' = cache /\ tmp' = tmp /\ me.files \in SUBSET File
    BY <1>0, <1>6 DEF Answer, At, RunnerState, store
  <2>3. prompt \in SUBSET me.files
    BY DEF Prompted
  <2>4. Grows /\ Views(me.head, me.files, theme) \subseteq settled'[s]
    <3>1. Grows /\ settled'[s] = settled[s] \cup (Views(head[s], prompt, theme)
                     \cup Views(me.head, me.files \ prompt, theme)
                     \cup Views(me.head, prompt \cap Changed(me.head, head[s]), theme))
      BY <2>1, <2>2, SettleGrows
    <3>2. Views(me.head, me.files, theme) \subseteq Views(head[s], prompt, theme)
            \cup Views(me.head, me.files \ prompt, theme)
            \cup Views(me.head, prompt \cap Changed(me.head, head[s]), theme)
      BY <2>2, <2>3, AnswerSettles
    <3> QED BY <3>1, <3>2
  <2>5. me.ok => \A f \in File, t \in Theme :
                   \/ <<f, me.head[f], t>> \in settled'[s]
                   \/ f \in me.files /\ t \in me.themes \ theme
    BY <2>2, <2>4, ThemeKept
  <2>6. CASE found = NoFinding
    <3>1. runner' = [runner EXCEPT ![r] = WithThemeDone(r, TRUE)] /\ me.pc \in Busy
      BY <2>1, <2>2, <2>6 DEF Busy
    <3> QED BY <2>2, <2>4, <2>5, <3>1, AfterTheme
  <2>7. CASE found # NoFinding
    <3> DEFINE him == [me EXCEPT !.pc = "open", !.found = found]
    <3>1. runner' = [runner EXCEPT ![r] = him]
      BY <2>1, <2>7
    <3>2. /\ him.pc = "open" /\ him.mem = me.mem /\ him.sat = s /\ him.head = me.head
          /\ him.files = me.files /\ him.themes = me.themes /\ him.ok = me.ok
      BY <2>2 DEF RunnerState
    <3> HIDE DEF him
    <3>3. Promises(settled', him)
      BY <2>5, <3>2 DEF Promises, Awaited, ThemeOf
    <3>4. /\ Remembers(settled', me.mem) /\ Remembers(settled', cache')
          /\ (tmp' # Nothing => Remembers(settled', tmp'))
      BY <2>2, <2>4, MoreIsSettled DEF MemoryInv
    <3> QED BY <2>4, <3>1, <3>2, <3>3, <3>4, OneRunner
  <2> QED BY <2>6, <2>7
<1>7. ASSUME NEW r \in Runner, NoAnswer(r)
      PROVE  MemoryInv'
  <2> DEFINE me == runner[r]
  <2>1. /\ me.pc = "agent" /\ me.pc \in Busy /\ UNCHANGED store /\ me.sat \in Satellite
        /\ Settle(me.sat, Views(me.head, me.files, {ThemeOf(r)}))
        /\ runner' = [runner EXCEPT ![r] = WithThemeDone(r, TRUE)]
    BY <1>0, <1>7 DEF NoAnswer, At, Busy, RunnerState
  <2>2. Grows /\ Views(me.head, me.files, {ThemeOf(r)}) \subseteq settled'[me.sat]
    BY <2>1, SettleGrows
  <2> QED BY <2>1, <2>2, ThemeKept, AfterTheme
<1>8. ASSUME NEW r \in Runner, ReviewFails(r)
      PROVE  MemoryInv'
  <2>1. /\ Grows /\ UNCHANGED store /\ runner' = [runner EXCEPT ![r] = WithThemeDone(r, FALSE)]
        /\ runner[r].pc \in Busy
    BY <1>a, <1>8 DEF ReviewFails, Busy
  <2> QED BY <2>1, AfterTheme
<1>9. ASSUME NEW r \in Runner, OpenIssues(r)
      PROVE  MemoryInv'
  <2> DEFINE me == runner[r]
  <2>1. /\ Grows /\ UNCHANGED store /\ me.pc = "open" /\ me.pc \in Busy /\ me.sat \in Satellite
        /\ runner' = [runner EXCEPT ![r] = WithThemeDone(r, TRUE)]
    BY <1>a, <1>0, <1>9 DEF OpenIssues, At, Busy, RunnerState
  <2>2. Promises(settled', me)
    BY <2>1, MoreIsSettled DEF MemoryInv
  <2>3. me.ok => \A f \in File, t \in Theme :
                   \/ <<f, me.head[f], t>> \in settled'[me.sat]
                   \/ f \in me.files /\ t \in me.themes \ {ThemeOf(r)}
    BY <2>1, <2>2 DEF Promises, Awaited, ThemeOf
  <2> QED BY <2>1, <2>3, AfterTheme
<1>10. ASSUME NEW r \in Runner, WriteTmp(r)
       PROVE  MemoryInv'
  <2>1. Saving.pc = "replace" /\ Saving.mem = NoFile
    BY SavingOK
  <2>2. runner' = [runner EXCEPT ![r] = Saving] /\ Grows /\ cache' = cache /\ tmp' = runner[r].mem
    BY <1>a, <1>10 DEF WriteTmp, Saving
  <2> QED BY <2>1, <2>2, AtRest DEF Busy
<1>11. ASSUME NEW r \in Runner, Replace(r) \/ Crash(r)
       PROVE  MemoryInv'
  <2>1. Rest.pc = "idle" /\ Rest.mem = NoFile
    BY RestOK
  <2>2. /\ Grows /\ runner' = [runner EXCEPT ![r] = Rest]
        /\ cache' = cache \/ (tmp # Nothing /\ cache' = tmp)
        /\ tmp' \in {tmp, Nothing, runner[r].mem}
    BY <1>a, <1>11 DEF Replace, Crash, store
  <2> QED BY <2>1, <2>2, AtRest DEF Busy
<1>12. CASE \/ \E s \in Satellite, tree \in Tree : MoveHead(s, tree)
            \/ \E x \in Finding : CloseIssue(x)
            \/ UNCHANGED vars
  <2>1. UNCHANGED <<settled, store, runner>>
    BY <1>12 DEF MoveHead, CloseIssue, vars, store
  <2> QED BY <2>1 DEF MemoryInv, Remembers, Promises, Awaited, store, Views
<1> QED BY <1>2, <1>3, <1>4, <1>5, <1>6, <1>7, <1>8, <1>9, <1>10, <1>11, <1>12 DEF Next, Review

\* What HEAD has and the next difference will not name has been settled: looked at
\* by agy, or left out for one of the named reasons (process_satellite and
\* save_review_state, for any number of runners and wherever HEAD goes).
THEOREM NothingIsForgotten == Spec => []NothingForgotten
<1>1. Init => MemoryInv
  BY RestOK DEF Init, MemoryInv, Remembers, Promises, Busy, NoFile
<1>2. MemoryInv => NothingForgotten
  <2> SUFFICES ASSUME MemoryInv, NEW s \in Satellite, cache[s] # NoCommit,
                      NEW f \in File \ Changed(cache[s], head[s]), NEW t \in Theme
               PROVE  <<f, head[s][f], t>> \in settled[s]
    BY DEF NothingForgotten, Views
  <2>1. head[s][f] = cache[s][f]
    BY DEF Changed
  <2>2. <<f, cache[s][f], t>> \in settled[s]
    BY DEF MemoryInv, Remembers, Views
  <2> QED BY <2>1, <2>2
<1> QED BY <1>1, <1>2, InitTypes, TypesKept, MemoryKept, PTL DEF Spec
=============================================================================

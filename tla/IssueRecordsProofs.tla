------------------------- MODULE IssueRecordsProofs -------------------------
(***************************************************************************)
(* What IssueRecords guarantees for any issues, any limit of a fetch, any  *)
(* humans, and any number of starts and crashes.                           *)
(***************************************************************************)
EXTENDS IssueRecords, FunctionTheorems, FiniteSetTheorems, SequenceTheorems, TLAPS

-----------------------------------------------------------------------------
\* The lines of a file and what is done with them.

LineType == [issue : Issue, box : {" ", "x"}, stage : {"none", "ideation", "ready", "garbled"}]
IssueType == [state : {"none", "open", "closed"}, labels : SUBSET Label, final : BOOLEAN]
SpecType == [issue : Issue \cup {0}, final : BOOLEAN]

Distinct(text) == \A m, n \in DOMAIN text : text[m].issue = text[n].issue => m = n

\* A file with one line of each issue at most.
Text == {text \in Seq(LineType) : Distinct(text)}

\* What a fetch may have returned.
Known == UNION {[K -> IssueType] : K \in SUBSET Issue}

\* No line goes, no line changes its issue, and no box is unticked.
Extends(old, new) ==
  \A n \in DOMAIN old : /\ n \in DOMAIN new
                        /\ new[n].issue = old[n].issue
                        /\ old[n].box = "x" => new[n].box = "x"

\* Only the given issues are raised to ready.
RaisesOnly(old, new, issues) ==
  \A n \in DOMAIN new : new[n].stage = "ready" =>
    \/ new[n].issue \in issues
    \/ n \in DOMAIN old /\ old[n].stage = "ready" /\ old[n].issue = new[n].issue

\* The issue numbers are finitely many.
LEMMA IssuesFinite == IsFiniteSet(Issue) /\ Cardinality(Issue) \in Nat /\ Issue \subseteq Nat \ {0}
<1>1. 1 \in Int /\ 99 \in Int
  OBVIOUS
<1>2. IsFiniteSet(1 .. 99)
  BY <1>1, FS_Interval, Zenon
<1>3. Issue \in SUBSET (1 .. 99) /\ Issue \subseteq Nat \ {0}
  BY RecordsAssumption
<1>4. IsFiniteSet(Issue)
  BY <1>2, <1>3, FS_Subset, Zenon
<1> QED BY <1>3, <1>4, FS_CardinalityType

\* A file is a function on 1 .. n for some n.
LEMMA TextIsFunction ==
  ASSUME NEW text \in Text
  PROVE  /\ Len(text) \in Nat /\ DOMAIN text = 1 .. Len(text)
         /\ \A n \in DOMAIN text : text[n] \in LineType
         /\ Distinct(text)
BY DEF Text

\* A function of lines on 1 .. n, one of each issue, is a file.
LEMMA FunctionIsText ==
  ASSUME NEW k \in Nat, NEW text \in [1 .. k -> LineType], Distinct(text)
  PROVE  text \in Text /\ Len(text) = k
BY SeqDef DEF Text

\* There are no more lines than issues, so a line's number is an id.
LEMMA LinesAreIds ==
  ASSUME NEW text \in Text
  PROVE  DOMAIN text \subseteq Id
<1> DEFINE f == [n \in 1 .. Len(text) |-> text[n].issue]
<1>1. Len(text) \in Nat /\ DOMAIN text = 1 .. Len(text) /\ Distinct(text)
      /\ \A n \in DOMAIN text : text[n] \in LineType
  BY TextIsFunction
<1>2. f \in [1 .. Len(text) -> Issue]
  BY <1>1 DEF LineType
<1>3. \A m, n \in 1 .. Len(text) : f[m] = f[n] => m = n
  BY <1>1 DEF Distinct
<1>4. f \in Injection(1 .. Len(text), Issue)
  BY <1>2, <1>3, Fun_IsInj
<1>5. Cardinality(1 .. Len(text)) <= Cardinality(Issue)
  BY <1>4, FS_Injection, IssuesFinite
<1>6. Cardinality(1 .. Len(text)) = Len(text)
  BY <1>1, FS_Interval
<1> QED BY <1>1, <1>5, <1>6, IssuesFinite DEF Id

\* The id of an issue with a line is the number of that line (get_task_id_from_tasks_md).
LEMMA IdOfLine ==
  ASSUME NEW text \in Text, NEW i, Registered(text, i)
  PROVE  IdOf(text, i) \in DOMAIN text /\ text[IdOf(text, i)].issue = i
<1>1. PICK n \in DOMAIN text : text[n].issue = i
  BY DEF Registered
<1>2. \A k \in 1 .. n - 1 : text[k].issue # i
  BY <1>1, TextIsFunction DEF Distinct
<1> QED BY <1>1, <1>2 DEF IdOf

\* One line more, of an issue that has none.
LEMMA AppendLine ==
  ASSUME NEW text \in Text, NEW line \in LineType, ~Registered(text, line.issue)
  PROVE  /\ Append(text, line) \in Text
         /\ DOMAIN Append(text, line) = DOMAIN text \cup {Len(text) + 1}
         /\ Append(text, line)[Len(text) + 1] = line
         /\ Append(text, line) # text
         /\ \A n \in DOMAIN text : Append(text, line)[n] = text[n]
         /\ Extends(text, Append(text, line))
         /\ RaisesOnly(text, Append(text, line), {line.issue})
<1> DEFINE new == Append(text, line)
<1>1. Len(text) \in Nat /\ DOMAIN text = 1 .. Len(text) /\ Distinct(text) /\ text \in Seq(LineType)
  BY DEF Text
<1>2. /\ new \in Seq(LineType) /\ Len(new) = Len(text) + 1
      /\ DOMAIN new = 1 .. Len(text) + 1
      /\ new[Len(text) + 1] = line
      /\ \A n \in 1 .. Len(text) : new[n] = text[n]
  BY <1>1
<1> HIDE DEF new
<1>3. DOMAIN new = DOMAIN text \cup {Len(text) + 1} /\ Len(text) + 1 \notin DOMAIN text
  BY <1>1, <1>2
<1>4. Distinct(new)
  BY <1>1, <1>2, <1>3 DEF Distinct, Registered
<1>5. Extends(text, new) /\ RaisesOnly(text, new, {line.issue})
  BY <1>1, <1>2, <1>3 DEF Extends, RaisesOnly
<1> QED BY <1>1, <1>2, <1>3, <1>4, <1>5 DEF new, Text

\* Raising a line changes stages only.
LEMMA RaisedText ==
  ASSUME NEW text \in Text, NEW i \in Issue
  PROVE  /\ Raised(text, i) \in Text
         /\ DOMAIN Raised(text, i) = DOMAIN text
         /\ Extends(text, Raised(text, i))
         /\ RaisesOnly(text, Raised(text, i), {n \in Issue : TagIn(i, n)})
<1> DEFINE new == Raised(text, i)
<1>1. Len(text) \in Nat /\ DOMAIN text = 1 .. Len(text) /\ Distinct(text)
      /\ \A n \in DOMAIN text : text[n] \in LineType
  BY TextIsFunction
<1>2. DOMAIN new = DOMAIN text
  BY DEF Raised
<1>3. \A n \in DOMAIN text :
        /\ new[n] \in LineType
        /\ new[n].issue = text[n].issue /\ new[n].box = text[n].box
        /\ ~TagIn(i, text[n].issue) => new[n] = text[n]
  BY <1>1 DEF Raised, LineType
<1>4. new \in [1 .. Len(text) -> LineType]
  BY <1>1, <1>3 DEF Raised
<1> HIDE DEF new
<1>5. Distinct(new)
  BY <1>1, <1>2, <1>3 DEF Distinct
<1>6. new \in Text
  BY <1>1, <1>4, <1>5, FunctionIsText
<1>7. Extends(text, new) /\ RaisesOnly(text, new, {n \in Issue : TagIn(i, n)})
  BY <1>1, <1>2, <1>3 DEF Extends, RaisesOnly, LineType
<1> QED BY <1>2, <1>6, <1>7 DEF new

Rank(S, i) == Cardinality({j \in S : j < i})

\* In a finite set of numbers, each place from the first to the last is taken by
\* exactly one of them (nth of Synced).
LEMMA Ranks ==
  ASSUME NEW S \in SUBSET Nat, IsFiniteSet(S)
  PROVE  /\ Cardinality(S) \in Nat
         /\ \A i \in S : Rank(S, i) \in Nat /\ Rank(S, i) + 1 \in 1 .. Cardinality(S)
         /\ \A i, j \in S : Rank(S, i) = Rank(S, j) => i = j
         /\ \A n \in 1 .. Cardinality(S) : \E i \in S : Rank(S, i) = n - 1
<1> DEFINE below(i) == {j \in S : j < i}
<1>0. ASSUME NEW A, NEW B, IsFiniteSet(B), A \in SUBSET B, A # B
      PROVE  /\ IsFiniteSet(A) /\ Cardinality(A) \in Nat
             /\ Cardinality(B) \in Nat /\ Cardinality(A) < Cardinality(B)
  <2>1. /\ IsFiniteSet(A) /\ Cardinality(A) <= Cardinality(B)
        /\ Cardinality(A) = Cardinality(B) => A = B
    BY <1>0, FS_Subset, Zenon
  <2>2. Cardinality(A) \in Nat /\ Cardinality(B) \in Nat
    BY <1>0, <2>1, FS_CardinalityType, Zenon
  <2> QED BY <1>0, <2>1, <2>2
<1>1. Cardinality(S) \in Nat /\ \A i \in S : i \in Nat
  BY FS_CardinalityType
<1>2. ASSUME NEW i \in S
      PROVE  IsFiniteSet(below(i)) /\ Rank(S, i) \in Nat /\ Rank(S, i) < Cardinality(S)
  <2>1. below(i) \in SUBSET S /\ i \notin below(i)
    OBVIOUS
  <2> HIDE DEF below
  <2>2. below(i) # S
    BY <2>1
  <2>3. IsFiniteSet(below(i)) /\ Cardinality(below(i)) \in Nat /\ Cardinality(below(i)) < Cardinality(S)
    BY <1>0, <2>1, <2>2
  <2> QED BY <2>3 DEF Rank, below
<1>4. ASSUME NEW i \in S, NEW j \in S, i < j PROVE Rank(S, i) < Rank(S, j)
  <2>1. below(i) \in SUBSET below(j) /\ i \in below(j) /\ i \notin below(i)
    <3>1. \A k \in S : k < i => k < j
      BY <1>1, <1>4
    <3>2. ~(i < i)
      BY <1>1
    <3> QED BY <1>4, <3>1, <3>2
  <2>2. IsFiniteSet(below(j))
    BY <1>2
  <2> HIDE DEF below
  <2>3. Cardinality(below(i)) < Cardinality(below(j))
    BY <1>0, <2>1, <2>2
  <2> QED BY <2>3 DEF Rank, below
<1>5. \A i, j \in S : Rank(S, i) = Rank(S, j) => i = j
  <2> SUFFICES ASSUME NEW i \in S, NEW j \in S, Rank(S, i) = Rank(S, j), i # j PROVE FALSE
    OBVIOUS
  <2>1. i \in Nat /\ j \in Nat
    OBVIOUS
  <2>2. i < j \/ j < i
    BY <2>1
  <2>3. Rank(S, i) \in Nat /\ Rank(S, j) \in Nat
    BY <1>2
  <2>4. ~(Rank(S, i) < Rank(S, j)) /\ ~(Rank(S, j) < Rank(S, i))
    BY <2>3
  <2> QED BY <1>4, <2>2, <2>4
<1> DEFINE f == [i \in S |-> Rank(S, i) + 1]
           T == 1 .. Cardinality(S)
<1>6. ASSUME NEW i \in S PROVE Rank(S, i) \in Nat /\ Rank(S, i) + 1 \in T
  <2>1. Rank(S, i) \in Nat /\ Rank(S, i) < Cardinality(S)
    BY <1>2
  <2> QED BY <1>1, <2>1
<1>7. f \in [S -> T] /\ \A i \in S : f[i] = Rank(S, i) + 1
  BY <1>6
<1>8. IsFiniteSet(T) /\ Cardinality(T) = Cardinality(S)
  BY <1>1, FS_Interval
<1> HIDE DEF f, T
<1>9. \A i, j \in S : f[i] = f[j] => i = j
  BY <1>5, <1>6, <1>7
<1>10. f \in Injection(S, T)
  BY <1>7, <1>9, Fun_IsInj
<1>11. f \in Surjection(S, T)
  BY <1>8, <1>10, FS_Injection
<1>12. \A n \in T : \E i \in S : f[i] = n
  BY <1>11 DEF Surjection
<1>13. ASSUME NEW n \in T PROVE \E i \in S : Rank(S, i) = n - 1
  <2>1. PICK i \in S : f[i] = n
    BY <1>12
  <2> QED BY <1>6, <1>7, <2>1
<1> QED BY <1>1, <1>5, <1>6, <1>13 DEF T

\* A line the mirror has brought up to date with a fetched issue.
Follows(line, issue) ==
  /\ issue.state = "closed" => line.box = "x"
  /\ issue.state = "open" /\ "ready" \in issue.labels => line.stage # "ideation"

\* The mirror ticks and raises lines (sync_issue_statuses_to_tasks_md).
LEMMA MirroredLine ==
  ASSUME NEW line \in LineType, NEW issue \in IssueType
  PROVE  /\ Mirrored(line, issue) \in LineType
         /\ Mirrored(line, issue).issue = line.issue
         /\ line.box = "x" => Mirrored(line, issue).box = "x"
         /\ Mirrored(line, issue).stage = "ready" => line.stage = "ready" \/ "ready" \in issue.labels
         /\ Follows(Mirrored(line, issue), issue)
BY DEF Mirrored, LineType, IssueType, Follows

\* A new line (sync_issue_statuses_to_tasks_md).
LEMMA NewLineType ==
  ASSUME NEW i \in Issue, NEW issue \in IssueType
  PROVE  /\ NewLine(i, issue) \in LineType
         /\ NewLine(i, issue).issue = i
         /\ NewLine(i, issue).stage = "ready" => "ready" \in issue.labels
         /\ Follows(NewLine(i, issue), issue)
BY DEF NewLine, LineOf, LineType, IssueType, Follows

\* The synchronisation keeps the lines, gives every fetched issue one, and all of
\* them what was fetched.
LEMMA SyncedText ==
  ASSUME NEW text \in Text, NEW known \in Known
  PROVE  /\ Synced(text, known) \in Text
         /\ Extends(text, Synced(text, known))
         /\ RaisesOnly(text, Synced(text, known), {i \in DOMAIN known : "ready" \in known[i].labels})
         /\ \A i \in DOMAIN known : Registered(Synced(text, known), i)
         /\ \A n \in DOMAIN Synced(text, known) : Synced(text, known)[n].issue \in DOMAIN known =>
              Follows(Synced(text, known)[n], known[Synced(text, known)[n].issue])
<1> DEFINE unseen == {i \in DOMAIN known : ~Registered(text, i)}
           nth(n) == CHOOSE i \in unseen : Cardinality({j \in unseen : j < i}) = n - 1
           mirrored == [n \in DOMAIN text |->
                          IF text[n].issue \in DOMAIN known
                            THEN Mirrored(text[n], known[text[n].issue]) ELSE text[n]]
           u == Cardinality(unseen)
           m == Len(text)
           new == [n \in 1 .. u |-> NewLine(nth(n), known[nth(n)])]
           all == Synced(text, known)
<1>1. /\ m \in Nat /\ DOMAIN text = 1 .. m /\ Distinct(text)
      /\ \A n \in DOMAIN text : text[n] \in LineType
  BY TextIsFunction
<1>2. DOMAIN known \subseteq Issue /\ \A i \in DOMAIN known : known[i] \in IssueType
  BY DEF Known
<1>3. /\ unseen \in SUBSET Nat /\ IsFiniteSet(unseen) /\ unseen \subseteq Issue /\ unseen \subseteq DOMAIN known
  BY <1>2, IssuesFinite, FS_Subset
<1>4. /\ u \in Nat
      /\ \A i \in unseen : Rank(unseen, i) \in Nat /\ Rank(unseen, i) + 1 \in 1 .. u
      /\ \A i, j \in unseen : Rank(unseen, i) = Rank(unseen, j) => i = j
      /\ \A n \in 1 .. u : \E i \in unseen : Rank(unseen, i) = n - 1
  BY <1>3, Ranks
<1>5. \A n \in 1 .. u : nth(n) \in unseen /\ Rank(unseen, nth(n)) = n - 1
  BY <1>4 DEF Rank
<1>6. \A i \in unseen : Rank(unseen, i) + 1 \in 1 .. u /\ nth(Rank(unseen, i) + 1) = i
  <2> SUFFICES ASSUME NEW i \in unseen
               PROVE  Rank(unseen, i) + 1 \in 1 .. u /\ nth(Rank(unseen, i) + 1) = i
    OBVIOUS
  <2>1. Rank(unseen, i) + 1 \in 1 .. u /\ Rank(unseen, i) \in Nat
    BY <1>4
  <2> HIDE DEF nth, unseen
  <2>2. nth(Rank(unseen, i) + 1) \in unseen
        /\ Rank(unseen, nth(Rank(unseen, i) + 1)) = Rank(unseen, i)
    BY <1>5, <2>1
  <2> QED BY <1>4, <2>1, <2>2
<1>7. /\ mirrored \in [1 .. m -> LineType]
      /\ \A n \in 1 .. m : /\ mirrored[n].issue = text[n].issue
                           /\ text[n].box = "x" => mirrored[n].box = "x"
                           /\ mirrored[n].stage = "ready" =>
                                text[n].stage = "ready" \/ (text[n].issue \in DOMAIN known
                                                              /\ "ready" \in known[text[n].issue].labels)
                           /\ text[n].issue \in DOMAIN known =>
                                Follows(mirrored[n], known[text[n].issue])
  BY <1>1, <1>2, MirroredLine
<1> HIDE DEF nth, unseen
<1>8. /\ new \in [1 .. u -> LineType]
      /\ \A n \in 1 .. u : /\ new[n].issue = nth(n)
                           /\ new[n].stage = "ready" => "ready" \in known[nth(n)].labels
                           /\ Follows(new[n], known[nth(n)])
  BY <1>2, <1>3, <1>5, NewLineType
<1> HIDE DEF mirrored, new
<1>9. all = mirrored \o new
  BY DEF Synced, AppendNew, mirrored, new, unseen, nth
<1> HIDE DEF all, m, u
<1>10. /\ mirrored \in Seq(LineType) /\ Len(mirrored) = m
       /\ new \in Seq(LineType) /\ Len(new) = u
  <2>1. mirrored \in [1 .. m -> LineType] /\ m \in Nat
    BY <1>1, <1>7
  <2>2. new \in [1 .. u -> LineType] /\ u \in Nat
    BY <1>4, <1>8
  <2>3. mirrored \in Seq(LineType) /\ Len(mirrored) = m
    BY <2>1, SeqDef
  <2> QED BY <2>2, <2>3, SeqDef
<1>11. /\ all \in Seq(LineType) /\ Len(all) = m + u
       /\ \A n \in 1 .. m : all[n] = mirrored[n]
       /\ \A n \in 1 .. u : all[m + n] = new[n]
  <2>1. m \in Nat /\ u \in Nat
    BY <1>1, <1>4
  <2>2. /\ mirrored \o new \in Seq(LineType)
        /\ Len(mirrored \o new) = Len(mirrored) + Len(new)
        /\ \A n \in 1 .. Len(mirrored) + Len(new) :
             (mirrored \o new)[n] = IF n <= Len(mirrored) THEN mirrored[n] ELSE new[n - Len(mirrored)]
    BY <1>10, ConcatProperties
  <2>3. /\ all \in Seq(LineType) /\ Len(all) = m + u
        /\ \A n \in 1 .. m + u : all[n] = IF n <= m THEN mirrored[n] ELSE new[n - m]
    BY <1>9, <1>10, <2>2
  <2>4. /\ \A n \in 1 .. m : n \in 1 .. m + u /\ n <= m
        /\ \A n \in 1 .. u : m + n \in 1 .. m + u /\ ~(m + n <= m) /\ (m + n) - m = n
    BY <2>1
  <2> QED BY <2>3, <2>4
<1>12. /\ DOMAIN all = 1 .. m + u
       /\ \A n \in DOMAIN all : n \in 1 .. m \/ \E k \in 1 .. u : n = m + k
  <2>1. DOMAIN all = 1 .. m + u
    BY <1>11
  <2>2. \A n \in 1 .. m + u : n \in 1 .. m \/ (n - m \in 1 .. u /\ n = m + (n - m))
    BY <1>1, <1>4
  <2> QED BY <2>1, <2>2
<1>13. \A k \in 1 .. u : ~Registered(text, new[k].issue)
  BY <1>5, <1>8 DEF unseen
<1>14. Distinct(all)
  <2> SUFFICES ASSUME NEW a \in DOMAIN all, NEW b \in DOMAIN all, all[a].issue = all[b].issue
               PROVE  a = b
    BY DEF Distinct
  <2>1. CASE a \in 1 .. m /\ b \in 1 .. m
    BY <1>1, <1>7, <1>11, <2>1 DEF Distinct
  <2>2. ASSUME NEW x \in 1 .. m, NEW k \in 1 .. u PROVE all[x].issue # all[m + k].issue
    BY <1>1, <1>7, <1>11, <1>13 DEF Registered
  <2>3. ASSUME NEW k \in 1 .. u, NEW l \in 1 .. u, a = m + k, b = m + l PROVE a = b
    <3>1. nth(k) = nth(l)
      BY <1>8, <1>11, <2>3
    <3> QED BY <1>5, <2>3, <3>1
  <2> QED BY <1>12, <2>1, <2>2, <2>3
<1>15. all \in Text
  BY <1>11, <1>14 DEF Text
<1>16. Extends(text, all)
  BY <1>1, <1>4, <1>7, <1>11, <1>12 DEF Extends
<1>17. RaisesOnly(text, all, {i \in DOMAIN known : "ready" \in known[i].labels})
  <2> SUFFICES ASSUME NEW n \in DOMAIN all, all[n].stage = "ready"
               PROVE  \/ all[n].issue \in {i \in DOMAIN known : "ready" \in known[i].labels}
                      \/ n \in DOMAIN text /\ text[n].stage = "ready" /\ text[n].issue = all[n].issue
    BY DEF RaisesOnly
  <2>1. CASE n \in 1 .. m
    BY <1>1, <1>7, <1>11, <2>1
  <2>2. ASSUME NEW k \in 1 .. u, n = m + k
        PROVE  all[n].issue \in {i \in DOMAIN known : "ready" \in known[i].labels}
    BY <1>3, <1>5, <1>8, <1>11, <2>2
  <2> QED BY <1>12, <2>1, <2>2
<1>18. ASSUME NEW i \in DOMAIN known PROVE Registered(all, i)
  <2>1. CASE Registered(text, i)
    BY <1>16, <2>1 DEF Registered, Extends
  <2>2. CASE i \in unseen
    <3>1. PICK k \in 1 .. u : nth(k) = i
      BY <1>6, <2>2
    <3>2. m + k \in DOMAIN all /\ all[m + k].issue = i
      BY <1>1, <1>4, <1>8, <1>11, <1>12, <3>1
    <3> QED BY <3>2 DEF Registered
  <2> QED BY <2>1, <2>2 DEF unseen
<1>19. ASSUME NEW n \in DOMAIN all, all[n].issue \in DOMAIN known
       PROVE  Follows(all[n], known[all[n].issue])
  <2>1. CASE n \in 1 .. m
    BY <1>7, <1>11, <1>19, <2>1
  <2>2. ASSUME NEW k \in 1 .. u, n = m + k PROVE Follows(all[n], known[all[n].issue])
    BY <1>8, <1>11, <2>2
  <2> QED BY <1>12, <2>1, <2>2
<1> QED BY <1>15, <1>16, <1>17, <1>18, <1>19 DEF all

\* A line ticked off (mark_task_completed_in_tasks_md).
Ticked(text, id) ==
  [n \in DOMAIN text |-> IF n = id THEN [text[n] EXCEPT !.box = "x"] ELSE text[n]]

\* Ticking a task off keeps its line (mark_task_completed_in_tasks_md).
LEMMA TickedText ==
  ASSUME NEW text \in Text, NEW id
  PROVE  /\ Ticked(text, id) \in Text
         /\ Extends(text, Ticked(text, id))
         /\ RaisesOnly(text, Ticked(text, id), {})
<1> DEFINE new == Ticked(text, id)
<1>1. Len(text) \in Nat /\ DOMAIN text = 1 .. Len(text) /\ Distinct(text)
      /\ \A n \in DOMAIN text : text[n] \in LineType
  BY TextIsFunction
<1>2. /\ DOMAIN new = DOMAIN text
      /\ \A n \in DOMAIN text : /\ new[n] \in LineType
                                /\ new[n].issue = text[n].issue /\ new[n].stage = text[n].stage
                                /\ text[n].box = "x" => new[n].box = "x"
  BY <1>1 DEF Ticked, LineType
<1>3. new \in [1 .. Len(text) -> LineType]
  BY <1>1, <1>2 DEF Ticked
<1> HIDE DEF new
<1>4. Distinct(new)
  BY <1>1, <1>2 DEF Distinct
<1>5. new \in Text
  BY <1>1, <1>3, <1>4, FunctionIsText
<1>6. Extends(text, new) /\ RaisesOnly(text, new, {})
  BY <1>2 DEF Extends, RaisesOnly
<1> QED BY <1>5, <1>6 DEF new

-----------------------------------------------------------------------------
\* Types, among them that no file and no copy of one has two lines of an issue.

ToolType == [pc : {"idle", "edit", "read", "write", "spec", "heal", "register", "append",
                   "place", "close"},
             issue : Issue \cup {0}, text : Text, known : Known]
RunType == [pc : {"idle", "clean", "load", "running"}, by : {"none", "nightly", "human"},
            id : Nat, issue : Issue \cup {0}, guessed : BOOLEAN, spec : SpecType]
SavedType == [tasks : Text, specs : [Id -> SpecType]]

GitHubTypes == gh \in [Issue -> IssueType] /\ approved \subseteq Issue
FileTypes ==
  /\ tasks \in Text /\ specs \in [Id -> SpecType]
  /\ saved \in SavedType /\ lost \in BOOLEAN
ToolsTyped ==
  /\ tool \in [Tool -> ToolType]
  /\ ~At("promote", "idle") => tool["promote"].issue \in Issue
  /\ tool["periodic"].pc \in {"register", "append", "place"} => tool["periodic"].issue \in Issue
RunTypes == run \in RunType
StartTypes == starts \in 0 .. MaxStarts
NamedTypes == named \in [Id -> SUBSET Issue]

Types ==
  /\ GitHubTypes /\ FileTypes /\ ToolsTyped
  /\ RunTypes /\ StartTypes /\ NamedTypes

\* What programs and runs hold at rest is well typed.
LEMMA EmptyRecords == <<>> \in Text /\ <<>> \in Known /\ Rest \in ToolType /\ NoSpec \in SpecType
                      /\ NoRun \in RunType /\ 0 \notin Issue
<1>1. <<>> \in Text
  BY DEF Text, Distinct
<1>2. <<>> \in Known
  <2>1. <<>> \in [{} -> IssueType]
    OBVIOUS
  <2> QED BY <2>1 DEF Known
<1>3. NoSpec \in SpecType /\ 0 \notin Issue
  BY IssuesFinite DEF NoSpec, SpecOf, SpecType
<1> QED BY <1>1, <1>2, <1>3 DEF Rest, ToolType, NoRun, RunType

\* What was fetched of some issues is known of them.
LEMMA FetchedIsKnown ==
  ASSUME Types, NEW K \in SUBSET Issue
  PROVE  [i \in K |-> gh[i]] \in Known
<1>1. [i \in K |-> gh[i]] \in [K -> IssueType]
  BY DEF Types, GitHubTypes
<1> QED BY <1>1 DEF Known

\* A program's copies are files and issues.
LEMMA ToolTypes ==
  ASSUME Types, NEW t \in Tool
  PROVE  /\ tool[t] \in ToolType
         /\ tool[t].text \in Text /\ tool[t].known \in Known
         /\ DOMAIN tool[t].known \subseteq Issue
         /\ \A i \in DOMAIN tool[t].known : tool[t].known[i] \in IssueType
BY DEF Types, ToolsTyped, ToolType, Known

\* One program takes a step and the others stay where they are.
LEMMA ToolSet ==
  ASSUME Types, NEW t \in Tool, NEW new \in ToolType, tool' = [tool EXCEPT ![t] = new],
         t = "promote" /\ new.pc # "idle" => new.issue \in Issue,
         t = "periodic" /\ new.pc \in {"register", "append", "place"} => new.issue \in Issue
  PROVE  ToolsTyped' /\ tool'[t] = new /\ \A o \in Tool \ {t} : tool'[o] = tool[o]
BY DEF Types, ToolsTyped, Tool, At

\* A program that ends leaves the others alone.
LEMMA ToolEnds ==
  ASSUME Types, NEW t \in Tool, End(t)
  PROVE  ToolsTyped' /\ tool'[t] = Rest /\ \A o \in Tool \ {t} : tool'[o] = tool[o]
<1>1. Rest \in ToolType /\ Rest.pc = "idle"
  BY EmptyRecords DEF Rest
<1> HIDE DEF Rest
<1> QED BY <1>1, ToolSet DEF End

\* So does one that goes on.
LEMMA ToolGoes ==
  ASSUME Types, NEW t \in Tool, NEW step \in {"edit", "read", "write", "spec", "heal", "register",
                                             "append", "place", "close"},
         Go(t, step), t = "promote" => ~At("promote", "idle"),
         t = "periodic" /\ step \in {"register", "append", "place"} => tool[t].issue \in Issue
  PROVE  /\ ToolsTyped' /\ tool'[t] = [tool[t] EXCEPT !.pc = step]
         /\ \A o \in Tool \ {t} : tool'[o] = tool[o]
<1> DEFINE new == [tool[t] EXCEPT !.pc = step]
<1>1. tool[t] \in ToolType
  BY ToolTypes
<1>2. new \in ToolType /\ new.pc = step /\ new.issue = tool[t].issue
  BY <1>1 DEF ToolType
<1>3. tool' = [tool EXCEPT ![t] = new]
  BY DEF Go
<1>4. t = "promote" => tool[t].issue \in Issue
  BY DEF Types, ToolsTyped
<1> HIDE DEF new
<1>5. ToolsTyped' /\ tool'[t] = new /\ \A o \in Tool \ {t} : tool'[o] = tool[o]
  BY <1>2, <1>3, <1>4, ToolSet
<1> QED BY <1>5 DEF new

\* So does one that reads tasks.md.
LEMMA ToolReads ==
  ASSUME Types, NEW t \in Tool, NEW step \in {"write", "append"}, ReadTasks(t, step),
         t = "promote" => ~At("promote", "idle"), t = "periodic" /\ step = "append" => tool[t].issue \in Issue
  PROVE  /\ ToolsTyped' /\ tool'[t] = [tool[t] EXCEPT !.pc = step, !.text = tasks]
         /\ \A o \in Tool \ {t} : tool'[o] = tool[o]
<1> DEFINE new == [tool[t] EXCEPT !.pc = step, !.text = tasks]
<1>1. tool[t] \in ToolType /\ tasks \in Text
  BY ToolTypes DEF Types, FileTypes
<1>2. new \in ToolType /\ new.pc = step /\ new.issue = tool[t].issue
  BY <1>1 DEF ToolType
<1>3. tool' = [tool EXCEPT ![t] = new]
  BY <1>1 DEF ReadTasks, Types, ToolsTyped, ToolType
<1>4. t = "promote" => tool[t].issue \in Issue
  BY DEF Types, ToolsTyped
<1> HIDE DEF new
<1>5. ToolsTyped' /\ tool'[t] = new /\ \A o \in Tool \ {t} : tool'[o] = tool[o]
  BY <1>2, <1>3, <1>4, ToolSet
<1> QED BY <1>5 DEF new

\* The initial state is well typed.
LEMMA InitTypes == Init => Types
<1> SUFFICES ASSUME Init PROVE Types
  OBVIOUS
<1>1. GitHubTypes
  BY DEF GitHubTypes, Init, Opened, NoIssue, IssueType, Label
<1>2. FileTypes
  BY EmptyRecords DEF Init, SavedType, FileTypes
<1>3. /\ tool \in [Tool -> ToolType] /\ run \in RunType
      /\ \A t \in Tool : tool[t].pc = "idle"
  BY EmptyRecords DEF Init, Rest
<1>4. NamedTypes
  BY DEF Init, NamedTypes
<1>5. StartTypes
  BY RecordsAssumption DEF Init, StartTypes
<1> QED BY <1>1, <1>2, <1>3, <1>4, <1>5 DEF Types, ToolsTyped, RunTypes, At, Tool

-----------------------------------------------------------------------------
\* Every step keeps the types, and one that loses no record keeps every line.

Typed == GitHubTypes /\ FileTypes /\ ToolsTyped /\ RunTypes /\ StartTypes
Grows == ~lost' => ~lost /\ Extends(tasks, tasks')

\* A file that is left alone keeps its lines.
LEMMA SameLines ==
  ASSUME Types, UNCHANGED <<tasks, lost>>
  PROVE  Grows
BY DEF Grows, Extends

\* A file written back from a copy is the copy's lines and more; unless it was
\* stale, they are those of the file it replaces.
LEMMA WrittenBack ==
  ASSUME Types, NEW t \in Tool, NEW new \in Text, Extends(tool[t].text, new),
         IF new = tool[t].text THEN UNCHANGED <<tasks, lost>> ELSE WriteTasks(t, new)
  PROVE  /\ tasks' \in Text /\ lost' \in BOOLEAN
         /\ ~lost' => ~lost /\ Extends(tasks, tasks')
         /\ tasks' = tasks \/ tasks' = new
<1>1. tasks \in Text /\ lost \in BOOLEAN
  BY DEF Types, FileTypes
<1>2. Extends(tasks, tasks)
  BY DEF Extends
<1> QED BY <1>1, <1>2 DEF WriteTasks

\* The steps of promote_issue.py.
LEMMA PromoteTypes ==
  ASSUME Types, Promote
  PROVE  Typed' /\ Grows
<1> DEFINE i == tool["promote"].issue
           text == tool["promote"].text
<1>0. "promote" \in Tool /\ text \in Text /\ (~At("promote", "idle") => i \in Issue)
  BY ToolTypes DEF Tool, Types, ToolsTyped
<1>1. ASSUME NEW j \in Issue, PromoteStart(j) PROVE Typed' /\ Grows
  <2> DEFINE new == [Rest EXCEPT !.pc = "edit", !.issue = j, !.known = [k \in {j} |-> gh[k]]]
  <2>1. [k \in {j} |-> gh[k]] \in Known
    BY FetchedIsKnown
  <2>2. new \in ToolType /\ new.issue = j
    BY <2>1, EmptyRecords DEF Rest, ToolType
  <2>3. tool' = [tool EXCEPT !["promote"] = new]
    BY <1>1 DEF PromoteStart
  <2> HIDE DEF new
  <2>4. ToolsTyped'
    BY <1>0, <2>2, <2>3, ToolSet
  <2>5. GitHubTypes' /\ StartTypes'
    BY <1>1, RecordsAssumption DEF PromoteStart, Start, Types, GitHubTypes, StartTypes
  <2> QED BY <1>1, <2>4, <2>5, SameLines
          DEF PromoteStart, records, Types, Typed, FileTypes, RunTypes
<1>2. CASE PromoteEdit
  <2>1. At("promote", "edit") /\ Go("promote", "read") /\ i \in Issue
    BY <1>0, <1>2 DEF PromoteEdit, At
  <2>2. ToolsTyped'
    BY <1>0, <2>1, ToolGoes DEF At
  <2>3. GitHubTypes'
    <3>1. gh \in [Issue -> IssueType] /\ gh[i] \in IssueType /\ approved \subseteq Issue
      BY <2>1 DEF Types, GitHubTypes
    <3> DEFINE new == [Settled(gh[i]) EXCEPT !.labels = (@ \ {"ideation"}) \cup {"ready"}]
    <3>2. new \in IssueType
      BY <3>1 DEF Settled, IssueType, Label
    <3>3. gh' = [gh EXCEPT ![i] = new] /\ approved' = approved
      BY <1>2 DEF PromoteEdit, history
    <3> HIDE DEF new
    <3> QED BY <3>1, <3>2, <3>3 DEF GitHubTypes
  <2> QED BY <1>2, <2>2, <2>3, SameLines
          DEF PromoteEdit, records, history, Types, Typed, FileTypes, RunTypes, StartTypes
<1>3. CASE PromoteRead
  <2>1. ToolsTyped'
    BY <1>0, <1>3, ToolReads DEF PromoteRead, At
  <2> QED BY <1>3, <2>1, SameLines DEF PromoteRead, ReadTasks, records, history, Types, Typed,
          GitHubTypes, FileTypes, RunTypes, StartTypes
<1>4. CASE PromoteWrite
  <2> DEFINE there == \E n \in DOMAIN text : TagIn(i, text[n].issue)
             new == IF there THEN Raised(text, i) ELSE Append(text, LineOf(i, " ", "ready"))
  <2>1. i \in Issue /\ Go("promote", "spec")
    BY <1>0, <1>4 DEF PromoteWrite, At
  <2>2. ToolsTyped'
    BY <1>0, <1>4, <2>1, ToolGoes DEF PromoteWrite, At
  <2>3. new \in Text /\ Extends(text, new)
    <3>1. CASE there
      BY <1>0, <2>1, <3>1, RaisedText
    <3>2. CASE ~there
      <4>1. LineOf(i, " ", "ready") \in LineType /\ LineOf(i, " ", "ready").issue = i
        BY <2>1 DEF LineOf, LineType
      <4>2. ~Registered(text, i)
        BY <3>2 DEF Registered, TagIn
      <4> QED BY <1>0, <3>2, <4>1, <4>2, AppendLine
    <3> QED BY <3>1, <3>2
  <2>4. IF new = text THEN UNCHANGED <<tasks, lost>> ELSE WriteTasks("promote", new)
    BY <1>4 DEF PromoteWrite
  <2> HIDE DEF new
  <2>5. tasks' \in Text /\ lost' \in BOOLEAN /\ Grows
    BY <1>0, <2>3, <2>4, WrittenBack DEF Grows
  <2> QED BY <1>4, <2>2, <2>5
          DEF PromoteWrite, Types, Typed, GitHubTypes, FileTypes, RunTypes, StartTypes
<1>5. CASE PromoteSpec
  <2>1. End("promote") /\ i \in Issue
    BY <1>0, <1>5 DEF PromoteSpec, At
  <2>2. ToolsTyped'
    BY <1>0, <2>1, ToolEnds
  <2>3. SpecOf(i, TRUE) \in SpecType
    BY <2>1 DEF SpecOf, SpecType
  <2>4. FileTypes'
    BY <1>5, <2>3 DEF PromoteSpec, WriteSpec, history, Types, FileTypes
  <2> QED BY <1>5, <2>2, <2>4, SameLines
          DEF PromoteSpec, history, Types, Typed, GitHubTypes, RunTypes, StartTypes
<1> QED BY <1>1, <1>2, <1>3, <1>4, <1>5 DEF Promote

\* The steps of the synchronisation (sync_issue_statuses_to_tasks_md).
LEMMA SyncTypes ==
  ASSUME Types, Sync
  PROVE  Typed' /\ Grows
<1> DEFINE text == tool["periodic"].text
           known == tool["periodic"].known
<1>0. "periodic" \in Tool /\ text \in Text /\ known \in Known
      /\ DOMAIN known \subseteq Issue /\ \A i \in DOMAIN known : known[i] \in IssueType
  BY ToolTypes DEF Tool
<1>1. CASE SyncFetch
  <2>1. PICK limit \in FetchLimit :
          tool' = [tool EXCEPT !["periodic"] =
                     [Rest EXCEPT !.pc = "read", !.known = [i \in Newest(limit) |-> gh[i]]]]
    BY <1>1 DEF SyncFetch
  <2> DEFINE new == [Rest EXCEPT !.pc = "read", !.known = [i \in Newest(limit) |-> gh[i]]]
  <2>2. Newest(limit) \in SUBSET Issue
    BY DEF Newest
  <2>3. [i \in Newest(limit) |-> gh[i]] \in Known
    BY <2>2, FetchedIsKnown
  <2>4. new \in ToolType /\ new.pc = "read"
    BY <2>3, EmptyRecords DEF Rest, ToolType
  <2> HIDE DEF new
  <2>5. ToolsTyped'
    BY <1>0, <2>1, <2>4, ToolSet DEF new
  <2> QED BY <1>1, <2>5, SameLines DEF SyncFetch, records, history, Types, Typed,
          GitHubTypes, FileTypes, RunTypes, StartTypes
<1>2. CASE SyncRead
  <2>1. ToolsTyped'
    BY <1>0, <1>2, ToolReads DEF SyncRead
  <2> QED BY <1>2, <2>1, SameLines DEF SyncRead, ReadTasks, records, history, Types, Typed,
          GitHubTypes, FileTypes, RunTypes, StartTypes
<1>3. CASE SyncWrite
  <2> DEFINE new == Synced(text, known)
  <2>1. ToolsTyped'
    BY <1>0, <1>3, ToolGoes DEF SyncWrite
  <2>2. new \in Text /\ Extends(text, new)
    BY <1>0, SyncedText
  <2>3. IF new = text THEN UNCHANGED <<tasks, lost>> ELSE WriteTasks("periodic", new)
    BY <1>3 DEF SyncWrite
  <2> HIDE DEF new
  <2>4. tasks' \in Text /\ lost' \in BOOLEAN /\ Grows
    BY <1>0, <2>2, <2>3, WrittenBack DEF Grows
  <2> QED BY <1>3, <2>1, <2>4
          DEF SyncWrite, Types, Typed, GitHubTypes, FileTypes, RunTypes, StartTypes
<1>4. CASE SyncHeal
  <2>1. ToolsTyped'
    BY <1>0, <1>4, ToolEnds DEF SyncHeal
  <2>2. ASSUME NEW n \in Id, n \in DOMAIN tasks, NEW reachable \in BOOLEAN
        PROVE  Healed(n, known, reachable) \in SpecType
    <3> DEFINE i == tasks[n].issue
               issue == IF i \in DOMAIN known THEN known[i] ELSE IF reachable THEN gh[i] ELSE NoIssue
    <3>1. i \in Issue
      BY <2>2, TextIsFunction DEF Types, FileTypes, LineType
    <3>2. issue.final \in BOOLEAN
      BY <1>0, <3>1 DEF Types, GitHubTypes, IssueType, NoIssue
    <3>3. specs[n] \in SpecType
      BY DEF Types, FileTypes
    <3> QED BY <3>1, <3>2, <3>3 DEF Healed, SpecOf, SpecType
  <2>3. specs' \in [Id -> SpecType]
    BY <1>4, <2>2 DEF SyncHeal, Types, FileTypes
  <2> QED BY <1>4, <2>1, <2>3, SameLines
          DEF SyncHeal, history, Types, Typed, GitHubTypes, FileTypes, RunTypes, StartTypes
<1> QED BY <1>1, <1>2, <1>3, <1>4 DEF Sync

\* The steps of a review that registers an issue.
LEMMA ReviewTypes ==
  ASSUME Types, Review
  PROVE  Typed' /\ Grows
<1> DEFINE text == tool["periodic"].text
           i == tool["periodic"].issue
<1>0. "periodic" \in Tool /\ text \in Text
      /\ (tool["periodic"].pc \in {"register", "append", "place"} => i \in Issue)
  BY ToolTypes DEF Tool, Types, ToolsTyped
<1>1. ASSUME NEW j \in Issue, ReviewCreate(j) PROVE Typed' /\ Grows
  <2> DEFINE new == [Rest EXCEPT !.pc = "register", !.issue = j]
  <2>1. new \in ToolType /\ new.issue = j
    BY EmptyRecords DEF Rest, ToolType
  <2>2. tool' = [tool EXCEPT !["periodic"] = new]
    BY <1>1 DEF ReviewCreate
  <2> HIDE DEF new
  <2>3. ToolsTyped'
    BY <1>0, <2>1, <2>2, ToolSet
  <2>4. Opened \in IssueType
    BY DEF Opened, IssueType, Label
  <2>5. GitHubTypes' /\ StartTypes'
    BY <1>1, <2>4, RecordsAssumption
       DEF ReviewCreate, Start, history, Types, GitHubTypes, StartTypes
  <2> QED BY <1>1, <2>3, <2>5, SameLines
          DEF ReviewCreate, records, history, Types, Typed, FileTypes, RunTypes
<1>2. CASE ReviewRead
  <2>1. ToolsTyped'
    BY <1>0, <1>2, ToolReads DEF ReviewRead, At
  <2> QED BY <1>2, <2>1, SameLines DEF ReviewRead, ReadTasks, records, history, Types, Typed,
          GitHubTypes, FileTypes, RunTypes, StartTypes
<1>3. CASE ReviewWrite
  <2> DEFINE there == \E n \in DOMAIN text : TagIn(i, text[n].issue)
             new == Append(text, LineOf(i, " ", "ideation"))
  <2>1. i \in Issue
    BY <1>0, <1>3 DEF ReviewWrite, At
  <2>2. CASE there
    <3>1. ToolsTyped'
      BY <1>0, <1>3, <2>2, ToolEnds DEF ReviewWrite
    <3> QED BY <1>3, <2>2, <3>1, SameLines
            DEF ReviewWrite, Types, Typed, GitHubTypes, FileTypes, RunTypes, StartTypes
  <2>3. CASE ~there
    <3>1. ToolsTyped'
      BY <1>0, <1>3, <2>1, <2>3, ToolGoes DEF ReviewWrite
    <3>2. LineOf(i, " ", "ideation") \in LineType /\ LineOf(i, " ", "ideation").issue = i
      BY <2>1 DEF LineOf, LineType
    <3>3. ~Registered(text, i)
      BY <2>3 DEF Registered, TagIn
    <3>4. new \in Text /\ Extends(text, new) /\ new # text
      BY <1>0, <3>2, <3>3, AppendLine
    <3>5. WriteTasks("periodic", new) /\ new # text
      BY <1>3, <2>3, <3>4 DEF ReviewWrite
    <3> HIDE DEF new
    <3>6. tasks' \in Text /\ lost' \in BOOLEAN /\ Grows
      BY <1>0, <3>4, <3>5, WrittenBack DEF Grows
    <3> QED BY <1>3, <2>3, <3>1, <3>6
            DEF ReviewWrite, Types, Typed, GitHubTypes, FileTypes, RunTypes, StartTypes
  <2> QED BY <2>2, <2>3
<1>4. CASE ReviewPlace
  <2>1. ToolsTyped'
    BY <1>0, <1>4, ToolEnds DEF ReviewPlace
  <2>2. SpecOf(i, FALSE) \in SpecType
    BY <1>0, <1>4 DEF ReviewPlace, At, SpecOf, SpecType
  <2>3. FileTypes'
    BY <1>4, <2>2 DEF ReviewPlace, WriteSpec, history, Types, FileTypes
  <2> QED BY <1>4, <2>1, <2>3, SameLines
          DEF ReviewPlace, history, Types, Typed, GitHubTypes, RunTypes, StartTypes
<1> QED BY <1>1, <1>2, <1>3, <1>4 DEF Review

\* The steps of close_stale_issues.py, and crashes.
LEMMA StaleTypes ==
  ASSUME Types, CloseStale \/ \E t \in Tool : Crash(t)
  PROVE  Typed' /\ Grows
<1> DEFINE known == tool["stale"].known
<1>0. "stale" \in Tool /\ tool["stale"] \in ToolType /\ known \in Known
      /\ DOMAIN known \subseteq Issue /\ \A i \in DOMAIN known : known[i] \in IssueType
  BY ToolTypes DEF Tool
<1>1. CASE StaleList
  <2>1. PICK old \in SUBSET Issue :
          tool' = [tool EXCEPT !["stale"] = [Rest EXCEPT !.pc = "close", !.known = [i \in old |-> gh[i]]]]
    BY <1>1 DEF StaleList
  <2> DEFINE new == [Rest EXCEPT !.pc = "close", !.known = [i \in old |-> gh[i]]]
  <2>2. [i \in old |-> gh[i]] \in Known
    BY FetchedIsKnown
  <2>3. new \in ToolType
    BY <2>2, EmptyRecords DEF Rest, ToolType
  <2> HIDE DEF new
  <2>4. ToolsTyped'
    BY <1>0, <2>1, <2>3, ToolSet DEF new
  <2> QED BY <1>1, <2>4, SameLines, RecordsAssumption DEF StaleList, Start, records, history, Types,
          Typed, GitHubTypes, FileTypes, RunTypes, StartTypes
<1>2. CASE StaleClose
  <2>1. PICK i \in DOMAIN known :
          LET left == [j \in DOMAIN known \ {i} |-> known[j]]
          IN /\ gh' \in {gh, [gh EXCEPT ![i].state = "closed"]}
             /\ IF left = << >> THEN End("stale") ELSE tool' = [tool EXCEPT !["stale"].known = left]
    BY <1>2 DEF StaleClose
  <2> DEFINE left == [j \in DOMAIN known \ {i} |-> known[j]]
             new == [tool["stale"] EXCEPT !.known = left]
  <2>2. left \in [DOMAIN known \ {i} -> IssueType]
    BY <1>0
  <2>3. left \in Known
    BY <1>0, <2>2 DEF Known
  <2>4. new \in ToolType
    BY <1>0, <2>3 DEF ToolType
  <2>5. End("stale") \/ tool' = [tool EXCEPT !["stale"] = new]
    BY <2>1
  <2> HIDE DEF new
  <2>6. ToolsTyped'
    BY <1>0, <2>4, <2>5, ToolEnds, ToolSet
  <2>7. GitHubTypes'
    BY <1>0, <1>2, <2>1 DEF StaleClose, history, Types, GitHubTypes, IssueType
  <2> QED BY <1>2, <2>6, <2>7, SameLines DEF StaleClose, records, history, Types, Typed, FileTypes,
          RunTypes, StartTypes
<1>3. ASSUME NEW t \in Tool, Crash(t) PROVE Typed' /\ Grows
  <2>1. ToolsTyped'
    BY <1>3, ToolEnds DEF Crash
  <2> QED BY <1>3, <2>1, SameLines, RecordsAssumption DEF Crash, Start, records, history, Types, Typed,
          GitHubTypes, FileTypes, RunTypes, StartTypes
<1> QED BY <1>1, <1>2, <1>3 DEF CloseStale

\* The steps of a run: selection, cleaning, completion.
LEMMA RunStepTypes ==
  ASSUME Types, Run
  PROVE  Typed' /\ Grows
<1>0. /\ tasks \in Text /\ Len(tasks) \in Nat /\ DOMAIN tasks = 1 .. Len(tasks)
      /\ \A n \in DOMAIN tasks : tasks[n] \in LineType
      /\ saved.tasks \in Text /\ saved.specs \in [Id -> SpecType]
      /\ run \in RunType /\ NoRun \in RunType
  BY TextIsFunction, EmptyRecords DEF Types, FileTypes, RunTypes, SavedType
<1>1. CASE Nightly
  <2>1. PICK n \in DOMAIN tasks :
          run' = [NoRun EXCEPT !.pc = "clean", !.by = "nightly", !.id = n, !.issue = tasks[n].issue]
    BY <1>1 DEF Nightly, Candidates
  <2>2. n \in Nat /\ tasks[n].issue \in Issue
    <3>1. n \in 1 .. Len(tasks) /\ tasks[n] \in LineType
      BY <1>0
    <3>2. n \in Nat
      BY <1>0, <3>1
    <3> QED BY <3>1, <3>2 DEF LineType
  <2>3. run' \in RunType
    BY <1>0, <2>1, <2>2 DEF RunType
  <2> QED BY <1>1, <2>3, SameLines, RecordsAssumption DEF Nightly, Start, records, history, Types,
          Typed, GitHubTypes, FileTypes, ToolsTyped, At, RunTypes, StartTypes
<1>2. ASSUME NEW i \in Issue, RunByNumber(i) PROVE Typed' /\ Grows
  <2>1. TaskIdOf(i) \in Nat
    BY <1>0, IdOfLine, IssuesFinite DEF TaskIdOf
  <2>2. run' \in RunType
    BY <1>0, <1>2, <2>1 DEF RunByNumber, RunType
  <2> QED BY <1>2, <2>2, SameLines, RecordsAssumption DEF RunByNumber, Start, records, history,
          Types, Typed, GitHubTypes, FileTypes, ToolsTyped, At, RunTypes, StartTypes
<1>3. ASSUME Restore(FALSE), UNCHANGED saved PROVE FileTypes' /\ Grows
  <2>1. specs \in [Id -> SpecType] /\ lost \in BOOLEAN
    BY DEF Types, FileTypes
  <2>2. specs' \in [Id -> SpecType] /\ tasks' = saved.tasks /\ lost' \in BOOLEAN
    BY <1>0, <1>3, <2>1 DEF Restore
  <2>3. ~lost' => ~lost /\ tasks' = tasks
    BY <1>3, <2>1 DEF Restore, records
  <2> QED BY <1>0, <1>3, <2>2, <2>3 DEF FileTypes, Grows, Extends, Types
<1>4. CASE Clean
  <2>1. run' \in RunType
    BY <1>0, <1>4 DEF Clean, RunType
  <2> QED BY <1>3, <1>4, <2>1
          DEF Clean, Types, Typed, GitHubTypes, ToolsTyped, At, RunTypes, StartTypes
<1>5. CASE RefuseDirty \/ Deliver
  BY <1>0, <1>5, SameLines DEF RefuseDirty, Deliver, records, history, Types, Typed, GitHubTypes,
     FileTypes, ToolsTyped, At, RunTypes, StartTypes
<1>6. CASE Load
  <2>1. run' \in RunType
    BY <1>0, <1>6, EmptyRecords DEF Load, RunType, Types, FileTypes
  <2> QED BY <1>6, <2>1, SameLines DEF Load, records, history, Types, Typed, GitHubTypes,
          FileTypes, ToolsTyped, At, RunTypes, StartTypes
<1>7. CASE Rollback
  BY <1>3, <1>7 DEF Rollback, Types, Typed, GitHubTypes, ToolsTyped, At, RunTypes, StartTypes
<1>8. CASE AlreadySatisfied
  <2>1. tasks' = Ticked(saved.tasks, run.id)
    BY <1>8 DEF AlreadySatisfied, Ticked
  <2>2. tasks' \in Text /\ Extends(saved.tasks, tasks')
    BY <1>0, <2>1, TickedText
  <2>3. specs \in [Id -> SpecType] /\ lost \in BOOLEAN
    BY DEF Types, FileTypes
  <2>4. specs' \in [Id -> SpecType]
    BY <1>0, <1>8, <2>3 DEF AlreadySatisfied
  <2>5. lost' = (lost \/ tasks # saved.tasks \/ specs' # specs)
    BY <1>8 DEF AlreadySatisfied
  <2>6. lost' \in BOOLEAN /\ Grows
    BY <2>2, <2>3, <2>5 DEF Grows
  <2> QED BY <1>0, <1>8, <2>2, <2>4, <2>6 DEF AlreadySatisfied, Types, Typed, GitHubTypes, FileTypes,
          ToolsTyped, At, RunTypes, StartTypes
<1> QED BY <1>1, <1>2, <1>4, <1>5, <1>6, <1>7, <1>8 DEF Run

\* What humans do on GitHub and in the repository.
LEMMA HumanTypes ==
  ASSUME Types, OnGitHub \/ (\E i \in Issue : WriteLine(i)) \/ Commit
  PROVE  Typed' /\ Grows
<1>1. CASE OnGitHub
  <2>1. Opened \in IssueType
    BY DEF Opened, IssueType, Label
  <2>2. ASSUME NEW i \in Issue, Open(i) \/ Close(i) \/ Approve(i) PROVE GitHubTypes'
    BY <2>1, <2>2 DEF Open, Close, Approve, Types, GitHubTypes, IssueType, Label
  <2> QED BY <1>1, <2>2, SameLines, RecordsAssumption DEF OnGitHub, Start, records, Types, Typed,
          FileTypes, ToolsTyped, At, RunTypes, StartTypes
<1>2. ASSUME NEW i \in Issue, WriteLine(i) PROVE Typed' /\ Grows
  <2>1. LineOf(i, " ", "none") \in LineType /\ LineOf(i, " ", "none").issue = i
    BY DEF LineOf, LineType
  <2>2. tasks' = Append(tasks, LineOf(i, " ", "none")) /\ ~Registered(tasks, i) /\ tasks \in Text
    BY <1>2 DEF WriteLine, Types, FileTypes
  <2>3. tasks' \in Text /\ Extends(tasks, tasks')
    <3> DEFINE line == LineOf(i, " ", "none")
    <3>1. line \in LineType /\ line.issue = i /\ tasks' = Append(tasks, line)
      BY <2>1, <2>2
    <3> HIDE DEF line
    <3>2. ~Registered(tasks, line.issue) /\ tasks \in Text
      BY <2>2, <3>1
    <3>3. Append(tasks, line) \in Text /\ Extends(tasks, Append(tasks, line))
      BY <3>1, <3>2, AppendLine
    <3> QED BY <3>1, <3>3
  <2>4. StartTypes'
    <3>1. Start
      BY <1>2 DEF WriteLine
    <3>2. starts \in 0 .. MaxStarts /\ MaxStarts \in Nat
      BY RecordsAssumption DEF Types, StartTypes
    <3> QED BY <3>1, <3>2 DEF Start, StartTypes
  <2>5. FileTypes' /\ Grows
    BY <1>2, <2>3 DEF WriteLine, history, Types, FileTypes, Grows
  <2> QED BY <1>2, <2>4, <2>5 DEF WriteLine, history, Types, Typed, GitHubTypes, ToolsTyped, At, RunTypes
<1>3. CASE Commit
  BY <1>3, SameLines DEF Commit, records, history, Types, Typed, GitHubTypes, FileTypes, SavedType,
     ToolsTyped, At, RunTypes, StartTypes
<1> QED BY <1>1, <1>2, <1>3

\* Every step keeps the types and, unless an edit is lost, the lines.
LEMMA StepTypes == Types /\ [Next]_vars => Types' /\ Grows
<1> SUFFICES ASSUME Types, [Next]_vars PROVE Types' /\ Grows
  OBVIOUS
<1>1. CASE Next
  <2>1. Typed' /\ Grows
    BY <1>1, PromoteTypes, SyncTypes, ReviewTypes, StaleTypes, RunStepTypes, HumanTypes DEF Next
  <2>2. tasks' \in Text
    BY <2>1 DEF Typed, FileTypes
  <2>3. \A n \in DOMAIN tasks' : tasks'[n].issue \in Issue
    BY <2>2, TextIsFunction DEF LineType
  <2>4. NamedTypes'
    BY <1>1, <2>3 DEF Next, Remember, Types, NamedTypes
  <2> QED BY <2>1, <2>4 DEF Typed, Types
<1>2. CASE UNCHANGED vars
  BY <1>2, SameLines DEF vars, Types, GitHubTypes, FileTypes, ToolsTyped, At, RunTypes, StartTypes, NamedTypes
<1> QED BY <1>1, <1>2

\* The types hold throughout.
LEMMA SpecTypes == Spec => []Types
<1>1. Types /\ [Next]_vars => Types'
  BY StepTypes
<1> QED BY InitTypes, <1>1, PTL DEF Spec

\* Every variable keeps its type.
THEOREM TypeCorrect == Spec => []TypeOK
<1>1. Types => TypeOK
  <2> SUFFICES ASSUME Types PROVE TypeOK
    OBVIOUS
  <2>1. DOMAIN tasks \subseteq Id /\ \A n \in DOMAIN tasks : tasks[n] \in LineType
    BY TextIsFunction, LinesAreIds DEF Types, FileTypes
  <2>2. \A t \in Tool : tool[t].issue \in Issue \cup {0} /\ DOMAIN tool[t].known \subseteq Issue
    BY ToolTypes DEF ToolType
  <2>3. run.pc \in {"idle", "clean", "load", "running"} /\ run.by \in {"none", "nightly", "human"}
    BY DEF Types, RunTypes, RunType
  <2>4. saved.specs \in [Id -> SpecType]
    BY DEF Types, FileTypes, SavedType
  <2> QED BY <2>1, <2>2, <2>3, <2>4 DEF TypeOK, Types, GitHubTypes, FileTypes, StartTypes,
          IssueType, LineType, SpecType
<1> QED BY <1>1, SpecTypes, PTL

\* However the programs interleave and wherever they stop, tasks.md never has two
\* lines of one issue (the three "already registered" checks).
THEOREM OneLine == Spec => []OneLinePerIssue
<1>1. Types => OneLinePerIssue
  BY TextIsFunction DEF Types, FileTypes, Distinct, OneLinePerIssue
<1> QED BY <1>1, SpecTypes, PTL

\* A line that was ticked off stays so, unless the records are taken away or a
\* stale copy is written.
THEOREM NoLineUnticked == Spec => TickedStaysTicked
<1>1. Types /\ [Next]_vars =>
        [\A n \in DOMAIN tasks : tasks[n].box = "x" /\ ~lost' =>
           n \in DOMAIN tasks' /\ tasks'[n].box = "x"]_vars
  BY StepTypes DEF Grows, Extends
<1> QED BY <1>1, SpecTypes, PTL DEF Spec, TickedStaysTicked

-----------------------------------------------------------------------------
\* As long as no record was lost an id has stood for the issue of its line only.
NamesKept ==
  ~lost => \A n \in Id : named[n] = IF n \in DOMAIN tasks THEN {tasks[n].issue} ELSE {}

\* NamesKept holds throughout.
LEMMA SpecNames == Spec => []NamesKept
<1>1. Init => NamesKept
  BY DEF Init, NamesKept
<1>2. Types /\ NamesKept /\ [Next]_vars => NamesKept'
  <2> SUFFICES ASSUME Types, NamesKept, [Next]_vars, ~lost', NEW n \in Id
               PROVE  named'[n] = IF n \in DOMAIN tasks' THEN {tasks'[n].issue} ELSE {}
    BY DEF NamesKept
  <2>1. Grows
    BY StepTypes
  <2>2. /\ named[n] = IF n \in DOMAIN tasks THEN {tasks[n].issue} ELSE {}
        /\ n \in DOMAIN tasks => n \in DOMAIN tasks' /\ tasks'[n].issue = tasks[n].issue
    BY <2>1 DEF NamesKept, Grows, Extends
  <2>3. CASE Next
    <3>1. named'[n] = IF n \in DOMAIN tasks' THEN named[n] \cup {tasks'[n].issue} ELSE named[n]
      BY <2>3 DEF Next, Remember
    <3> QED BY <2>2, <3>1
  <2>4. CASE UNCHANGED vars
    BY <2>2, <2>4 DEF vars
  <2> QED BY <2>3, <2>4
<1> QED BY <1>1, <1>2, SpecTypes, PTL DEF Spec

\* As long as no record was lost a task id stands for one issue for ever.
THEOREM IdsAreStable == Spec => []TaskIdKeepsItsIssue
<1>1. NamesKept => TaskIdKeepsItsIssue
  <2> SUFFICES ASSUME NamesKept, ~lost, NEW n \in Id PROVE Cardinality(named[n]) <= 1
    BY DEF TaskIdKeepsItsIssue
  <2>1. CASE n \in DOMAIN tasks
    <3>1. named[n] = {tasks[n].issue}
      BY <2>1 DEF NamesKept
    <3>2. Cardinality(named[n]) = 1
      BY <3>1, FS_Singleton
    <3> QED BY <3>2
  <2>2. CASE n \notin DOMAIN tasks
    <3>1. named[n] = {}
      BY <2>2 DEF NamesKept
    <3>2. Cardinality(named[n]) = 0
      BY <3>1, FS_EmptySet
    <3> QED BY <3>2
  <2> QED BY <2>1, <2>2
<1> QED BY <1>1, SpecNames, PTL

-----------------------------------------------------------------------------
\* As long as no record was lost a specification is that of its line's issue,
\* also the one a review is about to write under the id it appended.
Placed(n) == n \in DOMAIN tasks /\ tasks[n].issue = tool["periodic"].issue
SpecsKept ==
  ~lost =>
    /\ \A n \in Id : specs[n] # NoSpec => n \in DOMAIN tasks /\ specs[n].issue = tasks[n].issue
    /\ At("periodic", "place") => Placed(Len(tool["periodic"].text) + 1)

\* Steps that touch no specification keep SpecsKept.
LEMMA SpecsStay ==
  ASSUME Types, SpecsKept, Grows, specs' = specs \/ lost',
         tool'["periodic"] = tool["periodic"] \/ tool'["periodic"].pc # "place"
  PROVE  SpecsKept'
<1> SUFFICES ASSUME ~lost' PROVE SpecsKept'
  BY DEF SpecsKept
<1>1. ~lost /\ specs' = specs
  BY DEF Grows
<1>2. \A n \in DOMAIN tasks : n \in DOMAIN tasks' /\ tasks'[n].issue = tasks[n].issue
  BY DEF Grows, Extends
<1> QED BY <1>1, <1>2 DEF SpecsKept, At, Placed

\* Who moves (tool) and which run.
LEMMA PeriodicStays ==
  ASSUME Types, Promote \/ CloseStale \/ Run \/ OnGitHub \/ (\E i \in Issue : WriteLine(i)) \/ Commit
  PROVE  tool'["periodic"] = tool["periodic"]
<1>1. CASE Promote
  BY <1>1 DEF Promote, PromoteStart, PromoteEdit, PromoteRead, PromoteWrite, PromoteSpec, ReadTasks,
     Go, End, Types, ToolsTyped, Tool
<1>2. CASE CloseStale
  BY <1>2 DEF CloseStale, StaleList, StaleClose, End, Types, ToolsTyped, Tool
<1>3. CASE Run
  BY <1>3 DEF Run, Nightly, RunByNumber, Clean, RefuseDirty, Load, Rollback, Deliver, AlreadySatisfied
<1>4. CASE OnGitHub \/ (\E i \in Issue : WriteLine(i)) \/ Commit
  BY <1>4 DEF OnGitHub, WriteLine, Commit
<1> QED BY <1>1, <1>2, <1>3, <1>4

\* A periodic program that ends is about to place nothing.
LEMMA PeriodicEnds ==
  ASSUME Types, End("periodic")
  PROVE  tool'["periodic"].pc # "place"
BY DEF End, Rest, Types, ToolsTyped, Tool

\* Every step keeps SpecsKept.
LEMMA StepSpecs == Types /\ SpecsKept /\ [Next]_vars => SpecsKept'
<1> SUFFICES ASSUME Types, SpecsKept, [Next]_vars, ~lost' PROVE SpecsKept'
  BY DEF SpecsKept
<1>0. Grows /\ ~lost /\ tasks \in Text /\ Types'
      /\ specs \in [Id -> SpecType] /\ DOMAIN tasks \subseteq Id
  BY StepTypes, LinesAreIds DEF Grows, Types, FileTypes
<1>1. CASE PromoteSpec
  <2> DEFINE i == tool["promote"].issue
  <2>1. tool'["periodic"] = tool["periodic"] /\ tasks' = tasks
    BY <1>1, PeriodicStays DEF Promote, PromoteSpec
  <2>2. CASE Registered(tasks, i)
    <3>1. IdOf(tasks, i) \in DOMAIN tasks /\ tasks[IdOf(tasks, i)].issue = i
      BY <1>0, <2>2, IdOfLine
    <3>2. specs' = [specs EXCEPT ![IdOf(tasks, i)] = SpecOf(i, TRUE)]
      BY <1>1, <2>2 DEF PromoteSpec, WriteSpec
    <3>3. \A n \in Id : specs'[n] # NoSpec => n \in DOMAIN tasks /\ specs'[n].issue = tasks[n].issue
      BY <1>0, <3>1, <3>2 DEF SpecsKept, SpecOf
    <3> QED BY <1>0, <2>1, <3>3 DEF SpecsKept, At, Placed
  <2>3. CASE ~Registered(tasks, i)
    BY <1>0, <1>1, <2>1, <2>3, SpecsStay DEF PromoteSpec
  <2> QED BY <2>2, <2>3
<1>2. CASE Promote /\ ~PromoteSpec
  <2>1. specs' = specs
    BY <1>2 DEF Promote, PromoteStart, PromoteEdit, PromoteRead, PromoteWrite, ReadTasks, records
  <2> QED BY <1>0, <1>2, <2>1, SpecsStay, PeriodicStays
<1>3. CASE SyncHeal
  <2> DEFINE known == tool["periodic"].known
  <2>1. tool'["periodic"].pc # "place" /\ tasks' = tasks
    BY <1>3, PeriodicEnds DEF SyncHeal
  <2>2. PICK reachable \in BOOLEAN :
          specs' = [n \in Id |-> IF n \in DOMAIN tasks THEN Healed(n, known, reachable) ELSE specs[n]]
    BY <1>3 DEF SyncHeal
  <2>3. \A n \in Id : specs'[n] = specs[n] \/ (n \in DOMAIN tasks /\ specs'[n].issue = tasks[n].issue)
    BY <2>2 DEF Healed, SpecOf
  <2>4. \A n \in Id : specs'[n] # NoSpec => n \in DOMAIN tasks /\ specs'[n].issue = tasks[n].issue
    BY <1>0, <2>3 DEF SpecsKept
  <2> QED BY <1>0, <2>1, <2>4 DEF SpecsKept, At
<1>4. CASE SyncFetch \/ SyncRead \/ SyncWrite
  <2>1. tool'["periodic"].pc # "place"
    BY <1>4 DEF SyncFetch, SyncRead, SyncWrite, ReadTasks, Go, Rest, Types, ToolsTyped, Tool, ToolType
  <2>2. specs' = specs
    BY <1>4 DEF SyncFetch, SyncRead, SyncWrite, ReadTasks, records
  <2> QED BY <1>0, <2>1, <2>2, SpecsStay
<1>5. CASE ReviewPlace
  <2> DEFINE k == Len(tool["periodic"].text) + 1
  <2>1. tool'["periodic"].pc # "place" /\ tasks' = tasks
    BY <1>5, PeriodicEnds DEF ReviewPlace
  <2>2. k \in DOMAIN tasks /\ tasks[k].issue = tool["periodic"].issue
    BY <1>0, <1>5 DEF ReviewPlace, SpecsKept, Placed
  <2>3. \A n \in Id : specs'[n] = specs[n] \/ (n = k /\ specs'[n].issue = tool["periodic"].issue)
    BY <1>0, <1>5 DEF ReviewPlace, WriteSpec, SpecOf
  <2>4. \A n \in Id : specs'[n] # NoSpec => n \in DOMAIN tasks /\ specs'[n].issue = tasks[n].issue
    BY <1>0, <2>2, <2>3 DEF SpecsKept
  <2> QED BY <1>0, <2>1, <2>4 DEF SpecsKept, At
<1>6. CASE ReviewWrite
  <2> DEFINE text == tool["periodic"].text
             i == tool["periodic"].issue
             there == \E n \in DOMAIN text : TagIn(i, text[n].issue)
             line == LineOf(i, " ", "ideation")
  <2>1. specs' = specs
    BY <1>6 DEF ReviewWrite
  <2>2. CASE there
    BY <1>0, <1>6, <2>1, <2>2, PeriodicEnds, SpecsStay DEF ReviewWrite
  <2>3. CASE ~there
    <3>1. i \in Issue /\ text \in Text /\ "periodic" \in Tool
      BY <1>6, ToolTypes DEF ReviewWrite, At, Types, ToolsTyped, Tool
    <3>2. line \in LineType /\ line.issue = i /\ ~Registered(text, i)
      BY <2>3, <3>1 DEF LineOf, LineType, Registered, TagIn
    <3>3. tasks' = Append(text, line)
      BY <1>6, <2>3 DEF ReviewWrite, WriteTasks
    <3>4. Len(text) + 1 \in DOMAIN tasks' /\ tasks'[Len(text) + 1] = line
      <4> HIDE DEF line, text
      <4> QED BY <3>1, <3>2, <3>3, AppendLine
    <3>5. tool'["periodic"].text = text /\ tool'["periodic"].issue = i
      BY <1>6, <2>3, <3>1 DEF ReviewWrite, Go, Types, ToolsTyped, ToolType
    <3>6. \A n \in DOMAIN tasks : n \in DOMAIN tasks' /\ tasks'[n].issue = tasks[n].issue
      BY <1>0 DEF Grows, Extends
    <3> QED BY <1>0, <2>1, <3>2, <3>4, <3>5, <3>6 DEF SpecsKept, Placed
  <2> QED BY <2>2, <2>3
<1>7. CASE (\E i \in Issue : ReviewCreate(i)) \/ ReviewRead
  <2>1. tool'["periodic"].pc # "place"
    <3>1. CASE \E i \in Issue : ReviewCreate(i)
      <4>1. PICK i \in Issue : tool' = [tool EXCEPT !["periodic"] = [Rest EXCEPT !.pc = "register", !.issue = i]]
        BY <3>1 DEF ReviewCreate
      <4>2. "periodic" \in DOMAIN tool
        BY DEF Types, ToolsTyped, Tool
      <4>3. tool'["periodic"] = [Rest EXCEPT !.pc = "register", !.issue = i]
        BY <4>1, <4>2
      <4> QED BY <4>3 DEF Rest
    <3>2. CASE ReviewRead
      <4>1. "periodic" \in Tool /\ tool["periodic"].issue \in Issue
        BY <3>2 DEF ReviewRead, At, Types, ToolsTyped, Tool
      <4>2. tool'["periodic"] = [tool["periodic"] EXCEPT !.pc = "append", !.text = tasks]
        BY <3>2, <4>1, ToolReads DEF ReviewRead
      <4>3. tool["periodic"] \in ToolType
        BY <4>1, ToolTypes
      <4> QED BY <4>2, <4>3 DEF ToolType
    <3> QED BY <1>7, <3>1, <3>2
  <2>2. specs' = specs
    BY <1>7 DEF ReviewCreate, ReviewRead, ReadTasks, records
  <2> QED BY <1>0, <2>1, <2>2, SpecsStay
<1>8. CASE CloseStale \/ \E t \in Tool : Crash(t)
  <2>1. specs' = specs
    BY <1>8 DEF CloseStale, StaleList, StaleClose, Crash, records
  <2>2. tool'["periodic"] = tool["periodic"] \/ tool'["periodic"].pc # "place"
    BY <1>8, PeriodicStays DEF Crash, End, Rest, Types, ToolsTyped, Tool
  <2> QED BY <1>0, <2>1, <2>2, SpecsStay
<1>9. CASE Run
  <2>1. specs' = specs \/ lost'
    BY <1>9 DEF Run, Nightly, RunByNumber, Clean, RefuseDirty, Load, Rollback, Deliver,
       AlreadySatisfied, Restore, records
  <2> QED BY <1>0, <1>9, <2>1, SpecsStay, PeriodicStays
<1>10. CASE OnGitHub \/ (\E i \in Issue : WriteLine(i)) \/ Commit
  <2>1. specs' = specs
    BY <1>10 DEF OnGitHub, WriteLine, Commit, records
  <2> QED BY <1>0, <1>10, <2>1, SpecsStay, PeriodicStays
<1>11. CASE UNCHANGED vars
  BY <1>0, <1>11, SpecsStay DEF vars
<1> QED BY <1>1, <1>2, <1>3, <1>4, <1>5, <1>6, <1>7, <1>8, <1>9, <1>10, <1>11
        DEF Next, Sync, Review

\* SpecsKept holds throughout.
LEMMA SpecSpecs == Spec => []SpecsKept
<1>1. Init => SpecsKept
  BY DEF Init, SpecsKept, At, Rest, Tool
<1> QED BY <1>1, StepSpecs, SpecTypes, PTL DEF Spec

\* As long as no record was lost the records correspond one to one (SBOS-DD-007,
\* section 3.10).
THEOREM SpecsBelongToLines == Spec => []SpecMatchesTask
<1>1. Types /\ SpecsKept => SpecMatchesTask
  BY LinesAreIds DEF Types, FileTypes, SpecsKept, SpecMatchesTask
<1> QED BY <1>1, SpecTypes, SpecSpecs, PTL

\* As long as no record was lost the id of a run is that of the issue it was
\* selected for, and so is the specification it has loaded.
RunKept ==
  ~lost /\ run.pc # "idle" /\ ~run.guessed =>
    /\ run.id \in DOMAIN tasks /\ tasks[run.id].issue = run.issue
    /\ run.spec # NoSpec => run.spec.issue = run.issue

\* Every step keeps RunKept.
LEMMA StepRun == Types /\ SpecsKept /\ RunKept /\ [Next]_vars => RunKept'
<1> SUFFICES ASSUME Types, SpecsKept, RunKept, [Next]_vars, ~lost', run'.pc # "idle", ~run'.guessed
             PROVE  /\ run'.id \in DOMAIN tasks' /\ tasks'[run'.id].issue = run'.issue
                    /\ run'.spec # NoSpec => run'.spec.issue = run'.issue
  BY DEF RunKept
<1>0. /\ ~lost /\ tasks \in Text /\ DOMAIN tasks \subseteq Id /\ run \in RunType
      /\ \A n \in DOMAIN tasks : n \in DOMAIN tasks' /\ tasks'[n].issue = tasks[n].issue
  BY StepTypes, LinesAreIds DEF Grows, Extends, Types, FileTypes, RunTypes
<1>1. CASE run' = run
  BY <1>0, <1>1 DEF RunKept
<1>2. CASE Nightly
  <2>1. PICK n \in DOMAIN tasks :
          run' = [NoRun EXCEPT !.pc = "clean", !.by = "nightly", !.id = n, !.issue = tasks[n].issue]
    BY <1>2 DEF Nightly, Candidates
  <2>2. run'.id = n /\ run'.issue = tasks[n].issue /\ run'.spec = NoSpec
    BY <2>1 DEF NoRun
  <2> QED BY <1>0, <2>2
<1>3. ASSUME NEW i \in Issue, RunByNumber(i)
      PROVE  /\ run'.id \in DOMAIN tasks' /\ tasks'[run'.id].issue = run'.issue
             /\ run'.spec # NoSpec => run'.spec.issue = run'.issue
  <2>1. run'.id = TaskIdOf(i) /\ run'.issue = i /\ run'.spec = NoSpec
        /\ run'.guessed = ~Registered(tasks, i)
    BY <1>3 DEF RunByNumber, NoRun
  <2>2. Registered(tasks, i)
    BY <2>1
  <2>3. IdOf(tasks, i) \in DOMAIN tasks /\ tasks[IdOf(tasks, i)].issue = i
    BY <1>0, <2>2, IdOfLine
  <2> QED BY <1>0, <2>1, <2>2, <2>3 DEF TaskIdOf
<1>4. CASE Clean
  <2>1. /\ run'.id = run.id /\ run'.issue = run.issue /\ run'.guessed = run.guessed
        /\ run'.spec = run.spec /\ run.pc # "idle"
    BY <1>0, <1>4 DEF Clean, RunType
  <2> QED BY <1>0, <2>1 DEF RunKept
<1>5. CASE Load
  <2>1. /\ run'.id = run.id /\ run'.issue = run.issue /\ run'.guessed = run.guessed
        /\ run'.spec = (IF run.id \in Id THEN specs[run.id] ELSE NoSpec) /\ run.pc # "idle"
    BY <1>0, <1>5 DEF Load, RunType
  <2>2. run.id \in DOMAIN tasks /\ tasks[run.id].issue = run.issue
    BY <1>0, <2>1 DEF RunKept
  <2> QED BY <1>0, <2>1, <2>2 DEF SpecsKept
<1>6. CASE run' = NoRun
  BY <1>6 DEF NoRun
<1>7. CASE Run
  BY <1>1, <1>2, <1>3, <1>4, <1>5, <1>6, <1>7
     DEF Run, RefuseDirty, Rollback, Deliver, AlreadySatisfied
<1>8. CASE Promote \/ Sync \/ Review
  BY <1>1, <1>8 DEF Promote, PromoteStart, PromoteEdit, PromoteRead, PromoteWrite, PromoteSpec,
     Sync, SyncFetch, SyncRead, SyncWrite, SyncHeal, Review, ReviewCreate, ReviewRead, ReviewWrite,
     ReviewPlace, ReadTasks
<1>9. CASE CloseStale \/ (\E t \in Tool : Crash(t)) \/ OnGitHub \/ (\E i \in Issue : WriteLine(i))
           \/ Commit \/ UNCHANGED vars
  BY <1>1, <1>9 DEF CloseStale, StaleList, StaleClose, Crash, OnGitHub, WriteLine, Commit, vars
<1> QED BY <1>7, <1>8, <1>9 DEF Next

\* RunKept holds throughout.
LEMMA SpecRun == Spec => []RunKept
<1>1. Init => RunKept
  BY DEF Init, RunKept, NoRun
<1> QED BY <1>1, StepRun, SpecTypes, SpecSpecs, PTL DEF Spec

-----------------------------------------------------------------------------
\* What is ready was raised by an approval, in every file and every copy of one.

ReadyIn(text, issues) == \A n \in DOMAIN text : text[n].stage = "ready" => text[n].issue \in issues
LabelIn(known, issues) == \A i \in DOMAIN known : "ready" \in known[i].labels => i \in issues

FilesApproved == ReadyIn(tasks, RaisedBy(approved)) /\ ReadyIn(saved.tasks, RaisedBy(approved))
GitHubApproved == LabelIn(gh, approved)
ToolsApproved ==
  /\ \A t \in Tool : ReadyIn(tool[t].text, RaisedBy(approved)) /\ LabelIn(tool[t].known, approved)
  /\ ~At("promote", "idle") => tool["promote"].issue \in approved
RunApproved == run.by = "nightly" => run.issue \in RaisedBy(approved)
Approved == FilesApproved /\ GitHubApproved /\ ToolsApproved /\ RunApproved

\* What is approved stays approved.
LEMMA ApprovedKept ==
  ASSUME Approved, approved \subseteq approved'
  PROVE  /\ ReadyIn(tasks, RaisedBy(approved')) /\ ReadyIn(saved.tasks, RaisedBy(approved')) /\ LabelIn(gh, approved')
         /\ \A t \in Tool : ReadyIn(tool[t].text, RaisedBy(approved')) /\ LabelIn(tool[t].known, approved')
         /\ ~At("promote", "idle") => tool["promote"].issue \in approved'
         /\ run.by = "nightly" => run.issue \in RaisedBy(approved')
BY DEF Approved, FilesApproved, GitHubApproved, ToolsApproved, RunApproved, ReadyIn, LabelIn, RaisedBy

\* A file in which approved issues only were raised.
LEMMA RaisedApproved ==
  ASSUME NEW old, NEW new, NEW raised, NEW issues, ReadyIn(old, issues), RaisesOnly(old, new, raised),
         raised \subseteq issues
  PROVE  ReadyIn(new, issues)
BY DEF ReadyIn, RaisesOnly

\* A program that comes to hold approved lines and labels only keeps ToolsApproved.
LEMMA ToolSetApproved ==
  ASSUME Types, Approved, approved \subseteq approved', NEW t \in Tool,
         \A o \in Tool \ {t} : tool'[o] = tool[o],
         ReadyIn(tool'[t].text, RaisedBy(approved')), LabelIn(tool'[t].known, approved'),
         t = "promote" /\ tool'[t].pc # "idle" => tool'[t].issue \in approved'
  PROVE  ToolsApproved'
BY ApprovedKept DEF ToolsApproved, At, Tool

\* What a program holds at rest needs no approval.
LEMMA RestApproved == ReadyIn(Rest.text, RaisedBy(approved')) /\ LabelIn(Rest.known, approved') /\ Rest.pc = "idle"
BY DEF Rest, ReadyIn, LabelIn

\* The end of a program keeps ToolsApproved.
LEMMA ToolEndsApproved ==
  ASSUME Types, Approved, approved \subseteq approved', NEW t \in Tool, End(t)
  PROVE  ToolsApproved'
<1>1. tool'[t] = Rest /\ \A o \in Tool \ {t} : tool'[o] = tool[o]
  BY ToolEnds
<1> QED BY <1>1, RestApproved, ToolSetApproved

\* A step after which a program holds what it held, or the file.
LEMMA ToolMovesApproved ==
  ASSUME Types, Approved, approved \subseteq approved', NEW t \in Tool, NEW step,
         Go(t, step) \/ ReadTasks(t, step), t = "promote" => ~At("promote", "idle")
  PROVE  ToolsApproved'
<1>1. /\ \A o \in Tool \ {t} : tool'[o] = tool[o]
      /\ tool'[t].text \in {tool[t].text, tasks} /\ tool'[t].known = tool[t].known
      /\ tool'[t].issue = tool[t].issue
  BY DEF Go, ReadTasks, Types, ToolsTyped, ToolType
<1> QED BY <1>1, ApprovedKept, ToolSetApproved

\* A file written with nothing raised but approved issues keeps FilesApproved.
LEMMA WrittenApproved ==
  ASSUME Types, Approved, approved \subseteq approved', NEW t \in Tool, NEW new, NEW raised,
         RaisesOnly(tool[t].text, new, raised), raised \subseteq RaisedBy(approved'),
         IF new = tool[t].text THEN UNCHANGED <<tasks, lost>> ELSE WriteTasks(t, new),
         saved' = saved
  PROVE  FilesApproved'
<1>1. ReadyIn(tool[t].text, RaisedBy(approved')) /\ ReadyIn(tasks, RaisedBy(approved')) /\ ReadyIn(saved.tasks, RaisedBy(approved'))
  BY ApprovedKept
<1>2. ReadyIn(new, RaisedBy(approved'))
  BY <1>1, RaisedApproved
<1> QED BY <1>1, <1>2 DEF WriteTasks, FilesApproved

\* promote_issue.py raises lines that begin with the number of the approved issue.
LEMMA PromoteApproved ==
  ASSUME Types, Approved, Promote
  PROVE  Approved'
<1> DEFINE i == tool["promote"].issue
           text == tool["promote"].text
<1>0. /\ approved \subseteq approved' /\ run' = run /\ saved' = saved /\ "promote" \in Tool
      /\ (~At("promote", "idle") => i \in Issue /\ i \in approved) /\ text \in Text
  BY ToolTypes DEF Promote, PromoteStart, PromoteEdit, PromoteRead, PromoteWrite, PromoteSpec, ReadTasks,
     records, history, Types, ToolsTyped, Tool, Approved, ToolsApproved
<1>1. RunApproved'
  BY <1>0, ApprovedKept DEF RunApproved
<1>2. ASSUME tasks' = tasks PROVE FilesApproved'
  BY <1>0, <1>2, ApprovedKept DEF FilesApproved
<1>3. ASSUME gh' = gh PROVE GitHubApproved'
  BY <1>0, <1>3, ApprovedKept DEF GitHubApproved
<1>4. ASSUME NEW j \in Issue, PromoteStart(j) PROVE Approved'
  <2> DEFINE new == [Rest EXCEPT !.pc = "edit", !.issue = j, !.known = [k \in {j} |-> gh[k]]]
  <2>1. tool' = [tool EXCEPT !["promote"] = new] /\ approved' = approved \cup {j}
        /\ gh' = gh /\ tasks' = tasks
    BY <1>4 DEF PromoteStart, records
  <2>2. new.issue = j /\ new.text = <<>> /\ new.known = [k \in {j} |-> gh[k]]
    BY DEF Rest
  <2> HIDE DEF new
  <2>3. tool'["promote"] = new /\ \A o \in Tool \ {"promote"} : tool'[o] = tool[o]
    BY <2>1 DEF Types, ToolsTyped, Tool
  <2>4. ReadyIn(new.text, RaisedBy(approved')) /\ LabelIn(new.known, approved')
    <3>1. ReadyIn(new.text, RaisedBy(approved'))
      BY <2>2 DEF ReadyIn
    <3>2. DOMAIN new.known = {j} /\ j \in approved'
      BY <2>1, <2>2
    <3> QED BY <3>1, <3>2 DEF LabelIn
  <2>5. ToolsApproved'
    <3>1. tool'["promote"].issue \in approved'
      BY <2>1, <2>2, <2>3
    <3> QED BY <1>0, <2>3, <2>4, <3>1, ToolSetApproved
  <2> QED BY <1>1, <1>2, <1>3, <2>1, <2>5 DEF Approved
<1>5. CASE PromoteEdit
  <2>1. At("promote", "edit") /\ Go("promote", "read") /\ tasks' = tasks
    BY <1>5 DEF PromoteEdit, records
  <2>2. ToolsApproved'
    BY <1>0, <2>1, ToolMovesApproved DEF At
  <2>3. \A j \in DOMAIN gh' : j = i \/ gh'[j] = gh[j]
    BY <1>5 DEF PromoteEdit, Types, GitHubTypes
  <2>4. i \in approved'
    BY <1>0, <2>1 DEF At
  <2>5. DOMAIN gh' = DOMAIN gh
    BY <1>5 DEF PromoteEdit
  <2>6. GitHubApproved'
    BY <1>0, <2>3, <2>4, <2>5, ApprovedKept DEF GitHubApproved, LabelIn
  <2> QED BY <1>1, <1>2, <2>1, <2>2, <2>6 DEF Approved
<1>6. CASE PromoteRead
  BY <1>0, <1>1, <1>2, <1>3, <1>6, ToolMovesApproved DEF PromoteRead, ReadTasks, records, At, Approved
<1>7. CASE PromoteWrite
  <2> DEFINE there == \E n \in DOMAIN text : TagIn(i, text[n].issue)
             new == IF there THEN Raised(text, i) ELSE Append(text, LineOf(i, " ", "ready"))
  <2>1. i \in Issue /\ i \in approved' /\ Go("promote", "spec") /\ gh' = gh
    BY <1>0, <1>7 DEF PromoteWrite, At
  <2>0. {n \in Issue : TagIn(i, n)} \subseteq RaisedBy(approved') /\ {i} \subseteq RaisedBy(approved')
    BY <2>1 DEF RaisedBy, TagIn
  <2>2. PICK raised \in {{i}, {n \in Issue : TagIn(i, n)}} : RaisesOnly(text, new, raised)
    <3>1. CASE there
      BY <1>0, <2>1, <3>1, RaisedText
    <3>2. CASE ~there
      <4> DEFINE line == LineOf(i, " ", "ready")
      <4>1. line \in LineType /\ line.issue = i
        BY <2>1 DEF LineOf, LineType
      <4>2. ~Registered(text, i)
        BY <3>2 DEF Registered, TagIn
      <4>3. new = Append(text, line)
        BY <3>2
      <4> HIDE DEF line, new
      <4> QED BY <1>0, <4>1, <4>2, <4>3, AppendLine
    <3> QED BY <3>1, <3>2
  <2>3. IF new = text THEN UNCHANGED <<tasks, lost>> ELSE WriteTasks("promote", new)
    BY <1>7 DEF PromoteWrite
  <2> HIDE DEF new
  <2>4. FilesApproved'
    BY <1>0, <2>0, <2>1, <2>2, <2>3, WrittenApproved
  <2>5. ToolsApproved'
    BY <1>0, <1>7, <2>1, ToolMovesApproved DEF PromoteWrite, At
  <2> QED BY <1>1, <1>3, <2>1, <2>4, <2>5 DEF Approved
<1>8. CASE PromoteSpec
  BY <1>0, <1>1, <1>2, <1>3, <1>8, ToolEndsApproved DEF PromoteSpec, Approved
<1> QED BY <1>4, <1>5, <1>6, <1>7, <1>8 DEF Promote

\* The synchronisation writes an open line for an approved issue only.
LEMMA SyncApproved ==
  ASSUME Types, Approved, Sync
  PROVE  Approved'
<1> DEFINE text == tool["periodic"].text
           known == tool["periodic"].known
<1>0. /\ approved' = approved /\ run' = run /\ saved' = saved /\ gh' = gh /\ "periodic" \in Tool
      /\ text \in Text /\ known \in Known
  BY ToolTypes DEF Sync, SyncFetch, SyncRead, SyncWrite, SyncHeal, ReadTasks, records, history, Tool
<1>1. RunApproved' /\ GitHubApproved'
  BY <1>0, ApprovedKept DEF RunApproved, GitHubApproved
<1>2. ASSUME tasks' = tasks PROVE FilesApproved'
  BY <1>0, <1>2, ApprovedKept DEF FilesApproved
<1>3. CASE SyncFetch
  <2>1. PICK limit \in FetchLimit :
          tool' = [tool EXCEPT !["periodic"] =
                     [Rest EXCEPT !.pc = "read", !.known = [i \in Newest(limit) |-> gh[i]]]]
    BY <1>3 DEF SyncFetch
  <2> DEFINE new == [Rest EXCEPT !.pc = "read", !.known = [i \in Newest(limit) |-> gh[i]]]
  <2>2. new.text = <<>> /\ new.known = [i \in Newest(limit) |-> gh[i]]
    BY DEF Rest
  <2>3. \A i \in Newest(limit) : i \in DOMAIN gh
    BY DEF Newest, Types, GitHubTypes
  <2>4. ReadyIn(new.text, RaisedBy(approved')) /\ LabelIn(new.known, approved')
    <3>1. ReadyIn(new.text, RaisedBy(approved'))
      BY <2>2 DEF ReadyIn
    <3>2. LabelIn(gh, approved')
      BY <1>0, ApprovedKept
    <3> HIDE DEF new
    <3> QED BY <2>2, <2>3, <3>1, <3>2 DEF LabelIn
  <2> HIDE DEF new
  <2>5. tool'["periodic"] = new /\ \A o \in Tool \ {"periodic"} : tool'[o] = tool[o]
    BY <2>1 DEF Types, ToolsTyped, Tool, new
  <2>6. ToolsApproved'
    BY <1>0, <2>4, <2>5, ToolSetApproved
  <2> QED BY <1>1, <1>2, <1>3, <2>6 DEF SyncFetch, records, Approved
<1>4. CASE SyncRead
  BY <1>0, <1>1, <1>2, <1>4, ToolMovesApproved DEF SyncRead, ReadTasks, records, Approved
<1>5. CASE SyncWrite
  <2> DEFINE new == Synced(text, known)
             raised == {i \in DOMAIN known : "ready" \in known[i].labels}
  <2>1. RaisesOnly(text, new, raised)
    BY <1>0, SyncedText
  <2>2. raised \subseteq RaisedBy(approved')
    <3>1. raised \subseteq approved' /\ raised \subseteq Issue
      BY <1>0, ApprovedKept DEF LabelIn, Known
    <3> HIDE DEF raised
    <3> QED BY <3>1 DEF RaisedBy, TagIn
  <2>3. IF new = text THEN UNCHANGED <<tasks, lost>> ELSE WriteTasks("periodic", new)
    BY <1>5 DEF SyncWrite
  <2> HIDE DEF new, raised
  <2>4. FilesApproved'
    BY <1>0, <2>1, <2>2, <2>3, WrittenApproved
  <2>5. ToolsApproved'
    BY <1>0, <1>5, ToolMovesApproved DEF SyncWrite
  <2> QED BY <1>1, <2>4, <2>5 DEF Approved
<1>6. CASE SyncHeal
  BY <1>0, <1>1, <1>2, <1>6, ToolEndsApproved DEF SyncHeal, Approved
<1> QED BY <1>3, <1>4, <1>5, <1>6 DEF Sync

\* A review registers its issue for a human to approve.
LEMMA ReviewApproved ==
  ASSUME Types, Approved, Review
  PROVE  Approved'
<1> DEFINE text == tool["periodic"].text
           i == tool["periodic"].issue
<1>0. /\ approved' = approved /\ run' = run /\ saved' = saved /\ "periodic" \in Tool /\ text \in Text
  BY ToolTypes DEF Review, ReviewCreate, ReviewRead, ReviewWrite, ReviewPlace, ReadTasks, records, history, Tool
<1>1. RunApproved'
  BY <1>0, ApprovedKept DEF RunApproved
<1>2. ASSUME tasks' = tasks PROVE FilesApproved'
  BY <1>0, <1>2, ApprovedKept DEF FilesApproved
<1>3. ASSUME gh' = gh PROVE GitHubApproved'
  BY <1>0, <1>3, ApprovedKept DEF GitHubApproved
<1>4. ASSUME NEW j \in Issue, ReviewCreate(j) PROVE Approved'
  <2> DEFINE new == [Rest EXCEPT !.pc = "register", !.issue = j]
  <2>1. tool' = [tool EXCEPT !["periodic"] = new] /\ gh' = [gh EXCEPT ![j] = Opened] /\ tasks' = tasks
    BY <1>4 DEF ReviewCreate, records
  <2>2. new.text = Rest.text /\ new.known = Rest.known
    BY DEF Rest
  <2> HIDE DEF new
  <2>3. tool'["periodic"] = new /\ \A o \in Tool \ {"periodic"} : tool'[o] = tool[o]
    BY <2>1 DEF Types, ToolsTyped, Tool
  <2>4. ToolsApproved'
    BY <1>0, <2>2, <2>3, RestApproved, ToolSetApproved
  <2>5. GitHubApproved'
    BY <1>0, <2>1, ApprovedKept DEF GitHubApproved, LabelIn, Opened, Types, GitHubTypes
  <2> QED BY <1>1, <1>2, <2>1, <2>4, <2>5 DEF Approved
<1>5. CASE ReviewRead
  BY <1>0, <1>1, <1>2, <1>3, <1>5, ToolMovesApproved DEF ReviewRead, ReadTasks, records, Approved
<1>6. CASE ReviewWrite
  <2> DEFINE there == \E n \in DOMAIN text : TagIn(i, text[n].issue)
             line == LineOf(i, " ", "ideation")
             new == Append(text, line)
  <2>1. GitHubApproved'
    BY <1>3, <1>6 DEF ReviewWrite
  <2>2. CASE there
    BY <1>0, <1>1, <1>2, <1>6, <2>1, <2>2, ToolEndsApproved DEF ReviewWrite, Approved
  <2>3. CASE ~there
    <3>1. i \in Issue
      BY <1>6 DEF ReviewWrite, At, Types, ToolsTyped
    <3>2. line \in LineType /\ line.issue = i /\ line.stage # "ready"
      BY <3>1 DEF LineOf, LineType
    <3>3. ~Registered(text, i)
      BY <2>3 DEF Registered, TagIn
    <3>4. ReadyIn(new, RaisedBy(approved'))
      <4> HIDE DEF line
      <4>1. /\ DOMAIN new = DOMAIN text \cup {Len(text) + 1} /\ new[Len(text) + 1] = line
            /\ \A n \in DOMAIN text : new[n] = text[n]
        BY <1>0, <3>2, <3>3, AppendLine
      <4>2. ReadyIn(text, RaisedBy(approved'))
        BY <1>0, ApprovedKept
      <4> HIDE DEF new
      <4> QED BY <3>2, <4>1, <4>2 DEF ReadyIn
    <3>5. tasks' = new
      BY <1>6, <2>3 DEF ReviewWrite, WriteTasks
    <3>6. FilesApproved'
      BY <1>0, <3>4, <3>5, ApprovedKept DEF FilesApproved
    <3>7. ToolsApproved'
      BY <1>0, <1>6, <2>3, ToolMovesApproved DEF ReviewWrite
    <3> QED BY <1>1, <2>1, <3>6, <3>7 DEF Approved
  <2> QED BY <2>2, <2>3
<1>7. CASE ReviewPlace
  BY <1>0, <1>1, <1>2, <1>3, <1>7, ToolEndsApproved DEF ReviewPlace, Approved
<1> QED BY <1>4, <1>5, <1>6, <1>7 DEF Review

\* Closing stale issues, and crashes, approve nothing.
LEMMA StaleApproved ==
  ASSUME Types, Approved, CloseStale \/ \E t \in Tool : Crash(t)
  PROVE  Approved'
<1> DEFINE known == tool["stale"].known
<1>0. /\ approved' = approved /\ run' = run /\ saved' = saved /\ tasks' = tasks /\ "stale" \in Tool
  BY DEF CloseStale, StaleList, StaleClose, Crash, records, history, Tool
<1>1. RunApproved' /\ FilesApproved'
  BY <1>0, ApprovedKept DEF RunApproved, FilesApproved
<1>2. ASSUME gh' = gh PROVE GitHubApproved'
  BY <1>0, <1>2, ApprovedKept DEF GitHubApproved
<1>3. CASE StaleList
  <2>1. PICK old \in SUBSET Issue :
          tool' = [tool EXCEPT !["stale"] = [Rest EXCEPT !.pc = "close", !.known = [i \in old |-> gh[i]]]]
    BY <1>3 DEF StaleList
  <2> DEFINE new == [Rest EXCEPT !.pc = "close", !.known = [i \in old |-> gh[i]]]
  <2>2. new.text = <<>> /\ new.known = [i \in old |-> gh[i]]
    BY DEF Rest
  <2>3. tool'["stale"] = new /\ \A o \in Tool \ {"stale"} : tool'[o] = tool[o]
    BY <2>1 DEF Types, ToolsTyped, Tool
  <2> HIDE DEF new
  <2>4. ReadyIn(new.text, RaisedBy(approved')) /\ LabelIn(new.known, approved')
    <3>1. ReadyIn(new.text, RaisedBy(approved'))
      BY <2>2 DEF ReadyIn
    <3>2. LabelIn(gh, approved') /\ \A i \in old : i \in DOMAIN gh
      BY <1>0, ApprovedKept DEF Types, GitHubTypes
    <3> QED BY <2>2, <3>1, <3>2 DEF LabelIn
  <2>5. ToolsApproved'
    BY <1>0, <2>3, <2>4, ToolSetApproved
  <2> QED BY <1>1, <1>2, <1>3, <2>5 DEF StaleList, Approved
<1>4. CASE StaleClose
  <2>1. PICK i \in DOMAIN known :
          LET left == [j \in DOMAIN known \ {i} |-> known[j]]
          IN /\ gh' \in {gh, [gh EXCEPT ![i].state = "closed"]}
             /\ IF left = << >> THEN End("stale") ELSE tool' = [tool EXCEPT !["stale"].known = left]
    BY <1>4 DEF StaleClose
  <2> DEFINE left == [j \in DOMAIN known \ {i} |-> known[j]]
  <2>2. GitHubApproved'
    <3>1. DOMAIN gh' = DOMAIN gh /\ \A j \in DOMAIN gh : gh'[j].labels = gh[j].labels
      BY <2>1 DEF Types, GitHubTypes, IssueType
    <3> QED BY <1>0, <3>1, ApprovedKept DEF GitHubApproved, LabelIn
  <2>3. CASE left = <<>>
    BY <1>0, <1>1, <2>1, <2>2, <2>3, ToolEndsApproved DEF Approved
  <2>4. CASE left # <<>>
    <3>1. tool' = [tool EXCEPT !["stale"].known = left]
      BY <2>1, <2>4
    <3>2. /\ tool'["stale"].known = left /\ tool'["stale"].text = tool["stale"].text
          /\ \A o \in Tool \ {"stale"} : tool'[o] = tool[o]
      <4> HIDE DEF left
      <4> QED BY <1>0, <3>1 DEF Types, ToolsTyped, ToolType, Tool
    <3>3. LabelIn(known, approved') /\ ReadyIn(tool["stale"].text, RaisedBy(approved'))
      BY <1>0, ApprovedKept
    <3>4. LabelIn(left, approved')
      BY <3>3 DEF LabelIn
    <3> HIDE DEF left
    <3>5. ToolsApproved'
      BY <1>0, <3>2, <3>3, <3>4, ToolSetApproved
    <3> QED BY <1>1, <2>2, <3>5 DEF Approved
  <2> QED BY <2>3, <2>4
<1>5. ASSUME NEW t \in Tool, Crash(t) PROVE Approved'
  BY <1>0, <1>1, <1>2, <1>5, ToolEndsApproved DEF Crash, Approved
<1> QED BY <1>3, <1>4, <1>5 DEF CloseStale

\* A run selects among lines that are ready, and readies none.
LEMMA RunStepApproved ==
  ASSUME Types, Approved, Run \/ OnGitHub \/ (\E i \in Issue : WriteLine(i)) \/ Commit \/ UNCHANGED vars
  PROVE  Approved'
<1>0. approved \subseteq approved' /\ tool' = tool
  BY DEF Run, Nightly, RunByNumber, Clean, RefuseDirty, Load, Rollback, Deliver, AlreadySatisfied,
     OnGitHub, Open, Close, Approve, WriteLine, Commit, history, vars
<1>1. ToolsApproved'
  BY <1>0, ApprovedKept DEF ToolsApproved, At
<1>2. FilesApproved'
  <2>1. CASE tasks' = tasks /\ saved' = saved
    BY <1>0, <2>1, ApprovedKept DEF FilesApproved
  <2>2. CASE tasks' = saved.tasks /\ saved' = saved
    BY <1>0, <2>2, ApprovedKept DEF FilesApproved
  <2>3. CASE AlreadySatisfied
    <3>1. saved.tasks \in Text
      BY DEF Types, FileTypes, SavedType
    <3>2. tasks' = Ticked(saved.tasks, run.id) /\ saved' = saved
      BY <2>3 DEF AlreadySatisfied, Ticked
    <3>3. ReadyIn(tasks', RaisedBy(approved'))
      BY <1>0, <3>1, <3>2, TickedText, ApprovedKept, RaisedApproved
    <3> QED BY <1>0, <3>2, <3>3, ApprovedKept DEF FilesApproved
  <2>4. ASSUME NEW i \in Issue, WriteLine(i) PROVE FilesApproved'
    <3> DEFINE line == LineOf(i, " ", "none")
    <3>1. line \in LineType /\ line.issue = i /\ line.stage # "ready"
      BY DEF LineOf, LineType
    <3>2. tasks' = Append(tasks, line) /\ ~Registered(tasks, i) /\ tasks \in Text /\ saved' = saved
      BY <2>4 DEF WriteLine, Types, FileTypes
    <3> HIDE DEF line
    <3>3. /\ DOMAIN tasks' = DOMAIN tasks \cup {Len(tasks) + 1} /\ tasks'[Len(tasks) + 1] = line
          /\ \A n \in DOMAIN tasks : tasks'[n] = tasks[n]
      BY <3>1, <3>2, AppendLine
    <3>4. ReadyIn(tasks', RaisedBy(approved'))
      BY <1>0, <3>1, <3>3, ApprovedKept DEF ReadyIn
    <3> QED BY <1>0, <3>2, <3>4, ApprovedKept DEF FilesApproved
  <2>5. CASE Commit
    BY <1>0, <2>5, ApprovedKept DEF Commit, FilesApproved, records
  <2> QED BY <2>1, <2>2, <2>3, <2>4, <2>5 DEF Run, Nightly, RunByNumber, Clean, RefuseDirty, Load,
          Rollback, Deliver, Restore, OnGitHub, records, vars
<1>3. GitHubApproved'
  <2>1. CASE gh' = gh
    BY <1>0, <2>1, ApprovedKept DEF GitHubApproved
  <2>2. CASE OnGitHub
    <3>1. PICK i \in Issue : Open(i) \/ Close(i) \/ Approve(i)
      BY <2>2 DEF OnGitHub
    <3>2. DOMAIN gh' = DOMAIN gh /\ \A j \in DOMAIN gh : "ready" \in gh'[j].labels =>
            "ready" \in gh[j].labels \/ j \in approved'
      BY <3>1 DEF Open, Close, Approve, Opened, Types, GitHubTypes, IssueType
    <3> QED BY <1>0, <3>2, ApprovedKept DEF GitHubApproved, LabelIn
  <2> QED BY <2>1, <2>2 DEF Run, Nightly, RunByNumber, Clean, RefuseDirty, Load, Rollback, Deliver,
          AlreadySatisfied, WriteLine, Commit, vars
<1>4. RunApproved'
  <2>1. CASE run' = run \/ run' = NoRun
    BY <1>0, <2>1, ApprovedKept DEF RunApproved, NoRun
  <2>2. CASE Nightly
    <3>1. PICK n \in DOMAIN tasks : tasks[n].stage = "ready" /\
            run' = [NoRun EXCEPT !.pc = "clean", !.by = "nightly", !.id = n, !.issue = tasks[n].issue]
      BY <2>2 DEF Nightly, Candidates
    <3>2. run'.issue = tasks[n].issue
      BY <3>1 DEF NoRun
    <3> QED BY <1>0, <3>1, <3>2, ApprovedKept DEF RunApproved, ReadyIn
  <2>3. ASSUME NEW i \in Issue, RunByNumber(i) PROVE RunApproved'
    <3>1. run'.by = "human"
      BY <2>3 DEF RunByNumber, NoRun
    <3> QED BY <3>1 DEF RunApproved
  <2>4. CASE Clean \/ Load
    <3>1. run'.by = run.by /\ run'.issue = run.issue
      BY <2>4 DEF Clean, Load, Types, RunTypes, RunType
    <3> QED BY <1>0, <3>1, ApprovedKept DEF RunApproved
  <2> QED BY <2>1, <2>2, <2>3, <2>4 DEF Run, RefuseDirty, Rollback, Deliver, AlreadySatisfied,
          OnGitHub, WriteLine, Commit, vars
<1> QED BY <1>1, <1>2, <1>3, <1>4 DEF Approved

\* Approved holds throughout.
LEMMA SpecApproved == Spec => []Approved
<1>1. Init => Approved
  BY DEF Init, Approved, FilesApproved, GitHubApproved, ToolsApproved, RunApproved, ReadyIn, LabelIn,
     Rest, NoRun, Opened, NoIssue, At, Tool
<1>2. Types /\ Approved /\ [Next]_vars => Approved'
  BY PromoteApproved, SyncApproved, ReviewApproved, StaleApproved, RunStepApproved DEF Next
<1> QED BY <1>1, <1>2, SpecTypes, PTL DEF Spec

\* A line that the nightly worker takes up belongs to an issue a human has
\* approved, or to one whose number begins with that of such an issue.
THEOREM NothingUnapprovedIsReady == Spec => []ReadyMeansApproved
<1>1. Approved => ReadyMeansApproved
  BY DEF Approved, FilesApproved, ReadyIn, ReadyMeansApproved, Candidates
<1> QED BY <1>1, SpecApproved, PTL

\* As long as no record was lost a run implements the issue it was selected for,
\* and the nightly worker's one that an approval raised.
THEOREM RunsAreOfTheirIssue == Spec => []RunsWhatWasSelected
<1>1. RunKept /\ Approved => RunsWhatWasSelected
  BY DEF RunKept, Approved, RunApproved, RunsWhatWasSelected
<1> QED BY <1>1, SpecApproved, SpecRun, PTL

-----------------------------------------------------------------------------
\* The synchronisation knows issues that exist.
KnownExist == \A t \in Tool : \A i \in DOMAIN tool[t].known : tool[t].known[i].state # "none"

\* Every step keeps KnownExist.
LEMMA StepKnown == Types /\ KnownExist /\ [Next]_vars => KnownExist'
<1> SUFFICES ASSUME Types, KnownExist, [Next]_vars PROVE KnownExist'
  OBVIOUS
<1>0. tool \in [Tool -> ToolType] /\ gh \in [Issue -> IssueType]
  BY DEF Types, ToolsTyped, GitHubTypes
<1>1. ASSUME NEW t \in Tool, NEW known, tool'[t].known = known,
             \A o \in Tool \ {t} : tool'[o] = tool[o],
             \A i \in DOMAIN known : known[i].state # "none"
      PROVE  KnownExist'
  BY <1>1 DEF KnownExist
<1>2. ASSUME NEW t \in Tool, End(t) PROVE KnownExist'
  <2>1. tool'[t].known = <<>> /\ \A o \in Tool \ {t} : tool'[o] = tool[o]
    BY <1>0, <1>2 DEF End, Rest
  <2> QED BY <1>1, <2>1
<1>3. ASSUME NEW t \in Tool, NEW step, Go(t, step) \/ ReadTasks(t, step) PROVE KnownExist'
  <2>1. tool'[t].known = tool[t].known /\ \A o \in Tool \ {t} : tool'[o] = tool[o]
    BY <1>0, <1>3 DEF Go, ReadTasks, ToolType
  <2> QED BY <1>1, <2>1 DEF KnownExist
<1>4. ASSUME NEW t \in Tool, NEW new, tool' = [tool EXCEPT ![t] = new],
             \A i \in DOMAIN new.known : new.known[i].state # "none"
      PROVE  KnownExist'
  BY <1>0, <1>1, <1>4
<1>5. ASSUME NEW i \in Issue, PromoteStart(i) PROVE KnownExist'
  <2> DEFINE new == [Rest EXCEPT !.pc = "edit", !.issue = i, !.known = [k \in {i} |-> gh[k]]]
  <2>1. tool' = [tool EXCEPT !["promote"] = new] /\ gh[i].state # "none"
    BY <1>5 DEF PromoteStart
  <2>2. new.known = [k \in {i} |-> gh[k]]
    BY DEF Rest
  <2> HIDE DEF new
  <2>3. "promote" \in Tool /\ \A k \in DOMAIN new.known : new.known[k].state # "none"
    BY <2>1, <2>2 DEF Tool
  <2> QED BY <1>4, <2>1, <2>3
<1>6. CASE SyncFetch
  <2>1. PICK limit \in FetchLimit :
          tool' = [tool EXCEPT !["periodic"] =
                     [Rest EXCEPT !.pc = "read", !.known = [i \in Newest(limit) |-> gh[i]]]]
    BY <1>6 DEF SyncFetch
  <2> DEFINE new == [Rest EXCEPT !.pc = "read", !.known = [i \in Newest(limit) |-> gh[i]]]
  <2>2. new.known = [i \in Newest(limit) |-> gh[i]] /\ tool' = [tool EXCEPT !["periodic"] = new]
    BY <2>1 DEF Rest
  <2>3. \A i \in Newest(limit) : gh[i].state # "none"
    BY DEF Newest
  <2> HIDE DEF new
  <2>4. "periodic" \in Tool /\ \A k \in DOMAIN new.known : new.known[k].state # "none"
    BY <2>2, <2>3 DEF Tool
  <2> QED BY <1>4, <2>2, <2>4
<1>7. ASSUME NEW i \in Issue, ReviewCreate(i) PROVE KnownExist'
  <2> DEFINE new == [Rest EXCEPT !.pc = "register", !.issue = i]
  <2>1. new.known = <<>> /\ tool' = [tool EXCEPT !["periodic"] = new]
    BY <1>7 DEF ReviewCreate, Rest
  <2> HIDE DEF new
  <2>2. "periodic" \in Tool /\ \A k \in DOMAIN new.known : new.known[k].state # "none"
    BY <2>1 DEF Tool
  <2> QED BY <1>4, <2>1, <2>2
<1>8. CASE StaleList
  <2>1. PICK old \in SUBSET {i \in Issue : gh[i].state = "open" /\ "ideation" \in gh[i].labels} :
          tool' = [tool EXCEPT !["stale"] = [Rest EXCEPT !.pc = "close", !.known = [i \in old |-> gh[i]]]]
    BY <1>8 DEF StaleList
  <2> DEFINE new == [Rest EXCEPT !.pc = "close", !.known = [i \in old |-> gh[i]]]
  <2>2. new.known = [i \in old |-> gh[i]] /\ tool' = [tool EXCEPT !["stale"] = new]
    BY <2>1 DEF Rest
  <2>3. \A i \in old : gh[i].state # "none"
    BY <2>1
  <2> HIDE DEF new
  <2> QED BY <1>4, <2>2, <2>3 DEF Tool
<1>9. CASE StaleClose
  <2> DEFINE known == tool["stale"].known
  <2>1. PICK i \in DOMAIN known :
          LET left == [j \in DOMAIN known \ {i} |-> known[j]]
          IN IF left = << >> THEN End("stale") ELSE tool' = [tool EXCEPT !["stale"].known = left]
    BY <1>9 DEF StaleClose
  <2> DEFINE left == [j \in DOMAIN known \ {i} |-> known[j]]
  <2>2. CASE left = <<>>
    BY <1>2, <2>1, <2>2 DEF Tool
  <2>3. CASE left # <<>>
    <3>1. tool' = [tool EXCEPT !["stale"].known = left]
      BY <2>1, <2>3
    <3>2. \A j \in DOMAIN left : left[j].state # "none"
      BY DEF KnownExist, Tool
    <3> HIDE DEF left
    <3>3. tool'["stale"].known = left /\ \A o \in Tool \ {"stale"} : tool'[o] = tool[o]
      BY <1>0, <3>1 DEF Tool, ToolType
    <3> QED BY <1>1, <3>2, <3>3 DEF Tool
  <2> QED BY <2>2, <2>3
<1>10. CASE tool' = tool
  BY <1>10 DEF KnownExist
<1>11. CASE Promote
  BY <1>2, <1>3, <1>5, <1>11 DEF Promote, PromoteEdit, PromoteRead, PromoteWrite, PromoteSpec, Tool
<1>12. CASE Sync
  BY <1>2, <1>3, <1>6, <1>12 DEF Sync, SyncRead, SyncWrite, SyncHeal, Tool
<1>13. CASE Review
  BY <1>2, <1>3, <1>7, <1>13 DEF Review, ReviewRead, ReviewWrite, ReviewPlace, Tool
<1>14. CASE CloseStale \/ \E t \in Tool : Crash(t)
  BY <1>2, <1>8, <1>9, <1>14 DEF CloseStale, Crash
<1>15. CASE Run \/ OnGitHub \/ (\E i \in Issue : WriteLine(i)) \/ Commit \/ UNCHANGED vars
  BY <1>10, <1>15 DEF Run, Nightly, RunByNumber, Clean, RefuseDirty, Load, Rollback, Deliver,
     AlreadySatisfied, OnGitHub, WriteLine, Commit, vars
<1> QED BY <1>11, <1>12, <1>13, <1>14, <1>15 DEF Next

\* A synchronisation that nothing disturbed leaves every fetched issue with a line
\* and a specification, closed ones ticked off and approved open ones at stage:ready
\* unless their line is one without a stage.
THEOREM SyncCatchesUp == Spec => SyncMirrors
<1>1. Types /\ KnownExist /\ [Next]_vars =>
        [SyncHeal /\ Undisturbed => \A i \in DOMAIN Fetched : UpToDate(i)]_vars
  <2> SUFFICES ASSUME Types, KnownExist, SyncHeal, tasks = Synced(tool["periodic"].text, Fetched),
                      \A i \in DOMAIN Fetched : Fetched[i] = gh[i], NEW i \in DOMAIN Fetched
               PROVE  UpToDate(i)
    BY DEF Undisturbed
  <2>1. /\ "periodic" \in Tool /\ tool["periodic"].text \in Text /\ Fetched \in Known
        /\ i \in Issue /\ Fetched[i] \in IssueType /\ Fetched[i].state # "none"
    BY ToolTypes DEF Tool, Fetched, KnownExist
  <2>2. /\ Registered(tasks, i) /\ tasks \in Text
        /\ \A n \in DOMAIN tasks : tasks[n].issue \in DOMAIN Fetched =>
             Follows(tasks[n], Fetched[tasks[n].issue])
    BY <2>1, SyncedText
  <2> DEFINE n == IdOf(tasks, i)
  <2>3. n \in DOMAIN tasks /\ tasks[n].issue = i /\ n \in Id
    BY <2>2, IdOfLine, LinesAreIds
  <2>4. Follows(tasks[n], gh[i])
    BY <2>2, <2>3
  <2>5. specs'[n] # NoSpec
    <3>1. PICK reachable \in BOOLEAN :
            specs' = [k \in Id |-> IF k \in DOMAIN tasks THEN Healed(k, Fetched, reachable) ELSE specs[k]]
      BY DEF SyncHeal, Fetched
    <3>2. specs'[n] = IF specs[n] = NoSpec THEN SpecOf(i, Fetched[i].final) ELSE specs[n]
      BY <2>1, <2>3, <3>1 DEF Healed
    <3>3. i # 0
      BY <2>1, EmptyRecords
    <3> QED BY <3>2, <3>3 DEF NoSpec, SpecOf
  <2>6. tasks[n].stage \in {"none", "ideation", "ready", "garbled"}
    BY <2>2, <2>3, TextIsFunction DEF LineType
  <2> HIDE DEF n
  <2>7. Ready(i) => tasks[n].stage \in {"ready"} \cup Unstaged
    BY <2>4, <2>6 DEF Ready, Follows, Unstaged
  <2> QED BY <2>2, <2>4, <2>5, <2>7 DEF UpToDate, Follows, StageArrived, n
<1>2. Init => KnownExist
  BY DEF Init, KnownExist, Rest
<1> QED BY <1>1, <1>2, StepKnown, SpecTypes, PTL DEF Spec, SyncMirrors
=============================================================================

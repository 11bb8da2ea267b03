------------------------- MODULE NightlyWorkerProofs -------------------------
(***************************************************************************)
(* What NightlyWorker guarantees for any tasks and scores, any limits, any *)
(* times of day and any number of batches.                                 *)
(***************************************************************************)
EXTENDS NightlyWorker, FunctionTheorems, FiniteSetTheorems, WellFoundedInduction, TLAPS

-----------------------------------------------------------------------------
\* Selection.

\* A proper subset of a finite set is smaller.
LEMMA ProperSubset ==
  ASSUME NEW A, NEW B, IsFiniteSet(B), A \in SUBSET B, A # B
  PROVE  /\ IsFiniteSet(A) /\ Cardinality(A) \in Nat /\ Cardinality(B) \in Nat
         /\ Cardinality(A) < Cardinality(B)
<1>1. /\ IsFiniteSet(A) /\ Cardinality(A) <= Cardinality(B)
      /\ Cardinality(A) = Cardinality(B) => A = B
  BY FS_Subset, Zenon
<1>2. Cardinality(A) \in Nat /\ Cardinality(B) \in Nat
  BY <1>1, FS_CardinalityType, Zenon
<1> QED BY <1>1, <1>2

\* The order of the selection is strict and total.
LEMMA PrecedesOrders ==
  /\ \A t \in Task : ~Precedes(t, t)
  /\ \A t, u \in Task : t # u => Precedes(t, u) \/ Precedes(u, t)
  /\ \A t, u, v \in Task : Precedes(t, u) /\ Precedes(u, v) => Precedes(t, v)
<1>1. \A t \in Task : t \in Nat /\ Score[t] \in Nat
  BY TaskAssumption, ScoreAssumption
<1> QED BY <1>1 DEF Precedes

Before(S, t) == {u \in S : Precedes(u, t)}

\* At most n tasks are selected (candidates sorted and cut off at max_tasks_per_run).
LEMMA BestIsLimited ==
  ASSUME NEW S \in SUBSET Task, NEW n \in Nat
  PROVE  /\ Best(S, n) \subseteq S
         /\ IsFiniteSet(Best(S, n)) /\ Cardinality(Best(S, n)) \in Nat
         /\ Cardinality(Best(S, n)) <= n
<1>1. IsFiniteSet(S)
  BY TaskAssumption, FS_Subset, Zenon
<1>2. \A t \in S : Before(S, t) \in SUBSET S
  BY DEF Before
<1>3. \A t \in S : Cardinality(Before(S, t)) \in Nat
  <2> SUFFICES ASSUME NEW t \in S PROVE Cardinality(Before(S, t)) \in Nat
    OBVIOUS
  <2>1. IsFiniteSet(Before(S, t))
    BY <1>1, <1>2, FS_Subset, Zenon
  <2> QED BY <2>1, FS_CardinalityType
<1>4. ASSUME NEW t \in S, NEW u \in S, Precedes(t, u)
      PROVE  Cardinality(Before(S, t)) < Cardinality(Before(S, u))
  <2>1. Before(S, t) \in SUBSET Before(S, u)
    BY <1>4, PrecedesOrders DEF Before
  <2>2. t \in Before(S, u) /\ t \notin Before(S, t)
    BY <1>4, PrecedesOrders DEF Before
  <2>3. IsFiniteSet(Before(S, u))
    BY <1>1, <1>2, FS_Subset, Zenon
  <2> QED BY <2>1, <2>2, <2>3, ProperSubset
<1>5. Best(S, n) = {t \in S : Cardinality(Before(S, t)) < n}
  BY DEF Best, Before
<1> DEFINE B == Best(S, n)
           place == [t \in B |-> Cardinality(Before(S, t))]
<1>6. B \in SUBSET S /\ IsFiniteSet(B) /\ Cardinality(B) \in Nat
  <2>1. B \in SUBSET S
    BY <1>5
  <2>2. IsFiniteSet(B)
    BY <1>1, <2>1, FS_Subset, Zenon
  <2> QED BY <2>1, <2>2, FS_CardinalityType
<1>7. place \in [B -> 0 .. n - 1] /\ \A t \in B : place[t] = Cardinality(Before(S, t))
  BY <1>3, <1>5
<1> HIDE DEF B, place
<1>8. \A t, u \in B : place[t] = place[u] => t = u
  <2> SUFFICES ASSUME NEW t \in B, NEW u \in B, place[t] = place[u], t # u PROVE FALSE
    OBVIOUS
  <2>1. t \in S /\ u \in S
    BY <1>6
  <2>2. Precedes(t, u) \/ Precedes(u, t)
    BY <2>1, PrecedesOrders
  <2>3. Cardinality(Before(S, t)) \in Nat /\ Cardinality(Before(S, t)) = Cardinality(Before(S, u))
    BY <1>3, <1>7, <2>1
  <2>4. ~(Cardinality(Before(S, t)) < Cardinality(Before(S, u)))
        /\ ~(Cardinality(Before(S, u)) < Cardinality(Before(S, t)))
    BY <2>3
  <2> QED BY <1>4, <2>1, <2>2, <2>4
<1>9. place \in Injection(B, 0 .. n - 1)
  BY <1>7, <1>8, Fun_IsInj
<1>10. IsFiniteSet(0 .. n - 1) /\ Cardinality(0 .. n - 1) = n
  <2>1. 0 \in Int /\ n - 1 \in Int
    OBVIOUS
  <2>2. IsFiniteSet(0 .. n - 1) /\ Cardinality(0 .. n - 1) = IF 0 > n - 1 THEN 0 ELSE (n - 1) - 0 + 1
    BY <2>1, FS_Interval
  <2> QED BY <2>2
<1>11. Cardinality(B) <= Cardinality(0 .. n - 1)
  BY <1>9, <1>10, FS_Injection
<1> QED BY <1>6, <1>10, <1>11 DEF B

-----------------------------------------------------------------------------
\* The times of day.

\* A set of numbers that has any has a least one.
LEMMA LeastExists ==
  ASSUME NEW S \in SUBSET Nat, S # {}
  PROVE  Least(S) \in S /\ \A u \in S : Least(S) <= u
<1>1. PICK t \in S : \A u \in S : <<u, t>> \notin OpToRel(<, Nat)
  BY WFMin, NatLessThanWellFounded, Zenon
<1>2. \A u \in S : ~(u < t)
  <2> SUFFICES ASSUME NEW u \in S, u < t PROVE FALSE
    OBVIOUS
  <2>1. <<u, t>> \notin OpToRel(<, Nat)
    BY <1>1
  <2> QED BY <2>1, Zenon DEF OpToRel
<1>3. \A u \in S : t <= u
  BY <1>2
<1> QED BY <1>3 DEF Least

\* Midnights are the multiples of a day.
LEMMA Midnight ==
  ASSUME NEW t \in Nat
  PROVE  \E q \in Nat : /\ t - (t % Day) = Day * q
                        /\ Day * q <= t /\ t < Day * q + Day
<1>1. Day \in Nat \ {0}
  BY SlotsAssumption
<1>2. t = Day * (t \div Day) + (t % Day)
  BY <1>1, Z3
<1>3. t % Day \in 0 .. Day - 1 /\ t \div Day \in Nat
  BY <1>1
<1>4. Day * (t \div Day) \in Nat
  BY <1>1, <1>3
<1> QED BY <1>1, <1>2, <1>3, <1>4

\* The time of day at a time after midnight.
LEMMA TimeOfDay ==
  ASSUME NEW q \in Nat, NEW s \in 0 .. Day - 1
  PROVE  (Day * q + s) % Day = s /\ (Day * q + Day + s) % Day = s
<1>1. Day \in Nat \ {0}
  BY SlotsAssumption
<1>2. \A p \in Nat : (Day * p + s) % Day = s
  BY <1>1
<1>3. Day * q + Day = Day * (q + 1) /\ q + 1 \in Nat
  BY <1>1
<1> QED BY <1>2, <1>3

\* The next target is the first time of daily_times after now (get_next_target_time).
LEMMA NextTargetIsNext ==
  ASSUME NEW t \in Nat
  PROVE  /\ NextTarget(t) \in Nat /\ NextTarget(t) > t
         /\ NextTarget(t) % Day \in Slots
         /\ \A u \in t + 1 .. NextTarget(t) - 1 : u % Day \notin Slots
<1> DEFINE midnight == t - (t % Day)
           today    == {midnight + s : s \in Slots}
           upcoming == {u \in today : u > t}
           tomorrow == {u + Day : u \in today \ upcoming}
<1>1. Day \in Nat \ {0} /\ Slots # {} /\ Slots \subseteq 0 .. Day - 1
  BY SlotsAssumption
<1>2. PICK q \in Nat : midnight = Day * q /\ Day * q <= t /\ t < Day * q + Day
  BY Midnight
<1> DEFINE m == Day * q
<1>3. m \in Nat /\ m <= t /\ t < m + Day /\ today = {m + s : s \in Slots}
  BY <1>1, <1>2
<1>4. \A s \in Slots : (m + s) % Day = s /\ (m + Day + s) % Day = s
  BY <1>1, TimeOfDay
<1>5. \A s \in 0 .. Day - 1 : (m + s) % Day = s /\ (m + Day + s) % Day = s
  BY TimeOfDay
<1>6. NextTarget(t) = IF upcoming # {} THEN Least(upcoming) ELSE Least(tomorrow)
  BY DEF NextTarget
<1> HIDE DEF m, midnight, today
<1>0. m \in Nat /\ t \in Nat /\ m <= t /\ t < m + Day /\ Day \in Nat
  BY <1>1, <1>3
<1>7. \A u \in Nat : u >= m /\ u < m + Day /\ u % Day \in Slots => u \in today
  <2> SUFFICES ASSUME NEW u \in Nat, u >= m, u < m + Day, u % Day \in Slots PROVE u \in today
    OBVIOUS
  <2>1. u - m \in 0 .. Day - 1 /\ u = m + (u - m)
    BY <1>1, <1>3
  <2>2. u % Day = u - m
    BY <1>5, <2>1
  <2> QED BY <1>3, <2>1, <2>2
<1>8. CASE upcoming # {}
  <2>1. upcoming \in SUBSET Nat
    BY <1>1, <1>3
  <2>2. Least(upcoming) \in upcoming /\ \A u \in upcoming : Least(upcoming) <= u
    BY <1>8, <2>1, LeastExists
  <2> DEFINE w == Least(upcoming)
  <2> HIDE DEF w
  <2>3. PICK s \in Slots : w = m + s
    BY <1>3, <2>2 DEF w
  <2>4. w \in Nat /\ w > t /\ w < m + Day
    BY <1>1, <1>3, <2>1, <2>2, <2>3 DEF w
  <2>5. w % Day \in Slots
    BY <1>4, <2>3
  <2>6. ASSUME NEW u \in t + 1 .. w - 1, u % Day \in Slots PROVE FALSE
    <3>1. u \in Nat /\ u > t /\ u < w /\ u >= m /\ u < m + Day
      BY <1>0, <2>4
    <3>2. u \in today
      BY <1>7, <2>6, <3>1
    <3>3. w <= u
      BY <2>2, <3>1, <3>2 DEF w
    <3> QED BY <2>4, <3>1, <3>3
  <2> QED BY <1>6, <1>8, <2>4, <2>5, <2>6 DEF w
<1>9. CASE upcoming = {}
  <2>1. tomorrow = {m + s + Day : s \in Slots}
    <3>1. tomorrow = {u + Day : u \in today}
      BY <1>9
    <3> HIDE DEF tomorrow
    <3> QED BY <1>3, <3>1
  <2> HIDE DEF tomorrow
  <2>2. tomorrow \in SUBSET Nat /\ tomorrow # {}
    <3>1. \A s \in Slots : m + s + Day \in Nat
      BY <1>0, <1>1
    <3> QED BY <1>1, <2>1, <3>1
  <2>3. Least(tomorrow) \in tomorrow /\ \A u \in tomorrow : Least(tomorrow) <= u
    BY <2>2, LeastExists
  <2> DEFINE w == Least(tomorrow)
  <2> HIDE DEF w
  <2>4. PICK s \in Slots : w = m + s + Day
    BY <2>1, <2>3 DEF w
  <2>5. s \in 0 .. Day - 1 /\ w = m + Day + s
    BY <1>1, <1>3, <2>4
  <2>6. w \in Nat /\ w > t /\ w < m + Day + Day
    BY <1>1, <1>3, <2>5
  <2>7. w % Day \in Slots
    BY <1>4, <2>5
  <2>8. ASSUME NEW u \in t + 1 .. w - 1, u % Day \in Slots PROVE FALSE
    <3>1. u \in Nat /\ u > t /\ u < w /\ u >= m
      BY <1>3, <2>6
    <3>2. ~(u < m + Day)
      BY <1>7, <1>9, <2>8, <3>1
    <3>3. u - m - Day \in 0 .. Day - 1 /\ u = m + Day + (u - m - Day)
      BY <1>1, <1>3, <2>6, <3>1, <3>2
    <3>4. u % Day = u - m - Day
      BY <1>5, <3>3
    <3> DEFINE s0 == u - m - Day
    <3>5. s0 \in Slots /\ u = m + s0 + Day
      BY <1>1, <1>3, <2>8, <3>1, <3>4
    <3> HIDE DEF s0
    <3>6. u \in tomorrow
      BY <2>1, <3>5
    <3>7. w <= u
      BY <2>3, <3>6 DEF w
    <3> QED BY <2>6, <3>1, <3>7
  <2> QED BY <1>6, <1>9, <2>6, <2>7, <2>8 DEF w
<1> QED BY <1>8, <1>9

-----------------------------------------------------------------------------
\* Types.  A selection never exceeds the limit, with the failures counted in a
\* batch and the task under way.

InBatch == pc \in {"running", "judge"}
QueueOK ==
  /\ queue \subseteq Task /\ failures \in Nat
  /\ failures + Cardinality(queue) <= MaxTasks
  /\ InBatch => failures + Cardinality(queue) < MaxTasks
LoopOK ==
  /\ pc \in {"top", "load", "retry", "batch", "launch", "running", "judge", "after", "sleep", "ended"}
  /\ stop \in BOOLEAN /\ mode \in Mode \cup {"none"}
  /\ iteration \in 0 .. MaxIterations + MaxErrors
  /\ pc \in {"top", "retry", "sleep"} => iteration < MaxIterations + MaxErrors
ClockOK == now \in 0 .. MaxTime /\ wake \in Nat /\ since \in 0 .. MaxTime
RunOK == run \in Run /\ leftover \in Category
LeftOK == left \in [Project -> [Survivor -> Nat]]
CountOK == batches \in Nat /\ refused \in Nat
Types == QueueOK /\ LoopOK /\ ClockOK /\ RunOK /\ LeftOK /\ CountOK

\* A task is taken out of the queue.
LEMMA QueueShrinks ==
  ASSUME NEW Q \in SUBSET Task, NEW t \in Q
  PROVE  /\ Cardinality(Q) \in Nat /\ Cardinality(Q \ {t}) \in Nat
         /\ Cardinality(Q \ {t}) < Cardinality(Q)
<1>1. IsFiniteSet(Q)
  BY TaskAssumption, FS_Subset, Zenon
<1>2. Q \ {t} \in SUBSET Q /\ Q \ {t} # Q
  OBVIOUS
<1> QED BY <1>1, <1>2, ProperSubset

\* A queue is finite: there are finitely many tasks.
LEMMA QueueFinite ==
  ASSUME NEW Q \in SUBSET Task
  PROVE  Cardinality(Q) \in Nat
<1>1. IsFiniteSet(Q)
  BY TaskAssumption, FS_Subset, Zenon
<1> QED BY <1>1, FS_CardinalityType

\* A kill adds one survivor at most.
LEMMA TimeoutLeaves == LeftOK /\ Timeout => LeftOK'
<1> SUFFICES ASSUME LeftOK, Timeout PROVE LeftOK'
  OBVIOUS
<1>1. PICK s \in AfterKill :
        left' = IF s = "none" THEN left
                ELSE [left EXCEPT ![ProjectOf[run.task]][s] = left[ProjectOf[run.task]][s] + 1]
  BY DEF Timeout
<1>2. ASSUME NEW p \in Project, NEW u \in Survivor PROVE left'[p][u] \in Nat
  <2>1. left[p] \in [Survivor -> Nat]
    BY DEF LeftOK
  <2>2. left'[p][u] = IF s = u /\ p = ProjectOf[run.task] THEN left[p][u] + 1 ELSE left[p][u]
    BY <1>1, <2>1 DEF LeftOK, Survivor
  <2> QED BY <2>1, <2>2
<1>3. ASSUME NEW p \in Project PROVE left'[p] = [u \in Survivor |-> left'[p][u]]
  BY <1>1 DEF LeftOK
<1>4. left' = [p \in Project |-> left'[p]]
  BY <1>1 DEF LeftOK
<1> QED BY <1>2, <1>3, <1>4 DEF LeftOK

\* A survivor that goes on changes its own project only.
LEMMA SurvivorLeaves == LeftOK /\ SurvivorActs => LeftOK'
<1> SUFFICES ASSUME LeftOK, SurvivorActs PROVE LeftOK'
  OBVIOUS
<1>1. PICK p \in Project : \E s \in Survivor, t \in Survivor \cup {"none"} : Becomes(p, s, t)
  BY DEF SurvivorActs, Survivor
<1>2. PICK s \in Survivor, t \in Survivor \cup {"none"} : Becomes(p, s, t)
  BY <1>1
<1> DEFINE after == [u \in Survivor |->
                      CASE u = s -> left[p][u] - 1 [] u = t -> left[p][u] + 1
                        [] OTHER -> left[p][u]]
<1>3. after \in [Survivor -> Nat]
  BY <1>2 DEF Becomes, LeftOK
<1>4. left' = [left EXCEPT ![p] = after]
  BY <1>2 DEF Becomes
<1> HIDE DEF after
<1> QED BY <1>3, <1>4 DEF LeftOK

\* The initial state is well typed.
LEMMA InitTypes == Init => Types
<1> SUFFICES ASSUME Init PROVE Types
  OBVIOUS
<1>1. QueueOK
  BY FS_EmptySet, LimitAssumption DEF Init, QueueOK, InBatch
<1>2. LoopOK
  <2>1. 0 \in 0 .. MaxIterations + MaxErrors /\ 0 < MaxIterations + MaxErrors
    BY LimitAssumption, BoundsAssumption
  <2> QED BY <2>1 DEF Init, LoopOK
<1>3. ClockOK /\ CountOK
  <2>1. 0 \in 0 .. MaxTime
    BY BoundsAssumption
  <2> QED BY <2>1 DEF Init, ClockOK, CountOK
<1>4. RunOK /\ LeftOK
  BY DEF Init, RunOK, LeftOK, Run, NoRun, Stage, Category, AgyFaults
<1> QED BY <1>1, <1>2, <1>3, <1>4 DEF Types

\* Every step keeps the types.
LEMMA StepTypes == Types /\ [Next]_vars => Types'
<1> SUFFICES ASSUME Types, [Next]_vars PROVE Types'
  OBVIOUS
<1> USE LimitAssumption, BoundsAssumption, IntervalAssumption
<1>0. Cardinality(queue) \in Nat /\ queue \in SUBSET Task
  BY QueueFinite DEF Types, QueueOK
<1>1. CASE Top \/ ConfigError \/ Retry \/ ConfigLoaded \/ WakeUp
  BY <1>1 DEF Top, ConfigError, Retry, ConfigLoaded, WakeUp, Goto, loopVars, history, Types, QueueOK,
     InBatch, LoopOK, ClockOK, RunOK, LeftOK, CountOK
<1>2. CASE AfterBatch
  <2>1. wake' \in Nat
    BY <1>2, NextTargetIsNext DEF AfterBatch, Types, ClockOK
  <2> QED BY <1>2, <2>1 DEF AfterBatch, Goto, loopVars, history, Types, QueueOK,
          InBatch, LoopOK, ClockOK, RunOK, LeftOK, CountOK
<1>3. CASE StartBatch
  <2>1. PICK tasksMd \in [Task -> Line] : queue' = Best(Candidates(tasksMd), MaxTasks)
    BY <1>3 DEF StartBatch
  <2>2. Candidates(tasksMd) \in SUBSET Task
    BY DEF Candidates
  <2>3. queue' \subseteq Task /\ Cardinality(queue') \in Nat /\ Cardinality(queue') <= MaxTasks
    BY <2>1, <2>2, BestIsLimited
  <2> QED BY <1>3, <2>3 DEF StartBatch, Goto, loopVars, history, Types, QueueOK,
          InBatch, LoopOK, ClockOK, RunOK, LeftOK, CountOK
<1>4. CASE EndBatch
  BY <1>4 DEF EndBatch, Goto, loopVars, history, Types, QueueOK, InBatch, LoopOK, ClockOK, RunOK, LeftOK, CountOK
<1>5. CASE Launch
  <2>1. PICK t \in Best(queue, 1) :
          /\ run' = [task |-> t, stage |-> "clean", ok |-> FALSE, fault |-> "none"]
          /\ queue' = queue \ {t}
    BY <1>5 DEF Launch
  <2>2. t \in queue
    BY <1>0, BestIsLimited
  <2>3. Cardinality(queue') \in Nat /\ Cardinality(queue') < Cardinality(queue)
    BY <1>0, <2>1, <2>2, QueueShrinks
  <2>4. RunOK'
    BY <1>0, <1>5, <2>1, <2>2 DEF Launch, Types, RunOK, Run, Stage, Category
  <2>5. QueueOK'
    BY <1>0, <1>5, <2>1, <2>3 DEF Launch, Types, QueueOK, InBatch
  <2> QED BY <1>5, <2>4, <2>5 DEF Launch, Goto, loopVars, history, Types, LoopOK, ClockOK, LeftOK, CountOK
<1>6. CASE Judge
  BY <1>0, <1>6 DEF Judge, NoRun, Run, Stage, Category, Goto, loopVars, history, Types, QueueOK, InBatch, LoopOK, ClockOK, RunOK, LeftOK, CountOK
<1>7. CASE Execution
  <2>1. run' \in Run
    BY <1>7 DEF Execution, Clean, TakeLock, CallAgy, AgyReturns, GraphEnds, Timeout, Exit, Types, RunOK, Run,
       Stage, Category, AgyFaults
  <2>2. pc = "running" /\ pc' \in {"running", "judge"}
    BY <1>7 DEF Execution, Clean, TakeLock, CallAgy, AgyReturns, GraphEnds, Timeout, Exit, Goto
  <2>3. LeftOK'
    <3>1. CASE Timeout
      BY <3>1, TimeoutLeaves DEF Types
    <3>2. CASE ~Timeout
      BY <1>7, <3>2 DEF Execution, Clean, TakeLock, CallAgy, AgyReturns, GraphEnds, Types, LeftOK
    <3> QED BY <3>1, <3>2
  <2>4. UNCHANGED <<loopVars, now, wake, queue, failures, leftover, history>>
    BY <1>7 DEF Execution, Clean, TakeLock, CallAgy, AgyReturns, GraphEnds, Timeout
  <2>5. RunOK'
    BY <2>1, <2>4 DEF Types, RunOK
  <2>6. QueueOK'
    BY <2>2, <2>4 DEF Types, QueueOK, InBatch
  <2>7. LoopOK' /\ ClockOK' /\ CountOK'
    BY <2>2, <2>4 DEF loopVars, history, Types, LoopOK, ClockOK, CountOK
  <2> QED BY <2>3, <2>5, <2>6, <2>7 DEF Types
<1>8. CASE Environment
  <2>1. now' \in {now, now + 1} /\ now' \in 0 .. MaxTime
    BY <1>8 DEF Environment, RequestStop, Tick, SurvivorActs, Types, ClockOK
  <2>2. ClockOK'
    BY <1>8, <2>1 DEF Environment, RequestStop, Tick, SurvivorActs, history, Types, ClockOK
  <2>3. QueueOK' /\ RunOK' /\ CountOK'
    BY <1>8 DEF Environment, RequestStop, Tick, SurvivorActs, loopVars, history, Types, QueueOK,
       InBatch, RunOK, CountOK
  <2>4. LoopOK'
    BY <1>8 DEF Environment, RequestStop, Tick, SurvivorActs, loopVars, Types, LoopOK
  <2>5. LeftOK'
    BY <1>8, SurvivorLeaves DEF Environment, RequestStop, Tick, Types, LeftOK
  <2> QED BY <2>2, <2>3, <2>4, <2>5 DEF Types
<1>9. CASE UNCHANGED vars
  BY <1>9 DEF vars, loopVars, history, Types, QueueOK, InBatch, LoopOK, ClockOK, RunOK, LeftOK, CountOK
<1> QED BY <1>1, <1>2, <1>3, <1>4, <1>5, <1>6, <1>7, <1>8, <1>9 DEF Next, Worker

\* The types hold throughout.
LEMMA SpecTypes == Spec => []Types
BY InitTypes, StepTypes, PTL DEF Spec

\* Every variable keeps its type; no batch has more tasks than max_tasks_per_run.
THEOREM TypeCorrect == Spec => []TypeOK
<1>1. Types => TypeOK
  <2> SUFFICES ASSUME Types PROVE TypeOK
    OBVIOUS
  <2>1. Cardinality(queue) \in Nat
    BY QueueFinite DEF Types, QueueOK
  <2> QED BY <2>1, LimitAssumption DEF Types, QueueOK, LoopOK, ClockOK, RunOK, LeftOK, CountOK, TypeOK
<1> QED BY <1>1, SpecTypes, PTL

-----------------------------------------------------------------------------
\* Every batch takes up an iteration of its own, and one that is still to come
\* finds one left.
BatchesOK ==
  /\ batches <= iteration /\ batches <= MaxIterations
  /\ pc \in {"load", "batch"} => batches < iteration
  /\ pc \in {"top", "load", "retry", "batch", "sleep"} => batches < MaxIterations

\* --max-iterations limits the batches, also where unreadable configurations have
\* used up iterations (run_loop).
THEOREM LimitHolds == Spec => []IterationLimitHolds
<1>1. Init => BatchesOK
  BY LimitAssumption DEF Init, BatchesOK
<1>2. Types /\ BatchesOK /\ [Next]_vars => BatchesOK'
  <2> SUFFICES ASSUME Types, BatchesOK, [Next]_vars PROVE BatchesOK'
    OBVIOUS
  <2> USE LimitAssumption, BoundsAssumption
  <2>1. batches \in Nat /\ iteration \in Nat
    BY DEF Types, CountOK, LoopOK
  <2>2. CASE Worker
    BY <2>1, <2>2 DEF Worker, Top, ConfigError, Retry, ConfigLoaded, AfterBatch, WakeUp, StartBatch,
       EndBatch, Launch, Judge, Goto, loopVars, history, BatchesOK
  <2>3. CASE Execution \/ Environment
    BY <2>1, <2>3 DEF Execution, Clean, TakeLock, CallAgy, AgyReturns, GraphEnds, Timeout, Exit, Goto,
       Environment, RequestStop, Tick, SurvivorActs, loopVars, history, BatchesOK
  <2>4. CASE UNCHANGED vars
    BY <2>4 DEF vars, loopVars, history, BatchesOK
  <2> QED BY <2>2, <2>3, <2>4 DEF Next
<1>3. BatchesOK => IterationLimitHolds
  BY DEF BatchesOK, IterationLimitHolds
<1> QED BY <1>1, <1>2, <1>3, SpecTypes, PTL DEF Spec

-----------------------------------------------------------------------------
\* The end of the wait was computed from its beginning.
WaitOK == pc = "sleep" /\ mode = "daily" => wake = NextTarget(since)

\* The wait of the daily mode ends at the first time of daily_times after the batch.
THEOREM WakesInTime == Spec => []WakesAtNextSlot
<1>1. Init => WaitOK
  BY DEF Init, WaitOK
<1>2. Types /\ WaitOK /\ [Next]_vars => WaitOK'
  <2> SUFFICES ASSUME WaitOK, [Next]_vars PROVE WaitOK'
    OBVIOUS
  <2>1. CASE Worker
    BY <2>1 DEF Worker, Top, ConfigError, Retry, ConfigLoaded, AfterBatch, WakeUp, StartBatch,
       EndBatch, Launch, Judge, Goto, loopVars, history, WaitOK
  <2>2. CASE Execution \/ Environment
    BY <2>2 DEF Execution, Clean, TakeLock, CallAgy, AgyReturns, GraphEnds, Timeout, Exit, Goto,
       Environment, RequestStop, Tick, SurvivorActs, loopVars, history, WaitOK
  <2>3. CASE UNCHANGED vars
    BY <2>3 DEF vars, loopVars, history, WaitOK
  <2> QED BY <2>1, <2>2, <2>3 DEF Next
<1>3. Types /\ WaitOK => WakesAtNextSlot
  <2> SUFFICES ASSUME Types, WaitOK, pc = "sleep", mode = "daily"
               PROVE  /\ wake > since /\ wake % Day \in Slots
                      /\ \A t \in since + 1 .. wake - 1 : t % Day \notin Slots
    BY DEF WakesAtNextSlot
  <2>1. since \in Nat /\ wake = NextTarget(since)
    BY DEF Types, ClockOK, WaitOK
  <2> QED BY <2>1, NextTargetIsNext
<1> QED BY <1>1, <1>2, <1>3, SpecTypes, PTL DEF Spec

-----------------------------------------------------------------------------
\* The lock of a project has one holder at most, survivors included.
Mine(p) == run.stage \in {"graph", "agy"} /\ ProjectOf[run.task] = p
OneHolder ==
  \A p \in Project :
    /\ left[p]["graph"] + left[p]["agy"] <= 1
    /\ Mine(p) => left[p]["graph"] = 0 /\ left[p]["agy"] = 0

\* What no lock is taken by, and what gives one up, keeps it so.
LEMMA RunKeepsHolder ==
  ASSUME Types, OneHolder, UNCHANGED left,
         \/ UNCHANGED run
         \/ run'.stage \notin {"graph", "agy"}
         \/ run.stage \in {"graph", "agy"} /\ run'.task = run.task
  PROVE  OneHolder'
BY DEF OneHolder, Mine

\* A started orchestrator takes a lock that nobody has.
LEMMA TakeLockKeepsHolder == Types /\ OneHolder /\ TakeLock => OneHolder'
<1> SUFFICES ASSUME Types, OneHolder, TakeLock PROVE OneHolder'
  OBVIOUS
<1>1. CASE run'.stage = "exited"
  BY <1>1, RunKeepsHolder DEF TakeLock
<1>2. CASE run'.stage # "exited"
  <2>1. /\ ~Locked(ProjectOf[run.task]) /\ run' = [run EXCEPT !.stage = "graph"]
        /\ UNCHANGED left /\ run \in Run
    BY <1>2 DEF TakeLock, Exit, Types, RunOK, Run
  <2>2. run'.task = run.task
    BY <2>1 DEF Run
  <2>3. ASSUME NEW p \in Project, ProjectOf[run.task] = p
        PROVE  left[p]["graph"] = 0 /\ left[p]["agy"] = 0
    <3>1. left[p]["graph"] \in Nat /\ left[p]["agy"] \in Nat
      BY DEF Types, LeftOK, Survivor
    <3>2. ~(left[p]["graph"] > 0) /\ ~(left[p]["agy"] > 0)
      BY <2>1, <2>3 DEF Locked, Works, Survivor
    <3> QED BY <3>1, <3>2
  <2> QED BY <2>1, <2>2, <2>3 DEF OneHolder, Mine
<1> QED BY <1>1, <1>2

\* What a kill leaves holds the lock only where the killed execution held it.
LEMMA TimeoutKeepsHolder == Types /\ OneHolder /\ Timeout => OneHolder'
<1> SUFFICES ASSUME Types, OneHolder, Timeout PROVE OneHolder'
  OBVIOUS
<1>1. run' = [run EXCEPT !.stage = "exited", !.ok = FALSE] /\ run \in Run
  BY DEF Timeout, Exit, Types, RunOK
<1>2. run'.stage = "exited"
  BY <1>1 DEF Run
<1>3. PICK s \in AfterKill :
        left' = IF s = "none" THEN left
                ELSE [left EXCEPT ![ProjectOf[run.task]][s] = left[ProjectOf[run.task]][s] + 1]
  BY DEF Timeout
<1>4. s \in {"graph", "agy"} => run.stage \in {"graph", "agy"}
  BY DEF AfterKill
<1>5. ASSUME NEW p \in Project PROVE (left[p]["graph"] + left[p]["agy"] <= 1)'
  <2>1. left[p] \in [Survivor -> Nat] /\ left \in [Project -> [Survivor -> Nat]]
    BY DEF Types, LeftOK
  <2>2. left[p]["graph"] \in Nat /\ left[p]["agy"] \in Nat
    BY <2>1 DEF Survivor
  <2>3. left[p]["graph"] + left[p]["agy"] <= 1
    BY DEF OneHolder
  <2>4. CASE s \notin {"graph", "agy"} \/ ProjectOf[run.task] # p
    <3>1. left'[p]["graph"] = left[p]["graph"] /\ left'[p]["agy"] = left[p]["agy"]
      BY <1>3, <2>1, <2>4 DEF Survivor
    <3> QED BY <2>3, <3>1
  <2>5. CASE s \in {"graph", "agy"} /\ ProjectOf[run.task] = p
    <3>1. left[p]["graph"] = 0 /\ left[p]["agy"] = 0
      BY <1>4, <2>5 DEF OneHolder, Mine
    <3>2. \A u \in {"graph", "agy"} : left'[p][u] = IF u = s THEN left[p][u] + 1 ELSE left[p][u]
      BY <1>3, <2>1, <2>5 DEF Survivor
    <3> QED BY <2>5, <3>1, <3>2
  <2> QED BY <2>4, <2>5
<1> QED BY <1>2, <1>5 DEF OneHolder, Mine

\* A survivor takes the lock only where nobody has it.
LEMMA SurvivorKeepsHolder == Types /\ OneHolder /\ SurvivorActs => OneHolder'
<1> SUFFICES ASSUME Types, OneHolder, SurvivorActs PROVE OneHolder'
  OBVIOUS
<1> USE DEF Survivor
<1>1. PICK p \in Project :
        \/ ~Locked(p) /\ Becomes(p, "started", "graph")
        \/ Becomes(p, "graph", "agy") \/ Becomes(p, "agy", "graph")
        \/ \E s \in Survivor \ {"agy"} : Becomes(p, s, "none")
  BY DEF SurvivorActs
<1>2. left \in [Project -> [Survivor -> Nat]] /\ UNCHANGED run
  BY DEF Types, LeftOK, SurvivorActs
<1>3. left[p]["graph"] \in Nat /\ left[p]["agy"] \in Nat
      /\ left[p]["graph"] + left[p]["agy"] <= 1
  BY <1>2 DEF OneHolder
<1>4. \A q \in Project \ {p} : left'[q] = left[q]
  BY <1>1, <1>2 DEF Becomes
<1> DEFINE g == left'[p]["graph"]
           a == left'[p]["agy"]
<1>5. g + a <= 1 /\ (Mine(p) => g = 0 /\ a = 0)
  <2>1. CASE ~Locked(p) /\ Becomes(p, "started", "graph")
    <3>1. g = left[p]["graph"] + 1 /\ a = left[p]["agy"]
      BY <1>2, <2>1 DEF Becomes
    <3>2. ~Mine(p) /\ ~(left[p]["graph"] > 0) /\ ~(left[p]["agy"] > 0)
      BY <2>1 DEF Locked, Works, Mine
    <3> QED BY <1>3, <3>1, <3>2
  <2>2. CASE Becomes(p, "graph", "agy")
    <3>1. g = left[p]["graph"] - 1 /\ a = left[p]["agy"] + 1 /\ left[p]["graph"] > 0
      BY <1>2, <2>2 DEF Becomes
    <3> QED BY <1>3, <3>1 DEF OneHolder
  <2>3. CASE Becomes(p, "agy", "graph")
    <3>1. a = left[p]["agy"] - 1 /\ g = left[p]["graph"] + 1 /\ left[p]["agy"] > 0
      BY <1>2, <2>3 DEF Becomes
    <3> QED BY <1>3, <3>1 DEF OneHolder
  <2>4. ASSUME NEW s \in Survivor \ {"agy"}, Becomes(p, s, "none") PROVE g + a <= 1 /\ (Mine(p) => g = 0 /\ a = 0)
    <3>1. a = left[p]["agy"] /\ g = IF s = "graph" THEN left[p]["graph"] - 1 ELSE left[p]["graph"]
      BY <1>2, <2>4 DEF Becomes
    <3>2. left[p][s] > 0
      BY <2>4 DEF Becomes
    <3> QED BY <1>3, <3>1, <3>2 DEF OneHolder
  <2> QED BY <1>1, <2>1, <2>2, <2>3, <2>4
<1> QED BY <1>2, <1>4, <1>5 DEF OneHolder, Mine

\* Of the agents at work in one satellite at most one has an orchestrator that
\* waits for it, whatever the kills of the worker have left behind
\* (_run_with_tree_kill, execute_issue).
THEOREM OneAgent == Spec => []OneAgentAtATime
<1>1. Init => OneHolder
  BY DEF Init, OneHolder, Mine, NoRun, Survivor
<1>2. Types /\ OneHolder /\ [Next]_vars => OneHolder'
  <2> SUFFICES ASSUME Types, OneHolder, [Next]_vars PROVE OneHolder'
    OBVIOUS
  <2>1. CASE Worker
    <3>1. UNCHANGED left /\ (UNCHANGED run \/ run'.stage \notin {"graph", "agy"})
      BY <2>1 DEF Worker, Top, ConfigError, Retry, ConfigLoaded, AfterBatch, WakeUp, StartBatch,
         EndBatch, Launch, Judge, NoRun
    <3> QED BY <3>1, RunKeepsHolder
  <2>2. CASE Clean \/ GraphEnds
    <3>1. UNCHANGED left /\ run'.stage \notin {"graph", "agy"}
      BY <2>2 DEF Clean, GraphEnds, Exit, Types, RunOK, Run
    <3> QED BY <3>1, RunKeepsHolder
  <2>3. CASE CallAgy \/ AgyReturns
    <3>1. UNCHANGED left /\ run.stage \in {"graph", "agy"} /\ run'.task = run.task
      BY <2>3 DEF CallAgy, AgyReturns, Types, RunOK, Run
    <3> QED BY <3>1, RunKeepsHolder
  <2>4. CASE TakeLock \/ Timeout \/ SurvivorActs
    BY <2>4, TakeLockKeepsHolder, TimeoutKeepsHolder, SurvivorKeepsHolder
  <2>5. CASE RequestStop \/ Tick \/ UNCHANGED vars
    <3>1. UNCHANGED <<left, run>>
      BY <2>5 DEF RequestStop, Tick, vars
    <3> QED BY <3>1, RunKeepsHolder
  <2> QED BY <2>1, <2>2, <2>3, <2>4, <2>5 DEF Next, Execution, Environment
<1>3. Types /\ OneHolder => OneAgentAtATime
  <2> SUFFICES ASSUME Types, OneHolder, NEW p \in Project
               PROVE  left[p]["agy"] + (IF run.stage = "agy" /\ ProjectOf[run.task] = p THEN 1 ELSE 0) <= 1
    BY DEF OneAgentAtATime
  <2>1. left[p]["graph"] \in Nat /\ left[p]["agy"] \in Nat
    BY DEF Types, LeftOK, Survivor
  <2> QED BY <2>1 DEF OneHolder, Mine
<1> QED BY <1>1, <1>2, <1>3, SpecTypes, PTL DEF Spec
=============================================================================

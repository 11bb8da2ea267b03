-------------------------- MODULE IssueGraphProofs --------------------------
(***************************************************************************)
(* What IssueGraph guarantees for every value of its constants.            *)
(***************************************************************************)
EXTENDS IssueGraph, Integers, TLAPS

-----------------------------------------------------------------------------
\* The inductive invariants

\* Nodes from which the run can still go anywhere.
Working == {"spec_draft", "code_node", "lint_node", "test_node",
            "test_feedback_node", "review_node"}

\* How often each gate may send the code back, and how often that is still to
\* come.
Retries == IF MaxRound >= 1 THEN MaxRound - 1 ELSE 0
Left    == 3 * Retries - lintRound - testRound - reviewRound

\* The longest way from here to END, in super-steps, when every gate still
\* rejects as often as it may.
Remaining ==
  CASE node = "spec_draft"         -> 8 + 4 * Left - llmTimeouts - planRound
    [] node = "code_node"          -> 6 + 4 * Left - llmTimeouts
    [] node = "lint_node"          -> 5 + 4 * Left - llmTimeouts
    [] node = "test_node"          -> 4 + 4 * Left - llmTimeouts
    [] node = "test_feedback_node" -> 7 + 4 * Left - llmTimeouts
    [] node = "review_node"        -> 3 + 4 * Left - llmTimeouts
    [] node = "END"                -> 0
    [] OTHER                       -> 1

\* No budget is used up while the run goes on, and the steps taken plus the
\* longest way to go never grow.
BudgetInv ==
  /\ node \in Working =>
       /\ llmTimeouts < MaxLlmTimeouts /\ planRound < MaxPlanRounds
       /\ lintRound <= Retries /\ testRound <= Retries
       /\ reviewRound <= Retries
  /\ steps + Remaining <= 8 + 12 * Retries

\* Each gate is entered with the earlier ones passed.
GateInv ==
  /\ node = "test_node"   => "lint" \in gates
  /\ node = "review_node" => {"lint", "test"} \subseteq gates /\ testRc = "zero"
  /\ node = "done_node"   => gates = AllGates /\ testRc = "zero"

\* Only done_node completes a run, it is entered with something to deliver, and
\* a work branch with commits never counted as empty.
DeliveryInv ==
  /\ node # "END" => status # "COMPLETED" /\ (emptyDiff => ~ahead)
  /\ node = "done_node" => HasDiff
  /\ CompletedMeansPublished

\* What escalate_node finds is what the failing node left: the category and
\* the counter agree.
ReasonInv ==
  /\ node = "escalate_node" => status \in {"FAILED_B7", "FAILED_SYSTEM"}
  /\ node = "escalate_node" /\ errorCategory = "LINT_ERROR"
       => lintRound >= MaxRound
  /\ node = "escalate_node" /\ errorCategory = "TEST_ERROR"
       => testRound >= MaxRound
  /\ node \in Working \cup {"done_node"} =>
       status \notin FinalStatus
  /\ StatusTellsWhy

-----------------------------------------------------------------------------
\* Type correctness

\* The initial state is well typed (the initial GraphState of execute_issue).
LEMMA InitType == Init => TypeOK
<1> SUFFICES ASSUME Init PROVE TypeOK
  OBVIOUS
<1>1. verifyFirst \in BOOLEAN /\ ahead \in BOOLEAN /\ prOpen \in BOOLEAN
  <2>1. PICK resumed \in BOOLEAN :
           /\ verifyFirst \in (IF resumed THEN BOOLEAN ELSE {FALSE})
           /\ ahead \in (IF resumed THEN BOOLEAN ELSE {FALSE})
           /\ prOpen \in (IF resumed THEN BOOLEAN ELSE {FALSE})
    BY DEF Init
  <2>2. CASE resumed
    BY <2>1, <2>2
  <2>3. CASE ~resumed
    BY <2>1, <2>3
  <2> QED BY <2>2, <2>3
<1> QED BY <1>1 DEF Init, TypeOK, Status, FinalStatus, ErrorCategory, Node

\* Every super-step keeps the types.
LEMMA StepType == TypeOK /\ [Next]_vars => TypeOK'
<1> SUFFICES ASSUME TypeOK, [Next]_vars PROVE TypeOK'
  OBVIOUS
<1> USE DEF TypeOK, Status, FinalStatus, ErrorCategory, FaultClass, Node,
            AllGates, rounds, worktree, remote, SuperStep
<1>1. CASE SpecDraftNode
  <2>1. status' \in Status /\ errorCategory' \in ErrorCategory
        /\ llmTimeouts' \in Nat /\ planRound' \in Nat
        /\ feedback' \in {"none", "plan", "lint", "test", "advice", "review"}
        /\ fault' \in FaultClass \cup {"none"}
    BY <1>1 DEF SpecDraftNode, PlanAccepted, PlanRejected, PlannerFault,
                CountTimeout, FailSystem
  <2>2. node' \in Node
    BY <1>1 DEF SpecDraftNode, RouteAfterSpec
  <2> QED BY <1>1, <2>1, <2>2 DEF SpecDraftNode
<1>2. CASE CodeNode
  <2>1. status' \in Status /\ errorCategory' \in ErrorCategory
        /\ llmTimeouts' \in Nat /\ fault' \in FaultClass \cup {"none"}
    BY <1>2 DEF CodeNode, CodeEdited, CoderFault, CountTimeout, FailSystem
  <2>2. node' \in Node
    BY <1>2 DEF CodeNode, RouteAfterCode
  <2> QED BY <1>2, <2>1, <2>2 DEF CodeNode
<1>3. CASE LintNode
  <2>1. status' \in Status /\ errorCategory' \in ErrorCategory
        /\ lintRound' \in Nat /\ fault' \in FaultClass \cup {"none"}
        /\ feedback' \in {"none", "plan", "lint", "test", "advice", "review"}
        /\ gates' \subseteq AllGates
    BY <1>3 DEF LintNode, LintPassed, LintFailed, LintFault, FailSystem,
                RejectedBy
  <2>2. node' \in Node
    BY <1>3 DEF LintNode, RouteAfterLint
  <2>3. dirty' \subseteq ChangedFiles
    BY <1>3 DEF LintNode, ChangedFiles
  <2> QED BY <1>3, <2>1, <2>2, <2>3 DEF LintNode
<1>4. CASE RunPytestNode
  <2>1. status' \in Status /\ errorCategory' \in ErrorCategory
        /\ testRound' \in Nat /\ fault' \in FaultClass \cup {"none"}
        /\ feedback' \in {"none", "plan", "lint", "test", "advice", "review"}
        /\ gates' \subseteq AllGates /\ testRc' \in {"none", "zero", "nonzero"}
    <3>1. CASE TestPassed
      BY <1>4, <3>1 DEF RunPytestNode, TestPassed
    <3>2. CASE TestFailed
      BY <1>4, <3>2 DEF RunPytestNode, TestFailed, RejectedBy
    <3>3. CASE TestFault
      BY <1>4, <3>3 DEF RunPytestNode, TestFault, FailSystem
    <3> QED BY <1>4, <3>1, <3>2, <3>3 DEF RunPytestNode
  <2>2. node' \in Node
    BY <1>4 DEF RunPytestNode, RouteAfterTest
  <2>3. dirty' \subseteq ChangedFiles
    BY <1>4 DEF RunPytestNode, ChangedFiles
  <2> QED BY <1>4, <2>1, <2>2, <2>3 DEF RunPytestNode
<1>5. CASE TestFeedbackNode
  BY <1>5 DEF TestFeedbackNode, RouteAfterTestFeedback
<1>6. CASE ReviewNode
  <2>1. CASE DiffUnavailable
    BY <1>6, <2>1 DEF ReviewNode, DiffUnavailable, FailSystem, RouteAfterReview
  <2>2. CASE ReviewDiff
    <3>1. emptyDiff' \in BOOLEAN
      BY <2>2 DEF ReviewDiff, HasDiff
    <3>2. status' \in Status /\ errorCategory' \in ErrorCategory
          /\ llmTimeouts' \in Nat /\ reviewRound' \in Nat
          /\ reviewer' \in ReviewReply \cup {"none"}
          /\ fault' \in FaultClass \cup {"none"}
          /\ feedback' \in {"none", "plan", "lint", "test", "advice", "review"}
          /\ gates' \subseteq AllGates
      <4>1. CASE ReviewerFault
        BY <2>2, <4>1 DEF ReviewDiff, ReviewerFault, CountTimeout, FailSystem
      <4>2. CASE ~ReviewerFault
        <5>1. PICK reply \in ReviewReply :
                /\ reviewer' = reply
                /\ ReviewAccepts(reply) \/ ReviewRejects(reply)
                                        \/ ReviewInvalid(reply)
          BY <2>2, <4>2 DEF ReviewDiff
        <5>2. CASE ReviewAccepts(reply)
          BY <5>1, <5>2 DEF ReviewAccepts
        <5>3. CASE ReviewRejects(reply)
          BY <5>1, <5>3 DEF ReviewRejects, RejectedBy
        <5>4. CASE ReviewInvalid(reply)
          BY <5>1, <5>4 DEF ReviewInvalid, FailSystem
        <5> QED BY <5>1, <5>2, <5>3, <5>4
      <4> QED BY <4>1, <4>2
    <3>3. node' \in Node
      BY <1>6 DEF ReviewNode, RouteAfterReview
    <3> QED BY <1>6, <3>1, <3>2, <3>3 DEF ReviewNode
  <2> QED BY <1>6, <2>1, <2>2 DEF ReviewNode
<1>7. CASE DoneNode
  <2>1. status' \in Status /\ errorCategory' \in ErrorCategory
        /\ dirty' \subseteq ChangedFiles /\ ahead' \in BOOLEAN
        /\ published' \in {"none", "work", "other"} /\ prOpen' \in BOOLEAN
    <3>1. CASE NotCommitted
      BY <3>1 DEF NotCommitted, PrFailed
    <3>2. CASE Committed
      BY <3>2 DEF Committed, Publish, HeadBranch, PrFailed
    <3>3. CASE NothingToCommit
      BY <3>3 DEF NothingToCommit, Publish, HeadBranch, PrFailed
    <3> QED BY <1>7, <3>1, <3>2, <3>3 DEF DoneNode
  <2> QED BY <1>7, <2>1 DEF DoneNode
<1>8. CASE EscalateNode
  BY <1>8 DEF EscalateNode, SettledStatus
<1>9. CASE UNCHANGED vars
  BY <1>9 DEF vars
<1> QED BY <1>1, <1>2, <1>3, <1>4, <1>5, <1>6, <1>7, <1>8, <1>9
        DEF Next, Step, Terminated

\* Every variable has its type, for every bound on the rounds.
THEOREM TypeCorrect == Spec => []TypeOK
  BY InitType, StepType, PTL DEF Spec

-----------------------------------------------------------------------------
\* The recursion limit

\* The recursion limit in terms of the number of retries (compute_recursion_limit).
LEMMA RetriesFacts ==
  /\ Retries \in Nat
  /\ \A n \in Nat : n < MaxRound => n <= Retries
  /\ RecursionLimit = 23 + 15 * Retries
  BY MaxRoundAssumption DEF Retries, RecursionLimit

\* Every super-step is paid for out of a retry budget.
LEMMA BudgetStep == TypeOK /\ BudgetInv /\ [Next]_vars => BudgetInv'
<1> SUFFICES ASSUME TypeOK, BudgetInv, [Next]_vars PROVE BudgetInv'
  OBVIOUS
<1> USE RetriesFacts DEF BudgetInv, Remaining, Left, Working, MaxLlmTimeouts,
        MaxPlanRounds, rounds, SuperStep
<1>0. /\ llmTimeouts \in Nat /\ planRound \in Nat /\ lintRound \in Nat
      /\ testRound \in Nat /\ reviewRound \in Nat /\ steps \in Nat
  BY DEF TypeOK
<1>1. CASE SpecDraftNode
  <2>1. CASE PlanAccepted
    BY <1>0, <1>1, <2>1 DEF SpecDraftNode, PlanAccepted, RouteAfterSpec
  <2>2. CASE PlanRejected
    BY <1>0, <1>1, <2>2 DEF SpecDraftNode, PlanRejected, RouteAfterSpec
  <2>3. CASE PlannerFault
    BY <1>0, <1>1, <2>3 DEF SpecDraftNode, PlannerFault, CountTimeout,
                            FailSystem, RouteAfterSpec
  <2> QED BY <1>1, <2>1, <2>2, <2>3 DEF SpecDraftNode
<1>2. CASE CodeNode
  BY <1>0, <1>2 DEF CodeNode, CodeEdited, CoderFault, CountTimeout, FailSystem,
                    RouteAfterCode
<1>3. CASE LintNode
  <2>1. CASE LintPassed
    BY <1>0, <1>3, <2>1 DEF LintNode, LintPassed, RouteAfterLint
  <2>2. CASE LintFailed
    <3>1. lintRound' < MaxRound => lintRound' <= Retries
      BY <1>0, <2>2 DEF LintFailed
    <3>2. \/ status' = "FAILED_B7"
          \/ status' = "retry_code" /\ lintRound' < MaxRound
      BY <1>0, <2>2, MaxRoundAssumption DEF LintFailed, RejectedBy
    <3> QED BY <1>0, <1>3, <2>2, <3>1, <3>2 DEF LintNode, LintFailed,
               RejectedBy, RouteAfterLint
  <2>3. CASE LintFault
    BY <1>0, <1>3, <2>3 DEF LintNode, LintFault, FailSystem, RouteAfterLint
  <2> QED BY <1>3, <2>1, <2>2, <2>3 DEF LintNode
<1>4. CASE RunPytestNode
  <2>1. CASE TestPassed
    BY <1>0, <1>4, <2>1 DEF RunPytestNode, TestPassed, RouteAfterTest
  <2>2. CASE TestFailed
    <3>1. testRound' < MaxRound => testRound' <= Retries
      BY <1>0, <2>2 DEF TestFailed
    <3>2. \/ status' = "FAILED_B7"
          \/ status' = "retry_code" /\ testRound' < MaxRound
      BY <1>0, <2>2, MaxRoundAssumption DEF TestFailed, RejectedBy
    <3> QED BY <1>0, <1>4, <2>2, <3>1, <3>2 DEF RunPytestNode, TestFailed,
               RejectedBy, RouteAfterTest
  <2>3. CASE TestFault
    BY <1>0, <1>4, <2>3 DEF RunPytestNode, TestFault, FailSystem,
                            RouteAfterTest
  <2> QED BY <1>4, <2>1, <2>2, <2>3 DEF RunPytestNode
<1>5. CASE TestFeedbackNode
  BY <1>0, <1>5 DEF TestFeedbackNode, RouteAfterTestFeedback
<1>6. CASE ReviewNode
  <2>1. CASE status' = "FAILED_SYSTEM"
    BY <1>0, <1>6, <2>1 DEF ReviewNode, RouteAfterReview
  <2>2. CASE ReviewerFault /\ status' # "FAILED_SYSTEM"
    BY <1>0, <1>6, <2>2 DEF ReviewNode, ReviewerFault, CountTimeout,
                            FailSystem, RouteAfterReview
  <2>3. ASSUME NEW reply \in ReviewReply, ReviewAccepts(reply)
        PROVE BudgetInv'
    BY <1>0, <1>6, <2>3 DEF ReviewNode, ReviewAccepts, RouteAfterReview
  <2>4. ASSUME NEW reply \in ReviewReply, ReviewRejects(reply)
        PROVE BudgetInv'
    <3>1. reviewRound' < MaxRound => reviewRound' <= Retries
      BY <1>0, <2>4 DEF ReviewRejects
    <3>2. \/ status' = "FAILED_B7"
          \/ status' = "retry_code" /\ reviewRound' < MaxRound
      BY <1>0, <2>4, MaxRoundAssumption DEF ReviewRejects, RejectedBy
    <3> QED BY <1>0, <1>6, <2>4, <3>1, <3>2 DEF ReviewNode, ReviewRejects,
               RouteAfterReview
  <2> QED BY <1>6, <2>1, <2>2, <2>3, <2>4 DEF ReviewNode, DiffUnavailable,
             ReviewDiff, ReviewInvalid, FailSystem
<1>7. CASE DoneNode
  BY <1>0, <1>7 DEF DoneNode
<1>8. CASE EscalateNode
  BY <1>0, <1>8 DEF EscalateNode
<1>9. CASE UNCHANGED vars
  BY <1>9 DEF vars
<1> QED BY <1>1, <1>2, <1>3, <1>4, <1>5, <1>6, <1>7, <1>8, <1>9
        DEF Next, Step, Terminated

\* At the start nothing is spent.
LEMMA BudgetInit == Init => BudgetInv
  BY RetriesFacts DEF Init, BudgetInv, Remaining, Left, Working,
                      MaxLlmTimeouts, MaxPlanRounds

\* The budgets together stay below the limit.
LEMMA BudgetIsEnough == TypeOK /\ BudgetInv => RecursionLimitNotReached
<1> SUFFICES ASSUME TypeOK, BudgetInv PROVE steps < RecursionLimit
  BY DEF RecursionLimitNotReached
<1>1. Remaining \in Int /\ Remaining >= 0
  BY RetriesFacts DEF Remaining, Left, BudgetInv, Working, TypeOK,
                      MaxLlmTimeouts, MaxPlanRounds
<1> QED BY <1>1, RetriesFacts DEF BudgetInv, TypeOK

\* compute_recursion_limit is never reached, whatever max_round is: the longest
\* run takes 8 + 12 * (MaxRound - 1) super-steps, below the 23 + 15 *
\* (MaxRound - 1) the code allows.
THEOREM LimitNotReached == Spec => []RecursionLimitNotReached
<1>1. Init => TypeOK /\ BudgetInv
  BY InitType, BudgetInit
<1>2. (TypeOK /\ BudgetInv) /\ [Next]_vars => (TypeOK /\ BudgetInv)'
  BY StepType, BudgetStep
<1>3. TypeOK /\ BudgetInv => RecursionLimitNotReached
  BY BudgetIsEnough
<1> QED BY <1>1, <1>2, <1>3, PTL DEF Spec

\* No super-step goes uncounted, so that the bound on steps bounds the length of every
\* run: the safety part of Termination (the loops of retries, timeouts and rejections).
THEOREM EveryStepCounts == Spec => [][Step => steps' = steps + 1]_vars
<1>1. Init => TypeOK /\ BudgetInv
  BY InitType, BudgetInit
<1>2. (TypeOK /\ BudgetInv) /\ [Next]_vars => (TypeOK /\ BudgetInv)'
  BY StepType, BudgetStep
<1>3. Step => SuperStep
  BY DEF Step, SpecDraftNode, CodeNode, LintNode, RunPytestNode, TestFeedbackNode,
    ReviewNode, DoneNode, EscalateNode
<1>4. TypeOK /\ BudgetInv => [Step => steps' = steps + 1]_vars
  BY <1>3, BudgetIsEnough DEF SuperStep, RecursionLimitNotReached
<1> QED BY <1>1, <1>2, <1>4, PTL DEF Spec

-----------------------------------------------------------------------------
\* What is delivered

\* Every super-step keeps the gates in order.
LEMMA GateStep == TypeOK /\ GateInv /\ [Next]_vars => GateInv'
<1> SUFFICES ASSUME TypeOK, GateInv, [Next]_vars PROVE GateInv'
  OBVIOUS
<1> USE DEF GateInv, AllGates
<1>1. CASE SpecDraftNode
  BY <1>1 DEF SpecDraftNode, RouteAfterSpec
<1>2. CASE CodeNode
  BY <1>2 DEF CodeNode, RouteAfterCode
<1>3. CASE LintNode
  BY <1>3 DEF LintNode, LintPassed, LintFailed, LintFault, RejectedBy,
              FailSystem, RouteAfterLint
<1>4. CASE RunPytestNode
  BY <1>4 DEF RunPytestNode, TestPassed, TestFailed, TestFault, RejectedBy,
              FailSystem, RouteAfterTest
<1>5. CASE TestFeedbackNode
  BY <1>5 DEF TestFeedbackNode, RouteAfterTestFeedback
<1>6. CASE ReviewNode
  <2>1. CASE node' \notin {"review_node", "done_node"}
    BY <1>6, <2>1 DEF ReviewNode, RouteAfterReview
  <2>2. CASE node' = "review_node"
    <3>1. status' = "retry_review"
      BY <1>6, <2>2 DEF ReviewNode, RouteAfterReview
    <3>2. ReviewerFault
      BY <1>6, <3>1 DEF ReviewNode, DiffUnavailable, ReviewDiff, ReviewAccepts,
                        ReviewRejects, ReviewInvalid, RejectedBy, FailSystem
    <3> QED BY <1>6, <2>2, <3>2 DEF ReviewNode, ReviewerFault
  <2>3. CASE node' = "done_node"
    <3>1. status' = "review_lgtm"
      BY <1>6, <2>3 DEF ReviewNode, RouteAfterReview
    <3>2. PICK reply \in ReviewReply : ReviewAccepts(reply)
      BY <1>6, <3>1 DEF ReviewNode, DiffUnavailable, ReviewDiff, ReviewRejects,
                        ReviewInvalid, RejectedBy, ReviewerFault, CountTimeout,
                        FailSystem
    <3> QED BY <1>6, <2>3, <3>2 DEF ReviewNode, ReviewAccepts, TypeOK
  <2> QED BY <2>1, <2>2, <2>3
<1>7. CASE DoneNode
  BY <1>7 DEF DoneNode
<1>8. CASE EscalateNode
  BY <1>8 DEF EscalateNode
<1>9. CASE UNCHANGED vars
  BY <1>9 DEF vars
<1> QED BY <1>1, <1>2, <1>3, <1>4, <1>5, <1>6, <1>7, <1>8, <1>9
        DEF Next, Step, Terminated

\* The pull request pipeline is entered only with code whose current version
\* passed ruff, then pytest, then the review.
THEOREM OnlyVerifiedCodeDelivered == Spec => []DeliversVerifiedCode
<1>1. Init => TypeOK /\ GateInv
  BY InitType DEF Init, GateInv
<1>2. (TypeOK /\ GateInv) /\ [Next]_vars => (TypeOK /\ GateInv)'
  BY StepType, GateStep
<1>3. GateInv => DeliversVerifiedCode
  BY DEF GateInv, DeliversVerifiedCode
<1> QED BY <1>1, <1>2, <1>3, PTL DEF Spec

-----------------------------------------------------------------------------
\* What becomes of the commits

\* Every super-step keeps DeliveryInv, and the commits of the work branch.
LEMMA DeliveryStep ==
  TypeOK /\ DeliveryInv /\ [Next]_vars => DeliveryInv' /\ (ahead => ahead')
<1> SUFFICES ASSUME TypeOK, DeliveryInv, [Next]_vars
             PROVE  DeliveryInv' /\ (ahead => ahead')
  OBVIOUS
<1> USE DEF DeliveryInv, CompletedMeansPublished, HasDiff, worktree, remote
<1>1. CASE SpecDraftNode
  BY <1>1 DEF SpecDraftNode, PlanAccepted, PlanRejected, PlannerFault,
              CountTimeout, FailSystem, RouteAfterSpec
<1>2. CASE CodeNode
  BY <1>2 DEF CodeNode, CodeEdited, CoderFault, CountTimeout, FailSystem,
              RouteAfterCode
<1>3. CASE LintNode
  BY <1>3 DEF LintNode, LintPassed, LintFailed, LintFault, RejectedBy,
              FailSystem, RouteAfterLint
<1>4. CASE RunPytestNode
  BY <1>4 DEF RunPytestNode, TestPassed, TestFailed, TestFault, RejectedBy,
              FailSystem, RouteAfterTest
<1>5. CASE TestFeedbackNode
  BY <1>5 DEF TestFeedbackNode, RouteAfterTestFeedback
<1>6. CASE ReviewNode
  <2>1. status' # "COMPLETED"
    BY <1>6 DEF ReviewNode, DiffUnavailable, ReviewDiff, ReviewAccepts,
                ReviewRejects, ReviewInvalid, RejectedBy, ReviewerFault,
                CountTimeout, FailSystem
  <2>2. UNCHANGED <<dirty, ahead>> /\ node' # "END"
    BY <1>6 DEF ReviewNode, RouteAfterReview
  <2>3. emptyDiff' => ~ahead
    BY <1>6 DEF ReviewNode, DiffUnavailable, ReviewDiff
  <2>4. CASE node' = "done_node"
    <3>1. status' = "review_lgtm"
      BY <1>6, <2>4 DEF ReviewNode, RouteAfterReview
    <3>2. PICK reply \in ReviewReply : ReviewAccepts(reply)
      BY <1>6, <3>1 DEF ReviewNode, DiffUnavailable, ReviewDiff, ReviewRejects,
                        ReviewInvalid, RejectedBy, ReviewerFault, CountTimeout,
                        FailSystem
    <3>3. HasDiff
      BY <3>2 DEF ReviewAccepts, JevAnswers
    <3> QED BY <2>1, <2>2, <2>3, <3>3
  <2> QED BY <2>1, <2>2, <2>3, <2>4
<1>7. CASE DoneNode
  <2>1. CASE NotCommitted
    BY <1>7, <2>1 DEF DoneNode, NotCommitted, PrFailed
  <2>2. CASE Committed
    BY <1>7, <2>2 DEF DoneNode, Committed, Publish, HeadBranch, PrFailed
  <2>3. CASE NothingToCommit
    BY <1>7, <2>3 DEF DoneNode, NothingToCommit, Publish, HeadBranch,
                      PrFailed
  <2> QED BY <1>7, <2>1, <2>2, <2>3 DEF DoneNode
<1>8. CASE EscalateNode
  BY <1>8 DEF EscalateNode, SettledStatus
<1>9. CASE UNCHANGED vars
  BY <1>9 DEF vars
<1> QED BY <1>1, <1>2, <1>3, <1>4, <1>5, <1>6, <1>7, <1>8, <1>9
        DEF Next, Step, Terminated

\* The work branch starts as DeliveryInv says.
LEMMA DeliveryInit == Init => DeliveryInv
  BY DEF Init, DeliveryInv, CompletedMeansPublished

\* A completed run has pushed its commits and holds a pull request for them.
THEOREM CompletedIsPublished == Spec => []CompletedMeansPublished
<1>1. (TypeOK /\ DeliveryInv) /\ [Next]_vars => (TypeOK /\ DeliveryInv)'
  BY StepType, DeliveryStep
<1>2. DeliveryInv => CompletedMeansPublished
  BY DEF DeliveryInv
<1> QED BY InitType, DeliveryInit, <1>1, <1>2, PTL DEF Spec

\* The branch deletion of done_node never meets a branch with commits: a stale
\* empty_diff_detected cannot cost anybody's work.
THEOREM CommitsAreKept == Spec => CommitsSurvive
<1>1. (TypeOK /\ DeliveryInv) /\ [Next]_vars => (TypeOK /\ DeliveryInv)'
  BY StepType, DeliveryStep
<1>2. TypeOK /\ DeliveryInv /\ [Next]_vars => [ahead => ahead']_vars
  BY DeliveryStep
<1> QED BY InitType, DeliveryInit, <1>1, <1>2, PTL DEF Spec, CommitsSurvive

-----------------------------------------------------------------------------
\* How a run ends

\* A second timeout is followed by nothing but the end.
LEMMA TimeoutStep ==
  TypeOK /\ SecondTimeoutEndsRun /\ [Next]_vars => SecondTimeoutEndsRun'
<1> SUFFICES ASSUME TypeOK, SecondTimeoutEndsRun, [Next]_vars
             PROVE  SecondTimeoutEndsRun'
  OBVIOUS
<1> USE DEF SecondTimeoutEndsRun, MaxLlmTimeouts, TypeOK
<1>1. CASE SpecDraftNode
  BY <1>1 DEF SpecDraftNode, PlanAccepted, PlanRejected, PlannerFault,
              CountTimeout, FailSystem, RouteAfterSpec
<1>2. CASE CodeNode
  BY <1>2 DEF CodeNode, CodeEdited, CoderFault, CountTimeout, FailSystem,
              RouteAfterCode
<1>3. CASE LintNode
  BY <1>3 DEF LintNode
<1>4. CASE RunPytestNode
  BY <1>4 DEF RunPytestNode
<1>5. CASE TestFeedbackNode
  BY <1>5 DEF TestFeedbackNode
<1>6. CASE ReviewNode
  <2>1. CASE UNCHANGED llmTimeouts
    BY <1>6, <2>1 DEF ReviewNode
  <2>2. CASE CountTimeout("retry_review")
    BY <1>6, <2>2 DEF ReviewNode, CountTimeout, RouteAfterReview
  <2> QED BY <1>6, <2>1, <2>2 DEF ReviewNode, DiffUnavailable, ReviewDiff,
             ReviewAccepts, ReviewRejects, ReviewInvalid, ReviewerFault,
             FailSystem
<1>7. CASE DoneNode
  BY <1>7 DEF DoneNode
<1>8. CASE EscalateNode
  BY <1>8 DEF EscalateNode, SettledStatus
<1>9. CASE UNCHANGED vars
  BY <1>9 DEF vars
<1> QED BY <1>1, <1>2, <1>3, <1>4, <1>5, <1>6, <1>7, <1>8, <1>9
        DEF Next, Step, Terminated

\* The second timeout of a run ends it, wherever the two happened.
THEOREM TimeoutsAreLimited == Spec => []SecondTimeoutEndsRun
<1>1. Init => TypeOK /\ SecondTimeoutEndsRun
  <2>1. Init => llmTimeouts = 0
    BY DEF Init
  <2> QED BY <2>1, InitType DEF SecondTimeoutEndsRun, MaxLlmTimeouts
<1>2. (TypeOK /\ SecondTimeoutEndsRun) /\ [Next]_vars
        => (TypeOK /\ SecondTimeoutEndsRun)'
  BY StepType, TimeoutStep
<1> QED BY <1>1, <1>2, PTL DEF Spec

\* Every super-step leaves the reason for the status it leaves.
LEMMA ReasonStep == TypeOK /\ ReasonInv /\ [Next]_vars => ReasonInv'
<1> SUFFICES ASSUME TypeOK, ReasonInv, [Next]_vars PROVE ReasonInv'
  OBVIOUS
<1> USE MaxRoundAssumption DEF ReasonInv, StatusTellsWhy, Working, FinalStatus,
        MaxPlanRounds, rounds
<1>0. /\ planRound \in Nat /\ lintRound \in Nat /\ testRound \in Nat
      /\ reviewRound \in Nat
  BY DEF TypeOK
<1>1. CASE SpecDraftNode
  <2>1. CASE PlanAccepted
    BY <1>0, <1>1, <2>1 DEF SpecDraftNode, PlanAccepted, RouteAfterSpec
  <2>2. CASE PlanRejected
    BY <1>0, <1>1, <2>2 DEF SpecDraftNode, PlanRejected, RouteAfterSpec
  <2>3. CASE PlannerFault
    BY <1>0, <1>1, <2>3 DEF SpecDraftNode, PlannerFault, CountTimeout,
                            FailSystem, RouteAfterSpec, FaultClass
  <2> QED BY <1>1, <2>1, <2>2, <2>3 DEF SpecDraftNode
<1>2. CASE CodeNode
  BY <1>0, <1>2 DEF CodeNode, CodeEdited, CoderFault, CountTimeout, FailSystem,
                    RouteAfterCode, FaultClass
<1>3. CASE LintNode
  <2>1. CASE LintPassed
    BY <1>0, <1>3, <2>1 DEF LintNode, LintPassed, RouteAfterLint
  <2>2. CASE LintFailed
    BY <1>0, <1>3, <2>2 DEF LintNode, LintFailed, RejectedBy, RouteAfterLint
  <2>3. CASE LintFault
    BY <1>0, <1>3, <2>3 DEF LintNode, LintFault, FailSystem, RouteAfterLint
  <2> QED BY <1>3, <2>1, <2>2, <2>3 DEF LintNode
<1>4. CASE RunPytestNode
  <2>1. CASE TestPassed
    BY <1>0, <1>4, <2>1 DEF RunPytestNode, TestPassed, RouteAfterTest
  <2>2. CASE TestFailed
    BY <1>0, <1>4, <2>2 DEF RunPytestNode, TestFailed, RejectedBy,
                            RouteAfterTest
  <2>3. CASE TestFault
    BY <1>0, <1>4, <2>3 DEF RunPytestNode, TestFault, FailSystem,
                            RouteAfterTest
  <2> QED BY <1>4, <2>1, <2>2, <2>3 DEF RunPytestNode
<1>5. CASE TestFeedbackNode
  BY <1>0, <1>5 DEF TestFeedbackNode, RouteAfterTestFeedback
<1>6. CASE ReviewNode
  <2>1. CASE status' = "FAILED_SYSTEM"
    <3>1. errorCategory' \notin {"LINT_ERROR", "TEST_ERROR"}
          /\ fault' # "none"
      BY <1>6, <2>1 DEF ReviewNode, DiffUnavailable, ReviewDiff, ReviewAccepts,
           ReviewRejects, RejectedBy, ReviewInvalid, ReviewerFault,
           CountTimeout, FailSystem, FaultClass
    <3> QED BY <1>0, <1>6, <2>1, <3>1 DEF ReviewNode, RouteAfterReview
  <2>2. CASE ReviewerFault /\ status' # "FAILED_SYSTEM"
    BY <1>0, <1>6, <2>2 DEF ReviewNode, ReviewerFault, CountTimeout,
                            FailSystem, RouteAfterReview
  <2>3. ASSUME NEW reply \in ReviewReply, ReviewAccepts(reply)
        PROVE ReasonInv'
    BY <1>0, <1>6, <2>3 DEF ReviewNode, ReviewAccepts, RouteAfterReview
  <2>4. ASSUME NEW reply \in ReviewReply, ReviewRejects(reply)
        PROVE ReasonInv'
    BY <1>0, <1>6, <2>4 DEF ReviewNode, ReviewRejects, RejectedBy,
                            RouteAfterReview
  <2> QED BY <1>6, <2>1, <2>2, <2>3, <2>4 DEF ReviewNode, DiffUnavailable,
             ReviewDiff, ReviewInvalid, FailSystem
<1>7. CASE DoneNode
  BY <1>0, <1>7 DEF DoneNode, NotCommitted, Committed, NothingToCommit,
                    Publish, PrFailed
<1>8. CASE EscalateNode
  <2>1. status' = SettledStatus \/ status' = "ESCALATED_NEEDS_REVISION"
    BY <1>8 DEF EscalateNode
  <2>2. CASE status' = SettledStatus
    <3>1. status \in {"FAILED_B7", "FAILED_SYSTEM"}
      BY <1>8 DEF EscalateNode
    <3>2. SettledStatus = status
      BY <3>1 DEF SettledStatus
    <3> QED BY <1>8, <2>2, <3>2 DEF EscalateNode
  <2>3. CASE status' = "ESCALATED_NEEDS_REVISION"
    <3>1. errorCategory \in {"LINT_ERROR", "TEST_ERROR"}
      BY <1>8, <2>3 DEF EscalateNode, SettledStatus
    <3> QED BY <1>0, <1>8, <2>3, <3>1 DEF EscalateNode
  <2> QED BY <2>1, <2>2, <2>3
<1>9. CASE UNCHANGED vars
  BY <1>9 DEF vars
<1> QED BY <1>1, <1>2, <1>3, <1>4, <1>5, <1>6, <1>7, <1>8, <1>9
        DEF Next, Step, Terminated

\* At the start no failure needs a reason.
LEMMA ReasonInit == Init => ReasonInv
  BY DEF Init, ReasonInv, StatusTellsWhy, FinalStatus

\* The failure status a run ends with is backed by a used-up budget or by an
\* exception that was raised.
THEOREM StatusIsExplained == Spec => []StatusTellsWhy
<1>1. (TypeOK /\ ReasonInv) /\ [Next]_vars => (TypeOK /\ ReasonInv)'
  BY StepType, ReasonStep
<1>2. ReasonInv => StatusTellsWhy
  BY DEF ReasonInv
<1> QED BY InitType, ReasonInit, <1>1, <1>2, PTL DEF Spec

-----------------------------------------------------------------------------
\* The graph implements IssueOutcome

\* The initial state is one of IssueOutcome.
LEMMA OutcomeInit == Init => Outcome!Init
  BY DEF Init, Outcome!Init

\* Every super-step is a step of IssueOutcome or none.
LEMMA OutcomeStep ==
  TypeOK /\ GateInv /\ ReasonInv /\ [Next]_vars
    => [Outcome!Next]_(Outcome!vars)
<1> SUFFICES ASSUME TypeOK, GateInv, ReasonInv, [Next]_vars
             PROVE  [Outcome!Next]_(Outcome!vars)
  OBVIOUS
<1> USE DEF Outcome!Next, Outcome!vars
<1>1. CASE SpecDraftNode
  BY <1>1 DEF SpecDraftNode, RouteAfterSpec
<1>2. CASE CodeNode
  BY <1>2 DEF CodeNode, RouteAfterCode, Outcome!Edit
<1>3. CASE LintNode
  BY <1>3 DEF LintNode, LintPassed, LintFailed, LintFault, RouteAfterLint,
              Outcome!Edit, Outcome!PassLint
<1>4. CASE RunPytestNode
  BY <1>4 DEF RunPytestNode, TestPassed, TestFailed, TestFault, GateInv,
              RouteAfterTest, Outcome!PassTest
<1>5. CASE TestFeedbackNode
  BY <1>5 DEF TestFeedbackNode, RouteAfterTestFeedback
<1>6. CASE ReviewNode
  <2>1. CASE status' = "review_lgtm"
    <3>1. PICK reply \in ReviewReply : ReviewAccepts(reply)
      BY <1>6, <2>1 DEF ReviewNode, DiffUnavailable, ReviewDiff, ReviewRejects,
                        ReviewInvalid, RejectedBy, ReviewerFault, CountTimeout,
                        FailSystem
    <3> QED BY <1>6, <2>1, <3>1 DEF ReviewNode, ReviewAccepts, GateInv,
               RouteAfterReview, Outcome!PassReview
  <2>2. CASE status' # "review_lgtm"
    BY <1>6, <2>2 DEF ReviewNode, DiffUnavailable, ReviewDiff, ReviewAccepts,
         ReviewRejects, ReviewInvalid, ReviewerFault, RouteAfterReview
  <2> QED BY <2>1, <2>2
<1>7. CASE DoneNode
  BY <1>7 DEF DoneNode, NotCommitted, Committed, NothingToCommit, Publish,
              PrFailed, Outcome!Stop, Outcome!Delivered
<1>8. CASE EscalateNode
  BY <1>8 DEF EscalateNode, SettledStatus, Outcome!Stop, Outcome!GivenUp
<1>9. CASE UNCHANGED vars
  BY <1>9 DEF vars
<1> QED BY <1>1, <1>2, <1>3, <1>4, <1>5, <1>6, <1>7, <1>8, <1>9
        DEF Next, Step, Terminated

\* Every step of the graph is a step the abstract execution may take, or none:
\* the safety part of KeepsPromise.  (The fairness part is left to TLC.)
THEOREM ImplementsOutcome ==
  Spec => Outcome!Init /\ [][Outcome!Next]_(Outcome!vars)
<1>1. Init => TypeOK /\ GateInv /\ ReasonInv
  BY InitType, ReasonInit DEF Init, GateInv
<1>2. (TypeOK /\ GateInv /\ ReasonInv) /\ [Next]_vars
        => (TypeOK /\ GateInv /\ ReasonInv)'
  BY StepType, GateStep, ReasonStep
<1> QED BY <1>1, <1>2, OutcomeInit, OutcomeStep, PTL DEF Spec

=============================================================================

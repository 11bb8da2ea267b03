------------------------------ MODULE IssueGraph ------------------------------
(***************************************************************************)
(* The LangGraph workflow that execute_issue compiles and invokes for one  *)
(* issue (tools/orchestrator_graph.py): eight nodes over one shared        *)
(* GraphState, joined by routing functions that look at the status the     *)
(* node just left behind.  One action is one super-step of the graph: the  *)
(* whole node function, then its routing function.                         *)
(*                                                                         *)
(* What the planner, the coding agent, ruff, pytest, the reviewer, JEV,    *)
(* git and gh answer is nondeterministic.  Messages, plans and diffs are   *)
(* abstracted to the little the control flow looks at.                     *)
(***************************************************************************)
EXTENDS Naturals

CONSTANTS
  MaxRound,     \* GraphState["max_round"]; execute_issue sets 3
  CustomPrefix  \* the project's work_branch_prefix is not "sbos/"

ASSUME MaxRoundAssumption == MaxRound \in Nat
ASSUME CustomPrefixAssumption == CustomPrefix \in BOOLEAN

VARIABLES
  \* GraphState
  status, errorCategory,
  llmTimeouts,                        \* llm_timeout_count, shared by all nodes
  planRound, lintRound, testRound, reviewRound,
  feedback,                           \* where aider_message comes from
  testRc,                             \* test_result["returncode"]
  emptyDiff,                          \* empty_diff_detected
  \* the graph's position and the mode it was started in
  node, verifyFirst,
  \* the satellite repository
  dirty,                              \* where there are uncommitted changes
  ahead,                              \* work branch has commits over base
  published,                          \* the branch this run pushed, if any
  prOpen,                             \* a pull request exists for its branch
  \* history: what the properties need to remember
  gates,                              \* checks passed since the last edit
  reviewer,                           \* the reviewer's last reply, as sent
  fault,                              \* class of the last exception raised
  steps                               \* super-steps executed so far

rounds    == <<planRound, lintRound, testRound, reviewRound>>
worktree  == <<dirty, ahead>>
remote    == <<published, prOpen>>
vars == <<status, errorCategory, llmTimeouts, rounds, feedback, testRc,
          emptyDiff, node, verifyFirst, worktree, remote,
          gates, reviewer, fault, steps>>

-------------------------------------------------------------------------------
\* Values

AllGates == {"lint", "test", "review"}

\* The range of classify_error_category.
FaultClass == {"LLM_TIMEOUT", "AGY_AUTH", "AGY_QUOTA", "AGY_POLICY_DENIED",
               "SYSTEM_ERROR"}

ErrorCategory == FaultClass \cup {"none", "LINT_ERROR", "TEST_ERROR",
                                  "REVIEW_REJECTED", "PR_ERROR"}

FinalStatus == {"COMPLETED", "PR_FAILED", "FAILED_B7", "FAILED_SYSTEM",
                "ESCALATED_NEEDS_REVISION"}

Status == FinalStatus \cup
          {"running", "retry_spec_draft", "code_completed", "retry_code",
           "lint_passed", "test_passed", "review_lgtm", "retry_review"}

Node == {"spec_draft", "code_node", "lint_node", "test_node",
         "test_feedback_node", "review_node", "done_node", "escalate_node",
         "END"}

\* What call_llm hands to review_node: a verdict with or without comments, the
\* fallback made of an answer that is not JSON, or an object with no verdict.
ReviewReply == {"LGTM", "changes", "changes_no_comments", "unparsable",
                "invalid"}

MaxLlmTimeouts == 2
MaxPlanRounds  == 2

\* Faulty variant: LangGraph's default, used before execute_issue passed its own.
DefaultRecursionLimit == 25

\* compute_recursion_limit
RecursionLimit ==
  LET retries == IF MaxRound >= 1 THEN MaxRound - 1 ELSE 0
      cycles  == 1 + 3 * retries + 2
  IN  cycles * 5 + 4 + 2 + 2

\* Changes to target_files can be staged; others (what pytest leaves behind, a
\* file the guard kept) cannot.
ChangedFiles == {"target", "stray"}

HasDiff == dirty # {} \/ ahead  \* get_git_diff: HEAD first, then base...HEAD

-------------------------------------------------------------------------------
\* Routing functions: the next node for the status s a node left behind.  A
\* status none of them knows goes to escalate_node.

RouteAfterSpec(s) ==
  CASE s \in {"FAILED_SYSTEM", "FAILED_B7"} -> "escalate_node"
    [] s = "retry_spec_draft"               -> "spec_draft"
    [] OTHER -> IF verifyFirst THEN "lint_node" ELSE "code_node"

\* Faulty variant: the linter is skipped.
RouteAfterCodeToTest(s) ==
  CASE s = "retry_code"     -> "code_node"
    [] s = "code_completed" -> "test_node"
    [] OTHER                -> "escalate_node"

RouteAfterCode(s) ==
  CASE s = "retry_code"     -> "code_node"
    [] s = "code_completed" -> "lint_node"
    [] OTHER                -> "escalate_node"

RouteAfterLint(s) ==
  CASE s = "lint_passed" -> "test_node"
    [] s = "retry_code"  -> "code_node"
    [] OTHER             -> "escalate_node"

RouteAfterTest(s) ==
  CASE s = "test_passed" -> "review_node"
    [] s = "retry_code"  -> "test_feedback_node"
    [] OTHER             -> "escalate_node"

\* Faulty variant: "retry_code" taken for a retry of this node.
RouteAfterTestFeedbackRetry(s) ==
  CASE s = "FAILED_SYSTEM" -> "escalate_node"
    [] s = "retry_code"    -> "test_feedback_node"
    [] OTHER               -> "code_node"

RouteAfterTestFeedback(s) ==
  IF s = "FAILED_SYSTEM" THEN "escalate_node" ELSE "code_node"

RouteAfterReview(s) ==
  CASE s = "retry_review" -> "review_node"
    [] s = "review_lgtm"  -> "done_node"
    [] s = "retry_code"   -> "code_node"
    [] OTHER              -> "escalate_node"

-------------------------------------------------------------------------------
\* Shared pieces of the node functions

\* One super-step of the graph has run; nothing is counted past the limit.
SuperStep == steps' = IF steps < RecursionLimit THEN steps + 1 ELSE steps

\* Faulty variant: off by one.
CountTimeoutOneTooMany(retryStatus) ==
  /\ llmTimeouts'   = llmTimeouts + 1
  /\ errorCategory' = "LLM_TIMEOUT"
  /\ fault'         = "LLM_TIMEOUT"
  /\ status' = IF llmTimeouts' > MaxLlmTimeouts THEN "FAILED_SYSTEM"
                                                ELSE retryStatus

\* A caught timeout: the shared counter decides between one more try and the
\* end of the run.
CountTimeout(retryStatus) ==
  /\ llmTimeouts'   = llmTimeouts + 1
  /\ errorCategory' = "LLM_TIMEOUT"
  /\ fault'         = "LLM_TIMEOUT"
  /\ status' = IF llmTimeouts' >= MaxLlmTimeouts THEN "FAILED_SYSTEM"
                                                 ELSE retryStatus

\* Any other caught exception, recorded under category c.
FailSystem(c) ==
  /\ status'        = "FAILED_SYSTEM"
  /\ errorCategory' = c
  /\ UNCHANGED llmTimeouts

\* Faulty variant: the counter is taken for not yet incremented.
RejectedByTooEarly(category, round) ==
  /\ errorCategory' = category
  /\ status' = IF round + 1 >= MaxRound THEN "FAILED_B7" ELSE "retry_code"

\* Faulty variant: status and category swapped.
RejectedBySwapped(category, round) ==
  /\ status' = category
  /\ errorCategory' = IF round >= MaxRound THEN "FAILED_B7" ELSE "retry_code"

\* A quality gate rejected the code; round is that gate's counter, already
\* incremented.
RejectedBy(category, round) ==
  /\ errorCategory' = category
  /\ status' = IF round >= MaxRound THEN "FAILED_B7" ELSE "retry_code"

-------------------------------------------------------------------------------
\* The work branch starts clean.  A resumed one may carry commits and a pull
\* request of an earlier run, and if a target file exists in it the graph
\* verifies before it edits.
Init ==
  /\ status = "running" /\ errorCategory = "none"
  /\ llmTimeouts = 0
  /\ planRound = 0 /\ lintRound = 0 /\ testRound = 0 /\ reviewRound = 0
  /\ feedback = "none" /\ testRc = "none" /\ emptyDiff = FALSE
  /\ node = "spec_draft"
  /\ dirty = {}
  /\ \E resumed \in BOOLEAN :
       /\ verifyFirst \in (IF resumed THEN BOOLEAN ELSE {FALSE})
       /\ ahead \in (IF resumed THEN BOOLEAN ELSE {FALSE})
       /\ prOpen \in (IF resumed THEN BOOLEAN ELSE {FALSE})
  /\ published = "none"
  /\ gates = {} /\ reviewer = "none" /\ fault = "none" /\ steps = 0

-------------------------------------------------------------------------------
\* spec_draft_node.  LangGraph merges the dictionary a node returns into the
\* channels, and a key the node popped is simply not written: after the pop of
\* aider_message its channel keeps the old feedback.

PlanAccepted ==
  /\ status' = "running"
  /\ UNCHANGED <<errorCategory, llmTimeouts, planRound, feedback, fault>>

PlanRejected ==
  /\ planRound' = planRound + 1
  /\ \/ /\ planRound' >= MaxPlanRounds
        /\ status' = "FAILED_B7" /\ errorCategory' = "REVIEW_REJECTED"
        /\ UNCHANGED feedback
     \/ /\ planRound' < MaxPlanRounds
        /\ status' = "retry_spec_draft" /\ feedback' = "plan"
        /\ UNCHANGED errorCategory
  /\ UNCHANGED <<llmTimeouts, fault>>

PlannerFault ==
  /\ \/ CountTimeout("retry_spec_draft")
     \/ \E c \in FaultClass \ {"LLM_TIMEOUT"} : FailSystem(c) /\ fault' = c
  /\ UNCHANGED <<planRound, feedback>>

SpecDraftNode ==
  /\ node = "spec_draft"
  /\ PlanAccepted \/ PlanRejected \/ PlannerFault
  /\ node' = RouteAfterSpec(status')
  /\ SuperStep
  /\ UNCHANGED <<lintRound, testRound, reviewRound, testRc, emptyDiff,
                 verifyFirst, worktree, remote, gates, reviewer>>

-------------------------------------------------------------------------------
\* code_node.  Whatever happens to the agent, it may have edited the worktree.
\* It is told not to run git commit (config/prompt.yaml) and taken to obey.

CodeEdited ==
  /\ status' = "code_completed"
  /\ UNCHANGED <<errorCategory, llmTimeouts, fault>>

\* Only a CoderRunError that timed out is retried; every other exception,
\* a timeout raised outside the agent included, ends the run.
CoderFault ==
  \/ CountTimeout("retry_code")
  \/ \E c \in FaultClass : FailSystem(c) /\ fault' = c

\* Faulty variant: the agent commits its edits itself.
CodeNodeCommitting ==
  /\ node = "code_node"
  /\ CodeEdited \/ CoderFault
  /\ dirty' = {} /\ ahead' = TRUE
  /\ gates' = {}
  /\ node' = RouteAfterCode(status')
  /\ SuperStep
  /\ UNCHANGED <<rounds, feedback, testRc, emptyDiff, verifyFirst, remote,
                 reviewer>>

CodeNode ==
  /\ node = "code_node"
  /\ CodeEdited \/ CoderFault
  /\ dirty' \in SUBSET ChangedFiles
  /\ gates' = {}
  /\ node' = RouteAfterCode(status')
  /\ SuperStep
  /\ UNCHANGED <<rounds, feedback, testRc, emptyDiff, verifyFirst, ahead,
                 remote, reviewer>>

-------------------------------------------------------------------------------
\* lint_node: ruff format and ruff --fix rewrite the target files first, then
\* ruff check decides.  With no Python target it passes at once.

LintPassed ==
  /\ status' = "lint_passed"
  /\ gates'  = {"lint"}
  /\ UNCHANGED <<errorCategory, lintRound, feedback, fault>>

LintFailed ==
  /\ lintRound' = lintRound + 1
  /\ feedback'  = "lint"
  /\ gates'     = {}
  /\ RejectedBy("LINT_ERROR", lintRound')
  /\ UNCHANGED fault

LintFault ==
  /\ FailSystem("SYSTEM_ERROR") /\ fault' = "SYSTEM_ERROR"
  /\ gates' = {}
  /\ UNCHANGED <<lintRound, feedback>>

LintNode ==
  /\ node = "lint_node"
  /\ LintPassed \/ LintFailed \/ LintFault
  /\ dirty' \in {dirty \ {"target"}, dirty \cup {"target"}}
  /\ node' = RouteAfterLint(status')
  /\ SuperStep
  /\ UNCHANGED <<llmTimeouts, planRound, testRound, reviewRound, testRc,
                 emptyDiff, verifyFirst, ahead, remote, reviewer>>

-------------------------------------------------------------------------------
\* run_pytest_node.  The tests may leave files behind.

TestPassed ==
  /\ status' = "test_passed" /\ testRc' = "zero"
  /\ gates'  = gates \cup {"test"}
  /\ UNCHANGED <<errorCategory, testRound, feedback, fault>>

TestFailed ==
  /\ testRound' = testRound + 1
  /\ testRc'    = "nonzero" /\ feedback' = "test"
  /\ RejectedBy("TEST_ERROR", testRound')
  /\ UNCHANGED <<gates, fault>>

TestFault ==
  /\ FailSystem("SYSTEM_ERROR") /\ fault' = "SYSTEM_ERROR"
  /\ UNCHANGED <<testRound, testRc, feedback, gates>>

RunPytestNode ==
  /\ node = "test_node"
  /\ TestPassed \/ TestFailed \/ TestFault
  /\ dirty' \in {dirty, dirty \cup {"stray"}}
  /\ node' = RouteAfterTest(status')
  /\ SuperStep
  /\ UNCHANGED <<llmTimeouts, planRound, lintRound, reviewRound, emptyDiff,
                 verifyFirst, ahead, remote, reviewer>>

-------------------------------------------------------------------------------
\* test_feedback_node: the advice replaces the raw test log, unless the adviser
\* raises, a timeout included; either way the code is edited again.
TestFeedbackNode ==
  /\ node = "test_feedback_node"
  /\ status' = IF status \in {"FAILED_B7", "FAILED_SYSTEM"} THEN status
                                                            ELSE "retry_code"
  /\ feedback' \in {feedback, "advice"}
  /\ node' = RouteAfterTestFeedback(status')
  /\ SuperStep
  /\ UNCHANGED <<errorCategory, llmTimeouts, rounds, testRc, emptyDiff,
                 verifyFirst, worktree, remote, gates, reviewer, fault>>

-------------------------------------------------------------------------------
\* review_node

\* call_llm turns an answer it cannot parse into "changes_requested" without a
\* comments key, and review_node turns "changes_requested" without comments
\* into LGTM.
ReadAsLgtm(reply) == reply \in {"LGTM", "changes_no_comments", "unparsable"}

\* verify_review_conformance: an empty diff and a failed pytest are refused
\* before JEV is asked; JEV itself may refuse, and passes when unavailable.
JevAnswers == IF HasDiff /\ testRc # "nonzero" THEN BOOLEAN ELSE {FALSE}

ReviewAccepts(reply) ==
  /\ ReadAsLgtm(reply)
  /\ TRUE \in JevAnswers
  /\ reviewRound' = reviewRound + 1
  /\ status' = "review_lgtm"
  /\ gates'  = gates \cup {"review"}
  /\ UNCHANGED <<errorCategory, llmTimeouts, feedback, fault>>

ReviewRejects(reply) ==
  /\ reply # "invalid"
  /\ ReadAsLgtm(reply) => FALSE \in JevAnswers
  /\ reviewRound' = reviewRound + 1
  /\ feedback' = "review"
  /\ RejectedBy("REVIEW_REJECTED", reviewRound')
  /\ UNCHANGED <<llmTimeouts, gates, fault>>

ReviewInvalid(reply) ==
  /\ reply = "invalid"
  /\ FailSystem("SYSTEM_ERROR") /\ fault' = "SYSTEM_ERROR"
  /\ UNCHANGED <<reviewRound, feedback, gates>>

\* Here only timeouts are told apart: any other exception is SYSTEM_ERROR.
ReviewerFault ==
  /\ \/ CountTimeout("retry_review")
     \/ \E c \in FaultClass \ {"LLM_TIMEOUT"} :
          FailSystem("SYSTEM_ERROR") /\ fault' = c
  /\ reviewer' = "none"
  /\ UNCHANGED <<reviewRound, feedback, gates>>

DiffUnavailable ==
  /\ FailSystem("SYSTEM_ERROR") /\ fault' = "SYSTEM_ERROR"
  /\ UNCHANGED <<reviewRound, feedback, gates, reviewer, emptyDiff>>

ReviewDiff ==
  /\ emptyDiff' = (emptyDiff \/ ~HasDiff)
  /\ \/ \E reply \in ReviewReply :
          /\ reviewer' = reply
          /\ \/ ReviewAccepts(reply)
             \/ ReviewRejects(reply)
             \/ ReviewInvalid(reply)
     \/ ReviewerFault

ReviewNode ==
  /\ node = "review_node"
  /\ DiffUnavailable \/ ReviewDiff
  /\ node' = RouteAfterReview(status')
  /\ SuperStep
  /\ UNCHANGED <<planRound, lintRound, testRound, testRc, verifyFirst,
                 worktree, remote>>

-------------------------------------------------------------------------------
\* done_node: stage, commit, push, open the pull request; every failure stops
\* there as PR_FAILED and keeps what was done so far.

\* Faulty variant: a failed delivery counts as one more rejection of the code.
PrFailedAsRejection == status' = "FAILED_B7" /\ errorCategory' = "PR_ERROR"

PrFailed == status' = "PR_FAILED" /\ errorCategory' = "PR_ERROR"

\* Not a git workspace, something already staged, git add or status failed, or
\* the commit failed (which it does when no target file changed).
NotCommitted ==
  /\ PrFailed
  /\ UNCHANGED <<worktree, remote>>

\* done_node takes sbos/<issue> for the work branch.  With another prefix that
\* is at best a branch left over from before the prefix was changed.
HeadBranch == IF CustomPrefix THEN "other" ELSE "work"

\* Faulty variant: completed without a push.
PublishWithoutPush ==
  \/ PrFailed /\ UNCHANGED remote
  \/ /\ status' = "COMPLETED" /\ UNCHANGED <<errorCategory, remote>>

\* fetch, push --force-with-lease, then look for the pull request or create it.
Publish ==
  \/ PrFailed /\ UNCHANGED remote
  \/ PrFailed /\ published' = HeadBranch /\ UNCHANGED prOpen
  \/ /\ status' = "COMPLETED" /\ published' = HeadBranch /\ prOpen' = TRUE
     /\ UNCHANGED errorCategory

Committed ==
  /\ "target" \in dirty
  /\ dirty' = dirty \ {"target"} /\ ahead' = TRUE
  /\ Publish

\* Nothing to commit.  If some review of this run saw an empty diff the task
\* counts as already satisfied and the work branch is deleted.
NothingToCommit ==
  /\ dirty = {}
  /\ UNCHANGED dirty
  /\ IF emptyDiff
     THEN /\ status' = "COMPLETED" /\ ahead' = FALSE
          /\ UNCHANGED <<errorCategory, remote>>
     ELSE UNCHANGED ahead /\ Publish

DoneNode ==
  /\ node = "done_node"
  /\ NotCommitted \/ Committed \/ NothingToCommit
  /\ node' = "END"
  /\ SuperStep
  /\ UNCHANGED <<llmTimeouts, rounds, feedback, testRc, emptyDiff,
                 verifyFirst, gates, reviewer, fault>>

-------------------------------------------------------------------------------
\* escalate_node: settle the failure status, then, for a lint or test failure,
\* write the failure report; if that works the run ends as escalated.

SettledStatus ==
  IF status \in {"FAILED_B7", "FAILED_SYSTEM"} THEN status
  ELSE IF errorCategory \in {"LINT_ERROR", "TEST_ERROR", "REVIEW_REJECTED"}
       THEN "FAILED_B7" ELSE "FAILED_SYSTEM"

EscalateNode ==
  /\ node = "escalate_node"
  /\ \/ status' = SettledStatus
     \/ /\ errorCategory \in {"LINT_ERROR", "TEST_ERROR"}
        /\ status' = "ESCALATED_NEEDS_REVISION"
  /\ node' = "END"
  /\ SuperStep
  /\ UNCHANGED <<errorCategory, llmTimeouts, rounds, feedback, testRc,
                 emptyDiff, verifyFirst, worktree, remote, gates, reviewer,
                 fault>>

-------------------------------------------------------------------------------
\* app.invoke has returned.
Terminated == node = "END" /\ UNCHANGED vars

Step ==
  \/ SpecDraftNode \/ CodeNode \/ LintNode \/ RunPytestNode
  \/ TestFeedbackNode \/ ReviewNode \/ DoneNode \/ EscalateNode

Next == Step \/ Terminated

Spec == Init /\ [][Next]_vars

\* The graph runs in one thread and every call a node makes has a timeout, so a
\* node that has been entered returns.
FairSpec == Spec /\ WF_vars(Step)

-------------------------------------------------------------------------------
\* Properties

\* Every variable has its type.  The counters only move by one step of one
\* node, so their bounds are properties of their own below.
TypeOK ==
  /\ status \in Status /\ errorCategory \in ErrorCategory
  /\ llmTimeouts \in Nat
  /\ planRound \in Nat /\ lintRound \in Nat
  /\ testRound \in Nat /\ reviewRound \in Nat
  /\ feedback \in {"none", "plan", "lint", "test", "advice", "review"}
  /\ testRc \in {"none", "zero", "nonzero"}
  /\ emptyDiff \in BOOLEAN
  /\ node \in Node /\ verifyFirst \in BOOLEAN
  /\ dirty \subseteq ChangedFiles /\ ahead \in BOOLEAN
  /\ published \in {"none", "work", "other"} /\ prOpen \in BOOLEAN
  /\ gates \subseteq AllGates
  /\ reviewer \in ReviewReply \cup {"none"}
  /\ fault \in FaultClass \cup {"none"}
  /\ steps \in Nat

\* compute_recursion_limit is derived by hand from the worst path through the
\* graph.  No sequence of failures, retries and timeouts gets to the limit, so
\* app.invoke never raises GraphRecursionError and no run is filed as FAILED_B7
\* for having been cut off.  (Strictly below: some LangGraph versions count the
\* entry of the graph as a step.)
RecursionLimitNotReached == steps < RecursionLimit

\* The pull request pipeline is entered only if the code as it is now, and not
\* an earlier version, passed ruff, then pytest, then the review.
DeliversVerifiedCode ==
  node = "done_node" => gates = AllGates /\ testRc = "zero"

\* A run recorded as COMPLETED left nothing behind: its commits are pushed and
\* a pull request holds them, or it was filed as already satisfied by base.
\* (With the default work_branch_prefix; IssueGraphClaims has the other case.)
CompletedMeansPublished ==
  status = "COMPLETED" /\ ~CustomPrefix =>
    \/ published = "work" /\ prOpen /\ ahead /\ "target" \notin dirty
    \/ emptyDiff /\ ~ahead /\ dirty = {}

\* done_node deletes the work branch when empty_diff_detected is set, and that
\* flag, once set, is never cleared: it must not outlive the emptiness it
\* reports.  Commits on the work branch are never thrown away by the graph.
CommitsSurvive == [][ahead => ahead']_vars

\* The failure status a run ends with tells why: FAILED_B7 that a retry budget
\* (plan, lint, test or review) is used up, ESCALATED_NEEDS_REVISION that it is
\* the lint or test budget, FAILED_SYSTEM that something was raised.  The
\* status is settled by escalate_node from an error_category other nodes left.
StatusTellsWhy ==
  /\ status = "FAILED_B7" =>
       \/ planRound >= MaxPlanRounds
       \/ lintRound >= MaxRound \/ testRound >= MaxRound
       \/ reviewRound >= MaxRound
  /\ status = "ESCALATED_NEEDS_REVISION" =>
       lintRound >= MaxRound \/ testRound >= MaxRound
  /\ status = "FAILED_SYSTEM" => fault # "none"

\* llm_timeout_count is shared by planner, coder and reviewer: the second
\* timeout of a run ends it, whichever nodes the two came from.
SecondTimeoutEndsRun ==
  llmTimeouts >= MaxLlmTimeouts =>
    /\ status = "FAILED_SYSTEM" /\ errorCategory = "LLM_TIMEOUT"
    /\ node \in {"escalate_node", "END"}

\* Nobody can loop for ever: planner, coder, linter, tests and reviewer are
\* each retried, but every run of the graph ends.
Termination == <>(node = "END")

\* The graph keeps the promise of IssueOutcome.
Outcome ==
  INSTANCE IssueOutcome WITH
    phase    <- CASE node = "END"       -> "stopped"
                  [] node = "done_node" -> "delivering"
                  [] OTHER              -> "working",
    verified <- gates,
    outcome  <- IF node = "END" THEN status ELSE "none"

KeepsPromise == Outcome!Spec
===============================================================================

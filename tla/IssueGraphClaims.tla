-------------------------- MODULE IssueGraphClaims --------------------------
(***************************************************************************)
(* What the repository says about the graph and the code does not do.      *)
(* Each property is a sentence of a document, comment or test, and TLC     *)
(* shows a run of IssueGraph that breaks it.                               *)
(***************************************************************************)
EXTENDS IssueGraph

\* DD-004 5.1: the feedback handed to the coding engine (aider_message) is what
\* later nodes, ruff, pytest and the reviewer, had to complain about.  In the
\* code the feedback on a rejected plan, meant for the planner, reaches the
\* coder as well: popping a key does not clear its LangGraph channel.
CoderFeedbackComesFromGates == node = "code_node" => feedback # "plan"

\* DD-006 3.1: an answer that is not JSON falls back to changes_requested and
\* the code is sent back.  In the code the fallback carries no comments, and
\* changes_requested without comments is corrected to LGTM.
UnparsableReviewSentBack ==
  [][ node = "review_node" /\ reviewer' = "unparsable"
        => status' # "review_lgtm" ]_vars

\* done_node: an empty diff that the reviewer approves is an already satisfied
\* task, completed without a pull request.  In the code the second gate refuses
\* every empty diff, so such a review never gets to done_node.
EmptyDiffCanBeApproved ==
  [][ node = "review_node" /\ ~HasDiff /\ reviewer' = "LGTM"
        => status' = "review_lgtm" ]_vars

\* DD-003 10.1: auth and quota failures of agy are recorded as AGY_AUTH and
\* AGY_QUOTA, for the nightly worker to stop on.  In the code review_node files
\* every failure but a timeout under SYSTEM_ERROR.
AgyFailureKeepsItsClass ==
  status = "FAILED_SYSTEM" /\ fault \in {"AGY_AUTH", "AGY_QUOTA"}
    => errorCategory = fault

\* DD-003 10.2-2: the pull request is made from the branch work_branch_prefix
\* names, no longer from a fixed sbos/<issue>.  In the code done_node still
\* takes the fixed name, so with another prefix it pushes another branch.
PublishesWorkBranch == published # "other"
=============================================================================

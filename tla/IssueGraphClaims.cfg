\* TLC stops at the first violation, so one property is checked at a time: to see
\* another one refuted, exchange the last line for one of the comments.
CONSTANTS
  MaxRound = 3
  CustomPrefix = FALSE
SPECIFICATION Spec
\* PROPERTY EmptyDiffCanBeApproved
\* INVARIANT AgyFailureKeepsItsClass
\* INVARIANT CoderFeedbackComesFromGates
PROPERTY UnparsableReviewSentBack

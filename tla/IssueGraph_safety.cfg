\* max_round as execute_issue sets it: the three retry budgets are used up in
\* every mixture, together with timeouts and plan rejections.
CONSTANTS
  MaxRound = 3
  CustomPrefix = FALSE
SPECIFICATION FairSpec
INVARIANTS
  TypeOK
  RecursionLimitNotReached
  DeliversVerifiedCode
  CompletedMeansPublished
  StatusTellsWhy
  SecondTimeoutEndsRun
PROPERTIES
  CommitsSurvive
  Termination
  KeepsPromise

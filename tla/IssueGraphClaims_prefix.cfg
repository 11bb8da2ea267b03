CONSTANTS
  MaxRound = 3
  CustomPrefix = TRUE
SPECIFICATION Spec
INVARIANT
  PublishesWorkBranch

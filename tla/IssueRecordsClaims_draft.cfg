CONSTANTS
  Issue = {1, 2}
  Initial = {1}
  FetchLimit = {2}
  Human = {"label", "commit"}
  MaxStarts = 3
SPECIFICATION Spec
INVARIANT
  RunHasSettledSpec
CHECK_DEADLOCK FALSE

CONSTANTS
  Issue = {1, 2}
  Initial = {1}
  FetchLimit = {2}
  Human = {"commit"}
  MaxStarts = 3
SPECIFICATION Spec
INVARIANT
  RunHasItsSpec
CHECK_DEADLOCK FALSE

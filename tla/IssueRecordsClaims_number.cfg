CONSTANTS
  Issue = {1, 2}
  Initial = {1, 2}
  FetchLimit = {2}
  Human = {"commit"}
  MaxStarts = 3
SPECIFICATION Spec
INVARIANT
  NumberFindsItsTask
CHECK_DEADLOCK FALSE

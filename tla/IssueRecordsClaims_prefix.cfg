CONSTANTS
  Issue = {1, 12}
  Initial = {1, 12}
  FetchLimit = {2}
  Human = {}
  MaxStarts = 2
SPECIFICATION Spec
INVARIANT
  OnlyApprovedIsReady
CHECK_DEADLOCK FALSE

CONSTANTS
  Issue = {1, 2}
  Initial = {1}
  FetchLimit = {2}
  Human = {"label"}
  MaxStarts = 3
SPECIFICATION Spec
PROPERTY
  ApprovedIsNotStale
CHECK_DEADLOCK FALSE

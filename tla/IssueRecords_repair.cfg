CONSTANTS
  Issue = {1, 12}
  Initial = {1}
  FetchLimit = {2}
  Human = {"label", "line"}
  MaxStarts = 3
SPECIFICATION FairSpec
PROPERTIES
  ApprovalArrives
CHECK_DEADLOCK FALSE

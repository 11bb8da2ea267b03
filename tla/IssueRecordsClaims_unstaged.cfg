CONSTANTS
  Issue = {1, 2}
  Initial = {1}
  FetchLimit = {2}
  Human = {"line"}
  MaxStarts = 3
SPECIFICATION Spec
INVARIANT
  PromotedIsSelectable
PROPERTY
  SyncRaises
CHECK_DEADLOCK FALSE

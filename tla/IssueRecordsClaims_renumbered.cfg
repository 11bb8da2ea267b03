CONSTANTS
  Issue = {1, 2}
  Initial = {1, 2}
  FetchLimit = {2}
  Human = {}
  MaxStarts = 3
SPECIFICATION Spec
INVARIANT
  IdNamesOneIssue
CHECK_DEADLOCK FALSE

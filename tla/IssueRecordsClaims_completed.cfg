CONSTANTS
  Issue = {1, 2}
  Initial = {1}
  FetchLimit = {2}
  Human = {"commit"}
  MaxStarts = 4
SPECIFICATION Spec
PROPERTY
  CompletedStaysCompleted
CHECK_DEADLOCK FALSE

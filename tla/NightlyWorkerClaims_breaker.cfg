CONSTANTS
  Task <- MCTask
  Score <- MCScore
  Project = {"p"}
  ProjectOf <- MCProjectOf
  Line <- MCLine
  MaxTasks = 3
  MaxFailures = 2
  MaxIterations = 2
  Mode = {"daily", "malformed", "interval"}
  Day = 3
  Slots <- MCSlots
  Interval = 1
  Posix = FALSE
  MaxTime = 4
  MaxErrors = 1
SPECIFICATION Spec
INVARIANT AgyRefusalsStopBatch
CHECK_DEADLOCK FALSE

CONSTANTS
  Task <- MCTask
  Score <- MCScore
  Project = {"p"}
  ProjectOf <- MCProjectOf
  Line <- MCLine
  MaxTasks = 2
  MaxFailures = 1
  MaxIterations = 2
  Mode = {"daily", "malformed", "interval"}
  Day = 3
  Slots <- MCSlots
  Interval = 1
  Posix = FALSE
  MaxTime = 3
  MaxErrors = 1
SPECIFICATION Spec
INVARIANTS TypeOK WakesAtNextSlot OneAgentAtATime IterationLimitHolds
PROPERTY StopEndsWorker
CHECK_DEADLOCK FALSE

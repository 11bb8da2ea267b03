CONSTANTS
  Process = {p1, p2}
  Inode = {f1, f2, f3}
  PosixUnlink = FALSE
  None = None
  Issue = {i1}
  EntryPoint = {"execute", "reset"}
  Flag = {"resume", "stash"}
  GitMayFail = TRUE
  MaxExecutions = 2
SPECIFICATION Spec
INVARIANT
  OneRunAtATime
PROPERTY
  LockIsFreed
CHECK_DEADLOCK FALSE

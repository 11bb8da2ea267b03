CONSTANTS
  Process = {p1, p2}
  Inode = {f1, f2, f3}
  PosixUnlink = TRUE
  None = None
  Issue = {i1}
  EntryPoint = {"execute", "reset"}
  Flag = {}
  GitMayFail = FALSE
  MaxExecutions = 3
SPECIFICATION Spec
INVARIANT OneRunAtATime
CHECK_DEADLOCK FALSE

CONSTANTS
  Process = {p1}
  Inode = {f1, f2, f3}
  PosixUnlink = FALSE
  None = None
  Issue = {i1}
  EntryPoint = {"run_task"}
  Flag = {"stash"}
  GitMayFail = FALSE
  MaxExecutions = 3
SPECIFICATION Spec
PROPERTY ResumedRunHasItsEdits
CHECK_DEADLOCK FALSE

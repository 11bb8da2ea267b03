CONSTANTS
  Process = {p1}
  Inode = {f1, f2, f3}
  PosixUnlink = FALSE
  None = None
  Issue = {i1}
  EntryPoint = {"run_task"}
  Flag = {"stash"}
  GitMayFail = TRUE
  MaxExecutions = 2
SPECIFICATION Spec
INVARIANT EditsSurvive
CHECK_DEADLOCK FALSE

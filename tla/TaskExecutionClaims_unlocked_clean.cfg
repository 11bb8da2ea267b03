CONSTANTS
  Process = {p1, p2}
  Inode = {f1, f2, f3}
  PosixUnlink = FALSE
  None = None
  Issue = {i1, i2}
  EntryPoint = {"run_task"}
  Flag = {}
  GitMayFail = FALSE
  MaxExecutions = 2
SPECIFICATION Spec
PROPERTY RepositoryIsExclusive
CHECK_DEADLOCK FALSE

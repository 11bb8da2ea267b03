CONSTANTS
  Process = {p1}
  Inode = {f1, f2, f3}
  PosixUnlink = FALSE
  None = None
  Issue = {i1}
  EntryPoint = {"execute"}
  Flag = {}
  GitMayFail = FALSE
  MaxExecutions = 4
SPECIFICATION Spec
PROPERTY HandedBackToHuman
CHECK_DEADLOCK FALSE

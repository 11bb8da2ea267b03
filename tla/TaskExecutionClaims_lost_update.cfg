CONSTANTS
  Process = {p1, p2}
  Inode = {f1, f2, f3}
  PosixUnlink = FALSE
  None = None
  Issue = {i1, i2}
  EntryPoint = {"execute"}
  Flag = {}
  GitMayFail = FALSE
  MaxExecutions = 2
SPECIFICATION Spec
PROPERTY OnlyOwnEntryWritten
CHECK_DEADLOCK FALSE

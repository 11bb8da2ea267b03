CONSTANTS
  Process = {p1}
  Inode = {f1}
  PosixUnlink = FALSE
  None = None
  Issue = {i1, i2}
  EntryPoint = {"execute", "run_task", "reset", "retry"}
  Flag = {"resume", "fresh", "stash", "force"}
  GitMayFail = FALSE
  MaxExecutions = 3
SPECIFICATION Spec
SYMMETRY Symmetry
INVARIANTS TypeOK EditsSurvive CountIsTrue
PROPERTY NoThirdAutomaticResume
CHECK_DEADLOCK FALSE

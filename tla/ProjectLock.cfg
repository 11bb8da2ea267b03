CONSTANTS
  Process = {p1, p2, p3, p4}
  Inode = {f1, f2, f3, f4, f5}
  PosixUnlink = FALSE
  None = None
SPECIFICATION Spec
INVARIANT MutualExclusion

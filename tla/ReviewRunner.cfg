CONSTANTS
  Satellite = {s}
  File = {a}
  Runner = {r1, r2}
  Version = {v, w}
  Theme = {1, 2}
  PromptLimit = 1
  MaxIssues = 2
  NoCommit = NoCommit
  MaxFaults = 1
SPECIFICATION Spec
SYMMETRY Alike
INVARIANTS
  TypeOK
  NothingForgotten
  DuplicatesDoNotPileUp
CHECK_DEADLOCK FALSE

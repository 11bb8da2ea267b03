\* No issue is opened: whether one is has no influence on what is looked at.
CONSTANTS
  Satellite = {s}
  File = {a, b}
  Runner = {r1}
  Version = {v, w}
  Theme = {1, 2}
  PromptLimit = 1
  MaxIssues = 0
  NoCommit = NoCommit
  MaxFaults = 1
SPECIFICATION FairSpec
PROPERTIES
  ChangesAreReviewed
CHECK_DEADLOCK FALSE

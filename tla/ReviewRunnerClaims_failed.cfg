CONSTANTS
  Satellite = {s}
  File = {a}
  Runner = {r1}
  Version = {v, w}
  Theme = {1}
  PromptLimit = 1
  MaxIssues = 0
  NoCommit = NoCommit
  MaxFaults = 1
SPECIFICATION ClaimSpec
INVARIANT RecordedMeansReviewed
CHECK_DEADLOCK FALSE

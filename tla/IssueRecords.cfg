CONSTANTS
  Issue = {1, 12}
  Initial = {1}
  FetchLimit = {2}
  Human = {"label", "line", "commit"}
  MaxStarts = 3
SPECIFICATION Spec
INVARIANTS
  TypeOK
  OneLinePerIssue
  ReadyMeansApproved
  TaskIdKeepsItsIssue
  SpecMatchesTask
  RunsWhatWasSelected
PROPERTIES
  SyncMirrors
  TickedStaysTicked
CHECK_DEADLOCK FALSE

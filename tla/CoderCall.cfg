CONSTANTS
  File = {"s", "o", "p", "n", "u", "gi"}
  InHead = {"o", "p", "gi"}
  Target = {"s"}
  Glob = {"n", "o"}
  Gitignore = "gi"
  Hideable = {"u"}
  Dirtied = {}
  Quoted = {}
  Power = {"stage", "move", "detached"}
  Platform = {"posix", "windows"}
  GitMayFail = TRUE
  Managed = {TRUE, FALSE}
  MaxCalls = 2
  MaxWrites = 2
SPECIFICATION FairSpec
INVARIANTS
  TypeOK
  NothingUnauthorizedLeft
  AgentIsOver
PROPERTIES
  PermittedWorkSurvives
  TargetsGrowByPermission
  CallEnds
CHECK_DEADLOCK FALSE

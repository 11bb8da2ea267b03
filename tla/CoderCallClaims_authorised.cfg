CONSTANTS
  File = {"t", "s", "o", "n", "u", "gi"}
  InHead = {"t", "o", "gi"}
  Target = {"t", "s"}
  Glob = {"n", "o"}
  Gitignore = "gi"
  Hideable = {"u"}
  Dirtied = {}
  Quoted = {}
  Power = {"stage"}
  Platform = {"posix"}
  GitMayFail = FALSE
  Managed = {FALSE}
  MaxCalls = 2
  MaxWrites = 2
SPECIFICATION Spec
PROPERTY OnlyPermittedAuthorised
CHECK_DEADLOCK FALSE

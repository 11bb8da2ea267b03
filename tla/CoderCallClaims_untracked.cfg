CONSTANTS
  File = {"t", "s", "o", "n", "u", "gi"}
  InHead = {"t", "o", "gi"}
  Target = {"t", "s"}
  Glob = {"n"}
  Gitignore = "gi"
  Hideable = {"u"}
  Dirtied = {}
  Quoted = {}
  Power = {"stage", "untrack"}
  Platform = {"posix"}
  GitMayFail = FALSE
  Managed = {FALSE}
  MaxCalls = 2
  MaxWrites = 2
SPECIFICATION Spec
INVARIANT TrackedFilesRestored
CHECK_DEADLOCK FALSE

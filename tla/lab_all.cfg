SPECIFICATION Spec
CONSTANTS
  p1 = p1
  p2 = p2
  None = None
  Procs <- TwoProcs
  Requests <- MCRequests
  Alone <- MCAlone
  Services <- MCServices
  Upstream <- MCUpstream
  Labs <- MCLabs
  Strangers <- MCStrangers
  FailPoints = {"update", "secrets", "forget", "sync", "erase", "fetch", "unzip", "resolve", "down", "clear", "up", "recreate", "remove"}
  Crashes = TRUE
  MaxCommands = 2
  MaxFaults = 1
INVARIANTS TypeOK Applied
PROPERTIES SettingsKept AISupportKept
SYMMETRY Symmetry
CHECK_DEADLOCK FALSE

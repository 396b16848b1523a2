SPECIFICATION Spec
CONSTANTS
  p1 = p1
  p2 = p2
  None = None
  Procs <- OneProc
  Requests <- InstallOnly
  Alone <- Nobody
  Services <- MCServices
  Upstream <- MCUpstream
  Labs <- NewLab
  Strangers <- Undisturbed
  FailPoints = {"unzip"}
  Crashes = FALSE
  MaxCommands = 3
  MaxFaults = 1
INVARIANT InstallRepairs
CHECK_DEADLOCK FALSE

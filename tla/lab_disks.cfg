SPECIFICATION Spec
CONSTANTS
  p1 = p1
  p2 = p2
  None = None
  Procs <- OneProc
  Requests <- SwitchAndNuke
  Alone <- Nobody
  Services <- MCServices
  Upstream <- MCUpstream
  Labs <- NewLab
  Strangers <- Undisturbed
  FailPoints = {"fetch"}
  Crashes = FALSE
  MaxCommands = 3
  MaxFaults = 1
INVARIANT EmptyDisks
CHECK_DEADLOCK FALSE

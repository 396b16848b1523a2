SPECIFICATION Spec
CONSTANTS
  p1 = p1
  p2 = p2
  None = None
  Procs <- TwoProcs
  Requests <- AICommands
  Alone <- Nobody
  Services <- MCServices
  Upstream <- MCUpstream
  Labs <- NewLab
  Strangers <- Undisturbed
  FailPoints = {}
  Crashes = FALSE
  MaxCommands = 3
  MaxFaults = 1
INVARIANT AISupported
CHECK_DEADLOCK FALSE

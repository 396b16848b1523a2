SPECIFICATION FairSpec
CONSTANTS
  p1 = p1
  p2 = p2
  a = a
  b = b
  q1 = q1
  q2 = q2
  Lab = Lab
  Global = Global
  None = None
  Proc <- OneProcess
  Name <- Profiles
  Project <- OneProject
  LooseMode <- NoProjects
  Requests <- AnotherActive
  CrashAt <- NoPoints
  FailAt <- NoPoints
  Updating = FALSE
PROPERTY LockReleased
CHECK_DEADLOCK FALSE

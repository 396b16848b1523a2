SPECIFICATION EverydaySpec
CONSTANTS
  p1 = p1
  p2 = p2
  a = a
  b = b
  q1 = q1
  q2 = q2
  Lab = Lab
  Global = Global
  None = None
  Proc <- Processes
  Name <- Profiles
  Project <- Projects
  LooseMode <- NoProjects
  Requests <- Everyday
  CrashAt <- CopedWith
  FailAt <- CopedWith
  Updating = FALSE
INVARIANTS SelectionNeverDangles JournalRecoverable
PROPERTY LockReleased
CHECK_DEADLOCK FALSE

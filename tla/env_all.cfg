SPECIFICATION OneNameSpec
CONSTANTS
  p1 = p1
  p2 = p2
  a = a
  b = b
  q1 = q1
  q2 = q2
  Lab = Lab
  Global = Global
  None = None
  Proc <- Processes
  Name <- OneProfile
  Project <- OneProject
  LooseMode <- NoProjects
  Requests <- OneName
  CrashAt <- Points
  FailAt <- Points
  Updating = TRUE
SYMMETRY Symmetry
INVARIANTS TypeOK TombstonesJournaled ActiveNeverDangles
PROPERTY AtomicRegistry
CHECK_DEADLOCK FALSE

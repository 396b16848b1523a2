CONSTANTS
  Topics = {"search", "incident", "doctor", "smoke", "ui", "update", "diff", "drift",
            "scan", "graph", "review", "fronts", "generate", "restore"}
  Keys = {1, 2, 3}
  SearchLimits <- WbLimits
  DefaultLimit <- WbDefaultLimit
  MaxPageSize = 2
  Servers = {"exact", "trailing", "odd"}
  MaxChurn = 1
  Commands = {c1, c2}
  MaxFailures = 1
  Keyed = {"process-instance", "element-instance"}
  Gone = Gone
  Services <- WbServices
  RequiredEndpoints = {"operate", "tasklist"}
  OtherEndpoints = {"rest"}
  Budgets <- WbBudgets
  DefaultBudget <- WbDefaultBudget
  Stall = 2
  Timeouts = {0, 2}
  Pause = 1
  ProbeTime = 1
  MaxProbes = 2
  UICommands = {1, 2, 3}
  Ports = {9090}
  MaxPids = 2
  SlowProbes = TRUE
  Askers = {a1, a2, a3}
  Installed = 1
  Channel = "release"
  TTL = 2
  MaxReleases = 2
  MaxTime = 3
  Comparisons <- WbComparisons
  Resources = {1, 2}
  KindOf <- WbKinds
  MaxDigest = 2
  Capabilities = {{}, {"decision"}}
  Repositories <- WbRepositories
  MaxSteps = 2
  Deployments <- WbDeployments
  Names = {1, 2, 3, 4}
  Candidate = {1, 2}
  Suppressing = {1}
  BuiltIn = {4}
  Inodes = {1, 2, 3, 4, 5, 6}
  Trees <- WbTrees
  Writes <- WbWrites
  ScanRequests <- WbScans
  MaxWrites = 1
  MaxDepth = 2
  Processes <- WbProcesses
  Policies <- WbPolicies
  Requests <- WbReviews
  ProjectInputs <- WbProjectInputs
  PromptSizes <- WbPromptSizes
  PromptLimit = 2
  Items = 2
  InSub = {2}
  Forcing = {TRUE, FALSE}
  Destinations <- WbDestinations
  MaxForeign = 2
  MaxMoves = 1
  WriterFaults = 3
  NoOutput = NoOutput
  Project <- WbProject
  Above <- WbAbove
  Order <- WbOrder
  Archives <- WbArchives
  Homes <- WbHomes
  HasProject = TRUE
  Secrets = {FALSE}
  MaxEntries = 7
  MaxFileBytes = 3
  MaxTotalBytes = 7
  MaxEdits = 1
  MaxRewrites = 1
  RestoreFaults = 2
  Absent = Absent
SPECIFICATION WorkbenchSpec
INVARIANTS
  WorkbenchTypes
  SearchComplete
  ReportsHonest
  WellMeansWell
  StopStops
  LatestFresh
  DiffSilentIffSame
  ExitTruthful
  ScanHonest
  PathsToldOnce
  SilentTimersReached
  QuietFinishes
  ReviewHonest
  FrontsAgree
  OriginalsKept
  AllOrNothing
  BackupRestorable
  OriginalsSaved
  PublishedTogether
  RecoveryReported
PROPERTIES
  ScannedInPlace
CHECK_DEADLOCK FALSE

SPECIFICATION RecordsSpec
CONSTANTS
  Versions = {1, 2}
  Dimensions = {"d1", "d2"}
  Objectives <- MCObjectives
  Facts <- MCFacts
  Boundaries <- MCBoundaries
  Proposals <- MCProposals
  Reports <- MCReports
  Workers = {"w1", "w2"}
  MaxClock = 3
  Calls = {1, 2}
  Keys = {"k1", "k2"}
  McpKey = "k1"
  Skills = {1, 2}
  Tags = {"t"}
  MaxCalls = 3
  MaxDeploys = 2
  MaxTasks = 2
  LateTasks = {1}
  MaxTime = 4
  MaxLosses = 1
  FailedFast = 1
  Silent = 2
  Hung = 3
  Window = 3
  MaxLog = 4
  Viewers = {v1, v2}
  MaxProcs = 2
  MaxBuffer = 1
  Asked = {"claude"}
  TerminalLimits <- SharedVisits
SYMMETRY SameViewers
VIEW Moving
CHECK_DEADLOCK FALSE
INVARIANTS WorkIsAccountable ChangesReachAgent EvidenceIsSound AppliedIsNewest ViewersAreServed
PROPERTIES CommitmentsKeepFaith OthersFieldsStay

SPECIFICATION FairSpec
CONSTANTS
  Connections = {}
  NoConnection = NoConnection
  Challenges = {}
  kReplayCacheSize = 1
  Duration = 2
  TimeModulus = 10
  MatterTimeout = 2
  MaxEvents = 3
  Inputs = {"press", "reset", "commission", "matter", "time"}
  Failures <- OwnershipFailures
INVARIANTS FlagsAreCurrent ClaimSurvives
PROPERTIES ClaimReachesNvs WindowEnds

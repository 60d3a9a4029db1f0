SPECIFICATION FairSpec
CONSTANTS
  Connections = {}
  NoConnection = NoConnection
  Challenges = {}
  kReplayCacheSize = 1
  Duration = 2
  TimeModulus = 16
  MatterTimeout = 2
  MaxEvents = 3
  Inputs = {"reset", "commission", "matter"}
  Failures = {}
PROPERTIES ResetErasesClaim

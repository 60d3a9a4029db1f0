SPECIFICATION Spec
CONSTANTS
  Connections = {c1}
  NoConnection = NoConnection
  Challenges = {x}
  kReplayCacheSize = 1
  Duration = 2
  TimeModulus = 16
  MatterTimeout = 2
  MaxEvents = 3
  Inputs = {"press", "time"}
  Failures = {}
INVARIANT ExpiryClearsProof

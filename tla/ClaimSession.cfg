SPECIFICATION Spec
CONSTANTS
  Connections = {c1, c2}
  NoConnection = NoConnection
  Challenges = {x, y}
  kReplayCacheSize = 1
  Duration = 2
  TimeModulus = 16
  MatterTimeout = 2
  MaxEvents = 3
  Inputs = {"press", "matter", "ble", "time"}
  Failures <- SessionFailures
INVARIANTS NonceOnOfferIsFresh NoOrphanWindow ProofHasSession
PROPERTIES ProofComputedInWindow

SPECIFICATION Spec
CONSTANTS
  kQueueDepth = 2
  MatterEnabled = FALSE
  Failures <- StoreFailures
INVARIANTS RebootRestoresState OutputsFollowState
CHECK_DEADLOCK FALSE

SPECIFICATION FairSpec
CONSTANTS
  kQueueDepth = 1
  MatterEnabled = TRUE
  Failures <- ReportFailures
INVARIANTS TypeOK OneReportInFlight ControllerAgrees
PROPERTY Converges
CHECK_DEADLOCK FALSE

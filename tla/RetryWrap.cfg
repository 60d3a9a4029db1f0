SPECIFICATION NetSpec
CONSTANTS
  TimeModulus = 16
  PollGaps = {1}
  kDelays <- TwoDelays
  MaxAttempts = 2
  kNetworkLinkCapacity = 1
  NoObserver = NoObserver
INVARIANT RetriedInTime

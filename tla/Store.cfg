SPECIFICATION HistoryFairSpec
CONSTANTS
  Failures <- AllFailures
  MaxAhead = 3
INVARIANT SettledIsDurable
PROPERTIES EventuallyDurable RegisterSpec

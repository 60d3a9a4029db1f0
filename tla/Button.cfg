SPECIFICATION FairSpec
CONSTANTS
  debounce_ms = 2
  short_press_max_ms = 3
  commissioning_press_min_ms = 9
  factory_reset_press_min_ms = 15
  TimeModulus = 48
  kQueueDepth = 2
  kPollMs = 1
  MaxLag = 1
  MinDwell = 7
  MaxHold = 21
INVARIANTS NoLostWakeup DetectedInTime
PROPERTIES GestureMatchesHold EventuallyDetected

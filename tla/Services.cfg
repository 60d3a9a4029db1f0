SPECIFICATION ServicesSpec
CONSTANTS
  Keys = {k1, k2}
  Values = {v1, v2}
  Unused = Unused
  kConfigRecordCapacity = 1
  MaxSequence = 4
  Failures <- AllFailures
  TimeModulus = 8
  PollGaps = {1, 2}
  kDelays <- TwoDelays
  MaxAttempts = 2
  kNetworkLinkCapacity = 2
  NoObserver = NoObserver
  kResync = 2
  kStaleAfter = 4
  Sources = {s1, s2, s3}
  Deadline <- SameDeadline
  Mandatory = {s1, s2}
  kHealthSourceCapacity = 3
  kRebootInterval = 4
  WatchdogTimeout = 4
  kIndicationSourceCount = 2
  Frames = {f1, f2}
  Dark = Dark
  Durations = {0, 1, 3}
  NotApplied = NotApplied
  Blocks = {b1, b2}
  kOtaChunk = 2
  Manifests <- SmallManifests
  NoManifest = NoManifest
  Commands = {c1, c2, c3}
  NoCommand = NoCommand
  TableSize = 2
  Credentials = {w1, w2}
  Wiped = Wiped
  NoRecord = NoRecord
  kCredentialsSize = 1
  kConfigValueCapacity = 1
  kPortalTimeout = 3
  MaxFailures = 3
  Topics = {t1, t2}
  Sinks = {q1, q2}
  NoSink = NoSink
  SubscribersPerTopic = 2
  QueueCapacity = 2
  MaxEvents = 4
  kCliPeriod = 1
  kSensorPeriod = 2
  kTelemetryPeriod = 4
  kCommandCapacity = 3
  MaxLine = 5
  Characters = {"quote", "backslash", "colon", "blank", "id", "name"}
  FirstKey = "id"
  SecondKey = "name"
  FirstLength = 4
  SecondLength = 1
  TextCapacity = 22
  MaxU32 = 127
  MaxDigits = 3
  NoValue = NoValue
  ByteModulus = 3
  MaximumPayload = 3
  NoFrame = NoFrame
  Depth = 2
  kIdempotencyWindow = 2
  kCommandHandlerCapacity = 1
  Ids = {i1, i2, i3}
  Names = {n1}
  HandlerStatuses = {"ok"}
  MaxTelemetry = 3
  Blank = Blank
SYMMETRY Symmetry
INVARIANTS
  CommitIsAtomic
  NoLinkStarves
  FedOnlyIfAlive RebootsAreSpaced
  TopRequestIsShown
  OnlyVerifiedBoots NoSessionLeaks
  LatestRoleDecides
  CredentialsAreWiped ProvisionedIsStored
  EventsOnceInOrder
  LoopKeepsItsLimits
  NothingVanishes
  JsonRoundTrip
  FrameRoundTrip
PROPERTIES TimeIsKept HandledOnce FifoSpec

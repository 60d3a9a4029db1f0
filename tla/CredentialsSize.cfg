SPECIFICATION ProvSpec
CONSTANTS
  TimeModulus = 16
  PollGaps = {1}
  Credentials = {w1}
  Wiped = Wiped
  NoRecord = NoRecord
  kCredentialsSize = 130
  kConfigValueCapacity = 64
  kPortalTimeout = 6
  MaxFailures = 3
INVARIANT FailedMeansInvalid

SPECIFICATION FairSpec
CONSTANTS
  Threads = {t1}
  Inputs <- MCTwoInputs
  Durations <- MCDurations
  Skews <- MCNoSkew
  Modes <- MCModes
  HoldModes <- MCHoldModes
  Full = 2
  MidStick = 1
  Deadzone = 1
  DedupBand = 1
  CommandTimeout = 1
  FutureLimit = 1
  CenterRate = 1
  RateLimit = 1
  MaxTime = 7
  LastInput = 4
  MaxWire = 1
INVARIANTS
  FailsafeOnlyAfterExpiry
  NeutralUntilFirstCommand
  StickCentredInTime
PROPERTIES
  SlewBounded
  FailsafeSettles
CHECK_DEADLOCK FALSE

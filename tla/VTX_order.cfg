SPECIFICATION Spec
CONSTANTS
  Threads = {t1, t2}
  Inputs <- MCOneInput
  Durations <- MCOneDuration
  Skews <- MCBehind
  Modes <- MCOneMode
  HoldModes <- MCHoldModes
  Full = 1
  MidStick = 1
  Deadzone = 1
  DedupBand = 1
  CommandTimeout = 1
  FutureLimit = 1
  CenterRate = 1
  RateLimit = 1
  MaxTime = 4
  LastInput = 4
  MaxWire = 2
INVARIANTS
  ReleasedWhileDisabled
  NewestCommandInForce
PROPERTIES
  ImplementsContract
CHECK_DEADLOCK FALSE

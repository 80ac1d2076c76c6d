SPECIFICATION FairSpec
CONSTANTS
  Threads = {t1, t2}
  NoThread = NoThread
  Modes <- MCModes
  RadioModes <- MCManual
  ManualModes <- MCManual
  Radios <- MCNoRadio
  WebRequests <- MCWeb
  MaxEvents = 3
INVARIANTS
  ArmsOnlyPrimed
  OneArmingPerRequest
PROPERTIES
  EveryRequestAnswered
CHECK_DEADLOCK FALSE

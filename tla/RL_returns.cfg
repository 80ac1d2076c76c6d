SPECIFICATION FairSpec
CONSTANTS
  Conns = {c1, c2}
  NoConn = NoConn
  Switches <- MCDown
  Period = 2
  LinkLoss = 2
  StallLimit = 3
  Reconnect = 1
  MaxBackoff = 2
  PostTimeout = 1
  Hold = 1
  CommandTimeout = 1
  MaxPosted = 1
  MaxFaults = 2
PROPERTIES
  HeardAgain
CHECK_DEADLOCK FALSE

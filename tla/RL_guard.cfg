SPECIFICATION Spec
CONSTANTS
  Conns = {c1, c2}
  NoConn = NoConn
  Switches <- MCBoth
  Period = 1
  LinkLoss = 1
  StallLimit = 2
  Reconnect = 1
  MaxBackoff = 1
  PostTimeout = 1
  Hold = 1
  CommandTimeout = 2
  MaxPosted = 1
  MaxFaults = 0
SYMMETRY MCSymmetry
INVARIANTS
  CommandsAreFresh
CHECK_DEADLOCK FALSE

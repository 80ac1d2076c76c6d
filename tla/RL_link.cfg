SPECIFICATION Spec
CONSTANTS
  Conns = {c1, c2}
  NoConn = NoConn
  Switches <- MCUp
  Period = 2
  LinkLoss = 2
  StallLimit = 3
  Reconnect = 1
  MaxBackoff = 2
  PostTimeout = 1
  Hold = 1
  CommandTimeout = 1
  MaxPosted = 2
  MaxFaults = 1
SYMMETRY MCSymmetry
INVARIANTS
  StaleOnlyFromSnapshot
  FollowsRecent
  NoLimbo
CHECK_DEADLOCK FALSE

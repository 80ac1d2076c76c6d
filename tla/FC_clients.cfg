SPECIFICATION FairSpec
CONSTANTS
  Threads = {t1, t2}
  NoThread = NoThread
  Plans <- MCPlans
  Tiers <- MCTiers
  Bits <- MCBits
  Exposed <- MCExposed
  Masks <- MCMasks
  Volts <- MCVolts
  Offered <- MCCalling
  MaxWrites = 1
  MaxReboots = 1
  MaxLate = 1
  MaxRebuilds = 1
PROPERTIES
  StaleClientsReplaced
  RequestsAnswered
CHECK_DEADLOCK FALSE

SPECIFICATION Spec
CONSTANTS
  Threads = {t1, t2}
  NoThread = NoThread
  Plans <- MCPlans
  Tiers <- MCTiers
  Bits <- MCBits
  Exposed <- MCExposed
  Masks <- MCMasks
  Volts <- MCVolts
  Offered <- MCWriting
  MaxWrites = 2
  MaxReboots = 1
  MaxLate = 1
  MaxRebuilds = 1
SYMMETRY MCSymmetry
INVARIANTS
  FliesWhatItUploaded
  TiersOrderedOrReported
PROPERTIES
  OptionsKeepTheRest
CHECK_DEADLOCK FALSE

SPECIFICATION FairSpec
CONSTANTS
  MaxPayload = 2
  MaxLine = 3
  PayloadBytes <- MCPayloadBytes
  LineLength = 1
  Handlers = {h1, h2, h3}
  QueueMax = 2
  Capacity = 2
  Directions <- MCDirections
INVARIANTS
  TypeOK
  StaysInStep
  SkipIsBounded
  NoneDroppedForNothing
PROPERTIES
  FramesLeave
CHECK_DEADLOCK FALSE

SPECIFICATION FairSpec
CONSTANTS
  Viewers = {v1}
  Stream = stream
  Sources <- MCSources
  Operators = {o1, o2}
  GiveUpAt <- MCGiveUpAt
  Predicted = 1
  Scenarios <- MCScenarios
INVARIANTS
  OwnFramesOnly
  FoundWhenClear
PROPERTIES
  ViewersAnswered
  CameraReadAgain
  RequestsTakeEffect
  LostIsGivenUp
CHECK_DEADLOCK FALSE

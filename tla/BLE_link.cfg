SPECIFICATION FairSpec
CONSTANTS
  MaxSessions = 2
  MaxRequests = 1
  MaxFragments = 2
  Notifications = 2
  MaxFaults = 1
INVARIANTS
  RequestsAreWhole
PROPERTIES
  AnswersInOnePiece
  HearsFromTheStart
  FoundAgain
  RequestsFinish

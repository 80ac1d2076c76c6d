SPECIFICATION Spec
CONSTANTS
  k1 = k1
  k2 = k2
  k3 = k3
  k4 = k4
  Tasks <- MCTasks
  Boxes = {b1, b2}
  NoBox = NoBox
  DebounceFrames = 2
  EngageGate = 1
  EscapeTimeout = 1
  MaxTime = 2
  Scenarios <- MCScenarios
SYMMETRY MCSymmetry
INVARIANTS
  CodeSurvivesDrift
  RoutersFollowSelection
PROPERTIES
  EngageOnlyHeld
  OnePressOneAction

----------------------------- MODULE MC_VisionLock -----------------------------
(* A small instance of the vision-lock state machine for TLC.              *)
EXTENDS VisionLock, TLC

CONSTANTS k1, k2, k3, k4

MCTasks == {k1, k2, k3, k4}

(* Buttons with the radio's largest drifts, for which two tasks are enough;*)
(* or switches of the source, two of which need four tasks at once.        *)
MCScenarios ==
  { \* SRC_FRONT, VISION_BOX, ENGAGE, CANCEL_LOCK, ESCAPE, reserved
    [codes |-> {1, 4, 5, 8, 9, 10}, drifts |-> {-33, 24},
     tasks |-> {k1, k2}, fail |-> FALSE],
    \* SRC_FRONT, SRC_GROUND, ESCAPE, reserved
    [codes |-> {1, 2, 9, 10}, drifts |-> {0}, tasks |-> MCTasks, fail |-> TRUE] }

MCSymmetry == Permutations(MCTasks) \cup Permutations(Boxes)
===============================================================================

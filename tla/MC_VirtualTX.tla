----------------------------- MODULE MC_VirtualTX -----------------------------
(* Small instances of the virtual transmitter for TLC.                     *)
EXTENDS VirtualTX

\* one full deflection each way; -3 is clamped
MCTwoInputs == {[stick |-> 2, throttle |-> 2], [stick |-> -3, throttle |-> 0]}

MCOneInput == {[stick |-> 2, throttle |-> 2]}

MCModes == {"STABILIZE", "LOITER"}
MCHoldModes == {"LOITER"}
MCOneMode == {"LOITER"}

MCDurations == {0, 1}
MCOneDuration == {1}

MCNoSkew == {0}
MCBehind == {-1, 0}
===============================================================================

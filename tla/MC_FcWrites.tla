------------------------------ MODULE MC_FcWrites ------------------------------
(* Small instances of the flight-controller writes for TLC.                *)
EXTENDS FcWrites, TLC

MCTiers == {[low |-> 0, crit |-> 2], [low |-> 2, crit |-> 0], [low |-> 2, crit |-> 2]}
MCBits == {"shown", "hidden"}
MCExposed == {"shown"}
MCMasks == {{}}
MCVolts == {2}
MCPlans == {"survey", "return"}

\* all writes, with one kind of the other requests
MCWriting == {"mission", "clear", "param", "tier", "options", "battery", "defaults", "reboot",
              "reconnect", "read"}

\* requests of one call and of four, and what makes clients anew
MCCalling == {"mission", "reboot", "reconnect", "polygon", "calibrate"}

MCSymmetry == Permutations(Threads)
================================================================================

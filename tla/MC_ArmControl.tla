----------------------------- MODULE MC_ArmControl -----------------------------
(* Small instances of arming for TLC.                                      *)
EXTENDS ArmControl

MCModes == {"LOITER", "AUTO"}
MCManual == {"LOITER"}

MCNoRadio == {FALSE}

\* what may interfere with the switch of the radio
MCWeb == {"AUTO", "disable", "calibrate", "command"}
===============================================================================

---------------------------- MODULE MC_DetectorLock ----------------------------
(* A small instance of the camera, the router and the detector for TLC.    *)
EXTENDS DetectorLock

MCSources == {"front", "vision"}

MCGiveUpAt == [class |-> 2, drawn |-> 3]

MCScenarios == {{"viewers"}, {"locks"}}
================================================================================

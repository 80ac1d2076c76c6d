---------------------------- MODULE MC_ElrsService ----------------------------
(* Small instances of the ELRS serial service for TLC.                     *)
EXTENDS ElrsService

\* both magic bytes and '#'
MCPayloadBytes == {254, 202, 35}

MCDirections == {{"in"}, {"out"}}
===============================================================================

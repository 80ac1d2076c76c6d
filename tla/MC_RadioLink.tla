----------------------------- MODULE MC_RadioLink -----------------------------
(* Small instances of the radio link for TLC.                              *)
EXTENDS RadioLink, TLC

\* the arm switch is up, down (no command is sent), or moves
MCUp == {TRUE}
MCDown == {FALSE}
MCBoth == {TRUE, FALSE}

MCSymmetry == Permutations(Conns)
===============================================================================

--------------------------- MODULE FailsafeContract ---------------------------
(***************************************************************************)
(* What the virtual transmitter promises to the flight controller and to   *)
(* the operator, without saying how: the override topic carries a stick    *)
(* position only between an enable and the next disable, commands take     *)
(* effect in the order of their timestamps, and the failsafe is entered    *)
(* only from a command that was being followed and left only by a command  *)
(* that is not older, or by a disable.                                     *)
(***************************************************************************)
EXTENDS Naturals

VARIABLES
  phase,   (* "off", "ready" (no command yet), "following" or "failsafe"   *)
  newest,  (* ordering timestamp of the command in force, 0 for none       *)
  topic    (* last message on the override topic                           *)

vars == << phase, newest, topic >>

Init ==
  /\ phase = "off"
  /\ newest = 0
  /\ topic = "none"

Enable ==
  /\ phase = "off"
  /\ phase' = "ready"
  /\ newest' = 0
  /\ UNCHANGED topic

Disable ==
  /\ phase # "off"
  /\ phase' = "off"
  /\ topic' = "release"
  /\ UNCHANGED newest

Accept ==
  /\ phase # "off"
  /\ newest' \in Nat
  /\ newest' >= newest
  /\ phase' = "following"
  /\ UNCHANGED topic

Publish ==
  /\ phase # "off"
  /\ topic' = "override"
  /\ \/ UNCHANGED phase
     \/ phase = "following" /\ phase' = "failsafe"
  /\ UNCHANGED newest

Next == Enable \/ Disable \/ Accept \/ Publish

Spec == Init /\ [][Next]_vars

===============================================================================

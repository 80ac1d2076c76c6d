------------------------------ MODULE DetectorLock ------------------------------
(***************************************************************************)
(* The detector of vision-detect (detector.py): the loop that takes the    *)
(* newest frame, then the newest lock request from a slot of one, then     *)
(* looks for its target in the frame and publishes what /state shows; and  *)
(* the engage and cancel endpoints of drone-control, HTTP threads that     *)
(* fill the slot.                                                          *)
(*                                                                         *)
(* What a picture shows is chosen frame by frame; the image arithmetic is  *)
(* left out.  A class lock follows the network's detections; a lock on a   *)
(* drawn box follows a correlation filter (KCF) that learns from every     *)
(* frame, the wrong ones included.  A candidate that passes the size,      *)
(* colour and template gates is taken for the object of the last good      *)
(* picture.  A filter that is built anew may fail to be, which the code    *)
(* passes over: what is left is the one before or one that was never       *)
(* initialised, "unbuilt" here.                                            *)
(***************************************************************************)
EXTENDS VideoFeed

CONSTANTS
  Operators,  (* HTTP threads of /vision/engage and /vision/cancel-lock    *)
  GiveUpAt,   (* lost frames after which a lock of each kind is dropped:   *)
              (* 300 for "class", 1500 for "drawn" in the code             *)
  Predicted,  (* lost frames a predicted box is shown for, 10              *)
  Scenarios   (* whether a behaviour has viewers and camera faults, locks, *)
              (* or both                                                   *)

ASSUME LockConstantsOK ==
  /\ GiveUpAt \in [{"class", "drawn"} -> Nat \ {0}]
  /\ Predicted \in Nat /\ Predicted <= GiveUpAt["class"]
  /\ Scenarios \subseteq SUBSET {"viewers", "locks"}

VARIABLES
  asking,   (* the operators' threads                                      *)
  slot,     (* _lock_req                                                   *)
  wanted,   (* history: the newest request, until it is in effect          *)
  loop,     (* the loop: waiting for a frame, busy with one, or ended      *)
  target,   (* its Target, and - history - whose request made it           *)
  clear,    (* history: frames in a row, 0..2, with the target in reach,   *)
            (* since a filter was last left unbuilt                        *)
  shown,    (* what /state shows                                           *)
  scenario  (* what there is in this behaviour                             *)

lockVars == << asking, slot, wanted, loop, target, clear, shown >>
vars == << feedVars, lockVars, scenario >>

NoRequest == "none"
NoLock == [kind |-> NoRequest]
NoTarget == [kind |-> "none"]

Init ==
  /\ FeedInit
  /\ scenario \in Scenarios
  /\ asking = [o \in Operators |-> NoRequest]
  /\ slot = NoLock /\ wanted = NoLock
  /\ loop = "wait"
  /\ target = NoTarget /\ clear = 0
  /\ shown = [seen |-> FALSE, tracking |-> FALSE, lost |-> FALSE, box |-> "none"]

-----------------------------------------------------------------------------
(* Requests *)

(* The endpoints run in worker threads: a step of one waits for nothing.   *)
Request(o, from, to) ==
  /\ "locks" \in scenario
  /\ asking[o] \in from
  /\ asking' = [asking EXCEPT ![o] = to]
  /\ UNCHANGED << feedVars, loop, target, clear, shown, scenario >>

(* /vision/engage reads /state first: a detection that overlaps the box    *)
(* becomes a class lock, the box itself a drawn lock; before the first     *)
(* frame has been published there is neither.                              *)
Engage(o) ==
  /\ shown.seen
  /\ \E kind \in {"class", "drawn"} : Request(o, {NoRequest}, kind)
  /\ UNCHANGED << slot, wanted >>

CancelLock(o) == Request(o, {NoRequest}, "unlock") /\ UNCHANGED << slot, wanted >>

(* POST /lock reaches the detector, whether or not its answer comes back   *)
(* in time.                                                                *)
Deliver(o) ==
  /\ Request(o, {"class", "drawn", "unlock"}, NoRequest)
  /\ slot' = [kind |-> asking[o], by |-> o]
  /\ wanted' = slot'

Undelivered(o) ==
  Request(o, {"class", "drawn", "unlock"}, NoRequest) /\ UNCHANGED << slot, wanted >>

-----------------------------------------------------------------------------
(* The loop *)

NewTarget(req) ==
  {[kind |-> req.kind, by |-> req.by, kcf |-> k, drift |-> 0, lost |-> 0] :
     k \in IF req.kind = "drawn" THEN {"clean", "none"} ELSE {"none"}}

\* Mutant: a lock request does not replace a target.
Requested_Keeps(req) ==
  CASE req.kind = NoRequest           -> {target}
    [] req.kind = "unlock"            -> {NoTarget}
    [] req.kind \in {"class", "drawn"} -> IF target = NoTarget THEN NewTarget(req)
                                         ELSE {target}

(* The targets a request can lead to; the filter's creation may fail.      *)
Requested(req) ==
  CASE req.kind = NoRequest           -> {target}
    [] req.kind = "unlock"            -> {NoTarget}
    [] req.kind \in {"class", "drawn"} -> NewTarget(req)

(* An unlock leaves no target, a lock one of its kind that it has made.    *)
InEffect(req, t) ==
  CASE req.kind = NoRequest           -> TRUE
    [] req.kind = "unlock"            -> t = NoTarget
    [] req.kind \in {"class", "drawn"} ->
         t # NoTarget /\ t.kind = req.kind /\ t.by = req.by

(* A frame is there: it is taken, and then the request, if there is one.   *)
Take ==
  /\ loop = "wait"
  /\ pending
  /\ loop' = "busy"
  /\ pending' = FALSE
  /\ target' \in Requested(slot)
  /\ clear' = IF slot = NoLock THEN clear ELSE 0
  /\ slot' = NoLock
  /\ wanted' = IF InEffect(wanted, target') THEN NoLock ELSE wanted
  /\ UNCHANGED << up, camera, gatewayVars, picture, asking, shown, scenario >>

TooLong(t) == t.lost > GiveUpAt[IF t.kcf = "none" THEN "class" ELSE "drawn"]

\* Mutant: the count stops instead.
GivenUp_Kept(t) == [t EXCEPT !.lost = @ - 1]

GivenUp(t) == NoTarget

(* update_lost, and the end of a lock that has been lost for too long; one *)
(* without a filter is given up as early as a class lock.                  *)
Missed(t) ==
  LET l == [t EXCEPT !.lost = @ + 1]
  IN IF TooLong(l) THEN GivenUp(l) ELSE l

(* update_found with a detection                                           *)
Matched(t) == [t EXCEPT !.lost = 0]

\* Mutant: the filter is not rewound.
Rewound_Never(t) == {[t EXCEPT !.kcf = "spoiled"]}

(* _rewind_kcf: the filter of the last good picture, if it can be built.   *)
Rewound(t) == {[t EXCEPT !.kcf = k] : k \in {"clean", "unbuilt"}}

(* tracker_update on a frame that fails a gate: the filter has learnt from *)
(* it, and is rewound from the second one in a row on.                     *)
Drifted(t) ==
  IF t.drift = 0 THEN {[t EXCEPT !.drift = 1, !.kcf = "spoiled"]}
  ELSE Rewound([t EXCEPT !.drift = 2])

(* ... and on one that passes them                                         *)
Held(t) == [t EXCEPT !.drift = 0, !.lost = 0, !.kcf = "clean"]

(* A clean filter holds a target in its reach; another may.                *)
MayHold(t, inReach) == inReach
MayDrift(t, inReach) == ~ inReach \/ t.kcf # "clean"

(* The detection that scores best, of the target or of an object like it,  *)
(* if one does: near the predicted place or far from it.                   *)
Detections == {"none", "near", "far"}

(* After the filter has drifted: a detection near the predicted place      *)
(* takes over, if the target was lost before this frame, with a filter of  *)
(* its own, if that can be built.                                          *)
Recovered(t) == {[Matched(t) EXCEPT !.kcf = k] : k \in {"clean", "unbuilt"}}

(* What one frame, with the best detection in it, makes of a target.       *)
Tracked(t, inReach, best) ==
  CASE t = NoTarget -> {NoTarget}
    [] t # NoTarget /\ t.kcf = "none" ->
         {IF best = "none" THEN Missed(t) ELSE Matched(t)}
    [] t # NoTarget /\ t.kcf # "none" ->
         (IF MayHold(t, inReach) THEN {Held(t)} ELSE {})
           \cup (IF MayDrift(t, inReach)
                 THEN UNION {IF d.lost > 0 /\ best = "near" THEN Recovered(d)
                             ELSE {Missed(d)} : d \in Drifted(t)}
                 ELSE {})

(* The box: where the target was found, or - for a target without a filter *)
(* and for a while - where it is predicted.                                *)
BoxOf(t) ==
  CASE t = NoTarget                                                     -> "none"
    [] t # NoTarget /\ t.lost = 0                                       -> "found"
    [] t # NoTarget /\ t.lost > 0 /\ t.kcf = "none" /\ t.lost <= Predicted -> "predicted"
    [] OTHER                                                            -> "none"

(* A drawn lock that is dropped with a detection too far away is shown as  *)
(* lost for one frame more.                                                *)
ShownLost(before, after, best) ==
  IF after = NoTarget
  THEN before # NoTarget /\ before.kcf # "none" /\ before.lost > 0 /\ best # "none"
  ELSE after.lost > 0

(* The picture is encoded while somebody asks for it, and the last one     *)
(* stays.                                                                  *)
Encoded == IF picture = "none" THEN "none" ELSE "there"

(* The count starts again with a filter that could not be built.           *)
ClearNow(inReach, t) ==
  CASE ~ inReach \/ (t # NoTarget /\ t.kcf = "unbuilt") -> 0
    [] OTHER -> IF clear = 2 THEN 2 ELSE clear + 1

Publish ==
  /\ loop = "busy"
  /\ loop' = "wait"
  /\ \E inReach \in BOOLEAN, best \in Detections :
       /\ target' \in Tracked(target, inReach, best)
       /\ clear' = ClearNow(inReach, target')
       /\ shown' = [seen |-> TRUE, tracking |-> target' # NoTarget,
                    lost |-> ShownLost(target, target', best), box |-> BoxOf(target')]
  /\ picture' = Encoded
  /\ UNCHANGED << up, camera, gatewayVars, pending, asking, slot, wanted,
                  scenario >>

(* A filter that was never initialised may raise when it is used, which    *)
(* ends the thread: nothing is taken or published from then on.            *)
LoopEnds ==
  /\ loop = "busy" /\ target # NoTarget /\ target.kcf = "unbuilt"
  /\ loop' = "ended"
  /\ UNCHANGED << feedVars, asking, slot, wanted, target, clear, shown, scenario >>

-----------------------------------------------------------------------------
(* The whole chain *)

LoopStep == Take \/ Publish

OperatorStep(o) == Engage(o) \/ CancelLock(o) \/ Deliver(o) \/ Undelivered(o)

Feed(action) == action /\ UNCHANGED << lockVars, scenario >>

Next ==
  \/ Feed(FeedNext)
  \/ "viewers" \in scenario /\ Feed(Watching \/ CameraFaults)
  \/ \E o \in Operators : OperatorStep(o)
  \/ LoopStep
  \/ LoopEnds

Spec == Init /\ [][Next]_vars

(***************************************************************************)
(* The threads run on; a handler that is ready when the stream lets go of  *)
(* the event loop is served before the stream's next turn (asyncio's queue *)
(* is first come, first served).  Nothing is assumed of the camera, the    *)
(* network, the answers of the detector, or operators.                     *)
(***************************************************************************)
Fairness ==
  /\ WF_vars(Feed(CameraStep))
  /\ \A r \in Readers : WF_vars(Feed(ReaderStep(r))) /\ SF_vars(Feed(Reply(r)))
  /\ WF_vars(LoopStep)

FairSpec == Spec /\ Fairness

-----------------------------------------------------------------------------
(* Properties *)

Targets ==
  {NoTarget} \cup
  [kind : {"class", "drawn"}, by : Operators,
   kcf : {"none", "clean", "spoiled", "unbuilt"}, drift : 0..2,
   lost : 0..(GiveUpAt["class"] + GiveUpAt["drawn"] + 1)]

Requests ==
  {NoLock} \cup [kind : {"class", "drawn", "unlock"}, by : Operators]

(* Every variable keeps its type, and no lock is lost for longer than it   *)
(* may be.                                                                 *)
TypeOK ==
  /\ FeedTypeOK
  /\ scenario \in Scenarios
  /\ asking \in [Operators -> {NoRequest, "class", "drawn", "unlock"}]
  /\ slot \in Requests /\ wanted \in Requests
  /\ loop \in {"wait", "busy", "ended"}
  /\ target \in Targets
  /\ target # NoTarget => ~ TooLong(target)
  /\ clear \in 0..2
  /\ shown \in [seen : BOOLEAN, tracking : BOOLEAN, lost : BOOLEAN,
                box : {"none", "found", "predicted"}]

(* While frames come, the newest request answered ok takes effect: posted  *)
(* while the loop is busy, or on top of another, it is not lost between    *)
(* the slot and the target, and the target becomes the one it asked for.   *)
RequestsTakeEffect ==
  []<>pending => (wanted # NoLock ~> wanted = NoLock \/ loop = "ended")

(* However long its target was hidden, a drawn lock has it again with the  *)
(* second frame that shows it where it was, if the filter could be built:  *)
(* it never stays spoiled by what hid the target.                          *)
FoundWhenClear ==
  loop = "wait" /\ clear = 2 /\ target # NoTarget /\ target.kcf # "none" =>
    target.lost = 0

(* While frames come and the loop runs, a lost target is found or given up.*)
LostIsGivenUp ==
  []<>pending =>
    (target # NoTarget /\ target.lost > 0 ~>
       target = NoTarget \/ target.lost = 0 \/ loop = "ended")
================================================================================

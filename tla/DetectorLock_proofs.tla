--------------------------- MODULE DetectorLock_proofs ---------------------------
(***************************************************************************)
(* Proofs about the chain from a camera to the detector's lock, for any    *)
(* readers, sources, operators and limits: types, frames that never change *)
(* source, and a filter that finds its target again.                       *)
(***************************************************************************)
EXTENDS DetectorLock, TLAPS

-----------------------------------------------------------------------------
(* The feed *)

Reading ==
  [at : {"idle", "fetch", "cache", "reply"}, name : Frames, frame : Frames]

(* A reader that is under way has a source, and no frame but that one's;   *)
(* a kept frame is one of the source it is kept for.                       *)
ReadsOwn(me) ==
  /\ me.at # "idle" => me.name \in Sources
  /\ me.frame \in {me.name, Nothing}

FeedInv ==
  /\ FeedTypeOK
  /\ \A r \in Readers : ReadsOwn(reader[r])
  /\ \A s \in Sources : lastGood[s] \in {s, Nothing}

LEMMA NamesOfSources == "front" \in Sources /\ Nothing \notin Sources
BY FeedConstantsOK DEF Nothing

(* Initially nobody reads and nothing is kept.                             *)
LEMMA FeedStarts == FeedInit => FeedInv
<1> SUFFICES ASSUME FeedInit PROVE FeedInv
  OBVIOUS
<1>1. FeedTypeOK
  BY NamesOfSources DEF FeedInit, FeedTypeOK, Resting, Frames, Nothing
<1>2. ASSUME NEW r \in Readers PROVE ReadsOwn(reader[r])
  BY DEF FeedInit, ReadsOwn, Resting
<1>3. ASSUME NEW s \in Sources PROVE lastGood[s] \in {s, Nothing}
  BY DEF FeedInit
<1> QED
  BY <1>1, <1>2, <1>3 DEF FeedInv

(* A reader that goes on to a proper state leaves the others as they were. *)
LEMMA ReaderMoves ==
  ASSUME FeedInv, NEW r \in Readers, NEW to \in Reading, ReadsOwn(to),
         reader' = [reader EXCEPT ![r] = to]
  PROVE  /\ reader' \in [Readers -> Reading]
         /\ \A q \in Readers : ReadsOwn(reader'[q])
<1>1. reader \in [Readers -> Reading]
  BY DEF FeedInv, FeedTypeOK, Reading
<1>2. ASSUME NEW q \in Readers
      PROVE  reader'[q] = IF q = r THEN to ELSE reader[q]
  BY <1>1
<1>3. ASSUME NEW q \in Readers PROVE ReadsOwn(reader'[q])
  BY <1>2, <1>3 DEF FeedInv
<1> QED
  BY <1>1, <1>3

(* Steps of the camera and of the router's readers.                        *)
LEMMA CameraMoves ==
  ASSUME FeedInv, OpenCamera \/ EndOfFrames \/ Retry \/ Capture \/ Unplug \/ Plug
  PROVE  FeedInv'
<1>1. UNCHANGED << source, lastGood, reader, pending, picture >>
  BY DEF OpenCamera, EndOfFrames, Retry, Capture, Unplug, Plug, CameraAt, gatewayVars
<1>2. /\ up' \in BOOLEAN
      /\ camera' \in [at : {"off", "open", "reading", "backoff"}, frame : BOOLEAN]
  BY DEF FeedInv, FeedTypeOK, OpenCamera, EndOfFrames, Retry, Capture, Unplug, Plug,
         CameraAt, AfterBackoff
<1> QED
  BY <1>1, <1>2 DEF FeedInv, FeedTypeOK, ReadsOwn

LEMMA AskKeeps ==
  ASSUME FeedInv, NEW r \in Readers, Ask(r)
  PROVE  FeedInv'
<1> DEFINE to == [at |-> "fetch", name |-> source, frame |-> Nothing]
<1>1. to \in Reading /\ ReadsOwn(to)
  BY DEF FeedInv, FeedTypeOK, Reading, ReadsOwn, Frames
<1>2. reader' = [reader EXCEPT ![r] = to]
  BY DEF Ask, Step
<1> HIDE DEF to
<1>3. /\ reader' \in [Readers -> Reading]
      /\ \A q \in Readers : ReadsOwn(reader'[q])
  BY <1>1, <1>2, ReaderMoves
<1>4. UNCHANGED << up, camera, source, lastGood, pending, picture >>
  BY DEF Ask
<1> QED
  BY <1>3, <1>4 DEF FeedInv, FeedTypeOK, Reading, ReadsOwn

(* What a fetch brings is a frame of the source that was asked, or nothing.*)
LEMMA FetchKeeps ==
  ASSUME FeedInv, NEW r \in Readers, FetchHere(r) \/ FetchVision(r) \/ FetchFails(r)
  PROVE  FeedInv'
<1>1. PICK f \in {reader[r].name, Nothing} :
        /\ reader[r].at = "fetch"
        /\ reader' = [reader EXCEPT ![r] = Fetched(r, f)]
  BY DEF FetchHere, FetchVision, FetchFails, Step
<1>2. reader[r] \in Reading /\ ReadsOwn(reader[r])
  BY DEF FeedInv, FeedTypeOK, Reading
<1>3. Fetched(r, f) = [at |-> "cache", name |-> reader[r].name, frame |-> f]
  <2> DEFINE me == reader[r]
  <2>1. me \in Reading
    BY <1>2
  <2> HIDE DEF me
  <2>2. PICK to : to = [me EXCEPT !.at = "cache", !.frame = f]
    OBVIOUS
  <2>3. to = [at |-> "cache", name |-> me.name, frame |-> f]
    BY <2>1, <2>2 DEF Reading
  <2> QED
    BY <2>2, <2>3 DEF Fetched, me
<1>4. Fetched(r, f) \in Reading /\ ReadsOwn(Fetched(r, f))
  BY <1>1, <1>2, <1>3 DEF Reading, ReadsOwn, Frames
<1>5. /\ reader' \in [Readers -> Reading]
      /\ \A q \in Readers : ReadsOwn(reader'[q])
  BY <1>1, <1>4, ReaderMoves
<1>6. UNCHANGED << up, camera, source, lastGood, pending >>
  BY DEF FetchHere, FetchVision, FetchFails
<1>7. picture' \in {"none", "asked", "there"}
  BY DEF FeedInv, FeedTypeOK, FetchHere, FetchVision, FetchFails
<1> QED
  BY <1>5, <1>6, <1>7 DEF FeedInv, FeedTypeOK, Reading, ReadsOwn

(* A frame is kept for the source it was fetched from, and without a frame *)
(* the one kept for that source is the answer.                             *)
LEMMA AnswerKeeps ==
  ASSUME FeedInv, NEW r \in Readers, Answer(r)
  PROVE  FeedInv'
<1> DEFINE me == reader[r]
           f  == IF me.frame # Nothing THEN me.frame ELSE lastGood[me.name]
           to == [at |-> "reply", name |-> me.name, frame |-> f]
<1>1. me \in Reading /\ ReadsOwn(me) /\ me.at = "cache"
  BY DEF FeedInv, FeedTypeOK, Reading, Answer, Step
<1>2. me.name \in Sources /\ me.frame \in {me.name, Nothing}
  BY <1>1 DEF ReadsOwn
<1>3. lastGood[me.name] \in {me.name, Nothing}
  BY <1>2 DEF FeedInv
<1>4. UNCHANGED << up, camera, source, pending, picture >>
  BY DEF Answer
<1>5. /\ lastGood' \in [Sources -> Frames]
      /\ \A s \in Sources : lastGood'[s] \in {s, Nothing}
  <2>1. lastGood' = lastGood \/ lastGood' = [lastGood EXCEPT ![me.name] = me.frame]
    BY DEF Answer, KeptAs
  <2> HIDE DEF me
  <2>2. lastGood \in [Sources -> Frames] /\ \A s \in Sources : lastGood[s] \in {s, Nothing}
    BY DEF FeedInv, FeedTypeOK
  <2> QED
    BY <1>2, <2>1, <2>2 DEF Frames
<1>6. to \in Reading /\ ReadsOwn(to)
  BY <1>2, <1>3 DEF Reading, ReadsOwn, Frames
<1>7. reader' = [reader EXCEPT ![r] = to]
  <2>1. PICK v : /\ reader' = [reader EXCEPT ![r] = v]
                 /\ v = IF me.frame # Nothing THEN [me EXCEPT !.at = "reply"]
                        ELSE [me EXCEPT !.at = "reply", !.frame = lastGood[me.name]]
    BY DEF Answer, Step
  <2> HIDE DEF me
  <2>2. v = to
    BY <1>1, <2>1 DEF Reading
  <2> QED
    BY <2>1, <2>2
<1> HIDE DEF to
<1>8. /\ reader' \in [Readers -> Reading]
      /\ \A q \in Readers : ReadsOwn(reader'[q])
  BY <1>6, <1>7, ReaderMoves
<1> QED
  BY <1>4, <1>5, <1>8 DEF FeedInv, FeedTypeOK, Reading, ReadsOwn

LEMMA ReplyKeeps ==
  ASSUME FeedInv, NEW r \in Readers, Reply(r)
  PROVE  FeedInv'
<1>1. Resting \in Reading /\ ReadsOwn(Resting)
  BY DEF Resting, Reading, ReadsOwn, Frames
<1>2. reader' = [reader EXCEPT ![r] = Resting]
  BY DEF Reply, Step
<1>3. /\ reader' \in [Readers -> Reading]
      /\ \A q \in Readers : ReadsOwn(reader'[q])
  BY <1>1, <1>2, ReaderMoves
<1>4. UNCHANGED << up, camera, source, lastGood, pending, picture >>
  BY DEF Reply
<1> QED
  BY <1>3, <1>4 DEF FeedInv, FeedTypeOK, Reading, ReadsOwn

LEMMA OthersKeep ==
  ASSUME FeedInv, Grab \/ Silence \/ \E s \in Sources : Switch(s)
  PROVE  FeedInv'
<1>1. UNCHANGED << up, camera, lastGood, reader >>
  BY DEF Grab, Silence, Switch, gatewayVars
<1>2. source' \in Sources /\ pending' \in BOOLEAN
      /\ picture' \in {"none", "asked", "there"}
  BY DEF FeedInv, FeedTypeOK, Grab, Silence, Switch, gatewayVars
<1> QED
  BY <1>1, <1>2 DEF FeedInv, FeedTypeOK, ReadsOwn

(* Every step of the feed, whatever the detector does.                     *)
LEMMA FeedKeeps ==
  ASSUME FeedInv, FeedNext \/ CameraFaults \/ Watching
  PROVE  FeedInv'
<1>1. CASE CameraStep \/ Capture \/ CameraFaults
  BY <1>1, CameraMoves DEF CameraStep, CameraFaults
<1>2. CASE \E r \in Readers : FetchVision(r) \/ FetchHere(r) \/ FetchFails(r)
  BY <1>2, FetchKeeps
<1>3. CASE \E r \in Readers : Answer(r)
  BY <1>3, AnswerKeeps
<1>4. CASE \E r \in Readers : Reply(r)
  BY <1>4, ReplyKeeps
<1>5. CASE \E r \in Readers : Ask(r)
  BY <1>5, AskKeeps
<1>6. CASE Grab \/ Silence \/ \E s \in Sources : Switch(s)
  BY <1>6, OthersKeep
<1> QED
  BY <1>1, <1>2, <1>3, <1>4, <1>5, <1>6 DEF FeedNext, Watching, ReaderStep

(* What the detector does to the feed: it takes the frame and shows one.   *)
LEMMA LoopKeepsFeed ==
  ASSUME FeedInv, LoopStep \/ LoopEnds \/ \E o \in Operators : OperatorStep(o)
  PROVE  FeedInv'
<1>1. UNCHANGED << up, camera, source, lastGood, reader >>
  BY DEF LoopStep, LoopEnds, Take, Publish, OperatorStep, Engage, CancelLock, Deliver,
         Undelivered, Request, feedVars, gatewayVars
<1>2. pending' \in BOOLEAN /\ picture' \in {"none", "asked", "there"}
  BY DEF LoopStep, LoopEnds, Take, Publish, Encoded, OperatorStep, Engage, CancelLock, Deliver,
         Undelivered, Request, feedVars, gatewayVars, FeedInv, FeedTypeOK
<1> QED
  BY <1>1, <1>2 DEF FeedInv, FeedTypeOK, ReadsOwn

LEMMA FeedStutters == ASSUME FeedInv, UNCHANGED feedVars PROVE FeedInv'
BY DEF FeedInv, FeedTypeOK, ReadsOwn, feedVars, gatewayVars

(* The inductive invariant of the feed, within the whole chain.            *)
THEOREM FeedInvariant == Spec => []FeedInv
<1>1. Init => FeedInv
  BY FeedStarts DEF Init
<1>2. FeedInv /\ [Next]_vars => FeedInv'
  BY FeedKeeps, LoopKeepsFeed, FeedStutters DEF Next, Feed, vars
<1> QED
  BY <1>1, <1>2, PTL DEF Spec

(* BroadcastRouter.get_frame never answers with a frame of another source, *)
(* however slow a source is and whatever is switched in between, for any   *)
(* number of readers and sources.                                          *)
THEOREM NoCrossPollination == Spec => []OwnFramesOnly
<1>1. FeedInv => OwnFramesOnly
  BY DEF FeedInv, ReadsOwn, OwnFramesOnly
<1> QED
  BY <1>1, FeedInvariant, PTL

-----------------------------------------------------------------------------
(* The lock *)

Limits == 0..(GiveUpAt["class"] + GiveUpAt["drawn"] + 1)

Locks ==
  [kind : {"class", "drawn"}, by : Operators,
   kcf : {"none", "clean", "spoiled", "unbuilt"}, drift : 0..2, lost : Limits]

(* A spoiled or unbuilt filter has been noticed to drift, so that the next *)
(* frame that fails rewinds it; after a frame that is counted as clear it  *)
(* is clean, and after two it holds the target.                            *)
FilterOK(t, c) ==
  t # NoTarget /\ t.kcf # "none" =>
    /\ t.kcf # "clean" => t.drift # 0
    /\ c # 0 => t.kcf = "clean"
    /\ c = 2 => t.lost = 0

LockOK(t, c) ==
  /\ t \in {NoTarget} \cup Locks
  /\ t # NoTarget => ~ TooLong(t)
  /\ FilterOK(t, c)

Unbuilt(t) == t # NoTarget /\ t.kcf = "unbuilt"

(* ClearNow for a count c                                                  *)
More(c, inReach, t) ==
  IF ~ inReach \/ Unbuilt(t) THEN 0 ELSE IF c = 2 THEN 2 ELSE c + 1

LEMMA GiveUpNat == GiveUpAt["class"] \in Nat \ {0} /\ GiveUpAt["drawn"] \in Nat \ {0}
BY LockConstantsOK

LEMMA NoTargetOK == ASSUME NEW c PROVE LockOK(NoTarget, c)
BY DEF LockOK, FilterOK

(* A lock that was not lost for too long is counted up or given up.        *)
LEMMA MissedBounded ==
  ASSUME NEW t \in Locks, ~ TooLong(t)
  PROVE  \/ Missed(t) = NoTarget
         \/ /\ Missed(t) \in Locks /\ ~ TooLong(Missed(t))
            /\ Missed(t) = [kind |-> t.kind, by |-> t.by, kcf |-> t.kcf,
                            drift |-> t.drift, lost |-> t.lost + 1]
<1> DEFINE l == [kind |-> t.kind, by |-> t.by, kcf |-> t.kcf, drift |-> t.drift,
                 lost |-> t.lost + 1]
<1>1. [t EXCEPT !.lost = @ + 1] = l
  BY DEF Locks
<1>2. Missed(t) = IF TooLong(l) THEN NoTarget ELSE l
  BY <1>1 DEF Missed, GivenUp
<1>3. t.lost \in Nat /\ t.lost <= GiveUpAt["class"] + GiveUpAt["drawn"]
  BY GiveUpNat DEF Locks, Limits, TooLong
<1>4. l \in Locks
  BY <1>3, GiveUpNat DEF Locks, Limits
<1> QED
  BY <1>2, <1>4

(* What a rewind leaves is clean or unbuilt, and otherwise the lock.       *)
LEMMA RewoundBuilt ==
  ASSUME NEW t \in Locks, NEW u \in Rewound(t)
  PROVE  /\ u \in Locks /\ u.kcf \in {"clean", "unbuilt"}
         /\ u.lost = t.lost /\ u.drift = t.drift
<1>1. PICK k \in {"clean", "unbuilt"} : u = [t EXCEPT !.kcf = k]
  BY DEF Rewound
<1>2. u = [kind |-> t.kind, by |-> t.by, kcf |-> k, drift |-> t.drift,
           lost |-> t.lost]
  BY <1>1 DEF Locks
<1> QED
  BY <1>2 DEF Locks

(* A frame that the filter fails on is noticed; it leaves the filter clean *)
(* or unbuilt if another such frame came before it.                        *)
LEMMA DriftedNoticed ==
  ASSUME NEW t \in Locks, NEW u \in Drifted(t)
  PROVE  /\ u \in Locks /\ u.lost = t.lost
         /\ u.drift # 0 /\ u.kcf # "none"
         /\ t.drift # 0 => u.kcf \in {"clean", "unbuilt"}
<1>1. CASE t.drift = 0
  <2>1. u = [t EXCEPT !.drift = 1, !.kcf = "spoiled"]
    BY <1>1 DEF Drifted
  <2>2. u = [kind |-> t.kind, by |-> t.by, kcf |-> "spoiled", drift |-> 1,
             lost |-> t.lost]
    BY <2>1 DEF Locks
  <2> QED
    BY <1>1, <2>2 DEF Locks
<1>2. CASE t.drift # 0
  <2>1. PICK v : v = [t EXCEPT !.drift = 2]
    OBVIOUS
  <2>2. v = [kind |-> t.kind, by |-> t.by, kcf |-> t.kcf, drift |-> 2,
             lost |-> t.lost]
    BY <2>1 DEF Locks
  <2>3. v \in Locks /\ v.lost = t.lost /\ v.drift = 2
    BY <2>2 DEF Locks
  <2>4. u \in Rewound(v)
    BY <1>2, <2>1 DEF Drifted
  <2> QED
    BY <2>3, <2>4, RewoundBuilt
<1> QED
  BY <1>1, <1>2

LEMMA RecoveredFound ==
  ASSUME NEW t \in Locks, NEW u \in Recovered(t)
  PROVE  /\ u \in Locks /\ u.kcf \in {"clean", "unbuilt"}
         /\ u.lost = 0 /\ u.drift = t.drift
<1>1. PICK k \in {"clean", "unbuilt"} :
        u = [[t EXCEPT !.lost = 0] EXCEPT !.kcf = k]
  BY DEF Recovered, Matched
<1>2. u = [kind |-> t.kind, by |-> t.by, kcf |-> k, drift |-> t.drift, lost |-> 0]
  BY <1>1 DEF Locks
<1>3. 0 \in Limits
  BY GiveUpNat DEF Limits
<1> QED
  BY <1>2, <1>3 DEF Locks

(* What one frame makes of a lock that is in order is one that is in order.*)
LEMMA TrackedInOrder ==
  ASSUME NEW c \in 0..2, NEW t, LockOK(t, c), NEW inReach \in BOOLEAN,
         NEW best \in Detections, NEW u \in Tracked(t, inReach, best)
  PROVE  LockOK(u, More(c, inReach, u))
<1>0. 0 \in Limits /\ \A v \in Locks : v.lost = 0 => ~ TooLong(v)
  BY GiveUpNat DEF Limits, TooLong
<1>1. CASE t = NoTarget
  <2>1. u = NoTarget
    BY <1>1 DEF Tracked
  <2> QED
    BY <2>1, NoTargetOK
<1>2. CASE t # NoTarget /\ t.kcf = "none"
  <2>0. t \in Locks /\ ~ TooLong(t)
    BY <1>2 DEF LockOK
  <2>1. u = Missed(t) \/ u = Matched(t)
    BY <1>2, Zenon DEF Tracked
  <2>2. CASE u = Missed(t)
    BY <1>2, <2>0, <2>2, MissedBounded, NoTargetOK DEF LockOK, FilterOK
  <2>3. CASE u = Matched(t)
    <3>1. u = [kind |-> t.kind, by |-> t.by, kcf |-> t.kcf, drift |-> t.drift,
               lost |-> 0]
      BY <2>0, <2>3 DEF Matched, Locks
    <3>2. u \in Locks /\ u.kcf = "none" /\ u.lost = 0
      BY <1>0, <1>2, <2>0, <3>1 DEF Locks
    <3> QED
      BY <1>0, <3>2 DEF LockOK, FilterOK
  <2> QED
    BY <2>1, <2>2, <2>3
<1>3. CASE t # NoTarget /\ t.kcf # "none"
  <2>0. t \in Locks /\ ~ TooLong(t)
    BY <1>3 DEF LockOK
  <2>1. \/ u = Held(t) /\ inReach
        \/ /\ MayDrift(t, inReach)
           /\ \E d \in Drifted(t) : u = Missed(d) \/ u \in Recovered(d)
    BY <1>3 DEF Tracked, MayHold
  <2>2. CASE u = Held(t)
    <3>1. u = [kind |-> t.kind, by |-> t.by, kcf |-> "clean", drift |-> 0,
               lost |-> 0]
      BY <2>0, <2>2 DEF Held, Locks
    <3>2. u \in Locks /\ u.kcf = "clean" /\ u.lost = 0
      BY <1>0, <2>0, <3>1 DEF Locks
    <3> QED
      BY <1>0, <3>2 DEF LockOK, FilterOK
  <2>3. ASSUME MayDrift(t, inReach),
               NEW d \in Drifted(t), u = Missed(d) \/ u \in Recovered(d)
        PROVE  LockOK(u, More(c, inReach, u))
    <3>1. /\ d \in Locks /\ d.lost = t.lost /\ d.drift # 0 /\ d.kcf # "none"
          /\ t.drift # 0 => d.kcf \in {"clean", "unbuilt"}
      BY <2>0, <2>3, DriftedNoticed
    <3>2. inReach => t.drift # 0 /\ c = 0
      BY <1>3, <2>3 DEF MayDrift, LockOK, FilterOK
    <3>3. CASE u \in Recovered(d)
      <4>1. /\ u \in Locks /\ u.kcf \in {"clean", "unbuilt"}
            /\ u.lost = 0 /\ u.drift # 0
        BY <3>1, <3>3, RecoveredFound
      <4>2. More(c, inReach, u) # 0 => u.kcf = "clean"
        BY <4>1 DEF More, Unbuilt, NoTarget, Locks
      <4> QED
        BY <1>0, <4>1, <4>2 DEF LockOK, FilterOK
    <3>4. CASE u = Missed(d)
      <4>1. ~ TooLong(d)
        BY <1>3, <2>0, <3>1 DEF TooLong
      <4>2. \/ u = NoTarget
            \/ u \in Locks /\ ~ TooLong(u) /\ u.kcf = d.kcf /\ u.drift = d.drift
        BY <3>1, <3>4, <4>1, MissedBounded
      <4>3. CASE u = NoTarget
        BY <4>3, NoTargetOK
      <4>4. CASE u # NoTarget /\ u.kcf = "unbuilt"
        BY <3>1, <4>2, <4>4 DEF LockOK, FilterOK, More, Unbuilt
      <4>5. CASE u # NoTarget /\ u.kcf # "unbuilt"
        <5>1. inReach => u.kcf = "clean" /\ More(c, inReach, u) = 1
          BY <3>1, <3>2, <4>2, <4>5 DEF More, Unbuilt
        <5>2. ~ inReach => More(c, inReach, u) = 0
          BY DEF More
        <5> QED
          BY <3>1, <4>2, <4>5, <5>1, <5>2 DEF LockOK, FilterOK
      <4> QED
        BY <4>3, <4>4, <4>5
    <3> QED
      BY <2>3, <3>3, <3>4
  <2> QED
    BY <2>1, <2>2, <2>3
<1> QED
  BY <1>1, <1>2, <1>3

-----------------------------------------------------------------------------
(* The chain *)

Slots == {NoRequest, "class", "drawn", "unlock"}

RestOK ==
  /\ scenario \in Scenarios
  /\ asking \in [Operators -> Slots]
  /\ slot \in Requests /\ wanted \in Requests
  /\ loop \in {"wait", "busy", "ended"}
  /\ clear \in 0..2
  /\ shown \in [seen : BOOLEAN, tracking : BOOLEAN, lost : BOOLEAN,
                box : {"none", "found", "predicted"}]

ChainInv == FeedInv /\ RestOK /\ LockOK(target, clear)

LEMMA FreshTargets ==
  ASSUME NEW req \in Requests, req.kind \in {"class", "drawn"}, NEW u \in NewTarget(req)
  PROVE  LockOK(u, 0)
<1>1. PICK k \in {"clean", "none"} :
        u = [kind |-> req.kind, by |-> req.by, kcf |-> k, drift |-> 0, lost |-> 0]
  BY DEF NewTarget
<1>2. req.by \in Operators
  BY DEF Requests, NoLock, NoRequest
<1>3. u \in Locks /\ u.lost = 0 /\ u.kcf \in {"clean", "none"}
  BY <1>1, <1>2, GiveUpNat DEF Locks, Limits
<1> QED
  BY <1>3, GiveUpNat DEF LockOK, FilterOK, TooLong

LEMMA ChainStarts == Init => ChainInv
<1> SUFFICES ASSUME Init PROVE ChainInv
  OBVIOUS
<1>1. FeedInv
  BY FeedStarts DEF Init
<1>2. RestOK
  BY DEF Init, RestOK, Slots, Requests
<1>3. LockOK(target, clear)
  BY NoTargetOK DEF Init
<1> QED
  BY <1>1, <1>2, <1>3 DEF ChainInv

(* Requests change the threads of the operators and the slot.              *)
LEMMA OperatorKeeps ==
  ASSUME RestOK, NEW o \in Operators, OperatorStep(o)
  PROVE  RestOK' /\ UNCHANGED << target, clear >>
<1>1. PICK to \in Slots : asking' = [asking EXCEPT ![o] = to]
  BY DEF OperatorStep, Engage, CancelLock, Deliver, Undelivered, Request, Slots
<1>2. asking' \in [Operators -> Slots]
  BY <1>1 DEF RestOK
<1>3. slot' \in Requests /\ wanted' \in Requests
  <2>1. CASE Deliver(o)
    <3>1. asking[o] \in {"class", "drawn", "unlock"}
      BY <2>1 DEF Deliver, Request
    <3>2. [kind |-> asking[o], by |-> o] \in Requests
      BY <3>1 DEF Requests
    <3> QED
      BY <2>1, <3>2 DEF Deliver
  <2>2. CASE ~ Deliver(o)
    BY <2>2 DEF OperatorStep, Engage, CancelLock, Undelivered, RestOK
  <2> QED
    BY <2>1, <2>2
<1>4. UNCHANGED << loop, target, clear, shown, scenario >>
  BY DEF OperatorStep, Engage, CancelLock, Deliver, Undelivered, Request
<1> QED
  BY <1>2, <1>3, <1>4 DEF RestOK

(* The loop takes a frame and a request ...                                *)
LEMMA TakeKeeps ==
  ASSUME RestOK, LockOK(target, clear), Take
  PROVE  RestOK' /\ \E t, c : LockOK(t, c) /\ target' = t /\ clear' = c
<1>1. /\ target' \in Requested(slot)
      /\ clear' = IF slot = NoLock THEN clear ELSE 0
      /\ slot' = NoLock /\ wanted' \in {NoLock, wanted} /\ loop' = "busy"
      /\ UNCHANGED << asking, shown, scenario >>
  BY DEF Take
<1>2. RestOK'
  BY <1>1 DEF RestOK, Requests
<1>3. CASE slot = NoLock
  <2>1. target' = target /\ clear' = clear
    <3>1. Requested(slot) = {target}
      BY <1>3 DEF Requested, NoLock, NoRequest
    <3> QED
      BY <1>1, <1>3, <3>1
  <2> QED
    BY <1>2, <2>1
<1>4. CASE slot.kind = "unlock"
  <2>1. target' = NoTarget
    BY <1>1, <1>4 DEF Requested, NoRequest
  <2>2. LockOK(NoTarget, clear')
    BY NoTargetOK
  <2> QED
    BY <1>2, <2>1, <2>2
<1>5. CASE slot.kind \in {"class", "drawn"}
  <2>1. PICK t \in NewTarget(slot) : target' = t /\ clear' = 0
    BY <1>1, <1>5 DEF Requested, NoRequest, NoLock, RestOK
  <2>2. LockOK(t, 0)
    BY <1>5, FreshTargets DEF RestOK
  <2> QED
    BY <1>2, <2>1, <2>2
<1> QED
  BY <1>3, <1>4, <1>5 DEF RestOK, Requests

(* ... and works on it.                                                    *)
LEMMA PublishKeeps ==
  ASSUME RestOK, LockOK(target, clear), Publish
  PROVE  RestOK' /\ \E t, c : LockOK(t, c) /\ target' = t /\ clear' = c
<1>1. PICK inReach \in BOOLEAN, best \in Detections :
        /\ target' \in Tracked(target, inReach, best)
        /\ clear' = ClearNow(inReach, target')
        /\ shown' = [seen |-> TRUE, tracking |-> target' # NoTarget,
                     lost |-> ShownLost(target, target', best), box |-> BoxOf(target')]
  BY DEF Publish
<1>2. loop' = "wait" /\ UNCHANGED << asking, slot, wanted, scenario >>
  BY DEF Publish
<1>3. clear \in 0..2
  BY DEF RestOK
<1>4. \E t, c : LockOK(t, c) /\ target' = t /\ clear' = c
  <2>1. PICK t \in Tracked(target, inReach, best) : target' = t
    BY <1>1
  <2>2. LockOK(t, More(clear, inReach, t))
    BY <1>3, TrackedInOrder
  <2>3. ClearNow(inReach, t) = More(clear, inReach, t)
    BY Zenon DEF ClearNow, More, Unbuilt
  <2> QED
    BY <1>1, <2>1, <2>2, <2>3
<1>5. clear' \in 0..2
  <2>1. clear' \in {0, 2, clear + 1} /\ (clear = 2 => clear' \in {0, 2})
    BY <1>1, Zenon DEF ClearNow
  <2> QED
    BY <1>3, <2>1
<1>6. ShownLost(target, target', best) \in BOOLEAN
  <2>1. CASE target' = NoTarget
    BY <2>1 DEF ShownLost
  <2>2. CASE target' # NoTarget
    BY <2>2 DEF ShownLost
  <2> QED
    BY <2>1, <2>2
<1>7. BoxOf(target') \in {"none", "found", "predicted"}
  BY DEF BoxOf
<1>8. shown' \in [seen : BOOLEAN, tracking : BOOLEAN, lost : BOOLEAN,
                  box : {"none", "found", "predicted"}]
  BY <1>1, <1>6, <1>7
<1> QED
  BY <1>2, <1>4, <1>5, <1>8 DEF RestOK

LEMMA ChainKeeps == ChainInv /\ [Next]_vars => ChainInv'
<1> SUFFICES ASSUME ChainInv, [Next]_vars PROVE ChainInv'
  OBVIOUS
<1>0. FeedInv'
  BY FeedKeeps, LoopKeepsFeed, FeedStutters DEF ChainInv, Next, Feed, vars
<1>1. CASE UNCHANGED lockVars /\ UNCHANGED scenario
  BY <1>0, <1>1 DEF ChainInv, RestOK, LockOK, FilterOK, TooLong, lockVars
<1>2. CASE \E o \in Operators : OperatorStep(o)
  <2>1. RestOK' /\ UNCHANGED << target, clear >>
    BY <1>2, OperatorKeeps DEF ChainInv
  <2> QED
    BY <1>0, <2>1 DEF ChainInv, LockOK, FilterOK, TooLong
<1>3. CASE LoopStep
  <2>1. RestOK' /\ \E t, c : LockOK(t, c) /\ target' = t /\ clear' = c
    BY <1>3, TakeKeeps, PublishKeeps DEF ChainInv, LoopStep
  <2>2. PICK t, c : LockOK(t, c) /\ target' = t /\ clear' = c
    BY <2>1
  <2>3. LockOK(target, clear)'
    BY <2>2 DEF LockOK, FilterOK, TooLong
  <2> QED
    BY <1>0, <2>1, <2>3 DEF ChainInv
<1>4. CASE LoopEnds
  <2>1. loop' = "ended"
        /\ UNCHANGED << asking, slot, wanted, target, clear, shown, scenario >>
    BY <1>4 DEF LoopEnds
  <2> QED
    BY <1>0, <2>1 DEF ChainInv, RestOK, LockOK, FilterOK, TooLong
<1> QED
  BY <1>1, <1>2, <1>3, <1>4 DEF Next, Feed, vars

(* The inductive invariant of the whole chain.                             *)
THEOREM ChainInvariant == Spec => []ChainInv
BY ChainStarts, ChainKeeps, PTL DEF Spec

(* Every variable keeps its type, and no lock is lost for longer than it   *)
(* may be, whatever the two limits are.                                    *)
THEOREM TypeCorrect == Spec => []TypeOK
<1>1. ChainInv => TypeOK
  BY DEF ChainInv, FeedInv, RestOK, LockOK, TypeOK, Slots, Targets, Locks, Limits
<1> QED
  BY <1>1, ChainInvariant, PTL

(* A target's correlation filter never stays spoiled by what hid the       *)
(* target: of the frames that show it where it was, the second in a row    *)
(* since its filter was last left unbuilt has it, after any number of      *)
(* frames that did not.                                                    *)
THEOREM FoundAgainWhenClear == Spec => []FoundWhenClear
<1>1. ChainInv => FoundWhenClear
  BY DEF ChainInv, LockOK, FilterOK, FoundWhenClear
<1> QED
  BY <1>1, ChainInvariant, PTL
================================================================================

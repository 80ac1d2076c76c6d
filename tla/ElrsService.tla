------------------------------- MODULE ElrsService -------------------------------
(***************************************************************************)
(* The serial side of elrs_telemetry/service.py, both ways.  The reader    *)
(* thread owns the port and feeds the decoder (MuxDecoder); HTTP handlers  *)
(* put telemetry frames into a bounded queue behind a token bucket, and    *)
(* the writer thread sends them through the handle the reader keeps.       *)
(*                                                                         *)
(* A frame in the queue is its place in it, 1 the oldest; one of them may  *)
(* be watched, to say what becomes of it.  The two directions share only   *)
(* the port: Directions says in which of them a behaviour has traffic.     *)
(***************************************************************************)
EXTENDS MuxDecoder, FiniteSets

CONSTANTS
  Handlers,    (* HTTP threads that post telemetry                         *)
  QueueMax,    (* TX_QUEUE_MAX                                             *)
  Capacity,    (* capacity of the token bucket                             *)
  Directions   (* which of "in" and "out" have traffic                     *)

ASSUME ElrsConstantsOK ==
  /\ IsFiniteSet(Handlers)
  /\ QueueMax \in Nat \ {0} /\ Capacity \in Nat \ {0}
  /\ Directions \subseteq SUBSET {"in", "out"}

VARIABLES
  tokens,    (* whole tokens in the bucket                                 *)
  handler,   (* the HTTP threads                                           *)
  queue,     (* number of frames in tx_queue                               *)
  watched,   (* history: place of the watched frame, 0 if it has left      *)
  writer,    (* the writer thread                                          *)
  owed,      (* history: frames dropped for a newer one still to be put    *)
  traffic    (* the directions of this behaviour                           *)

txVars == << tokens, handler, queue, watched, writer, owed >>
vars == << muxVars, txVars, traffic >>

Silent == "in" \notin traffic

Init ==
  /\ MuxInit
  /\ traffic \in Directions
  /\ Silent => wire = Whole(Line)
  /\ tokens = Capacity
  /\ handler = [h \in Handlers |-> "idle"]
  /\ queue = 0 /\ watched = 0
  /\ writer = "idle"
  /\ owed = 0

Goto(h, at) == handler' = [handler EXCEPT ![h] = at]

-----------------------------------------------------------------------------
(* HTTP handlers *)

(* Time passes: the bucket fills up to its capacity.                       *)
Refill ==
  /\ tokens < Capacity
  /\ tokens' = tokens + 1
  /\ UNCHANGED << muxVars, traffic, handler, queue, watched, writer, owed >>

(* A telemetry frame is posted; a malformed one is refused at once, and so *)
(* is one that finds no token.                                             *)
Post(h) ==
  /\ "out" \in traffic
  /\ handler[h] = "idle"
  /\ tokens > 0
  /\ tokens' = tokens - 1
  /\ Goto(h, "put")
  /\ UNCHANGED << muxVars, traffic, queue, watched, writer, owed >>

(* put_nowait: the frame is accepted, and may be the one to watch.         *)
Accept(h) ==
  /\ queue < QueueMax
  /\ queue' = queue + 1
  /\ watched' \in {watched} \cup (IF watched = 0 THEN {queue + 1} ELSE {})
  /\ owed' = IF owed > 0 THEN owed - 1 ELSE 0
  /\ Goto(h, "idle")
  /\ UNCHANGED << muxVars, traffic, tokens, writer >>

Put(h) == handler[h] = "put" /\ Accept(h)

FoundFull(h) ==
  /\ handler[h] = "put"
  /\ queue = QueueMax
  /\ Goto(h, "full")
  /\ UNCHANGED << muxVars, traffic, tokens, queue, watched, writer, owed >>

\* Mutant: the frame is not put after the oldest one has been dropped.
AfterDrop_Gone == "idle"

AfterDrop == "again"

(* The oldest frame leaves the queue.                                      *)
Pop ==
  /\ queue' = queue - 1
  /\ watched' = IF watched > 0 THEN watched - 1 ELSE 0

(* get_nowait: drop the oldest, unless the writer has emptied the queue.   *)
DropOldest(h) ==
  /\ handler[h] = "full"
  /\ Goto(h, AfterDrop)
  /\ \/ queue > 0 /\ Pop /\ owed' = owed + 1
     \/ queue = 0 /\ UNCHANGED << queue, watched, owed >>
  /\ UNCHANGED << muxVars, traffic, tokens, writer >>

PutAgain(h) == handler[h] = "again" /\ Accept(h)

(* 503: another handler has taken the place.                               *)
NoRoom(h) ==
  /\ handler[h] = "again"
  /\ queue = QueueMax
  /\ Goto(h, "idle")
  /\ UNCHANGED << muxVars, traffic, tokens, queue, watched, writer, owed >>

-----------------------------------------------------------------------------
(* The writer *)

Get ==
  /\ writer = "idle"
  /\ queue > 0
  /\ Pop
  /\ writer' = "frame"
  /\ UNCHANGED << muxVars, traffic, tokens, handler, owed >>

\* Mutant: the writer waits for the port.
NoHandle_Waits == FALSE

(* _serial_handle is None from a failed read to the next open.             *)
NoHandle == port = "closed"

Discard ==
  /\ writer = "frame"
  /\ NoHandle
  /\ writer' = "idle"
  /\ UNCHANGED << muxVars, traffic, tokens, handler, queue, watched, owed >>

Encode ==
  /\ writer = "frame"
  /\ port # "closed"
  /\ writer' = "write"
  /\ UNCHANGED << muxVars, traffic, tokens, handler, queue, watched, owed >>

(* Written, or lost with the connection: the writer goes on either way,    *)
(* after a failure with a pause.                                           *)
Write ==
  /\ writer = "write"
  /\ writer' = "idle"
  /\ UNCHANGED << muxVars, traffic, tokens, handler, queue, watched, owed >>

-----------------------------------------------------------------------------
(* The whole service *)

HandlerStep(h) ==
  Put(h) \/ FoundFull(h) \/ DropOldest(h) \/ PutAgain(h) \/ NoRoom(h)

WriterStep == Get \/ Discard \/ Encode \/ Write

(* The reader and the device.  Bytes come where there is traffic in; a     *)
(* firmware that is silent has a line to send.                             *)
ReaderStep ==
  /\ ("in" \in traffic /\ Byte) \/ Unplug \/ Plug \/ ReadFails \/ Open
  /\ Silent => wire' = Whole(Line)
  /\ UNCHANGED << txVars, traffic >>

Next ==
  \/ ReaderStep
  \/ Refill
  \/ \E h \in Handlers : Post(h) \/ HandlerStep(h)
  \/ WriterStep

Spec == Init /\ [][Next]_vars

(***************************************************************************)
(* The threads run on.  Nothing is assumed of the device, the firmware or  *)
(* whoever posts telemetry.                                                *)
(***************************************************************************)
Fairness == WF_vars(WriterStep) /\ \A h \in Handlers : WF_vars(HandlerStep(h))

FairSpec == Spec /\ Fairness

-----------------------------------------------------------------------------
(* Properties *)

(* Every variable keeps its type.                                          *)
TypeOK ==
  /\ MuxTypeOK
  /\ tokens \in 0..Capacity
  /\ handler \in [Handlers -> {"idle", "put", "full", "again"}]
  /\ queue \in 0..QueueMax
  /\ watched \in 0..queue
  /\ writer \in {"idle", "frame", "write"}
  /\ owed \in Nat
  /\ traffic \in Directions

(* "Drop oldest to make room": whatever handlers and writer do in between, *)
(* each frame dropped from a full queue has made room for a newer one that *)
(* was accepted, or a handler is still about to put one; none is dropped   *)
(* for nothing, not even where the handler that dropped it ends with 503.  *)
NoneDroppedForNothing == owed <= Cardinality({h \in Handlers : handler[h] = "again"})

(* No frame stays in the queue: a port that is closed, breaks, or never    *)
(* opens neither stops the writer nor keeps old telemetry for later.       *)
FramesLeave == watched > 0 ~> watched = 0
================================================================================

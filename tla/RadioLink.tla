------------------------------- MODULE RadioLink -------------------------------
(***************************************************************************)
(* The sticks of the radio, from the receiver to the virtual transmitter.  *)
(*                                                                         *)
(* elrs_telemetry/service.py reads RC frames from the receiver and         *)
(* broadcasts them over a WebSocket; a client that connects is first sent  *)
(* a snapshot of the last frame.  drone_bridge/translator.py keeps the     *)
(* last message it heard and posts it to /control/command fifty times a    *)
(* second while it is not older than LINK_LOSS_S.  The virtual transmitter *)
(* follows a command for as long as it is held and then centres, as in     *)
(* VirtualTX, of which only the ordering and the hold are kept here.       *)
(*                                                                         *)
(* Time is kept as ages and as times left, in ticks, so that behaviours go *)
(* on for ever; an age stops growing where no comparison tells it apart.   *)
(* A tick (a tenth of a second and more) is long for the steps that move a *)
(* message between processes of the drone, and passes only when none of    *)
(* them is under way; an HTTP request takes any time.  Of a frame only the *)
(* arm switch and its age are kept.  The overrides and injections of the   *)
(* bench are left out.                                                     *)
(***************************************************************************)
EXTENDS Naturals, Sequences

CONSTANTS
  Conns,           (* bound: WebSocket connections at once                 *)
  NoConn,          (* the translator is not connected                      *)
  Switches,        (* positions of the arm switch: whether it is up        *)
  Period,          (* 1 / WS_CHANNELS_HZ                                   *)
  LinkLoss,        (* LINK_LOSS_S                                          *)
  StallLimit,      (* WS_FRAME_STALL_S                                     *)
  Reconnect,       (* WS_RECONNECT_S                                       *)
  MaxBackoff,      (* longest wait before a connection is tried again      *)
  PostTimeout,     (* how long the sender waits for an answer              *)
  Hold,            (* duration of a command                                *)
  CommandTimeout,  (* command_timeout of the virtual transmitter           *)
  MaxPosted,       (* bound: commands on their way                         *)
  MaxFaults        (* bound: failed sends, breaks and restarts             *)

ASSUME ConstantsOK ==
  /\ NoConn \notin Conns
  /\ Switches \subseteq BOOLEAN
  /\ {Period, LinkLoss, StallLimit, Reconnect, MaxBackoff, PostTimeout, Hold,
      CommandTimeout, MaxPosted, MaxFaults} \subseteq Nat
  /\ Period <= LinkLoss
  /\ Reconnect <= MaxBackoff

VARIABLES
  radio,     (* whether the receiver delivers frames                       *)
  chan,      (* LinkState: the last frame                                  *)
  bcast,     (* ticks since the last broadcast, _last_ch_bcast             *)
  clients,   (* WSBroker.clients                                           *)
  reader,    (* reader thread of the service                               *)
  handler,   (* thread of each connection, _ws_loop                        *)
  wire,      (* messages on each connection                                *)
  open,      (* the ends of each connection that are open                  *)
  ws,        (* WebSocket reader of the translator                         *)
  seen,      (* TranslatorState: the last message heard                    *)
  heard,     (* ticks since last_rc_ts                                     *)
  sender,    (* ticks the sender still waits for an answer, 0: it is free  *)
  posted,    (* /control/command requests on their way                     *)
  vtx,       (* the virtual transmitter                                    *)
  faults,    (* bound: faults so far                                       *)
  silence    (* history: ticks since any message was heard                 *)

service == << chan, bcast, clients, reader, handler >>
translator == << ws, seen, heard, sender >>
vars == << radio, service, wire, open, translator, posted, vtx, faults, silence >>

(* Sticks are followed no longer than this after the last message.         *)
Longest == LinkLoss + CommandTimeout + Hold + 1

Ends == {"client", "server"}

NoFrame == [armed |-> FALSE, age |-> LinkLoss + 1, via |-> "none"]
Idle == [at |-> "idle"]
NoHandler == [at |-> "none"]

(* An age one tick later; one that is over its limit stays so.             *)
Older(age, limit) == IF age <= limit THEN age + 1 ELSE age
OlderFrame(f) == [f EXCEPT !.age = Older(@, LinkLoss)]
Less(left) == IF left > 0 THEN left - 1 ELSE 0

Init ==
  /\ radio \in BOOLEAN
  /\ chan = NoFrame
  /\ bcast = Period
  /\ clients = {}
  /\ reader = Idle
  /\ handler = [c \in Conns |-> NoHandler]
  /\ wire = [c \in Conns |-> << >>]
  /\ open = [c \in Conns |-> {}]
  /\ ws = [at |-> "sleep", conn |-> NoConn, left |-> 0, backoff |-> Reconnect]
  /\ seen = NoFrame
  /\ heard = LinkLoss + 1
  /\ sender = 0
  /\ posted = {}
  /\ vtx = [phase |-> "ready", newest |-> CommandTimeout + 1, held |-> 0]
  /\ faults = 0
  /\ silence = Longest + 1

-----------------------------------------------------------------------------
(* The service: reader thread and broker *)

(* A broadcast with clients to send to, to drop, or neither.               *)
Sending(msg, todo, dead) ==
  IF todo \cup dead = {} THEN Idle
  ELSE [at |-> "send", msg |-> msg, todo |-> todo, dead |-> dead]

\* Mutant: a frame that is held back counts as a broadcast.
SinceBroadcast_AnyFrame == 0

SinceBroadcast == IF bcast < Period THEN bcast ELSE 0

(* _handle_frame and _maybe_broadcast_channels: the frame is stored, and   *)
(* broadcast unless the last broadcast was less than a period ago.         *)
RcFrame(armed) ==
  LET frame == [armed |-> armed, age |-> 0, via |-> "broadcast"]
  IN /\ radio
     /\ reader = Idle
     /\ chan' = frame
     /\ bcast' = SinceBroadcast
     /\ reader' = IF bcast < Period THEN Idle ELSE Sending(frame, clients, {})
     /\ UNCHANGED << radio, clients, handler, wire, open, translator, posted, vtx,
                     faults, silence >>

(* One send of WSBroker.broadcast; it fails on a connection that is closed *)
(* and may fail on any.                                                    *)
SendTo(c) ==
  /\ reader.at = "send" /\ c \in reader.todo
  /\ open[c] = Ends
  /\ wire' = [wire EXCEPT ![c] = Append(@, reader.msg)]
  /\ reader' = Sending(reader.msg, reader.todo \ {c}, reader.dead)
  /\ UNCHANGED << radio, chan, bcast, clients, handler, open, translator, posted,
                  vtx, faults, silence >>

SendFails(c) ==
  /\ reader.at = "send" /\ c \in reader.todo
  /\ IF open[c] = Ends
     THEN faults < MaxFaults /\ faults' = faults + 1
     ELSE UNCHANGED faults
  /\ reader' = Sending(reader.msg, reader.todo \ {c}, reader.dead \cup {c})
  /\ UNCHANGED << radio, chan, bcast, clients, handler, wire, open, translator,
                  posted, vtx, silence >>

(* Clients whose send failed are taken off the list and then closed.       *)
DropDead(c) ==
  /\ reader.at = "send" /\ reader.todo = {} /\ c \in reader.dead
  /\ clients' = clients \ {c}
  /\ reader' = [reader EXCEPT !.at = "close", !.todo = {c}]
  /\ UNCHANGED << radio, chan, bcast, handler, wire, open, translator, posted, vtx,
                  faults, silence >>

\* Mutant: a client that was dropped is not closed.
ClosedBy_Nothing(c) == open

ClosedBy(c) == [open EXCEPT ![c] = @ \ {"server"}]

CloseDead(c) ==
  /\ reader.at = "close" /\ c \in reader.todo
  /\ open' = ClosedBy(c)
  /\ reader' = Sending(reader.msg, {}, reader.dead \ {c})
  /\ UNCHANGED << radio, chan, bcast, clients, handler, wire, translator, posted,
                  vtx, faults, silence >>

-----------------------------------------------------------------------------
(* The service: one thread for each connection, _ws_loop *)

Register(c) ==
  /\ handler[c].at = "add"
  /\ clients' = clients \cup {c}
  /\ handler' = [handler EXCEPT ![c].at = "snap"]
  /\ UNCHANGED << radio, chan, bcast, reader, wire, open, translator, posted, vtx,
                  faults, silence >>

Snapshot(c) ==
  /\ handler[c].at = "snap"
  /\ handler' = [handler EXCEPT ![c] =
                   IF chan = NoFrame THEN [at |-> "serve"]
                   ELSE [at |-> "send", msg |-> [chan EXCEPT !.via = "snapshot"]]]
  /\ UNCHANGED << radio, chan, bcast, clients, reader, wire, open, translator,
                  posted, vtx, faults, silence >>

SendSnapshot(c) ==
  /\ handler[c].at = "send"
  /\ open[c] = Ends
  /\ wire' = [wire EXCEPT ![c] = Append(@, handler[c].msg)]
  /\ handler' = [handler EXCEPT ![c] = [at |-> "serve"]]
  /\ UNCHANGED << radio, chan, bcast, clients, reader, open, translator, posted,
                  vtx, faults, silence >>

(* The connection is closed at either end: the thread leaves the broker.   *)
Leave(c) ==
  /\ handler[c].at \in {"send", "serve"}
  /\ open[c] # Ends
  /\ clients' = clients \ {c}
  /\ open' = [open EXCEPT ![c] = @ \ {"server"}]
  /\ handler' = [handler EXCEPT ![c] = NoHandler]
  /\ UNCHANGED << radio, chan, bcast, reader, wire, translator, posted, vtx, faults,
                  silence >>

-----------------------------------------------------------------------------
(* The translator: WebSocket reader *)

(* A connection no process refers to any more.                             *)
Unused(c) ==
  /\ handler[c] = NoHandler
  /\ open[c] = {}
  /\ reader # Idle => c \notin reader.todo \cup reader.dead

(* Waits before the next try, twice as long each time it has to.           *)
Asleep ==
  [at |-> "sleep", conn |-> NoConn, left |-> ws.backoff,
   backoff |-> IF 2 * ws.backoff < MaxBackoff THEN 2 * ws.backoff ELSE MaxBackoff]

Connect(c) ==
  /\ ws.at = "sleep" /\ ws.left = 0
  /\ Unused(c)
  /\ ws' = [at |-> "recv", conn |-> c, left |-> StallLimit, backoff |-> Reconnect]
  /\ open' = [open EXCEPT ![c] = Ends]
  /\ handler' = [handler EXCEPT ![c] = [at |-> "add"]]
  /\ UNCHANGED << radio, chan, bcast, clients, reader, wire, seen, heard, sender,
                  posted, vtx, faults, silence >>

ConnectFails ==
  /\ ws.at = "sleep" /\ ws.left = 0
  /\ faults < MaxFaults
  /\ faults' = faults + 1
  /\ ws' = Asleep
  /\ UNCHANGED << radio, service, wire, open, seen, heard, sender, posted, vtx,
                  silence >>

Receive ==
  /\ ws.at = "recv" /\ wire[ws.conn] # << >>
  /\ seen' = Head(wire[ws.conn])
  /\ heard' = 0
  /\ silence' = 0
  /\ ws' = [ws EXCEPT !.left = StallLimit]
  /\ wire' = [wire EXCEPT ![ws.conn] = Tail(@)]
  /\ UNCHANGED << radio, service, open, sender, posted, vtx, faults >>

(* The translator hangs up: nothing was heard for too long, or the service *)
(* has closed the connection.                                              *)
HangUp ==
  /\ ws.at = "recv" /\ wire[ws.conn] = << >>
  /\ ws.left = 0 \/ "server" \notin open[ws.conn]
  /\ open' = [open EXCEPT ![ws.conn] = @ \ {"client"}]
  /\ ws' = Asleep
  /\ UNCHANGED << radio, service, wire, seen, heard, sender, posted, vtx, faults,
                  silence >>

-----------------------------------------------------------------------------
(* The translator: sender *)

\* Mutant: the guard is taken off.
LinkAlive_Always == seen # NoFrame

LinkAlive == heard <= LinkLoss

(* One iteration of _control_sender_loop that sends.  How fresh the sticks *)
(* are, and how they came, is noted for the properties.                    *)
SendCommand ==
  /\ \A p \in posted : ~ p.awaited
  /\ LinkAlive
  /\ seen.armed
  /\ \E slot \in 1..MaxPosted :
       /\ \A p \in posted : p.slot # slot
       /\ posted' = posted \cup {[slot |-> slot, age |-> 0, awaited |-> TRUE,
                                   fresh |-> seen.age <= LinkLoss, via |-> seen.via]}
  /\ sender' = PostTimeout
  /\ UNCHANGED << radio, service, wire, open, ws, seen, heard, vtx, faults, silence >>

(* The request times out at its sender, and may arrive all the same.       *)
PostTimesOut ==
  /\ sender = 0
  /\ \E p \in posted : p.awaited
  /\ posted' = {[p EXCEPT !.awaited = FALSE] : p \in posted}
  /\ UNCHANGED << radio, service, wire, open, translator, vtx, faults, silence >>

Answer(p) == sender' = IF p.awaited THEN 0 ELSE sender

PostLost(p) ==
  /\ p \in posted
  /\ posted' = posted \ {p}
  /\ Answer(p)
  /\ UNCHANGED << radio, service, wire, open, ws, seen, heard, vtx, faults, silence >>

-----------------------------------------------------------------------------
(* The virtual transmitter *)

\* Mutant: the age of a command is not looked at.
Accepts_AnyAge(p) == p.age <= vtx.newest

Accepts(p) == p.age <= CommandTimeout /\ p.age <= vtx.newest

SetInput(p) ==
  /\ p \in posted
  /\ posted' = posted \ {p}
  /\ Answer(p)
  /\ vtx' = IF Accepts(p)
            THEN [phase |-> "following", newest |-> p.age, held |-> 0] ELSE vtx
  /\ UNCHANGED << radio, service, wire, open, ws, seen, heard, faults, silence >>

HoldOver == vtx.phase = "following" /\ vtx.held > Hold

Expire ==
  /\ HoldOver
  /\ vtx' = [vtx EXCEPT !.phase = "failsafe", !.held = 0]
  /\ UNCHANGED << radio, service, wire, open, translator, posted, faults, silence >>

-----------------------------------------------------------------------------
(* Faults and time *)

Fault == faults < MaxFaults /\ faults' = faults + 1

(* The radio goes out of range, or its USB port goes; and comes back.      *)
RadioLost ==
  /\ radio
  /\ radio' = FALSE
  /\ UNCHANGED << service, wire, open, translator, posted, vtx, faults, silence >>

RadioBack ==
  /\ ~ radio
  /\ radio' = TRUE
  /\ UNCHANGED << service, wire, open, translator, posted, vtx, faults, silence >>

(* A connection breaks.                                                    *)
Break(c) ==
  /\ open[c] # {}
  /\ Fault
  /\ open' = [open EXCEPT ![c] = {}]
  /\ UNCHANGED << radio, service, wire, translator, posted, vtx, silence >>

(* The service starts again with nothing known of the radio.               *)
ServiceRestart ==
  /\ Fault
  /\ chan' = NoFrame
  /\ bcast' = Period
  /\ clients' = {}
  /\ reader' = Idle
  /\ handler' = [c \in Conns |-> NoHandler]
  /\ open' = [c \in Conns |-> open[c] \ {"server"}]
  /\ UNCHANGED << radio, wire, translator, posted, vtx, silence >>

(* So does the translator; requests it has sent go on.                     *)
BridgeRestart ==
  /\ Fault
  /\ ws' = [at |-> "sleep", conn |-> NoConn, left |-> 0, backoff |-> Reconnect]
  /\ seen' = NoFrame
  /\ heard' = LinkLoss + 1
  /\ sender' = 0
  /\ posted' = {[p EXCEPT !.awaited = FALSE] : p \in posted}
  /\ open' = [c \in Conns |-> open[c] \ {"client"}]
  /\ wire' = [c \in Conns |-> << >>]
  /\ UNCHANGED << radio, service, vtx, silence >>

(* Nothing inside the drone is under way, no timer has run out, and the    *)
(* radio, while it is there, has sent a frame (it sends fifty a second).   *)
Settled ==
  /\ radio => chan.age = 0
  /\ reader = Idle
  /\ \A c \in Conns : wire[c] = << >> /\ handler[c].at \in {"none", "serve"}
  /\ ws.left > 0
  /\ ~ HoldOver
  /\ (\E p \in posted : p.awaited) => sender > 0

Tick ==
  /\ Settled
  /\ chan' = OlderFrame(chan)
  /\ bcast' = IF bcast < Period THEN bcast + 1 ELSE bcast
  /\ ws' = [ws EXCEPT !.left = Less(@)]
  /\ seen' = OlderFrame(seen)
  /\ heard' = Older(heard, LinkLoss)
  /\ sender' = Less(sender)
  /\ posted' = {[p EXCEPT !.age = Older(@, CommandTimeout)] : p \in posted}
  /\ vtx' = [vtx EXCEPT !.newest = Older(@, CommandTimeout),
                        !.held = IF vtx.phase = "following" THEN @ + 1 ELSE @]
  /\ silence' = Older(silence, Longest)
  /\ UNCHANGED << radio, clients, reader, handler, wire, open, faults >>

ReaderStep ==
  \/ \E armed \in Switches : RcFrame(armed)
  \/ \E c \in Conns : SendTo(c) \/ SendFails(c) \/ DropDead(c) \/ CloseDead(c)

HandlerStep(c) == Register(c) \/ Snapshot(c) \/ SendSnapshot(c) \/ Leave(c)

TranslatorStep == (\E c \in Conns : Connect(c)) \/ ConnectFails \/ Receive \/ HangUp

Next ==
  \/ ReaderStep
  \/ \E c \in Conns : HandlerStep(c)
  \/ TranslatorStep
  \/ SendCommand \/ PostTimesOut
  \/ \E p \in posted : PostLost(p) \/ SetInput(p)
  \/ Expire
  \/ RadioLost \/ RadioBack
  \/ \E c \in Conns : Break(c)
  \/ ServiceRestart \/ BridgeRestart
  \/ Tick

Spec == Init /\ [][Next]_vars

(***************************************************************************)
(* Threads and tasks run on, frames are read while the receiver delivers   *)
(* them, and time passes.  Nothing is assumed of requests and faults.      *)
(***************************************************************************)
Fairness ==
  /\ WF_vars(ReaderStep)
  /\ \A c \in Conns : WF_vars(HandlerStep(c))
  /\ WF_vars(TranslatorStep)
  /\ WF_vars(PostTimesOut)
  /\ WF_vars(Expire)
  /\ WF_vars(Tick)

FairSpec == Spec /\ Fairness

-----------------------------------------------------------------------------
(* Properties *)

Ways == {"broadcast", "snapshot", "none"}

Frames == [armed : BOOLEAN, age : 0..LinkLoss + 1, via : Ways]
Broadcasts == [armed : BOOLEAN, age : {0}, via : {"broadcast"}]
Snapshots == [armed : BOOLEAN, age : 0..LinkLoss + 1, via : {"snapshot"}]
Messages == Broadcasts \cup Snapshots

(* Every variable keeps its type: broadcasts are sent as fresh as they     *)
(* are read, and only a connection's own thread sends what it remembers.   *)
TypeOK ==
  /\ radio \in BOOLEAN
  /\ chan \in Frames
  /\ bcast \in 0..Period
  /\ clients \subseteq Conns
  /\ reader \in {Idle} \cup [at : {"send", "close"}, msg : Broadcasts,
                            todo : SUBSET Conns, dead : SUBSET Conns]
  /\ handler \in [Conns -> [at : {"none", "add", "snap", "serve"}]
                           \cup [at : {"send"}, msg : Snapshots]]
  /\ wire \in [Conns -> Seq(Messages)]
  /\ open \in [Conns -> SUBSET Ends]
  /\ ws \in [at : {"sleep"}, conn : {NoConn}, left : Nat, backoff : 0..MaxBackoff]
           \cup [at : {"recv"}, conn : Conns, left : Nat, backoff : 0..MaxBackoff]
  /\ seen \in Frames
  /\ heard \in 0..LinkLoss + 1
  /\ sender \in 0..PostTimeout
  /\ posted \subseteq [slot : 1..MaxPosted, age : 0..CommandTimeout + 1,
                      awaited : BOOLEAN, fresh : BOOLEAN, via : Ways]
  /\ vtx \in [phase : {"ready", "following", "failsafe"},
              newest : 0..CommandTimeout + 1, held : 0..Hold + 1]
  /\ faults \in 0..MaxFaults
  /\ silence \in 0..Longest + 1

(* The link-loss guard as far as it goes: a command whose sticks left the  *)
(* radio longer than LINK_LOSS_S ago was taken from a snapshot, the message*)
(* a new connection begins with; no broadcast outlives the guard.          *)
StaleOnlyFromSnapshot ==
  \A p \in posted : ~ p.fresh => p.via = "snapshot"

(* "If we stop seeing channel updates, we STOP calling /control/command":  *)
(* no command carries sticks older than the guard allows.                  *)
CommandsAreFresh == \A p \in posted : p.fresh

(* Translator, request and virtual transmitter together: however requests  *)
(* are delayed, repeated or given up, sticks are followed no longer than   *)
(* the guard, the age limit and the hold allow after the last message.     *)
FollowsRecent ==
  vtx.phase = "following" => silence <= Longest

(* No client is left connected and forgotten: while its thread serves it   *)
(* and both ends are open, the broker sends to it or is dropping it.       *)
NoLimbo ==
  \A c \in Conns :
    handler[c].at = "serve" /\ open[c] = Ends /\ c \notin clients
      => reader.at = "close" /\ c \in reader.todo

(* After any faults, once the radio is back for good, the translator hears *)
(* its broadcasts again and again.                                         *)
HeardAgain == <>[]radio => []<>(heard = 0 /\ seen.via = "broadcast")
===============================================================================

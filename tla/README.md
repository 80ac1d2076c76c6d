# NovaROS drone control: verification project

TLA+ models, TLC runs and TLAPS proofs for the companion-computer software of
this repository: the API gateway and virtual transmitter (ROS 2 nodes), the
detector that follows a target in the camera's pictures, the BLE bridge that
turns a radio's channels into commands and serves a phone, and the ELRS serial
service that reads the radio. Paths below are relative to the repository root. `DC`
stands for `ros2/src/drone_control/drone_control`, `DB` for
`modules/drone_bridge`, `EL` for `modules/elrs_telemetry`.

Contents

1. The system
2. Modules and how they correspond to the code
3. Runs, bounds, what they show
4. Fairness
5. Proofs
6. What disagrees with the documentation
7. What is only model-checked, what is not modelled
8. Plan
9. Running it

## 1. The system

Four processes on the companion computer talk over local HTTP and WebSockets,
to a phone over radio and BLE, and to the flight controller (FC) over MAVROS:

    phone --ELRS radio--> receiver --serial--> EL/service.py
                                                   | /ws/channels
    phone --BLE-------------------------------> DB (translator, vision lock, RPC)
                                                   | HTTP
    web page, remote station --HTTP--> DC/api_gateway.py --calls--> virtual_tx, telemetry, ...
                                          ^   | frames, /lock, /state
                                          |   v
                                       DC/detector.py (a process of its own)
                                                   | MAVROS services, RC override topic
                                                  FC (ArduPilot)

### Inventory

For each component: its state (S), operations (O), interactions (I), hard
behaviours (H) and what makes it correct (C).

**Virtual transmitter** (`DC/virtual_tx.py`).
S: enabled, hold expiry, newest accepted timestamp, failsafe flags, raw, smoothed
and output value of each channel, one lock.
O: `set_input`, `enable`, `disable`, `stop`, the 50 Hz publish loop.
I: called by any API thread; publishes `OverrideRCIn`; reads telemetry's mode.
H: `set_input` and the loop read the clock before they take the lock; commands
arrive out of order from clients with skewed clocks; disable races with an
iteration already waiting.
C: no override after a release; newest command in force; the failsafe never
early, never late, ends centred; no jump; no old stick after an enable.

**Arming and disarming** (`DC/api_gateway.py:392-733`).
S: `_svc_lock`; per thread the stage of a request; the FC behind it.
O: /arm, /disarm, /disarm/force, /mode, /control/arm, /control/disarm,
/control/enable, /control/disable, /control/command.
I: telemetry (what the FC last reported), virtual transmitter, MAVROS services.
H: a command given up after its timeout may still be carried out;
/control/disarm gives the lock back between its two attempts; checks are made on
old telemetry and before the wait for the lock, which may outlast the throttle's hold.
C: one command at a time; no arming without a throttle source; no second arming;
every request answered.

**Service clients** (`api_gateway.py:79-380`, `1847-1908`).
S: nine clients, made together; cooldown of a rebuild; reboot window; `_svc_lock`.
O: `_call_service`; rebuild after a timeout, after a reconnect that telemetry saw,
after a reboot that was asked for, and by /system/reconnect_mavros.
I: MAVROS, which gives its services new identities when the FC comes back.
H: the rebuild needs the lock its cause still holds; a reboot nobody saw; cooldown
and window each suppress the rebuild that would help.
C: calls stop waiting on dead services; every request is answered.

**Missions** (`api_gateway.py:451-523`, `DC/mission.py`).
S: the mission on the FC. O: clear, push, AUTO, arm under one hold of the lock;
delete. H: each step may fail, time out, be done in part or done after it was given
up. C: what is flown is what this request uploaded.

**Parameters, safety, geofence** (`api_gateway.py:1425-1486`, `2010-2420`).
S: parameters of the FC. O: /params, /safety/rc, gcs, battery, options, defaults,
fence polygon. H: a batch is set one by one and may stop half way; /params may set
one battery tier beside it; /safety/options reads the mask in one section of the lock
and writes it in another.
C: half a batch is never reported as written; hidden bits survive.

**Calibration** (`api_gateway.py:1652-1997`). Refused while armed, one command each.

**Translator** (`DB/translator.py`).
S: last channels and when they came; last position of CH5, CH6, CH7; back-off.
O: WebSocket reader with a stall timer and reconnects; edge detection, each edge
posted by a task of its own; stick sender with the link-loss guard.
H: tasks finish in any order, POSTs fail or time out late, restarts lose the
switches, a snapshot looks fresh.
C: sticks stop when the radio stops; an edge acts once; a restart is no edge.

**Vision lock** (`DB/vision_lock.py`).
S: selection phase, candidate, frozen box and its time, debounce countdown, ESCAPE
exchange, previous code and source, tasks.
O: one handler per frame; ENGAGE task (probe, decide, post); button and source posts.
H: radio drift, ESCAPE exchanges and time-outs between any frames; state read
before an await and used after it; independent posts reordered.
C: no fabricated code; only a held box is engaged; one press, one action;
routers show the selection.

**Source routers and engage endpoints** (`api_gateway.py:934-1142`, `1254-1417`,
`DC/vtx_broadcast.py`).
S: active source and last good frame of each source, one lock; what is asked of the
detector. O: switch, snapshot, stream, engage, cancel.
I: `camera`, and the detector over HTTP with time-outs.
H: a slow source is asked outside the lock; the stream asks on the event loop, and
holds it up, while the detector asks that loop for frames.
C: nobody gets a frame of another source; everybody is answered.

**Detector and tracker** (`DC/detector.py`).
S: newest frame; one-slot lock request; target with its correlation filter, drift
and loss counters; last picture. O: grabber, loop, /state, /lock, /frame.
H: requests on top of each other; a filter that learns from wrong frames; several
ways to count a lost frame.
C: the newest request takes effect; the filter recovers; a lost lock ends.

**Precision landing** (`DC/precision_land.py`). Phase written by start, abort and
the control thread without a common lock. It can no longer start: it asks
`camera.get_frame` (camera.py:345-348) for the camera "landing", which
`camera.CAMERAS` (camera.py:58-83) does not hold any more; it therefore stands
late in the plan.

**Cameras and streams** (`DC/camera.py`). S: last frame of each camera, capture
threads. O: open, read, back off. H: the capture program ends, the device goes.
C: a camera that comes back is read again.

**Telemetry** (`DC/telemetry.py`), **compass calibration** (`DC/compass_cal.py`),
**ROS nodes**: last-value stores, a record of progress, process set-up.

**ELRS serial service** (`EL/service.py`).
S: last frame, throttling times, broker's client list, transmit queue, token bucket.
O: reader thread, broker, one thread per connection, HTTP posts, writer thread.
H: a client is dropped while its own thread is sending the snapshot, failed sends; a
full queue from which handlers drop and the writer takes; a port that goes.
C: no client connected and forgotten; the feed resumes; no frame dropped for nothing;
none stays in the queue.

**Serial multiplexer** (`EL/mux.py`). S: a decoder fed byte by byte, kept over
reconnects. H: it may start anywhere in the stream, and payloads contain its magic
bytes. C: in step it stays in step; out of step it skips no more than a bounded
number of bytes between one beginning it takes and the next (how often it takes a false
one depends on the payloads).

**CRSF codec** (`EL/crsf.py`): packing of bit fields.
**Telemetry producers, producer safety** (`EL/tools`): scripts that poll and post;
a pid file two starters may race for.

**BLE server and RPC** (`DB/ble.py`, `DB/gatt.py`, `DB/rpc.py`, `DB/services.py`).
S: what is registered with BlueZ, what the watchdog believes of it; buffers of
unfinished requests; a lock for answers; one characteristic value.
O: start, watchdog round, reads and writes of centrals, subscriptions, answers in
paced fragments. I: BlueZ over D-Bus, asynchronously; one event loop.
H: connections, releases, restarts of bluetoothd between the steps of a round;
fragments without numbers; one reassembler for every central; a central that goes
while it is answered.
C: the drone can be found again; a served request is what a central sent; answers
are not mixed; a central that stays hears the answer to its request from the start.

**Telemetry pump** (`DB/pump.py` and others), **firmware**, **web page**,
**installation scripts**: see section 7.

`PROJECT.json` lists the same components with their status, and every hazard at
its line with the properties that watch it.

## 2. Modules and how they correspond to the code

Convention: an action is one atomic section of the code (between two points
where another thread, task or message can interfere). Handlers that read
something before a lock or an await are split there and nowhere else. Time is a
count of ticks (or an age in ticks). "History" variables are written by actions
and read by properties only. Operators whose comment starts with "Mutant" are
wrong variants of a definition that no specification uses; each was put in its
place once to see that a property notices.

| Module | Models | Lines of code |
|---|---|---|
| `VirtualTX` | virtual transmitter, its API threads and publish thread | `DC/virtual_tx.py` |
| `FailsafeContract` | what the transmitter promises, abstractly | - |
| `OpsCode` | channel 8-12 decoding arithmetic | `DB/vision_lock.py:201-355` |
| `VisionLock` | frame handler, tasks, routers, detector target | `DB/vision_lock.py:480-1055` |
| `ArmControl` | edges, requests, `_svc_lock`, MAVROS commands, FC | `DB/translator.py:300-374`, `api_gateway.py:79-733` |
| `FcWrites` | missions, parameters, other commands, service clients, reboots | `api_gateway.py:66-523,1425-2420` |
| `RadioLink` | channel feed, broker, translator reader and sender, hold | `EL/service.py:60-235,541-569`, `DB/translator.py:125-261` |
| `MuxDecoder` | serial stream, reader thread, decoder | `EL/mux.py`, `EL/service.py:256-334` |
| `ElrsService` | `MuxDecoder` with posts, queue and writer | `EL/service.py:157-364,585-720` |
| `BleServer` | registration, watchdog, requests, answers | `DB/ble.py`, `DB/gatt.py`, `DB/rpc.py` |
| `VideoFeed` | camera, router, stream, grabber, /frame | `DC/camera.py:111-287`, `DC/vtx_broadcast.py`, `api_gateway.py:931-1087` |
| `DetectorLock` | `VideoFeed` with the detector's loop and engage requests | `DC/detector.py`, `api_gateway.py:1254-1393` |
| `MC_*` | small instances | - |
| `*_proofs` | theorems | - |

**VirtualTX.** `BeginSetInput` is `set_input` up to the lock (age judged, clock
read), `AcceptInput`/`RefuseInput` the locked rest. `BeginLoop` reads the clock;
`SkipLoop` and `PublishLoop` are the locked section for a disabled and an enabled
transmitter. `Enable` and `Disable` are one action each; `stop()` disables (`Stop`) and
then ends the loop (`StopLoop`): an `Enable` in between is accepted. A channel is a
record of raw, smoothed and output value; roll, pitch and yaw run the same code and
are one channel. Expo and smoothing are floating-point functions: a shaped or
smoothed value is any value between the ends the function keeps (`Shaped`,
`Filtered`). The clock is monotone although the code uses `time.time()`.

**FailsafeContract** has the phases off, ready, following, failsafe. `VirtualTX`
implements it under the mapping in its last definition.

**OpsCode** keeps every constant of the wire format: pulse widths, guard bands,
the rounding of Python's `round` (half to even), the codes at every fourth position.

**VisionLock.** `Frame` chooses what the phone sends and what the radio does to it;
`OnChannels` is the whole of `on_channels` for that frame: decoding, selection,
ESCAPE, dispatch. Tasks start in it and are continued by `AnswerProbe`,
`CommitEngage`, `RejectEngage`, `Deliver`, `Fail`. The code starts tasks without a limit;
`Tasks` bounds them, only in frames that start one. `scenario`, chosen at the start, bounds
what the phone sends and which tasks there are. Two boxes are equal when their
overlap reaches the threshold of the code; the overlap itself is arithmetic left out.
The histories `asked`, `newest` and `missed` keep the source the phone asked for, the
POSTs of the last switch, and the routers whose newest POST failed or was overtaken.

**ArmControl.** `Frame` is one call of `EdgeEventHandler.on_channels`; a request is
counted in `posted` until a thread takes it (`Handle`) or it is lost. A thread's
record has the stage it is in; one action leads from each stage to the next. A
command at the FC is executed, refused or lost; when its caller gives up
(`TimeOut`) it moves to `late` and may still be executed. `telem` follows `fc` only
with `StateReport` and `RcReport`. The transmitter has the states of its contract,
failsafe included: the hold of its last command ends (`HoldExpires`) at any moment but
in the 50 ms between a priming and the wait for the lock (`PauseOver`). A command, the
priming one too, may be refused for its timestamp (`VtxAfter`, `PrimeVtx`).

**RadioLink.** The reader thread's broadcast is one action for each client
(`SendTo`, `SendFails`), then `DropDead` and `CloseDead` for each dead one. The
thread of a connection is `Register`, `Snapshot`, `SendSnapshot`, `Leave`. A
connection has two ends that close separately. A message carries its arm
switch, the age of its frame and whether it is a broadcast or a snapshot. The
translator's reader is `Connect`, `ConnectFails`, `Receive`, `HangUp`; its sender
`SendCommand`, `PostTimesOut`. The virtual transmitter is enabled throughout and
reduced to the age of the newest command and the time it has been held. Time is
kept as ages, capped one above the largest limit they are compared with, so that
behaviours are infinite and liveness is meaningful. A tick stands for a tenth of a
second and more: it does not pass while a message moves inside the companion
computer, but it does while an HTTP request waits.

`ArmControl` and `RadioLink` compose several processes; they share the translator
(edges in one, sticks in the other) and the transmitter (its contract in one,
ordering and hold in the other), so that neither repeats `VirtualTX`.

**FcWrites.** A request is a script: the calls it makes, in the order of its handler
(`Calls`), after which of them it gives the lock back (`EndsSection`) and which may
fail without ending it (`Optional`). `Handle`, `Acquire`, `Send`, an answer
(`Execute`, `Refuse`), `TimeOut`, `Continue` and `Answer` lead every request through
its script. `clients` is the identity of the MAVROS services that the clients were
made for; a call on others is never answered. The threads that make clients anew
wait for the lock (`Rebuild`, `Recreate`); cooldown and reboot window are flags
that a timer ends. A call given up may be carried out later (`late`). /params
writes any one parameter: the mask ("param") or a battery tier alone ("tier"), without
the check of their order that /safety/battery makes.

**MuxDecoder, ElrsService.** A byte is one action (`Byte`): the state of the decoder
and what is left of the packet on the wire change together. After a reconnect the
stream begins in the middle of a packet (`Anywhere`). The history variable `adrift`
counts the bytes since the decoder, out of step, last began something false.
`ElrsService` adds handlers (`Accept`, `Put`,
`DropOldest`, `PutAgain`, `NoRoom`: the calls of `queue.Queue` in `_enqueue`) and the
writer (`Get`, `Discard`, `Encode`, `Write`). One frame of the queue may be watched.

**BleServer.** A call to BlueZ is two steps, BlueZ's (which leaves a reply) and the
bridge's (which reads it); in between, everything else may happen. `wd` is where
`start()` or the watchdog is; its rounds and branches are those of `_watchdog`. A
fragment is a triple of session, request id and number: a body is a sequence of them,
so that a mixture shows. `quiet` and `torn` remember what no callback tells.

**VideoFeed, DetectorLock.** A reader of the router is idle, fetching, back with a frame,
or about to be answered; a frame is known by the source it came from. The stream is a
reader on the event loop: while it reads, `Blocked` stops every step that needs that loop:
the replies. Handlers written with `def` run in worker threads and go on: a switch, a
fetch, a call to the detector. In the detector a frame is taken and worked on in two steps
(`Take`, `Publish`); what the frame shows - the target in the filter's reach or not, no
detection, one near or one far away - is chosen anew for each, in place of the image
arithmetic. `Tracked` gives what becomes of the target. The filter is clean, spoiled,
absent, or "unbuilt": its initialisation raised and the exception was swallowed, after a
rewind (`Rewound`) or a new detection (`Recovered`). What an unbuilt filter does when used
is OpenCV's: it finds nothing, or raises and with it ends the loop (`LoopEnds`). A request
is watched (`wanted`) until it is in effect.

## 3. Runs, bounds, what they show

| Run | Instance | Shows |
|---|---|---|
| `vtx_failsafe` | 1 thread, 2 inputs, durations 0 and 1, hold and non-hold mode, 7 ticks, last input at 4 | failsafe neither early nor late; neutral after enable; bounded slew; the failsafe settles |
| `vtx_order` | 2 threads, 2 commands in flight, clocks right or 1 tick behind | no override after release; newest command in force; refinement of the contract |
| `vl_frames` | 6 codes (a source, box, two buttons, ESCAPE, a reserved one), drifts at both margins, 2 boxes, 2 tasks, debounce 2; or 4 codes (two sources, ESCAPE, a reserved one), 4 tasks, POSTs may fail | no fabricated code, held boxes only, one press one action; routers follow, but for a newest POST that failed or was overtaken |
| `arm_switch` | 2 threads, 2 modes, 4 kinds of web request, 3 events | no half-arming, one arming per request, every request answered |
| `radio_link` | 2 connections, 1 fault, 2 requests in flight, armed throughout | guard, expiry of sticks, no forgotten client |
| `radio_returns` | 2 connections, 2 faults, disarmed: no requests | liveness: the radio is heard again |
| `radio_guard` | 2 connections, no fault | *violated*: stale sticks after a stall |
| `ble_link` | 2 sessions, 1 request of 2 fragments each, answers of 2, 1 fault | requests are whole, answers in one piece and heard from the start, found again, requests finish |
| `fc_writes` | 2 threads, 2 writing requests and any number of others, 1 reboot, 1 late command | missions, battery tiers (also written one alone), options mask |
| `fc_clients` | 2 threads, requests without end, 1 mission, 1 reboot | liveness: stale clients are replaced, requests answered |
| `elrs_service` | payloads of up to 2 bytes of {0xFE, 0xCA, '#'}, lines of 1; or 3 handlers, a queue of 2 and the writer | a decoder in step stays so, out of step it skips a bounded number of bytes at a time; no frame dropped for nothing; frames leave |
| `vision_chain` | a viewer, a stream and camera faults; or 2 operators and locks with limits 2 and 3 | own frames only, viewers answered, camera read again; the newest request takes effect, the filter recovers though one may not be built, a lost lock ends |

Why the bounds are enough for what is claimed of them:

- Two threads or connections: the code treats them alike, and every hazard listed
  for them needs two (one inside a section, one outside; one connection being
  dropped while the next is opened). The theorems remove this bound.
- `vtx_failsafe` lets the hold (1), the way to centre (2 steps of 1) and a resumed
  command all happen before tick 7, with the input closed at tick 4 so that the
  failsafe can settle. `Full`, rates and limits are small but different paths are
  all taken: clamping (-3), deadzone, both throttle targets.
- `vl_frames`: debounce 2 lets a box be seen, counted and frozen, broken by another
  box or a gap in each stage; 2 ticks exceed the gate (1) and the ESCAPE timeout (1);
  two tasks let an ENGAGE still be probing when the next button is pressed. Switches of
  the source are behaviours of their own (`scenario`): one starts two POSTs, so four tasks
  are two switches under way at once, each router's POSTs in either order; while they are,
  the next frames may ask for either source, inside an ESCAPE exchange or outside. A
  third switch under way is left to `RoutersAgree`, which holds for any number of tasks.
- `arm_switch`: three events are an arm, a disarm and one interference, the shortest
  history in which a late command meets a newer one.
- `radio_link`: LINK_LOSS_S below WS_FRAME_STALL_S as in the code (0.3 s and 2 s),
  hold and command timeout not longer than it; one fault of any kind at any moment;
  two requests are one given up by its sender and its successor.
- `radio_returns` leaves requests out, for the feed does not wait for them, and
  allows a second fault while the translator recovers from the first.
- `ble_link`: two sessions with the same request id are what a mixture needs, two
  fragments a beginning and an end; a fault (a restart, a failed registration, a lost
  advertisement) may come between any two steps of a watchdog round.
- `fc_writes`: two writes are a writer and the one that overtakes it; a third
  request (a read, which may time out) and a late command from before may be under
  way besides. `fc_clients` needs one reboot: the claim is about what follows the last.
- `elrs_service`: payloads consist of nothing but the bytes that mean something to
  the decoder; MaxPayload 2 and MaxLine 3 make every header valid or too long, and a
  line end or run over. A queue of 2 with three handlers is full while two of them
  drop and put. Traffic one way at a time: the directions share only the port.
- `vision_chain`: viewers and locks in separate behaviours, with the stream and the
  feed in both; they meet only in /frame and the slot, which are always there. Limits of 2 and 3
  lost frames with one predicted let every branch count, and exceed, them (300, 1500
  and 10 in the code); the theorems hold for any limits.

Deadlock is not checked where it is switched off: `VirtualTX` ends at `MaxTime`,
`ArmControl` when its events are used up and its requests answered, and in
`RadioLink` time always goes on (`NoLimbo` and `HeardAgain` look for the standstill
that matters there). `FcWrites` ends when its requests and reboots are used up,
`ElrsService` with an unplugged port and nothing to send, `DetectorLock` without a
camera. `vl_frames` and `ble_link` check it.

Refuting the property by a mutant: for each property of each passing run
`PROJECT.json` names a plausible bug (an age check dropped, a retry after a
timeout, a client not closed, one router forgotten) under which that run fails.

## 4. Fairness

- `VirtualTX!FairSpec`: time passes (strong, because a loop that is under way
  disables it over and over), the publish thread runs on, and a thread inside
  `set_input` gets on. Clients are not fair. Justified by the daemon thread of
  `_run_publish_loop` and a lock held only for computations.
- `ArmControl!FairSpec`: each API thread goes on, a waiting one gets the lock
  infinitely often if it is free infinitely often, and a wait for a service ends
  (`_call_service` polls until its timeout). Python's lock is not a queue; strong
  fairness is the assumption that no thread is passed over for ever. The FC, the
  network and clients are not fair.
- `RadioLink!FairSpec`: the reader thread, each connection's thread, the
  translator's reader task, the transmitter's loop and time. Nothing is assumed of
  HTTP requests, and faults are finitely many (bounded by `MaxFaults`).

- `BleServer!FairSpec`: BlueZ answers its calls, bluetoothd and the bridge are
  started again when they end, the event loop goes on with each coroutine and timer. Centrals and
  faults are not fair.
- `FcWrites!FairSpec`: API threads and helper threads go on, timers end, and who waits
  for the lock gets it if it is free again and again. The FC, telemetry and clients
  are not fair: a reboot may be missed, a call never answered.
- `ElrsService!FairSpec`: handlers and the writer go on. Bytes, the port and the
  bucket are not fair.
- `DetectorLock!FairSpec`: the capture thread, readers' fetches and the detector's
  loop go on (weak). The answer of a handler that is ready, `Reply`, is strongly fair:
  the stream takes the event loop again and again, but asyncio's queue of ready
  callbacks is first in, first out, so that the reply comes before the stream's
  next turn. Nothing is assumed of frames: the properties of locks say "while frames
  come" (`[]<>pending`). `LoopEnds` is not fair; they allow for a loop that has ended.

## 5. Proofs

All for every value of the constants that satisfies the module's named assumptions
(`ConstantsOK` and the like: ranges, and e.g. that a model value is not a member of a
set). The sets that are counted, the API threads of `ArmControl` and the handlers of
`ElrsService`, are assumed finite: a process has finitely many threads. Nothing else about
them is, nor about limits, bounds on events and the data. Checked by TLAPS with Z3, Zenon
and LS4. Every safety property of every passing run, invariant or action property, is the
statement of a theorem. Each inductive invariant was an invariant of a TLC run first.

**VirtualTX_proofs.** `InductiveInvariant` proves `IInv` (in `VirtualTX`): types;
a call past its checks has a positive duration; clock readings are in the past and
`dt` reaches back to the previous one; the two failsafe flags agree; while enabled
the topic shows the outputs of the last iteration. The last two are what make
`StickCentredInTime` and `SlewBounded` inductive: neither speaks of what happens
between the expiry and the publication. From it follow `Released`,
`HoldHonoured`, `NeutralStart`, `CentredInTime` and, with the action property,
`NoJump`. `NewestWins` needs the assumption that no client clock runs ahead
(`Skews` not positive) and `OrderInv`: only then is the ordering timestamp the
client's own. `Implementation` shows the refinement: initial states map to
initial states, every step to a step of the contract or a stutter.

**VisionLock_proofs.** First the decoders of `OpsCode`: for every code and every drift
inside the margins the decoder returns the code sent; every position and every
coordinate survives. Plain arithmetic, no induction. Then the state machine: `IInv`
has a part for each idea: the frozen box and countdown
follow the run of equal boxes (`SelectionInv`), an ESCAPE exchange remembers when it
began (`EscapeInv`), and VISION_BOX is the previous or the remembered code only if
it was shown since a button acted (`PressInv`). Theorems: `StableHeld`,
`HeldBoxesOnly`, `OneAction`, `WindowHonoured`, `NothingFabricated`. `RoutersAgree`
has an invariant of its own, `RouterInv`. `CodesInv`: no code the handler remembers,
as the previous one or across an ESCAPE exchange, names another source than the one
selected, which is the one asked for last; so the repetition that is not dispatched
asks for nothing new. `PostsInv`: the newest POSTs carry that source, and a router that
does not show it has one coming or has missed it.

**ArmControl_proofs.** `SectionsHoldLock` (the lock is held by exactly the thread between
`Acquire` and `Finish`, and by nobody when there is none) gives `Serialized`; `NoHalfArm`
needs only types and the transitions of one thread, with `disabledFor` remembering who was
disturbed: whose priming was accepted finds the transmitter commanded or, when the hold
has run out, in failsafe, but never off nor without a command. `NoSecondArming` counts: a
request to arm is posted, in a thread (`Arming`), given up and late, or carried out, and
all of these together never exceed the requests made (`BudgetInv`). Each step moves one
unit from one place to another or loses it; the case that matters is a timeout, after
which the command is late and its thread no longer arming.

**RadioLink_proofs.** `TypeCorrect` also says where staleness can come from: a
broadcast is on the wire with age 0. `GuardInv` (a broadcast is as old as the time
since it was heard) gives `GuardedBroadcasts`. `RecentInv` hands the age of the last
message on through the guard, the request and the hold; the bound of
`SticksExpire` is the sum of the three limits. `LimboInv` (only the one client that
the reader is closing at this moment may be off the list) gives `NobodyForgotten`.

**DetectorLock_proofs.** `FeedInv` strengthens `OwnFramesOnly` by what makes it inductive:
a reader under way has a source, and what the router keeps for a source is a frame of it.
`NoCrossPollination` follows for any number of readers and sources, with the detector's
steps included. `ChainInv` adds `LockOK`: a filter that is spoiled or unbuilt has been
noticed to drift (so the next failure rewinds it), after one clear frame with a filter
that was built it is clean, after two the target is held. It gives `FoundAgainWhenClear`
and, with the two limits, `TypeCorrect`. `TrackedInOrder` is the lemma for one frame.

**ElrsService_proofs.** `ReadsAsDecoder` is a refinement: every step of the service is
a byte or a fault of `MuxDecoder`, or leaves the port alone. The rest about
the port is then proved about the decoder (`DecoderInvariant`). `StepInv` relates its
state to what is left on the wire: in step, a decoder waiting for the second byte
of a length faces a header of which exactly that is left. It covers payloads of any
content, since `FrameFrom` and `LineFrom` say nothing of them but their length. It
gives `KeepsInStep`. `PlaceInv` gives `BoundedSkip`: out of step, the bytes already adrift
and the most the decoder may still skip (`Left`) stay below a fixed sum; once it looks for a
beginning again, the bytes adrift and those left of the packet on the wire do. `adrift`
starts anew with every false beginning: the bound is on one skip, and payloads that
imitate packets may mislead the decoder again and again.
`DropsMakeRoom` rests on `OweInv`: frames owed never exceed the free places of the
queue, nor the handlers about to put again. The first conjunct is what the property
does not say and needs: a handler that finds no room owes nothing, because a full
queue has no free place.

**BleServer_proofs.** `LockInv`: at most one job is past the lock, and the
characteristic's value is the last fragment it sent. It gives `AnswersUnmixed`.
`ListenInv`: while no Release is missing, `notifying` is the subscription of the
central that is connected, and a central that is being answered has heard the
fragment in the value; it gives `HeardFromTheStart`. `RequestsComeWhole` needs most: `LinkInv` and
`ReleaseInv` say what BlueZ and the program believe of the connection and when the
watchdog is about to notice, `OwnerInv` that every request has a first fragment, of a
session that has been, `BodyInv` that a buffer which is not empty holds all that the
last central has written of its request - or is about to be emptied, or was cut.

**FcWrites_proofs.** Every step is classified first (`Steps`): the environment leaves
threads, lock and settings alone (`Stays`), a call given up takes effect
(`Surfaces`), or one thread does one of six things (`Carries`, `Handles`, `Acquires`,
`Goes`, `Advances`, `Answers`). `Carried` says what a command may leave behind, in
full or half way. On these rest four invariants. `SectionInv`: the lock is held by
exactly the thread in the middle of a section (`SectionsHoldLock`). `MissionInv`: from
the push on, the mission of a thread is on the FC, because clear, push, mode and
arming are one section (`FliesItsMission`). `TiersInv` adds to
`TiersOrderedOrReported` that a batch answered as written, whose thread has not yet
answered its request, is in order (`TiersOrdered`) - unless /params, a call given up or a
failed batch set a tier since, which `doubtful` records. `OptionsInv`: what
/safety/options has read stays true of the bits it does not show until it is
overtaken, also in the pause between its two sections (`RestOfOptionsKept`).

## 6. What disagrees with the documentation

Shown by a run:

1. **Stale sticks after radio loss** (`radio_guard`, a bug). With the radio gone
   nothing is broadcast; after WS_FRAME_STALL_S the translator reconnects and is
   sent the last frame as a snapshot. It stamps the message on arrival
   (`DB/translator.py:187`), so for another LINK_LOSS_S it posts the old sticks, and
   again after every stall, against "we STOP calling `/control/command`"
   (`DB/README.md:133-134`). `StaleOnlyFromSnapshot` and its theorem show that
   the snapshot is the only way this can happen.

Behaviours of the models that no run singles out (the properties that hold are
stated so that they allow for them; each was seen in a counterexample or in the code
while the property was being stated):

Virtual transmitter and vision lock:

- Timestamps are capped at the drone's clock (`virtual_tx.py:319`), so commands of a
  client whose clock is ahead are ordered by arrival, against `ros2/API.md:191`.
  `NewestCommandInForce` is checked and proved for clocks that are right or behind.
- Nothing orders the POSTs of two switches of the source (`DB/vision_lock.py:885`): each
  router may handle them in another order, and the two stay on different sources, against
  "both channels in lockstep" (873, 877). A newest POST that fails has the same effect; it
  is not repeated (1032-1055), for the source counts as selected.
  `RoutersFollowSelection` and its theorem show that there is no third reason.
- An ENGAGE that is still probing the detector commits after a CANCEL_LOCK pressed
  later, against `DB/vision_lock.py:1016` ("CANCEL_LOCK clears the target"). No property
  is about the state its decision was taken from: the code makes no second check.
- An enable between the two steps of `stop()` (`virtual_tx.py:442-443`) is accepted and leaves
  the transmitter enabled with no loop to publish for it.
- The previous code survives an ESCAPE exchange, so a button held through it does
  not act again; one released and pressed again inside it does not act either.
- Of two ENGAGE tasks under way at once both may commit; the second sets phase
  DISPATCHED although a new selection was made meanwhile.
- `ros2/ARCHITECTURE.md:258-259` promises mid-stick as failsafe throttle for LAND and
  RTL; `ALTITUDE_HOLD_MODES` (`virtual_tx.py:32-33`) has only the PX4 names of
  these modes, so under ArduPilot they get the throttle of STABILIZE.
- Smoothed values keep the stick from before a failsafe; the first commands after it
  start from there, within the rate limit (`SlewBounded`).
- `update_config` sets keys one by one and returns at the first bad one.

Gateway and flight controller:

- The calibration endpoints check for disarmed before they wait for the lock
  (`api_gateway.py:1690` and `1703`): a calibration queued behind an arming is sent to
  an armed vehicle, against `docs/CALIBRATION_API.md:75`.
- /control/arm primes the throttle with a hold of 2.0 s (`api_gateway.py:587-591`) and then
  waits for `_svc_lock` without a limit (642), behind calls of 5 s and more. When the hold
  ends first the publish loop goes to failsafe (`virtual_tx.py:212-216`), in ALT_HOLD and
  LOITER mid-stick, and the command to arm is sent with that, against "send a neutral
  throttle hold, then arm" (617-618). `ArmsOnlyPrimed` and `NoHalfArm` are what holds: the
  transmitter is enabled and has a command, in force or run out.
- /safety/options takes a mask that could not be read for 0 and writes it
  (`api_gateway.py:2261`), against "Preserves bits not exposed in the UI" (2260), and a write
  between its two sections is undone: `OptionsKeepTheRest` excludes both by name.
- /control/disarm and /disarm trust telemetry's armed flag, which lags: a disarm right
  after an arm is answered "Already disarmed". Channels reported while the virtual
  transmitter was on are later taken for a real radio (`api_gateway.py:571`).
- /control/disarm gives `_svc_lock` back between its gentle and its forced attempt:
  another request may arm the vehicle in between, which the second attempt then disarms by
  force.
- Edges of one switch are posted by tasks of their own (`DB/translator.py:324-357`): an arm and
  the disarm after it may be handled in the opposite order, or the first of them after a
  wait of seconds. `OneArmingPerRequest` says that neither acts twice, not which is last.
- /control/arm: "If virtual_tx already enabled [...] just arm (don't trample existing
  input source)" (615-616), but a transmitter that is enabled is primed all the same, and
  its stick replaced by neutral for up to 2 s.
- POST /params/{param_id} sets BATT_LOW_VOLT or BATT_CRT_VOLT alone, without the check
  of their order in /safety/battery, and answers success (1451-1476):
  `TiersOrderedOrReported` names it as an exception.
- Clients are rebuilt inside the reboot window when the wait for the lock outlasts it,
  when two reboots overlap, and by the reconnect callback, against the comment on
  `_reboot_in_progress_until`. /calibration/motor_test/stop always answers success.
- A mission line that cannot be read is skipped and the rest uploaded
  (`DC/mission.py`).

Radio and serial port:

- After a link loss the transmitter goes on publishing centred overrides as long as
  it is enabled: whoever relies on "we do NOT send neutral sticks" must disable it.
- A snapshot may reach the translator after a newer broadcast and move the arm
  switch back and forth in its eyes (`EL/service.py:545`).
- `WSBroker` says "Only the reader thread calls broadcast()" (`EL/service.py:126`), but
  snapshots and one-shot injections are sent by handler threads.
- `MuxDecoder` is to be made anew on reconnect (`EL/mux.py:86-88`), but is made once
  (`EL/service.py:265`): `SkipIsBounded` bounds what that costs.
- A post may be answered 503 after it has dropped another frame, if a third one has
  taken the room (`EL/service.py:598`).

BLE:

- While a central is connected every watchdog round registers the advertisement again;
  BlueZ answers "already exists", which counts as success, and the buffers are emptied
  although the central is still writing (`DB/ble.py:367`): the rest of its request is
  then served as a request with a cut body, against the comments at 361-366 and
  286-287 of the same file. `RequestsAreWhole` allows exactly for this (`torn`).
- Whether somebody listens is looked at once, before the first fragment of an answer
  (`DB/ble.py:522-532`): a new central that subscribes while the answer to the one before
  is being sent hears its tail. `HearsFromTheStart` is about the central that asked.
- The application is registered once: bluetoothd restarting between two looks of the
  watchdog leaves it unknown to BlueZ for good (`DB/ble.py:36`).
- A registration that fails outside the Release branch is never tried again, while
  /healthz is healthy (131-133); `FoundAgain` allows for it (`GivenUp`).

Camera and detector:

- The gate of ENGAGE "seq must have advanced" (`DB/vision_lock.py:231`) looks at
  frame_age_ms, the age of the last frame grabbed: a stale picture of a dead camera
  served again, or a loop that has stopped, looks alive. An age of 0 becomes -1 by
  `or -1` (956) and is rejected.
- `tracker_update` promises thresholds of 0.20 and 0.35 (`DC/detector.py:436-439`); the code
  uses 0.15 for both (468, 495).
- Exceptions of the filter's initialisation are swallowed (`DC/detector.py:332-338`,
  747-755), which leaves a filter that was made and not initialised: if it then finds nothing it
  is rewound or replaced like a spoiled one; if it raises, the loop ends and with it
  every later picture.
- /frame after a silence answers with an old picture, while its comment promises 503
  first; the last good frame of a source is served without end.
- The filter has learnt from the first bad frame when the comment says it must not be
  corrupted; `FoundWhenClear` shows that this heals. `search_and_rescue`, "Called
  whenever drift is detected", is never called. A lock dropped with a detection far
  away is shown as lost and not tracking for one frame.
- A camera that is absent at the start is never looked for again.
- The stream holds the event loop for up to 0.5 s per picture: `ViewersAnswered` shows
  that this delays and does not block.
- Precision landing, if it could start: an abort between the check of the phase and
  its assignment (`DC/precision_land.py:113`) is overwritten.

## 7. What is only model-checked, what is not modelled

Only model-checked: liveness, for it rests on fairness and ENABLED, which the prover
does not handle (`FailsafeSettles`, `EveryRequestAnswered`, `HeardAgain`,
`FoundAgain`, `RequestsFinish`, `StaleClientsReplaced`, `RequestsAnswered`,
`FramesLeave`, `ViewersAnswered`, `CameraReadAgain`, `RequestsTakeEffect`,
`LostIsGivenUp`), and the violation `CommandsAreFresh`, of which
`StaleOnlyFromSnapshot` is the part that holds.

Only proved: `StableIsHeld`, `SubOpcodeInWindow`, `OneCommandAtATime` and the type
invariants of all modules but `ElrsService` (whose run checks it, for it bounds the
queue and what the decoder buffers). Their theorems hold for the instances of the runs as well.

Not modelled, in modelled components: `update_config` and `get_status` of the
transmitter, statistics and counters, log throttling, floating-point shaping beyond
its bounds, changes of the system clock.

Nor: channel overrides, injections and the link statistics feed of the ELRS service;
telemetry characteristics of the BLE server, `ResponseReassembler` and `drop`, which only
tests call; status reports and time-outs of the fence and safety endpoints; exceptions
that end the detector's loop, other than those of a filter (`LoopEnds`); the frame rate of
each stream's client; the age of a picture.

Not modelled at all: image processing of the detector (arithmetic on pixels), ROS
start-up, CRSF bit packing (pure; its unit tests compare it with known frames),
firmware (needs hardware; its byte stream is the environment of `MuxDecoder`),
producers, the web page (a client: its requests are those of `ArmControl`,
`FcWrites` and `VirtualTX`), installation scripts, payload formatting of the pump.
Precision landing cannot start at present (section 1). Compass calibration keeps one
record for all compasses: a report of one ends the progress shown for the others, and
a late report of an earlier run is taken for one of the new (`DC/compass_cal.py`).

## 8. Plan

Done, in this order: `VirtualTX` with `FailsafeContract`; `OpsCode` and
`VisionLock`; `ArmControl`; `RadioLink`; proofs of each; `BleServer`; `FcWrites`;
`MuxDecoder` with `ElrsService`; `VideoFeed` with `DetectorLock` and its proofs.

Next, most important first:

- To prove: the safety parts of the liveness properties (that a lock, a queue or a
  flag that somebody waits for is always in the hands of somebody who can go on);
  further abstract specifications, of the chain from stick to FC and of a
  request over BLE, and the modules' refinement of them.
- To model: compass calibration and precision landing if it comes back; overrides and
  injections; the configuration writes of the transmitter.

There are twelve runs, one for each distinct question.

## 9. Running it

    tlc -workers 2 -config RL_link.cfg MC_RadioLink.tla     # a run
    tlapm RadioLink_proofs.tla                              # a proof module

Each run takes from seconds to about three minutes with two workers, each proof module
from less than a minute to a few minutes from scratch.

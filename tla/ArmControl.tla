------------------------------- MODULE ArmControl -------------------------------
(***************************************************************************)
(* Arming and disarming, from the switch on the radio to the flight        *)
(* controller.                                                             *)
(*                                                                         *)
(* drone_bridge/translator.py turns a flip of CH5, CH6 or CH7 into an HTTP *)
(* request in a task of its own; web clients send the same requests.  The  *)
(* API threads of api_gateway.py look at the last telemetry, set up the    *)
(* virtual transmitter for /control/arm, and send MAVROS commands, one at  *)
(* a time under _svc_lock.  A command that is not answered in time is      *)
(* given up by its caller and may still reach the flight controller.       *)
(*                                                                         *)
(* The virtual transmitter is here what FailsafeContract says of it: off,  *)
(* or ready, or following a neutral or another command, or in failsafe     *)
(* because the hold of its last command has ended.  A request "m" for a    *)
(* flight mode m is POST /mode; "calibrate" stands for every endpoint that *)
(* begins with _require_disarmed and sends one command.  Rebuilding        *)
(* service clients after a timeout is left out.                            *)
(***************************************************************************)
EXTENDS Integers, FiniteSets

CONSTANTS
  Threads,       (* API threads                                            *)
  NoThread,      (* _svc_lock is free                                      *)
  Modes,         (* flight modes of the flight controller                  *)
  RadioModes,    (* flight modes the operator dials on CH7                 *)
  ManualModes,   (* MANUAL_FLIGHT_MODES                                    *)
  Radios,        (* whether a real transmitter feeds the flight controller *)
  WebRequests,   (* requests web clients send                              *)
  MaxEvents      (* bound: flips of switches and web requests              *)

Commands == {"arm", "disarm", "force", "calibrate"} \cup Modes

VtxRequests == {"enable", "disable", "command"}

Requests == Commands \cup {"control_arm", "control_disarm"} \cup VtxRequests

ASSUME ConstantsOK ==
  /\ IsFiniteSet(Threads) /\ NoThread \notin Threads
  /\ ManualModes \subseteq Modes
  /\ RadioModes \subseteq Modes
  /\ Modes \cap {"arm", "disarm", "force", "control_arm", "control_disarm",
                 "calibrate", "enable", "disable", "command", "unknown"} = {}
  /\ Radios \subseteq BOOLEAN
  /\ WebRequests \subseteq Requests
  /\ MaxEvents \in Nat

VARIABLES
  fc,          (* flight controller: link, armed, mode, real transmitter   *)
  telem,       (* what telemetry.get() shows of it                         *)
  switches,    (* last_ch5_armed, last_ch6_forced, last_mode_idx           *)
  posted,      (* HTTP requests on their way, how many of each             *)
  call,        (* the API threads                                          *)
  lock,        (* holder of _svc_lock                                      *)
  late,        (* MAVROS commands given up by their callers, how many      *)
  vtx,         (* the virtual transmitter                                  *)
  events,      (* bound: flips and web requests so far                     *)
  asked,       (* history: requests to arm that clients made               *)
  armings,     (* history: times the flight controller went to armed       *)
  disabledFor  (* history: threads whose priming a /control/disable undid  *)

history == << asked, armings, disabledFor >>
vars == << fc, telem, switches, posted, call, lock, late, vtx, events, history >>

Idle == [at |-> "idle"]

(* A request being handled: the next step, and the MAVROS command it will  *)
(* send or wait for.                                                       *)
Stage(at, op, cmd) == [at |-> at, op |-> op, cmd |-> cmd, primed |-> FALSE]

SwitchesUnknown == [ch5 |-> "unknown", ch6 |-> "unknown", mode |-> "unknown"]

Init ==
  /\ fc \in [up : {TRUE}, armed : {FALSE}, mode : Modes, radio : Radios]
  /\ telem = [connected |-> FALSE, armed |-> FALSE, mode |-> "", rc |-> FALSE]
  /\ switches = SwitchesUnknown
  /\ posted = [r \in Requests |-> 0]
  /\ call = [t \in Threads |-> Idle]
  /\ lock = NoThread
  /\ late = [c \in Commands |-> 0]
  /\ vtx = "off"
  /\ events = 0
  /\ asked = 0
  /\ armings = 0
  /\ disabledFor = {}

-----------------------------------------------------------------------------
(* Flight controller and telemetry *)

(* /mavros/state and /mavros/rc/in arrive.  The flight controller reports  *)
(* channels while a transmitter, real or virtual, feeds it.                *)
StateReport ==
  /\ telem' = [telem EXCEPT !.connected = fc.up, !.armed = fc.armed, !.mode = fc.mode]
  /\ UNCHANGED << fc, switches, posted, call, lock, late, vtx, events, history >>

RcReport ==
  /\ telem' = [telem EXCEPT !.rc = fc.radio \/ vtx # "off"]
  /\ UNCHANGED << fc, switches, posted, call, lock, late, vtx, events, history >>

LinkChange ==
  /\ fc' = [fc EXCEPT !.up = ~ @]
  /\ UNCHANGED << telem, switches, posted, call, lock, late, vtx, events, history >>

(* The flight controller disarms by itself, after landing or idling.       *)
AutoDisarm ==
  /\ fc' = [fc EXCEPT !.armed = FALSE]
  /\ UNCHANGED << telem, switches, posted, call, lock, late, vtx, events, history >>

(* The thread has primed the throttle for the request it handles.          *)
Primed(t) == call[t] # Idle /\ call[t].primed

(* Nobody is between the priming and the wait for the lock: the 50 ms of   *)
(* that pause are within the 2 s of the hold.  The wait for the lock, and  *)
(* for a service that is not there (Send), may be longer.                  *)
PauseOver == \A t \in Threads : Primed(t) /\ call[t].at = "acquire" => lock # NoThread

(* The hold of the last command ends; the publish loop notices.            *)
HoldExpires ==
  /\ vtx \in {"neutral", "stick"}
  /\ PauseOver
  /\ vtx' = "failsafe"
  /\ UNCHANGED << fc, telem, switches, posted, call, lock, late, events, history >>

(* The next stage of a thread.                                             *)
Goto(t, at) == call' = [call EXCEPT ![t].at = at]

(* The command of a thread is on its way to the flight controller.         *)
Waiting(t) == call[t].at = "wait"

ArmedBy(cmd) ==
  IF cmd = "arm" THEN TRUE
  ELSE IF cmd \in {"disarm", "force"} THEN FALSE ELSE fc.armed

(* The flight controller carries a command out.                            *)
Carry(cmd) ==
  /\ fc.up
  /\ fc' = [fc EXCEPT !.armed = ArmedBy(cmd),
                      !.mode = IF cmd \in Modes THEN cmd ELSE @]
  /\ armings' = IF ~ fc.armed /\ ArmedBy(cmd) THEN armings + 1 ELSE armings

(* It does so for a caller that waits, and answers; the answer may be lost.*)
Execute(t) ==
  /\ Waiting(t)
  /\ Carry(call[t].cmd)
  /\ Goto(t, "done") \/ Goto(t, "unanswered")
  /\ UNCHANGED << telem, switches, posted, lock, late, vtx, events, asked,
                  disabledFor >>

(* Pre-arm checks, spinning motors, an unknown mode: it refuses.  A forced *)
(* disarm is never refused.                                                *)
Refuse(t) ==
  /\ Waiting(t)
  /\ call[t].cmd # "force"
  /\ Goto(t, "refused")
  /\ UNCHANGED << fc, telem, switches, posted, lock, late, vtx, events, history >>

LoseCommand(t) ==
  /\ Waiting(t)
  /\ Goto(t, "unanswered")
  /\ UNCHANGED << fc, telem, switches, posted, lock, late, vtx, events, history >>

(* A command that was given up arrives after all, or never.                *)
ExecuteLate(cmd) ==
  /\ late[cmd] > 0
  /\ late' = [late EXCEPT ![cmd] = @ - 1]
  /\ Carry(cmd)
  /\ UNCHANGED << telem, switches, posted, call, lock, vtx, events, asked,
                  disabledFor >>

LoseLate(cmd) ==
  /\ late[cmd] > 0
  /\ late' = [late EXCEPT ![cmd] = @ - 1]
  /\ UNCHANGED << fc, telem, switches, posted, call, lock, vtx, events, history >>

-----------------------------------------------------------------------------
(* Requests *)

(* EdgeEventHandler.on_channels: what a frame with these switches posts.   *)
Edges(ch5, ch6, mode) ==
  {r \in {"control_arm", "control_disarm", "force"} \cup Modes :
     \/ /\ switches.ch5 # "unknown" /\ ch5 # switches.ch5
        /\ r = IF ch5 = "up" THEN "control_arm" ELSE "control_disarm"
     \/ /\ switches.ch6 = "down" /\ ch6 = "up"
        /\ r = "force"
     \/ /\ switches.mode # "unknown" /\ mode # switches.mode
        /\ r = mode}

(* A frame of the radio in which a switch has moved, or the first one.     *)
Frame(ch5, ch6, mode) ==
  /\ events < MaxEvents
  /\ [ch5 |-> ch5, ch6 |-> ch6, mode |-> mode] # switches
  /\ events' = events + 1
  /\ posted' = [r \in Requests |->
                  IF r \in Edges(ch5, ch6, mode) THEN posted[r] + 1 ELSE posted[r]]
  /\ switches' = [ch5 |-> ch5, ch6 |-> ch6, mode |-> mode]
  /\ asked' = IF switches.ch5 = "down" /\ ch5 = "up" THEN asked + 1 ELSE asked
  /\ UNCHANGED << fc, telem, call, lock, late, vtx, armings, disabledFor >>

(* The bridge starts again with nothing known of the switches.             *)
BridgeRestart ==
  /\ switches' = SwitchesUnknown
  /\ UNCHANGED << fc, telem, posted, call, lock, late, vtx, events, asked,
                  armings, disabledFor >>

WebRequest(r) ==
  /\ events < MaxEvents
  /\ events' = events + 1
  /\ posted' = [posted EXCEPT ![r] = @ + 1]
  /\ asked' = IF r \in {"arm", "control_arm"} THEN asked + 1 ELSE asked
  /\ UNCHANGED << fc, telem, switches, call, lock, late, vtx, armings,
                  disabledFor >>

Pending(r) == posted[r] > 0

(* A POST that fails is logged and not repeated.                           *)
LoseRequest(r) ==
  /\ Pending(r)
  /\ posted' = [posted EXCEPT ![r] = @ - 1]
  /\ UNCHANGED << fc, telem, switches, call, lock, late, vtx, events, history >>

-----------------------------------------------------------------------------
(* API threads *)

(* What the last telemetry must show for a request to go on.               *)
Proceeds(r) ==
  /\ r \in {"force", "control_arm", "control_disarm", "calibrate"} => telem.connected
  /\ r \in {"arm", "control_arm", "calibrate"} => ~ telem.armed
  /\ r \in {"disarm", "control_disarm"} => telem.armed

CommandOf(r) ==
  IF r = "control_arm" THEN "arm" ELSE IF r = "control_disarm" THEN "disarm" ELSE r

(* The first stage of a request; Idle if it is answered at once.           *)
FirstStage(r) ==
  IF r \notin VtxRequests /\ Proceeds(r)
  THEN Stage(IF r = "control_arm" THEN "prepare" ELSE "acquire", r, CommandOf(r))
  ELSE Idle

(* What a request may leave the virtual transmitter in.  A command may be  *)
(* refused, because it is too old or a newer one was accepted before it.   *)
VtxAfter(r) ==
  IF r = "disable" THEN {"off"}
  ELSE IF r = "enable" /\ telem.connected /\ vtx = "off" THEN {"ready"}
  ELSE IF r = "command" /\ vtx # "off" THEN {vtx, "stick"}
  ELSE {vtx}

(* A thread takes a request up.                                            *)
Handle(t, r) ==
  /\ call[t] = Idle
  /\ Pending(r)
  /\ posted' = [posted EXCEPT ![r] = @ - 1]
  /\ call' = [call EXCEPT ![t] = FirstStage(r)]
  /\ vtx' \in VtxAfter(r)
  /\ disabledFor' = IF r = "disable" THEN Threads ELSE disabledFor
  /\ UNCHANGED << fc, telem, switches, lock, late, events, asked, armings >>

(* _ensure_throttle_source_for_arm, one step per reading or call.          *)
ReadMode(t) ==
  /\ call[t].at = "prepare"
  /\ Goto(t, IF telem.mode \notin ManualModes THEN "acquire"
             ELSE IF vtx = "off" THEN "radio" ELSE "enable")
  /\ UNCHANGED << fc, telem, switches, posted, lock, late, vtx, events, history >>

ReadRc(t) ==
  /\ call[t].at = "radio"
  /\ Goto(t, IF telem.rc THEN "acquire" ELSE "enable")
  /\ UNCHANGED << fc, telem, switches, posted, lock, late, vtx, events, history >>

EnableVtx(t) ==
  /\ call[t].at = "enable"
  /\ Goto(t, "prime")
  /\ vtx' = IF vtx = "off" THEN "ready" ELSE vtx
  /\ UNCHANGED << fc, telem, switches, posted, lock, late, events, history >>

\* Mutant: the result of send_command is not looked at.
PrimeFails_Ignored(t) == FALSE

(* The command that primes the throttle is refused when the transmitter is *)
(* disabled.  It may also be refused because a newer one, of a client or   *)
(* of another thread that primes, was accepted before it.                  *)
PrimeFails(t) == vtx = "off"

PrimeVtx(t) ==
  /\ call[t].at = "prime"
  /\ \/ /\ PrimeFails(t) \/ vtx # "ready"
        /\ call' = [call EXCEPT ![t] = Idle]
        /\ UNCHANGED << vtx, disabledFor >>
     \/ /\ ~ PrimeFails(t)
        /\ call' = [call EXCEPT ![t].at = "acquire", ![t].primed = TRUE]
        /\ vtx' = IF vtx = "off" THEN vtx ELSE "neutral"
        /\ disabledFor' = disabledFor \ {t}
  /\ UNCHANGED << fc, telem, switches, posted, lock, late, events, asked,
                  armings >>

CanAcquire(t) == lock = NoThread

Acquire(t) ==
  /\ call[t].at = "acquire"
  /\ CanAcquire(t)
  /\ lock' = t
  /\ Goto(t, "send")
  /\ UNCHANGED << fc, telem, switches, posted, late, vtx, events, history >>

(* _call_arming and _set_mode look at the link again, with the lock held.  *)
ChecksLink(t) == call[t].cmd \in {"arm", "disarm"} \cup Modes

Send(t) ==
  /\ call[t].at = "send"
  /\ ChecksLink(t) => telem.connected
  /\ Goto(t, "wait")
  /\ UNCHANGED << fc, telem, switches, posted, lock, late, vtx, events, history >>

(* Not connected any more, or the MAVROS service is not there, which may   *)
(* happen at any time.                                                     *)
GiveUp(t) ==
  /\ call[t].at = "send"
  /\ Goto(t, "refused")
  /\ UNCHANGED << fc, telem, switches, posted, lock, late, vtx, events, history >>

(* The answer does not come within the timeout.                            *)
TimeOut(t) ==
  /\ \/ Waiting(t) /\ late' = [late EXCEPT ![call[t].cmd] = @ + 1]
     \/ call[t].at = "unanswered" /\ UNCHANGED late
  /\ Goto(t, "refused")
  /\ UNCHANGED << fc, telem, switches, posted, lock, vtx, events, history >>

\* Mutant: any request that was refused is tried once more.
AfterRefusal_Retry(t) ==
  IF call[t].op = "control_disarm" /\ call[t].cmd = "disarm"
  THEN Stage("acquire", "control_disarm", "force")
  ELSE IF call[t].op = "control_arm" THEN Stage("acquire", "arm", "arm")
  ELSE Idle

(* /control/disarm tries again with force, in a new section of the lock.   *)
AfterRefusal(t) ==
  IF call[t].op = "control_disarm" /\ call[t].cmd = "disarm"
  THEN Stage("acquire", "control_disarm", "force")
  ELSE Idle

\* Mutant: a request that failed keeps the lock.
ReleaseLock_OnSuccess(t) == IF call[t].at = "done" THEN NoThread ELSE lock

ReleaseLock(t) == NoThread

(* The lock is released and the request answered.                          *)
Finish(t) ==
  /\ call[t].at \in {"done", "refused"}
  /\ lock' = ReleaseLock(t)
  /\ call' = [call EXCEPT ![t] =
                IF call[t].at = "done" THEN Idle ELSE AfterRefusal(t)]
  /\ UNCHANGED << fc, telem, switches, posted, late, vtx, events, history >>

Step(t) ==
  \/ ReadMode(t) \/ ReadRc(t) \/ EnableVtx(t) \/ PrimeVtx(t)
  \/ Send(t) \/ GiveUp(t) \/ Finish(t)

Next ==
  \/ StateReport \/ RcReport \/ LinkChange \/ AutoDisarm \/ HoldExpires
  \/ \E t \in Threads : Execute(t) \/ Refuse(t) \/ LoseCommand(t)
  \/ \E cmd \in Commands : ExecuteLate(cmd) \/ LoseLate(cmd)
  \/ \E ch5, ch6 \in {"up", "down"}, mode \in RadioModes : Frame(ch5, ch6, mode)
  \/ BridgeRestart
  \/ \E r \in WebRequests : WebRequest(r)
  \/ \E r \in Requests : LoseRequest(r)
  \/ \E t \in Threads, r \in Requests : Handle(t, r)
  \/ \E t \in Threads : Step(t) \/ Acquire(t) \/ TimeOut(t)

Spec == Init /\ [][Next]_vars

(***************************************************************************)
(* API threads run on, a command is waited for no longer than its timeout, *)
(* and a thread that wants the lock gets it some time if it becomes free   *)
(* again and again.  Nothing is assumed of the flight controller, the      *)
(* network, the operator or telemetry.                                     *)
(***************************************************************************)
Fairness ==
  \A t \in Threads :
    /\ WF_vars(Step(t))
    /\ SF_vars(Acquire(t))
    /\ WF_vars(TimeOut(t))

FairSpec == Spec /\ Fairness

-----------------------------------------------------------------------------
(* Properties *)

Stages == {"prepare", "radio", "enable", "prime", "acquire", "send", "wait",
           "unanswered", "done", "refused"}

(* Every variable keeps its type.                                          *)
TypeOK ==
  /\ fc \in [up : BOOLEAN, armed : BOOLEAN, mode : Modes, radio : Radios]
  /\ telem \in [connected : BOOLEAN, armed : BOOLEAN, mode : Modes \cup {""},
                rc : BOOLEAN]
  /\ switches \in [ch5 : {"unknown", "up", "down"}, ch6 : {"unknown", "up", "down"},
                   mode : Modes \cup {"unknown"}]
  /\ posted \in [Requests -> Nat]
  /\ call \in [Threads -> {Idle} \cup [at : Stages, op : Requests, cmd : Commands,
                                      primed : BOOLEAN]]
  /\ lock \in Threads \cup {NoThread}
  /\ late \in [Commands -> Nat]
  /\ vtx \in {"off", "ready", "neutral", "stick", "failsafe"}
  /\ events \in Nat
  /\ asked \in Nat /\ armings \in Nat
  /\ disabledFor \subseteq Threads

(* "A single lock serializes all MAVROS commands": two API threads never   *)
(* wait for the flight controller at the same time, not even when          *)
(* /control/disarm escalates after a timeout.                              *)
OneCommandAtATime ==
  \A t, u \in Threads : Waiting(t) /\ Waiting(u) => t = u

(* /control/arm does not half-arm: when it goes on to the flight           *)
(* controller because it has set up the virtual transmitter, the           *)
(* transmitter is enabled and has accepted a command since, unless         *)
(* somebody disabled it after the priming; a /control/disable between the  *)
(* enable and the priming stops the arming.  The hold of the priming may   *)
(* have run out by then, and the transmitter be in failsafe: the wait for  *)
(* the lock has no limit.                                                  *)
ArmsOnlyPrimed ==
  \A t \in Threads :
    Primed(t) /\ t \notin disabledFor => vtx \in {"neutral", "stick", "failsafe"}

(* No request arms twice: however requests and commands are delayed, given *)
(* up, answered late or lost, the flight controller went to armed at most  *)
(* once for every flip of the switch and every web request to arm.         *)
OneArmingPerRequest == armings <= asked

(* Every request is answered in the end: no order of requests, timeouts    *)
(* and escalations leaves a thread behind the lock.                        *)
EveryRequestAnswered ==
  \A t \in Threads : call[t] # Idle ~> call[t] = Idle

================================================================================

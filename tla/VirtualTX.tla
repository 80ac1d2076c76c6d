------------------------------- MODULE VirtualTX -------------------------------
(***************************************************************************)
(* The virtual transmitter of drone_control/virtual_tx.py.                 *)
(*                                                                         *)
(* Clients post stick commands that carry their own timestamp and a hold   *)
(* duration.  API threads run set_input: the age of a command is judged    *)
(* before the lock is taken, everything else under it.  One publish thread *)
(* reads the clock, then takes the lock, notices an expired hold, moves    *)
(* the channels and publishes an RC override.  The two clock readings made *)
(* outside the lock are why both operations are two actions here.          *)
(*                                                                         *)
(* Time is a count of ticks of the drone's clock.  A stick value is an     *)
(* integer: Full stands for 1.0.  roll, pitch and yaw run the same code    *)
(* with other constants and are one channel, "stick"; throttle is its own. *)
(* last_command_time only feeds a log line and get_status: left out.       *)
(***************************************************************************)
EXTENDS Integers, FiniteSets

CONSTANTS
  Threads,         (* API threads that may be inside set_input             *)
  Inputs,          (* [stick, throttle] pairs a client may send            *)
  Durations,       (* hold durations a client may send, in ticks           *)
  Skews,           (* client clock minus drone clock, in ticks             *)
  Modes,           (* flight modes telemetry may report                    *)
  HoldModes,       (* ALTITUDE_HOLD_MODES                                  *)
  Full,            (* 1.0 in output units                                  *)
  MidStick,        (* FAILSAFE_THROTTLE_ALT_HOLD in output units           *)
  Deadzone,        (* deadzone in output units                             *)
  DedupBand,       (* values closer than this are the same command         *)
  CommandTimeout,  (* oldest accepted command, in ticks                    *)
  FutureLimit,     (* how far ahead a timestamp may be, in ticks           *)
  CenterRate,      (* output units per tick in failsafe                    *)
  RateLimit,       (* output units per tick when following a command       *)
  MaxTime,         (* bound: the clock stops here                          *)
  LastInput,       (* bound: clients, modes and set_input stop here        *)
  MaxWire          (* bound: commands in flight at once                    *)

ASSUME ConstantsOK ==
  /\ Full \in Nat \ {0}
  /\ MidStick \in 0..Full
  /\ Deadzone \in Nat
  /\ DedupBand \in Nat
  /\ Inputs \subseteq [stick : Int, throttle : Int]
  /\ Durations \subseteq Int
  /\ Skews \subseteq Int
  /\ HoldModes \subseteq Modes
  /\ CommandTimeout \in Nat
  /\ FutureLimit \in Nat
  /\ CenterRate \in Nat \ {0}
  /\ RateLimit \in Nat \ {0}
  /\ MaxTime \in Nat
  /\ LastInput \in Nat
  /\ MaxWire \in Nat

VARIABLES
  now,            (* time.time() on the drone                              *)
  mode,           (* telemetry.get()["state"]["mode"]                      *)
  wire,           (* commands sent and not yet handled, in any order       *)
  call,           (* per API thread: Idle, or what set_input knows before  *)
                  (* it takes the lock                                     *)
  loop,           (* publish thread: -1 asleep, else dt of its iteration   *)
  lastUpdate,     (* _last_update_time: clock reading of the iteration     *)
  running,        (* the publish loop runs: "on", "stopping" (disabled by  *)
                  (* stop), or "off"                                       *)
  enabled, holdUntil, lastAcceptedTs, inFailsafe, centering, (* TXState    *)
  stick, throttle,(* the ChannelState records                              *)
  topic,          (* last message on /mavros/rc/override                   *)
  inForce,        (* history: client timestamp of the command in force     *)
  newest,         (* history: largest client timestamp accepted since      *)
                  (* enable                                                *)
  centerSince     (* history: iteration in which centering started         *)

txState == << enabled, holdUntil, lastAcceptedTs, inFailsafe, centering >>
chan == << stick, throttle >>
history == << inForce, newest, centerSince >>
vars == << now, mode, wire, call, loop, lastUpdate, running, txState, chan,
           topic, history >>

-----------------------------------------------------------------------------
(* Helpers on stick values *)

Abs(x) == IF x < 0 THEN -x ELSE x

Lesser(a, b) == IF a < b THEN a ELSE b
Greater(a, b) == IF a < b THEN b ELSE a

Clamp(x, lo, hi) == Greater(lo, Lesser(hi, x))

Between(a, b) == Lesser(a, b)..Greater(a, b)

Toward(current, target, maxStep) ==
  IF Abs(target - current) <= maxStep THEN target
  ELSE IF target > current THEN current + maxStep ELSE current - maxStep

(***************************************************************************)
(* Deadzone, then expo: nothing inside the deadzone, full stick at full    *)
(* deflection, elsewhere some value between centre and the raw one.        *)
(***************************************************************************)
Shaped(raw) ==
  IF Abs(raw) < Deadzone THEN {0}
  ELSE IF Abs(raw) = Full THEN {raw}
  ELSE Between(0, raw)

(***************************************************************************)
(* Exponential smoothing for any alpha in [0, 1]: the filter's next value  *)
(* lies between its last one and the shaped stick.                         *)
(***************************************************************************)
Filtered(c) == UNION {Between(c.smoothed, s) : s \in Shaped(c.raw)}

Neutral == [raw |-> 0, smoothed |-> 0, output |-> 0]

FailsafeThrottle(m) == IF m \in HoldModes THEN MidStick ELSE 0

-----------------------------------------------------------------------------
Idle == [busy |-> FALSE]

Init ==
  /\ now = CommandTimeout + 1     \* no acceptable timestamp is negative
  /\ mode \in Modes
  /\ wire = {}
  /\ call = [t \in Threads |-> Idle]
  /\ loop = -1
  /\ lastUpdate = now
  /\ running = "on"
  /\ enabled = FALSE
  /\ holdUntil = 0
  /\ lastAcceptedTs = 0
  /\ inFailsafe = FALSE
  /\ centering = FALSE
  /\ stick = Neutral
  /\ throttle = Neutral
  /\ topic = [kind |-> "none"]
  /\ inForce = 0
  /\ newest = 0
  /\ centerSince = 0

(* Time passes.  A call that began before LastInput ends before the clock  *)
(* goes beyond it.                                                         *)
Tick ==
  /\ now < MaxTime
  /\ now >= LastInput => \A t \in Threads : call[t] = Idle
  /\ now' = now + 1
  /\ UNCHANGED << mode, wire, call, loop, lastUpdate, running, txState, chan,
                  topic, history >>

(* The flight controller reports another mode.                             *)
SetMode(m) ==
  /\ now <= LastInput
  /\ mode' = m
  /\ UNCHANGED << now, wire, call, loop, lastUpdate, running, txState, chan,
                  topic, history >>

(* A client creates a command and stamps it with its own clock.            *)
Send(inp, dur, skew) ==
  /\ now <= LastInput
  /\ Cardinality(wire) < MaxWire
  /\ wire' = wire \cup {[ts |-> now + skew, stick |-> inp.stick,
                         throttle |-> inp.throttle, dur |-> dur]}
  /\ UNCHANGED << now, mode, call, loop, lastUpdate, running, txState, chan,
                  topic, history >>

(* set_input before the lock: the three checks that read the clock and the *)
(* command only.  A refused command is gone.                               *)
BeginSetInput(t, c) ==
  /\ now <= LastInput
  /\ running # "off"
  /\ call[t] = Idle
  /\ wire' = wire \ {c}
  /\ call' = [call EXCEPT ![t] =
                IF \/ now - c.ts > CommandTimeout
                   \/ now - c.ts < -FutureLimit
                   \/ c.dur <= 0
                THEN Idle
                ELSE [busy |-> TRUE, cmd |-> c, at |-> now]]
  /\ UNCHANGED << now, mode, loop, lastUpdate, running, txState, chan, topic,
                  history >>

EffectiveTs(call_t) == Lesser(call_t.cmd.ts, call_t.at)

Target(cmd) ==
  [stick    |-> Clamp(cmd.stick, -Full, Full),
   throttle |-> Clamp(cmd.throttle, 0, Full)]

SameAsTarget(target) ==
  /\ Abs(target.stick - stick.raw) < DedupBand
  /\ Abs(target.throttle - throttle.raw) < DedupBand

\* Mutant: the order of timestamps is not looked at.
Accepts_AnyOrder(t) == enabled

(* set_input under the lock.                                               *)
Accepts(t) == enabled /\ EffectiveTs(call[t]) >= lastAcceptedTs

AcceptInput(t) ==
  /\ call[t].busy
  /\ Accepts(t)
  /\ LET cmd == call[t].cmd
         target == Target(cmd)
     IN /\ IF SameAsTarget(target)
           THEN UNCHANGED chan
           ELSE /\ stick' = [stick EXCEPT !.raw = target.stick]
                /\ throttle' = [throttle EXCEPT !.raw = target.throttle]
        /\ lastAcceptedTs' = EffectiveTs(call[t])
        /\ holdUntil' = call[t].at + cmd.dur
        /\ inForce' = cmd.ts
        /\ newest' = Greater(newest, cmd.ts)
  /\ inFailsafe' = FALSE
  /\ centering' = FALSE
  /\ call' = [call EXCEPT ![t] = Idle]
  /\ UNCHANGED << now, mode, wire, loop, lastUpdate, running, enabled, topic,
                  centerSince >>

RefuseInput(t) ==
  /\ call[t].busy
  /\ ~ Accepts(t)
  /\ call' = [call EXCEPT ![t] = Idle]
  /\ UNCHANGED << now, mode, wire, loop, lastUpdate, running, txState, chan,
                  topic, history >>

Enable ==
  /\ running # "off"
  /\ ~ enabled
  /\ stick' = Neutral
  /\ throttle' = Neutral
  /\ holdUntil' = 0
  /\ lastAcceptedTs' = 0
  /\ inFailsafe' = FALSE
  /\ centering' = FALSE
  /\ enabled' = TRUE
  /\ inForce' = 0
  /\ newest' = 0
  /\ UNCHANGED << now, mode, wire, call, loop, lastUpdate, running, topic,
                  centerSince >>

\* Mutant: disable clears the flag and publishes nothing.
Release_Silent ==
  /\ enabled
  /\ enabled' = FALSE
  /\ UNCHANGED topic

Release ==
  /\ enabled
  /\ enabled' = FALSE
  /\ topic' = [kind |-> "release"]

Disable ==
  /\ running # "off"
  /\ Release
  /\ UNCHANGED << now, mode, wire, call, loop, lastUpdate, running, holdUntil,
                  lastAcceptedTs, inFailsafe, centering, chan, history >>

(* Shutdown: stop() disables first; a call of enable that comes before the *)
(* node is dropped enables again.                                          *)
Stop ==
  /\ running = "on"
  /\ running' = "stopping"
  /\ \/ Release
     \/ ~ enabled /\ UNCHANGED << enabled, topic >>
  /\ UNCHANGED << now, mode, wire, call, loop, lastUpdate, holdUntil,
                  lastAcceptedTs, inFailsafe, centering, chan, history >>

(* ... then stops the loop, which ends the iteration it is in, and drops   *)
(* the node.  A call that has the node by then may come later still, which *)
(* is no different from before: there is no loop to act on it.             *)
StopLoop ==
  /\ running = "stopping"
  /\ running' = "off"
  /\ UNCHANGED << now, mode, wire, call, loop, lastUpdate, txState, chan, topic,
                  history >>

(* The publish thread wakes up and reads the clock.                        *)
BeginLoop ==
  /\ running # "off"
  /\ loop = -1
  /\ loop' = now - lastUpdate
  /\ lastUpdate' = now
  /\ UNCHANGED << now, mode, wire, call, running, txState, chan, topic,
                  history >>

(* The iteration found the transmitter disabled.                           *)
SkipLoop ==
  /\ loop # -1
  /\ ~ enabled
  /\ loop' = -1
  /\ UNCHANGED << now, mode, wire, call, lastUpdate, running, txState, chan,
                  topic, history >>

\* Mutant: the last tick of the hold counts as expired.
HoldExpired_Early == holdUntil > 0 /\ lastUpdate >= holdUntil

\* Mutant: a transmitter that never had a command counts as expired.
HoldExpired_NoCommand == lastUpdate > holdUntil

HoldExpired == holdUntil > 0 /\ lastUpdate > holdUntil

\* Mutant: the sticks are centred only in the modes that hold altitude.
AutoCenter_HoldModesOnly(dt) ==
  /\ stick' = [stick EXCEPT !.output =
                 IF mode \in HoldModes THEN Toward(@, 0, CenterRate * dt) ELSE @]
  /\ throttle' = [throttle EXCEPT
                    !.output = Toward(@, FailsafeThrottle(mode), CenterRate * dt)]

\* Mutant: the throttle is left where it was.
AutoCenter_StickOnly(dt) ==
  /\ stick' = [stick EXCEPT !.output = Toward(@, 0, CenterRate * dt)]
  /\ UNCHANGED throttle

AutoCenter(dt) ==
  /\ stick' = [stick EXCEPT !.output = Toward(@, 0, CenterRate * dt)]
  /\ throttle' = [throttle EXCEPT
                    !.output = Toward(@, FailsafeThrottle(mode), CenterRate * dt)]

\* Mutant: no rate limit.
Processed_NoLimit(c, dt) ==
  {[raw |-> c.raw, smoothed |-> v, output |-> v] : v \in Filtered(c)}

(* One channel follows its stick: filter, then limit the rate.             *)
Processed(c, dt) ==
  {LET out == Toward(c.output, v, RateLimit * dt)
   IN [raw |-> c.raw, smoothed |-> out, output |-> out] : v \in Filtered(c)}

ProcessChannels(dt) ==
  /\ stick' \in Processed(stick, dt)
  /\ throttle' \in Processed(throttle, dt)

(* The iteration under the lock: expiry, channels, publication.            *)
PublishLoop ==
  /\ loop # -1
  /\ enabled
  /\ IF HoldExpired /\ ~ inFailsafe
     THEN inFailsafe' = TRUE /\ centering' = TRUE /\ centerSince' = lastUpdate
     ELSE UNCHANGED << inFailsafe, centering, centerSince >>
  /\ IF centering' THEN AutoCenter(loop) ELSE ProcessChannels(loop)
  /\ topic' = [kind |-> "override", at |-> lastUpdate,
               stick |-> stick'.output, throttle |-> throttle'.output]
  /\ loop' = -1
  /\ UNCHANGED << now, mode, wire, call, lastUpdate, running, enabled, holdUntil,
                  lastAcceptedTs, inForce, newest >>

Next ==
  \/ Tick
  \/ \E m \in Modes : SetMode(m)
  \/ \E inp \in Inputs, dur \in Durations, skew \in Skews : Send(inp, dur, skew)
  \/ \E t \in Threads : \E c \in wire : BeginSetInput(t, c)
  \/ \E t \in Threads : AcceptInput(t) \/ RefuseInput(t)
  \/ Enable
  \/ Disable
  \/ Stop
  \/ StopLoop
  \/ BeginLoop
  \/ SkipLoop
  \/ PublishLoop

Spec == Init /\ [][Next]_vars

(***************************************************************************)
(* The publish thread sleeps one period and runs again and the lock is     *)
(* always released after a few assignments: these steps are weakly fair.   *)
(* The clock waits for nobody: Tick is strongly fair, because its guard on *)
(* calls under way is a bound of the model and not of the code.  Clients,  *)
(* the operator and the flight controller are not fair.                    *)
(***************************************************************************)
Fairness ==
  /\ SF_vars(Tick)
  /\ WF_vars(BeginLoop)
  /\ WF_vars(SkipLoop)
  /\ WF_vars(PublishLoop)
  /\ \A t \in Threads : WF_vars(AcceptInput(t) \/ RefuseInput(t))

FairSpec == Spec /\ Fairness

-----------------------------------------------------------------------------
(* Properties *)

Commands == [ts : Int, stick : Int, throttle : Int, dur : Int]

StickState == [raw : -Full..Full, smoothed : -Full..Full, output : -Full..Full]
ThrottleState == [raw : 0..Full, smoothed : 0..Full, output : 0..Full]

(* Every variable keeps its type; in particular no sequence of commands,   *)
(* rate limits and centring drives a channel out of its range.             *)
TypeOK ==
  /\ now \in Nat
  /\ mode \in Modes
  /\ wire \subseteq Commands
  /\ call \in [Threads -> {Idle} \cup [busy : {TRUE}, cmd : Commands, at : Nat]]
  /\ loop \in Nat \cup {-1}
  /\ lastUpdate \in Nat
  /\ running \in {"on", "stopping", "off"}
  /\ enabled \in BOOLEAN
  /\ holdUntil \in Nat
  /\ lastAcceptedTs \in Nat
  /\ inFailsafe \in BOOLEAN
  /\ centering \in BOOLEAN
  /\ stick \in StickState
  /\ throttle \in ThrottleState
  /\ topic \in [kind : {"none", "release"}]
               \cup [kind : {"override"}, at : Nat, stick : -Full..Full,
                     throttle : 0..Full]
  /\ inForce \in Int
  /\ newest \in Int
  /\ centerSince \in Nat

(* Once disable has released the channels, no iteration of the publish     *)
(* thread that was already under way puts an override on the topic again:  *)
(* the radio keeps the sticks until the next enable.                       *)
ReleasedWhileDisabled == ~ enabled => topic.kind # "override"

(* The failsafe never cuts a hold short: centring goes on only when an     *)
(* iteration has seen the clock beyond the hold of the command in force,   *)
(* however long a set_input was delayed between its clock reading and the  *)
(* lock.                                                                   *)
FailsafeOnlyAfterExpiry ==
  enabled /\ centering => 0 < holdUntil /\ holdUntil < lastUpdate

(* After every enable the sticks are neutral until the first command: the  *)
(* position held before a disable is never published again.                *)
NeutralUntilFirstCommand ==
  enabled /\ holdUntil = 0 =>
    /\ stick = Neutral /\ throttle = Neutral
    /\ topic.kind = "override" => topic.stick = 0 /\ topic.throttle = 0

(* The command in force is the newest one accepted since enable: a command *)
(* the network delivered late does not take the sticks back.               *)
NewestCommandInForce == inForce = newest

(* Clock reading of the last iteration that moved the channels.            *)
LastMoved == IF loop = -1 THEN lastUpdate ELSE lastUpdate - loop

(* The failsafe reaches centre in time: when it has run for d ticks the    *)
(* stick is within Full - CenterRate * d of centre, even if a mode change, *)
(* a refused command or a late iteration comes in between.                 *)
StickCentredInTime ==
  enabled /\ centering =>
    Abs(stick.output) <= Greater(0, Full - CenterRate * (LastMoved - centerSince))

(***************************************************************************)
(* What makes these invariants inductive: a call past its first checks has *)
(* a positive duration; the publish thread's clock reading is in the past  *)
(* and dt reaches back to the previous one; both failsafe flags agree; and *)
(* while enabled the topic shows the outputs of the last iteration.        *)
(***************************************************************************)
CallsOK == \A t \in Threads : call[t].busy => call[t].cmd.dur > 0

LoopOK == lastUpdate <= now /\ loop <= lastUpdate

FailsafeOK ==
  enabled =>
    /\ inFailsafe = centering
    /\ centering => 0 < holdUntil /\ holdUntil < lastUpdate /\ centerSince <= LastMoved

TopicOK ==
  topic.kind = "override" =>
    /\ enabled
    /\ topic.at = LastMoved
    /\ topic.stick = stick.output
    /\ topic.throttle = throttle.output

IInv ==
  /\ TypeOK /\ CallsOK /\ LoopOK
  /\ FailsafeOK
  /\ TopicOK
  /\ NeutralUntilFirstCommand
  /\ StickCentredInTime

(* When no client clock runs ahead, the ordering timestamp is the client's *)
(* own, so the three records of the newest command agree.                  *)
OrderInv ==
  /\ \A c \in wire : c.ts <= now
  /\ \A t \in Threads : call[t].busy => call[t].cmd.ts <= call[t].at
  /\ lastAcceptedTs = inForce
  /\ inForce = newest

(* Two overrides in a row differ by no more than the faster of the two     *)
(* rates allows between their clock readings: no jump when a command, an   *)
(* expiry or a resumed command changes what the loop follows.              *)
SlewBounded ==
  [][topic.kind = "override" /\ topic'.kind = "override" =>
       LET step == Greater(RateLimit, CenterRate) * (topic'.at - topic.at)
       IN /\ Abs(topic'.stick - topic.stick) <= step
          /\ Abs(topic'.throttle - topic.throttle) <= step]_topic

(* When commands stop, the transmitter does not keep the last stick: if it *)
(* was flown at all since enable it ends centred, with the throttle of the *)
(* current mode, and publishes that.                                       *)
FailsafeSettles ==
  <>[](enabled /\ running # "off" /\ holdUntil > 0 =>
         /\ centering
         /\ stick.output = 0
         /\ throttle.output = FailsafeThrottle(mode)
         /\ topic.kind = "override" /\ topic.stick = 0
         /\ topic.throttle = FailsafeThrottle(mode))

(* The transmitter implements its contract.                                *)
Contract == INSTANCE FailsafeContract WITH
  phase  <- IF ~ enabled THEN "off"
            ELSE IF centering THEN "failsafe"
            ELSE IF holdUntil = 0 THEN "ready" ELSE "following",
  newest <- lastAcceptedTs,
  topic  <- topic.kind

ImplementsContract == Contract!Spec
================================================================================

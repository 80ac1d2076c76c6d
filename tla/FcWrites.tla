-------------------------------- MODULE FcWrites --------------------------------
(***************************************************************************)
(* What the API of api_gateway.py writes to the flight controller besides  *)
(* arming: missions, parameters, failsafe and fence settings, calibration  *)
(* commands.  All go through MAVROS service clients under _svc_lock; a     *)
(* request is a script of calls, in one or two sections of the lock.       *)
(*                                                                         *)
(* MAVROS gives its services new identities when the flight controller     *)
(* comes back, and the clients made before then wait in vain.  They are    *)
(* made again after a call that timed out (with a cooldown), after a       *)
(* reconnect that telemetry saw, after a reboot asked for here, and by     *)
(* /system/reconnect_mavros.  The nine clients are always made together,   *)
(* so one number stands for them: the identity they were made for.         *)
(*                                                                         *)
(* A mission is a member of Plans; parameters are the two battery tiers,   *)
(* BATT_LOW_VOLT and BATT_CRT_VOLT, and the bit mask FS_OPTIONS, as a set  *)
(* of bits; /params writes any one of them.  Requests that fail            *)
(* their checks of form change nothing and are left out.  _require_disarmed*)
(* reads a flag that lags (see ArmControl): here it may say either.        *)
(***************************************************************************)
EXTENDS Integers, Sequences, FiniteSets

CONSTANTS
  Threads,      (* API threads                                             *)
  NoThread,     (* _svc_lock is free                                       *)
  Plans,        (* missions that are uploaded                              *)
  Tiers,        (* battery thresholds that are asked for; 0 disables       *)
  Bits,         (* bits of FS_OPTIONS                                      *)
  Exposed,      (* those /safety/options shows                             *)
  Masks,        (* values of FS_OPTIONS that clients write by /params      *)
  Volts,        (* values of one tier that clients write by /params        *)
  Offered,      (* kinds of requests that clients send                     *)
  MaxWrites,    (* bound: requests other than Singles                      *)
  MaxReboots,   (* bound: reboots of the flight controller                 *)
  MaxLate,      (* bound: commands given up and still on their way         *)
  MaxRebuilds   (* bound: rebuild threads waiting for the lock             *)

ASSUME ConstantsOK ==
  /\ NoThread \notin Threads
  /\ Plans \cap {"none", "part"} = {}
  /\ Tiers \subseteq [low : Nat, crit : Nat]
  /\ Exposed \subseteq Bits
  /\ Masks \subseteq SUBSET Bits
  /\ Volts \subseteq Nat
  /\ MaxWrites \in Nat /\ MaxReboots \in Nat /\ MaxLate \in Nat
  /\ MaxRebuilds \in Nat \ {0}

VARIABLES
  fc,         (* link up, identity of the services, mission, parameters    *)
  connected,  (* telemetry's state.connected                               *)
  clients,    (* identity the service clients were made for                *)
  lock,       (* holder of _svc_lock                                       *)
  thread,     (* the API threads                                           *)
  late,       (* calls given up that may still be carried out              *)
  rebuild,    (* cooldown, and rebuild threads waiting for the lock        *)
  reboot,     (* threads of _recreate_clients_after_reboot, their window   *)
  writes,     (* bound: requests other than Singles                        *)
  reboots,    (* bound: reboots so far                                     *)
  disturbed,  (* history: threads another write has overtaken              *)
  doubtful    (* history: the tiers were last written one alone, or by a   *)
              (* batch that was answered as failed                         *)

services == << clients, lock, rebuild, reboot >>
history == << disturbed, doubtful >>
bounds == << writes, reboots >>
vars == << fc, connected, services, thread, late, bounds, history >>

-----------------------------------------------------------------------------
(* Requests and the calls they make *)

(* crit_volt must be lower than low_volt where both are enabled.           *)
ValidTiers(low, crit) == low > 0 /\ crit > 0 => crit < low

BatteryRequests ==
  {r \in [kind : {"battery"}, tiers : Tiers] : ValidTiers(r.tiers.low, r.tiers.crit)}

(* /params writes any one parameter, in no order with the others.          *)
ParamRequests ==
  [kind : {"param"}, bits : Masks]
    \cup [kind : {"tier"}, name : {"low", "crit"}, volt : Volts]

Writes ==
  [kind : {"mission"}, plan : Plans, arm : BOOLEAN]
    \cup [kind : {"options"}, bits : SUBSET Exposed]
    \cup ParamRequests
    \cup BatteryRequests
    \cup [kind : {"clear", "defaults", "reboot", "reconnect"}]

(* Requests of one call that leaves nothing behind which a property looks  *)
(* at: reading parameters, a calibration step or motor test, the polygon   *)
(* of the fence.                                                           *)
ParamRead == [kind |-> "read"]
Calibration == [kind |-> "calibrate"]
Polygon == [kind |-> "polygon"]

Singles == {ParamRead, Calibration, Polygon}

Requests == Writes \cup Singles

(* Both tiers at once, in an order that was checked.                       *)
Batch(r) == r.kind \in {"battery", "defaults"}

(* /params writes one tier alone, whatever the other one is.               *)
WritesTiers(r) == Batch(r) \/ r.kind = "tier"

(* The calls each request makes, in their order.                           *)
MissionCalls(arm) ==
  << "clear", "push", "auto" >> \o (IF arm THEN << "arm" >> ELSE << >>)

MissionClearCalls == << "clear" >>

ParamCalls == << "type", "set" >>

SettingCalls == << "types", "set" >>

OptionsCalls == << "value" >> \o SettingCalls

RebootCalls == << "reboot" >>

ReconnectCalls == << "create" >>

Calls(r) ==
  CASE r.kind = "mission"   -> MissionCalls(r.arm)
    [] r.kind = "clear"     -> MissionClearCalls
    [] r.kind \in {"param", "tier"} -> ParamCalls
    [] r.kind = "options"   -> OptionsCalls
    [] Batch(r)             -> SettingCalls
    [] r.kind = "reboot"    -> RebootCalls
    [] r.kind = "reconnect" -> ReconnectCalls
    [] OTHER                -> << "one" >>

\* Mutant: each call of a mission takes the lock for itself.
EndsSection_Each == {"type", "value", "clear", "push"}

(* Calls after which the request lets the lock go and takes it again.      *)
EndsSection == {"type", "value"}

(* Calls whose failure does not end the request: a type or a value that    *)
(* cannot be read has a default.                                           *)
Optional == {"type", "value"}

(* Refused at once without a link.                                         *)
NeedsLink(r) == r.kind \in {"mission", "clear", "reboot", "calibrate"}

Idle == [at |-> "idle"]

(* FS_OPTIONS as it was read: nothing, when the read fails, counts as 0.   *)
Started(r) == [at |-> "acquire", req |-> r, n |-> 1, got |-> {}, read |-> FALSE]

Call(t) == Calls(thread[t].req)[thread[t].n]
Waiting(t) == thread[t].at = "wait"
IsLast(t) == thread[t].n = Len(Calls(thread[t].req))

\* Mutant: the bits that are not shown are written as zero.
NewOptions_Stomp(got, bits) == bits

(* cur & ~exposed, with the bits that were asked for.                      *)
NewOptions(got, bits) == (got \ Exposed) \cup bits

(* /safety/defaults.                                                       *)
Defaults == [low |-> 2, crit |-> 1, fs |-> Exposed]

(* The parameters a request writes.                                        *)
Setting(r, got) ==
  CASE r.kind = "battery"  -> r.tiers
    [] r.kind = "options"  -> [fs |-> NewOptions(got, r.bits)]
    [] r.kind = "param"    -> [fs |-> r.bits]
    [] r.kind = "tier"     -> [p \in {r.name} |-> r.volt]
    [] r.kind = "defaults" -> Defaults

Goto(t, at) == thread' = [thread EXCEPT ![t].at = at]

Init ==
  /\ fc = [up |-> TRUE, gen |-> 0, mission |-> "none",
           param |-> [low |-> 2, crit |-> 1, fs |-> Bits]]
  /\ connected = FALSE
  /\ clients = 0
  /\ lock = NoThread
  /\ thread = [t \in Threads |-> Idle]
  /\ late = {}
  /\ rebuild = [cooldown |-> FALSE, pending |-> 0]
  /\ reboot = [starting |-> 0, asleep |-> 0, ready |-> 0, window |-> FALSE]
  /\ writes = 0 /\ reboots = 0
  /\ disturbed = {} /\ doubtful = FALSE

-----------------------------------------------------------------------------
(* The flight controller *)

(* Parameters are set one by one, so a call may set some of them.          *)
Applied(c, some) ==
  [p \in DOMAIN fc.param |-> IF p \in some THEN Setting(c.req, c.got)[p]
                                           ELSE fc.param[p]]

(* What a call leaves behind that was carried out in full.                 *)
Done(c) ==
  CASE c.call = "clear"  -> [fc EXCEPT !.mission = "none"]
    [] c.call = "push"   -> [fc EXCEPT !.mission = c.req.plan]
    [] c.call = "set"    ->
         [fc EXCEPT !.param = Applied(c, DOMAIN Setting(c.req, c.got))]
    [] c.call = "reboot" -> [fc EXCEPT !.up = FALSE]
    [] OTHER             -> fc

(* What it may leave behind otherwise.                                     *)
HalfDone(c) ==
  CASE c.call = "push" -> {fc, [fc EXCEPT !.mission = "part"]}
    [] c.call = "set"  ->
         {[fc EXCEPT !.param = Applied(c, some)] :
            some \in SUBSET (DOMAIN Setting(c.req, c.got)) \ {DOMAIN Setting(c.req, c.got)}}
    [] OTHER           -> {fc}

CallOf(t) == [call |-> Call(t), req |-> thread[t].req, got |-> thread[t].got]

(* A call counts among the reboots if it reboots.                          *)
CountsReboot(call) ==
  /\ call = "reboot" => reboots < MaxReboots
  /\ reboots' = IF call = "reboot" THEN reboots + 1 ELSE reboots

(* The threads that are in the middle of a request.                        *)
Begun == {t \in Threads : lock = t \/ (thread[t] # Idle /\ thread[t].n > 1)}

(* Whoever is between reading FS_OPTIONS and writing it is overtaken.      *)
Overtaken(t, call) == IF call = "set" THEN disturbed \cup (Begun \ {t}) ELSE disturbed

(* MAVROS carries a call out and answers it; the answer may be lost.       *)
Execute(t) ==
  /\ Waiting(t)
  /\ fc.up /\ clients = fc.gen
  /\ CountsReboot(Call(t))
  /\ fc' = Done(CallOf(t))
  /\ \/ thread' = [thread EXCEPT ![t].at = "ok",
          ![t].got = IF Call(t) = "value" THEN fc.param.fs ELSE @,
          ![t].read = IF Call(t) = "value" THEN TRUE ELSE @]
     \/ Goto(t, "unanswered")
  /\ disturbed' = Overtaken(t, Call(t))
  /\ UNCHANGED << connected, services, late, writes, doubtful >>

(* Or it fails, half way where that is possible.                           *)
Refuse(t) ==
  /\ Waiting(t)
  /\ clients = fc.gen
  /\ fc' \in IF fc.up THEN HalfDone(CallOf(t)) ELSE {fc}
  /\ Goto(t, "refused") \/ Goto(t, "unanswered")
  /\ disturbed' = Overtaken(t, Call(t))
  /\ UNCHANGED << connected, services, late, bounds, doubtful >>

(* A call that was given up is carried out after all, or never.            *)
ExecuteLate(c) ==
  /\ fc.up
  /\ CountsReboot(c.call)
  /\ fc' \in {Done(c)} \cup HalfDone(c)
  /\ late' = late \ {c}
  /\ disturbed' = disturbed \cup Begun
  /\ doubtful' = (doubtful \/ (c.call = "set" /\ WritesTiers(c.req)))
  /\ UNCHANGED << connected, services, thread, writes >>

LoseLate(c) ==
  /\ late' = late \ {c}
  /\ UNCHANGED << fc, connected, services, thread, bounds, history >>

(* It reboots for reasons of its own, and comes back with new services.    *)
Crash ==
  /\ fc.up /\ reboots < MaxReboots
  /\ fc' = [fc EXCEPT !.up = FALSE]
  /\ reboots' = reboots + 1
  /\ UNCHANGED << connected, services, thread, late, writes, history >>

Return ==
  /\ ~ fc.up
  /\ fc' = [fc EXCEPT !.up = TRUE, !.gen = @ + 1]
  /\ UNCHANGED << connected, services, thread, late, bounds, history >>

-----------------------------------------------------------------------------
(* Service clients *)

(* /mavros/state arrives; _on_reconnect starts a rebuild when it shows the *)
(* link again.                                                             *)
StateReport ==
  /\ connected' = fc.up
  /\ IF fc.up /\ ~ connected
     THEN /\ rebuild.pending < MaxRebuilds
          /\ rebuild' = [rebuild EXCEPT !.pending = @ + 1]
     ELSE UNCHANGED rebuild
  /\ UNCHANGED << fc, clients, lock, reboot, thread, late, bounds, history >>

\* Mutant: the clients are not made again after a timeout.
AfterTimeout_Keep == rebuild

(* _maybe_rebuild_clients: not in the cooldown, not while a reboot is      *)
(* being handled; the rebuild runs in a thread of its own.                 *)
AfterTimeout ==
  IF rebuild.cooldown \/ reboot.window THEN rebuild
  ELSE [cooldown |-> TRUE, pending |-> rebuild.pending + 1]

MayCreate == lock = NoThread

Wanted == rebuild.pending > 0

Rebuild ==
  /\ Wanted
  /\ MayCreate
  /\ clients' = fc.gen
  /\ rebuild' = [rebuild EXCEPT !.pending = @ - 1]
  /\ UNCHANGED << fc, connected, lock, reboot, thread, late, bounds, history >>

CooldownOver ==
  /\ rebuild.cooldown
  /\ rebuild.pending < MaxRebuilds
  /\ rebuild' = [rebuild EXCEPT !.cooldown = FALSE]
  /\ UNCHANGED << fc, connected, clients, lock, reboot, thread, late, bounds, history >>

(* _recreate_clients_after_reboot: the window is opened, the thread sleeps *)
(* and makes the clients again; the window closes then, or when it has     *)
(* waited too long for the lock.                                           *)
RebootStarts ==
  /\ reboot.starting > 0
  /\ reboot' = [reboot EXCEPT !.starting = @ - 1, !.asleep = @ + 1, !.window = TRUE]
  /\ UNCHANGED << fc, connected, clients, lock, rebuild, thread, late, bounds, history >>

RebootWakes ==
  /\ reboot.asleep > 0
  /\ reboot' = [reboot EXCEPT !.asleep = @ - 1, !.ready = @ + 1]
  /\ UNCHANGED << fc, connected, clients, lock, rebuild, thread, late, bounds, history >>

WindowOver ==
  /\ reboot.window /\ reboot.asleep = 0
  /\ reboot' = [reboot EXCEPT !.window = FALSE]
  /\ UNCHANGED << fc, connected, clients, lock, rebuild, thread, late, bounds, history >>

Recreate ==
  /\ reboot.ready > 0
  /\ MayCreate
  /\ clients' = fc.gen
  /\ reboot' = [reboot EXCEPT !.ready = @ - 1, !.window = FALSE]
  /\ UNCHANGED << fc, connected, lock, rebuild, thread, late, bounds, history >>

-----------------------------------------------------------------------------
(* API threads *)

(* A thread takes a request up, or answers it at once without a link.      *)
Handle(t, r) ==
  /\ thread[t] = Idle
  /\ r \in Writes => writes < MaxWrites
  /\ writes' = IF r \in Writes THEN writes + 1 ELSE writes
  /\ NeedsLink(r) => connected
  /\ thread' = [thread EXCEPT ![t] = Started(r)]
  /\ UNCHANGED << fc, connected, services, late, reboots, history >>

Acquire(t) ==
  /\ thread[t].at = "acquire"
  /\ lock = NoThread
  /\ lock' = t
  /\ Goto(t, "send")
  /\ UNCHANGED << fc, connected, clients, rebuild, reboot, late, bounds, history >>

(* _set_mode and _call_arming look at the link again.                      *)
ChecksLink(t) == Call(t) \in {"auto", "arm"}

Send(t) ==
  /\ thread[t].at = "send"
  /\ Call(t) # "create"
  /\ ChecksLink(t) => connected
  /\ Goto(t, "wait")
  /\ UNCHANGED << fc, connected, services, late, bounds, history >>

LinkGone(t) ==
  /\ thread[t].at = "send"
  /\ ChecksLink(t) /\ ~ connected
  /\ Goto(t, "refused")
  /\ UNCHANGED << fc, connected, services, late, bounds, history >>

(* /system/reconnect_mavros makes the clients itself.                      *)
Create(t) ==
  /\ thread[t].at = "send"
  /\ Call(t) = "create"
  /\ clients' = fc.gen
  /\ Goto(t, "ok")
  /\ UNCHANGED << fc, connected, lock, rebuild, reboot, late, bounds, history >>

(* The service is not there for two seconds, which may happen at any time. *)
NotReady(t) ==
  /\ thread[t].at = "send"
  /\ Call(t) # "create"
  /\ ChecksLink(t) => connected
  /\ rebuild' = AfterTimeout
  /\ Goto(t, "refused")
  /\ UNCHANGED << fc, connected, clients, lock, reboot, late, bounds, history >>

(* Calls that change what is modelled of the flight controller.            *)
Effective == {"clear", "push", "set", "reboot"}

(* No answer within the timeout; the call may be carried out later.        *)
TimeOut(t) ==
  /\ Waiting(t) \/ thread[t].at = "unanswered"
  /\ rebuild' = AfterTimeout
  /\ Goto(t, "refused")
  /\ late' = IF /\ Waiting(t) /\ clients = fc.gen /\ Call(t) \in Effective
                /\ Cardinality(late) < MaxLate
             THEN late \cup {CallOf(t)} ELSE late
  /\ UNCHANGED << fc, connected, clients, lock, reboot, bounds, history >>

GoesOn(t) == ~ IsLast(t) /\ (thread[t].at = "ok" \/ Call(t) \in Optional)

(* The next call of the script, in the same section of the lock or in a    *)
(* new one.                                                                *)
Continue(t) ==
  /\ thread[t].at \in {"ok", "refused"}
  /\ GoesOn(t)
  /\ IF Call(t) \in EndsSection
     THEN /\ lock' = NoThread
          /\ thread' = [thread EXCEPT ![t].at = "acquire", ![t].n = @ + 1]
     ELSE /\ UNCHANGED lock
          /\ thread' = [thread EXCEPT ![t].at = "send", ![t].n = @ + 1]
  /\ UNCHANGED << fc, connected, clients, rebuild, reboot, late, bounds, history >>

\* Mutant: only a request that succeeded lets the lock go.
LockAfter_OnSuccess(t) == IF thread[t].at = "ok" THEN NoThread ELSE lock

LockAfter(t) == NoThread

\* Mutant: the results of a batch of parameters are not looked at.
Failed_Ignored(t) == thread[t].at = "refused" /\ Call(t) # "set"

Failed(t) == thread[t].at = "refused"

(* The request is answered; a reboot that succeeded starts its thread.     *)
Answer(t) ==
  /\ thread[t].at \in {"ok", "refused"}
  /\ ~ GoesOn(t)
  /\ lock' = LockAfter(t)
  /\ thread' = [thread EXCEPT ![t] = Idle]
  /\ reboot' = IF Call(t) = "reboot" /\ ~ Failed(t)
               THEN [reboot EXCEPT !.starting = @ + 1] ELSE reboot
  /\ doubtful' = IF WritesTiers(thread[t].req)
                 THEN \/ Failed(t) \/ ~ Batch(thread[t].req)
                      \/ doubtful /\ t \in disturbed
                 ELSE doubtful
  /\ disturbed' = disturbed \ {t}
  /\ UNCHANGED << fc, connected, clients, rebuild, late, bounds >>

Step(t) ==
  Send(t) \/ LinkGone(t) \/ Create(t) \/ NotReady(t) \/ Continue(t) \/ Answer(t)

Next ==
  \/ \E t \in Threads : Execute(t) \/ Refuse(t)
  \/ \E c \in late : ExecuteLate(c) \/ LoseLate(c)
  \/ Crash \/ Return
  \/ StateReport \/ Rebuild \/ CooldownOver
  \/ RebootStarts \/ RebootWakes \/ WindowOver \/ Recreate
  \/ \E t \in Threads, r \in {q \in Requests : q.kind \in Offered} : Handle(t, r)
  \/ \E t \in Threads : Acquire(t) \/ Step(t) \/ TimeOut(t)

Spec == Init /\ [][Next]_vars

(***************************************************************************)
(* Threads run on, deadlines pass, and a thread that wants the lock gets   *)
(* it some time if it becomes free again and again.  Nothing is assumed of *)
(* the flight controller, telemetry or the clients of the API.             *)
(***************************************************************************)
Fairness ==
  /\ \A t \in Threads : WF_vars(Step(t)) /\ WF_vars(TimeOut(t)) /\ SF_vars(Acquire(t))
  /\ SF_vars(Rebuild) /\ SF_vars(Recreate)
  /\ WF_vars(CooldownOver) /\ WF_vars(WindowOver)
  /\ WF_vars(RebootStarts) /\ WF_vars(RebootWakes)

FairSpec == Spec /\ Fairness

-----------------------------------------------------------------------------
(* Properties *)

CallNames == {"clear", "push", "auto", "arm", "one", "type", "value", "types",
              "set", "reboot", "create"}

Working == [at : {"acquire", "send", "wait", "unanswered", "ok", "refused"},
            req : Requests, n : 1..4, got : SUBSET Bits, read : BOOLEAN]

(* Every variable keeps its type.                                          *)
TypeOK ==
  /\ fc \in [up : BOOLEAN, gen : Nat, mission : Plans \cup {"none", "part"},
             param : [low : Nat, crit : Nat, fs : SUBSET Bits]]
  /\ connected \in BOOLEAN
  /\ clients \in Nat
  /\ lock \in Threads \cup {NoThread}
  /\ thread \in [Threads -> {Idle} \cup Working]
  /\ late \subseteq [call : CallNames, req : Requests, got : SUBSET Bits]
  /\ rebuild \in [cooldown : BOOLEAN, pending : Nat]
  /\ reboot \in [starting : Nat, asleep : Nat, ready : Nat, window : BOOLEAN]
  /\ writes \in Nat /\ reboots \in Nat
  /\ disturbed \subseteq Threads
  /\ doubtful \in BOOLEAN

(* "Upload mission, set AUTO mode, arm, and execute": between its upload   *)
(* and its answer a request finds on the flight controller the mission it  *)
(* uploaded - not an older one, not half of one, not another client's -    *)
(* unless a command given up before was carried out meanwhile.             *)
FliesWhatItUploaded ==
  \A t \in Threads :
    thread[t] # Idle /\ thread[t].at # "refused" /\ t \notin disturbed
      => (thread[t].req.kind = "mission" /\ thread[t].n \in 3..4
            => fc.mission = thread[t].req.plan)

(* The critical battery tier is below the low one, as /safety/battery is   *)
(* checked for, unless a call that sets a tier is under way, the last      *)
(* batch was answered as failed, one given up has been carried out since,  *)
(* or a client has since set one tier alone by /params, which looks at no  *)
(* order: a batch of which a part was written is never reported as         *)
(* written, two batches do not mix, and a batch mends what was there.      *)
TiersOrderedOrReported ==
  \/ fc.param.low > 0 /\ fc.param.crit > 0 => fc.param.crit < fc.param.low
  \/ doubtful
  \/ \E t \in Threads :
       thread[t] # Idle /\ WritesTiers(thread[t].req) /\ thread[t].n = 2 /\ lock = t

(* "Preserves bits not exposed in the UI": /safety/options changes no      *)
(* other bit of FS_OPTIONS - if it could read the old value and nobody     *)
(* else wrote in between (see the README for what happens then).           *)
OptionsKeepTheRest ==
  [][\A t \in Threads :
       thread[t] # Idle /\ Waiting(t) /\ ~ Waiting(t)'
         => (thread[t].req.kind = "options" /\ thread[t].read /\ t \notin disturbed
               => fc'.param.fs \ Exposed = fc.param.fs \ Exposed)]_vars

(* "A rebuild is the only way to recover": when the flight controller has  *)
(* rebooted for the last time, calls stop waiting on dead services, even   *)
(* if telemetry missed the reboot, in the cooldown, or with a reboot       *)
(* window left open.                                                       *)
StaleClientsReplaced ==
  <>[](\A t \in Threads : ~ (Waiting(t) /\ clients # fc.gen))

(* Every request is answered: neither timeouts nor rebuilds that want the  *)
(* same lock leave a thread behind.                                        *)
RequestsAnswered == \A t \in Threads : thread[t] # Idle ~> thread[t] = Idle
================================================================================

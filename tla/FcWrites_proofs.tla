----------------------------- MODULE FcWrites_proofs -----------------------------
(***************************************************************************)
(* Theorems about what the API writes to the flight controller, for any    *)
(* number of threads, missions, battery tiers and option bits, reboots and *)
(* late calls.                                                             *)
(*                                                                         *)
(* _svc_lock excludes: the thread that holds it is the one in the middle   *)
(* of a section (SectionInv).  From there: a mission that is uploaded is   *)
(* the one on the flight controller until its thread lets the lock go      *)
(* (MissionInv), a batch of battery tiers that was answered as written is  *)
(* whole (TiersInv), and what /safety/options has read stays true of the   *)
(* bits it does not show (OptionsInv) - each until a call that was given   *)
(* up, or another thread between two sections, overtakes.                  *)
(***************************************************************************)
EXTENDS FcWrites, SequenceTheorems, TLAPS

-----------------------------------------------------------------------------
(* Requests *)

Kinds == {"mission", "options", "param", "tier", "battery", "clear", "defaults",
          "reboot", "reconnect", "read", "calibrate", "polygon"}

LEMMA RequestKinds ==
  ASSUME NEW r \in Requests
  PROVE  /\ r.kind \in Kinds
         /\ r.kind = "mission" => r.plan \in Plans /\ r.arm \in BOOLEAN
         /\ r.kind = "options" => r.bits \subseteq Exposed
         /\ r.kind = "param" => r.bits \in Masks
         /\ r.kind = "tier" => r.name \in {"low", "crit"} /\ r.volt \in Volts
         /\ r.kind = "battery" => r.tiers \in Tiers /\ ValidTiers(r.tiers.low, r.tiers.crit)
BY DEF Requests, Writes, Singles, ParamRequests, BatteryRequests, ParamRead, Calibration, Polygon, Kinds

LEMMA Scripts ==
  ASSUME NEW r \in Requests
  PROVE  /\ r.kind = "mission" =>
              /\ Len(Calls(r)) = (IF r.arm THEN 4 ELSE 3)
              /\ Calls(r)[1] = "clear" /\ Calls(r)[2] = "push" /\ Calls(r)[3] = "auto"
              /\ r.arm => Calls(r)[4] = "arm"
         /\ r.kind = "options" =>
              /\ Len(Calls(r)) = 3
              /\ Calls(r)[1] = "value" /\ Calls(r)[2] = "types" /\ Calls(r)[3] = "set"
         /\ r.kind \in {"param", "tier"} => Calls(r) = << "type", "set" >>
         /\ Batch(r) => Calls(r) = << "types", "set" >>
         /\ r.kind = "clear" => Calls(r) = << "clear" >>
         /\ r.kind = "reboot" => Calls(r) = << "reboot" >>
         /\ r.kind = "reconnect" => Calls(r) = << "create" >>
         /\ r.kind \in {"read", "calibrate", "polygon"} => Calls(r) = << "one" >>
<1> USE DEF Batch
<1>1. ASSUME r.kind = "mission"
      PROVE  /\ Len(Calls(r)) = (IF r.arm THEN 4 ELSE 3)
             /\ Calls(r)[1] = "clear" /\ Calls(r)[2] = "push" /\ Calls(r)[3] = "auto"
             /\ r.arm => Calls(r)[4] = "arm"
  <2> DEFINE s == << "clear", "push", "auto" >>
             t == IF r.arm THEN << "arm" >> ELSE << >>
  <2>1. Calls(r) = s \o t
    BY <1>1, Zenon DEF Calls, MissionCalls
  <2>2. /\ s \in Seq(CallNames) /\ Len(s) = 3
        /\ s[1] = "clear" /\ s[2] = "push" /\ s[3] = "auto"
    BY DEF CallNames
  <2>3. CASE r.arm
    <3>1. t = << "arm" >>
      BY <2>3
    <3>2. t \in Seq(CallNames) /\ Len(t) = 1 /\ t[1] = "arm"
      <4>1. << "arm" >> \in Seq(CallNames)
        BY DEF CallNames
      <4> HIDE DEF t
      <4> QED
        BY <3>1, <4>1
    <3> HIDE DEF s, t
    <3>3. /\ Len(s \o t) = 3 + 1
          /\ \A i \in 1..(3 + 1) : (s \o t)[i] = IF i <= 3 THEN s[i] ELSE t[i - 3]
      <4>1. /\ Len(s \o t) = Len(s) + Len(t)
            /\ \A i \in 1..(Len(s) + Len(t)) :
                 (s \o t)[i] = IF i <= Len(s) THEN s[i] ELSE t[i - Len(s)]
        BY <2>2, <3>2, ConcatProperties
      <4> QED
        BY <2>2, <3>2, <4>1
    <3> QED
      BY <2>1, <2>2, <2>3, <3>2, <3>3
  <2>4. CASE ~ r.arm
    <3>1. t = << >>
      BY <2>4
    <3>2. t \in Seq(CallNames) /\ Len(t) = 0
      BY <3>1
    <3> HIDE DEF s, t
    <3>3. /\ Len(s \o t) = 3 + 0
          /\ \A i \in 1..(3 + 0) : (s \o t)[i] = IF i <= 3 THEN s[i] ELSE t[i - 3]
      <4>1. /\ Len(s \o t) = Len(s) + Len(t)
            /\ \A i \in 1..(Len(s) + Len(t)) :
                 (s \o t)[i] = IF i <= Len(s) THEN s[i] ELSE t[i - Len(s)]
        BY <2>2, <3>2, ConcatProperties
      <4> QED
        BY <2>2, <3>2, <4>1
    <3> QED
      BY <2>1, <2>2, <2>4, <3>3
  <2> QED
    BY <2>3, <2>4
<1>2. ASSUME r.kind = "options"
      PROVE  /\ Len(Calls(r)) = 3
             /\ Calls(r)[1] = "value" /\ Calls(r)[2] = "types" /\ Calls(r)[3] = "set"
  <2> DEFINE s == << "value" >>
             t == << "types", "set" >>
  <2>1. Calls(r) = s \o t
    BY <1>2, Zenon DEF Calls, OptionsCalls, SettingCalls
  <2>2. /\ s \in Seq(CallNames) /\ Len(s) = 1 /\ s[1] = "value"
        /\ t \in Seq(CallNames) /\ Len(t) = 2 /\ t[1] = "types" /\ t[2] = "set"
    BY DEF CallNames
  <2> HIDE DEF s, t
  <2>3. /\ Len(s \o t) = 1 + 2
        /\ \A i \in 1..(1 + 2) : (s \o t)[i] = IF i <= 1 THEN s[i] ELSE t[i - 1]
    <3>1. /\ Len(s \o t) = Len(s) + Len(t)
          /\ \A i \in 1..(Len(s) + Len(t)) :
               (s \o t)[i] = IF i <= Len(s) THEN s[i] ELSE t[i - Len(s)]
      BY <2>2, ConcatProperties
    <3> QED
      BY <2>2, <3>1
  <2> QED
    BY <2>1, <2>2, <2>3
<1>3. /\ r.kind = "clear" => Calls(r) = << "clear" >>
      /\ r.kind \in {"param", "tier"} => Calls(r) = << "type", "set" >>
      /\ Batch(r) => Calls(r) = << "types", "set" >>
  BY Zenon DEF Calls, MissionClearCalls, ParamCalls, SettingCalls
<1>4. /\ r.kind = "reboot" => Calls(r) = << "reboot" >>
      /\ r.kind = "reconnect" => Calls(r) = << "create" >>
      /\ r.kind \in {"read", "calibrate", "polygon"} => Calls(r) = << "one" >>
  BY Zenon DEF Calls, RebootCalls, ReconnectCalls
<1> QED
  BY <1>1, <1>2, <1>3, <1>4

(* Where in a script a call stands, and in which.                          *)
LEMMA CallAt ==
  ASSUME NEW r \in Requests
  PROVE  /\ Len(Calls(r)) \in 1..4
         /\ WritesTiers(r) => Len(Calls(r)) = 2
         /\ \A n \in 1..Len(Calls(r)) :
              /\ n \in 1..4 /\ Calls(r)[n] \in CallNames
              /\ Calls(r)[n] = "set" => r.kind \in {"param", "tier", "options", "battery", "defaults"}
              /\ Calls(r)[n] = "push" => r.kind = "mission" /\ n = 2
              /\ Calls(r)[n] = "value" => r.kind = "options" /\ n = 1
              /\ Calls(r)[n] = "type" => r.kind \in {"param", "tier"} /\ n = 1
              /\ r.kind = "mission" /\ n = 2 => Calls(r)[n] = "push"
              /\ r.kind = "mission" /\ n > 1 => Calls(r)[n] # "clear"
              /\ WritesTiers(r) => (Calls(r)[n] = "set" <=> n = 2)
<1> USE DEF CallNames, WritesTiers, Batch
<1>1. CASE r.kind = "mission" /\ r.arm
  <2>1. /\ Len(Calls(r)) = 4 /\ Calls(r)[1] = "clear" /\ Calls(r)[2] = "push"
        /\ Calls(r)[3] = "auto" /\ Calls(r)[4] = "arm"
    BY <1>1, Scripts
  <2>2. \A n \in 1..4 : n = 1 \/ n = 2 \/ n = 3 \/ n = 4
    OBVIOUS
  <2> QED
    BY <1>1, <2>1, <2>2
<1>2. CASE r.kind = "mission" /\ ~ r.arm
  <2>1. /\ Len(Calls(r)) = 3 /\ Calls(r)[1] = "clear" /\ Calls(r)[2] = "push"
        /\ Calls(r)[3] = "auto"
    BY <1>2, Scripts
  <2>2. \A n \in 1..3 : n = 1 \/ n = 2 \/ n = 3
    OBVIOUS
  <2> QED
    BY <1>2, <2>1, <2>2
<1>3. CASE r.kind \in {"param", "tier"}
  BY <1>3, Scripts
<1>4. CASE r.kind = "options"
  <2>1. /\ Len(Calls(r)) = 3 /\ Calls(r)[1] = "value" /\ Calls(r)[2] = "types"
        /\ Calls(r)[3] = "set"
    BY <1>4, Scripts
  <2>2. \A n \in 1..3 : n = 1 \/ n = 2 \/ n = 3
    OBVIOUS
  <2> QED
    BY <1>4, <2>1, <2>2
<1>5. CASE r.kind \in {"battery", "defaults"}
  <2>1. Batch(r) /\ Len(Calls(r)) = 2 /\ Calls(r)[1] = "types" /\ Calls(r)[2] = "set"
    BY <1>5, Scripts
  <2>2. \A n \in 1..2 : n = 1 \/ n = 2
    OBVIOUS
  <2> QED
    BY <1>5, <2>1, <2>2
<1>6. CASE r.kind \in {"clear", "reboot", "reconnect", "read", "calibrate", "polygon"}
  <2>1. PICK call \in {"clear", "reboot", "create", "one"} : Calls(r) = << call >>
    BY <1>6, Scripts
  <2> QED
    BY <1>6, <2>1
<1>7. \/ r.kind = "mission" /\ r.arm
      \/ r.kind = "mission" /\ ~ r.arm
      \/ r.kind \in {"param", "tier"}
      \/ r.kind = "options"
      \/ r.kind \in {"battery", "defaults"}
      \/ r.kind \in {"clear", "reboot", "reconnect", "read", "calibrate", "polygon"}
  BY RequestKinds DEF Kinds
<1> QED
  BY ONLY <1>1, <1>2, <1>3, <1>4, <1>5, <1>6, <1>7

-----------------------------------------------------------------------------
(* What a call does to the flight controller *)

Params == [low : Nat, crit : Nat, fs : SUBSET Bits]

FcStates == [up : BOOLEAN, gen : Nat, mission : Plans \cup {"none", "part"},
             param : Params]

(* A call out of the script of its request.                                *)
Commands ==
  {c \in [call : CallNames, req : Requests, got : SUBSET Bits] :
     \E n \in 1..Len(Calls(c.req)) : c.call = Calls(c.req)[n]}

Tiered(param) == ValidTiers(param.low, param.crit)

LEMMA SetsWhat ==
  ASSUME NEW r \in Requests, NEW got \in SUBSET Bits,
         r.kind \in {"param", "tier", "options", "battery", "defaults"},
         NEW s, s = Setting(r, got)
  PROVE  /\ DOMAIN s \subseteq {"low", "crit", "fs"}
         /\ "low" \in DOMAIN s => s["low"] \in Nat
         /\ "crit" \in DOMAIN s => s["crit"] \in Nat
         /\ "fs" \in DOMAIN s => s["fs"] \in SUBSET Bits
         /\ Batch(r) => {"low", "crit"} \subseteq DOMAIN s /\ ValidTiers(s["low"], s["crit"])
         /\ ~ WritesTiers(r) => DOMAIN s = {"fs"}
         /\ r.kind = "options" => s["fs"] = (got \ Exposed) \cup r.bits
<1> USE DEF WritesTiers, Batch
<1>1. CASE r.kind = "battery"
  <2>1. s = r.tiers
    BY <1>1, Zenon DEF Setting
  <2>2. r.tiers \in [low : Nat, crit : Nat] /\ ValidTiers(r.tiers.low, r.tiers.crit)
    BY <1>1, RequestKinds, ConstantsOK
  <2> QED
    BY <1>1, <2>1, <2>2
<1>2. CASE r.kind = "options"
  <2>1. s = [fs |-> NewOptions(got, r.bits)]
    BY <1>2, Zenon DEF Setting
  <2>2. r.bits \subseteq Exposed
    BY <1>2, RequestKinds
  <2> QED
    BY <1>2, <2>1, <2>2, ConstantsOK DEF NewOptions
<1>3. CASE r.kind = "param"
  <2>1. s = [fs |-> r.bits]
    BY <1>3, Zenon DEF Setting
  <2>2. r.bits \in Masks
    BY <1>3, RequestKinds
  <2> QED
    BY <1>3, <2>1, <2>2, ConstantsOK
<1>4. CASE r.kind = "defaults"
  <2>1. s = [low |-> 2, crit |-> 1, fs |-> Exposed]
    BY <1>4, Zenon DEF Setting, Defaults
  <2> QED
    BY <1>4, <2>1, ConstantsOK DEF ValidTiers
<1>5. CASE r.kind = "tier"
  <2>1. s = [p \in {r.name} |-> r.volt]
    BY <1>5, Zenon DEF Setting
  <2>2. r.name \in {"low", "crit"} /\ r.volt \in Nat
    BY <1>5, RequestKinds, ConstantsOK
  <2> QED
    BY <1>5, <2>1, <2>2
<1> QED
  BY <1>1, <1>2, <1>3, <1>4, <1>5

(* A batch of which some parameters are set.                               *)
LEMMA Batches ==
  ASSUME fc \in FcStates, NEW c \in Commands, c.call = "set",
         NEW some, some \subseteq DOMAIN Setting(c.req, c.got)
  PROVE  /\ Applied(c, some) \in Params
         /\ ~ WritesTiers(c.req) => /\ Applied(c, some).low = fc.param.low
                                    /\ Applied(c, some).crit = fc.param.crit
         /\ some = DOMAIN Setting(c.req, c.got) /\ Batch(c.req) => Tiered(Applied(c, some))
         /\ c.req.kind = "options" =>
              Applied(c, some).fs = IF some = DOMAIN Setting(c.req, c.got)
                                    THEN (c.got \ Exposed) \cup c.req.bits ELSE fc.param.fs
<1> DEFINE s == Setting(c.req, c.got)
           p == Applied(c, some)
<1>1. c.req \in Requests /\ c.got \in SUBSET Bits
  BY DEF Commands
<1>2. c.req.kind \in {"param", "tier", "options", "battery", "defaults"}
  BY <1>1, CallAt DEF Commands
<1>3. /\ DOMAIN s \subseteq {"low", "crit", "fs"}
      /\ "low" \in DOMAIN s => s["low"] \in Nat
      /\ "crit" \in DOMAIN s => s["crit"] \in Nat
      /\ "fs" \in DOMAIN s => s["fs"] \in SUBSET Bits
      /\ Batch(c.req) => {"low", "crit"} \subseteq DOMAIN s /\ ValidTiers(s["low"], s["crit"])
      /\ ~ WritesTiers(c.req) => DOMAIN s = {"fs"}
      /\ c.req.kind = "options" => s["fs"] = (c.got \ Exposed) \cup c.req.bits
  BY <1>1, <1>2, SetsWhat
<1>4. fc.param \in Params /\ DOMAIN fc.param = {"low", "crit", "fs"}
  BY DEF FcStates, Params
<1>5. p = [q \in {"low", "crit", "fs"} |-> IF q \in some THEN s[q] ELSE fc.param[q]]
  BY <1>4, Zenon DEF Applied
<1> HIDE DEF s, p
<1>6. /\ p.low = IF "low" \in some THEN s["low"] ELSE fc.param.low
      /\ p.crit = IF "crit" \in some THEN s["crit"] ELSE fc.param.crit
      /\ p.fs = IF "fs" \in some THEN s["fs"] ELSE fc.param.fs
  BY <1>5
<1>7. some \subseteq DOMAIN s
  BY DEF s
<1>8. p \in Params
  <2>1. p.low \in Nat /\ p.crit \in Nat /\ p.fs \in SUBSET Bits
    BY <1>3, <1>4, <1>6, <1>7 DEF Params
  <2>2. p = [low |-> p.low, crit |-> p.crit, fs |-> p.fs]
    BY <1>5
  <2> QED
    BY <2>1, <2>2 DEF Params
<1>9. some = DOMAIN s /\ Batch(c.req) => Tiered(p)
  BY <1>3, <1>6 DEF Tiered
<1>10. c.req.kind = "options" => DOMAIN s = {"fs"}
  BY <1>3 DEF WritesTiers, Batch
<1> QED
  BY <1>3, <1>6, <1>7, <1>8, <1>9, <1>10 DEF s, p

(* What a command may leave behind, carried out in full or half way.       *)
LEMMA Carried ==
  ASSUME fc \in FcStates, NEW c \in Commands, NEW f \in {Done(c)} \cup HalfDone(c)
  PROVE  /\ f \in FcStates
         /\ f.mission = fc.mission \/ c.call \in {"clear", "push"}
         /\ c.call # "set" => f.param = fc.param
         /\ ~ WritesTiers(c.req) => /\ f.param.low = fc.param.low
                                    /\ f.param.crit = fc.param.crit
         /\ f = Done(c) /\ c.call = "push" => f.mission = c.req.plan
         /\ f = Done(c) /\ c.call = "set" /\ Batch(c.req) => Tiered(f.param)
         /\ c.req.kind = "options" => \/ f.param.fs = fc.param.fs
                                      \/ f.param.fs \ Exposed = c.got \ Exposed
<1>0. c.req \in Requests /\ c.call \in CallNames /\ (c.call = "push" => c.req.kind = "mission")
  BY CallAt DEF Commands
<1>1. CASE c.call = "clear"
  <2>1. Done(c) = [fc EXCEPT !.mission = "none"] /\ HalfDone(c) = {fc}
    BY <1>1, Zenon DEF Done, HalfDone
  <2> QED
    BY <1>1, <2>1 DEF FcStates
<1>2. CASE c.call = "push"
  <2>1. /\ Done(c) = [fc EXCEPT !.mission = c.req.plan]
        /\ HalfDone(c) = {fc, [fc EXCEPT !.mission = "part"]}
    BY <1>2, Zenon DEF Done, HalfDone
  <2>2. c.req.plan \in Plans
    BY <1>0, <1>2, RequestKinds
  <2> QED
    BY <1>2, <2>1, <2>2 DEF FcStates
<1>3. CASE c.call = "set"
  <2> DEFINE all == DOMAIN Setting(c.req, c.got)
  <2>1. /\ Done(c) = [fc EXCEPT !.param = Applied(c, all)]
        /\ HalfDone(c) = {[fc EXCEPT !.param = Applied(c, some)] : some \in SUBSET all \ {all}}
    BY <1>3, Zenon DEF Done, HalfDone
  <2>2. PICK some \in SUBSET all : /\ f = [fc EXCEPT !.param = Applied(c, some)]
                                   /\ f = Done(c) => some = all \/ Applied(c, some) = Applied(c, all)
    <3>1. CASE f = Done(c)
      BY <2>1, <3>1
    <3>2. CASE f # Done(c)
      BY <2>1, <3>2
    <3> QED
      BY <3>1, <3>2
  <2>3. ASSUME NEW part \in SUBSET all
        PROVE  /\ Applied(c, part) \in Params
               /\ ~ WritesTiers(c.req) => /\ Applied(c, part).low = fc.param.low
                                          /\ Applied(c, part).crit = fc.param.crit
               /\ part = all /\ Batch(c.req) => Tiered(Applied(c, part))
               /\ c.req.kind = "options" =>
                    Applied(c, part).fs = IF part = all
                                          THEN (c.got \ Exposed) \cup c.req.bits ELSE fc.param.fs
    BY <1>3, Batches
  <2> HIDE DEF all
  <2>4. f \in FcStates /\ f.param = Applied(c, some) /\ f.mission = fc.mission
    BY <2>2, <2>3 DEF FcStates
  <2>5. c.req.kind = "options" => c.req.bits \subseteq Exposed
    BY <1>0, RequestKinds
  <2>6. f = Done(c) /\ Batch(c.req) => Tiered(f.param)
    BY <2>2, <2>3, <2>4
  <2>7. c.req.kind = "options" => \/ f.param.fs = fc.param.fs
                                  \/ f.param.fs \ Exposed = c.got \ Exposed
    BY <2>3, <2>4, <2>5
  <2> QED
    BY <1>3, <2>3, <2>4, <2>6, <2>7
<1>4. CASE c.call = "reboot"
  <2>1. Done(c) = [fc EXCEPT !.up = FALSE] /\ HalfDone(c) = {fc}
    BY <1>4, Zenon DEF Done, HalfDone
  <2> QED
    BY <1>4, <2>1 DEF FcStates
<1>5. CASE c.call \notin {"clear", "push", "set", "reboot"}
  <2>1. Done(c) = fc /\ HalfDone(c) = {fc}
    BY <1>5, Zenon DEF Done, HalfDone
  <2> QED
    BY <1>5, <2>1
<1> QED
  BY <1>1, <1>2, <1>3, <1>4, <1>5

-----------------------------------------------------------------------------
(* What a thread does *)

Ats == {"acquire", "send", "wait", "unanswered", "ok", "refused"}

ThreadTypes == thread \in [Threads -> {Idle} \cup Working]

(* Where a thread may be in its script: only reading a type or a value is  *)
(* a section of its own, and the value is read by the first call.          *)
CallInv ==
  \A t \in Threads : thread[t] # Idle =>
    /\ thread[t].n \in 1..Len(Calls(thread[t].req))
    /\ thread[t].at = "acquire" /\ thread[t].n > 1 => thread[t].req.kind \in {"param", "tier", "options"}
    /\ thread[t].at = "acquire" /\ thread[t].n = 1 => ~ thread[t].read
    /\ thread[t].read => thread[t].req.kind = "options"

Others(t) == \A u \in Threads : u # t => thread'[u] = thread[u]

SameRequest(t) ==
  /\ thread'[t] \in Working
  /\ thread'[t].req = thread[t].req

SameCall(t) ==
  /\ SameRequest(t) /\ thread'[t].n = thread[t].n
  /\ thread'[t].got = thread[t].got /\ thread'[t].read = thread[t].read

LEMMA Fields ==
  ASSUME NEW w \in {Idle} \cup Working
  PROVE  /\ w \in Working <=> w # Idle
         /\ w # Idle <=> w.at # "idle"
         /\ w # Idle =>
              /\ w.at \in Ats /\ w.req \in Requests /\ w.n \in 1..4
              /\ w.got \in SUBSET Bits /\ w.read \in BOOLEAN
<1>1. Idle.at = "idle"
  BY DEF Idle
<1>2. w \in Working => /\ w.at \in Ats /\ w.at # "idle" /\ w.req \in Requests
                       /\ w.n \in 1..4 /\ w.got \in SUBSET Bits /\ w.read \in BOOLEAN
  BY DEF Working, Ats
<1> QED
  BY <1>1, <1>2

LEMMA WorkingFields ==
  ASSUME ThreadTypes, NEW t \in Threads
  PROVE  /\ thread[t] \in Working <=> thread[t] # Idle
         /\ thread[t] # Idle <=> thread[t].at # "idle"
         /\ thread[t] # Idle =>
              /\ thread[t].at \in Ats /\ thread[t].req \in Requests /\ thread[t].n \in 1..4
              /\ thread[t].got \in SUBSET Bits /\ thread[t].read \in BOOLEAN
BY Fields DEF ThreadTypes

LEMMA Updated ==
  ASSUME ThreadTypes, NEW t \in Threads, NEW w \in {Idle} \cup Working,
         thread' = [thread EXCEPT ![t] = w]
  PROVE  ThreadTypes' /\ Others(t) /\ thread'[t] = w
BY DEF ThreadTypes, Others

LEMMA Gotos ==
  ASSUME ThreadTypes, NEW t \in Threads, thread[t] # Idle, NEW at \in Ats, Goto(t, at)
  PROVE  ThreadTypes' /\ Others(t) /\ SameCall(t) /\ thread'[t].at = at
<1>1. thread[t] \in Working
  BY WorkingFields
<1>2. PICK w : w = [thread[t] EXCEPT !.at = at]
  OBVIOUS
<1>3. /\ w \in Working /\ w.at = at /\ w.req = thread[t].req /\ w.n = thread[t].n
      /\ w.got = thread[t].got /\ w.read = thread[t].read
  BY <1>1, <1>2 DEF Working, Ats
<1>4. thread' = [thread EXCEPT ![t] = w]
  BY <1>2, Zenon DEF Goto
<1>5. ThreadTypes' /\ Others(t) /\ thread'[t] = w
  BY <1>3, <1>4, Updated
<1> QED
  BY <1>3, <1>5 DEF SameCall, SameRequest

Recorded == disturbed' = disturbed /\ doubtful' = doubtful

(* The flight controller, telemetry and the clients go their ways.         *)
Stays ==
  /\ thread' = thread /\ lock' = lock /\ late' \subseteq late
  /\ fc' \in FcStates /\ fc'.param = fc.param /\ fc'.mission = fc.mission
  /\ Recorded

(* A call that was given up takes effect.                                  *)
Surfaces(c) ==
  /\ thread' = thread /\ lock' = lock /\ late' \subseteq late
  /\ fc' \in {Done(c)} \cup HalfDone(c)
  /\ disturbed' = disturbed \cup Begun
  /\ doubtful' = (doubtful \/ (c.call = "set" /\ WritesTiers(c.req)))

(* A thread's call is carried out, or is not.                              *)
Carries(t) ==
  /\ thread[t].at = "wait" /\ thread'[t].at \in {"ok", "refused", "unanswered"}
  /\ SameRequest(t) /\ thread'[t].n = thread[t].n
  /\ \/ thread'[t].got = thread[t].got /\ thread'[t].read = thread[t].read
     \/ /\ Call(t) = "value" /\ thread'[t].at = "ok"
        /\ thread'[t].got = fc.param.fs /\ thread'[t].read
  /\ fc' \in {fc, Done(CallOf(t))} \cup HalfDone(CallOf(t))
  /\ thread'[t].at = "ok" => fc' = Done(CallOf(t))
  /\ lock' = lock /\ late' = late
  /\ disturbed' = Overtaken(t, Call(t)) /\ doubtful' = doubtful

(* What else a thread does.                                                *)
Handles(t) ==
  /\ thread[t] = Idle
  /\ thread'[t] \in Working /\ thread'[t].at = "acquire" /\ thread'[t].n = 1
  /\ ~ thread'[t].read
  /\ fc' = fc /\ lock' = lock /\ late' = late /\ Recorded

Acquires(t) ==
  /\ thread[t].at = "acquire" /\ thread'[t].at = "send" /\ SameCall(t)
  /\ lock = NoThread /\ lock' = t
  /\ fc' = fc /\ late' = late /\ Recorded

Goes(t) ==
  /\ thread[t].at \in {"send", "wait", "unanswered"}
  /\ thread'[t].at \in {"wait", "ok", "refused"} /\ SameCall(t)
  /\ thread'[t].at = "ok" => Call(t) = "create"
  /\ fc' = fc /\ lock' = lock /\ late' \subseteq late \cup {CallOf(t)} /\ Recorded

Advances(t) ==
  /\ thread[t].at \in {"ok", "refused"}
  /\ thread[t].at = "refused" => Call(t) \in Optional
  /\ SameRequest(t) /\ thread'[t].n = thread[t].n + 1
  /\ thread[t].n # Len(Calls(thread[t].req))
  /\ thread'[t].got = thread[t].got /\ thread'[t].read = thread[t].read
  /\ IF Call(t) \in EndsSection
     THEN lock' = NoThread /\ thread'[t].at = "acquire"
     ELSE lock' = lock /\ thread'[t].at = "send"
  /\ fc' = fc /\ late' = late /\ Recorded

Answers(t) ==
  /\ thread[t].at \in {"ok", "refused"}
  /\ thread[t].at = "ok" => thread[t].n = Len(Calls(thread[t].req))
  /\ thread'[t] = Idle
  /\ fc' = fc /\ lock' = NoThread /\ late' = late
  /\ doubtful' = IF WritesTiers(thread[t].req)
                 THEN \/ thread[t].at = "refused" \/ ~ Batch(thread[t].req)
                      \/ doubtful /\ t \in disturbed
                 ELSE doubtful
  /\ disturbed' = disturbed \ {t}

Acts(t) == Carries(t) \/ Handles(t) \/ Acquires(t) \/ Goes(t) \/ Advances(t) \/ Answers(t)

LEMMA ThreadActs ==
  ASSUME ThreadTypes, CallInv, fc \in FcStates, NEW t \in Threads,
         \/ Execute(t) \/ Refuse(t) \/ Acquire(t) \/ Step(t) \/ TimeOut(t)
         \/ \E r \in Requests : Handle(t, r)
  PROVE  ThreadTypes' /\ Others(t) /\ Acts(t)
<1> DEFINE Goal == ThreadTypes' /\ Others(t) /\ Acts(t)
<1>0. thread[t].at # "idle" => thread[t] # Idle
  BY WorkingFields
<1>1. CASE Execute(t)
  <2>1. /\ thread[t].at = "wait" /\ fc' = Done(CallOf(t))
        /\ disturbed' = Overtaken(t, Call(t)) /\ doubtful' = doubtful
        /\ lock' = lock /\ late' = late
    BY <1>1, Zenon DEF Execute, Waiting, services
  <2>2. CASE Goto(t, "unanswered")
    <3>1. ThreadTypes' /\ Others(t) /\ SameCall(t) /\ thread'[t].at = "unanswered"
      BY <1>0, <2>1, <2>2, Gotos DEF Ats
    <3> QED
      BY <2>1, <3>1 DEF Acts, Carries, SameCall
  <2>3. CASE thread' = [thread EXCEPT ![t].at = "ok",
               ![t].got = IF Call(t) = "value" THEN fc.param.fs ELSE @,
               ![t].read = IF Call(t) = "value" THEN TRUE ELSE @]
    <3>1. thread[t] \in Working
      BY <1>0, <2>1, WorkingFields
    <3>2. PICK got, read : /\ got = IF Call(t) = "value" THEN fc.param.fs ELSE thread[t].got
                           /\ read = IF Call(t) = "value" THEN TRUE ELSE thread[t].read
      OBVIOUS
    <3>3. PICK w : w = [thread[t] EXCEPT !.at = "ok", !.got = got, !.read = read]
      OBVIOUS
    <3>4. got \in SUBSET Bits /\ read \in BOOLEAN
      BY <3>1, <3>2 DEF FcStates, Params, Working
    <3>5. /\ w \in Working /\ w.at = "ok" /\ w.req = thread[t].req /\ w.n = thread[t].n
          /\ w.got = got /\ w.read = read
      BY <3>1, <3>3, <3>4 DEF Working
    <3>6. thread' = [thread EXCEPT ![t] = w]
      BY <2>3, <3>2, <3>3 DEF ThreadTypes
    <3>7. ThreadTypes' /\ Others(t) /\ thread'[t] = w
      BY <3>5, <3>6, Updated
    <3> QED
      BY <2>1, <3>2, <3>5, <3>7 DEF Acts, Carries, SameRequest
  <2> QED
    BY <1>1, <2>2, <2>3, Zenon DEF Execute
<1>2. CASE Refuse(t)
  <2>1. /\ thread[t].at = "wait" /\ (Goto(t, "refused") \/ Goto(t, "unanswered"))
        /\ fc' \in IF fc.up THEN HalfDone(CallOf(t)) ELSE {fc}
        /\ disturbed' = Overtaken(t, Call(t)) /\ doubtful' = doubtful
        /\ lock' = lock /\ late' = late
    BY <1>2, Zenon DEF Refuse, Waiting, services
  <2>2. /\ ThreadTypes' /\ Others(t) /\ SameCall(t)
        /\ thread'[t].at \in {"refused", "unanswered"}
    BY <1>0, <2>1, Gotos DEF Ats
  <2> QED
    BY <2>1, <2>2 DEF Acts, Carries, SameCall
<1>3. CASE Acquire(t)
  <2>1. /\ thread[t].at = "acquire" /\ Goto(t, "send") /\ lock = NoThread /\ lock' = t
        /\ fc' = fc /\ late' = late /\ Recorded
    BY <1>3, Zenon DEF Acquire, history, Recorded
  <2>2. ThreadTypes' /\ Others(t) /\ SameCall(t) /\ thread'[t].at = "send"
    BY <1>0, <2>1, Gotos DEF Ats
  <2> QED
    BY <2>1, <2>2 DEF Acts, Acquires
<1>4. CASE Send(t) \/ LinkGone(t) \/ NotReady(t) \/ TimeOut(t)
  <2>1. /\ thread[t].at \in {"send", "wait", "unanswered"}
        /\ Goto(t, "wait") \/ Goto(t, "refused")
        /\ fc' = fc /\ lock' = lock /\ late' \subseteq late \cup {CallOf(t)} /\ Recorded
    BY <1>4, Zenon DEF Send, LinkGone, NotReady, TimeOut, Waiting, services, history, Recorded
  <2>2. /\ ThreadTypes' /\ Others(t) /\ SameCall(t)
        /\ thread'[t].at \in {"wait", "refused"}
    BY <1>0, <2>1, Gotos DEF Ats
  <2> QED
    BY <2>1, <2>2 DEF Acts, Goes
<1>5. CASE Create(t)
  <2>1. /\ thread[t].at = "send" /\ Goto(t, "ok") /\ Call(t) = "create"
        /\ fc' = fc /\ lock' = lock /\ late' = late /\ Recorded
    BY <1>5, Zenon DEF Create, history, Recorded
  <2>2. ThreadTypes' /\ Others(t) /\ SameCall(t) /\ thread'[t].at = "ok"
    BY <1>0, <2>1, Gotos DEF Ats
  <2> QED
    BY <2>1, <2>2 DEF Acts, Goes
<1>6. CASE Continue(t)
  <2>1. /\ thread[t].at \in {"ok", "refused"} /\ GoesOn(t)
        /\ fc' = fc /\ late' = late /\ Recorded
        /\ IF Call(t) \in EndsSection
           THEN /\ lock' = NoThread
                /\ thread' = [thread EXCEPT ![t].at = "acquire", ![t].n = thread[t].n + 1]
           ELSE /\ lock' = lock
                /\ thread' = [thread EXCEPT ![t].at = "send", ![t].n = thread[t].n + 1]
    BY <1>6, Zenon DEF Continue, history, Recorded
  <2>2. PICK at \in Ats :
          /\ at = IF Call(t) \in EndsSection THEN "acquire" ELSE "send"
          /\ thread' = [thread EXCEPT ![t].at = at, ![t].n = thread[t].n + 1]
    BY <2>1 DEF Ats
  <2>3. thread[t] \in Working /\ thread[t] # Idle
    BY <1>0, <2>1, WorkingFields
  <2>4. /\ thread[t].n # Len(Calls(thread[t].req))
        /\ thread[t].at = "refused" => Call(t) \in Optional
    BY <2>1 DEF GoesOn, IsLast
  <2>5. thread[t].n + 1 \in 1..4
    <3>1. Len(Calls(thread[t].req)) \in 1..4
      BY <2>3, CallAt, WorkingFields
    <3>2. thread[t].n \in 1..Len(Calls(thread[t].req))
      BY <2>3 DEF CallInv
    <3>3. \A len \in 1..4 : \A n \in 1..len : n # len => n + 1 \in 1..4
      OBVIOUS
    <3> QED
      BY <2>4, <3>1, <3>2, <3>3
  <2>6. PICK w : w = [thread[t] EXCEPT !.at = at, !.n = thread[t].n + 1]
    OBVIOUS
  <2>7. /\ w \in Working /\ w.at = at /\ w.req = thread[t].req /\ w.n = thread[t].n + 1
        /\ w.got = thread[t].got /\ w.read = thread[t].read
    BY <2>3, <2>5, <2>6 DEF Working, Ats
  <2>8. thread' = [thread EXCEPT ![t] = w]
    BY <2>2, <2>6 DEF ThreadTypes
  <2>9. ThreadTypes' /\ Others(t) /\ thread'[t] = w
    BY <2>7, <2>8, Updated
  <2> QED
    BY <2>1, <2>2, <2>4, <2>7, <2>9 DEF Acts, Advances, SameRequest
<1>7. CASE Answer(t)
  <2>1. /\ thread[t].at \in {"ok", "refused"} /\ ~ GoesOn(t)
        /\ lock' = NoThread /\ thread' = [thread EXCEPT ![t] = Idle]
        /\ fc' = fc /\ late' = late /\ disturbed' = disturbed \ {t}
        /\ doubtful' = IF WritesTiers(thread[t].req)
                       THEN \/ thread[t].at = "refused" \/ ~ Batch(thread[t].req)
                            \/ doubtful /\ t \in disturbed
                       ELSE doubtful
    BY <1>7, Zenon DEF Answer, LockAfter, Failed
  <2>2. ThreadTypes' /\ Others(t) /\ thread'[t] = Idle
    BY <2>1, Updated
  <2>3. thread[t].at = "ok" => thread[t].n = Len(Calls(thread[t].req))
    BY <2>1 DEF GoesOn, IsLast
  <2> QED
    BY <2>1, <2>2, <2>3 DEF Acts, Answers
<1>8. CASE \E r \in Requests : Handle(t, r)
  <2>1. PICK r \in Requests : Handle(t, r)
    BY <1>8
  <2>2. /\ thread[t] = Idle /\ thread' = [thread EXCEPT ![t] = Started(r)]
        /\ fc' = fc /\ lock' = lock /\ late' = late /\ Recorded
    BY <2>1, Zenon DEF Handle, services, history, Recorded
  <2>3. PICK w : w = Started(r)
    OBVIOUS
  <2>4. w \in Working /\ w.at = "acquire" /\ w.n = 1 /\ ~ w.read
    BY <2>3 DEF Started, Working
  <2>5. ThreadTypes' /\ Others(t) /\ thread'[t] = w
    BY <2>2, <2>3, <2>4, Updated
  <2> QED
    BY <2>2, <2>4, <2>5 DEF Acts, Handles
<1> QED
  BY <1>1, <1>2, <1>3, <1>4, <1>5, <1>6, <1>7, <1>8 DEF Step

LEMMA Steps ==
  ASSUME ThreadTypes, CallInv, fc \in FcStates, [Next]_vars
  PROVE  /\ ThreadTypes'
         /\ \/ Stays
            \/ \E c \in late : Surfaces(c)
            \/ \E t \in Threads : Others(t) /\ Acts(t)
<1> DEFINE Goal == /\ ThreadTypes'
                   /\ \/ Stays
                      \/ \E c \in late : Surfaces(c)
                      \/ \E t \in Threads : Others(t) /\ Acts(t)
<1>1. ASSUME Stays PROVE Goal
  BY <1>1 DEF Stays, ThreadTypes
<1>2. ASSUME NEW c \in late, ExecuteLate(c) PROVE Goal
  <2>1. Surfaces(c)
    BY <1>2, Zenon DEF ExecuteLate, Surfaces, services
  <2>2. ThreadTypes'
    BY <2>1 DEF Surfaces, ThreadTypes
  <2> QED
    BY <2>1, <2>2
<1>3. ASSUME NEW c \in late, LoseLate(c) PROVE Stays
  <2>1. /\ thread' = thread /\ lock' = lock /\ fc' = fc /\ Recorded /\ late' = late \ {c}
    BY <1>3, Zenon DEF LoseLate, services, history, Recorded
  <2> QED
    BY <2>1 DEF Stays
<1>4. CASE Crash \/ Return
  <2>1. /\ thread' = thread /\ lock' = lock /\ Recorded /\ late' = late
        /\ fc' = [fc EXCEPT !.up = FALSE] \/ fc' = [fc EXCEPT !.up = TRUE, !.gen = fc.gen + 1]
    BY <1>4, Zenon DEF Crash, Return, services, history, Recorded
  <2>2. fc' \in FcStates /\ fc'.param = fc.param /\ fc'.mission = fc.mission
    <3>1. PICK g \in Nat : g = fc.gen + 1
      BY DEF FcStates
    <3>2. CASE fc' = [fc EXCEPT !.up = FALSE]
      BY <3>2 DEF FcStates
    <3>3. CASE fc' = [fc EXCEPT !.up = TRUE, !.gen = g]
      BY <3>3 DEF FcStates
    <3> QED
      BY <2>1, <3>1, <3>2, <3>3
  <2> QED
    BY <1>1, <2>1, <2>2 DEF Stays
<1>5. ASSUME thread' = thread, lock' = lock, fc' = fc, late' = late, Recorded
      PROVE  Goal
  BY <1>1, <1>5 DEF Stays
<1>6. CASE StateReport \/ Rebuild \/ CooldownOver
  BY <1>5, <1>6, Zenon DEF StateReport, Rebuild, CooldownOver, history, Recorded
<1>7. CASE RebootStarts \/ RebootWakes \/ WindowOver \/ Recreate
  BY <1>5, <1>7, Zenon DEF RebootStarts, RebootWakes, WindowOver, Recreate, history, Recorded
<1>8. CASE UNCHANGED vars
  BY <1>5, <1>8, Zenon DEF vars, services, history, Recorded
<1>9. ASSUME NEW t \in Threads,
             \/ Execute(t) \/ Refuse(t) \/ Acquire(t) \/ Step(t) \/ TimeOut(t)
             \/ \E r \in Requests : Handle(t, r)
      PROVE  Goal
  BY <1>9, ThreadActs
<1> QED
  BY <1>1, <1>2, <1>3, <1>4, <1>6, <1>7, <1>8, <1>9, Zenon DEF Next

-----------------------------------------------------------------------------
(* Types *)

(* Calls that were given up come out of scripts.                           *)
LateInv == late \subseteq Commands

OtherTypes ==
  /\ connected \in BOOLEAN /\ clients \in Nat
  /\ lock \in Threads \cup {NoThread}
  /\ rebuild \in [cooldown : BOOLEAN, pending : Nat]
  /\ reboot \in [starting : Nat, asleep : Nat, ready : Nat, window : BOOLEAN]
  /\ writes \in Nat /\ reboots \in Nat
  /\ disturbed \subseteq Threads
  /\ doubtful \in BOOLEAN

LEMMA ThreadCalls ==
  ASSUME ThreadTypes, CallInv, NEW t \in Threads, thread[t] # Idle
  PROVE  /\ CallOf(t) \in Commands /\ CallOf(t).call = Call(t)
         /\ CallOf(t).req = thread[t].req /\ CallOf(t).got = thread[t].got
<1>1. /\ thread[t].req \in Requests /\ thread[t].got \in SUBSET Bits
      /\ thread[t].n \in 1..Len(Calls(thread[t].req))
  BY WorkingFields DEF CallInv
<1>2. Call(t) = Calls(thread[t].req)[thread[t].n] /\ Call(t) \in CallNames
  BY <1>1, CallAt DEF Call
<1>3. CallOf(t) = [call |-> Call(t), req |-> thread[t].req, got |-> thread[t].got]
  BY Zenon DEF CallOf
<1> QED
  BY <1>1, <1>2, <1>3 DEF Commands

LEMMA Idles ==
  ASSUME ThreadTypes, NEW t \in Threads, Acts(t), ~ Handles(t)
  PROVE  thread[t] # Idle
BY WorkingFields DEF Acts, Carries, Acquires, Goes, Advances, Answers

LEMMA FcTypesKept ==
  ASSUME ThreadTypes, CallInv, LateInv, fc \in FcStates, [Next]_vars
  PROVE  fc' \in FcStates /\ LateInv'
<1>1. CASE Stays
  BY <1>1 DEF Stays, LateInv
<1>2. ASSUME NEW c \in late, Surfaces(c) PROVE fc' \in FcStates /\ LateInv'
  <2>1. fc' \in FcStates
    BY <1>2, Carried DEF Surfaces, LateInv
  <2> QED
    BY <1>2, <2>1 DEF Surfaces, LateInv
<1>3. ASSUME NEW t \in Threads, Acts(t) PROVE fc' \in FcStates /\ LateInv'
  <2>1. CASE Carries(t)
    <3>1. CallOf(t) \in Commands
      BY <1>3, <2>1, Idles, ThreadCalls, WorkingFields DEF Carries
    <3>2. fc' \in FcStates
      BY <2>1, <3>1, Carried DEF Carries
    <3> QED
      BY <2>1, <3>2 DEF Carries, LateInv
  <2>2. CASE Goes(t)
    <3>1. CallOf(t) \in Commands
      BY <1>3, <2>2, ThreadCalls, WorkingFields DEF Goes
    <3> QED
      BY <2>2, <3>1 DEF Goes, LateInv
  <2>3. CASE Handles(t) \/ Acquires(t) \/ Advances(t) \/ Answers(t)
    <3>1. fc' = fc /\ late' = late
      BY <2>3, Zenon DEF Handles, Acquires, Advances, Answers
    <3> QED
      BY <3>1 DEF LateInv
  <2> QED
    BY <1>3, <2>1, <2>2, <2>3 DEF Acts
<1> QED
  BY <1>1, <1>2, <1>3, Steps

LEMMA CallKept ==
  ASSUME ThreadTypes, CallInv, fc \in FcStates, [Next]_vars
  PROVE  CallInv'
<1>0. ThreadTypes'
  BY Steps
<1>1. CASE thread' = thread
  BY <1>1 DEF CallInv
<1>2. ASSUME NEW t \in Threads, Others(t), Acts(t) PROVE CallInv'
  <2> DEFINE Fits(w) ==
        /\ w.n \in 1..Len(Calls(w.req))
        /\ w.at = "acquire" /\ w.n > 1 => w.req.kind \in {"param", "tier", "options"}
        /\ w.at = "acquire" /\ w.n = 1 => ~ w.read
        /\ w.read => w.req.kind = "options"
  <2>1. SUFFICES ASSUME thread'[t] # Idle PROVE Fits(thread'[t])
    BY <1>2 DEF Others, CallInv
  <2>2. /\ thread'[t].req \in Requests /\ thread'[t].read \in BOOLEAN
        /\ Len(Calls(thread'[t].req)) \in 1..4
    BY <1>0, <2>1, CallAt, Fields DEF ThreadTypes
  <2>3. thread[t] # Idle => /\ Fits(thread[t]) /\ thread[t].n \in 1..4
                            /\ thread[t].read \in BOOLEAN
    BY WorkingFields DEF CallInv
  <2>4. CASE Handles(t)
    <3>1. \A len \in 1..4 : 1 \in 1..len
      OBVIOUS
    <3>2. thread'[t].n = 1 /\ ~ thread'[t].read
      BY <2>4 DEF Handles
    <3>3. 1 \in 1..Len(Calls(thread'[t].req))
      BY <2>2, <3>1
    <3>4. ~ (thread'[t].n > 1)
      BY <3>2
    <3> QED
      BY <3>2, <3>3, <3>4, Zenon
  <2>5. CASE Carries(t)
    <3>1. thread[t] # Idle
      BY <2>5, WorkingFields DEF Carries
    <3>2. Call(t) = "value" => thread[t].req.kind = "options"
      BY <2>3, <3>1, WorkingFields, CallAt DEF Call
    <3> QED
      BY <2>3, <2>5, <3>1, <3>2 DEF Carries, SameRequest
  <2>6. CASE Acquires(t) \/ Goes(t)
    <3>1. thread[t] # Idle
      BY <2>6, WorkingFields DEF Acquires, Goes
    <3>2. SameCall(t) /\ thread'[t].at # "acquire"
      BY <2>6 DEF Acquires, Goes
    <3> QED
      BY <2>3, <3>1, <3>2 DEF SameCall, SameRequest
  <2>7. CASE Advances(t)
    <3>1. thread[t] # Idle
      BY <2>7, WorkingFields DEF Advances
    <3>2. /\ thread'[t].n = thread[t].n + 1 /\ thread'[t].req = thread[t].req
          /\ thread'[t].read = thread[t].read
          /\ thread[t].n # Len(Calls(thread[t].req))
          /\ thread'[t].at = "acquire" => Call(t) \in EndsSection
      BY <2>7 DEF Advances, SameRequest
    <3>3. Call(t) \in EndsSection => thread[t].req.kind \in {"param", "tier", "options"}
      BY <2>3, <3>1, WorkingFields, CallAt DEF Call, EndsSection
    <3>4. \A len \in 1..4 : \A n \in 1..len :
            n # len => n + 1 \in 1..len /\ n + 1 # 1
      OBVIOUS
    <3>5. thread'[t].n \in 1..Len(Calls(thread[t].req)) /\ thread'[t].n # 1
      BY <2>2, <2>3, <3>1, <3>2, <3>4
    <3> QED
      BY <2>3, <3>1, <3>2, <3>3, <3>5
  <2>8. CASE Answers(t)
    BY <2>1, <2>8 DEF Answers
  <2> QED
    BY <1>2, <2>4, <2>5, <2>6, <2>7, <2>8 DEF Acts
<1> QED
  BY <1>1, <1>2, Steps DEF Stays, Surfaces

LEMMA OtherTypesKept ==
  ASSUME ThreadTypes, CallInv, fc \in FcStates, OtherTypes, [Next]_vars
  PROVE  OtherTypes'
<1>1. lock' \in Threads \cup {NoThread} /\ disturbed' \subseteq Threads /\ doubtful' \in BOOLEAN
  <2>1. Begun \subseteq Threads
    BY DEF Begun
  <2>2. CASE Stays
    BY <2>2 DEF Stays, Recorded, OtherTypes
  <2>3. ASSUME NEW c \in late, Surfaces(c)
        PROVE  lock' \in Threads \cup {NoThread} /\ disturbed' \subseteq Threads /\ doubtful' \in BOOLEAN
    BY <2>1, <2>3 DEF Surfaces, OtherTypes
  <2>4. ASSUME NEW t \in Threads, Acts(t)
        PROVE  lock' \in Threads \cup {NoThread} /\ disturbed' \subseteq Threads /\ doubtful' \in BOOLEAN
    <3>1. CASE Carries(t)
      BY <2>1, <3>1 DEF Carries, Overtaken, OtherTypes
    <3>2. CASE Handles(t) \/ Acquires(t) \/ Goes(t) \/ Advances(t)
      BY <3>2 DEF Handles, Acquires, Goes, Advances, Recorded, OtherTypes
    <3>3. CASE Answers(t)
      BY <3>3 DEF Answers, OtherTypes
    <3> QED
      BY <2>4, <3>1, <3>2, <3>3 DEF Acts
  <2> QED
    BY <2>2, <2>3, <2>4, Steps
<1>2. connected' \in BOOLEAN /\ clients' \in Nat
  <2>1. /\ fc.gen \in Nat /\ fc.up \in BOOLEAN
        /\ connected \in BOOLEAN /\ clients \in Nat
    BY DEF FcStates, OtherTypes
  <2>2. connected' \in {connected, fc.up} /\ clients' \in {clients, fc.gen}
    BY Zenon
    DEF Next, Execute, Refuse, ExecuteLate, LoseLate, Crash, Return, StateReport, Rebuild,
        CooldownOver, RebootStarts, RebootWakes, WindowOver, Recreate, Handle, Acquire,
        Step, Send, LinkGone, Create, NotReady, Continue, Answer, TimeOut, vars, services
  <2> QED
    BY <2>1, <2>2
<1>3. writes' \in Nat /\ reboots' \in Nat
  <2>1. writes \in Nat /\ reboots \in Nat
    BY DEF OtherTypes
  <2>2. writes' \in {writes, writes + 1} /\ reboots' \in {reboots, reboots + 1}
    BY Zenon
    DEF Next, Execute, Refuse, ExecuteLate, LoseLate, Crash, Return, StateReport, Rebuild,
        CooldownOver, RebootStarts, RebootWakes, WindowOver, Recreate, Handle, Acquire,
        Step, Send, LinkGone, Create, NotReady, Continue, Answer, TimeOut, vars, bounds,
        CountsReboot
  <2> QED
    BY <2>1, <2>2
<1>4. rebuild' \in [cooldown : BOOLEAN, pending : Nat]
  <2>1. rebuild \in [cooldown : BOOLEAN, pending : Nat] /\ rebuild.pending \in Nat
    BY DEF OtherTypes
  <2>2. \/ rebuild' = rebuild \/ rebuild' = [rebuild EXCEPT !.pending = rebuild.pending + 1]
        \/ rebuild.pending > 0 /\ rebuild' = [rebuild EXCEPT !.pending = rebuild.pending - 1]
        \/ rebuild' = [rebuild EXCEPT !.cooldown = FALSE]
        \/ rebuild' = [cooldown |-> TRUE, pending |-> rebuild.pending + 1]
    BY Zenon
    DEF Next, Execute, Refuse, ExecuteLate, LoseLate, Crash, Return, StateReport, Rebuild,
        CooldownOver, RebootStarts, RebootWakes, WindowOver, Recreate, Handle, Acquire,
        Step, Send, LinkGone, Create, NotReady, Continue, Answer, TimeOut, vars, services,
        AfterTimeout, Wanted
  <2>3. PICK more \in Nat : more = rebuild.pending + 1
    BY <2>1
  <2>4. rebuild.pending > 0 => rebuild.pending - 1 \in Nat
    BY <2>1
  <2>5. \A n \in Nat : /\ [rebuild EXCEPT !.pending = n] \in [cooldown : BOOLEAN, pending : Nat]
                       /\ [cooldown |-> TRUE, pending |-> n] \in [cooldown : BOOLEAN, pending : Nat]
    BY <2>1
  <2>6. [rebuild EXCEPT !.cooldown = FALSE] \in [cooldown : BOOLEAN, pending : Nat]
    BY <2>1
  <2> QED
    BY <2>1, <2>2, <2>3, <2>4, <2>5, <2>6
<1>5. reboot' \in [starting : Nat, asleep : Nat, ready : Nat, window : BOOLEAN]
  <2>1. /\ reboot \in [starting : Nat, asleep : Nat, ready : Nat, window : BOOLEAN]
        /\ reboot.starting \in Nat /\ reboot.asleep \in Nat /\ reboot.ready \in Nat
    BY DEF OtherTypes
  <2>2. \/ reboot' = reboot \/ reboot' = [reboot EXCEPT !.starting = reboot.starting + 1]
        \/ RebootStarts \/ RebootWakes \/ WindowOver \/ Recreate
    BY Zenon
    DEF Next, Execute, Refuse, ExecuteLate, LoseLate, Crash, Return, StateReport, Rebuild,
        CooldownOver, Handle, Acquire,
        Step, Send, LinkGone, Create, NotReady, Continue, Answer, TimeOut, vars, services
  <2>3. CASE reboot' = [reboot EXCEPT !.starting = reboot.starting + 1]
    BY <2>1, <2>3
  <2>4. CASE RebootStarts
    <3>1. PICK s, a \in Nat : s = reboot.starting - 1 /\ a = reboot.asleep + 1
      BY <2>1, <2>4 DEF RebootStarts
    <3> QED
      BY <2>1, <2>4, <3>1 DEF RebootStarts
  <2>5. CASE RebootWakes
    <3>1. PICK a, r \in Nat : a = reboot.asleep - 1 /\ r = reboot.ready + 1
      BY <2>1, <2>5 DEF RebootWakes
    <3> QED
      BY <2>1, <2>5, <3>1 DEF RebootWakes
  <2>6. CASE WindowOver
    BY <2>1, <2>6 DEF WindowOver
  <2>7. CASE Recreate
    <3>1. PICK r \in Nat : r = reboot.ready - 1
      BY <2>1, <2>7 DEF Recreate
    <3> QED
      BY <2>1, <2>7, <3>1 DEF Recreate
  <2> QED
    BY <2>1, <2>2, <2>3, <2>4, <2>5, <2>6, <2>7
<1> QED
  BY <1>1, <1>2, <1>3, <1>4, <1>5 DEF OtherTypes

-----------------------------------------------------------------------------
(* The lock *)

InSection(t) == thread[t].at \in {"send", "wait", "unanswered", "ok", "refused"}

(* _svc_lock is held by the one thread in the middle of a section.         *)
SectionInv == \A t \in Threads : InSection(t) <=> lock = t

LEMMA SectionKept ==
  ASSUME ThreadTypes, CallInv, fc \in FcStates, SectionInv, [Next]_vars
  PROVE  SectionInv'
<1>1. CASE thread' = thread /\ lock' = lock
  BY <1>1 DEF SectionInv, InSection
<1>2. ASSUME NEW t \in Threads, Others(t), Acts(t) PROVE SectionInv'
  <2>1. SUFFICES ASSUME NEW u \in Threads
                 PROVE  InSection(u)' <=> lock' = u
    BY DEF SectionInv
  <2>2. CASE Carries(t) \/ Goes(t) \/ Handles(t)
    <3>1. lock' = lock /\ (InSection(t)' <=> InSection(t))
      <4>1. Idle.at = "idle"
        BY DEF Idle
      <4> QED
        BY <2>2, <4>1 DEF Carries, Goes, Handles, InSection
    <3> QED
      BY <1>2, <3>1 DEF Others, SectionInv, InSection
  <2>3. CASE Acquires(t)
    <3>1. ~ InSection(u) /\ lock' = t /\ InSection(t)'
      BY <2>3, ConstantsOK DEF Acquires, SectionInv, InSection
    <3> QED
      BY <1>2, <3>1 DEF Others, InSection
  <2>4. CASE Advances(t)
    <3>1. InSection(t) /\ lock = t
      BY <2>4 DEF Advances, InSection, SectionInv
    <3>2. \/ lock' = NoThread /\ ~ InSection(t)'
          \/ lock' = lock /\ InSection(t)'
      BY <2>4 DEF Advances, InSection
    <3> QED
      BY <1>2, <3>1, <3>2, ConstantsOK DEF Others, SectionInv, InSection
  <2>5. CASE Answers(t)
    <3>1. InSection(t) /\ lock = t
      BY <2>5 DEF Answers, InSection, SectionInv
    <3>2. lock' = NoThread /\ ~ InSection(t)'
      BY <2>5 DEF Answers, InSection, Idle
    <3> QED
      BY <1>2, <3>1, <3>2, ConstantsOK DEF Others, SectionInv, InSection
  <2> QED
    BY <1>2, <2>2, <2>3, <2>4, <2>5 DEF Acts
<1> QED
  BY <1>1, <1>2, Steps DEF Stays, Surfaces

-----------------------------------------------------------------------------
(* Missions *)

(* The mission of this request is on the flight controller and none of its *)
(* calls has failed.                                                       *)
Uploaded(t) ==
  /\ thread[t] # Idle /\ thread[t].at # "refused" /\ thread[t].req.kind = "mission"
  /\ thread[t].n \in 3..4 \/ (thread[t].n = 2 /\ thread[t].at = "ok")

MissionInv ==
  \A t \in Threads : Uploaded(t) /\ t \notin disturbed => fc.mission = thread[t].req.plan

LEMMA UploadedLocked ==
  ASSUME ThreadTypes, CallInv, SectionInv, NEW t \in Threads, Uploaded(t)
  PROVE  lock = t /\ t \in Begun
<1>1. thread[t].n > 1
  BY DEF Uploaded
<1>2. thread[t].at # "acquire"
  BY <1>1 DEF Uploaded, CallInv
<1>3. InSection(t)
  BY <1>2, WorkingFields DEF Uploaded, InSection, Ats
<1> QED
  BY <1>3 DEF SectionInv, Begun

LEMMA MissionKept ==
  ASSUME ThreadTypes, CallInv, LateInv, fc \in FcStates, SectionInv, MissionInv, [Next]_vars
  PROVE  MissionInv'
<1>1. CASE Stays
  BY <1>1 DEF Stays, Recorded, MissionInv, Uploaded
<1>2. ASSUME NEW c \in late, Surfaces(c) PROVE MissionInv'
  <2>1. \A t \in Threads : Uploaded(t)' => t \in disturbed'
    BY <1>2, UploadedLocked DEF Surfaces, Uploaded
  <2> QED
    BY <2>1 DEF MissionInv
<1>3. ASSUME NEW u \in Threads, Others(u), Acts(u) PROVE MissionInv'
  <2>0. thread[u] # Idle => /\ thread[u].req \in Requests
                            /\ thread[u].n \in 1..Len(Calls(thread[u].req))
    BY WorkingFields DEF CallInv
  <2>1. CASE Carries(u)
    <3>1. lock = u /\ thread[u] # Idle
      BY <2>1, WorkingFields DEF Carries, SectionInv, InSection
    <3>2. /\ thread'[u].req = thread[u].req /\ thread'[u].n = thread[u].n
          /\ thread[u].at = "wait" /\ thread'[u].at = "ok" => fc' = Done(CallOf(u))
          /\ fc' \in {fc, Done(CallOf(u))} \cup HalfDone(CallOf(u))
          /\ disturbed \subseteq disturbed'
      BY <2>1 DEF Carries, SameRequest, Overtaken
    <3>3. /\ CallOf(u) \in Commands /\ CallOf(u).call = Call(u)
          /\ CallOf(u).req = thread[u].req
      BY <3>1, ThreadCalls
    <3>4. ASSUME NEW t \in Threads, t # u, Uploaded(t)' PROVE FALSE
      <4>1. Uploaded(t)
        BY <1>3, <3>4 DEF Others, Uploaded
      <4> QED
        BY <3>1, <3>4, <4>1, UploadedLocked
    <3>5. ASSUME Uploaded(u)', u \notin disturbed'
          PROVE  fc'.mission = thread'[u].req.plan
      <4>1. thread[u].req.kind = "mission"
        BY <3>2, <3>5 DEF Uploaded
      <4>2. CASE thread[u].n = 2
        <5>1. Call(u) = "push"
          BY <2>0, <3>1, <4>1, <4>2, CallAt DEF Call
        <5>2. fc' = Done(CallOf(u))
          BY <2>1, <3>2, <3>5, <4>2 DEF Uploaded, Carries
        <5>3. Done(CallOf(u)).mission = thread[u].req.plan
          BY <3>3, <5>1, Carried
        <5> QED
          BY <3>2, <5>2, <5>3
      <4>3. CASE thread[u].n \in 3..4
        <5>1. Uploaded(u) /\ fc.mission = thread[u].req.plan
          BY <2>1, <3>1, <3>2, <3>5, <4>1, <4>3 DEF Uploaded, MissionInv, Carries
        <5>2. Call(u) \notin {"push", "clear"}
          <6>1. thread[u].n # 2 /\ thread[u].n > 1
            BY <4>3
          <6> QED
            BY <2>0, <3>1, <4>1, <6>1, CallAt DEF Call
        <5>3. fc'.mission = fc.mission
          BY <3>2, <3>3, <5>2, Carried
        <5> QED
          BY <3>2, <5>1, <5>3
      <4> QED
        BY <3>2, <3>5, <4>2, <4>3 DEF Uploaded
    <3> QED
      BY <3>4, <3>5 DEF MissionInv
  <2>2. ASSUME fc' = fc, \A t \in Threads : t \notin disturbed' => t \notin disturbed \/ t = u,
               Uploaded(u)' => /\ Uploaded(u) /\ thread'[u].req = thread[u].req
                               /\ disturbed' = disturbed
        PROVE  MissionInv'
    <3>1. ASSUME NEW t \in Threads, t # u, Uploaded(t)', t \notin disturbed'
          PROVE  fc'.mission = thread'[t].req.plan
      <4>1. thread'[t] = thread[t]
        BY <1>3, <3>1 DEF Others
      <4>2. Uploaded(t) /\ t \notin disturbed
        BY <2>2, <3>1, <4>1 DEF Uploaded
      <4> QED
        BY <2>2, <4>1, <4>2 DEF MissionInv
    <3>2. Uploaded(u)' /\ u \notin disturbed' => fc'.mission = thread'[u].req.plan
      BY <2>2 DEF MissionInv
    <3> QED
      BY <3>1, <3>2 DEF MissionInv
  <2>3. CASE Handles(u)
    <3>1. ~ Uploaded(u)'
      BY <2>3 DEF Handles, Uploaded
    <3> QED
      BY <2>2, <2>3, <3>1 DEF Handles, Recorded
  <2>4. CASE Acquires(u)
    <3>1. thread[u] # Idle /\ thread'[u].req = thread[u].req /\ thread'[u].n = thread[u].n
      BY <2>4, WorkingFields DEF Acquires, SameCall, SameRequest
    <3>2. ~ (thread[u].req.kind = "mission" /\ thread[u].n > 1)
      BY <2>4, <3>1 DEF CallInv, Acquires
    <3>3. ~ Uploaded(u)'
      BY <3>1, <3>2 DEF Uploaded
    <3> QED
      BY <2>2, <2>4, <3>3 DEF Acquires, Recorded
  <2>5. CASE Goes(u)
    <3>1. thread[u] # Idle /\ thread'[u].req = thread[u].req /\ thread'[u].n = thread[u].n
      BY <2>5, WorkingFields DEF Goes, SameCall, SameRequest
    <3>2. thread[u].req.kind = "mission" /\ thread[u].n = 2 => Call(u) = "push"
      BY <2>0, <3>1, CallAt DEF Call
    <3>3. Uploaded(u)' => Uploaded(u)
      BY <2>5, <3>1, <3>2 DEF Uploaded, Goes
    <3> QED
      BY <2>2, <2>5, <3>1, <3>3 DEF Goes, Recorded
  <2>6. CASE Advances(u)
    <3>1. /\ thread[u] # Idle /\ thread'[u].req = thread[u].req
          /\ thread'[u].n = thread[u].n + 1 /\ thread[u].n \in 1..4
          /\ thread'[u].at \in {"acquire", "send"}
      BY <2>6, WorkingFields DEF Advances, SameRequest
    <3>2. thread[u].req.kind = "mission" => thread[u].at = "ok"
      <4>1. Call(u) \in Optional => thread[u].req.kind # "mission"
        BY <2>0, <3>1, CallAt DEF Call, Optional
      <4> QED
        BY <2>6, <4>1 DEF Advances
    <3>3. \A n \in 1..4 : n + 1 \in 3..4 \/ n + 1 = 2 => n = 2 \/ n \in 3..4 \/ n + 1 = 2
      OBVIOUS
    <3>4. Uploaded(u)' => Uploaded(u)
      BY <3>1, <3>2, <3>3 DEF Uploaded
    <3> QED
      BY <2>2, <2>6, <3>1, <3>4 DEF Advances, Recorded
  <2>7. CASE Answers(u)
    <3>1. ~ Uploaded(u)'
      BY <2>7 DEF Answers, Uploaded
    <3> QED
      BY <2>2, <2>7, <3>1 DEF Answers
  <2> QED
    BY <1>3, <2>1, <2>3, <2>4, <2>5, <2>6, <2>7 DEF Acts
<1> QED
  BY <1>1, <1>2, <1>3, Steps

-----------------------------------------------------------------------------
(* Battery tiers *)

(* The thread is about to set tiers, or has, and holds the lock.           *)
SetsTiers(t) == /\ thread[t] # Idle /\ WritesTiers(thread[t].req)
               /\ thread[t].n = 2 /\ lock = t

(* The batch of this request is written, and not yet answered.             *)
Written(t) == /\ thread[t] # Idle /\ Batch(thread[t].req)
              /\ thread[t].at = "ok" /\ thread[t].n = 2

TiersInv ==
  /\ Tiered(fc.param) \/ doubtful \/ \E t \in Threads : SetsTiers(t)
  /\ \A t \in Threads : Written(t) => Tiered(fc.param) \/ (doubtful /\ t \in disturbed)

LEMMA TiersKept ==
  ASSUME ThreadTypes, CallInv, LateInv, fc \in FcStates, SectionInv, SectionInv',
         TiersInv, [Next]_vars
  PROVE  TiersInv'
<1>0. lock' = NoThread => \A t \in Threads : ~ Written(t)'
  BY ConstantsOK DEF SectionInv, InSection, Written
<1>a. lock = NoThread => Tiered(fc.param) \/ doubtful
  BY ConstantsOK DEF TiersInv, SetsTiers
<1>1. CASE Stays
  BY <1>1 DEF Stays, Recorded, TiersInv, Written, SetsTiers
<1>2. ASSUME NEW c \in late, Surfaces(c) PROVE TiersInv'
  <2>1. \A t \in Threads : /\ SetsTiers(t)' <=> SetsTiers(t)
                           /\ Written(t)' <=> Written(t)
                           /\ Written(t) => t \in disturbed'
    BY <1>2 DEF Surfaces, Written, SetsTiers, Begun
  <2>2. CASE c.call = "set" /\ WritesTiers(c.req)
    BY <1>2, <2>1, <2>2 DEF Surfaces, TiersInv
  <2>3. CASE ~ (c.call = "set" /\ WritesTiers(c.req))
    <3>1. c \in Commands /\ fc' \in {Done(c)} \cup HalfDone(c)
      BY <1>2 DEF LateInv, Surfaces
    <3>2. fc'.param.low = fc.param.low /\ fc'.param.crit = fc.param.crit
      BY <2>3, <3>1, Carried
    <3>3. Tiered(fc'.param) <=> Tiered(fc.param)
      BY <3>2 DEF Tiered
    <3>4. (doubtful => doubtful') /\ disturbed \subseteq disturbed'
      BY <1>2 DEF Surfaces
    <3> QED
      BY <2>1, <3>1, <3>3, <3>4 DEF TiersInv
  <2> QED
    BY <2>2, <2>3
<1>3. ASSUME NEW u \in Threads, Others(u), Acts(u) PROVE TiersInv'
  <2>0. thread[u] # Idle => /\ thread[u].req \in Requests
                            /\ thread[u].n \in 1..Len(Calls(thread[u].req))
    BY WorkingFields DEF CallInv
  <2>1. \A t \in Threads : t # u => thread'[t] = thread[t] /\ (Written(t)' <=> Written(t))
    BY <1>3 DEF Others, Written
  <2>2. CASE Carries(u)
    <3>1. lock = u /\ lock' = u /\ thread[u] # Idle
      BY <2>2, WorkingFields DEF Carries, SectionInv, InSection
    <3>2. \A t \in Threads : Written(t)' => t = u
      BY <3>1 DEF SectionInv, InSection, Written
    <3>3. /\ thread'[u].req = thread[u].req /\ thread'[u].n = thread[u].n
          /\ thread'[u].at = "ok" => fc' = Done(CallOf(u))
          /\ fc' \in {fc, Done(CallOf(u))} \cup HalfDone(CallOf(u))
          /\ disturbed \subseteq disturbed' /\ doubtful' = doubtful
          /\ thread'[u] # Idle
      <4>1. thread'[u].at # "idle" /\ Idle.at = "idle"
        BY <2>2 DEF Carries, Idle
      <4> QED
        BY <2>2, <4>1 DEF Carries, SameRequest, Overtaken
    <3>4. /\ CallOf(u) \in Commands /\ CallOf(u).call = Call(u)
          /\ CallOf(u).req = thread[u].req
      BY <3>1, ThreadCalls
    <3>5. CASE WritesTiers(thread[u].req) /\ thread[u].n = 2
      <4>1. SetsTiers(u)'
        BY <3>1, <3>3, <3>5 DEF SetsTiers
      <4>2. ASSUME Written(u)' PROVE Tiered(fc'.param)
        <5>1. Call(u) = "set"
          BY <2>0, <3>1, <3>5, CallAt DEF Call
        <5>2. fc' = Done(CallOf(u)) /\ Batch(thread[u].req)
          BY <3>3, <4>2 DEF Written
        <5> QED
          BY <3>4, <5>1, <5>2, Carried
      <4> QED
        BY <3>2, <4>1, <4>2 DEF TiersInv
    <3>6. CASE ~ (WritesTiers(thread[u].req) /\ thread[u].n = 2)
      <4>1. WritesTiers(thread[u].req) => Call(u) # "set"
        BY <2>0, <3>1, <3>6, CallAt DEF Call
      <4>2. fc'.param.low = fc.param.low /\ fc'.param.crit = fc.param.crit
        BY <3>3, <3>4, <4>1, Carried
      <4>3. Tiered(fc'.param) <=> Tiered(fc.param)
        BY <4>2 DEF Tiered
      <4>4. Tiered(fc.param) \/ doubtful
        BY <3>1, <3>6 DEF TiersInv, SetsTiers
      <4>5. ~ Written(u)'
        BY <3>3, <3>6 DEF Written, WritesTiers
      <4> QED
        BY <3>2, <3>3, <4>3, <4>4, <4>5 DEF TiersInv
    <3> QED
      BY <3>5, <3>6
  <2>3. ASSUME fc' = fc, Recorded, ~ Written(u)',
               Tiered(fc.param) \/ doubtful \/ \E t \in Threads : SetsTiers(t)'
        PROVE  TiersInv'
    <3>1. ASSUME NEW t \in Threads, Written(t)' PROVE Written(t)
      <4>1. t # u
        BY <2>3, <3>1
      <4> QED
        BY <2>1, <3>1, <4>1
    <3> QED
      BY <2>3, <3>1 DEF TiersInv, Recorded
  <2>4. CASE Handles(u)
    <3>1. \A t \in Threads : SetsTiers(t) => SetsTiers(t)'
      BY <2>1, <2>4 DEF Handles, SetsTiers
    <3> QED
      BY <2>3, <2>4, <3>1 DEF Handles, Written, TiersInv
  <2>5. CASE Goes(u)
    <3>1. /\ thread[u] # Idle /\ thread'[u].req = thread[u].req /\ thread'[u].n = thread[u].n
          /\ thread'[u] # Idle
      <4>1. thread'[u].at # "idle" /\ Idle.at = "idle"
        BY <2>5 DEF Goes, Idle
      <4> QED
        BY <2>5, <4>1, WorkingFields DEF Goes, SameCall, SameRequest
    <3>2. \A t \in Threads : SetsTiers(t) => SetsTiers(t)'
      BY <2>1, <2>5, <3>1 DEF Goes, SetsTiers
    <3>3. Batch(thread[u].req) /\ thread[u].n = 2 => Call(u) = "set"
      BY <2>0, <3>1, CallAt DEF Call, WritesTiers
    <3>4. ~ Written(u)'
      BY <2>5, <3>1, <3>3 DEF Written, Goes
    <3> QED
      BY <2>3, <2>5, <3>2, <3>4 DEF Goes, TiersInv
  <2>6. CASE Acquires(u)
    BY <1>a, <2>3, <2>6 DEF Acquires, Written
  <2>7. CASE Advances(u)
    <3>1. thread[u] # Idle /\ lock = u /\ thread[u].n # Len(Calls(thread[u].req))
      BY <2>7, WorkingFields DEF Advances, SectionInv, InSection
    <3>2. ~ SetsTiers(u)
      BY <2>0, <3>1, CallAt DEF SetsTiers
    <3>3. Tiered(fc.param) \/ doubtful
      BY <3>1, <3>2 DEF TiersInv, SetsTiers
    <3> QED
      BY <2>3, <2>7, <3>3 DEF Advances, Written
  <2>8. CASE Answers(u)
    <3>1. lock = u /\ lock' = NoThread /\ thread[u] # Idle /\ fc' = fc
      BY <2>8, WorkingFields DEF Answers, SectionInv, InSection
    <3>2. \A t \in Threads : ~ Written(t)'
      BY <1>0, <3>1
    <3>3. Tiered(fc.param) \/ doubtful'
      <4>1. CASE Batch(thread[u].req)
        <5>1. thread[u].at = "ok" => thread[u].n = 2
          BY <2>0, <2>8, <3>1, <4>1, CallAt DEF Answers, WritesTiers
        <5>2. thread[u].at = "ok" => Written(u)
          BY <3>1, <4>1, <5>1 DEF Written
        <5> QED
          BY <2>8, <4>1, <5>2 DEF Answers, TiersInv, WritesTiers
      <4>2. CASE ~ Batch(thread[u].req) /\ WritesTiers(thread[u].req)
        BY <2>8, <4>2 DEF Answers
      <4>3. CASE ~ WritesTiers(thread[u].req)
        BY <2>8, <3>1, <4>3 DEF Answers, TiersInv, SetsTiers
      <4> QED
        BY <4>1, <4>2, <4>3
    <3> QED
      BY <3>1, <3>2, <3>3 DEF TiersInv
  <2> QED
    BY <1>3, <2>2, <2>4, <2>5, <2>6, <2>7, <2>8 DEF Acts
<1> QED
  BY <1>1, <1>2, <1>3, Steps

-----------------------------------------------------------------------------
(* Option bits *)

(* What was read of the bits that are not shown is still so.               *)
OptionsInv ==
  \A t \in Threads : thread[t] # Idle /\ thread[t].read /\ t \notin disturbed =>
    thread[t].got \ Exposed = fc.param.fs \ Exposed

LEMMA ReadBegun ==
  ASSUME ThreadTypes, CallInv, SectionInv, NEW t \in Threads, thread[t] # Idle, thread[t].read
  PROVE  t \in Begun
<1>1. CASE thread[t].n > 1
  BY <1>1 DEF Begun
<1>2. CASE ~ (thread[t].n > 1)
  <2>1. thread[t].n = 1
    <3>1. \A n \in 1..4 : n > 1 \/ n = 1
      OBVIOUS
    <3> QED
      BY <1>2, <3>1, WorkingFields
  <2>2. thread[t].at # "acquire"
    BY <2>1 DEF CallInv
  <2>3. lock = t
    BY <2>2, WorkingFields DEF SectionInv, InSection, Ats
  <2> QED
    BY <2>3 DEF Begun
<1> QED
  BY <1>1, <1>2

(* A call of an options request leaves the bits that it does not show.     *)
LEMMA OptionsCarried ==
  ASSUME ThreadTypes, CallInv, fc \in FcStates, OptionsInv, NEW t \in Threads, Carries(t),
         thread[t].req.kind = "options", thread[t].read, t \notin disturbed
  PROVE  fc'.param.fs \ Exposed = fc.param.fs \ Exposed
<1>1. thread[t] # Idle
  BY WorkingFields DEF Carries
<1>2. /\ CallOf(t) \in Commands /\ CallOf(t).req = thread[t].req
      /\ CallOf(t).got = thread[t].got
  BY <1>1, ThreadCalls
<1>3. thread[t].got \ Exposed = fc.param.fs \ Exposed
  BY <1>1 DEF OptionsInv
<1>4. \/ fc' = fc \/ fc'.param.fs = fc.param.fs
      \/ fc'.param.fs \ Exposed = thread[t].got \ Exposed
  BY <1>2, Carried DEF Carries
<1> QED
  BY <1>3, <1>4

LEMMA OptionsKept ==
  ASSUME ThreadTypes, CallInv, CallInv', LateInv, fc \in FcStates, SectionInv, OptionsInv,
         [Next]_vars
  PROVE  OptionsInv'
<1>1. CASE Stays
  BY <1>1 DEF Stays, Recorded, OptionsInv
<1>2. ASSUME NEW c \in late, Surfaces(c) PROVE OptionsInv'
  <2>1. \A t \in Threads : thread'[t] # Idle /\ thread'[t].read => t \in disturbed'
    BY <1>2, ReadBegun DEF Surfaces
  <2> QED
    BY <2>1 DEF OptionsInv
<1>3. ASSUME NEW u \in Threads, Others(u), Acts(u) PROVE OptionsInv'
  <2>1. CASE Carries(u)
    <3>1. /\ thread[u] # Idle /\ CallOf(u) \in Commands /\ CallOf(u).call = Call(u)
          /\ thread'[u].req = thread[u].req
      BY <2>1, ThreadCalls, WorkingFields DEF Carries, SameRequest
    <3>2. disturbed \subseteq disturbed' /\ (u \in disturbed' => u \in disturbed)
      BY <2>1 DEF Carries, Overtaken
    <3>3. Call(u) # "set" => fc'.param = fc.param
      BY <2>1, <3>1, Carried DEF Carries
    <3>4. ASSUME NEW t \in Threads, t # u, thread'[t] # Idle, thread'[t].read,
                 t \notin disturbed'
          PROVE  thread'[t].got \ Exposed = fc'.param.fs \ Exposed
      <4>1. thread'[t] = thread[t]
        BY <1>3, <3>4 DEF Others
      <4>2. t \in Begun
        BY <3>4, <4>1, ReadBegun
      <4>3. Call(u) # "set"
        BY <2>1, <3>4, <4>2 DEF Carries, Overtaken
      <4> QED
        BY <3>2, <3>3, <3>4, <4>1, <4>3 DEF OptionsInv
    <3>5. ASSUME thread'[u] # Idle, thread'[u].read, u \notin disturbed'
          PROVE  thread'[u].got \ Exposed = fc'.param.fs \ Exposed
      <4>1. CASE thread'[u].got = thread[u].got /\ thread'[u].read = thread[u].read
        <5>1. thread[u].req.kind = "options" /\ thread[u].read /\ u \notin disturbed
          BY <3>1, <3>2, <3>5, <4>1 DEF CallInv
        <5>2. fc'.param.fs \ Exposed = fc.param.fs \ Exposed
          BY <2>1, <5>1, OptionsCarried
        <5> QED
          BY <3>1, <4>1, <5>1, <5>2 DEF OptionsInv
      <4>2. CASE Call(u) = "value" /\ thread'[u].got = fc.param.fs
        BY <3>3, <4>2
      <4> QED
        BY <2>1, <4>1, <4>2 DEF Carries
    <3> QED
      BY <3>4, <3>5 DEF OptionsInv
  <2>2. ASSUME fc' = fc, \A t \in Threads : t \notin disturbed' => t \notin disturbed \/ t = u,
               \/ thread'[u] = Idle
               \/ ~ thread'[u].read
               \/ /\ disturbed' = disturbed /\ thread[u] # Idle
                  /\ thread'[u].got = thread[u].got /\ thread'[u].read = thread[u].read
        PROVE  OptionsInv'
    <3>1. ASSUME NEW t \in Threads, t # u, thread'[t] # Idle, thread'[t].read,
                 t \notin disturbed'
          PROVE  thread'[t].got \ Exposed = fc'.param.fs \ Exposed
      BY <1>3, <2>2, <3>1 DEF Others, OptionsInv
    <3>2. thread'[u] # Idle /\ thread'[u].read /\ u \notin disturbed' =>
            thread'[u].got \ Exposed = fc'.param.fs \ Exposed
      BY <2>2 DEF OptionsInv
    <3> QED
      BY <3>1, <3>2 DEF OptionsInv
  <2>3. CASE Handles(u)
    BY <2>2, <2>3 DEF Handles, Recorded
  <2>4. CASE Acquires(u) \/ Goes(u) \/ Advances(u)
    <3>1. /\ thread[u] # Idle /\ fc' = fc /\ Recorded
          /\ thread'[u].got = thread[u].got /\ thread'[u].read = thread[u].read
      BY <2>4, WorkingFields DEF Acquires, Goes, Advances, SameCall
    <3> QED
      BY <2>2, <3>1 DEF Recorded
  <2>5. CASE Answers(u)
    BY <2>2, <2>5 DEF Answers
  <2> QED
    BY <1>3, <2>1, <2>3, <2>4, <2>5 DEF Acts
<1> QED
  BY <1>1, <1>2, <1>3, Steps

-----------------------------------------------------------------------------
(* The inductive invariant *)

IInv ==
  /\ fc \in FcStates /\ ThreadTypes /\ OtherTypes
  /\ CallInv /\ LateInv /\ SectionInv
  /\ MissionInv /\ TiersInv /\ OptionsInv

LEMMA IInvInit == Init => IInv
<1>1. SUFFICES ASSUME Init PROVE IInv
  OBVIOUS
<1>2. \A t \in Threads : thread[t] = Idle /\ thread[t].at = "idle"
  BY <1>1 DEF Init, Idle
<1>3. fc \in FcStates /\ Tiered(fc.param)
  <2>1. fc = [up |-> TRUE, gen |-> 0, mission |-> "none",
              param |-> [low |-> 2, crit |-> 1, fs |-> Bits]]
    BY <1>1, Zenon DEF Init
  <2> QED
    BY <2>1 DEF FcStates, Params, Tiered, ValidTiers
<1>4. ThreadTypes /\ OtherTypes /\ LateInv
  BY <1>1 DEF Init, ThreadTypes, OtherTypes, LateInv
<1>5. CallInv /\ MissionInv /\ OptionsInv
  BY <1>2 DEF CallInv, MissionInv, Uploaded, OptionsInv
<1>6. SectionInv
  BY <1>1, <1>2, ConstantsOK DEF Init, SectionInv, InSection
<1>7. TiersInv
  BY <1>2, <1>3 DEF TiersInv, Written, SetsTiers
<1> QED
  BY <1>3, <1>4, <1>5, <1>6, <1>7 DEF IInv

LEMMA IInvKept ==
  ASSUME IInv, [Next]_vars
  PROVE  IInv'
<1> USE DEF IInv
<1>1. ThreadTypes'
  BY Steps
<1>2. fc' \in FcStates /\ LateInv'
  BY FcTypesKept
<1>3. CallInv' /\ OtherTypes'
  BY CallKept, OtherTypesKept
<1>4. SectionInv'
  BY SectionKept
<1>5. MissionInv'
  BY MissionKept
<1>6. TiersInv'
  BY <1>4, TiersKept
<1>7. OptionsInv'
  BY <1>3, OptionsKept
<1> QED
  BY <1>1, <1>2, <1>3, <1>4, <1>5, <1>6, <1>7

LEMMA Inductive == Spec => []IInv
  BY IInvInit, IInvKept, PTL DEF Spec

-----------------------------------------------------------------------------
(* The theorems *)

(* Every variable keeps its type; a call that was given up is one that a   *)
(* request of the API really makes, with what that request had read.       *)
THEOREM TypeCorrect == Spec => []TypeOK
<1>1. IInv => TypeOK
  <2>1. Commands \subseteq [call : CallNames, req : Requests, got : SUBSET Bits]
    BY CallAt DEF Commands
  <2> QED
    BY <2>1 DEF IInv, TypeOK, FcStates, Params, ThreadTypes, OtherTypes, LateInv
<1> QED
  BY <1>1, Inductive, PTL

(* _svc_lock is held by exactly the thread that is in the middle of a      *)
(* section: two requests never talk to the flight controller at once, and  *)
(* no thread is answered, or between its sections, with the lock kept.     *)
THEOREM SectionsHoldLock == Spec => []SectionInv
<1>1. IInv => SectionInv
  BY DEF IInv
<1> QED
  BY <1>1, Inductive, PTL

(* "Upload mission, set AUTO mode, arm, and execute" flies the mission it  *)
(* uploaded, whatever other threads upload or clear: clear, push, mode and *)
(* arming are one section of _svc_lock.  Only a call that was given up     *)
(* before and takes effect late can come between.                          *)
THEOREM FliesItsMission == Spec => []FliesWhatItUploaded
<1>1. IInv => FliesWhatItUploaded
  BY DEF IInv, MissionInv, Uploaded, FliesWhatItUploaded
<1> QED
  BY <1>1, Inductive, PTL

(* For any thresholds that are asked for: the critical battery tier is     *)
(* below the low one unless a call that sets a tier is under way, the last *)
(* batch was answered as failed, one given up took effect since, or /params*)
(* has since set a tier alone.                                             *)
THEOREM TiersOrdered == Spec => []TiersOrderedOrReported
<1>1. IInv => TiersOrderedOrReported
  BY DEF IInv, TiersInv, TiersOrderedOrReported, Tiered, ValidTiers, SetsTiers
<1> QED
  BY <1>1, Inductive, PTL

(* For any mask of FS_OPTIONS and any set of bits that are shown:          *)
(* /safety/options changes no other bit that it could read, unless it was  *)
(* overtaken between its two sections of the lock.                         *)
THEOREM RestOfOptionsKept == Spec => OptionsKeepTheRest
<1>1. ASSUME IInv, [Next]_vars, NEW t \in Threads, thread[t] # Idle, Waiting(t), ~ Waiting(t)',
             thread[t].req.kind = "options", thread[t].read, t \notin disturbed
      PROVE  fc'.param.fs \ Exposed = fc.param.fs \ Exposed
  <2>1. thread'[t] # thread[t]
    BY <1>1 DEF Waiting
  <2>2. Acts(t)
    BY <1>1, <2>1, Steps DEF IInv, Stays, Surfaces, Others
  <2>3. CASE Carries(t)
    BY <1>1, <2>3, OptionsCarried DEF IInv
  <2>4. CASE ~ Carries(t)
    BY <2>2, <2>4 DEF Acts, Handles, Acquires, Goes, Advances, Answers
  <2> QED
    BY <2>3, <2>4
<1>2. IInv /\ [Next]_vars =>
        [\A t \in Threads :
           thread[t] # Idle /\ Waiting(t) /\ ~ Waiting(t)'
             => (thread[t].req.kind = "options" /\ thread[t].read /\ t \notin disturbed
                   => fc'.param.fs \ Exposed = fc.param.fs \ Exposed)]_vars
  BY <1>1
<1> QED
  BY <1>2, Inductive, PTL DEF OptionsKeepTheRest, Spec
=================================================================================

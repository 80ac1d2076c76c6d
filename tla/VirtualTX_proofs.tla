---------------------------- MODULE VirtualTX_proofs ----------------------------
(***************************************************************************)
(* Proofs about the virtual transmitter, for every value of the constants. *)
(***************************************************************************)
EXTENDS VirtualTX, TLAPS

-----------------------------------------------------------------------------
(* Lemmas about the helpers on stick values. *)

LEMMA BetweenRange ==
  ASSUME NEW lo \in Int, NEW hi \in Int, NEW a \in lo..hi, NEW b \in lo..hi
  PROVE  Between(a, b) \subseteq lo..hi
  BY DEF Between, Lesser, Greater

LEMMA ClampRange ==
  ASSUME NEW lo \in Int, NEW hi \in Int, lo <= hi, NEW x \in Int
  PROVE  Clamp(x, lo, hi) \in lo..hi
  BY DEF Clamp, Lesser, Greater

(* Moving toward a target stays in any range that holds both ends.         *)
LEMMA TowardRange ==
  ASSUME NEW lo \in Int, NEW hi \in Int, NEW x \in lo..hi, NEW y \in lo..hi,
         NEW m \in Nat
  PROVE  Toward(x, y, m) \in lo..hi
  BY DEF Toward, Abs

(* It moves by at most the step.                                           *)
LEMMA TowardStep ==
  ASSUME NEW x \in Int, NEW y \in Int, NEW m \in Nat
  PROVE  Abs(Toward(x, y, m) - x) <= m
  BY DEF Toward, Abs

(* Moving toward zero takes the whole step off the distance, or arrives.   *)
LEMMA TowardZero ==
  ASSUME NEW x \in Int, NEW m \in Nat
  PROVE  Abs(Toward(x, 0, m)) <= Greater(0, Abs(x) - m)
  BY DEF Toward, Abs, Greater

(* Following a stick in a range keeps the channel in the range.            *)
LEMMA ProcessedRange ==
  ASSUME NEW lo \in Int, lo <= 0, NEW c, NEW dt \in Nat,
         c \in [raw : lo..Full, smoothed : lo..Full, output : lo..Full]
  PROVE  Processed(c, dt) \subseteq
           [raw : lo..Full, smoothed : lo..Full, output : lo..Full]
<1>1. 0 \in lo..Full /\ Full \in Nat
  BY ConstantsOK
<1>2. Shaped(c.raw) \subseteq lo..Full
  <2>1. Between(0, c.raw) \subseteq lo..Full
    BY <1>1, BetweenRange
  <2> QED BY <2>1, <1>1 DEF Shaped
<1>3. Filtered(c) \subseteq lo..Full
  <2>1. ASSUME NEW s \in Shaped(c.raw)
        PROVE  Between(c.smoothed, s) \subseteq lo..Full
    BY <2>1, <1>1, <1>2, BetweenRange
  <2> QED BY <2>1 DEF Filtered
<1>4. RateLimit * dt \in Nat
  BY ConstantsOK
<1>5. ASSUME NEW v \in Filtered(c)
      PROVE  Toward(c.output, v, RateLimit * dt) \in lo..Full
  <2>1. c.output \in lo..Full /\ v \in lo..Full
    BY <1>3
  <2>2. PICK m \in Nat : m = RateLimit * dt
    BY <1>4
  <2>3. Full \in Int
    BY <1>1
  <2>4. Toward(c.output, v, m) \in lo..Full
    BY <2>1, <2>3, TowardRange, Zenon
  <2> QED BY <2>2, <2>4
<1> QED BY <1>5 DEF Processed

(* Following a stick moves the output by no more than the rate limit.      *)
LEMMA ProcessedStep ==
  ASSUME NEW lo \in Int, lo <= 0, NEW c, NEW dt \in Nat,
         c \in [raw : lo..Full, smoothed : lo..Full, output : lo..Full],
         NEW d \in Processed(c, dt)
  PROVE  Abs(d.output - c.output) <= RateLimit * dt
<1>1. 0 \in lo..Full /\ Full \in Nat
  BY ConstantsOK
<1>2. Shaped(c.raw) \subseteq Int
  <2>1. Between(0, c.raw) \subseteq lo..Full
    BY <1>1, BetweenRange
  <2> QED BY <2>1, <1>1 DEF Shaped
<1>3. Filtered(c) \subseteq Int
  BY <1>1, <1>2 DEF Filtered, Between, Lesser, Greater
<1>4. RateLimit * dt \in Nat
  BY ConstantsOK
<1>5. PICK v \in Filtered(c) : d.output = Toward(c.output, v, RateLimit * dt)
  BY DEF Processed
<1> QED BY <1>1, <1>3, <1>4, <1>5, TowardStep

(* A neutral channel that follows a centred stick stays neutral.           *)
LEMMA ProcessedNeutral ==
  ASSUME NEW dt \in Nat
  PROVE  Processed(Neutral, dt) = {Neutral}
<1>1. Full \in Nat \ {0} /\ RateLimit * dt \in Nat
  BY ConstantsOK
<1>2. Shaped(0) = {0}
  BY <1>1 DEF Shaped, Between, Lesser, Greater, Abs
<1>3. Filtered(Neutral) = {0}
  BY <1>2 DEF Filtered, Neutral, Between, Lesser, Greater
<1>4. Toward(0, 0, RateLimit * dt) = 0
  BY <1>1 DEF Toward, Abs
<1> QED BY <1>3, <1>4 DEF Processed, Neutral

-----------------------------------------------------------------------------
(* Types. *)

Typed == TypeOK /\ CallsOK /\ LoopOK

LEMMA InitTyped == Init => Typed
<1>1. CommandTimeout + 1 \in Nat /\ Neutral \in StickState /\ Neutral \in ThrottleState
  BY ConstantsOK DEF Neutral, StickState, ThrottleState
<1> SUFFICES ASSUME Init PROVE Typed
  OBVIOUS
<1>2. CallsOK
  BY DEF Init, CallsOK, Idle
<1>3. LoopOK
  BY <1>1 DEF Init, LoopOK
<1>4. call \in [Threads -> {Idle} \cup [busy : {TRUE}, cmd : Commands, at : Nat]]
  BY DEF Init
<1>5. topic \in [kind : {"none", "release"}]
  BY DEF Init
<1>6. /\ running \in {"on", "stopping", "off"} /\ enabled \in BOOLEAN
      /\ inFailsafe \in BOOLEAN /\ centering \in BOOLEAN
  BY DEF Init
<1>7. /\ now \in Nat /\ lastUpdate \in Nat /\ holdUntil \in Nat /\ lastAcceptedTs \in Nat
      /\ loop \in Nat \cup {-1} /\ centerSince \in Nat /\ inForce \in Int /\ newest \in Int
  BY <1>1 DEF Init
<1>8. mode \in Modes /\ wire \subseteq Commands /\ stick \in StickState /\ throttle \in ThrottleState
  BY <1>1 DEF Init
<1> QED BY <1>2, <1>3, <1>4, <1>5, <1>6, <1>7, <1>8 DEF Typed, TypeOK

LEMMA TargetRange ==
  ASSUME NEW cmd \in Commands
  PROVE  Target(cmd).stick \in -Full..Full /\ Target(cmd).throttle \in 0..Full
<1>1. Full \in Nat
  BY ConstantsOK
<1>2. /\ cmd.stick \in Int /\ cmd.throttle \in Int
      /\ Full \in Int /\ -Full \in Int /\ -Full <= Full /\ 0 \in Int /\ 0 <= Full
  BY <1>1 DEF Commands
<1>3. Clamp(cmd.stick, -Full, Full) \in -Full..Full
  BY <1>2, ClampRange, Zenon
<1>4. Clamp(cmd.throttle, 0, Full) \in 0..Full
  BY <1>2, ClampRange, Zenon
<1> QED BY <1>3, <1>4 DEF Target

(* The clock reading and the accepted timestamp of an accepted command.    *)
LEMMA AcceptTimes ==
  ASSUME Typed, NEW t \in Threads, AcceptInput(t)
  PROVE  /\ call[t].cmd \in Commands /\ call[t].at \in Nat
         /\ holdUntil' \in Nat \ {0}
         /\ EffectiveTs(call[t]) \in Nat
<1>1. call[t].busy /\ call[t] \in {Idle} \cup [busy : {TRUE}, cmd : Commands, at : Nat]
  BY DEF AcceptInput, Typed, TypeOK
<1>2. call[t].cmd \in Commands /\ call[t].at \in Nat
  <2>1. call[t] # Idle
    BY <1>1 DEF Idle
  <2> QED BY <1>1, <2>1
<1>3. call[t].cmd.dur \in Int /\ call[t].cmd.dur > 0 /\ call[t].cmd.ts \in Int
  BY <1>1, <1>2 DEF Typed, CallsOK, Commands
<1>4. holdUntil' = call[t].at + call[t].cmd.dur
  BY DEF AcceptInput
<1>5. EffectiveTs(call[t]) \in Int
  BY <1>2, <1>3 DEF EffectiveTs, Lesser
<1>6. EffectiveTs(call[t]) >= lastAcceptedTs /\ lastAcceptedTs \in Nat
  BY DEF AcceptInput, Accepts, Typed, TypeOK
<1> QED BY <1>2, <1>3, <1>4, <1>5, <1>6

LEMMA AcceptTyped ==
  ASSUME Typed, NEW t \in Threads, AcceptInput(t)
  PROVE  Typed'
<1>1. /\ call[t].cmd \in Commands /\ call[t].at \in Nat /\ holdUntil' \in Nat
      /\ lastAcceptedTs' \in Nat
  BY AcceptTimes DEF AcceptInput
<1>2. stick' \in StickState /\ throttle' \in ThrottleState
  <2>1. /\ Target(call[t].cmd).stick \in -Full..Full
        /\ Target(call[t].cmd).throttle \in 0..Full
    BY <1>1, TargetRange
  <2>2. stick \in StickState /\ throttle \in ThrottleState
    BY DEF Typed, TypeOK
  <2>3. CASE SameAsTarget(Target(call[t].cmd))
    BY <2>2, <2>3 DEF AcceptInput, chan
  <2>4. CASE ~ SameAsTarget(Target(call[t].cmd))
    <3>1. /\ stick' = [stick EXCEPT !.raw = Target(call[t].cmd).stick]
          /\ throttle' = [throttle EXCEPT !.raw = Target(call[t].cmd).throttle]
      BY <2>4 DEF AcceptInput
    <3> QED BY <2>1, <2>2, <3>1 DEF StickState, ThrottleState
  <2> QED BY <2>3, <2>4
<1>3. inForce' \in Int /\ newest' \in Int
  BY <1>1 DEF AcceptInput, Commands, Greater, Typed, TypeOK
<1>4. call' \in [Threads -> {Idle} \cup [busy : {TRUE}, cmd : Commands, at : Nat]]
  BY DEF AcceptInput, Typed, TypeOK
<1>5. CallsOK'
  BY DEF AcceptInput, Typed, TypeOK, CallsOK, Idle
<1>6. /\ UNCHANGED << now, mode, wire, loop, lastUpdate, running, enabled, topic,
                      centerSince >>
      /\ inFailsafe' = FALSE /\ centering' = FALSE
  BY DEF AcceptInput
<1> QED BY <1>1, <1>2, <1>3, <1>4, <1>5, <1>6 DEF Typed, TypeOK, LoopOK

LEMMA BeginTyped ==
  ASSUME Typed, NEW t \in Threads, NEW c \in wire, BeginSetInput(t, c)
  PROVE  Typed'
<1>1. c \in Commands /\ now \in Nat
  BY DEF Typed, TypeOK
<1> DEFINE begun == [busy |-> TRUE, cmd |-> c, at |-> now]
<1>2. begun \in [busy : {TRUE}, cmd : Commands, at : Nat]
  BY <1>1
<1>3. \/ call' = [call EXCEPT ![t] = Idle]
      \/ call' = [call EXCEPT ![t] = begun] /\ c.dur > 0
  <2>1. c.dur \in Int
    BY <1>1 DEF Commands
  <2> DEFINE refused == \/ now - c.ts > CommandTimeout
                        \/ now - c.ts < -FutureLimit
                        \/ c.dur <= 0
  <2>2. CASE refused
    BY <2>2 DEF BeginSetInput
  <2>3. CASE ~ refused
    BY <2>1, <2>3 DEF BeginSetInput
  <2> QED BY <2>2, <2>3
<1>4. call' \in [Threads -> {Idle} \cup [busy : {TRUE}, cmd : Commands, at : Nat]]
  BY <1>2, <1>3 DEF Typed, TypeOK
<1>5. CallsOK'
  BY <1>3 DEF Typed, TypeOK, CallsOK, Idle
<1> QED BY <1>4, <1>5 DEF Typed, TypeOK, LoopOK, BeginSetInput, txState, chan, history

LEMMA CenterRange ==
  ASSUME TypeOK, NEW dt \in Nat, AutoCenter(dt)
  PROVE  stick' \in StickState /\ throttle' \in ThrottleState
<1>1. PICK m \in Nat : m = CenterRate * dt
  BY ConstantsOK
<1>2. Full \in Nat /\ -Full \in Int /\ 0 \in -Full..Full
  BY ConstantsOK
<1>3. Toward(stick.output, 0, m) \in -Full..Full
  <2>1. stick.output \in -Full..Full
    BY DEF TypeOK, StickState
  <2>2. Full \in Int
    BY <1>2
  <2> QED BY <1>2, <2>1, <2>2, TowardRange, Zenon
<1>4. Toward(throttle.output, FailsafeThrottle(mode), m) \in 0..Full
  <2>1. throttle.output \in 0..Full
    BY DEF TypeOK, ThrottleState
  <2>2. FailsafeThrottle(mode) \in 0..Full
    BY ConstantsOK DEF FailsafeThrottle
  <2>3. Full \in Int /\ 0 \in Int
    BY <1>2
  <2> QED BY <2>1, <2>2, <2>3, TowardRange, Zenon
<1> QED BY <1>1, <1>3, <1>4 DEF AutoCenter, TypeOK, StickState, ThrottleState

LEMMA PublishTyped ==
  ASSUME Typed, PublishLoop
  PROVE  Typed'
<1>1. loop \in Nat /\ lastUpdate \in Nat
  BY DEF PublishLoop, Typed, TypeOK
<1>2. stick' \in StickState /\ throttle' \in ThrottleState
  <2>1. CASE centering'
    BY <1>1, <2>1, CenterRange DEF PublishLoop, Typed
  <2>2. CASE ~ centering'
    <3>1. stick' \in Processed(stick, loop) /\ throttle' \in Processed(throttle, loop)
      BY <2>2 DEF PublishLoop, ProcessChannels
    <3>2. Full \in Nat /\ -Full \in Int /\ -Full <= 0 /\ 0 \in Int /\ 0 <= 0
      BY ConstantsOK
    <3>3. stick \in StickState /\ throttle \in ThrottleState
      BY DEF Typed, TypeOK
    <3>4. Processed(stick, loop) \subseteq StickState
      BY <1>1, <3>2, <3>3, ProcessedRange DEF StickState
    <3>5. Processed(throttle, loop) \subseteq ThrottleState
      BY <1>1, <3>2, <3>3, ProcessedRange DEF ThrottleState
    <3> QED BY <3>1, <3>4, <3>5
  <2> QED BY <2>1, <2>2
<1>3. topic' \in [kind : {"override"}, at : Nat, stick : -Full..Full, throttle : 0..Full]
  BY <1>1, <1>2 DEF PublishLoop, StickState, ThrottleState
<1>4. /\ inFailsafe' \in BOOLEAN /\ centering' \in BOOLEAN /\ centerSince' \in Nat
  BY <1>1 DEF PublishLoop, Typed, TypeOK
<1>5. /\ loop' = -1
      /\ UNCHANGED << now, mode, wire, call, lastUpdate, running, enabled,
                      holdUntil, lastAcceptedTs, inForce, newest >>
  BY DEF PublishLoop
<1>6. CallsOK' /\ LoopOK'
  BY <1>1, <1>5 DEF Typed, CallsOK, LoopOK
<1> QED BY <1>1, <1>2, <1>3, <1>4, <1>5, <1>6 DEF Typed, TypeOK

LEMMA StepTyped == Typed /\ [Next]_vars => Typed'
<1> SUFFICES ASSUME Typed, [Next]_vars
             PROVE  Typed'
  OBVIOUS
<1>1. CASE Tick
  <2>1. now' \in Nat /\ LoopOK'
    BY <1>1 DEF Tick, Typed, TypeOK, LoopOK
  <2>2. CallsOK'
    BY <1>1 DEF Tick, Typed, CallsOK
  <2> QED BY <1>1, <2>1, <2>2 DEF Tick, Typed, TypeOK, txState, chan, history
<1>2. ASSUME NEW m \in Modes, SetMode(m)
      PROVE  Typed'
  BY <1>2 DEF SetMode, Typed, TypeOK, CallsOK, LoopOK, txState, chan, history
<1>3. ASSUME NEW inp \in Inputs, NEW dur \in Durations, NEW skew \in Skews,
             Send(inp, dur, skew)
      PROVE  Typed'
  <2>1. [ts |-> now + skew, stick |-> inp.stick, throttle |-> inp.throttle,
         dur |-> dur] \in Commands
    BY ConstantsOK DEF Typed, TypeOK, Commands
  <2> QED BY <1>3, <2>1 DEF Send, Typed, TypeOK, CallsOK, LoopOK, txState, chan, history
<1>4. ASSUME NEW t \in Threads, NEW c \in wire, BeginSetInput(t, c)
      PROVE  Typed'
  BY <1>4, BeginTyped
<1>5. ASSUME NEW t \in Threads, AcceptInput(t)
      PROVE  Typed'
  BY <1>5, AcceptTyped
<1>6. ASSUME NEW t \in Threads, RefuseInput(t)
      PROVE  Typed'
  BY <1>6 DEF RefuseInput, Typed, TypeOK, CallsOK, LoopOK, Idle, txState, chan, history
<1>7. CASE Enable
  <2>1. Neutral \in StickState /\ Neutral \in ThrottleState
    BY ConstantsOK DEF Neutral, StickState, ThrottleState
  <2>2. CallsOK' /\ LoopOK'
    BY <1>7 DEF Enable, Typed, CallsOK, LoopOK
  <2>3. enabled' \in BOOLEAN /\ inFailsafe' \in BOOLEAN /\ centering' \in BOOLEAN
    BY <1>7 DEF Enable
  <2>6. /\ holdUntil' \in Nat /\ lastAcceptedTs' \in Nat /\ inForce' \in Int /\ newest' \in Int
    BY <1>7 DEF Enable
  <2>4. stick' \in StickState /\ throttle' \in ThrottleState
    BY <1>7, <2>1 DEF Enable
  <2>5. UNCHANGED << now, mode, wire, call, loop, lastUpdate, running, topic, centerSince >>
    BY <1>7 DEF Enable
  <2> QED BY <2>2, <2>3, <2>4, <2>5, <2>6 DEF Typed, TypeOK
<1>8. CASE Disable
  BY <1>8 DEF Disable, Release, Typed, TypeOK, CallsOK, LoopOK, chan, history
<1>9. CASE Stop
  <2>1. CallsOK' /\ LoopOK'
    BY <1>9 DEF Stop, Typed, CallsOK, LoopOK
  <2>2. /\ enabled' \in BOOLEAN
        /\ topic' = topic \/ topic' \in [kind : {"none", "release"}]
    <3>1. [kind |-> "release"] \in [kind : {"none", "release"}]
      OBVIOUS
    <3>2. \/ enabled' = FALSE /\ topic' = [kind |-> "release"]
          \/ UNCHANGED << enabled, topic >>
      BY <1>9 DEF Stop, Release
    <3> QED BY <3>1, <3>2 DEF Typed, TypeOK
  <2> QED BY <1>9, <2>1, <2>2 DEF Stop, Typed, TypeOK, chan, history
<1>14. CASE StopLoop
  BY <1>14 DEF StopLoop, Typed, TypeOK, CallsOK, LoopOK, txState, chan, history
<1>10. CASE BeginLoop
  <2>1. loop' \in Nat /\ lastUpdate' \in Nat /\ LoopOK'
    BY <1>10 DEF BeginLoop, Typed, TypeOK, LoopOK
  <2>2. CallsOK'
    BY <1>10 DEF BeginLoop, Typed, CallsOK
  <2> QED BY <1>10, <2>1, <2>2 DEF BeginLoop, Typed, TypeOK, txState, chan, history
<1>11. CASE SkipLoop
  <2>1. CallsOK' /\ LoopOK'
    BY <1>11 DEF SkipLoop, Typed, TypeOK, CallsOK, LoopOK
  <2> QED BY <1>11, <2>1 DEF SkipLoop, Typed, TypeOK, txState, chan, history
<1>12. CASE PublishLoop
  BY <1>12, PublishTyped
<1>13. CASE UNCHANGED vars
  BY <1>13 DEF vars, Typed, TypeOK, CallsOK, LoopOK, txState, chan, history
<1> QED
  BY <1>1, <1>2, <1>3, <1>4, <1>5, <1>6, <1>7, <1>8, <1>9, <1>10, <1>11, <1>12,
     <1>13, <1>14 DEF Next

(* Every variable keeps its type: whatever commands, durations and client  *)
(* clocks set_input meets, the published sticks stay in the PWM range.     *)
THEOREM TypeCorrect == Spec => []TypeOK
<1>1. Typed => TypeOK
  BY DEF Typed
<1> QED BY <1>1, InitTyped, StepTyped, PTL DEF Spec

-----------------------------------------------------------------------------
(* The failsafe. *)

Safe == FailsafeOK /\ TopicOK /\ NeutralUntilFirstCommand /\ StickCentredInTime

failsafeVars == << enabled, inFailsafe, centering, holdUntil, lastUpdate, loop,
                   centerSince, stick, throttle, topic >>

LEMMA InitSafe == Init => Safe
  BY DEF Init, Safe, FailsafeOK, TopicOK, NeutralUntilFirstCommand, StickCentredInTime

LEMMA SafeFrame == Safe /\ UNCHANGED failsafeVars => Safe'
  BY DEF Safe, failsafeVars, FailsafeOK, TopicOK, NeutralUntilFirstCommand,
         StickCentredInTime, LastMoved, Greater, Abs

LEMMA BeginLoopSafe ==
  ASSUME Typed, Safe, BeginLoop
  PROVE  Safe'
<1>1. /\ lastUpdate \in Nat /\ now \in Nat /\ lastUpdate <= now /\ loop = -1
      /\ loop' = now - lastUpdate /\ lastUpdate' = now
      /\ UNCHANGED << enabled, inFailsafe, centering, holdUntil, centerSince, stick,
                      throttle, topic >>
  BY DEF BeginLoop, Typed, TypeOK, LoopOK, txState, chan, history
<1>2. LastMoved' = LastMoved
  BY <1>1 DEF LastMoved
<1>3. TopicOK' /\ NeutralUntilFirstCommand' /\ StickCentredInTime'
  BY <1>1, <1>2 DEF Safe, TopicOK, NeutralUntilFirstCommand, StickCentredInTime,
                    Greater, Abs
<1>4. FailsafeOK'
  BY <1>1, <1>2 DEF Safe, FailsafeOK, Typed, TypeOK
<1> QED BY <1>3, <1>4 DEF Safe

LEMMA AcceptSafe ==
  ASSUME Typed, Safe, NEW t \in Threads, AcceptInput(t)
  PROVE  Safe'
<1>1. /\ inFailsafe' = FALSE /\ centering' = FALSE /\ holdUntil' \in Nat \ {0}
      /\ UNCHANGED << enabled, lastUpdate, loop, topic >>
  BY AcceptTimes DEF AcceptInput
<1>2. stick'.output = stick.output /\ throttle'.output = throttle.output
  <2>1. CASE SameAsTarget(Target(call[t].cmd))
    BY <2>1 DEF AcceptInput, chan
  <2>2. CASE ~ SameAsTarget(Target(call[t].cmd))
    <3>1. /\ stick' = [stick EXCEPT !.raw = Target(call[t].cmd).stick]
          /\ throttle' = [throttle EXCEPT !.raw = Target(call[t].cmd).throttle]
      BY <2>2 DEF AcceptInput
    <3>2. stick \in StickState /\ throttle \in ThrottleState
      BY DEF Typed, TypeOK
    <3> QED BY <3>1, <3>2 DEF StickState, ThrottleState
  <2> QED BY <2>1, <2>2
<1>3. FailsafeOK' /\ NeutralUntilFirstCommand' /\ StickCentredInTime'
  BY <1>1 DEF FailsafeOK, NeutralUntilFirstCommand, StickCentredInTime
<1>4. TopicOK'
  BY <1>1, <1>2 DEF Safe, TopicOK, LastMoved
<1> QED BY <1>3, <1>4 DEF Safe

(* What one locked iteration does to the failsafe.                         *)
LEMMA PublishStep ==
  ASSUME Typed, Safe, PublishLoop
  PROVE  /\ loop \in Nat /\ lastUpdate \in Nat /\ loop <= lastUpdate
         /\ LastMoved = lastUpdate - loop /\ LastMoved' = lastUpdate
         /\ UNCHANGED << enabled, holdUntil, lastUpdate >>
         /\ inFailsafe' = centering'
         /\ \/ centering' /\ ~ centering /\ HoldExpired /\ centerSince' = lastUpdate
            \/ centering' /\ centering /\ centerSince' = centerSince
            \/ ~ centering' /\ ~ centering
<1>1. loop \in Nat /\ lastUpdate \in Nat /\ loop <= lastUpdate
  BY DEF PublishLoop, Typed, TypeOK, LoopOK
<1>2. UNCHANGED << enabled, holdUntil, lastUpdate >> /\ loop' = -1 /\ enabled
  BY DEF PublishLoop
<1>3. LastMoved = lastUpdate - loop /\ LastMoved' = lastUpdate
  BY <1>1, <1>2 DEF LastMoved
<1>4. inFailsafe = centering
  BY <1>2 DEF Safe, FailsafeOK
<1>5. CASE HoldExpired /\ ~ inFailsafe
  BY <1>1, <1>2, <1>3, <1>4, <1>5 DEF PublishLoop
<1>6. CASE ~ (HoldExpired /\ ~ inFailsafe)
  BY <1>1, <1>2, <1>3, <1>4, <1>6 DEF PublishLoop
<1> QED BY <1>5, <1>6

LEMMA PublishCentred ==
  ASSUME Typed, Safe, PublishLoop
  PROVE  StickCentredInTime'
<1> SUFFICES ASSUME centering'
             PROVE  Abs(stick'.output)
                      <= Greater(0, Full - CenterRate * (lastUpdate - centerSince'))
  BY PublishStep DEF StickCentredInTime
<1>1. Full \in Nat /\ CenterRate \in Nat /\ loop \in Nat /\ lastUpdate \in Nat
      /\ centerSince \in Nat
  BY ConstantsOK, PublishStep DEF Typed, TypeOK
<1>2. CASE centerSince' = lastUpdate
  <2>1. stick'.output \in -Full..Full
    BY PublishTyped DEF Typed, TypeOK, StickState
  <2>2. CenterRate * (lastUpdate - centerSince') = 0
    BY <1>1, <1>2
  <2> QED BY <1>1, <2>1, <2>2 DEF Abs, Greater
<1>3. CASE centering /\ centerSince' = centerSince
  <2> DEFINE gone == CenterRate * (LastMoved - centerSince)
             step == CenterRate * loop
  <2>1. /\ LastMoved \in Int /\ gone \in Int /\ step \in Nat
        /\ CenterRate * (lastUpdate - centerSince) = gone + step
    BY <1>1, PublishStep
  <2>2. stick.output \in Int
    BY <1>1 DEF Typed, TypeOK, StickState
  <2>3. Abs(stick.output) <= Greater(0, Full - gone)
    BY <1>3 DEF Safe, StickCentredInTime, PublishLoop
  <2>4. stick'.output = Toward(stick.output, 0, step)
    BY DEF PublishLoop, AutoCenter, Typed, TypeOK, StickState
  <2>5. Abs(stick'.output) <= Greater(0, Abs(stick.output) - step)
    BY <2>1, <2>2, <2>4, TowardZero
  <2>6. Greater(0, Abs(stick.output) - step) <= Greater(0, Full - (gone + step))
    BY <1>1, <2>1, <2>2, <2>3 DEF Abs, Greater
  <2>7. Abs(stick'.output) \in Int
    <3>1. stick'.output \in -Full..Full
      BY PublishTyped DEF Typed, TypeOK, StickState
    <3> QED BY <1>1, <3>1 DEF Abs
  <2> HIDE DEF gone, step
  <2>8. Greater(0, Abs(stick.output) - step) \in Int /\ Greater(0, Full - (gone + step)) \in Int
    BY <1>1, <2>1, <2>2 DEF Abs, Greater
  <2> QED BY <1>3, <2>1, <2>5, <2>6, <2>7, <2>8
<1> QED BY <1>2, <1>3, PublishStep

LEMMA PublishSafe ==
  ASSUME Typed, Safe, PublishLoop
  PROVE  Safe'
<1>1. FailsafeOK'
  <2>1. holdUntil \in Nat /\ centerSince \in Nat /\ enabled
    BY DEF PublishLoop, Typed, TypeOK
  <2>2. CASE centering' /\ ~ centering /\ HoldExpired /\ centerSince' = lastUpdate
    BY <2>1, <2>2, PublishStep DEF FailsafeOK, HoldExpired
  <2>3. CASE centering' /\ centering /\ centerSince' = centerSince
    <3>1. 0 < holdUntil /\ holdUntil < lastUpdate /\ centerSince <= LastMoved
      BY <2>1, <2>3 DEF Safe, FailsafeOK
    <3> QED BY <2>1, <2>3, <3>1, PublishStep DEF FailsafeOK
  <2>4. CASE ~ centering'
    BY <2>1, <2>4, PublishStep DEF FailsafeOK
  <2> QED BY <2>2, <2>3, <2>4, PublishStep
<1>2. TopicOK'
  BY PublishStep DEF PublishLoop, TopicOK
<1>3. NeutralUntilFirstCommand'
  <2> SUFFICES ASSUME holdUntil = 0
               PROVE  /\ stick' = Neutral /\ throttle' = Neutral
                      /\ topic'.stick = 0 /\ topic'.throttle = 0
    BY PublishStep DEF NeutralUntilFirstCommand
  <2>1. ~ centering'
    BY PublishStep DEF Safe, FailsafeOK, HoldExpired, PublishLoop
  <2>2. stick' \in Processed(stick, loop) /\ throttle' \in Processed(throttle, loop)
    BY <2>1 DEF PublishLoop, ProcessChannels
  <2>3. stick = Neutral /\ throttle = Neutral
    BY DEF Safe, NeutralUntilFirstCommand, PublishLoop
  <2>4. stick' = Neutral /\ throttle' = Neutral
    BY <2>2, <2>3, PublishStep, ProcessedNeutral
  <2> QED BY <2>4 DEF PublishLoop, Neutral
<1> QED BY <1>1, <1>2, <1>3, PublishCentred DEF Safe

LEMMA StepSafe == Typed /\ Safe /\ [Next]_vars => Safe'
<1> SUFFICES ASSUME Typed, Safe, [Next]_vars
             PROVE  Safe'
  OBVIOUS
<1>1. CASE Tick
  BY <1>1, SafeFrame DEF Tick, failsafeVars, txState, chan, history
<1>2. ASSUME NEW m \in Modes, SetMode(m)
      PROVE  Safe'
  BY <1>2, SafeFrame DEF SetMode, failsafeVars, txState, chan, history
<1>3. ASSUME NEW inp \in Inputs, NEW dur \in Durations, NEW skew \in Skews,
             Send(inp, dur, skew)
      PROVE  Safe'
  BY <1>3, SafeFrame DEF Send, failsafeVars, txState, chan, history
<1>4. ASSUME NEW t \in Threads, NEW c \in wire, BeginSetInput(t, c)
      PROVE  Safe'
  BY <1>4, SafeFrame DEF BeginSetInput, failsafeVars, txState, chan, history
<1>5. ASSUME NEW t \in Threads, AcceptInput(t)
      PROVE  Safe'
  BY <1>5, AcceptSafe
<1>6. ASSUME NEW t \in Threads, RefuseInput(t)
      PROVE  Safe'
  BY <1>6, SafeFrame DEF RefuseInput, failsafeVars, txState, chan, history
<1>7. CASE Enable
  BY <1>7 DEF Enable, Safe, FailsafeOK, TopicOK, NeutralUntilFirstCommand,
              StickCentredInTime
<1>8. CASE Disable
  BY <1>8 DEF Disable, Release, Safe, FailsafeOK, TopicOK, NeutralUntilFirstCommand,
              StickCentredInTime
<1>9. CASE Stop
  <2>1. CASE Release
    BY <2>1 DEF Release, Safe, FailsafeOK, TopicOK, NeutralUntilFirstCommand,
                StickCentredInTime
  <2>2. CASE UNCHANGED << enabled, topic >>
    BY <1>9, <2>2, SafeFrame DEF Stop, failsafeVars, chan, history
  <2> QED BY <1>9, <2>1, <2>2 DEF Stop
<1>14. CASE StopLoop
  BY <1>14, SafeFrame DEF StopLoop, failsafeVars, txState, chan, history
<1>10. CASE BeginLoop
  BY <1>10, BeginLoopSafe
<1>11. CASE SkipLoop
  BY <1>11 DEF SkipLoop, txState, chan, history, Safe, FailsafeOK, TopicOK,
               NeutralUntilFirstCommand, StickCentredInTime
<1>12. CASE PublishLoop
  BY <1>12, PublishSafe
<1>13. CASE UNCHANGED vars
  BY <1>13, SafeFrame DEF vars, failsafeVars, txState, chan, history
<1> QED
  BY <1>1, <1>2, <1>3, <1>4, <1>5, <1>6, <1>7, <1>8, <1>9, <1>10, <1>11, <1>12,
     <1>13, <1>14 DEF Next

LEMMA Inductive == Spec => [](Typed /\ Safe)
  BY InitTyped, InitSafe, StepTyped, StepSafe, PTL DEF Spec

(* The strengthened invariant of VirtualTX.                                *)
THEOREM InductiveInvariant == Spec => []IInv
<1>1. Typed /\ Safe => IInv
  BY DEF Typed, Safe, IInv
<1> QED BY <1>1, Inductive, PTL

(* The radio keeps the sticks from a disable to the next enable.           *)
THEOREM Released == Spec => []ReleasedWhileDisabled
<1>1. Safe => ReleasedWhileDisabled
  BY DEF Safe, TopicOK, ReleasedWhileDisabled
<1> QED BY <1>1, Inductive, PTL

(* No hold is cut short by the failsafe.                                   *)
THEOREM HoldHonoured == Spec => []FailsafeOnlyAfterExpiry
<1>1. Safe => FailsafeOnlyAfterExpiry
  BY DEF Safe, FailsafeOK, FailsafeOnlyAfterExpiry
<1> QED BY <1>1, Inductive, PTL

(* An enable never brings back the position flown before.                  *)
THEOREM NeutralStart == Spec => []NeutralUntilFirstCommand
<1>1. Safe => NeutralUntilFirstCommand
  BY DEF Safe
<1> QED BY <1>1, Inductive, PTL

(* The failsafe reaches centre at the centring rate, whatever happens.     *)
THEOREM CentredInTime == Spec => []StickCentredInTime
<1>1. Safe => StickCentredInTime
  BY DEF Safe
<1> QED BY <1>1, Inductive, PTL

-----------------------------------------------------------------------------
(* Order of commands. *)

NoClientAhead == \A skew \in Skews : skew <= 0

LEMMA InitOrder == Init => OrderInv
  BY DEF Init, OrderInv, Idle

LEMMA StepOrder ==
  ASSUME NoClientAhead, Typed, OrderInv, [Next]_vars
  PROVE  OrderInv'
<1> DEFINE wireOK == \A c \in wire : c.ts <= now
           callOK == \A t \in Threads : call[t].busy => call[t].cmd.ts <= call[t].at
           orderVars == << lastAcceptedTs, inForce, newest >>
<1>1. CASE Tick
  <2>1. \A c \in wire : c.ts \in Int
    BY DEF Typed, TypeOK, Commands
  <2> QED BY <1>1, <2>1 DEF Tick, OrderInv, Typed, TypeOK, txState, history
<1>2. ASSUME NEW m \in Modes, SetMode(m)
      PROVE  OrderInv'
  BY <1>2 DEF SetMode, OrderInv, txState, history
<1>3. ASSUME NEW inp \in Inputs, NEW dur \in Durations, NEW skew \in Skews,
             Send(inp, dur, skew)
      PROVE  OrderInv'
  <2>1. now + skew <= now
    BY ConstantsOK DEF NoClientAhead, Typed, TypeOK
  <2> QED BY <1>3, <2>1 DEF Send, OrderInv, txState, history
<1>4. ASSUME NEW t \in Threads, NEW c \in wire, BeginSetInput(t, c)
      PROVE  OrderInv'
  <2>1. wireOK'
    BY <1>4 DEF BeginSetInput, OrderInv
  <2> DEFINE begun == [busy |-> TRUE, cmd |-> c, at |-> now]
  <2>2. call' = [call EXCEPT ![t] = Idle] \/ call' = [call EXCEPT ![t] = begun]
    <3> DEFINE refused == \/ now - c.ts > CommandTimeout
                          \/ now - c.ts < -FutureLimit
                          \/ c.dur <= 0
    <3>1. CASE refused
      BY <1>4, <3>1 DEF BeginSetInput
    <3>2. CASE ~ refused
      BY <1>4, <3>2 DEF BeginSetInput
    <3> QED BY <3>1, <3>2
  <2>3. c.ts <= now
    BY DEF OrderInv
  <2>4. callOK'
    BY <2>2, <2>3 DEF OrderInv, Idle, Typed, TypeOK
  <2> QED BY <1>4, <2>1, <2>4 DEF BeginSetInput, OrderInv, txState, history
<1>5. ASSUME NEW t \in Threads, AcceptInput(t)
      PROVE  OrderInv'
  <2>1. call[t].cmd \in Commands /\ call[t].at \in Nat
    BY <1>5, AcceptTimes
  <2>2. call[t].cmd.ts \in Int /\ call[t].cmd.ts <= call[t].at
    BY <1>5, <2>1 DEF AcceptInput, OrderInv, Commands
  <2>3. EffectiveTs(call[t]) = call[t].cmd.ts
    BY <2>1, <2>2 DEF EffectiveTs, Lesser
  <2>4. newest <= call[t].cmd.ts /\ newest \in Int
    BY <1>5, <2>3 DEF AcceptInput, Accepts, OrderInv, Typed, TypeOK
  <2>5. lastAcceptedTs' = inForce' /\ inForce' = newest'
    BY <1>5, <2>2, <2>3, <2>4 DEF AcceptInput, Greater
  <2>6. callOK'
    BY <1>5 DEF AcceptInput, OrderInv, Idle, Typed, TypeOK
  <2> QED BY <1>5, <2>5, <2>6 DEF AcceptInput, OrderInv
<1>6. ASSUME NEW t \in Threads, RefuseInput(t)
      PROVE  OrderInv'
  <2>1. callOK'
    BY <1>6 DEF RefuseInput, OrderInv, Idle, Typed, TypeOK
  <2> QED BY <1>6, <2>1 DEF RefuseInput, OrderInv, txState, history
<1>7. CASE Enable
  BY <1>7 DEF Enable, OrderInv
<1>8. CASE Disable
  BY <1>8 DEF Disable, OrderInv, history
<1>9. CASE Stop
  BY <1>9 DEF Stop, OrderInv, history
<1>14. CASE StopLoop
  BY <1>14 DEF StopLoop, OrderInv, txState, history
<1>10. CASE BeginLoop
  BY <1>10 DEF BeginLoop, OrderInv, txState, history
<1>11. CASE SkipLoop
  BY <1>11 DEF SkipLoop, OrderInv, txState, history
<1>12. CASE PublishLoop
  BY <1>12 DEF PublishLoop, OrderInv
<1>13. CASE UNCHANGED vars
  BY <1>13 DEF vars, OrderInv, txState, history
<1> QED
  BY <1>1, <1>2, <1>3, <1>4, <1>5, <1>6, <1>7, <1>8, <1>9, <1>10, <1>11, <1>12,
     <1>13, <1>14 DEF Next

(* As long as no client clock runs ahead of the drone's, network delay and *)
(* threads that overtake each other never put an older command in force.   *)
THEOREM NewestWins == ASSUME NoClientAhead PROVE Spec => []NewestCommandInForce
<1>1. Typed /\ OrderInv /\ [Next]_vars => OrderInv'
  BY StepOrder
<1>2. OrderInv => NewestCommandInForce
  BY DEF OrderInv, NewestCommandInForce
<1> QED BY <1>1, <1>2, InitOrder, InitTyped, StepTyped, PTL DEF Spec

-----------------------------------------------------------------------------
(* Rate of change. *)

SlewStep ==
  topic.kind = "override" /\ topic'.kind = "override" =>
    LET step == Greater(RateLimit, CenterRate) * (topic'.at - topic.at)
    IN /\ Abs(topic'.stick - topic.stick) <= step
       /\ Abs(topic'.throttle - topic.throttle) <= step

LEMMA FasterRate ==
  ASSUME NEW dt \in Nat
  PROVE  /\ Greater(RateLimit, CenterRate) * dt \in Nat
         /\ RateLimit * dt <= Greater(RateLimit, CenterRate) * dt
         /\ CenterRate * dt <= Greater(RateLimit, CenterRate) * dt
         /\ RateLimit * dt \in Nat /\ CenterRate * dt \in Nat
<1>1. RateLimit \in Nat /\ CenterRate \in Nat
  BY ConstantsOK
<1> QED BY <1>1 DEF Greater

LEMMA PublishSlew ==
  ASSUME Typed, Safe, PublishLoop, topic.kind = "override"
  PROVE  SlewStep
<1> DEFINE step == Greater(RateLimit, CenterRate) * loop
<1>1. loop \in Nat /\ lastUpdate \in Nat /\ LastMoved = lastUpdate - loop
  BY PublishStep
<1>2. /\ topic.at = lastUpdate - loop /\ topic.stick = stick.output
      /\ topic.throttle = throttle.output
  BY <1>1 DEF Safe, TopicOK
<1>3. /\ topic'.at = lastUpdate /\ topic'.stick = stick'.output
      /\ topic'.throttle = throttle'.output
  BY DEF PublishLoop
<1>4. topic'.at - topic.at = loop
  BY <1>1, <1>2, <1>3
<1>5. /\ stick.output \in -Full..Full /\ throttle.output \in 0..Full
      /\ stick'.output \in -Full..Full /\ throttle'.output \in 0..Full
  BY PublishTyped DEF Typed, TypeOK, StickState, ThrottleState
<1>6. Full \in Nat /\ -Full \in Int
  BY ConstantsOK
<1>7. Abs(stick'.output - stick.output) <= step /\ Abs(throttle'.output - throttle.output) <= step
  <2>1. CASE centering'
    <3>1. PICK m \in Nat : m = CenterRate * loop
      BY <1>1, FasterRate
    <3>2. /\ stick'.output = Toward(stick.output, 0, m)
          /\ throttle'.output = Toward(throttle.output, FailsafeThrottle(mode), m)
      BY <2>1, <3>1 DEF PublishLoop, AutoCenter, Typed, TypeOK, StickState, ThrottleState
    <3>3. FailsafeThrottle(mode) \in Int
      BY ConstantsOK DEF FailsafeThrottle
    <3>4. /\ Abs(stick'.output - stick.output) <= m
          /\ Abs(throttle'.output - throttle.output) <= m
      <4>1. stick.output \in Int /\ throttle.output \in Int /\ 0 \in Int
        BY <1>5, <1>6
      <4> QED BY <3>2, <3>3, <4>1, TowardStep, Zenon
    <3> QED BY <1>1, <1>5, <1>6, <3>1, <3>4, FasterRate DEF Abs
  <2>2. CASE ~ centering'
    <3>1. stick' \in Processed(stick, loop) /\ throttle' \in Processed(throttle, loop)
      BY <2>2 DEF PublishLoop, ProcessChannels
    <3>2. 0 \in Int /\ 0 <= 0 /\ -Full \in Int /\ -Full <= 0
      BY <1>6
    <3>3. /\ stick \in [raw : -Full..Full, smoothed : -Full..Full, output : -Full..Full]
          /\ throttle \in [raw : 0..Full, smoothed : 0..Full, output : 0..Full]
      BY DEF Typed, TypeOK, StickState, ThrottleState
    <3>4. /\ Abs(stick'.output - stick.output) <= RateLimit * loop
          /\ Abs(throttle'.output - throttle.output) <= RateLimit * loop
      BY <1>1, <3>1, <3>2, <3>3, ProcessedStep, Zenon
    <3> QED BY <1>1, <1>5, <1>6, <3>4, FasterRate DEF Abs
  <2> QED BY <2>1, <2>2
<1> HIDE DEF step
<1>8. step = Greater(RateLimit, CenterRate) * (topic'.at - topic.at)
  BY <1>4 DEF step
<1> QED BY <1>2, <1>3, <1>7, <1>8 DEF SlewStep

(* The published sticks never jump: not at an expiry, not at a resumed     *)
(* command, not across a mode change.                                      *)
THEOREM NoJump == Spec => SlewBounded
<1>1. Typed /\ Safe /\ [Next]_vars => [SlewStep]_topic
  <2> SUFFICES ASSUME Typed, Safe, [Next]_vars, topic' # topic
               PROVE  SlewStep
    OBVIOUS
  <2>1. CASE PublishLoop
    BY <2>1, PublishSlew DEF SlewStep
  <2>2. CASE Disable \/ Stop
    BY <2>2 DEF Disable, Stop, Release, SlewStep
  <2>3. CASE UNCHANGED topic
    BY <2>3
  <2> QED BY <2>1, <2>2, <2>3 DEF Next, Tick, SetMode, Send, BeginSetInput, AcceptInput,
                RefuseInput, Enable, StopLoop, BeginLoop, SkipLoop, vars
<1>2. [SlewStep]_topic => [topic.kind = "override" /\ topic'.kind = "override" =>
          LET step == Greater(RateLimit, CenterRate) * (topic'.at - topic.at)
          IN /\ Abs(topic'.stick - topic.stick) <= step
             /\ Abs(topic'.throttle - topic.throttle) <= step]_topic
  BY DEF SlewStep
<1> QED BY <1>1, <1>2, Inductive, PTL DEF Spec, SlewBounded

-----------------------------------------------------------------------------
(* The contract. *)

LEMMA InitContract == Init => Contract!Init
  BY DEF Init, Contract!Init

LEMMA AcceptContract ==
  ASSUME Typed, NEW t \in Threads, AcceptInput(t)
  PROVE  Contract!Accept
<1>1. /\ holdUntil' \in Nat \ {0} /\ EffectiveTs(call[t]) \in Nat
      /\ lastAcceptedTs' = EffectiveTs(call[t]) /\ EffectiveTs(call[t]) >= lastAcceptedTs
      /\ enabled /\ enabled' = enabled /\ centering' = FALSE /\ topic' = topic
  BY AcceptTimes DEF AcceptInput, Accepts
<1> QED BY <1>1 DEF Contract!Accept

LEMMA PublishContract ==
  ASSUME Typed, Safe, PublishLoop
  PROVE  Contract!Publish
<1>1. /\ enabled /\ enabled' = enabled /\ holdUntil' = holdUntil /\ topic'.kind = "override"
      /\ lastAcceptedTs' = lastAcceptedTs
  BY DEF PublishLoop
<1>2. \/ centering' /\ ~ centering /\ holdUntil # 0
      \/ centering' /\ centering
      \/ ~ centering' /\ ~ centering
  <2>1. HoldExpired => holdUntil # 0
    BY DEF HoldExpired
  <2> QED BY <2>1, PublishStep
<1> QED BY <1>1, <1>2 DEF Contract!Publish

LEMMA StepContract == Typed /\ Safe /\ [Next]_vars => [Contract!Next]_Contract!vars
<1> SUFFICES ASSUME Typed, Safe, [Next]_vars
             PROVE  [Contract!Next]_Contract!vars
  OBVIOUS
<1> DEFINE contractVars == << enabled, centering, holdUntil, lastAcceptedTs, topic >>
<1>1. UNCHANGED contractVars => UNCHANGED Contract!vars
  BY DEF Contract!vars
<1>2. CASE \/ Tick \/ StopLoop \/ BeginLoop \/ SkipLoop \/ UNCHANGED vars
           \/ \E m \in Modes : SetMode(m)
           \/ \E inp \in Inputs, dur \in Durations, skew \in Skews : Send(inp, dur, skew)
           \/ \E t \in Threads : RefuseInput(t) \/ (\E c \in wire : BeginSetInput(t, c))
  BY <1>1, <1>2 DEF Tick, StopLoop, BeginLoop, SkipLoop, SetMode, Send, RefuseInput,
                    BeginSetInput, vars, txState
<1>3. ASSUME NEW t \in Threads, AcceptInput(t)
      PROVE  Contract!Next
  BY <1>3, AcceptContract DEF Contract!Next
<1>4. CASE Enable
  BY <1>4 DEF Enable, Contract!Next, Contract!Enable
<1>5. CASE Disable
  BY <1>5 DEF Disable, Release, Contract!Next, Contract!Disable
<1>6. CASE Stop
  <2>1. CASE Release
    BY <1>6, <2>1 DEF Stop, Release, Contract!Next, Contract!Disable
  <2>2. CASE UNCHANGED << enabled, topic >>
    BY <1>1, <1>6, <2>2 DEF Stop
  <2> QED BY <1>6, <2>1, <2>2 DEF Stop
<1>7. CASE PublishLoop
  BY <1>7, PublishContract DEF Contract!Next
<1> QED BY <1>2, <1>3, <1>4, <1>5, <1>6, <1>7 DEF Next

(* The transmitter, with its threads, clock readings and locks, implements *)
(* the contract it offers to the flight controller.                        *)
THEOREM Implementation == Spec => ImplementsContract
  BY InitContract, StepContract, Inductive, PTL DEF Spec, ImplementsContract, Contract!Spec
===============================================================================

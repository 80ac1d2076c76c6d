--------------------------- MODULE ArmControl_proofs ---------------------------
(***************************************************************************)
(* Proofs about ArmControl, for any number of API threads, any modes, any  *)
(* requests and any number of events.                                      *)
(***************************************************************************)
EXTENDS ArmControl, FiniteSetTheorems, TLAPS

Records == [at : Stages, op : Requests, cmd : Commands, primed : BOOLEAN]

(* A thread between Acquire and Finish.                                    *)
InSection(t) == call[t].at \in {"send", "wait", "unanswered", "done", "refused"}

(* Why the lock excludes: whoever is in a section is its holder, and       *)
(* nobody else ever holds it.                                              *)
SectionInv == \A t \in Threads : InSection(t) <=> lock = t

(* Changing the stage of a thread that has a request keeps its type.       *)
LEMMA GotoType ==
  ASSUME TypeOK, NEW t \in Threads, call[t].at # "idle", NEW at \in Stages, Goto(t, at)
  PROVE  /\ call' \in [Threads -> {Idle} \cup Records]
         /\ call' = [call EXCEPT ![t] = [at |-> at, op |-> call[t].op,
                          cmd |-> call[t].cmd, primed |-> call[t].primed]]
<1>1. call[t] \in Records
  <2>1. call[t] \in {Idle} \cup Records
    BY DEF TypeOK, Records
  <2>2. Idle.at = "idle"
    BY DEF Idle
  <2> QED
    BY <2>1, <2>2
<1>2. [call[t] EXCEPT !.at = at] = [at |-> at, op |-> call[t].op,
         cmd |-> call[t].cmd, primed |-> call[t].primed]
  BY <1>1 DEF Records
<1>3. [at |-> at, op |-> call[t].op, cmd |-> call[t].cmd,
       primed |-> call[t].primed] \in Records
  BY <1>1 DEF Records
<1>4. call' = [call EXCEPT ![t] = [call[t] EXCEPT !.at = at]]
  BY DEF Goto
<1>5. call \in [Threads -> {Idle} \cup Records]
  BY DEF TypeOK, Records
<1> QED
  BY <1>2, <1>3, <1>4, <1>5

(* What a thread starts with has the right type and is outside a section.  *)
LEMMA StageType ==
  /\ \A r \in Requests : FirstStage(r) \in {Idle} \cup Records
  /\ \A r \in Requests : FirstStage(r) # Idle =>
       /\ FirstStage(r).at \in {"prepare", "acquire"}
       /\ FirstStage(r).primed = FALSE
  /\ \A t \in Threads : AfterRefusal(t) \in {Idle} \cup Records
  /\ \A t \in Threads : AfterRefusal(t) # Idle =>
       /\ AfterRefusal(t).at = "acquire"
       /\ AfterRefusal(t).primed = FALSE
<1>1. ASSUME NEW r \in Requests, r \notin VtxRequests
      PROVE  CommandOf(r) \in Commands
  BY <1>1 DEF Requests, CommandOf, Commands
<1>2. ASSUME NEW at \in Stages, NEW op \in Requests, NEW cmd \in Commands
      PROVE  /\ Stage(at, op, cmd) \in Records
             /\ Stage(at, op, cmd).at = at
             /\ Stage(at, op, cmd).primed = FALSE
  BY DEF Stage, Records
<1>3. "prepare" \in Stages /\ "acquire" \in Stages
  BY DEF Stages
<1>4. "control_disarm" \in Requests /\ "force" \in Commands
  BY DEF Requests, Commands
<1>5. ASSUME NEW r \in Requests
      PROVE  /\ FirstStage(r) \in {Idle} \cup Records
             /\ FirstStage(r) # Idle => /\ FirstStage(r).at \in {"prepare", "acquire"}
                                        /\ FirstStage(r).primed = FALSE
  <2> HIDE DEF Stage, CommandOf
  <2>1. CASE r \notin VtxRequests /\ Proceeds(r)
    <3>1. PICK at \in {"prepare", "acquire"} : FirstStage(r) = Stage(at, r, CommandOf(r))
      BY <2>1 DEF FirstStage
    <3>2. at \in Stages /\ CommandOf(r) \in Commands
      BY <1>1, <1>3, <2>1
    <3>3. /\ Stage(at, r, CommandOf(r)) \in Records
          /\ Stage(at, r, CommandOf(r)).at = at
          /\ Stage(at, r, CommandOf(r)).primed = FALSE
      BY <1>2, <3>2
    <3> QED
      BY <3>1, <3>3
  <2>2. CASE ~ (r \notin VtxRequests /\ Proceeds(r))
    BY <2>2 DEF FirstStage
  <2> QED
    BY <2>1, <2>2
<1>6. ASSUME NEW t \in Threads
      PROVE  /\ AfterRefusal(t) \in {Idle} \cup Records
             /\ AfterRefusal(t) # Idle => /\ AfterRefusal(t).at = "acquire"
                                          /\ AfterRefusal(t).primed = FALSE
  <2> HIDE DEF Stage
  <2> QED
    BY <1>2, <1>3, <1>4 DEF AfterRefusal
<1> QED
  BY <1>5, <1>6

(* The parts of TypeOK.                                                    *)
FcType == fc \in [up : BOOLEAN, armed : BOOLEAN, mode : Modes, radio : Radios]

TelemType ==
  telem \in [connected : BOOLEAN, armed : BOOLEAN, mode : Modes \cup {""}, rc : BOOLEAN]

SwitchesType ==
  switches \in [ch5 : {"unknown", "up", "down"}, ch6 : {"unknown", "up", "down"},
               mode : Modes \cup {"unknown"}]

PostedType == posted \in [Requests -> Nat]
CallType == call \in [Threads -> {Idle} \cup Records]
LockType == lock \in Threads \cup {NoThread} /\ late \in [Commands -> Nat]

CountType ==
  /\ vtx \in {"off", "ready", "neutral", "stick", "failsafe"}
  /\ events \in Nat
  /\ asked \in Nat /\ armings \in Nat
  /\ disabledFor \subseteq Threads

LEMMA TypeParts ==
  /\ TypeOK <=> /\ FcType /\ TelemType /\ SwitchesType /\ PostedType /\ CallType
                /\ LockType /\ CountType
  /\ FcType' /\ TelemType' /\ SwitchesType' /\ PostedType' /\ CallType'
     /\ LockType' /\ CountType' => TypeOK'
<1>1. TypeOK <=> /\ FcType /\ TelemType /\ SwitchesType /\ PostedType /\ CallType
                 /\ LockType /\ CountType
  BY Zenon DEF TypeOK, FcType, TelemType, SwitchesType, PostedType, CallType,
     LockType, CountType, Records
<1>2. ASSUME FcType', TelemType', SwitchesType', PostedType', CallType', LockType',
             CountType'
      PROVE  TypeOK'
  BY <1>2, Zenon DEF TypeOK, FcType, TelemType, SwitchesType, PostedType, CallType,
     LockType, CountType, Records
<1> QED
  BY <1>1, <1>2

(* A variable that does not change keeps its type.                         *)
LEMMA Kept ==
  ASSUME TypeOK
  PROVE  /\ fc' = fc => FcType'
         /\ telem' = telem => TelemType'
         /\ switches' = switches => SwitchesType'
         /\ posted' = posted => PostedType'
         /\ call' = call => CallType'
         /\ lock' = lock => lock' \in Threads \cup {NoThread}
         /\ late' = late => late' \in [Commands -> Nat]
         /\ vtx' = vtx => vtx' \in {"off", "ready", "neutral", "stick", "failsafe"}
         /\ events' = events => events' \in Nat
         /\ asked' = asked => asked' \in Nat
         /\ armings' = armings => armings' \in Nat
         /\ disabledFor' = disabledFor => disabledFor' \subseteq Threads
BY TypeParts, Zenon DEF FcType, TelemType, SwitchesType, PostedType, CallType,
   LockType, CountType

(* The flight controller carrying a command out keeps its type.            *)
LEMMA CarryType ==
  ASSUME TypeOK, NEW cmd \in Commands, Carry(cmd)
  PROVE  /\ fc' \in [up : BOOLEAN, armed : BOOLEAN, mode : Modes, radio : Radios]
         /\ armings' \in Nat
<1>1. ArmedBy(cmd) \in BOOLEAN
  BY DEF ArmedBy, TypeOK
<1>2. fc' = [up |-> fc.up, armed |-> ArmedBy(cmd),
            mode |-> IF cmd \in Modes THEN cmd ELSE fc.mode, radio |-> fc.radio]
  <2>1. fc = [up |-> fc.up, armed |-> fc.armed, mode |-> fc.mode, radio |-> fc.radio]
    BY DEF TypeOK
  <2>2. fc' = [fc EXCEPT !.armed = ArmedBy(cmd),
                        !.mode = IF cmd \in Modes THEN cmd ELSE fc.mode]
    BY DEF Carry
  <2> QED
    BY <2>1, <2>2
<1>3. fc' \in [up : BOOLEAN, armed : BOOLEAN, mode : Modes, radio : Radios]
  BY <1>1, <1>2 DEF TypeOK
<1>4. armings' \in Nat
  <2>1. armings' = armings + 1 \/ armings' = armings
    BY Zenon DEF Carry
  <2>2. armings \in Nat
    BY DEF TypeOK
  <2> QED
    BY <2>1, <2>2
<1> QED
  BY <1>3, <1>4

(* The steps of a thread that only move it on.                             *)
LEMMA MoveType ==
  ASSUME TypeOK, NEW t \in Threads, NEW at \in Stages, call[t].at # "idle",
         Goto(t, at),
         UNCHANGED << fc, telem, switches, posted, vtx, events, history >>,
         lock' \in Threads \cup {NoThread}, late' \in [Commands -> Nat]
  PROVE  TypeOK'
<1>1. CallType'
  BY GotoType DEF CallType
<1> QED
  BY <1>1, Kept, TypeParts DEF history, LockType, CountType

(* Telemetry and the flight controller.                                    *)
LEMMA WorldType ==
  ASSUME TypeOK, \/ StateReport \/ RcReport \/ LinkChange \/ AutoDisarm \/ HoldExpires
                 \/ \E cmd \in Commands : ExecuteLate(cmd) \/ LoseLate(cmd)
  PROVE  TypeOK'
<1> USE TypeParts
<1>1. CASE StateReport
  <2>1. TelemType'
    BY <1>1 DEF StateReport, TelemType, FcType
  <2> QED
    BY <1>1, <2>1, Kept DEF StateReport, history, LockType, CountType
<1>2. CASE RcReport
  <2>1. TelemType'
    <3>1. telem' = [telem EXCEPT !.rc = fc.radio \/ vtx # "off"]
      BY <1>2 DEF RcReport
    <3>2. (fc.radio \/ vtx # "off") \in BOOLEAN
      OBVIOUS
    <3> QED
      BY <3>1, <3>2 DEF TelemType
  <2> QED
    BY <1>2, <2>1, Kept DEF RcReport, history, LockType, CountType
<1>3. CASE LinkChange
  <2>1. FcType'
    BY <1>3 DEF LinkChange, FcType
  <2> QED
    BY <1>3, <2>1, Kept DEF LinkChange, history, LockType, CountType
<1>4. CASE AutoDisarm
  <2>1. FcType'
    BY <1>4 DEF AutoDisarm, FcType
  <2> QED
    BY <1>4, <2>1, Kept DEF AutoDisarm, history, LockType, CountType
<1>5. ASSUME NEW cmd \in Commands, ExecuteLate(cmd)
      PROVE  TypeOK'
  <2>1. FcType' /\ armings' \in Nat
    BY <1>5, CarryType DEF ExecuteLate, FcType
  <2>2. late' \in [Commands -> Nat]
    BY <1>5 DEF ExecuteLate, LockType
  <2> QED
    BY <1>5, <2>1, <2>2, Kept DEF ExecuteLate, LockType, CountType
<1>6. ASSUME NEW cmd \in Commands, LoseLate(cmd)
      PROVE  TypeOK'
  <2>1. late' \in [Commands -> Nat]
    BY <1>6 DEF LoseLate, LockType
  <2> QED
    BY <1>6, <2>1, Kept DEF LoseLate, history, LockType, CountType
<1>7. CASE HoldExpires
  BY <1>7, Kept DEF HoldExpires, history, LockType, CountType
<1> QED
  BY <1>1, <1>2, <1>3, <1>4, <1>5, <1>6, <1>7

(* Requests on their way.                                                  *)
LEMMA RequestType ==
  ASSUME TypeOK,
         \/ \E ch5, ch6 \in {"up", "down"}, mode \in RadioModes : Frame(ch5, ch6, mode)
         \/ BridgeRestart
         \/ \E r \in WebRequests : WebRequest(r)
         \/ \E r \in Requests : LoseRequest(r)
  PROVE  TypeOK'
<1> USE TypeParts
<1>1. ASSUME NEW ch5 \in {"up", "down"}, NEW ch6 \in {"up", "down"},
             NEW mode \in RadioModes, Frame(ch5, ch6, mode)
      PROVE  TypeOK'
  <2>1. SwitchesType'
    BY <1>1, ConstantsOK DEF Frame, SwitchesType
  <2>2. PostedType'
    BY <1>1 DEF Frame, PostedType
  <2>3. asked' \in Nat /\ events' \in Nat
    BY <1>1 DEF Frame, CountType
  <2> QED
    BY <1>1, <2>1, <2>2, <2>3, Kept DEF Frame, LockType, CountType
<1>2. CASE BridgeRestart
  <2>1. SwitchesType'
    BY <1>2 DEF BridgeRestart, SwitchesType, SwitchesUnknown
  <2> QED
    BY <1>2, <2>1, Kept DEF BridgeRestart, LockType, CountType
<1>3. ASSUME NEW r \in WebRequests, WebRequest(r)
      PROVE  TypeOK'
  <2>1. PostedType'
    BY <1>3, ConstantsOK DEF WebRequest, PostedType
  <2>2. asked' \in Nat /\ events' \in Nat
    BY <1>3 DEF WebRequest, CountType
  <2> QED
    BY <1>3, <2>1, <2>2, Kept DEF WebRequest, LockType, CountType
<1>4. ASSUME NEW r \in Requests, LoseRequest(r)
      PROVE  TypeOK'
  <2>1. PostedType'
    BY <1>4 DEF LoseRequest, PostedType, Pending
  <2> QED
    BY <1>4, <2>1, Kept DEF LoseRequest, history, LockType, CountType
<1> QED
  BY <1>1, <1>2, <1>3, <1>4

(* The API threads.                                                        *)
ThreadSteps(t) ==
  \/ Execute(t) \/ Refuse(t) \/ LoseCommand(t)
  \/ \E r \in Requests : Handle(t, r)
  \/ Step(t) \/ Acquire(t) \/ TimeOut(t)

LEMMA ThreadType ==
  ASSUME TypeOK, NEW t \in Threads, ThreadSteps(t)
  PROVE  TypeOK'
<1> USE TypeParts
<1>0. {"acquire", "radio", "enable", "prime", "send", "wait", "unanswered",
       "done", "refused"} \subseteq Stages
  BY DEF Stages
<1>1. CASE Execute(t)
  <2>1. call[t].at # "idle" /\ call[t].cmd \in Commands
    <3>1. call[t] \in {Idle} \cup Records /\ call[t].at = "wait"
      BY <1>1 DEF Execute, Waiting, CallType
    <3>2. call[t] # Idle
      BY <3>1 DEF Idle
    <3> QED
      BY <3>1, <3>2 DEF Records
  <2>2. FcType' /\ armings' \in Nat
    BY <1>1, <2>1, CarryType DEF Execute, FcType
  <2>3. CallType'
    <3>1. PICK at \in Stages : Goto(t, at)
      BY <1>0, <1>1 DEF Execute
    <3> QED
      BY <2>1, <3>1, GotoType DEF CallType
  <2> QED
    BY <1>1, <2>2, <2>3, Kept DEF Execute, LockType, CountType
<1>2. CASE Refuse(t)
  BY <1>0, <1>2, MoveType, Kept DEF Refuse, Waiting
<1>3. CASE LoseCommand(t)
  BY <1>0, <1>3, MoveType, Kept DEF LoseCommand, Waiting
<1>4. ASSUME NEW r \in Requests, Handle(t, r)
      PROVE  TypeOK'
  <2>1. PostedType'
    BY <1>4 DEF Handle, PostedType, Pending
  <2>2. CallType'
    BY <1>4, StageType DEF Handle, CallType
  <2>3. vtx' \in {"off", "ready", "neutral", "stick", "failsafe"} /\ disabledFor' \subseteq Threads
    BY <1>4 DEF Handle, VtxAfter, CountType
  <2> QED
    BY <1>4, <2>1, <2>2, <2>3, Kept DEF Handle, LockType, CountType
<1>5. CASE ReadMode(t)
  <2>1. PICK at \in Stages : Goto(t, at)
    BY <1>0, <1>5 DEF ReadMode
  <2> QED
    BY <1>5, <2>1, MoveType, Kept DEF ReadMode
<1>6. CASE ReadRc(t)
  <2>1. PICK at \in Stages : Goto(t, at)
    BY <1>0, <1>6 DEF ReadRc
  <2> QED
    BY <1>6, <2>1, MoveType, Kept DEF ReadRc
<1>7. CASE EnableVtx(t)
  <2>1. CallType'
    BY <1>0, <1>7, GotoType DEF EnableVtx, CallType
  <2>2. vtx' \in {"off", "ready", "neutral", "stick", "failsafe"}
    BY <1>7 DEF EnableVtx, CountType
  <2> QED
    BY <1>7, <2>1, <2>2, Kept DEF EnableVtx, history, LockType, CountType
<1>8. CASE PrimeVtx(t)
  <2>1. CallType'
    <3>1. call[t] \in Records
      <4>1. call[t] \in {Idle} \cup Records /\ call[t].at = "prime"
        BY <1>8 DEF PrimeVtx, CallType
      <4> QED
        BY <4>1 DEF Idle
    <3>2. CASE call' = [call EXCEPT ![t] = Idle]
      BY <3>2 DEF CallType
    <3>3. CASE call' = [call EXCEPT ![t].at = "acquire", ![t].primed = TRUE]
      <4>1. [call[t] EXCEPT !.at = "acquire", !.primed = TRUE] \in Records
        BY <1>0, <3>1 DEF Records
      <4>2. call' = [call EXCEPT ![t] = [call[t] EXCEPT !.at = "acquire", !.primed = TRUE]]
        BY <3>3 DEF CallType
      <4> QED
        BY <4>1, <4>2 DEF CallType
    <3> QED
      BY <1>8, <3>2, <3>3 DEF PrimeVtx
  <2>2. vtx' \in {"off", "ready", "neutral", "stick", "failsafe"} /\ disabledFor' \subseteq Threads
    BY <1>8 DEF PrimeVtx, CountType
  <2> QED
    BY <1>8, <2>1, <2>2, Kept DEF PrimeVtx, LockType, CountType
<1>9. CASE Send(t)
  BY <1>0, <1>9, MoveType, Kept DEF Send
<1>10. CASE GiveUp(t)
  BY <1>0, <1>10, MoveType, Kept DEF GiveUp
<1>11. CASE Finish(t)
  <2>1. CallType'
    BY <1>11, StageType DEF Finish, CallType
  <2>2. lock' \in Threads \cup {NoThread}
    BY <1>11 DEF Finish, ReleaseLock
  <2> QED
    BY <1>11, <2>1, <2>2, Kept DEF Finish, history, LockType, CountType
<1>12. CASE Acquire(t)
  BY <1>0, <1>12, MoveType, Kept DEF Acquire
<1>13. CASE TimeOut(t)
  <2>1. late' \in [Commands -> Nat]
    BY <1>13 DEF TimeOut, LockType
  <2>2. call[t].at # "idle"
    BY <1>13 DEF TimeOut, Waiting
  <2> QED
    BY <1>0, <1>13, <2>1, <2>2, MoveType, Kept DEF TimeOut
<1> QED
  BY <1>1, <1>2, <1>3, <1>4, <1>5, <1>6, <1>7, <1>8, <1>9, <1>10, <1>11, <1>12, <1>13
     DEF ThreadSteps, Step

(* Every variable keeps its type.                                          *)
THEOREM TypeCorrect == Spec => []TypeOK
<1>1. ASSUME Init
      PROVE  TypeOK
  <2>1. FcType
    BY <1>1 DEF Init, FcType
  <2>2. TelemType /\ SwitchesType
    BY <1>1 DEF Init, TelemType, SwitchesType, SwitchesUnknown
  <2>3. PostedType /\ CallType /\ LockType /\ CountType
    BY <1>1 DEF Init, PostedType, CallType, LockType, CountType
  <2> QED
    BY <2>1, <2>2, <2>3, TypeParts
<1>2. ASSUME TypeOK, [Next]_vars
      PROVE  TypeOK'
  <2>1. CASE UNCHANGED vars
    BY <1>2, <2>1, Kept, TypeParts DEF vars, history, LockType, CountType
  <2>2. CASE Next
    BY <1>2, <2>2, WorldType, RequestType, ThreadType DEF Next, ThreadSteps
  <2> QED
    BY <1>2, <2>1, <2>2
<1> QED
  BY <1>1, <1>2, PTL DEF Spec

(* What a step of a thread does to its place in a section, to the lock,    *)
(* and to what its priming relies on.                                      *)
Moved(t) ==
  /\ \A u \in Threads \ {t} : call'[u] = call[u]
  /\ \/ InSection(t)' /\ InSection(t) /\ lock' = lock
     \/ InSection(t)' /\ lock = NoThread /\ lock' = t
     \/ ~ InSection(t)' /\ ~ InSection(t) /\ lock' = lock
     \/ ~ InSection(t)' /\ InSection(t) /\ lock' = NoThread

(* The transmitter has accepted a command since it was enabled.            *)
Commanded == vtx \in {"neutral", "stick", "failsafe"}

PrimingKept(t) ==
  /\ Commanded => Commanded' \/ disabledFor' = Threads
  /\ \/ vtx' = "neutral"
     \/ disabledFor \subseteq disabledFor' /\ (Primed(t)' => Primed(t))

LEMMA GotoMoves ==
  ASSUME TypeOK, NEW t \in Threads, NEW at \in Stages, call[t].at # "idle",
         Goto(t, at)
  PROVE  /\ \A u \in Threads \ {t} : call'[u] = call[u]
         /\ call'[t].at = at
         /\ call[t] # Idle
         /\ call'[t].primed = call[t].primed
<1>1. call' = [call EXCEPT ![t] = [at |-> at, op |-> call[t].op,
                  cmd |-> call[t].cmd, primed |-> call[t].primed]]
  BY GotoType
<1>2. call \in [Threads -> {Idle} \cup Records]
  BY TypeParts DEF CallType
<1>3. call[t] # Idle
  BY DEF Idle
<1> QED
  BY <1>1, <1>2, <1>3

LEMMA ThreadMoves ==
  ASSUME TypeOK, NEW t \in Threads, ThreadSteps(t)
  PROVE  Moved(t) /\ PrimingKept(t)
<1>0. {"acquire", "radio", "enable", "prime", "send", "wait", "unanswered",
       "done", "refused"} \subseteq Stages
  BY DEF Stages
<1>a. call \in [Threads -> {Idle} \cup Records] /\ Idle.at = "idle"
  BY TypeParts DEF CallType, Idle
<1>1. CASE Execute(t)
  <2>1. PICK at \in {"done", "unanswered"} : Goto(t, at)
    BY <1>1 DEF Execute
  <2> QED
    BY <1>0, <1>1, <2>1, GotoMoves
       DEF Execute, Waiting, Moved, PrimingKept, Primed, Commanded, InSection
<1>2. CASE Refuse(t)
  BY <1>0, <1>2, GotoMoves
     DEF Refuse, Waiting, history, Moved, PrimingKept, Primed, Commanded, InSection
<1>3. CASE LoseCommand(t)
  BY <1>0, <1>3, GotoMoves
     DEF LoseCommand, Waiting, history, Moved, PrimingKept, Primed, Commanded, InSection
<1>4. ASSUME NEW r \in Requests, Handle(t, r)
      PROVE  Moved(t) /\ PrimingKept(t)
  <2>1. /\ \A u \in Threads \ {t} : call'[u] = call[u]
        /\ call'[t] = FirstStage(r)
    BY <1>4, <1>a DEF Handle
  <2>2. ~ InSection(t)' /\ ~ InSection(t) /\ lock' = lock
    BY <1>4, <1>a, <2>1, StageType DEF Handle, InSection
  <2>3. ~ Primed(t)'
    BY <2>1, StageType DEF Primed
  <2>4. /\ Commanded => Commanded' \/ disabledFor' = Threads
        /\ disabledFor \subseteq disabledFor'
    BY <1>4, TypeParts DEF Handle, VtxAfter, CountType, Commanded
  <2> QED
    BY <2>1, <2>2, <2>3, <2>4 DEF Moved, PrimingKept
<1>5. CASE ReadMode(t)
  <2>1. PICK at \in {"acquire", "radio", "enable"} : Goto(t, at)
    BY <1>5 DEF ReadMode
  <2> QED
    BY <1>0, <1>5, <2>1, GotoMoves DEF ReadMode, history, Moved, PrimingKept, Primed, Commanded, InSection
<1>6. CASE ReadRc(t)
  <2>1. PICK at \in {"acquire", "enable"} : Goto(t, at)
    BY <1>6 DEF ReadRc
  <2> QED
    BY <1>0, <1>6, <2>1, GotoMoves DEF ReadRc, history, Moved, PrimingKept, Primed, Commanded, InSection
<1>7. CASE EnableVtx(t)
  BY <1>0, <1>7, GotoMoves DEF EnableVtx, history, Moved, PrimingKept, Primed, Commanded, InSection
<1>8. CASE PrimeVtx(t)
  <2>1. CASE /\ call' = [call EXCEPT ![t] = Idle]
             /\ UNCHANGED << vtx, disabledFor >>
    BY <1>8, <1>a, <2>1 DEF PrimeVtx, Moved, PrimingKept, Primed, Commanded, InSection
  <2>2. CASE /\ call' = [call EXCEPT ![t].at = "acquire", ![t].primed = TRUE]
             /\ vtx # "off" /\ vtx' = "neutral"
    <3>1. call[t] \in Records
      BY <1>8, <1>a DEF PrimeVtx
    <3>2. [call[t] EXCEPT !.at = "acquire", !.primed = TRUE].at = "acquire"
      BY <3>1 DEF Records
    <3>3. call' = [call EXCEPT ![t] = [call[t] EXCEPT !.at = "acquire", !.primed = TRUE]]
      BY <1>a, <2>2
    <3>4. /\ \A u \in Threads \ {t} : call'[u] = call[u]
          /\ call'[t].at = "acquire"
      BY <1>a, <3>2, <3>3
    <3> QED
      BY <1>8, <2>2, <3>4 DEF PrimeVtx, Moved, PrimingKept, Primed, Commanded, InSection
  <2> QED
    BY <1>8, <2>1, <2>2, Zenon DEF PrimeVtx, PrimeFails
<1>9. CASE Send(t)
  BY <1>0, <1>9, GotoMoves DEF Send, history, Moved, PrimingKept, Primed, Commanded, InSection
<1>10. CASE GiveUp(t)
  BY <1>0, <1>10, GotoMoves DEF GiveUp, history, Moved, PrimingKept, Primed, Commanded, InSection
<1>11. CASE Finish(t)
  <2>1. PICK next \in {Idle, AfterRefusal(t)} : call' = [call EXCEPT ![t] = next]
    BY <1>11 DEF Finish
  <2>2. next # Idle => next.at = "acquire" /\ next.primed = FALSE
    BY StageType
  <2>3. /\ \A u \in Threads \ {t} : call'[u] = call[u]
        /\ call'[t] = next
    BY <1>a, <2>1
  <2> QED
    BY <1>11, <1>a, <2>2, <2>3
       DEF Finish, ReleaseLock, history, Moved, PrimingKept, Primed, Commanded, InSection
<1>12. CASE Acquire(t)
  BY <1>0, <1>12, GotoMoves
     DEF Acquire, CanAcquire, history, Moved, PrimingKept, Primed, Commanded, InSection
<1>13. CASE TimeOut(t)
  <2>1. call[t].at \in {"wait", "unanswered"}
    BY <1>13 DEF TimeOut, Waiting
  <2> QED
    BY <1>0, <1>13, <2>1, GotoMoves DEF TimeOut, history, Moved, PrimingKept, Primed, Commanded, InSection
<1> QED
  BY <1>1, <1>2, <1>3, <1>4, <1>5, <1>6, <1>7, <1>8, <1>9, <1>10, <1>11, <1>12, <1>13
     DEF ThreadSteps, Step

(* Everything else leaves threads and lock alone, and the transmitter to   *)
(* its failsafe.                                                           *)
LEMMA OthersMove ==
  ASSUME [Next]_vars, ~ \E t \in Threads : ThreadSteps(t)
  PROVE  /\ call' = call /\ lock' = lock /\ disabledFor' = disabledFor
         /\ vtx' = vtx \/ (vtx \in {"neutral", "stick"} /\ vtx' = "failsafe")
<1>1. CASE UNCHANGED vars
  BY <1>1 DEF vars, history
<1>2. CASE StateReport \/ RcReport \/ LinkChange \/ AutoDisarm
  BY <1>2 DEF StateReport, RcReport, LinkChange, AutoDisarm, history
<1>3. CASE \E cmd \in Commands : ExecuteLate(cmd) \/ LoseLate(cmd)
  BY <1>3 DEF ExecuteLate, LoseLate, history
<1>4. CASE \/ \E ch5, ch6 \in {"up", "down"}, mode \in RadioModes :
                Frame(ch5, ch6, mode)
           \/ BridgeRestart
  BY <1>4 DEF Frame, BridgeRestart
<1>5. CASE \/ \E r \in WebRequests : WebRequest(r)
           \/ \E r \in Requests : LoseRequest(r)
  BY <1>5 DEF WebRequest, LoseRequest, history
<1>6. CASE HoldExpires
  BY <1>6 DEF HoldExpires, history
<1> QED
  BY <1>1, <1>2, <1>3, <1>4, <1>5, <1>6, Zenon DEF Next, ThreadSteps

(* The lock is held by the thread between Acquire and Finish, and by       *)
(* nobody when there is none: no way out of a section keeps it.            *)
THEOREM SectionsHoldLock == Spec => []SectionInv
<1>1. ASSUME Init
      PROVE  SectionInv
  BY <1>1, ConstantsOK DEF Init, SectionInv, InSection, Idle
<1>2. ASSUME TypeOK, SectionInv, [Next]_vars
      PROVE  SectionInv'
  <2>1. ASSUME NEW t \in Threads, ThreadSteps(t)
        PROVE  SectionInv'
    <3>1. Moved(t)
      BY <1>2, <2>1, ThreadMoves
    <3>2. \A u \in Threads \ {t} : InSection(u)' = InSection(u)
      BY <3>1 DEF Moved, InSection
    <3> QED
      BY <1>2, <3>1, <3>2, ConstantsOK DEF Moved, SectionInv
  <2>2. CASE ~ \E t \in Threads : ThreadSteps(t)
    BY <1>2, <2>2, OthersMove DEF SectionInv, InSection
  <2> QED
    BY <2>1, <2>2
<1> QED
  BY <1>1, <1>2, TypeCorrect, PTL DEF Spec

(* The single lock: no two API threads wait for the flight controller at   *)
(* the same time.                                                          *)
THEOREM Serialized == Spec => []OneCommandAtATime
<1>1. SectionInv => OneCommandAtATime
  BY DEF SectionInv, InSection, OneCommandAtATime, Waiting
<1> QED
  BY <1>1, SectionsHoldLock, PTL

(* A thread that set up the transmitter arms with it enabled and commanded *)
(* since, unless somebody disabled it after the priming.                   *)
THEOREM NoHalfArm == Spec => []ArmsOnlyPrimed
<1>1. ASSUME Init
      PROVE  ArmsOnlyPrimed
  BY <1>1 DEF Init, ArmsOnlyPrimed, Primed
<1>2. ASSUME TypeOK, ArmsOnlyPrimed, [Next]_vars
      PROVE  ArmsOnlyPrimed'
  <2>1. ASSUME NEW t \in Threads, ThreadSteps(t)
        PROVE  ArmsOnlyPrimed'
    <3>1. Moved(t) /\ PrimingKept(t)
      BY <1>2, <2>1, ThreadMoves
    <3>2. \A u \in Threads \ {t} : Primed(u)' <=> Primed(u)
      BY <3>1 DEF Moved, Primed
    <3> QED
      BY <1>2, <3>1, <3>2 DEF PrimingKept, Commanded, ArmsOnlyPrimed
  <2>2. CASE ~ \E t \in Threads : ThreadSteps(t)
    BY <1>2, <2>2, OthersMove DEF ArmsOnlyPrimed, Primed
  <2> QED
    BY <2>1, <2>2
<1> QED
  BY <1>1, <1>2, TypeCorrect, PTL DEF Spec

-----------------------------------------------------------------------------
(* No request arms twice *)

(* Threads that still may arm: with the command of an arming request that  *)
(* the flight controller has neither carried out nor refused.              *)
Arming ==
  {t \in Threads :
     /\ call[t].at \in {"prepare", "radio", "enable", "prime", "acquire", "send", "wait"}
     /\ call[t].cmd = "arm"}

Held(t) == IF t \in Arming THEN 1 ELSE 0

(* Armings, and what may become one without a thread having it.            *)
Spent == armings + posted["arm"] + posted["control_arm"] + late["arm"]

(* Why nothing arms twice: every request to arm is in one place at a time, *)
(* on its way, in a thread, given up and late, or carried out.             *)
BudgetInv == Spent + Cardinality(Arming) <= asked

(* One thing more of a kind that is paid for by one less of another.       *)
LEMMA WithinBudget ==
  ASSUME NEW s \in Nat, NEW s1 \in Nat, NEW a \in Nat, NEW a1 \in Nat, NEW n \in Nat,
         s1 + a <= s + a1, s + n <= a
  PROVE  s1 + n <= a1
  OBVIOUS

LEMMA ArmNames ==
  /\ {"arm", "control_arm", "force", "control_disarm", "disarm"} \subseteq Requests
  /\ "arm" \in Commands /\ "force" \in Commands
  /\ "arm" \notin Modes /\ "control_arm" \notin Modes
BY ConstantsOK DEF Requests, Commands

LEMMA CountTypes ==
  ASSUME TypeOK
  PROVE  /\ armings \in Nat /\ asked \in Nat
         /\ posted["arm"] \in Nat /\ posted["control_arm"] \in Nat
         /\ late["arm"] \in Nat
         /\ Spent \in Nat
<1>1. /\ armings \in Nat /\ asked \in Nat
      /\ posted["arm"] \in Nat /\ posted["control_arm"] \in Nat
      /\ late["arm"] \in Nat
  BY TypeParts, ArmNames DEF CountType, PostedType, LockType
<1> QED
  BY <1>1 DEF Spent

LEMMA ArmingFinite ==
  /\ IsFiniteSet(Arming) /\ Cardinality(Arming) \in Nat
  /\ IsFiniteSet(Arming') /\ Cardinality(Arming') \in Nat
<1>1. Arming \in SUBSET Threads /\ Arming' \in SUBSET Threads
  BY DEF Arming
<1>2. IsFiniteSet(Arming) /\ IsFiniteSet(Arming')
  BY <1>1, FS_Subset, ConstantsOK
<1> QED
  BY <1>2, FS_CardinalityType

(* One thread moves: the number of arming threads changes by that thread.  *)
LEMMA ArmingMoves ==
  ASSUME NEW t \in Threads, \A u \in Threads \ {t} : call'[u] = call[u]
  PROVE  Cardinality(Arming') + Held(t) = Cardinality(Arming) + Held(t)'
<1>1. \A u \in Threads \ {t} : u \in Arming' <=> u \in Arming
  BY DEF Arming
<1>2. Arming \subseteq Threads /\ Arming' \subseteq Threads
  BY DEF Arming
<1>3. Arming' = IF t \in Arming' THEN Arming \cup {t} ELSE Arming \ {t}
  BY <1>1, <1>2
<1>4. Cardinality(Arming \cup {t}) =
        IF t \in Arming THEN Cardinality(Arming) ELSE Cardinality(Arming) + 1
  BY FS_AddElement, ArmingFinite
<1>5. Cardinality(Arming \ {t}) =
        IF t \in Arming THEN Cardinality(Arming) - 1 ELSE Cardinality(Arming)
  BY FS_RemoveElement, ArmingFinite
<1>6. Held(t)' = IF t \in Arming' THEN 1 ELSE 0
  BY DEF Held
<1> QED
  BY <1>3, <1>4, <1>5, <1>6, ArmingFinite DEF Held

(* The flight controller arms only on the command to arm.                  *)
LEMMA CarryArms ==
  ASSUME TypeOK, NEW cmd \in Commands, Carry(cmd)
  PROVE  armings' = armings \/ (cmd = "arm" /\ armings' = armings + 1)
BY DEF Carry, ArmedBy

(* Of the requests a thread takes up, those two become the command to arm. *)
LEMMA OnlyArmRequests ==
  ASSUME NEW r \in Requests, FirstStage(r).cmd = "arm", FirstStage(r) # Idle
  PROVE  r \in {"arm", "control_arm"}
<1>1. FirstStage(r).cmd = CommandOf(r)
  BY DEF FirstStage, Stage
<1> QED
  BY <1>1 DEF CommandOf

LEMMA GotoHolds ==
  ASSUME TypeOK, NEW t \in Threads, NEW at \in Stages, call[t].at # "idle",
         Goto(t, at)
  PROVE  /\ \A u \in Threads \ {t} : call'[u] = call[u]
         /\ call'[t].at = at /\ call'[t].cmd = call[t].cmd
<1>1. call' = [call EXCEPT ![t] = [at |-> at, op |-> call[t].op,
                  cmd |-> call[t].cmd, primed |-> call[t].primed]]
  BY GotoType
<1> QED
  BY <1>1, TypeParts DEF CallType

(* A step of a thread hands its request on, or uses it up.                 *)
LEMMA ThreadSpends ==
  ASSUME TypeOK, NEW t \in Threads, ThreadSteps(t)
  PROVE  /\ asked' = asked
         /\ Spent' + Held(t)' <= Spent + Held(t)
<1> USE ArmNames, CountTypes
<1>0. {"acquire", "radio", "enable", "prime", "send", "wait", "unanswered",
       "done", "refused"} \subseteq Stages
  BY DEF Stages
<1>a. call \in [Threads -> {Idle} \cup Records] /\ Idle.at = "idle"
  BY TypeParts DEF CallType, Idle
<1>b. /\ (t \in Arming)' =>
           /\ call'[t].at \in {"prepare", "radio", "enable", "prime", "acquire",
                               "send", "wait"}
           /\ call'[t].cmd = "arm"
      /\ Held(t) \in {0, 1} /\ Held(t)' \in {0, 1}
      /\ Held(t) = 0 <=> t \notin Arming
      /\ Held(t)' = 0 <=> ~ (t \in Arming)'
  BY DEF Arming, Held
<1>1. CASE Execute(t)
  <2>1. PICK at \in {"done", "unanswered"} : Goto(t, at)
    BY <1>1 DEF Execute
  <2>2. call[t].at = "wait" /\ call[t] \in Records
    BY <1>1, <1>a DEF Execute, Waiting
  <2>3. Held(t)' = 0
    BY <1>0, <1>b, <2>1, <2>2, GotoHolds
  <2>4. armings' = armings \/ (call[t].cmd = "arm" /\ armings' = armings + 1)
    BY <1>1, <2>2, CarryArms DEF Execute, Records
  <2>5. call[t].cmd = "arm" => Held(t) = 1
    BY <2>2 DEF Held, Arming
  <2> QED
    BY <1>1, <1>b, <2>3, <2>4, <2>5 DEF Execute, Spent
<1>2. ASSUME NEW at \in Stages, Goto(t, at), call[t].at # "idle",
             /\ armings' = armings /\ posted' = posted /\ late' = late
             /\ asked' = asked,
             \/ at \in {"done", "unanswered", "refused"}
             \/ call[t].at \in {"prepare", "radio", "enable", "prime", "acquire", "send"}
      PROVE  asked' = asked /\ Spent' + Held(t)' <= Spent + Held(t)
  <2>1. call'[t].at = at /\ call'[t].cmd = call[t].cmd
    BY <1>2, GotoHolds
  <2>2. (t \in Arming)' => t \in Arming
    BY <1>2, <1>b, <2>1 DEF Arming
  <2> QED
    BY <1>2, <1>b, <2>2 DEF Spent
<1>3. CASE Refuse(t) \/ LoseCommand(t)
  BY <1>0, <1>2, <1>3 DEF Refuse, LoseCommand, Waiting, history
<1>4. ASSUME NEW r \in Requests, Handle(t, r)
      PROVE  asked' = asked /\ Spent' + Held(t)' <= Spent + Held(t)
  <2>1. call[t] = Idle /\ call'[t] = FirstStage(r)
    BY <1>4, <1>a DEF Handle
  <2>2. (t \in Arming)' => r \in {"arm", "control_arm"}
    BY <1>a, <1>b, <2>1, OnlyArmRequests
  <2>3. posted' = [posted EXCEPT ![r] = @ - 1] /\ posted \in [Requests -> Nat]
    BY <1>4, TypeParts DEF Handle, PostedType
  <2>4. /\ armings' = armings /\ late' = late /\ asked' = asked
    BY <1>4 DEF Handle
  <2>5. CASE r = "arm"
    BY <1>b, <2>3, <2>4, <2>5 DEF Spent
  <2>6. CASE r = "control_arm"
    BY <1>b, <2>3, <2>4, <2>6 DEF Spent
  <2>7. CASE r \notin {"arm", "control_arm"}
    BY <1>b, <2>2, <2>3, <2>4, <2>7 DEF Spent
  <2> QED
    BY <2>5, <2>6, <2>7
<1>5. CASE ReadMode(t) \/ ReadRc(t) \/ EnableVtx(t) \/ Send(t) \/ GiveUp(t) \/ Acquire(t)
  <2>1. PICK at \in Stages : Goto(t, at)
    BY <1>0, <1>5 DEF ReadMode, ReadRc, EnableVtx, Send, GiveUp, Acquire
  <2>2. call[t].at \in {"prepare", "radio", "enable", "prime", "acquire", "send"}
    BY <1>5 DEF ReadMode, ReadRc, EnableVtx, Send, GiveUp, Acquire
  <2>3. /\ armings' = armings /\ posted' = posted /\ late' = late
        /\ asked' = asked
    BY <1>5 DEF ReadMode, ReadRc, EnableVtx, Send, GiveUp, Acquire, history
  <2> QED
    BY <1>2, <2>1, <2>2, <2>3
<1>6. CASE PrimeVtx(t)
  <2>1. call[t] \in Records /\ call[t].at = "prime"
    BY <1>6, <1>a DEF PrimeVtx
  <2>2. (t \in Arming)' => t \in Arming
    <3>1. CASE call' = [call EXCEPT ![t] = Idle]
      BY <1>a, <1>b, <3>1
    <3>2. CASE call' = [call EXCEPT ![t].at = "acquire", ![t].primed = TRUE]
      <4>1. [call[t] EXCEPT !.at = "acquire", !.primed = TRUE].cmd = call[t].cmd
        BY <2>1 DEF Records
      <4>2. call' = [call EXCEPT ![t] = [call[t] EXCEPT !.at = "acquire", !.primed = TRUE]]
        BY <1>a, <3>2
      <4>3. call'[t].cmd = call[t].cmd
        BY <1>a, <4>1, <4>2
      <4> QED
        BY <1>b, <2>1, <4>3 DEF Arming
    <3> QED
      BY <1>6, <3>1, <3>2 DEF PrimeVtx
  <2>3. /\ armings' = armings /\ posted' = posted /\ late' = late
        /\ asked' = asked
    BY <1>6 DEF PrimeVtx
  <2> QED
    BY <1>b, <2>2, <2>3 DEF Spent
<1>7. CASE Finish(t)
  <2>1. PICK next \in {Idle, AfterRefusal(t)} : call'[t] = next
    BY <1>7, <1>a DEF Finish
  <2>2. next = Idle \/ next.cmd = "force"
    BY <2>1 DEF AfterRefusal, Stage
  <2>3. Held(t)' = 0
    BY <1>a, <1>b, <2>1, <2>2
  <2> QED
    BY <1>7, <1>b, <2>3 DEF Finish, history, Spent
<1>8. CASE TimeOut(t)
  <2>1. CASE call[t].at = "unanswered" /\ UNCHANGED late
    BY <1>0, <1>2, <1>8, <2>1 DEF TimeOut, history
  <2>2. CASE Waiting(t) /\ late' = [late EXCEPT ![call[t].cmd] = @ + 1]
    <3>1. call[t] \in Records /\ call[t].at = "wait"
      BY <2>2, <1>a DEF Waiting
    <3>2. Goto(t, "refused") /\ armings' = armings /\ posted' = posted /\ asked' = asked
      BY <1>8 DEF TimeOut, history
    <3>3. Held(t)' = 0
      BY <1>0, <1>b, <3>1, <3>2, GotoHolds
    <3>4. late \in [Commands -> Nat] /\ call[t].cmd \in Commands
      BY <3>1, TypeParts DEF LockType, Records
    <3>5. CASE call[t].cmd = "arm"
      <4>1. Held(t) = 1
        BY <3>1, <3>5 DEF Held, Arming
      <4>2. late'["arm"] = late["arm"] + 1
        BY <2>2, <3>4, <3>5
      <4> QED
        BY <3>2, <3>3, <4>1, <4>2 DEF Spent
    <3>6. CASE call[t].cmd # "arm"
      <4>1. late'["arm"] = late["arm"]
        BY <2>2, <3>4, <3>6
      <4> QED
        BY <1>b, <3>2, <3>3, <4>1 DEF Spent
    <3> QED
      BY <3>5, <3>6
  <2> QED
    BY <1>8, <2>1, <2>2 DEF TimeOut
<1> QED
  BY <1>1, <1>3, <1>4, <1>5, <1>6, <1>7, <1>8 DEF ThreadSteps, Step

(* What the rest adds was asked for.                                       *)
LEMMA OthersSpend ==
  ASSUME TypeOK, [Next]_vars, ~ \E t \in Threads : ThreadSteps(t)
  PROVE  Spent' + asked <= Spent + asked'
<1> USE ArmNames, CountTypes
<1>a. posted \in [Requests -> Nat] /\ late \in [Commands -> Nat]
  BY TypeParts DEF PostedType, LockType
<1>1. CASE UNCHANGED vars
  BY <1>1 DEF vars, history, Spent
<1>2. CASE \/ StateReport \/ RcReport \/ LinkChange \/ AutoDisarm \/ HoldExpires
           \/ BridgeRestart
  BY <1>2 DEF StateReport, RcReport, LinkChange, AutoDisarm, HoldExpires,
     BridgeRestart, history, Spent
<1>3. ASSUME NEW cmd \in Commands, ExecuteLate(cmd)
      PROVE  Spent' + asked <= Spent + asked'
  <2>1. armings' = armings \/ (cmd = "arm" /\ armings' = armings + 1)
    BY <1>3, CarryArms DEF ExecuteLate
  <2>2. late'["arm"] = IF cmd = "arm" THEN late["arm"] - 1 ELSE late["arm"]
    BY <1>3, <1>a DEF ExecuteLate
  <2> QED
    BY <1>3, <2>1, <2>2 DEF ExecuteLate, Spent
<1>4. ASSUME NEW cmd \in Commands, LoseLate(cmd)
      PROVE  Spent' + asked <= Spent + asked'
  <2>1. late'["arm"] \in {late["arm"], late["arm"] - 1}
    BY <1>4, <1>a DEF LoseLate
  <2> QED
    BY <1>4, <2>1 DEF LoseLate, history, Spent
<1>5. ASSUME NEW ch5 \in {"up", "down"}, NEW ch6 \in {"up", "down"},
             NEW mode \in RadioModes, Frame(ch5, ch6, mode)
      PROVE  Spent' + asked <= Spent + asked'
  <2>1. mode \in Modes
    BY ConstantsOK
  <2>2. "arm" \notin Edges(ch5, ch6, mode)
    BY <2>1 DEF Edges
  <2>3. "control_arm" \in Edges(ch5, ch6, mode) => switches.ch5 = "down" /\ ch5 = "up"
    <3>1. switches.ch5 \in {"unknown", "up", "down"}
      BY TypeParts DEF SwitchesType
    <3> QED
      BY <2>1, <3>1 DEF Edges
  <2>4. posted'["arm"] = posted["arm"]
    BY <1>5, <2>2 DEF Frame
  <2>5. posted'["control_arm"] = IF "control_arm" \in Edges(ch5, ch6, mode)
                                 THEN posted["control_arm"] + 1
                                 ELSE posted["control_arm"]
    BY <1>5 DEF Frame
  <2>6. asked' = IF switches.ch5 = "down" /\ ch5 = "up" THEN asked + 1 ELSE asked
    BY <1>5 DEF Frame
  <2>7. late' = late /\ armings' = armings
    BY <1>5 DEF Frame
  <2> QED
    BY <2>3, <2>4, <2>5, <2>6, <2>7 DEF Spent
<1>6. ASSUME NEW r \in WebRequests, WebRequest(r)
      PROVE  Spent' + asked <= Spent + asked'
  <2>1. /\ posted' = [posted EXCEPT ![r] = @ + 1]
        /\ asked' = IF r \in {"arm", "control_arm"} THEN asked + 1 ELSE asked
        /\ late' = late /\ armings' = armings
    BY <1>6 DEF WebRequest
  <2>2. CASE r = "arm"
    BY <1>a, <2>1, <2>2 DEF Spent
  <2>3. CASE r = "control_arm"
    BY <1>a, <2>1, <2>3 DEF Spent
  <2>4. CASE r \notin {"arm", "control_arm"}
    BY <1>a, <2>1, <2>4 DEF Spent
  <2> QED
    BY <2>2, <2>3, <2>4
<1>7. ASSUME NEW r \in Requests, LoseRequest(r)
      PROVE  Spent' + asked <= Spent + asked'
  <2>1. /\ posted'["arm"] \in {posted["arm"], posted["arm"] - 1}
        /\ posted'["control_arm"] \in {posted["control_arm"], posted["control_arm"] - 1}
    BY <1>7, <1>a DEF LoseRequest
  <2> QED
    BY <1>7, <2>1 DEF LoseRequest, history, Spent
<1> QED
  BY <1>1, <1>2, <1>3, <1>4, <1>5, <1>6, <1>7 DEF Next, ThreadSteps

(* No request arms twice, however it is delayed, given up, answered late   *)
(* or lost on the way.                                                     *)
THEOREM NoSecondArming == Spec => []OneArmingPerRequest
<1>1. ASSUME Init
      PROVE  BudgetInv
  <2>1. Arming = {}
    BY <1>1 DEF Init, Arming, Idle
  <2>2. Spent = 0 /\ asked = 0
    <3>1. /\ posted = [r \in Requests |-> 0] /\ late = [c \in Commands |-> 0]
          /\ armings = 0 /\ asked = 0
      BY <1>1 DEF Init
    <3> QED
      BY <3>1, ArmNames DEF Spent
  <2>3. Cardinality(Arming) = 0
    BY <2>1, FS_EmptySet, Zenon
  <2> QED
    BY <2>2, <2>3 DEF BudgetInv
<1>2. ASSUME TypeOK, TypeOK', BudgetInv, [Next]_vars
      PROVE  BudgetInv'
  <2>0. /\ Spent \in Nat /\ Spent' \in Nat /\ asked \in Nat /\ asked' \in Nat
    <3>1. Spent' \in Nat /\ asked' \in Nat
      <4>1. /\ posted' \in [Requests -> Nat] /\ late' \in [Commands -> Nat]
            /\ armings' \in Nat /\ asked' \in Nat
        BY <1>2 DEF TypeOK
      <4> QED
        BY <4>1, ArmNames DEF Spent
    <3> QED
      BY <1>2, <3>1, CountTypes
  <2>1. ASSUME NEW t \in Threads, ThreadSteps(t)
        PROVE  BudgetInv'
    <3>1. Moved(t)
      BY <1>2, <2>1, ThreadMoves
    <3>2. Cardinality(Arming') + Held(t) = Cardinality(Arming) + Held(t)'
      BY <3>1, ArmingMoves DEF Moved
    <3>3. asked' = asked /\ Spent' + Held(t)' <= Spent + Held(t)
      BY <1>2, <2>1, ThreadSpends
    <3>4. Held(t) \in {0, 1} /\ Held(t)' \in {0, 1}
      BY DEF Held
    <3> QED
      BY <1>2, <2>0, <3>2, <3>3, <3>4, ArmingFinite DEF BudgetInv
  <2>2. CASE ~ \E t \in Threads : ThreadSteps(t)
    <3>1. call' = call
      BY <1>2, <2>2, OthersMove
    <3>2. Arming' = Arming
      BY <3>1 DEF Arming
    <3>3. Spent' + asked <= Spent + asked'
      BY <1>2, <2>2, OthersSpend
    <3>4. Cardinality(Arming') = Cardinality(Arming)
      BY <3>2, Zenon
    <3>5. Spent' + Cardinality(Arming) <= asked'
      <4>1. Spent + Cardinality(Arming) <= asked
        BY <1>2 DEF BudgetInv
      <4>2. Cardinality(Arming) \in Nat
        BY ArmingFinite
      <4> QED
        BY <2>0, <3>3, <4>1, <4>2, WithinBudget
    <3>6. Spent' + Cardinality(Arming') <= asked'
      BY <3>4, <3>5
    <3> QED
      BY <3>6 DEF BudgetInv
  <2> QED
    BY <2>1, <2>2
<1>3. TypeOK /\ BudgetInv => OneArmingPerRequest
  BY CountTypes, ArmingFinite DEF BudgetInv, OneArmingPerRequest, Spent
<1> QED
  BY <1>1, <1>2, <1>3, TypeCorrect, PTL DEF Spec
================================================================================

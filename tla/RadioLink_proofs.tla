---------------------------- MODULE RadioLink_proofs ----------------------------
(***************************************************************************)
(* Proofs about RadioLink, for any connections, any timings and any number *)
(* of faults.                                                              *)
(***************************************************************************)
EXTENDS RadioLink, TLAPS

(* The parts of TypeOK.                                                    *)
RadioType == radio \in BOOLEAN
ServiceType == chan \in Frames /\ bcast \in 0..Period /\ clients \subseteq Conns
ReaderType ==
  reader \in {Idle} \cup [at : {"send", "close"}, msg : Broadcasts,
                       todo : SUBSET Conns, dead : SUBSET Conns]
HandlerType ==
  handler \in [Conns -> [at : {"none", "add", "snap", "serve"}]
                       \cup [at : {"send"}, msg : Snapshots]]
WireType == wire \in [Conns -> Seq(Messages)]
OpenType == open \in [Conns -> SUBSET Ends]
WsType ==
  ws \in [at : {"sleep"}, conn : {NoConn}, left : Nat, backoff : 0..MaxBackoff]
       \cup [at : {"recv"}, conn : Conns, left : Nat, backoff : 0..MaxBackoff]
SeenType == seen \in Frames /\ heard \in 0..LinkLoss + 1
SenderType == sender \in 0..PostTimeout
PostedType ==
  posted \subseteq [slot : 1..MaxPosted, age : 0..CommandTimeout + 1,
                  awaited : BOOLEAN, fresh : BOOLEAN, via : Ways]
VtxType ==
  vtx \in [phase : {"ready", "following", "failsafe"},
          newest : 0..CommandTimeout + 1, held : 0..Hold + 1]
CountType == faults \in 0..MaxFaults
SilenceType == silence \in 0..Longest + 1

LEMMA TypeParts ==
  /\ TypeOK <=> /\ RadioType /\ ServiceType /\ ReaderType /\ HandlerType
                /\ WireType /\ OpenType /\ WsType /\ SeenType
                /\ SenderType /\ PostedType /\ VtxType /\ CountType
                /\ SilenceType
  /\ /\ RadioType' /\ ServiceType' /\ ReaderType' /\ HandlerType'
     /\ WireType' /\ OpenType' /\ WsType' /\ SeenType'
     /\ SenderType' /\ PostedType' /\ VtxType' /\ CountType'
     /\ SilenceType'
     => TypeOK'
<1>1. TypeOK <=> /\ RadioType /\ ServiceType /\ ReaderType /\ HandlerType
                 /\ WireType /\ OpenType /\ WsType /\ SeenType
                 /\ SenderType /\ PostedType /\ VtxType /\ CountType
                 /\ SilenceType
  BY DEF TypeOK, RadioType, ServiceType, ReaderType, HandlerType,
     WireType, OpenType, WsType, SeenType, SenderType, PostedType,
     VtxType, CountType, SilenceType
<1>2. /\ RadioType' /\ ServiceType' /\ ReaderType' /\ HandlerType'
      /\ WireType' /\ OpenType' /\ WsType' /\ SeenType'
      /\ SenderType' /\ PostedType' /\ VtxType' /\ CountType'
      /\ SilenceType'
      => TypeOK'
  BY DEF TypeOK, RadioType, ServiceType, ReaderType, HandlerType,
     WireType, OpenType, WsType, SeenType, SenderType, PostedType,
     VtxType, CountType, SilenceType
<1> QED
  BY <1>1, <1>2, Zenon

(* A variable that does not change keeps its type.                         *)
LEMMA Kept ==
  ASSUME TypeOK
  PROVE  /\ radio' = radio => RadioType'
         /\ chan' = chan /\ bcast' = bcast /\ clients' = clients => ServiceType'
         /\ reader' = reader => ReaderType'
         /\ handler' = handler => HandlerType'
         /\ wire' = wire => WireType'
         /\ open' = open => OpenType'
         /\ ws' = ws => WsType'
         /\ seen' = seen /\ heard' = heard => SeenType'
         /\ sender' = sender => SenderType'
         /\ posted' = posted => PostedType'
         /\ vtx' = vtx => VtxType'
         /\ faults' = faults => CountType'
         /\ silence' = silence => SilenceType'
BY TypeParts DEF RadioType, ServiceType, ReaderType, HandlerType, WireType,
   OpenType, WsType, SeenType, SenderType, PostedType, VtxType, CountType,
   SilenceType

(* Every step keeps every type.                                            *)
LEMMA TypeStep ==
  ASSUME TypeOK, [Next]_vars
  PROVE  TypeOK'
<1>0. /\ RadioType /\ ServiceType /\ ReaderType /\ HandlerType
      /\ WireType /\ OpenType /\ WsType /\ SeenType
      /\ SenderType /\ PostedType /\ VtxType /\ CountType
      /\ SilenceType
  BY TypeParts
<1>1. ASSUME NEW armed \in Switches, RcFrame(armed)
      PROVE  TypeOK'
  <2>1. ServiceType'
    BY <1>0, <1>1, ConstantsOK DEF ServiceType, SinceBroadcast, Frames,
       Ways, RcFrame
  <2>2. ReaderType'
    BY <1>0, <1>1, ConstantsOK DEF ReaderType, ServiceType, Sending,
       Broadcasts, Idle, RcFrame
  <2> QED
    BY <1>1, <2>1, <2>2, Kept, TypeParts DEF RcFrame, service,
       translator
<1>2. ASSUME NEW c \in Conns, SendTo(c)
      PROVE  TypeOK'
  <2>1. WireType'
    BY <1>0, <1>2, ConstantsOK DEF WireType, ReaderType, Messages, Idle,
       SendTo
  <2>2. ReaderType'
    BY <1>0, <1>2, ConstantsOK DEF ReaderType, Sending, Idle, SendTo
  <2> QED
    BY <1>2, <2>1, <2>2, Kept, TypeParts DEF SendTo, service, translator
<1>3. ASSUME NEW c \in Conns, SendFails(c)
      PROVE  TypeOK'
  <2>1. ReaderType'
    BY <1>0, <1>3, ConstantsOK DEF ReaderType, Sending, Idle, SendFails
  <2>2. CountType'
    BY <1>0, <1>3, ConstantsOK DEF CountType, SendFails
  <2> QED
    BY <1>3, <2>1, <2>2, Kept, TypeParts DEF SendFails, service,
       translator
<1>4. ASSUME NEW c \in Conns, DropDead(c)
      PROVE  TypeOK'
  <2>1. ServiceType'
    BY <1>0, <1>4, ConstantsOK DEF ServiceType, DropDead
  <2>2. ReaderType'
    <3>1. reader \in [at : {"send", "close"}, msg : Broadcasts,
                    todo : SUBSET Conns, dead : SUBSET Conns]
      BY <1>0, <1>4 DEF ReaderType, Idle, DropDead
    <3>2. reader' = [at |-> "close", msg |-> reader.msg, todo |-> {c},
                     dead |-> reader.dead]
      BY <1>4, <3>1 DEF DropDead
    <3> QED
      BY <3>1, <3>2 DEF ReaderType
  <2> QED
    BY <1>4, <2>1, <2>2, Kept, TypeParts DEF DropDead, service,
       translator
<1>5. ASSUME NEW c \in Conns, CloseDead(c)
      PROVE  TypeOK'
  <2>1. OpenType'
    BY <1>0, <1>5, ConstantsOK DEF OpenType, ClosedBy, CloseDead
  <2>2. ReaderType'
    BY <1>0, <1>5, ConstantsOK DEF ReaderType, Sending, Idle, CloseDead
  <2> QED
    BY <1>5, <2>1, <2>2, Kept, TypeParts DEF CloseDead, service,
       translator
<1>6. ASSUME NEW c \in Conns, Register(c)
      PROVE  TypeOK'
  <2>1. ServiceType'
    BY <1>0, <1>6, ConstantsOK DEF ServiceType, Register
  <2>2. HandlerType'
    BY <1>0, <1>6, ConstantsOK DEF HandlerType, Register
  <2> QED
    BY <1>6, <2>1, <2>2, Kept, TypeParts DEF Register, service,
       translator
<1>7. ASSUME NEW c \in Conns, Snapshot(c)
      PROVE  TypeOK'
  <2>1. HandlerType'
    BY <1>0, <1>7, ConstantsOK DEF HandlerType, ServiceType, Snapshots,
       Frames, Snapshot
  <2> QED
    BY <1>7, <2>1, Kept, TypeParts DEF Snapshot, service, translator
<1>8. ASSUME NEW c \in Conns, SendSnapshot(c)
      PROVE  TypeOK'
  <2>1. HandlerType'
    BY <1>0, <1>8, ConstantsOK DEF HandlerType, SendSnapshot
  <2>2. WireType'
    <3>1. handler[c].msg \in Messages
      BY <1>0, <1>8 DEF HandlerType, Messages, SendSnapshot
    <3> QED
      BY <1>0, <1>8, <3>1 DEF WireType, SendSnapshot
  <2> QED
    BY <1>8, <2>1, <2>2, Kept, TypeParts DEF SendSnapshot, service,
       translator
<1>9. ASSUME NEW c \in Conns, Leave(c)
      PROVE  TypeOK'
  <2>1. ServiceType'
    BY <1>0, <1>9, ConstantsOK DEF ServiceType, Leave
  <2>2. OpenType'
    BY <1>0, <1>9, ConstantsOK DEF OpenType, Ends, Leave
  <2>3. HandlerType'
    BY <1>0, <1>9, ConstantsOK DEF HandlerType, NoHandler, Leave
  <2> QED
    BY <1>9, <2>1, <2>2, <2>3, Kept, TypeParts DEF Leave, service,
       translator
<1>10. ASSUME NEW c \in Conns, Connect(c)
      PROVE  TypeOK'
  <2>1. WsType'
    BY <1>0, <1>10, ConstantsOK DEF WsType, Connect
  <2>2. OpenType'
    BY <1>0, <1>10, ConstantsOK DEF OpenType, Connect
  <2>3. HandlerType'
    BY <1>0, <1>10, ConstantsOK DEF HandlerType, Connect
  <2> QED
    BY <1>10, <2>1, <2>2, <2>3, Kept, TypeParts DEF Connect, service,
       translator
<1>11. ASSUME ConnectFails
      PROVE  TypeOK'
  <2>1. WsType'
    BY <1>0, <1>11, ConstantsOK DEF WsType, Asleep, ConnectFails
  <2>2. CountType'
    BY <1>0, <1>11, ConstantsOK DEF CountType, ConnectFails
  <2> QED
    BY <1>11, <2>1, <2>2, Kept, TypeParts DEF ConnectFails, service,
       translator
<1>12. ASSUME Receive
      PROVE  TypeOK'
  <2>1. SeenType'
    <3>1. ws.conn \in Conns
      BY <1>0, <1>12 DEF WsType, Receive
    <3>2. seen' \in Messages
      BY <1>0, <1>12, <3>1 DEF WireType, Receive
    <3>3. Messages \subseteq Frames
      BY ConstantsOK DEF Messages, Broadcasts, Snapshots, Frames, Ways
    <3> QED
      BY <1>12, <3>2, <3>3, ConstantsOK DEF SeenType, Receive
  <2>2. SilenceType'
    BY <1>0, <1>12, ConstantsOK DEF SilenceType, Longest, Receive
  <2>3. WireType'
    BY <1>0, <1>12, ConstantsOK DEF WireType, WsType, Receive
  <2>4. WsType'
    BY <1>0, <1>12, ConstantsOK DEF WsType, Receive
  <2> QED
    BY <1>12, <2>1, <2>2, <2>3, <2>4, Kept, TypeParts DEF Receive,
       service, translator
<1>13. ASSUME HangUp
      PROVE  TypeOK'
  <2>1. OpenType'
    BY <1>0, <1>13, ConstantsOK DEF OpenType, WsType, HangUp
  <2>2. WsType'
    BY <1>0, <1>13, ConstantsOK DEF WsType, Asleep, HangUp
  <2> QED
    BY <1>13, <2>1, <2>2, Kept, TypeParts DEF HangUp, service,
       translator
<1>14. ASSUME SendCommand
      PROVE  TypeOK'
  <2>1. PostedType'
    <3>1. PICK slot \in 1..MaxPosted :
            posted' = posted \cup {[slot |-> slot, age |-> 0, awaited |-> TRUE,
                                   fresh |-> seen.age <= LinkLoss, via |-> seen.via]}
      BY <1>14 DEF SendCommand
    <3>2. seen.via \in Ways /\ (seen.age <= LinkLoss) \in BOOLEAN
      BY <1>0 DEF SeenType, Frames
    <3>3. 0 \in 0..CommandTimeout + 1
      BY ConstantsOK
    <3>4. [slot |-> slot, age |-> 0, awaited |-> TRUE,
           fresh |-> seen.age <= LinkLoss, via |-> seen.via]
            \in [slot : 1..MaxPosted, age : 0..CommandTimeout + 1,
                awaited : BOOLEAN, fresh : BOOLEAN, via : Ways]
      BY <3>2, <3>3
    <3> QED
      BY <1>0, <3>1, <3>4, Zenon DEF PostedType
  <2>2. SenderType'
    BY <1>0, <1>14, ConstantsOK DEF SenderType, SendCommand
  <2> QED
    BY <1>14, <2>1, <2>2, Kept, TypeParts DEF SendCommand, service,
       translator
<1>15. ASSUME PostTimesOut
      PROVE  TypeOK'
  <2>1. PostedType'
    BY <1>0, <1>15, ConstantsOK DEF PostedType, PostTimesOut
  <2> QED
    BY <1>15, <2>1, Kept, TypeParts DEF PostTimesOut, service,
       translator
<1>16. ASSUME NEW p \in posted, PostLost(p)
      PROVE  TypeOK'
  <2>1. PostedType'
    BY <1>0, <1>16, ConstantsOK DEF PostedType, PostLost
  <2>2. SenderType'
    BY <1>0, <1>16, ConstantsOK DEF SenderType, Answer, PostLost
  <2> QED
    BY <1>16, <2>1, <2>2, Kept, TypeParts DEF PostLost, service,
       translator
<1>17. ASSUME NEW p \in posted, SetInput(p)
      PROVE  TypeOK'
  <2>1. PostedType'
    BY <1>0, <1>17, ConstantsOK DEF PostedType, SetInput
  <2>2. SenderType'
    BY <1>0, <1>17, ConstantsOK DEF SenderType, Answer, SetInput
  <2>3. VtxType'
    BY <1>0, <1>17, ConstantsOK DEF VtxType, PostedType, SetInput
  <2> QED
    BY <1>17, <2>1, <2>2, <2>3, Kept, TypeParts DEF SetInput, service,
       translator
<1>18. ASSUME Expire
      PROVE  TypeOK'
  <2>1. VtxType'
    <3>1. vtx' = [phase |-> "failsafe", newest |-> vtx.newest, held |-> 0]
      BY <1>0, <1>18 DEF VtxType, Expire
    <3> QED
      BY <1>0, <3>1, ConstantsOK DEF VtxType
  <2> QED
    BY <1>18, <2>1, Kept, TypeParts DEF Expire, service, translator
<1>19. ASSUME RadioLost
      PROVE  TypeOK'
  <2>1. RadioType'
    BY <1>0, <1>19, ConstantsOK DEF RadioType, RadioLost
  <2> QED
    BY <1>19, <2>1, Kept, TypeParts DEF RadioLost, service, translator
<1>20. ASSUME RadioBack
      PROVE  TypeOK'
  <2>1. RadioType'
    BY <1>0, <1>20, ConstantsOK DEF RadioType, RadioBack
  <2> QED
    BY <1>20, <2>1, Kept, TypeParts DEF RadioBack, service, translator
<1>21. ASSUME NEW c \in Conns, Break(c)
      PROVE  TypeOK'
  <2>1. OpenType'
    BY <1>0, <1>21, ConstantsOK DEF OpenType, Break
  <2>2. CountType'
    BY <1>0, <1>21, ConstantsOK DEF CountType, Fault, Break
  <2> QED
    BY <1>21, <2>1, <2>2, Kept, TypeParts DEF Break, service, translator
<1>22. ASSUME ServiceRestart
      PROVE  TypeOK'
  <2>1. ServiceType'
    BY <1>0, <1>22, ConstantsOK DEF ServiceType, NoFrame, Frames, Ways,
       ServiceRestart
  <2>2. ReaderType'
    BY <1>0, <1>22, ConstantsOK DEF ReaderType, ServiceRestart
  <2>3. HandlerType'
    BY <1>0, <1>22, ConstantsOK DEF HandlerType, NoHandler,
       ServiceRestart
  <2>4. OpenType'
    BY <1>0, <1>22, ConstantsOK DEF OpenType, ServiceRestart
  <2>5. CountType'
    BY <1>0, <1>22, ConstantsOK DEF CountType, Fault, ServiceRestart
  <2> QED
    BY <1>22, <2>1, <2>2, <2>3, <2>4, <2>5, Kept, TypeParts DEF
       ServiceRestart, service, translator
<1>23. ASSUME BridgeRestart
      PROVE  TypeOK'
  <2>1. WsType'
    BY <1>0, <1>23, ConstantsOK DEF WsType, BridgeRestart
  <2>2. SeenType'
    BY <1>0, <1>23, ConstantsOK DEF SeenType, NoFrame, Frames, Ways,
       BridgeRestart
  <2>3. SenderType'
    BY <1>0, <1>23, ConstantsOK DEF SenderType, BridgeRestart
  <2>4. PostedType'
    BY <1>0, <1>23, ConstantsOK DEF PostedType, BridgeRestart
  <2>5. OpenType'
    BY <1>0, <1>23, ConstantsOK DEF OpenType, BridgeRestart
  <2>6. WireType'
    BY <1>0, <1>23, ConstantsOK DEF WireType, BridgeRestart
  <2>7. CountType'
    BY <1>0, <1>23, ConstantsOK DEF CountType, Fault, BridgeRestart
  <2> QED
    BY <1>23, <2>1, <2>2, <2>3, <2>4, <2>5, <2>6, <2>7, Kept, TypeParts
       DEF BridgeRestart, service, translator
<1>24. ASSUME Tick
      PROVE  TypeOK'
  <2>1. ServiceType'
    BY <1>0, <1>24, ConstantsOK DEF ServiceType, OlderFrame, Older,
       Frames, Tick
  <2>2. WsType'
    BY <1>0, <1>24, ConstantsOK DEF WsType, Less, Tick
  <2>3. SeenType'
    BY <1>0, <1>24, ConstantsOK DEF SeenType, OlderFrame, Older, Frames,
       Tick
  <2>4. SenderType'
    BY <1>0, <1>24, ConstantsOK DEF SenderType, Less, Tick
  <2>5. PostedType'
    BY <1>0, <1>24, ConstantsOK DEF PostedType, Older, Tick
  <2>6. VtxType'
    <3>1. vtx' = [phase |-> vtx.phase, newest |-> Older(vtx.newest, CommandTimeout),
                  held |-> IF vtx.phase = "following" THEN vtx.held + 1 ELSE vtx.held]
      BY <1>0, <1>24 DEF VtxType, Tick
    <3>2. vtx.phase = "following" => vtx.held <= Hold
      BY <1>0, <1>24, ConstantsOK DEF VtxType, Tick, Settled, HoldOver
    <3>3. Older(vtx.newest, CommandTimeout) \in 0..CommandTimeout + 1
      BY <1>0, ConstantsOK DEF VtxType, Older
    <3>4. (IF vtx.phase = "following" THEN vtx.held + 1 ELSE vtx.held) \in 0..Hold + 1
      BY <1>0, <3>2, ConstantsOK DEF VtxType
    <3> QED
      BY <1>0, <3>1, <3>3, <3>4 DEF VtxType
  <2>7. SilenceType'
    BY <1>0, <1>24, ConstantsOK DEF SilenceType, Older, Longest, Tick
  <2> QED
    BY <1>24, <2>1, <2>2, <2>3, <2>4, <2>5, <2>6, <2>7, Kept, TypeParts
       DEF Tick, service, translator
<1>25. CASE UNCHANGED vars
  BY <1>25, Kept, TypeParts DEF vars, service, translator
<1> QED
  BY <1>1, <1>2, <1>3, <1>4, <1>5, <1>6, <1>7, <1>8, <1>9, <1>10, <1>11,
     <1>12, <1>13, <1>14, <1>15, <1>16, <1>17, <1>18, <1>19, <1>20, <1>21,
     <1>22, <1>23, <1>24, <1>25 DEF Next, ReaderStep, HandlerStep,
     TranslatorStep

(* Every variable keeps its type.                                          *)
THEOREM TypeCorrect == Spec => []TypeOK
<1>1. Init => TypeOK
  <2>0. SUFFICES ASSUME Init
                 PROVE  TypeOK
    OBVIOUS
  <2>1. RadioType /\ WireType /\ OpenType /\ PostedType
    BY <2>0 DEF Init, RadioType, WireType, OpenType, PostedType
  <2>2. ServiceType /\ SeenType
    BY <2>0, ConstantsOK DEF Init, ServiceType, SeenType, NoFrame, Frames, Ways
  <2>3. ReaderType
    BY <2>0 DEF Init, ReaderType
  <2>4. HandlerType
    BY <2>0 DEF Init, HandlerType, NoHandler
  <2>5. WsType
    <3>1. ws = [at |-> "sleep", conn |-> NoConn, left |-> 0, backoff |-> Reconnect]
      BY <2>0 DEF Init
    <3> QED
      BY <3>1, ConstantsOK DEF WsType
  <2>6. SenderType /\ CountType /\ SilenceType
    <3>1. sender = 0 /\ faults = 0 /\ silence = Longest + 1
      BY <2>0 DEF Init
    <3> QED
      BY <3>1, ConstantsOK DEF SenderType, CountType, SilenceType, Longest
  <2>7. VtxType
    BY <2>0, ConstantsOK DEF Init, VtxType
  <2> QED
    BY <2>1, <2>2, <2>3, <2>4, <2>5, <2>6, <2>7, TypeParts
<1> QED
  BY <1>1, TypeStep, PTL DEF Spec

-----------------------------------------------------------------------------
(* How recent sticks are *)

(* The steps that change what the translator heard, what it sent or what   *)
(* the transmitter follows.                                                *)
LEMMA StickSteps ==
  ASSUME [Next]_vars
  PROVE  \/ UNCHANGED << seen, heard, posted, vtx, silence >>
         \/ Receive \/ SendCommand \/ PostTimesOut \/ Expire \/ BridgeRestart \/ Tick
         \/ \E p \in posted : PostLost(p) \/ SetInput(p)
<1>1. CASE ReaderStep
  BY <1>1 DEF ReaderStep, RcFrame, SendTo, SendFails, DropDead, CloseDead, translator
<1>2. CASE \E c \in Conns : HandlerStep(c)
  BY <1>2 DEF HandlerStep, Register, Snapshot, SendSnapshot, Leave, translator
<1>3. CASE TranslatorStep
  BY <1>3 DEF TranslatorStep, Connect, ConnectFails, HangUp
<1>4. CASE RadioLost \/ RadioBack \/ (\E c \in Conns : Break(c)) \/ ServiceRestart
  BY <1>4 DEF RadioLost, RadioBack, Break, ServiceRestart, translator
<1>5. CASE UNCHANGED vars
  BY <1>5 DEF vars, translator
<1> QED
  BY <1>1, <1>2, <1>3, <1>4, <1>5 DEF Next

(* Why no broadcast outlives the guard: its age is the age of the message, *)
(* for it was fresh when it was heard.                                     *)
GuardInv ==
  /\ seen.via = "broadcast" => seen.age = heard
  /\ seen.via = "none" => heard > LinkLoss
  /\ StaleOnlyFromSnapshot

LEMMA GuardStep ==
  ASSUME TypeOK, GuardInv, [Next]_vars
  PROVE  GuardInv'
<1>0. /\ seen \in Frames /\ heard \in 0..LinkLoss + 1
      /\ wire \in [Conns -> Seq(Messages)] /\ LinkLoss \in Nat
      /\ posted \subseteq [slot : 1..MaxPosted, age : 0..CommandTimeout + 1,
                           awaited : BOOLEAN, fresh : BOOLEAN, via : Ways]
  BY ConstantsOK DEF TypeOK
<1>1. CASE UNCHANGED << seen, heard, posted, vtx, silence >>
  BY <1>1 DEF GuardInv, StaleOnlyFromSnapshot
<1>2. CASE Receive
  <2>1. ws.conn \in Conns
    BY <1>2 DEF Receive, TypeOK
  <2>2. seen' \in Messages
    BY <1>0, <1>2, <2>1 DEF Receive
  <2>3. (seen.via)' \in {"broadcast", "snapshot"}
    BY <2>2 DEF Messages, Broadcasts, Snapshots
  <2>4. (seen.via = "broadcast" => seen.age = 0)'
    BY <2>2 DEF Messages, Broadcasts, Snapshots
  <2> QED
    BY <1>2, <2>3, <2>4 DEF GuardInv, StaleOnlyFromSnapshot, Receive
<1>3. CASE SendCommand
  <2>1. ~ (seen.age <= LinkLoss) => seen.via = "snapshot"
    BY <1>0, <1>3 DEF GuardInv, SendCommand, LinkAlive, Frames, Ways
  <2>2. PICK slot \in 1..MaxPosted :
          posted' = posted \cup {[slot |-> slot, age |-> 0, awaited |-> TRUE,
                                 fresh |-> seen.age <= LinkLoss, via |-> seen.via]}
    BY <1>3 DEF SendCommand
  <2>3. CASE seen.age <= LinkLoss
    <3>1. posted' = posted \cup {[slot |-> slot, age |-> 0, awaited |-> TRUE,
                                  fresh |-> TRUE, via |-> seen.via]}
      BY <2>2, <2>3, Zenon
    <3>2. \A p \in posted' : p \in posted \/ p.fresh
      BY <3>1
    <3> QED
      BY <1>3, <3>2 DEF GuardInv, StaleOnlyFromSnapshot, SendCommand
  <2>4. CASE seen.via = "snapshot"
    <3>1. \A p \in posted' : p \in posted \/ p.via = "snapshot"
      BY <2>2, <2>4
    <3> QED
      BY <1>3, <3>1 DEF GuardInv, StaleOnlyFromSnapshot, SendCommand
  <2> QED
    BY <2>1, <2>3, <2>4
<1>4. CASE PostTimesOut
  BY <1>0, <1>4 DEF GuardInv, StaleOnlyFromSnapshot, PostTimesOut, translator
<1>5. CASE Expire
  BY <1>5 DEF GuardInv, StaleOnlyFromSnapshot, Expire, translator
<1>6. CASE BridgeRestart
  <2>1. \A p \in posted' : \E q \in posted : p.fresh = q.fresh /\ p.via = q.via
    BY <1>0, <1>6 DEF BridgeRestart
  <2>2. StaleOnlyFromSnapshot'
    BY <2>1 DEF GuardInv, StaleOnlyFromSnapshot
  <2> QED
    BY <1>0, <1>6, <2>2 DEF GuardInv, BridgeRestart, NoFrame
<1>7. CASE Tick
  <2>1. /\ (seen.via)' = seen.via
        /\ (seen.age)' = Older(seen.age, LinkLoss)
        /\ heard' = Older(heard, LinkLoss)
    BY <1>0, <1>7 DEF Tick, OlderFrame, Frames
  <2>2. StaleOnlyFromSnapshot'
    BY <1>0, <1>7 DEF GuardInv, StaleOnlyFromSnapshot, Tick
  <2> QED
    BY <1>0, <2>1, <2>2 DEF GuardInv, Older, Frames
<1>8. CASE \E p \in posted : PostLost(p) \/ SetInput(p)
  BY <1>8 DEF GuardInv, StaleOnlyFromSnapshot, PostLost, SetInput
<1> QED
  BY StickSteps, <1>1, <1>2, <1>3, <1>4, <1>5, <1>6, <1>7, <1>8

(* The link-loss guard holds for every broadcast, for any timings.         *)
THEOREM GuardedBroadcasts == Spec => []StaleOnlyFromSnapshot
<1>1. Init => GuardInv
  BY ConstantsOK DEF Init, GuardInv, StaleOnlyFromSnapshot, NoFrame
<1>2. GuardInv => StaleOnlyFromSnapshot
  BY DEF GuardInv
<1> QED
  BY <1>1, <1>2, GuardStep, TypeCorrect, PTL DEF Spec

(* Why sticks are not followed for long: each stage hands on the age of    *)
(* the last message, and adds to it no more than its own limit.            *)
RecentInv ==
  /\ heard <= LinkLoss => silence <= heard
  /\ \A p \in posted : p.age <= CommandTimeout => silence <= LinkLoss + p.age
  /\ vtx.phase = "following" => silence <= LinkLoss + CommandTimeout + vtx.held

LEMMA RecentStep ==
  ASSUME TypeOK, RecentInv, [Next]_vars
  PROVE  RecentInv'
<1>0. /\ heard \in 0..LinkLoss + 1 /\ silence \in Nat
      /\ LinkLoss \in Nat /\ CommandTimeout \in Nat /\ Hold \in Nat
      /\ vtx \in [phase : {"ready", "following", "failsafe"},
                  newest : 0..CommandTimeout + 1, held : 0..Hold + 1]
      /\ posted \subseteq [slot : 1..MaxPosted, age : 0..CommandTimeout + 1,
                           awaited : BOOLEAN, fresh : BOOLEAN, via : Ways]
  BY ConstantsOK DEF TypeOK, Longest
<1>1. CASE UNCHANGED << seen, heard, posted, vtx, silence >>
  BY <1>1 DEF RecentInv
<1>2. CASE Receive
  BY <1>0, <1>2 DEF RecentInv, Receive
<1>3. CASE SendCommand
  <2>1. silence <= LinkLoss
    BY <1>0, <1>3 DEF RecentInv, SendCommand, LinkAlive
  <2>2. \A p \in posted' : p \in posted \/ p.age = 0
    BY <1>3 DEF SendCommand
  <2> QED
    BY <1>0, <1>3, <2>1, <2>2 DEF RecentInv, SendCommand
<1>4. CASE PostTimesOut
  <2>1. \A p \in posted' : \E q \in posted : p.age = q.age
    BY <1>0, <1>4 DEF PostTimesOut
  <2> QED
    BY <1>4, <2>1 DEF RecentInv, PostTimesOut, translator
<1>5. CASE Expire
  BY <1>0, <1>5 DEF RecentInv, Expire, translator
<1>6. CASE BridgeRestart
  <2>1. \A p \in posted' : \E q \in posted : p.age = q.age
    <3>1. \A q \in posted : [q EXCEPT !.awaited = FALSE].age = q.age
      BY <1>0
    <3>2. posted' = {[q EXCEPT !.awaited = FALSE] : q \in posted}
      BY <1>6 DEF BridgeRestart
    <3> QED
      BY <3>1, <3>2
  <2>2. heard' = LinkLoss + 1 /\ vtx' = vtx /\ silence' = silence
    BY <1>6 DEF BridgeRestart
  <2>3. \A p \in posted' : p.age <= CommandTimeout => silence <= LinkLoss + p.age
    BY <2>1 DEF RecentInv
  <2> QED
    BY <1>0, <2>2, <2>3 DEF RecentInv
<1>7. CASE Tick
  <2>1. silence' <= silence + 1 /\ silence' \in Nat
    BY <1>0, <1>7 DEF Tick, Older
  <2>2. (heard <= LinkLoss => silence <= heard)'
    BY <1>0, <1>7, <2>1 DEF RecentInv, Tick, Older
  <2>3. \A p \in posted' : p.age <= CommandTimeout => silence' <= LinkLoss + p.age
    <3>1. \A p \in posted' : \E q \in posted : p.age = Older(q.age, CommandTimeout)
      BY <1>0, <1>7 DEF Tick
    <3> QED
      BY <1>0, <2>1, <3>1 DEF RecentInv, Older
  <2>4. (vtx.phase = "following" => silence <= LinkLoss + CommandTimeout + vtx.held)'
    <3>1. /\ (vtx.phase)' = vtx.phase
          /\ vtx.phase = "following" => (vtx.held)' = vtx.held + 1
      BY <1>0, <1>7 DEF Tick
    <3> QED
      BY <1>0, <2>1, <3>1 DEF RecentInv
  <2> QED
    BY <2>2, <2>3, <2>4 DEF RecentInv
<1>8. CASE \E p \in posted : PostLost(p)
  BY <1>8 DEF RecentInv, PostLost
<1>9. CASE \E p \in posted : SetInput(p)
  <2>1. PICK p \in posted : SetInput(p)
    BY <1>9
  <2>2. CASE Accepts(p)
    <3>1. vtx' = [phase |-> "following", newest |-> p.age, held |-> 0]
      BY <2>1, <2>2 DEF SetInput
    <3>2. silence <= LinkLoss + CommandTimeout
      BY <1>0, <2>2 DEF RecentInv, Accepts
    <3> QED
      BY <1>0, <2>1, <3>1, <3>2 DEF RecentInv, SetInput
  <2>3. CASE ~ Accepts(p)
    BY <2>1, <2>3 DEF RecentInv, SetInput
  <2> QED
    BY <2>2, <2>3
<1> QED
  BY StickSteps, <1>1, <1>2, <1>3, <1>4, <1>5, <1>6, <1>7, <1>8, <1>9

(* However requests are delayed, repeated or given up, sticks are followed *)
(* no longer than LINK_LOSS_S, command_timeout and the hold together after *)
(* the translator last heard of the radio.                                 *)
THEOREM SticksExpire == Spec => []FollowsRecent
<1>1. Init => RecentInv
  BY ConstantsOK DEF Init, RecentInv, Longest
<1>2. TypeOK /\ RecentInv => FollowsRecent
  <2>1. TypeOK => vtx.held \in 0..Hold + 1 /\ silence \in Nat
    BY ConstantsOK DEF TypeOK, Longest
  <2> QED
    BY <2>1, ConstantsOK DEF RecentInv, FollowsRecent, Longest
<1> QED
  BY <1>1, <1>2, RecentStep, TypeCorrect, PTL DEF Spec

-----------------------------------------------------------------------------
(* Clients of the broker *)

(* A client the broker does not know of any more, with a thread that does  *)
(* not know it.                                                            *)
Forgotten(c) ==
  /\ handler[c].at \in {"snap", "send", "serve"}
  /\ open[c] = Ends
  /\ c \notin clients

(* Why nobody is forgotten: only the client being closed is off the list,  *)
(* and the reader closes it before it does anything else.                  *)
LimboInv ==
  /\ \A c \in Conns : Forgotten(c) => reader.at = "close" /\ c \in reader.todo
  /\ reader.at = "close" => \E c \in Conns : reader.todo = {c}

LEMMA LimboStep ==
  ASSUME TypeOK, LimboInv, [Next]_vars
  PROVE  LimboInv'
<1>0. /\ handler \in [Conns -> [at : {"none", "add", "snap", "serve"}]
                               \cup [at : {"send"}, msg : Snapshots]]
      /\ open \in [Conns -> SUBSET Ends]
      /\ reader \in {Idle} \cup [at : {"send", "close"}, msg : Broadcasts,
                                todo : SUBSET Conns, dead : SUBSET Conns]
  BY DEF TypeOK
<1>1. ASSUME NEW armed \in Switches, RcFrame(armed)
      PROVE  LimboInv'
  BY <1>0, <1>1 DEF LimboInv, Forgotten, RcFrame, Sending, Idle
<1>2. ASSUME NEW c \in Conns, SendTo(c) \/ SendFails(c)
      PROVE  LimboInv'
  BY <1>0, <1>2 DEF LimboInv, Forgotten, SendTo, SendFails, Sending, Idle
<1>3. ASSUME NEW c \in Conns, DropDead(c)
      PROVE  LimboInv'
  <2>1. /\ (reader.at)' = "close" /\ (reader.todo)' = {c}
        /\ \A d \in Conns : ~ Forgotten(d)
    BY <1>0, <1>3 DEF LimboInv, DropDead, Idle
  <2>2. \A d \in Conns \ {c} : ~ Forgotten(d)'
    BY <1>3, <2>1 DEF Forgotten, DropDead
  <2> QED
    BY <2>1, <2>2 DEF LimboInv
<1>4. ASSUME NEW c \in Conns, CloseDead(c)
      PROVE  LimboInv'
  <2>1. reader.todo = {c} /\ \A d \in Conns \ {c} : ~ Forgotten(d)
    BY <1>4 DEF LimboInv, CloseDead
  <2>2. \A d \in Conns : ~ Forgotten(d)'
    BY <1>0, <1>4, <2>1 DEF Forgotten, CloseDead, ClosedBy, Ends
  <2>3. (reader.at)' # "close"
    BY <1>4 DEF CloseDead, Sending, Idle
  <2> QED
    BY <2>2, <2>3 DEF LimboInv
<1>5. ASSUME NEW c \in Conns, Register(c)
      PROVE  LimboInv'
  <2>1. \A d \in Conns : Forgotten(d)' => Forgotten(d)
    BY <1>0, <1>5 DEF Forgotten, Register
  <2> QED
    BY <1>5, <2>1 DEF LimboInv, Register
<1>6. ASSUME NEW c \in Conns, Snapshot(c) \/ SendSnapshot(c)
      PROVE  LimboInv'
  <2>1. \A d \in Conns : Forgotten(d)' => Forgotten(d)
    BY <1>0, <1>6 DEF Forgotten, Snapshot, SendSnapshot
  <2> QED
    BY <1>6, <2>1 DEF LimboInv, Snapshot, SendSnapshot
<1>7. ASSUME NEW c \in Conns, Leave(c)
      PROVE  LimboInv'
  <2>1. \A d \in Conns : Forgotten(d)' => Forgotten(d)
    BY <1>0, <1>7 DEF Forgotten, Leave, NoHandler
  <2> QED
    BY <1>7, <2>1 DEF LimboInv, Leave
<1>8. CASE TranslatorStep
  <2>1. \A d \in Conns : Forgotten(d)' => Forgotten(d)
    <3>1. ASSUME NEW c \in Conns, Connect(c)
          PROVE  \A d \in Conns : Forgotten(d)' => Forgotten(d)
      BY <1>0, <3>1 DEF Forgotten, Connect
    <3>2. CASE ConnectFails \/ Receive
      BY <3>2 DEF Forgotten, ConnectFails, Receive, service
    <3>3. CASE HangUp
      BY <1>0, <3>3 DEF Forgotten, HangUp, service, Ends
    <3> QED
      BY <1>8, <3>1, <3>2, <3>3 DEF TranslatorStep
  <2>2. reader' = reader
    BY <1>8 DEF TranslatorStep, Connect, ConnectFails, Receive, HangUp, service
  <2> QED
    BY <2>1, <2>2 DEF LimboInv
<1>9. CASE \E c \in Conns : Break(c)
  BY <1>0, <1>9 DEF LimboInv, Forgotten, Break, service, Ends
<1>10. CASE ServiceRestart
  BY <1>0, <1>10 DEF LimboInv, Forgotten, ServiceRestart, NoHandler, Idle
<1>11. CASE BridgeRestart
  BY <1>0, <1>11 DEF LimboInv, Forgotten, BridgeRestart, service, Ends
<1>12. CASE UNCHANGED << clients, reader, handler, open >>
  BY <1>12 DEF LimboInv, Forgotten
<1>13. CASE SendCommand \/ PostTimesOut \/ Expire \/ RadioLost \/ RadioBack \/ Tick
            \/ \E p \in posted : PostLost(p) \/ SetInput(p)
  BY <1>12, <1>13 DEF SendCommand, PostTimesOut, Expire, RadioLost, RadioBack, Tick,
     PostLost, SetInput, service
<1>14. CASE UNCHANGED vars
  BY <1>12, <1>14 DEF vars, service
<1> QED
  BY <1>1, <1>2, <1>3, <1>4, <1>5, <1>6, <1>7, <1>8, <1>9, <1>10, <1>11, <1>13, <1>14
     DEF Next, ReaderStep, HandlerStep

(* No client stays connected and forgotten, for any number of connections  *)
(* and any failures.                                                       *)
THEOREM NobodyForgotten == Spec => []NoLimbo
<1>1. Init => LimboInv
  BY DEF Init, LimboInv, Forgotten, NoHandler, Idle
<1>2. LimboInv => NoLimbo
  BY DEF LimboInv, Forgotten, NoLimbo
<1> QED
  BY <1>1, <1>2, LimboStep, TypeCorrect, PTL DEF Spec

===============================================================================

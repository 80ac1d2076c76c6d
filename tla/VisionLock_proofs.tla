--------------------------- MODULE VisionLock_proofs ---------------------------
(***************************************************************************)
(* Theorems about the vision-lock state machine, for any number of boxes   *)
(* and tasks and any debounce, gate and timeout.  Each safety property     *)
(* rests on one part of the inductive invariant IInv: the countdown counts *)
(* the frames in a row (SelectionInv), a wait for a sub-opcode began with  *)
(* the last frame (EscapeInv), and VISION_BOX is remembered as the last    *)
(* code only if it was seen since a button acted (PressInv).  That the     *)
(* routers follow the selection has an invariant of its own, RouterInv.    *)
(***************************************************************************)
EXTENDS VisionLock, TLAPS

-----------------------------------------------------------------------------
(* What the decoders of OpsCode guarantee for every code, drift and        *)
(* coordinate.                                                             *)

(* No drift of up to 33 us down or 24 us up turns one ops code into        *)
(* another: no button and no source is fabricated on the way.              *)
THEOREM CodeSurvives ==
  ASSUME NEW code \in 0..OpsCodeMax, NEW drift \in -33..24
  PROVE  DecodeOpsCode(CodeUs(code) + drift) = code
  BY Z3T(120) DEF DecodeOpsCode, Quantize64, CodeUs, PosUs, RoundHalfEven,
     WideMin, WideMax, WidePosMax, MinGuard, MaxGuard, OpsCodeMax

(* Whatever comes over the wire is decoded to one of the 16 codes.         *)
THEOREM CodeInRange ==
  ASSUME NEW us \in Int
  PROVE  DecodeOpsCode(us) \in 0..OpsCodeMax
  BY Z3T(120) DEF DecodeOpsCode, Quantize64, RoundHalfEven, WideMin, WideMax,
     WidePosMax, MinGuard, MaxGuard, OpsCodeMax

(* The phone picks one of the 64 positions.                                *)
LEMMA Positions ==
  ASSUME NEW norm \in 0..(NormRange - 1)
  PROVE  NormPos(norm) \in 0..WidePosMax
  BY Z3T(120) DEF NormPos, RoundHalfEven, NormRange, WidePosMax

(* Every position is decoded to itself, across the guard bands at both     *)
(* ends: the "round-trip identity across all 64 phone-encoder outputs".    *)
THEOREM PositionRoundTrip ==
  ASSUME NEW pos \in 0..WidePosMax
  PROVE  Quantize64(PosUs(pos)) = pos
  BY Z3T(120) DEF Quantize64, PosUs, RoundHalfEven, WideMin, WideMax,
     WidePosMax, MinGuard, MaxGuard

(* A box coordinate comes back in range and within half a step of 6 bits.  *)
THEOREM CoordinateSurvives ==
  ASSUME NEW norm \in 0..(NormRange - 1)
  PROVE  LET back == DecodeBoxNorm(PosUs(NormPos(norm)))
         IN  back \in 0..(NormRange - 1) /\ back - norm \in -8..8
<1>1. Quantize64(PosUs(NormPos(norm))) = NormPos(norm)
  BY Positions, PositionRoundTrip
<1>2. PICK pos \in 0..WidePosMax : pos = NormPos(norm)
  BY Positions
<1>3. 2 * ((NormRange - 1) * pos - WidePosMax * norm) \in -(NormRange - 1)..(NormRange - 1)
  BY <1>2, Z3T(60) DEF NormPos, RoundHalfEven, NormRange, WidePosMax
<1>4. PICK back : back = RoundHalfEven(pos * (NormRange - 1), WidePosMax)
  OBVIOUS
<1>5. back \in Int /\ 2 * (WidePosMax * back - (NormRange - 1) * pos) \in -WidePosMax..WidePosMax
  BY <1>4, Z3T(60) DEF RoundHalfEven, NormRange, WidePosMax
<1>6. back \in 0..(NormRange - 1) /\ back - norm \in -8..8
  BY <1>3, <1>5, Z3T(60) DEF NormRange, WidePosMax
<1>7. DecodeBoxNorm(PosUs(NormPos(norm))) = back
  BY <1>1, <1>2, <1>4, Zenon DEF DecodeBoxNorm
<1> QED
  BY <1>6, <1>7, Zenon

-----------------------------------------------------------------------------
(* The inductive invariant *)

SelectionInv ==
  /\ StableIsHeld
  /\ run.box = NoBox <=> run.frames = 0
  /\ debounce = IF run.frames = 0 THEN 0 ELSE DebounceFrames + 1 - run.frames

EscapeInv ==
  /\ escapePending => escapeSeen = escapeStarted
  /\ ~ lateSubop

PressInv ==
  /\ prevCode = "vision_box" => boxShown
  /\ escapePending /\ preEscape = "vision_box" => boxShown

IInv == TypeOK /\ SelectionInv /\ EscapeInv /\ PressInv

-----------------------------------------------------------------------------
(* Types *)

LEMMA DecodedType ==
  ASSUME NEW code \in AllCodes, NEW box \in Boxes
  PROVE  Decoded(code, box) \in Selections
  BY DEF Decoded, Selections

(* Starting a task keeps the type of the tasks.                            *)
LEMMA StartType ==
  ASSUME NEW r \in TaskRecords, task \in [Tasks -> TaskRecords], Start(r)
  PROVE  task' \in [Tasks -> TaskRecords]
  BY DEF Start, FreeTasks

LEMMA SelectionType ==
  ASSUME TypeOK, NEW d \in Selections, AdvanceSelection(d)
  PROVE  /\ phase' \in {"idle", "stabilizing", "ready", "dispatched"}
         /\ candidate' \in Selections /\ stable' \in Selections
         /\ stableSince' \in Nat /\ debounce' \in 0..DebounceFrames
<1> USE ConstantsOK DEF TypeOK
<1>1. CASE d = NoBox /\ Deselect
  BY <1>1 DEF Deselect, Selections
<1>2. CASE NewCandidate(d)
  BY <1>2 DEF NewCandidate, Selections
<1>3. CASE SameCandidate(d)
  BY <1>3 DEF SameCandidate, selection
<1> QED
  BY <1>1, <1>2, <1>3 DEF AdvanceSelection

LEMMA BeforeType ==
  ASSUME TypeOK
  PROVE  CodeBefore \in AllCodes
  BY DEF TypeOK, CodeBefore

(* What dispatching a frame does to everything but the selection.          *)
LEMMA DispatchType ==
  ASSUME TypeOK, NEW code \in AllCodes, Dispatch(code), stable' \in Selections
  PROVE  /\ escapePending' \in BOOLEAN /\ escapeStarted' \in Nat
         /\ preEscape' \in AllCodes /\ prevCode' \in AllCodes
         /\ prevSource' \in Sources
         /\ newest' \subseteq Tasks /\ missed' \subseteq Routers
         /\ task' \in [Tasks -> TaskRecords]
<1>1. CodeBefore \in AllCodes
  BY BeforeType
<1>2. prevCode' \in AllCodes
  BY DEF Dispatch
<1>3. CASE code = "escape" /\ EnterEscape /\ UNCHANGED << prevSource, task, posts >>
  BY <1>1, <1>2, <1>3 DEF EnterEscape, TypeOK, posts
<1>4. CASE LeaveEscape /\ UNCHANGED << prevSource, task, posts >>
  BY <1>2, <1>4 DEF LeaveEscape, TypeOK, posts
<1>5. CASE code \in SourceCodes /\ LeaveEscape /\ DispatchSource(SourceOf[code])
  <2>1. SourceOf[code] \in Sources
    BY <1>5 DEF SourceCodes, SourceOf, Sources
  <2>2. prevSource' \in Sources
    BY <1>5, <2>1 DEF DispatchSource, TypeOK
  <2>3. newest' \subseteq Tasks /\ missed' \subseteq Routers
    BY <1>5 DEF DispatchSource, TypeOK, posts, FreeTasks
  <2>4. task' \in [Tasks -> TaskRecords]
    <3>1. CASE UNCHANGED task
      BY <3>1 DEF TypeOK
    <3>2. CASE \E t, u \in FreeTasks :
                 /\ t # u
                 /\ task' = [task EXCEPT ![t] = SourcePost("vtx", SourceOf[code]),
                                         ![u] = SourcePost("inet", SourceOf[code])]
      <4>1. /\ SourcePost("vtx", SourceOf[code]) \in TaskRecords
            /\ SourcePost("inet", SourceOf[code]) \in TaskRecords
        BY <2>1 DEF TaskRecords, Routers
      <4> QED
        BY <3>2, <4>1 DEF TypeOK
    <3> QED
      BY <1>5, <3>1, <3>2 DEF DispatchSource
  <2> QED
    BY <1>2, <1>5, <2>2, <2>3, <2>4 DEF LeaveEscape, TypeOK
<1>6. CASE code \in Buttons /\ LeaveEscape /\ Press(code)
  <2>1. task' \in [Tasks -> TaskRecords]
    <3>1. CASE UNCHANGED task
      BY <3>1 DEF TypeOK
    <3>2. CASE code # "engage" /\ Start(ButtonPost(code))
      <4>1. ButtonPost(code) \in TaskRecords
        BY <1>6, <3>2 DEF TaskRecords
      <4> QED
        BY <3>2, <4>1, StartType DEF TypeOK
    <3>3. CASE Engageable /\ Start(Asking(stable'))
      <4>1. stable' \in Boxes
        BY <3>3 DEF Engageable, Selections
      <4>2. Asking(stable') \in TaskRecords
        BY <4>1 DEF TaskRecords
      <4> QED
        BY <3>3, <4>2, StartType DEF TypeOK
    <3> QED
      BY <1>6, <3>1, <3>2, <3>3 DEF Press
  <2> QED
    BY <1>2, <1>6, <2>1 DEF Press, LeaveEscape, TypeOK, posts
<1> QED
  BY <1>3, <1>4, <1>5, <1>6 DEF Dispatch

LEMMA FrameType ==
  ASSUME TypeOK, NEW code \in AllCodes, NEW box \in Boxes, OnChannels(code, box),
         misread' \in BOOLEAN, scenario' = scenario
  PROVE  TypeOK'
<1>2. Decoded(code, box) \in Selections
  BY DecodedType
<1>3. AdvanceSelection(Decoded(code, box))
  BY DEF OnChannels
<1>4. /\ phase' \in {"idle", "stabilizing", "ready", "dispatched"}
      /\ candidate' \in Selections /\ stable' \in Selections
      /\ stableSince' \in Nat /\ debounce' \in 0..DebounceFrames
  BY <1>2, <1>3, SelectionType
<1>5. /\ escapePending' \in BOOLEAN /\ escapeStarted' \in Nat
      /\ preEscape' \in AllCodes /\ prevCode' \in AllCodes
      /\ prevSource' \in Sources
      /\ newest' \subseteq Tasks /\ missed' \subseteq Routers
      /\ task' \in [Tasks -> TaskRecords]
  <2>1. CASE EscapeOpen /\ EscapeFollowUp(code)
    BY <2>1 DEF EscapeFollowUp, TypeOK, posts
  <2>2. CASE Dispatch(code)
    BY <1>4, <2>2, DispatchType
  <2> QED
    BY <2>1, <2>2 DEF OnChannels
<1>6. RecordFrame(code, Decoded(code, box))
  BY DEF OnChannels
<1>7. run' \in [box : Selections, frames : 0..(DebounceFrames + 1), since : Nat]
  <2> DEFINE d == Decoded(code, box)
  <2>1. CASE run' = [box |-> NoBox, frames |-> 0, since |-> 0]
    BY <2>1, ConstantsOK DEF Selections
  <2>2. CASE run' = [box |-> d, frames |-> 1, since |-> 0]
    BY <1>2, <2>2, ConstantsOK DEF TypeOK
  <2>3. CASE run' = run
    BY <2>3 DEF TypeOK
  <2>4. CASE /\ ~ run.frames > DebounceFrames
             /\ run' = [box |-> d, frames |-> run.frames + 1,
                        since |-> IF run.frames = DebounceFrames THEN now ELSE 0]
    <3>1. run.frames + 1 \in 0..(DebounceFrames + 1)
      BY <2>4, ConstantsOK DEF TypeOK
    <3> QED
      BY <1>2, <2>4, <3>1 DEF TypeOK
  <2> HIDE DEF d
  <2>5. run' = IF d = NoBox THEN [box |-> NoBox, frames |-> 0, since |-> 0]
               ELSE IF d # run.box THEN [box |-> d, frames |-> 1, since |-> 0]
               ELSE IF run.frames > DebounceFrames THEN run
               ELSE [box |-> d, frames |-> run.frames + 1,
                     since |-> IF run.frames = DebounceFrames THEN now ELSE 0]
    BY <1>6 DEF RecordFrame, d
  <2> QED
    BY <2>1, <2>2, <2>3, <2>4, <2>5, Zenon
<1>8. /\ escapeSeen' \in Nat \cup {-1} /\ boxShown' \in BOOLEAN
      /\ lateSubop' \in BOOLEAN
  BY <1>6 DEF RecordFrame, TypeOK
<1>9. asked' \in Sources
  <2>1. code \in SourceCodes => SourceOf[code] \in Sources
    BY DEF SourceCodes, SourceOf, Sources
  <2> QED
    BY <1>6, <2>1 DEF RecordFrame, TypeOK
<1>10. UNCHANGED << now, vtx, inet, target >>
  BY DEF OnChannels, servers
<1> QED
  BY <1>4, <1>5, <1>7, <1>8, <1>9, <1>10 DEF TypeOK

(* The steps of a task keep the type of the tasks and of what they touch.  *)
LEMMA TaskType ==
  ASSUME TypeOK, NEW t \in Tasks,
         AnswerProbe(t) \/ CommitEngage(t) \/ RejectEngage(t) \/ Deliver(t) \/ Fail(t)
  PROVE  TypeOK'
<1>0. task[t] \in TaskRecords /\ Free \in TaskRecords
  BY DEF TypeOK, TaskRecords
<1> USE DEF selection, escape, servers, history, posts
<1>1. CASE AnswerProbe(t)
  <2>1. PICK usable \in BOOLEAN :
          task' = [task EXCEPT ![t] = Answered(task[t].box, usable, target)]
    BY <1>1 DEF AnswerProbe
  <2>2. task[t].box \in Boxes
    BY <1>0, <1>1 DEF AnswerProbe, TaskRecords, Free, SourcePost, ButtonPost,
       EngagePost, Asking, Answered
  <2>3. Answered(task[t].box, usable, target) \in TaskRecords
    BY <2>2 DEF TaskRecords, TypeOK
  <2> QED
    BY <1>1, <2>1, <2>3 DEF AnswerProbe, TypeOK
<1>2. CASE CommitEngage(t)
  <2>1. task[t].box \in Boxes
    BY <1>0, <1>2 DEF CommitEngage, TaskRecords, Free, SourcePost, ButtonPost,
       EngagePost, Asking, Answered
  <2>2. EngagePost(task[t].box) \in TaskRecords
    BY <2>1 DEF TaskRecords
  <2> QED
    BY <1>2, <2>2 DEF CommitEngage, TypeOK
<1>3. CASE RejectEngage(t)
  BY <1>0, <1>3 DEF RejectEngage, TypeOK
<1>4. CASE Deliver(t)
  <2>1. task' \in [Tasks -> TaskRecords]
    BY <1>0, <1>4 DEF Deliver, TypeOK
  <2>2. /\ task[t].path \in Routers => task[t].name \in Sources
        /\ task[t].path = "engage" => task[t].box \in Boxes
    BY <1>0, <1>4 DEF Deliver, TaskRecords, Free, SourcePost, ButtonPost,
       EngagePost, Asking, Answered, Routers, Buttons
  <2>3. vtx' \in Sources /\ inet' \in Sources /\ target' \in Selections
    BY <1>4, <2>2 DEF Deliver, TypeOK, Selections, Routers
  <2>4. newest' \subseteq Tasks /\ missed' \subseteq Routers
    BY <1>4 DEF Deliver, TypeOK, SourceTask
  <2> QED
    BY <1>4, <2>1, <2>3, <2>4 DEF Deliver, TypeOK
<1>5. CASE Fail(t)
  <2>1. task' \in [Tasks -> TaskRecords]
    BY <1>0, <1>5 DEF Fail, TypeOK
  <2>2. newest' \subseteq Tasks /\ missed' \subseteq Routers
    BY <1>5 DEF Fail, TypeOK, SourceTask
  <2> QED
    BY <1>5, <2>1, <2>2 DEF Fail, TypeOK
<1> QED
  BY <1>1, <1>2, <1>3, <1>4, <1>5

(* A frame is decoded to the code the phone sent.                          *)
LEMMA FrameDecodes ==
  ASSUME scenario \in Scenarios, NEW sent \in scenario.codes,
         NEW drift \in scenario.drifts, NEW box \in Boxes, Frame(sent, drift, box)
  PROVE  /\ CodeName[sent] \in AllCodes
         /\ scenario' = scenario
         /\ OnChannels(CodeName[sent], box)
         /\ misread' = (misread \/ FALSE)
<1>1. sent \in 0..OpsCodeMax /\ drift \in -33..24
  BY ConstantsOK
<1>2. DecodeOpsCode(CodeUs(sent) + drift) = sent
  BY <1>1, CodeSurvives
<1>3. CodeName[sent] \in AllCodes
  <2>1. CASE sent >= 10
    BY <1>1, <2>1 DEF CodeName, AllCodes, OpsCodeMax
  <2>2. CASE sent < 10
    <3>1. sent \in {0, 1, 2, 3, 4, 5, 6, 7, 8, 9}
      BY <1>1, <2>2, SMT
    <3>2. CodeName[sent] = << "idle", "front", "ground", "vision", "vision_box",
                             "engage", "follow", "abort", "cancel_lock",
                             "escape" >>[sent + 1]
      BY <1>1, <2>2, SMT DEF CodeName, OpsCodeMax
    <3>3. CodeName[sent] \in {"idle", "front", "ground", "vision", "vision_box",
                              "engage", "follow", "abort", "cancel_lock", "escape"}
      BY <3>1, <3>2, SMT
    <3>4. {"front", "ground", "vision", "vision_box"} = SourceCodes
      BY DEF SourceCodes, SourceOf
    <3> QED
      BY <3>3, <3>4 DEF AllCodes, Buttons
  <2> QED
    BY <1>1, <2>1, <2>2, SMT
<1> QED
  <2> DEFINE code == CodeName[DecodeOpsCode(CodeUs(sent) + drift)]
  <2>1. /\ OnChannels(code, box) /\ misread' = (misread \/ code # CodeName[sent])
        /\ scenario' = scenario
    BY DEF Frame
  <2>2. code = CodeName[sent]
    BY <1>2
  <2> HIDE DEF code
  <2> QED
    BY <1>3, <2>1, <2>2, Zenon

(* Every variable keeps its type.                                          *)
THEOREM TypeCorrect == Spec => []TypeOK
<1>1. ASSUME Init
      PROVE  TypeOK
  <2>1. task \in [Tasks -> TaskRecords]
    BY <1>1 DEF Init, TaskRecords
  <2>2. run \in [box : Selections, frames : 0..(DebounceFrames + 1), since : Nat]
    BY <1>1, ConstantsOK DEF Init, Selections
  <2>3. /\ phase \in {"idle", "stabilizing", "ready", "dispatched"}
        /\ preEscape \in AllCodes /\ prevCode \in AllCodes
        /\ prevSource \in Sources /\ vtx \in Sources /\ inet \in Sources
        /\ asked \in Sources /\ newest \subseteq Tasks /\ missed \subseteq Routers
    BY <1>1 DEF Init, AllCodes, Sources
  <2>4. /\ candidate \in Selections /\ stable \in Selections /\ target \in Selections
    BY <1>1 DEF Init, Selections
  <2>5. /\ now \in Nat /\ stableSince \in Nat /\ debounce \in 0..DebounceFrames
        /\ escapeStarted \in Nat /\ escapeSeen \in Nat \cup {-1}
    BY <1>1, ConstantsOK DEF Init
  <2>6. /\ escapePending \in BOOLEAN /\ boxShown \in BOOLEAN
        /\ misread \in BOOLEAN /\ lateSubop \in BOOLEAN
        /\ scenario \in Scenarios
    BY <1>1 DEF Init
  <2> QED
    BY <2>1, <2>2, <2>3, <2>4, <2>5, <2>6 DEF TypeOK
<1>2. ASSUME TypeOK, [Next]_vars
      PROVE  TypeOK'
  <2>1. CASE UNCHANGED vars
    BY <1>2, <2>1 DEF TypeOK, vars, selection, escape, servers, history, posts
  <2>2. CASE Tick
    BY <1>2, <2>2 DEF TypeOK, Tick, selection, escape, servers, history, posts
  <2>3. ASSUME NEW sent \in scenario.codes, NEW drift \in scenario.drifts,
               NEW box \in Boxes, Frame(sent, drift, box)
        PROVE  TypeOK'
    <3>1. misread' \in BOOLEAN
      BY <1>2, <2>3, FrameDecodes DEF TypeOK
    <3> QED
      BY <1>2, <2>3, <3>1, FrameDecodes, FrameType DEF TypeOK
  <2>4. CASE \E t \in Tasks : AnswerProbe(t) \/ CommitEngage(t) \/ RejectEngage(t)
                              \/ Deliver(t) \/ Fail(t)
    BY <1>2, <2>4, TaskType
  <2> QED
    BY <1>2, <2>1, <2>2, <2>3, <2>4 DEF Next
<1> QED
  BY <1>1, <1>2, PTL DEF Spec

-----------------------------------------------------------------------------
(* The selection *)

(* One frame advances the countdown and the run of frames together.        *)
LEMMA FrameSelection ==
  ASSUME TypeOK, SelectionInv, NEW code \in AllCodes, NEW box \in Boxes,
         OnChannels(code, box)
  PROVE  SelectionInv'
<1> DEFINE d == Decoded(code, box)
<1>1. d \in Selections
  BY DecodedType
<1>2. AdvanceSelection(d)
  BY DEF OnChannels
<1>3. run' = IF d = NoBox THEN [box |-> NoBox, frames |-> 0, since |-> 0]
             ELSE IF d # run.box THEN [box |-> d, frames |-> 1, since |-> 0]
             ELSE IF run.frames > DebounceFrames THEN run
             ELSE [box |-> d, frames |-> run.frames + 1,
                   since |-> IF run.frames = DebounceFrames THEN now ELSE 0]
  BY DEF OnChannels, RecordFrame
<1> HIDE DEF d
<1> USE ConstantsOK DEF SelectionInv, StableIsHeld, TypeOK
<1>4. CASE d = NoBox /\ Deselect
  BY <1>3, <1>4 DEF Deselect
<1>5. CASE d # NoBox /\ d # candidate /\ NewCandidate(d)
  BY <1>1, <1>3, <1>5 DEF NewCandidate, Selections
<1>6. CASE d # NoBox /\ d = candidate /\ SameCandidate(d)
  <2>1. d = run.box /\ run.frames # 0
    BY <1>6
  <2>2. CASE debounce = 0
    <3>1. run.frames > DebounceFrames /\ run' = run
      BY <1>3, <1>6, <2>1, <2>2
    <3> QED
      BY <1>6, <2>2, <3>1 DEF SameCandidate, selection
  <2>3. CASE debounce # 0
    <3>1. run' = [box |-> d, frames |-> run.frames + 1,
                  since |-> IF run.frames = DebounceFrames THEN now ELSE 0]
      BY <1>3, <1>6, <2>1, <2>3
    <3>2. /\ run'.box = run.box /\ run'.frames = run.frames + 1
          /\ run.frames = DebounceFrames => run'.since = now
      BY <2>1, <3>1
    <3> QED
      BY <1>6, <2>1, <2>3, <3>2 DEF SameCandidate
  <2> QED
    BY <2>2, <2>3
<1> QED
  BY <1>2, <1>4, <1>5, <1>6 DEF AdvanceSelection

-----------------------------------------------------------------------------
(* The ESCAPE exchange and the buttons *)

LEMMA FrameEscape ==
  ASSUME TypeOK, EscapeInv, NEW code \in AllCodes, NEW box \in Boxes,
         OnChannels(code, box)
  PROVE  EscapeInv'
<1>1. RecordFrame(code, Decoded(code, box))
  BY DEF OnChannels
<1>2. ~ lateSubop'
  BY <1>1, ConstantsOK DEF RecordFrame, EscapeInv, EscapeOpen, EscapeTimedOut, TypeOK
<1>3. escapeSeen' = IF code = "escape" THEN now ELSE -1
  BY <1>1 DEF RecordFrame
<1>4. CASE EscapeOpen /\ EscapeFollowUp(code)
  BY <1>2, <1>3, <1>4 DEF EscapeFollowUp, EscapeInv
<1>5. CASE Dispatch(code)
  BY <1>2, <1>3, <1>5 DEF Dispatch, EnterEscape, LeaveEscape, EscapeInv
<1> QED
  BY <1>4, <1>5 DEF OnChannels

(* VISION_BOX is the code before this frame only if it was shown since a   *)
(* button acted.                                                           *)
LEMMA BeforeShown ==
  ASSUME TypeOK, PressInv, CodeBefore = "vision_box"
  PROVE  boxShown
  BY DEF PressInv, CodeBefore, EscapeTimedOut, TypeOK

LEMMA FramePress ==
  ASSUME TypeOK, PressInv, NEW code \in AllCodes, NEW box \in Boxes,
         OnChannels(code, box)
  PROVE  PressInv'
<1> DEFINE acts == /\ ~ EscapeOpen /\ code \in Buttons
                   /\ code # CodeBefore /\ ButtonActs(code)
<1>1. /\ acts => ~ boxShown'
      /\ ~ acts => boxShown' = (boxShown \/ code = "vision_box")
  BY DEF OnChannels, RecordFrame
<1>2. CASE EscapeOpen /\ EscapeFollowUp(code)
  BY <1>1, <1>2 DEF EscapeFollowUp, PressInv, EscapeOpen
<1>3. CASE ~ EscapeOpen /\ Dispatch(code)
  <2>1. prevCode' = code /\ "vision_box" \notin Buttons
    BY <1>3 DEF Dispatch, Buttons
  <2>2. prevCode' = "vision_box" => boxShown'
    BY <1>1, <2>1
  <2>3. CASE code = "escape" /\ EnterEscape
    BY <1>1, <2>2, <2>3, BeforeShown DEF EnterEscape, PressInv, Buttons
  <2>4. CASE LeaveEscape
    BY <2>2, <2>4 DEF LeaveEscape, PressInv
  <2> QED
    BY <1>3, <2>3, <2>4 DEF Dispatch
<1> QED
  BY <1>2, <1>3 DEF OnChannels

(* The inductive invariant.                                                *)
THEOREM InductiveInvariant == Spec => []IInv
<1>1. Init => SelectionInv /\ EscapeInv /\ PressInv
  BY ConstantsOK DEF Init, SelectionInv, StableIsHeld, EscapeInv, PressInv
<1>2. ASSUME TypeOK, SelectionInv /\ EscapeInv /\ PressInv, [Next]_vars
      PROVE  (SelectionInv /\ EscapeInv /\ PressInv)'
  <2> USE DEF SelectionInv, StableIsHeld, EscapeInv, PressInv
  <2>1. CASE UNCHANGED vars
    BY <1>2, <2>1 DEF vars, selection, escape, history
  <2>2. CASE Tick
    BY <1>2, <2>2 DEF Tick, selection, escape, history
  <2>3. ASSUME NEW sent \in scenario.codes, NEW drift \in scenario.drifts,
               NEW box \in Boxes, Frame(sent, drift, box)
        PROVE  (SelectionInv /\ EscapeInv /\ PressInv)'
    <3> USE <1>2
    <3> HIDE DEF SelectionInv, StableIsHeld, EscapeInv, PressInv
    <3> QED
      BY <2>3, FrameDecodes, FrameSelection, FrameEscape, FramePress DEF TypeOK
  <2>4. ASSUME NEW t \in Tasks,
               AnswerProbe(t) \/ CommitEngage(t) \/ RejectEngage(t) \/ Deliver(t)
               \/ Fail(t)
        PROVE  (SelectionInv /\ EscapeInv /\ PressInv)'
    <3>1. /\ UNCHANGED << candidate, stable, stableSince, debounce, escapePending,
                          escapeStarted, preEscape, prevCode, run, escapeSeen,
                          boxShown, lateSubop >>
      BY <2>4 DEF AnswerProbe, CommitEngage, RejectEngage, Deliver, Fail,
         selection, escape, history
    <3> QED
      BY <1>2, <3>1
  <2> QED
    BY <1>2, <2>1, <2>2, <2>3, <2>4 DEF Next
<1> QED
  BY <1>1, <1>2, TypeCorrect, PTL DEF Spec, IInv

(* Rule 1: the frozen box is the one the last frames carried in a row.     *)
THEOREM StableHeld == Spec => []StableIsHeld
<1>1. IInv => StableIsHeld
  BY DEF IInv, SelectionInv
<1> QED
  BY <1>1, InductiveInvariant, PTL

-----------------------------------------------------------------------------
(* What a step may never do *)

(* A task for a button starts only in a frame that dispatches that button  *)
(* after VISION_BOX.                                                       *)
LEMMA OnlyPressStarts ==
  ASSUME TypeOK, [Next]_vars, NEW t \in Tasks, StartsButton(t)
  PROVE  /\ CodeBefore = "vision_box"
         /\ task'[t].path = "engage" =>
              Engageable /\ task'[t].box = stable'
<1> USE DEF StartsButton
<1>1. CASE UNCHANGED task
  BY <1>1
<1>2. ASSUME NEW u \in Tasks,
             AnswerProbe(u) \/ CommitEngage(u) \/ RejectEngage(u) \/ Deliver(u) \/ Fail(u)
      PROVE  FALSE
  <2>1. task[u] # Free
    BY <1>2 DEF AnswerProbe, CommitEngage, RejectEngage, Deliver, Fail, Free
  <2>2. \A v \in Tasks : v # u => task'[v] = task[v]
    BY <1>2 DEF AnswerProbe, CommitEngage, RejectEngage, Deliver, Fail, TypeOK
  <2> QED
    BY <2>1, <2>2
<1>3. ASSUME NEW code \in AllCodes, NEW box \in Boxes, OnChannels(code, box),
             task' # task
      PROVE  /\ CodeBefore = "vision_box"
             /\ task'[t].path = "engage" => Engageable /\ task'[t].box = stable'
  <2>1. ~ EscapeOpen /\ Dispatch(code)
    BY <1>3 DEF OnChannels, EscapeFollowUp
  <2>2. CASE DispatchSource(SourceOf[code])
    <3>1. PICK v, w \in FreeTasks :
            task' = [task EXCEPT ![v] = SourcePost("vtx", SourceOf[code]),
                                 ![w] = SourcePost("inet", SourceOf[code])]
      BY <1>3, <2>2 DEF DispatchSource
    <3>2. /\ task'[t] = task[t] \/ task'[t] = SourcePost("vtx", SourceOf[code])
             \/ task'[t] = SourcePost("inet", SourceOf[code])
      BY <3>1 DEF TypeOK
    <3> QED
      BY <3>2 DEF SourcePost, Buttons
  <2>3. CASE Press(code)
    <3>1. ButtonActs(code)
      BY <1>3, <2>3 DEF Press
    <3>2. CASE code # "engage" /\ Start(ButtonPost(code))
      <4>1. task'[t] = task[t] \/ task'[t] = ButtonPost(code)
        BY <3>2 DEF Start, TypeOK
      <4> QED
        BY <3>1, <3>2, <4>1 DEF ButtonPost, ButtonActs
    <3>3. CASE Engageable /\ Start(Asking(stable'))
      <4>1. task'[t] = task[t] \/ task'[t] = Asking(stable')
        BY <3>3 DEF Start, TypeOK
      <4> QED
        BY <3>1, <3>3, <4>1 DEF Asking, ButtonActs
    <3> QED
      BY <1>3, <2>3, <3>1, <3>2, <3>3 DEF Press
  <2> QED
    BY <1>3, <2>1, <2>2, <2>3 DEF Dispatch
<1>4. CASE Tick
  BY <1>1, <1>4 DEF Tick
<1>5. CASE UNCHANGED vars
  BY <1>1, <1>5 DEF vars
<1> QED
  BY <1>1, <1>2, <1>3, <1>4, <1>5, FrameDecodes DEF Next, TypeOK

(* Rules 2d and 2a: only the box held for the debounce and the gate time   *)
(* is engaged.                                                             *)
THEOREM HeldBoxesOnly == Spec => EngageOnlyHeld
<1>1. ASSUME TypeOK, StableIsHeld', [Next]_vars, NEW t \in Tasks,
             StartsButton(t) /\ task'[t].path = "engage"
      PROVE  /\ run'.frames > DebounceFrames
             /\ task'[t].box = run'.box
             /\ now - run'.since >= EngageGate
  <2>1. Engageable /\ task'[t].box = stable'
    BY <1>1, OnlyPressStarts
  <2> QED
    BY <1>1, <2>1 DEF Engageable, StableIsHeld
<1>2. ASSUME TypeOK, StableIsHeld', [Next]_vars
      PROVE  [\A t \in Tasks :
                StartsButton(t) /\ task'[t].path = "engage" =>
                  /\ run'.frames > DebounceFrames
                  /\ task'[t].box = run'.box
                  /\ now - run'.since >= EngageGate]_task
  BY <1>1, <1>2
<1> QED
  BY <1>2, TypeCorrect, StableHeld, PTL DEF Spec, EngageOnlyHeld

(* One press of a button acts once.                                        *)
THEOREM OneAction == Spec => OnePressOneAction
<1>1. ASSUME IInv, [Next]_vars
      PROVE  [\A t \in Tasks : StartsButton(t) => boxShown]_task
  BY <1>1, OnlyPressStarts, BeforeShown DEF IInv
<1> QED
  BY <1>1, InductiveInvariant, PTL DEF Spec, OnePressOneAction

(* A sub-opcode is taken only right after ESCAPE and within the timeout.   *)
THEOREM WindowHonoured == Spec => []SubOpcodeInWindow
<1>1. IInv => SubOpcodeInWindow
  BY DEF IInv, EscapeInv, SubOpcodeInWindow
<1> QED
  BY <1>1, InductiveInvariant, PTL

(* No drift within the margins of OpsCode makes a frame act as another.    *)
THEOREM NothingFabricated == Spec => []CodeSurvivesDrift
<1>1. Init => CodeSurvivesDrift
  BY DEF Init, CodeSurvivesDrift
<1>2. ASSUME TypeOK, CodeSurvivesDrift, [Next]_vars
      PROVE  CodeSurvivesDrift'
  BY <1>2, FrameDecodes DEF TypeOK, CodeSurvivesDrift, Next, Tick, AnswerProbe,
     CommitEngage, RejectEngage, Deliver, Fail, vars, history
<1> QED
  BY <1>1, <1>2, TypeCorrect, PTL DEF Spec

-----------------------------------------------------------------------------
(* The routers *)

(* No code is remembered, across an exchange or not, that names another    *)
(* source than the one selected last.                                      *)
CodesInv ==
  /\ asked = prevSource
  /\ prevCode \in SourceCodes => SourceOf[prevCode] = prevSource
  /\ escapePending /\ preEscape \in SourceCodes => SourceOf[preEscape] = prevSource

(* The newest POSTs carry the selected source; a router that does not show *)
(* it has one coming, or has missed it.                                    *)
PostsInv ==
  /\ \A t \in newest : SourceTask(t) /\ task[t].name = prevSource
  /\ prevSource # "black" =>
       \A router \in Routers :
         Shown(router) = prevSource \/ Pending(router) \/ router \in missed

(* Why the routers follow.                                                 *)
RouterInv == CodesInv /\ PostsInv

(* The code before a frame, if it names a source, names the selected one:  *)
(* the repeated code that is not dispatched asks for nothing new.          *)
LEMMA BeforeSource ==
  ASSUME TypeOK, CodesInv, CodeBefore \in SourceCodes
  PROVE  SourceOf[CodeBefore] = prevSource
  BY DEF CodesInv, CodeBefore, EscapeTimedOut

LEMMA FrameCodes ==
  ASSUME TypeOK, CodesInv, NEW code \in AllCodes, NEW box \in Boxes,
         OnChannels(code, box)
  PROVE  CodesInv'
<1>1. asked' = IF ~ EscapeOpen /\ code \in SourceCodes THEN SourceOf[code] ELSE asked
  BY DEF OnChannels, RecordFrame
<1>2. /\ SourceCodes \cap Buttons = {}
      /\ "escape" \notin SourceCodes /\ "idle" \notin SourceCodes
      /\ "reserved" \notin SourceCodes
  BY DEF SourceCodes, SourceOf, Buttons
<1>3. CASE EscapeOpen /\ EscapeFollowUp(code)
  BY <1>1, <1>3 DEF EscapeFollowUp, CodesInv, EscapeOpen
<1>4. CASE ~ EscapeOpen /\ Dispatch(code)
  <2>1. prevCode' = code
    BY <1>4 DEF Dispatch
  <2>2. CASE code = "escape" /\ EnterEscape /\ UNCHANGED prevSource
    BY <1>1, <1>2, <2>1, <2>2, BeforeSource DEF EnterEscape, CodesInv
  <2>3. CASE /\ code = CodeBefore \/ code \in {"idle", "reserved"}
             /\ LeaveEscape /\ UNCHANGED prevSource
    BY <1>1, <1>2, <1>4, <2>1, <2>3, BeforeSource DEF LeaveEscape, CodesInv
  <2>4. CASE code \in SourceCodes /\ LeaveEscape /\ DispatchSource(SourceOf[code])
    <3>1. prevSource' = SourceOf[code]
      BY <2>4 DEF DispatchSource
    <3> QED
      BY <1>1, <1>4, <2>1, <2>4, <3>1 DEF LeaveEscape, CodesInv
  <2>5. CASE code \in Buttons /\ LeaveEscape /\ Press(code)
    BY <1>1, <1>2, <2>1, <2>5 DEF Press, LeaveEscape, CodesInv
  <2> QED
    BY <1>4, <2>2, <2>3, <2>4, <2>5 DEF Dispatch
<1> QED
  BY <1>3, <1>4 DEF OnChannels

(* Where none of the newest POSTs begins or ends, nothing changes for the  *)
(* routers.                                                                *)
LEMMA RoutersUntouched ==
  ASSUME PostsInv, prevSource' = prevSource, newest' = newest, missed' = missed,
         vtx' = vtx, inet' = inet, \A t \in newest : task'[t] = task[t]
  PROVE  PostsInv'
<1>1. \A t \in newest : SourceTask(t)' /\ task'[t].name = prevSource
  BY DEF PostsInv, SourceTask
<1>2. \A router \in Routers :
        Pending(router)' = Pending(router) /\ Shown(router)' = Shown(router)
  BY DEF Pending, Shown
<1> QED
  BY <1>1, <1>2 DEF PostsInv

(* What kinds of tasks there are.                                          *)
LEMMA SourceRecords ==
  /\ \A r \in Routers, n \in Sources :
       /\ SourcePost(r, n) # Free /\ SourcePost(r, n).path = r
       /\ SourcePost(r, n).name = n
  /\ \A b \in Buttons : ButtonPost(b).path \notin Routers
  /\ \A b : Asking(b).path \notin Routers /\ EngagePost(b).path \notin Routers
  /\ \A b, u, l : Answered(b, u, l).path \notin Routers
  BY DEF SourcePost, Free, ButtonPost, Buttons, Asking, EngagePost, Answered, Routers

(* A frame that changes the source begins a POST to each router.           *)
LEMMA SourcePosts ==
  ASSUME TypeOK, PostsInv, NEW name \in Sources, DispatchSource(name),
         UNCHANGED servers
  PROVE  PostsInv'
<1>1. CASE name = prevSource
  <2>1. UNCHANGED << task, prevSource, newest, missed, vtx, inet >>
    BY <1>1 DEF DispatchSource, servers, posts
  <2> QED
    BY <2>1, RoutersUntouched
<1>2. CASE name # prevSource
  <2>1. PICK t, u \in FreeTasks :
          /\ t # u
          /\ task' = [task EXCEPT ![t] = SourcePost("vtx", name),
                                  ![u] = SourcePost("inet", name)]
          /\ newest' = {t, u}
    BY <1>2 DEF DispatchSource
  <2>2. prevSource' = name
    BY <1>2 DEF DispatchSource
  <2>3. /\ t \in Tasks /\ u \in Tasks
        /\ task'[t] = SourcePost("vtx", name) /\ task'[u] = SourcePost("inet", name)
    BY <2>1 DEF FreeTasks, TypeOK
  <2>4. /\ SourceTask(t)' /\ task'[t].path = "vtx" /\ task'[t].name = name
        /\ SourceTask(u)' /\ task'[u].path = "inet" /\ task'[u].name = name
    BY <2>3, SourceRecords DEF SourceTask, Routers
  <2>5. \A router \in Routers : Pending(router)'
    BY <2>1, <2>4 DEF Pending, Routers
  <2> QED
    BY <2>1, <2>2, <2>4, <2>5 DEF PostsInv
<1> QED
  BY <1>1, <1>2

LEMMA FramePosts ==
  ASSUME TypeOK, PostsInv, NEW code \in AllCodes, NEW box \in Boxes,
         OnChannels(code, box)
  PROVE  PostsInv'
<1>1. UNCHANGED servers
  BY DEF OnChannels
<1>2. CASE UNCHANGED << prevSource, task, posts >>
  BY <1>1, <1>2, RoutersUntouched DEF servers, posts
<1>3. CASE code \in SourceCodes /\ DispatchSource(SourceOf[code])
  <2>1. SourceOf[code] \in Sources
    BY <1>3 DEF SourceCodes, SourceOf, Sources
  <2> QED
    BY <1>1, <1>3, <2>1, SourcePosts
<1>4. CASE code \in Buttons /\ Press(code)
  <2>1. CASE UNCHANGED task
    BY <1>2, <1>4, <2>1 DEF Press
  <2>2. ASSUME NEW r, Start(r)
        PROVE  PostsInv'
    <3>1. PICK t \in FreeTasks : task' = [task EXCEPT ![t] = r]
      BY <2>2 DEF Start
    <3>2. t \notin newest
      BY <3>1 DEF FreeTasks, PostsInv, SourceTask
    <3>3. \A v \in newest : task'[v] = task[v]
      BY <3>1, <3>2 DEF TypeOK
    <3> QED
      BY <1>1, <1>4, <3>3, RoutersUntouched DEF Press, servers, posts
  <2> QED
    BY <1>4, <2>1, <2>2 DEF Press
<1> QED
  BY <1>2, <1>3, <1>4 DEF OnChannels, EscapeFollowUp, Dispatch

(* A POST that arrives or fails: the newest leaves its router with the     *)
(* selected source, an older one may leave it with another.                *)
LEMMA TaskPosts ==
  ASSUME TypeOK, PostsInv, NEW t \in Tasks,
         AnswerProbe(t) \/ CommitEngage(t) \/ RejectEngage(t) \/ Deliver(t) \/ Fail(t)
  PROVE  PostsInv'
<1>0. task[t] \in TaskRecords
  BY DEF TypeOK
<1>1. UNCHANGED prevSource /\ \A v \in Tasks \ {t} : task'[v] = task[v]
  BY DEF AnswerProbe, CommitEngage, RejectEngage, Deliver, Fail, TypeOK
<1>2. CASE AnswerProbe(t) \/ CommitEngage(t) \/ RejectEngage(t)
  <2>1. ~ SourceTask(t)
    <3>1. task[t].stage \in {"ask", "answer"}
      BY <1>2 DEF AnswerProbe, CommitEngage, RejectEngage
    <3>2. task[t].path = "engage"
      BY <1>0, <3>1 DEF TaskRecords, Free, SourcePost, ButtonPost, EngagePost, Asking,
         Answered
    <3> QED
      BY <3>2 DEF SourceTask, Routers
  <2>2. \A v \in newest : task'[v] = task[v]
    BY <1>1, <2>1 DEF PostsInv, TypeOK
  <2>3. UNCHANGED << newest, missed, vtx, inet >>
    BY <1>2 DEF AnswerProbe, CommitEngage, RejectEngage, servers, posts
  <2> QED
    BY <1>1, <2>2, <2>3, RoutersUntouched
<1>3. CASE Deliver(t) \/ Fail(t)
  <2>1. /\ newest' = newest \ {t}
        /\ \A v \in newest' : task'[v] = task[v] /\ v # t
    BY <1>1, <1>3 DEF Deliver, Fail, TypeOK
  <2>2. \A v \in newest' : SourceTask(v)' /\ task'[v].name = prevSource
    BY <2>1 DEF PostsInv, SourceTask
  <2>3. ASSUME NEW router \in Routers, Pending(router),
               ~ (t \in newest /\ task[t].path = router)
        PROVE  Pending(router)'
    <3>1. PICK v \in newest : task[v].path = router
      BY <2>3 DEF Pending
    <3> QED
      BY <2>1, <2>3, <3>1 DEF Pending
  <2>4. ASSUME NEW router \in Routers, prevSource # "black"
        PROVE  Shown(router)' = prevSource \/ Pending(router)' \/ router \in missed'
    <3>0. missed \subseteq missed'
      BY <1>3 DEF Deliver, Fail
    <3>1. CASE t \in newest /\ task[t].path = router
      <4>1. SourceTask(t) /\ task[t].name = prevSource
        BY <3>1 DEF PostsInv
      <4>2. CASE Deliver(t)
        BY <3>1, <4>1, <4>2 DEF Deliver, Shown, Routers, SourceTask
      <4>3. CASE Fail(t)
        BY <3>1, <4>1, <4>3 DEF Fail
      <4> QED
        BY <1>3, <4>2, <4>3
    <3>2. CASE ~ (t \in newest /\ task[t].path = router) /\ Pending(router)
      BY <2>3, <3>2
    <3>3. CASE ~ Pending(router) /\ SourceTask(t) /\ task[t].path = router
      <4>1. CASE Deliver(t)
        BY <3>3, <4>1 DEF Deliver
      <4>2. CASE Fail(t)
        BY <2>4, <3>0, <3>3, <4>2 DEF Fail, servers, Shown, PostsInv
      <4> QED
        BY <1>3, <4>1, <4>2
    <3>4. CASE ~ Pending(router) /\ ~ (SourceTask(t) /\ task[t].path = router)
      <4>1. Shown(router)' = Shown(router)
        <5>1. task[t] # Free
          BY <1>3 DEF Deliver, Fail, Free
        <5>2. task[t].path # router
          BY <3>4, <5>1 DEF SourceTask
        <5> QED
          BY <1>3, <5>2 DEF Deliver, Fail, servers, Shown, Routers
      <4> QED
        BY <2>4, <3>0, <3>4, <4>1 DEF PostsInv
    <3> QED
      BY <3>1, <3>2, <3>3, <3>4
  <2> QED
    BY <1>1, <2>2, <2>4 DEF PostsInv
<1> QED
  BY <1>2, <1>3

(* Each router shows what the operator asked for last, unless the POST for *)
(* it is under way, failed, or was handled before an older one: whatever   *)
(* POSTs of earlier switches failed or overtook each other, and whatever   *)
(* ESCAPE exchanges came between.                                          *)
THEOREM RoutersAgree == Spec => []RoutersFollowSelection
<1>1. Init => RouterInv
  BY DEF Init, RouterInv, CodesInv, PostsInv, SourceCodes, SourceOf
<1>2. ASSUME TypeOK, RouterInv, [Next]_vars
      PROVE  RouterInv'
  <2>0. CodesInv /\ PostsInv
    BY <1>2 DEF RouterInv
  <2>1. CASE UNCHANGED vars \/ Tick
    <3>1. UNCHANGED << task, prevSource, newest, missed, vtx, inet, asked, prevCode,
                       escapePending, preEscape >>
      BY <2>1 DEF vars, Tick, servers, posts, history, escape
    <3> QED
      BY <2>0, <3>1, RoutersUntouched DEF RouterInv, CodesInv
  <2>2. ASSUME NEW sent \in scenario.codes, NEW drift \in scenario.drifts,
               NEW box \in Boxes, Frame(sent, drift, box)
        PROVE  RouterInv'
    BY <1>2, <2>0, <2>2, FrameDecodes, FrameCodes, FramePosts DEF RouterInv, TypeOK
  <2>3. ASSUME NEW t \in Tasks,
               AnswerProbe(t) \/ CommitEngage(t) \/ RejectEngage(t) \/ Deliver(t)
               \/ Fail(t)
        PROVE  RouterInv'
    <3>1. UNCHANGED << asked, prevSource, prevCode, escapePending, preEscape >>
      BY <2>3 DEF AnswerProbe, CommitEngage, RejectEngage, Deliver, Fail, history, escape
    <3> QED
      BY <1>2, <2>0, <2>3, <3>1, TaskPosts DEF RouterInv, CodesInv
  <2> QED
    BY <1>2, <2>1, <2>2, <2>3 DEF Next
<1>3. RouterInv => RoutersFollowSelection
  BY DEF RouterInv, CodesInv, PostsInv, RoutersFollowSelection
<1> QED
  BY <1>1, <1>2, <1>3, TypeCorrect, PTL DEF Spec
================================================================================

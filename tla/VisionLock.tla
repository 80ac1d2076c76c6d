------------------------------- MODULE VisionLock -------------------------------
(***************************************************************************)
(* The vision-lock channel state machine of drone_bridge/vision_lock.py.   *)
(*                                                                         *)
(* Every radio frame carries one flat ops code (channel 8) and a box       *)
(* (channels 9 to 12).  on_channels debounces the box, runs the two-frame  *)
(* ESCAPE exchange, and dispatches on a change of code: the two video      *)
(* routers, the buttons and ENGAGE.  It never waits: the HTTP work goes    *)
(* into asyncio tasks, which finish in any order and may fail.  An ENGAGE  *)
(* task first asks the detector for its state and then decides.            *)
(*                                                                         *)
(* The radio moves channel 8 by a drift before OpsCode.tla decodes it; a   *)
(* box is a value here, and two boxes are the same when their IoU reaches  *)
(* IOU_IDEMPOTENCY_THRESHOLD.  Rule 2c (link age) compares a time stamp    *)
(* the translator set in the same call and cannot refuse.  The event       *)
(* counters, prev_box_committed and is_follow_active are written and only  *)
(* logged: left out.  Time is a count of ticks of time.monotonic().        *)
(***************************************************************************)
EXTENDS OpsCode

CONSTANTS
  Boxes,            (* boxes the phone may draw                            *)
  NoBox,            (* no selection                                        *)
  Tasks,            (* bound: asyncio tasks under way at once              *)
  DebounceFrames,   (* SELECTION_DEBOUNCE_FRAMES                           *)
  EngageGate,       (* ENGAGE_GATE_MS in ticks                             *)
  EscapeTimeout,    (* ESCAPE_TIMEOUT_MS in ticks                          *)
  MaxTime,          (* bound: the clock stops here                         *)
  Scenarios         (* bound: what there is in a behaviour: the codes the  *)
                    (* phone sends, what the radio adds to channel 8 (in   *)
                    (* microseconds), the tasks, whether a POST may fail   *)

CodeName ==         (* OPS_CODE_*                                           *)
  [n \in 0..OpsCodeMax |->
     IF n >= 10 THEN "reserved"
     ELSE << "idle", "front", "ground", "vision", "vision_box", "engage",
             "follow", "abort", "cancel_lock", "escape" >>[n + 1]]

SourceOf ==         (* SOURCE_NAME_BY_OPS_CODE without IDLE                *)
  [front |-> "front", ground |-> "ground", vision |-> "vision",
   vision_box |-> "vision"]

SourceCodes == DOMAIN SourceOf
Buttons == {"engage", "follow", "abort", "cancel_lock"}
AllCodes == {"idle", "escape", "reserved"} \cup SourceCodes \cup Buttons
Sources == {"black", "front", "ground", "vision"}

ASSUME ConstantsOK ==
  /\ \A s \in Scenarios :
       /\ s.codes \subseteq 0..OpsCodeMax
       /\ s.drifts \subseteq -33..24
  /\ NoBox \notin Boxes
  /\ DebounceFrames \in Nat \ {0}
  /\ EngageGate \in Nat
  /\ EscapeTimeout \in Nat
  /\ MaxTime \in Nat

VARIABLES
  scenario,       (* the one of this behaviour                             *)
  now,
  phase, candidate, stable, stableSince, debounce,   (* selection FSM      *)
  escapePending, escapeStarted, preEscape,           (* ESCAPE exchange    *)
  prevCode,       (* prev_ops_code                                         *)
  prevSource,     (* prev_source_name                                      *)
  task,           (* the asyncio tasks                                     *)
  vtx, inet,      (* sources the two routers of drone-control show         *)
  target,         (* box the detector is locked on                         *)
  run,            (* history: box of the last frames in a row, how many    *)
                  (* there were, up to DebounceFrames + 1, and when it got *)
                  (* that far                                              *)
  escapeSeen,     (* history: when the last frame came if it was ESCAPE,   *)
                  (* else -1                                               *)
  boxShown,       (* history: a VISION_BOX frame came since a button acted *)
  misread,        (* history: a frame was not decoded to what was sent     *)
  lateSubop,      (* history: a sub-opcode was taken out of its window     *)
  asked,          (* history: source of the last source code that came     *)
                  (* outside an ESCAPE exchange                            *)
  newest,         (* history: tasks with the newest POST of their router   *)
  missed          (* history: routers whose newest POST failed, or was     *)
                  (* handled before an older one                           *)

selection == << phase, candidate, stable, stableSince, debounce >>
escape == << escapePending, escapeStarted, preEscape >>
servers == << vtx, inet, target >>
posts == << newest, missed >>
history == << run, escapeSeen, boxShown, misread, lateSubop, asked >>
vars == << scenario, now, selection, escape, prevCode, prevSource, task,
           servers, history, posts >>

Free == [stage |-> "free"]

SourcePost(router, name) == [stage |-> "post", path |-> router, name |-> name]
ButtonPost(button) == [stage |-> "post", path |-> button]
EngagePost(box) == [stage |-> "post", path |-> "engage", box |-> box]
Asking(box) == [stage |-> "ask", path |-> "engage", box |-> box]
Answered(box, usable, locked) ==
  [stage |-> "answer", path |-> "engage", box |-> box, usable |-> usable,
   locked |-> locked]

Routers == {"vtx", "inet"}
SourceTask(t) == task[t] # Free /\ task[t].path \in Routers

-----------------------------------------------------------------------------
Init ==
  /\ scenario \in Scenarios
  /\ now = 0
  /\ phase = "idle" /\ candidate = NoBox /\ stable = NoBox
  /\ stableSince = 0 /\ debounce = 0
  /\ escapePending = FALSE /\ escapeStarted = 0 /\ preEscape = "idle"
  /\ prevCode = "idle" /\ prevSource = "black"
  /\ task = [t \in Tasks |-> Free]
  /\ vtx = "black" /\ inet = "vision" /\ target = NoBox
  /\ run = [box |-> NoBox, frames |-> 0, since |-> 0]
  /\ escapeSeen = -1 /\ boxShown = FALSE
  /\ misread = FALSE /\ lateSubop = FALSE
  /\ asked = "black" /\ newest = {} /\ missed = {}

Tick ==
  /\ now < MaxTime
  /\ now' = now + 1
  /\ UNCHANGED << selection, escape, prevCode, prevSource, task, servers,
                  history, posts, scenario >>

-----------------------------------------------------------------------------
(* 1. The selection, one step per frame *)

\* Channels 9 to 12 count only under VISION_BOX and the button codes.
Decoded(code, box) ==
  IF code = "vision_box" \/ code \in Buttons THEN box ELSE NoBox

Deselect ==
  /\ phase' = "idle" /\ candidate' = NoBox /\ stable' = NoBox
  /\ stableSince' = 0 /\ debounce' = 0

NewCandidate(box) ==
  /\ phase' = "stabilizing" /\ candidate' = box /\ stable' = NoBox
  /\ stableSince' = 0 /\ debounce' = DebounceFrames

SameCandidate(box) ==
  IF debounce = 0 THEN UNCHANGED selection
  ELSE /\ debounce' = debounce - 1
       /\ UNCHANGED candidate
       /\ IF debounce = 1
          THEN phase' = "ready" /\ stable' = box /\ stableSince' = now
          ELSE phase' = "stabilizing" /\ UNCHANGED << stable, stableSince >>

AdvanceSelection(decoded) ==
  \/ decoded = NoBox /\ Deselect
  \/ decoded # NoBox /\ decoded # candidate /\ NewCandidate(decoded)
  \/ decoded # NoBox /\ decoded = candidate /\ SameCandidate(decoded)

-----------------------------------------------------------------------------
(* 2. and 3. The ESCAPE exchange *)

EscapeTimedOut == escapePending /\ now - escapeStarted > EscapeTimeout

EscapeOpen == escapePending /\ ~ EscapeTimedOut

(* prev_ops_code once an expired exchange has been abandoned.              *)
CodeBefore == IF EscapeTimedOut THEN preEscape ELSE prevCode

EscapeFollowUp(code) ==
  /\ \/ /\ code = "reserved"                 \* the sub-opcode
        /\ escapePending' = FALSE
        /\ prevCode' = preEscape
        /\ UNCHANGED << escapeStarted, preEscape >>
     \/ /\ code = "escape"                   \* still waiting, timer restarts
        /\ escapeStarted' = now
        /\ UNCHANGED << escapePending, preEscape, prevCode >>
     \/ /\ code \notin {"reserved", "escape"} \* abandoned
        /\ escapePending' = FALSE
        /\ prevCode' = preEscape
        /\ UNCHANGED << escapeStarted, preEscape >>
  /\ UNCHANGED << prevSource, task, posts >>

-----------------------------------------------------------------------------
(* 4. Dispatch on a change of code *)

\* The bound on tasks.
FreeTasks == {t \in Tasks \cap scenario.tasks : task[t] = Free}

(* Both routers get a POST if the source name changes.                     *)
DispatchSource(name) ==
  IF name = prevSource THEN UNCHANGED << task, prevSource, posts >>
  ELSE /\ \E t, u \in FreeTasks :
            /\ t # u
            /\ task' = [task EXCEPT ![t] = SourcePost("vtx", name),
                                    ![u] = SourcePost("inet", name)]
            /\ newest' = {t, u}
       /\ prevSource' = name
       /\ missed' = {}

Start(record) == \E t \in FreeTasks : task' = [task EXCEPT ![t] = record]

\* Mutant: rule 2a is missing.
Engageable_NoGate == stable' # NoBox /\ phase' = "ready"

(* Rules 2d and 2a, on the selection this very frame has left.             *)
Engageable ==
  /\ stable' # NoBox
  /\ phase' = "ready"
  /\ now - stableSince' >= EngageGate

(* A button acts only if the code before it was VISION_BOX.                *)
ButtonActs(button) == CodeBefore = "vision_box"

Press(button) ==
  /\ IF ~ ButtonActs(button) THEN UNCHANGED task
     ELSE IF button # "engage" THEN Start(ButtonPost(button))
     ELSE IF Engageable THEN Start(Asking(stable'))
     ELSE UNCHANGED task
  /\ UNCHANGED << prevSource, posts >>

\* Mutant: the snapshot is taken once and never again.
EnterEscape_OldSnapshot ==
  /\ escapePending' = TRUE
  /\ escapeStarted' = now
  /\ preEscape' = IF preEscape = "idle" THEN CodeBefore ELSE preEscape

EnterEscape ==
  /\ escapePending' = TRUE
  /\ escapeStarted' = now
  /\ preEscape' = CodeBefore

LeaveEscape ==
  /\ escapePending' = FALSE
  /\ UNCHANGED << escapeStarted, preEscape >>

Dispatch(code) ==
  /\ prevCode' = code
  /\ \/ /\ code # CodeBefore /\ code = "escape"
        /\ EnterEscape
        /\ UNCHANGED << prevSource, task, posts >>
     \/ /\ code = CodeBefore \/ code \in {"idle", "reserved"}
        /\ LeaveEscape
        /\ UNCHANGED << prevSource, task, posts >>
     \/ /\ code # CodeBefore /\ code \in SourceCodes
        /\ LeaveEscape
        /\ DispatchSource(SourceOf[code])
     \/ /\ code # CodeBefore /\ code \in Buttons
        /\ LeaveEscape
        /\ Press(code)

(* The history of frames, kept apart from what the code remembers.         *)
RecordFrame(code, box) ==
  /\ run' =
       IF box = NoBox THEN [box |-> NoBox, frames |-> 0, since |-> 0]
       ELSE IF box # run.box THEN [box |-> box, frames |-> 1, since |-> 0]
       ELSE IF run.frames > DebounceFrames THEN run
       ELSE [box |-> box, frames |-> run.frames + 1,
             since |-> IF run.frames = DebounceFrames THEN now ELSE 0]
  /\ escapeSeen' = IF code = "escape" THEN now ELSE -1
  /\ asked' = IF ~ EscapeOpen /\ code \in SourceCodes THEN SourceOf[code] ELSE asked
  /\ lateSubop' = \/ lateSubop
                  \/ /\ EscapeOpen /\ code = "reserved"
                     /\ escapeSeen = -1 \/ now - escapeSeen > EscapeTimeout
  /\ IF /\ ~ EscapeOpen /\ code \in Buttons
        /\ code # CodeBefore /\ ButtonActs(code)
     THEN boxShown' = FALSE
     ELSE boxShown' = (boxShown \/ code = "vision_box")

(* VisionLockHandler.on_channels, for a decoded code.                      *)
OnChannels(code, box) ==
  /\ AdvanceSelection(Decoded(code, box))
  /\ IF EscapeOpen THEN EscapeFollowUp(code) ELSE Dispatch(code)
  /\ RecordFrame(code, Decoded(code, box))
  /\ UNCHANGED << now, servers >>

(* A radio frame.                                                          *)
Frame(sent, drift, box) ==
  LET code == CodeName[DecodeOpsCode(CodeUs(sent) + drift)]
  IN /\ OnChannels(code, box)
     /\ misread' = (misread \/ code # CodeName[sent])
     /\ UNCHANGED scenario

-----------------------------------------------------------------------------
(* The asyncio tasks *)

(* The detector answers the probe, or the probe fails or is stale.         *)
AnswerProbe(t) ==
  /\ task[t].stage = "ask"
  /\ \E usable \in BOOLEAN :
       task' = [task EXCEPT ![t] = Answered(task[t].box, usable, target)]
  /\ UNCHANGED << now, selection, escape, prevCode, prevSource, servers,
                  history, posts, scenario >>

(* Rules 2b and 4, then the commit, which begins the POST.                 *)
Commits(t) == task[t].usable /\ task[t].locked # task[t].box

CommitEngage(t) ==
  /\ task[t].stage = "answer"
  /\ Commits(t)
  /\ phase' = "dispatched"
  /\ task' = [task EXCEPT ![t] = EngagePost(task[t].box)]
  /\ UNCHANGED << now, candidate, stable, stableSince, debounce, escape,
                  prevCode, prevSource, servers, history, posts, scenario >>

RejectEngage(t) ==
  /\ task[t].stage = "answer"
  /\ ~ Commits(t)
  /\ task' = [task EXCEPT ![t] = Free]
  /\ UNCHANGED << now, selection, escape, prevCode, prevSource, servers,
                  history, posts, scenario >>

(* The newest POST of this router is still under way.                      *)
Pending(router) == \E t \in newest : task[t].path = router

(* drone-control handles a POST; /vision/follow and /abort are stubs.      *)
Deliver(t) ==
  /\ task[t].stage = "post"
  /\ LET p == task[t] IN
     \/ p.path = "vtx" /\ vtx' = p.name /\ UNCHANGED << inet, target >>
     \/ p.path = "inet" /\ inet' = p.name /\ UNCHANGED << vtx, target >>
     \/ p.path = "engage" /\ target' = p.box /\ UNCHANGED << vtx, inet >>
     \/ p.path = "cancel_lock" /\ target' = NoBox /\ UNCHANGED << vtx, inet >>
     \/ p.path \in {"follow", "abort"} /\ UNCHANGED servers
  /\ task' = [task EXCEPT ![t] = Free]
  /\ newest' = newest \ {t}
  /\ missed' = IF SourceTask(t) /\ ~ Pending(task[t].path)
               THEN missed \cup {task[t].path} ELSE missed
  /\ UNCHANGED << now, selection, escape, prevCode, prevSource, history,
                  scenario >>

(* A POST fails: a warning in the log and no second attempt.               *)
Fail(t) ==
  /\ scenario.fail
  /\ task[t].stage = "post"
  /\ task' = [task EXCEPT ![t] = Free]
  /\ newest' = newest \ {t}
  /\ missed' = IF SourceTask(t) /\ t \in newest THEN missed \cup {task[t].path} ELSE missed
  /\ UNCHANGED << now, selection, escape, prevCode, prevSource, servers,
                  history, scenario >>

Next ==
  \/ Tick
  \/ \E sent \in scenario.codes, drift \in scenario.drifts, box \in Boxes :
       Frame(sent, drift, box)
  \/ \E t \in Tasks :
       \/ AnswerProbe(t) \/ CommitEngage(t) \/ RejectEngage(t)
       \/ Deliver(t) \/ Fail(t)

Spec == Init /\ [][Next]_vars

-----------------------------------------------------------------------------
(* Properties *)

Selections == Boxes \cup {NoBox}

TaskRecords ==
  {Free}
  \cup {SourcePost(r, n) : r \in Routers, n \in Sources}
  \cup {ButtonPost(b) : b \in Buttons \ {"engage"}}
  \cup {EngagePost(b) : b \in Boxes}
  \cup {Asking(b) : b \in Boxes}
  \cup {Answered(b, u, l) : b \in Boxes, u \in BOOLEAN, l \in Selections}

(* Every variable keeps its type.                                          *)
TypeOK ==
  /\ scenario \in Scenarios
  /\ now \in Nat
  /\ phase \in {"idle", "stabilizing", "ready", "dispatched"}
  /\ candidate \in Selections /\ stable \in Selections
  /\ stableSince \in Nat /\ debounce \in 0..DebounceFrames
  /\ escapePending \in BOOLEAN /\ escapeStarted \in Nat
  /\ preEscape \in AllCodes /\ prevCode \in AllCodes
  /\ prevSource \in Sources /\ vtx \in Sources /\ inet \in Sources
  /\ target \in Selections
  /\ task \in [Tasks -> TaskRecords]
  /\ run \in [box : Selections, frames : 0..(DebounceFrames + 1), since : Nat]
  /\ escapeSeen \in Nat \cup {-1}
  /\ boxShown \in BOOLEAN /\ misread \in BOOLEAN
  /\ lateSubop \in BOOLEAN /\ asked \in Sources
  /\ newest \subseteq Tasks /\ missed \subseteq Routers

(* No drift of the radio turns the code the phone sent into another one:   *)
(* no button and no source is fabricated on the way.                       *)
CodeSurvivesDrift == ~ misread

(* Rule 1: the frozen box is the one the last frames have carried in a     *)
(* row, for more than the debounce count, and its age is counted from the  *)
(* frame that completed the count.                                         *)
StableIsHeld ==
  /\ candidate = run.box
  /\ stable = IF run.frames > DebounceFrames THEN run.box ELSE NoBox
  /\ stable # NoBox => stableSince = run.since

(* A task starts in this step for something other than a router.           *)
StartsButton(t) ==
  task[t] = Free /\ task'[t] # Free /\ task'[t].path \in Buttons

(* Rules 2d and 2a: an ENGAGE goes on only for the box the operator sees   *)
(* at that moment, held without interruption for the debounce and then for *)
(* the gate time; an ESCAPE, a glitch or another box in between starts it  *)
(* all again.                                                              *)
EngageOnlyHeld ==
  [][\A t \in Tasks :
       StartsButton(t) /\ task'[t].path = "engage" =>
         /\ run'.frames > DebounceFrames
         /\ task'[t].box = run'.box
         /\ now - run'.since >= EngageGate]_task

(* One press acts once: between two actions of buttons the phone has shown *)
(* VISION_BOX, whatever ESCAPE exchanges, timeouts and reserved codes come *)
(* between.                                                                *)
OnePressOneAction == [][\A t \in Tasks : StartsButton(t) => boxShown]_task

(* A reserved code is taken as a sub-opcode only in the frame right after  *)
(* an ESCAPE frame, and no later than the timeout after it.                *)
SubOpcodeInWindow == ~ lateSubop

Shown(router) == IF router = "vtx" THEN vtx ELSE inet

(* Each router shows the source the operator asked for last, or the POST   *)
(* that asks for it is under way, failed, or was handled before an older   *)
(* one.  Whatever POSTs of earlier switches failed or overtook each other, *)
(* and whatever ESCAPE exchanges came between, no other reason can keep    *)
(* it from following: no source is taken for one that was selected before. *)
RoutersFollowSelection ==
  asked # "black" =>
    \A router \in Routers :
      Shown(router) = asked \/ Pending(router) \/ router \in missed
================================================================================

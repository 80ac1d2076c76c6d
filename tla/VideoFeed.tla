------------------------------- MODULE VideoFeed -------------------------------
(***************************************************************************)
(* How a camera frame comes to be seen.  In drone-control: the capture     *)
(* thread of a camera (camera.py), the endpoints that serve its frames,    *)
(* and a broadcast router with its active source (vtx_broadcast.py), read  *)
(* by HTTP threads and by a stream that runs on the event loop.  In        *)
(* vision-detect: the thread that grabs frames from drone-control, and     *)
(* /frame, which the router's source "vision" asks.  The two programs wait *)
(* for each other.                                                         *)
(*                                                                         *)
(* A frame is known by the source it came from; there is one router, of    *)
(* the two alike, and one stream.  The detector's loop is a module of its  *)
(* own.                                                                    *)
(***************************************************************************)
EXTENDS Naturals

CONSTANTS
  Viewers,   (* HTTP threads that ask for a snapshot                       *)
  Stream,    (* the stream, on the event loop                              *)
  Sources    (* registered sources                                         *)

ASSUME FeedConstantsOK ==
  /\ Stream \notin Viewers
  /\ {"front", "vision"} \subseteq Sources /\ "nothing" \notin Sources

VARIABLES
  up,        (* the camera is plugged in                                   *)
  camera,    (* where its capture thread is, and whether it has a frame    *)
  source,    (* the router's active source                                 *)
  lastGood,  (* the router's last good frame of each source                *)
  reader,    (* the threads that read a frame from the router              *)
  pending,   (* the detector's slot holds a frame its loop has not taken   *)
  picture    (* the annotated picture of /frame: none, none but asked for  *)
             (* within the last two seconds, or there, new or old          *)

gatewayVars == << source, lastGood, reader >>
feedVars == << up, camera, gatewayVars, pending, picture >>

Nothing == "nothing"
Readers == Viewers \cup {Stream}
Resting == [at |-> "idle", name |-> Nothing, frame |-> Nothing]

(* camera.start() starts no thread for a device that is not there.         *)
FeedInit ==
  /\ up \in BOOLEAN
  /\ camera = [at |-> IF up THEN "open" ELSE "off", frame |-> FALSE]
  /\ source = "front"
  /\ lastGood = [s \in Sources |-> Nothing]
  /\ reader = [r \in Readers |-> Resting]
  /\ pending = FALSE
  /\ picture = "none"

-----------------------------------------------------------------------------
(* The camera *)

Unplug == up /\ up' = FALSE /\ UNCHANGED << camera, gatewayVars, pending, picture >>

Plug == ~ up /\ up' = TRUE /\ UNCHANGED << camera, gatewayVars, pending, picture >>

CameraAt(from, to) ==
  /\ camera.at = from
  /\ camera' = [camera EXCEPT !.at = to]
  /\ UNCHANGED << up, gatewayVars, pending, picture >>

(* The capturing program starts, and ends at once without a device.        *)
OpenCamera == CameraAt("open", IF up THEN "reading" ELSE "backoff")

(* It may end at any time, and does when the device goes.                  *)
EndOfFrames == CameraAt("reading", "backoff")

\* Mutant: the thread ends with the program.
AfterBackoff_Ends == "off"

AfterBackoff == "open"

Retry == CameraAt("backoff", AfterBackoff)

(* The frame stays there when the camera has gone.                         *)
Capture ==
  /\ camera.at = "reading" /\ up
  /\ camera' = [camera EXCEPT !.frame = TRUE]
  /\ UNCHANGED << up, gatewayVars, pending, picture >>

-----------------------------------------------------------------------------
(* The router *)

(* The stream reads the router on the event loop: drone-control sends no   *)
(* answer meanwhile.  A handler that already runs in a worker thread goes  *)
(* on: it may switch the source, or read the router, under the stream.     *)
Blocked == reader[Stream].at # "idle"

Switch(s) ==
  /\ source # s
  /\ source' = s
  /\ UNCHANGED << up, camera, lastGood, reader, pending, picture >>

Step(r, from, to) ==
  /\ reader[r].at = from
  /\ reader' = [reader EXCEPT ![r] = to]

(* get_frame takes the active source under the lock and leaves it.         *)
Ask(r) ==
  /\ Step(r, "idle", [at |-> "fetch", name |-> source, frame |-> Nothing])
  /\ UNCHANGED << up, camera, source, lastGood, pending, picture >>

Fetched(r, frame) == [reader[r] EXCEPT !.at = "cache", !.frame = frame]

(* A source in this program; only the camera's may have nothing.           *)
FetchHere(r) ==
  /\ reader[r].name # "vision"
  /\ Step(r, "fetch", Fetched(r, IF reader[r].name = "front" /\ ~ camera.frame
                                 THEN Nothing ELSE reader[r].name))
  /\ UNCHANGED << up, camera, source, lastGood, pending, picture >>

(* /frame of the detector: the request is noted, and the picture there is, *)
(* however old, is the answer.                                             *)
FetchVision(r) ==
  /\ reader[r].name = "vision"
  /\ Step(r, "fetch", Fetched(r, IF picture = "there" THEN "vision" ELSE Nothing))
  /\ picture' = IF picture = "none" THEN "asked" ELSE picture
  /\ UNCHANGED << up, camera, source, lastGood, pending >>

\* Mutant: the request has no time-out.
GivesUp_Never(r) == FALSE

GivesUp(r) == reader[r].name = "vision"

(* 0.5 s have passed without an answer, or the connection failed.          *)
FetchFails(r) ==
  /\ GivesUp(r)
  /\ Step(r, "fetch", Fetched(r, Nothing))
  /\ UNCHANGED << up, camera, source, lastGood, pending, picture >>

\* Mutant: a frame is kept as one of the source that is active by now.
KeptAs_Active(r) == source

KeptAs(r) == reader[r].name

(* A frame is kept as the source's last good one; without a frame that one *)
(* is the answer.                                                          *)
Answer(r) ==
  LET me == reader[r] IN
  /\ IF me.frame # Nothing
     THEN /\ lastGood' = [lastGood EXCEPT ![KeptAs(r)] = me.frame]
          /\ Step(r, "cache", [me EXCEPT !.at = "reply"])
     ELSE /\ Step(r, "cache", [me EXCEPT !.at = "reply", !.frame = lastGood[me.name]])
          /\ UNCHANGED lastGood
  /\ UNCHANGED << up, camera, source, pending, picture >>

(* The frame, or 503, is sent by the event loop.                           *)
Reply(r) ==
  /\ r # Stream => ~ Blocked
  /\ Step(r, "reply", Resting)
  /\ UNCHANGED << up, camera, source, lastGood, pending, picture >>

-----------------------------------------------------------------------------
(* The detector *)

(* Its grabbing thread has got a frame from drone-control, which replaces  *)
(* the one in the slot, taken or not.  An attempt that fails - there is no *)
(* frame, or no answer within a second - changes nothing; an answer sent   *)
(* before the stream held up the event loop may come while it does.        *)
Grab ==
  /\ camera.frame
  /\ pending' = TRUE
  /\ UNCHANGED << up, camera, gatewayVars, picture >>

(* Two seconds pass without a request for /frame.                          *)
Silence ==
  /\ picture = "asked" /\ picture' = "none"
  /\ UNCHANGED << up, camera, gatewayVars, pending >>

-----------------------------------------------------------------------------
CameraStep == OpenCamera \/ Retry

CameraFaults == Unplug \/ Plug \/ EndOfFrames

ReaderStep(r) == FetchHere(r) \/ FetchFails(r) \/ Answer(r)

(* What needs somebody to look or to switch.                               *)
Watching == (\E r \in Readers : Ask(r)) \/ \E s \in Sources : Switch(s)

FeedNext ==
  \/ CameraStep \/ Capture
  \/ \E r \in Readers : FetchVision(r) \/ ReaderStep(r) \/ Reply(r)
  \/ Grab
  \/ Silence

FeedSpec == FeedInit /\ [][FeedNext \/ CameraFaults \/ Watching]_feedVars

-----------------------------------------------------------------------------
(* Properties *)

Frames == Sources \cup {Nothing}

(* Every variable keeps its type.                                          *)
FeedTypeOK ==
  /\ up \in BOOLEAN
  /\ camera \in [at : {"off", "open", "reading", "backoff"}, frame : BOOLEAN]
  /\ source \in Sources
  /\ lastGood \in [Sources -> Frames]
  /\ reader \in [Readers -> [at : {"idle", "fetch", "cache", "reply"}, name : Frames,
                             frame : Frames]]
  /\ pending \in BOOLEAN
  /\ picture \in {"none", "asked", "there"}

(* Never cross-pollinate between sources: whoever reads, however slow the  *)
(* source and whatever is switched meanwhile, gets a frame of the source   *)
(* that was active when it asked, or none.                                 *)
OwnFramesOnly ==
  \A r \in Readers : reader[r].frame \in {reader[r].name, Nothing}

(* Whoever asks for a picture is answered, though the stream and the       *)
(* grabber of the other program hold up the event loop and the detector    *)
(* may not answer at all.                                                  *)
ViewersAnswered == \A r \in Readers : reader[r].at # "idle" ~> reader[r].at = "idle"

(* A camera that was there at the start and goes is read again when it     *)
(* comes back.                                                             *)
CameraReadAgain == up /\ camera.at # "off" ~> ~ up \/ camera.at = "reading"
================================================================================

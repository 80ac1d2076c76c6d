-------------------------------- MODULE BleServer --------------------------------
(***************************************************************************)
(* The BLE peripheral of drone_bridge: ble.py on top of gatt.py and rpc.py,*)
(* with BlueZ and the centrals (a phone, the ground station) around it.    *)
(*                                                                         *)
(* Two activities share one event loop.  The watchdog keeps the GATT       *)
(* application and the advertisement registered with BlueZ; every call to  *)
(* BlueZ is a step of BlueZ, which leaves a reply, and a later step of the *)
(* bridge, which reads it.  The request path puts the writes of a central  *)
(* together to requests, serves them one at a time and sends the answer in *)
(* paced notifications.  They meet in the buffers of unfinished requests,  *)
(* which the watchdog empties.                                             *)
(*                                                                         *)
(* A central's i-th request of a session has the request id i, as a phone  *)
(* that counts its requests from its own start would number them.  A       *)
(* fragment is the session, the id and its number; what it carries does    *)
(* not matter here.  Counters, logging and the fields of the payloads are  *)
(* left out, and so is a write that does not decode: it changes nothing.   *)
(***************************************************************************)
EXTENDS Integers, Sequences, SequencesExt

CONSTANTS
  MaxSessions,   (* bound: connections of centrals                         *)
  MaxRequests,   (* bound: requests of one session                         *)
  MaxFragments,  (* bound: writes of one request                           *)
  Notifications, (* fragments of an answer                                 *)
  MaxFaults      (* bound: restarts, failed calls, lost advertisements     *)

ASSUME BleBounds ==
  /\ MaxSessions \in Nat
  /\ MaxRequests \in Nat
  /\ MaxFragments \in Nat
  /\ Notifications \in Nat \ {0}
  /\ MaxFaults \in Nat

Sessions == 1 .. MaxSessions
Ids == 1 .. MaxRequests
Fragment == Sessions \X Ids \X (1 .. MaxFragments)

VARIABLES
  bluez,         (* bluetoothd runs                                        *)
  appKnown,      (* BlueZ serves our GATT application                      *)
  advertising,   (* BlueZ broadcasts our advertisement                     *)
  central,       (* session of the connected central, or 0                 *)
  sessions,      (* bound: sessions so far                                 *)
  subscribed,    (* BlueZ forwards notifications to the central            *)
  faults,        (* bound: faults so far                                   *)
  wd,            (* what start() or the watchdog is doing; "off": no process *)
  reply,         (* BlueZ's reply to its call, "none" before it            *)
  appRegistered, (* _app_registered                                        *)
  advRegistered, (* _adv_registered                                        *)
  released,      (* Advertisement._released                                *)
  healthy,       (* ServiceHealth("ble").healthy                           *)
  notifying,     (* GattCharacteristic._notifying of CHAR_RESPONSE         *)
  value,         (* GattCharacteristic._value: the answer, its fragment    *)
  bodies,        (* RequestReassembler._bodies; the first fragment of a    *)
                 (* body is also its entry in _heads                       *)
  jobs,          (* complete requests in order of completion               *)
  sent,          (* writes each session has made of each request           *)
  ended,         (* requests whose last fragment was written               *)
  heard,         (* session that was notified last                         *)
  torn,          (* history: requests cut while their central wrote them   *)
  quiet          (* history: a connection was made or an advertisement     *)
                 (* lost of which no Release tells the process             *)

blueZVars == << bluez, appKnown, advertising, central, sessions, subscribed >>
registration == << wd, reply, appRegistered, advRegistered, released, healthy >>
requests == << notifying, value, bodies, jobs, heard >>
phone == << sent, ended >>
vars == << blueZVars, faults, registration, requests, phone, torn, quiet >>

NoValue == [body |-> << >>, n |-> 0]
NoBodies == [i \in Ids |-> << >>]
NobodyWrote == [s \in Sessions |-> [i \in Ids |-> 0]]

Init ==
  /\ bluez = TRUE /\ appKnown = FALSE /\ advertising = FALSE
  /\ central = 0 /\ sessions = 0 /\ subscribed = FALSE /\ faults = 0
  /\ wd = "off" /\ reply = "none"
  /\ appRegistered = FALSE /\ advRegistered = FALSE /\ released = FALSE
  /\ healthy = TRUE
  /\ notifying = FALSE /\ value = NoValue /\ bodies = NoBodies /\ jobs = << >>
  /\ sent = NobodyWrote /\ ended = {} /\ heard = 0
  /\ torn = {} /\ quiet = FALSE

Fault == faults < MaxFaults /\ faults' = faults + 1

Running == wd # "off"

(* Requests the connected central is in the middle of writing.             *)
Underway == {r \in ({central} \cap Sessions) \X Ids :
               sent[r[1]][r[2]] > 0 /\ r \notin ended}

-----------------------------------------------------------------------------
(* BlueZ: centrals come and go *)

(* Connecting ends the advertisement, and BlueZ calls Release on it.       *)
Connect ==
  /\ bluez /\ advertising /\ central = 0 /\ sessions < MaxSessions
  /\ central' = sessions + 1
  /\ sessions' = sessions + 1
  /\ advertising' = FALSE
  /\ released' = TRUE
  /\ UNCHANGED << bluez, appKnown, subscribed, faults, wd, reply, appRegistered,
                  advRegistered, healthy, requests, phone, torn, quiet >>

Subscribe ==
  /\ central # 0 /\ appKnown /\ ~ subscribed
  /\ subscribed' = TRUE
  /\ notifying' = TRUE
  /\ UNCHANGED << bluez, appKnown, advertising, central, sessions, faults,
                  registration, value, bodies, jobs, heard, phone, torn, quiet >>

(* The link ends; BlueZ calls StopNotify for a central that had subscribed.*)
Disconnect ==
  /\ central # 0
  /\ central' = 0
  /\ subscribed' = FALSE
  /\ notifying' = (notifying /\ ~ subscribed)
  /\ UNCHANGED << bluez, appKnown, advertising, sessions, faults, registration,
                  value, bodies, jobs, heard, phone, torn, quiet >>

(* The advertisement disappears without a Release.                         *)
LoseAdvertisement ==
  /\ advertising
  /\ Fault
  /\ advertising' = FALSE
  /\ quiet' = TRUE
  /\ UNCHANGED << bluez, appKnown, central, sessions, subscribed, registration,
                  requests, phone, torn >>

BlueZDies ==
  /\ bluez
  /\ Fault
  /\ bluez' = FALSE /\ appKnown' = FALSE /\ advertising' = FALSE
  /\ central' = 0 /\ subscribed' = FALSE
  /\ quiet' = TRUE
  /\ UNCHANGED << sessions, registration, requests, phone, torn >>

BlueZReturns ==
  /\ ~ bluez
  /\ bluez' = TRUE
  /\ UNCHANGED << appKnown, advertising, central, sessions, subscribed, faults,
                  registration, requests, phone, torn, quiet >>

-----------------------------------------------------------------------------
(* BlueZ: replies to the calls of the bridge *)

CallsApp == {"start_app", "again_app"}
CallsAdv == {"start_adv", "rearm", "again_adv", "restore"}

Replies(r) ==
  /\ reply' = r
  /\ UNCHANGED << wd, appRegistered, advRegistered, released, healthy, requests,
                  phone, torn, quiet >>

(* A call may fail when it should not.                                     *)
AnswerFailed ==
  /\ wd \in CallsApp \cup CallsAdv \cup {"count", "resolve"} /\ reply = "none"
  /\ Fault
  /\ Replies("error")
  /\ UNCHANGED blueZVars

AnswerApp ==
  /\ wd \in CallsApp /\ reply = "none"
  /\ appKnown' = bluez
  /\ Replies(IF bluez /\ ~ appKnown THEN "ok" ELSE "error")
  /\ UNCHANGED << bluez, advertising, central, sessions, subscribed, faults >>

(* A second registration is rejected as "already exists"; so is one during *)
(* a connection, or with another error.                                    *)
AnswerAdv ==
  /\ wd \in CallsAdv /\ reply = "none"
  /\ advertising' = (bluez /\ (advertising \/ central = 0))
  /\ \E r \in {"ok", "exists", "error"} :
       /\ r = "ok" <=> bluez /\ ~ advertising /\ central = 0
       /\ r = "exists" => bluez
       /\ r = "error" => ~ bluez \/ central # 0
       /\ Replies(r)
  /\ UNCHANGED << bluez, appKnown, central, sessions, subscribed, faults >>

(* LEAdvertisingManager1.ActiveInstances; introspection of the adapter.    *)
AnswerCount ==
  /\ wd = "count" /\ reply = "none"
  /\ Replies(IF ~ bluez THEN "error" ELSE IF advertising THEN "some" ELSE "zero")
  /\ UNCHANGED << blueZVars, faults >>

AnswerResolve ==
  /\ wd = "resolve" /\ reply = "none"
  /\ Replies(IF bluez THEN "ok" ELSE "error")
  /\ UNCHANGED << blueZVars, faults >>

BlueZAnswers == AnswerApp \/ AnswerAdv \/ AnswerCount \/ AnswerResolve

-----------------------------------------------------------------------------
(* The bridge: start, watchdog, exit *)

(* Leave the await of a call with its reply.                               *)
Resume(from, to) == wd = from /\ reply # "none" /\ wd' = to /\ reply' = "none"

(* ServiceHealth: what /healthz shows of "ble".                            *)
ReportError == healthy' = FALSE
ReportRecovery == healthy' = TRUE

(* start(): drone-control has answered or the deadline has passed, the bus *)
(* is connected and the tree exported.                                     *)
Start ==
  /\ wd = "off"
  /\ wd' = "start_app"
  /\ UNCHANGED << blueZVars, faults, reply, appRegistered, advRegistered, released,
                  healthy, requests, phone, torn, quiet >>

(* The process ends - a signal, a task that returned, an exception - and   *)
(* BlueZ forgets what it had registered.                                   *)
Gone ==
  /\ wd' = "off" /\ reply' = "none"
  /\ appRegistered' = FALSE /\ advRegistered' = FALSE /\ released' = FALSE
  /\ healthy' = TRUE
  /\ appKnown' = FALSE /\ advertising' = FALSE /\ subscribed' = FALSE
  /\ notifying' = FALSE /\ value' = NoValue /\ bodies' = NoBodies /\ jobs' = << >>
  /\ heard' = 0
  /\ torn' = torn \cup Underway
  /\ quiet' = (quiet \/ central # 0)
  /\ UNCHANGED << bluez, central, sessions, phone >>

Exit ==
  /\ Running
  /\ Fault
  /\ Gone

(* start() registers the application; a failure ends the process.          *)
StartApp ==
  \/ /\ reply = "ok"
     /\ Resume("start_app", "start_adv")
     /\ appRegistered' = TRUE
     /\ UNCHANGED << blueZVars, faults, advRegistered, released, healthy, requests,
                     phone, torn, quiet >>
  \/ /\ wd = "start_app" /\ reply = "error"
     /\ Gone
     /\ UNCHANGED faults

(* What _register_advertisement makes of a reply.  reset_released takes a  *)
(* Release back: the one that was acted on, or one that came meanwhile.    *)
AdvertisementReply(actedOn) ==
  /\ advRegistered' = (advRegistered \/ reply \in {"ok", "exists"})
  /\ released' = (released /\ reply # "ok")
  /\ quiet' = (quiet \/ (reply = "ok" /\ (~ advertising \/ (released /\ ~ actedOn))))

StartAdv ==
  /\ Resume("start_adv", "sleep")
  /\ AdvertisementReply(FALSE)
  /\ ReportRecovery
  /\ UNCHANGED << blueZVars, faults, appRegistered, requests, phone, torn >>

(* A tick of the watchdog: re-arm a released advertisement, or count.      *)
Tick ==
  /\ wd = "sleep"
  /\ IF released
     THEN wd' = "rearm" /\ advRegistered' = FALSE
     ELSE wd' = "count" /\ UNCHANGED advRegistered
  /\ UNCHANGED << blueZVars, faults, reply, appRegistered, released, healthy,
                  requests, phone, torn, quiet >>

\* Mutant: clear() is not called when the advertisement is re-armed.
Clear_Forgotten == UNCHANGED << bodies, torn >>

(* RequestReassembler.clear *)
Clear ==
  /\ bodies' = NoBodies
  /\ torn' = torn \cup Underway

Rearm ==
  /\ Resume("rearm", "sleep")
  /\ AdvertisementReply(TRUE)
  /\ IF advRegistered' THEN Clear ELSE UNCHANGED << bodies, torn >>
  /\ UNCHANGED << blueZVars, faults, appRegistered, healthy, notifying, value, jobs,
                  heard, phone >>

\* Mutant: the cross-check with ActiveInstances re-registers nothing.
Restores_Never == FALSE

(* Nothing is active though the bridge thinks that it advertises.          *)
Restores == reply = "zero" /\ advRegistered

(* The count failed: resolve the managers again.  It is wrong: register    *)
(* the advertisement again.                                                *)
Count ==
  /\ \/ /\ reply = "error"
        /\ Resume("count", "resolve")
        /\ UNCHANGED advRegistered
     \/ /\ Restores
        /\ Resume("count", "restore")
        /\ advRegistered' = FALSE
     \/ /\ reply \in {"some", "zero"} /\ ~ Restores
        /\ Resume("count", "sleep")
        /\ UNCHANGED advRegistered
  /\ IF wd' = "sleep" THEN ReportRecovery ELSE ReportError
  /\ UNCHANGED << blueZVars, faults, appRegistered, released, requests, phone, torn,
                  quiet >>

Resolve ==
  /\ \/ /\ reply = "ok"
        /\ Resume("resolve", "again_app")
        /\ appRegistered' = FALSE /\ advRegistered' = FALSE
     \/ /\ reply = "error"
        /\ Resume("resolve", "sleep")
        /\ UNCHANGED << appRegistered, advRegistered >>
  /\ UNCHANGED << blueZVars, faults, released, healthy, requests, phone, torn, quiet >>

AgainApp ==
  /\ \/ /\ reply = "ok"
        /\ Resume("again_app", "again_adv")
        /\ appRegistered' = TRUE
     \/ /\ reply = "error"
        /\ Resume("again_app", "sleep")
        /\ UNCHANGED appRegistered
  /\ UNCHANGED << blueZVars, faults, advRegistered, released, healthy, requests,
                  phone, torn, quiet >>

(* The other two calls of _register_advertisement, and back to sleep.      *)
AdvAgain ==
  /\ Resume("again_adv", "sleep") \/ Resume("restore", "sleep")
  /\ AdvertisementReply(FALSE)
  /\ UNCHANGED << blueZVars, faults, appRegistered, healthy, requests, phone, torn >>

Watchdog == \/ StartApp \/ StartAdv \/ Tick \/ Rearm \/ Count \/ Resolve
            \/ AgainApp \/ AdvAgain

-----------------------------------------------------------------------------
(* The bridge: requests and answers *)

(* RequestReassembler.feed: the body so far with one more fragment.        *)
Fed(frag) == Append(bodies[frag[2]], frag)

Waiting(body) == [body |-> body, at |-> "waiting", n |-> 0]

(* The central writes the next fragment of a request, the last one or not: *)
(* _on_request_bytes up to the lock.  The coroutine that a reply has woken *)
(* runs before the task of a write that BlueZ sent after the reply.        *)
Write(i, last) ==
  /\ Running /\ appKnown /\ central # 0 /\ reply = "none"
  /\ << central, i >> \notin ended
  /\ sent[central][i] < MaxFragments
  /\ i > 1 => sent[central][i - 1] > 0
  /\ LET frag == << central, i, sent[central][i] + 1 >> IN
       /\ sent' = [sent EXCEPT ![central][i] = @ + 1]
       /\ IF last
          THEN /\ bodies' = [bodies EXCEPT ![i] = << >>]
               /\ jobs' = Append(jobs, Waiting(Fed(frag)))
               /\ ended' = ended \cup {<< central, i >>}
          ELSE /\ bodies' = [bodies EXCEPT ![i] = Fed(frag)]
               /\ UNCHANGED << jobs, ended >>
  /\ UNCHANGED << blueZVars, faults, registration, notifying, value, heard, torn,
                  quiet >>

\* Mutant: requests are served as they come.
LockFree_Always == TRUE

(* _inflight_lock: held by a job that is not waiting, passed on in order.  *)
LockFree == \A j \in DOMAIN jobs : jobs[j].at = "waiting"

TakeTurn ==
  /\ LockFree
  /\ \E j \in DOMAIN jobs :
       /\ jobs[j].at = "waiting"
       /\ \A i \in 1 .. j - 1 : jobs[i].at # "waiting"
       /\ jobs' = [jobs EXCEPT ![j].at = "dispatch"]
  /\ UNCHANGED << blueZVars, faults, registration, notifying, value, bodies, heard,
                  phone, torn, quiet >>

(* update_value: BlueZ passes it on to a central that has subscribed.      *)
Notify(j, k) ==
  /\ value' = [body |-> jobs[j].body, n |-> k]
  /\ heard' = IF subscribed THEN central ELSE 0

\* Mutant: an answer that nobody listens to leaves the lock taken.
Finish_KeepsLock(j) == UNCHANGED << jobs, value, heard >>

(* The lock is released and the task ends.                                 *)
Finish(j) == jobs' = RemoveAt(jobs, j) /\ UNCHANGED << value, heard >>

\* Mutant: the answer is sent whether or not somebody listens.
Listened_Unchecked == TRUE

(* The check of _send_response.                                            *)
Listened == notifying

(* _dispatch returns - an answer, a time-out, an error - and _send_response*)
(* begins, or drops the answer when nobody has subscribed.                 *)
Dispatched(j) ==
  /\ jobs[j].at = "dispatch"
  /\ IF Listened
     THEN /\ Notify(j, 1)
          /\ jobs' = [jobs EXCEPT ![j].at = "notify", ![j].n = 1]
     ELSE Finish(j)
  /\ UNCHANGED << blueZVars, faults, registration, notifying, bodies, phone, torn,
                  quiet >>

(* RpcResponse.fragment has more to yield.                                 *)
MoreToSend(j) == jobs[j].n < Notifications

(* The pause after a fragment is over: the next one, or the end.           *)
Paced(j) ==
  /\ jobs[j].at = "notify"
  /\ IF MoreToSend(j)
     THEN /\ Notify(j, jobs[j].n + 1)
          /\ jobs' = [jobs EXCEPT ![j].n = @ + 1]
     ELSE Finish(j)
  /\ UNCHANGED << blueZVars, faults, registration, notifying, bodies, phone, torn,
                  quiet >>

Serve == TakeTurn \/ \E j \in DOMAIN jobs : Dispatched(j) \/ Paced(j)

BlueZ ==
  \/ Connect \/ Subscribe \/ Disconnect
  \/ LoseAdvertisement \/ BlueZDies \/ BlueZReturns
  \/ BlueZAnswers \/ AnswerFailed

Next ==
  \/ BlueZ
  \/ Start \/ Exit \/ Watchdog \/ Serve
  \/ \E i \in Ids, last \in BOOLEAN : Write(i, last)

Spec == Init /\ [][Next]_vars

(* The container is restarted when it ends, bluetoothd by systemd; BlueZ   *)
(* answers its calls; the event loop runs what is ready, and every HTTP    *)
(* call and pause ends.                                                    *)
FairSpec ==
  /\ Spec
  /\ WF_vars(Start) /\ WF_vars(Watchdog)
  /\ WF_vars(BlueZReturns) /\ WF_vars(BlueZAnswers)
  /\ WF_vars(Serve)

-----------------------------------------------------------------------------
(* Properties *)

Job == [body : Seq(Fragment), at : {"waiting", "dispatch", "notify"},
        n : 0 .. Notifications]

(* Every variable has its type, and what BlueZ serves exists only while it *)
(* and the bridge run.                                                     *)
TypeOK ==
  /\ {bluez, appKnown, advertising, subscribed, appRegistered, advRegistered,
      released, healthy, notifying, quiet} \subseteq BOOLEAN
  /\ central \in 0 .. sessions /\ sessions \in 0 .. MaxSessions
  /\ faults \in 0 .. MaxFaults
  /\ wd \in {"off", "sleep", "count", "resolve"} \cup CallsApp \cup CallsAdv
  /\ reply \in {"none", "ok", "exists", "error", "some", "zero"}
  /\ value \in [body : Seq(Fragment), n : 0 .. Notifications]
  /\ bodies \in [Ids -> Seq(Fragment)]
  /\ jobs \in Seq(Job)
  /\ sent \in [Sessions -> [Ids -> 0 .. MaxFragments]]
  /\ ended \subseteq Sessions \X Ids /\ torn \subseteq Sessions \X Ids
  /\ heard \in 0 .. MaxSessions
  /\ appKnown \/ advertising => bluez /\ Running

(* A request is served as its central wrote it, from its first fragment to *)
(* its last, none missing, doubled or of another request.  The exceptions  *)
(* are the two ways the buffers go wrong: they were emptied - by the       *)
(* watchdog or a restart - while their central was writing, or BlueZ       *)
(* dropped the central without a Release, after which nothing empties them.*)
Whole(body) ==
  \A k \in DOMAIN body : body[k] = << body[1][1], body[1][2], k >>

Cut(body) == \E k \in DOMAIN body : << body[k][1], body[k][2] >> \in torn

RequestsAreWhole ==
  \A j \in DOMAIN jobs : Whole(jobs[j].body) \/ Cut(jobs[j].body) \/ quiet

(* Notifications of two answers are never mixed: after a fragment comes    *)
(* the next of the same answer, or the first of one.                       *)
AnswersInOnePiece ==
  [][\/ UNCHANGED value
     \/ value' = NoValue
     \/ value'.n = 1
     \/ value'.body = value.body /\ value'.n = value.n + 1]_vars

(* A central that hears a later fragment of the answer to its own request  *)
(* has heard the one before: `notifying` is that central's subscription,   *)
(* unless BlueZ died and left the flag of another one behind.  A central   *)
(* that subscribes while another one's answer is under way does hear the   *)
(* rest of that: the code looks for a listener only before the first       *)
(* fragment.                                                               *)
HearsFromTheStart ==
  [][(/\ value' # value
      /\ value'.n > 1
      /\ heard' # 0
      /\ heard' = value'.body[1][1])
     => (heard = heard' \/ quiet)]_vars

(* The watchdog no longer looks after the advertisement: it was not        *)
(* registered, and no Release will say so.                                 *)
GivenUp == ~ advRegistered /\ ~ released

(* The drone can be found again, whatever ended its advertisement, unless  *)
(* a registration failed outside the branch that handles a Release.        *)
FoundAgain == []<>(advertising \/ central # 0 \/ GivenUp)

(* Every complete request is answered or dropped; none blocks the others.  *)
RequestsFinish == (jobs # << >>) ~> (jobs = << >>)
==================================================================================

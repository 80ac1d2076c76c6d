---------------------------- MODULE BleServer_proofs ----------------------------
(***************************************************************************)
(* Theorems about the BLE peripheral, for any number of connections,       *)
(* requests, writes, notifications and faults.                             *)
(*                                                                         *)
(* One job at a time is past the lock, and the value of the characteristic *)
(* is its last fragment (LockInv): answers are in one piece.  While no     *)
(* Release is missing, `notifying` is the subscription of the central that *)
(* is connected (ListenInv), a buffer that is not empty either belongs to  *)
(* the last central, up to the byte it has written, or the advertisement   *)
(* has just been registered again and Rearm is about to empty it           *)
(* (BodyInv): requests are whole.                                          *)
(***************************************************************************)
EXTENDS BleServer, SequenceTheorems, TLAPS

-----------------------------------------------------------------------------
(* Sequences *)

(* What RemoveAt leaves is elements of the sequence at the other places.   *)
LEMMA Removed ==
  ASSUME NEW S, NEW s \in Seq(S), NEW j \in 1..Len(s)
  PROVE  /\ RemoveAt(s, j) \in Seq(S)
         /\ \A k \in DOMAIN RemoveAt(s, j) :
              \E m \in DOMAIN s : m # j /\ RemoveAt(s, j)[k] = s[m]
<1> DEFINE a == SubSeq(s, 1, j - 1)
           b == SubSeq(s, j + 1, Len(s))
<1>1. PICK n \in Nat : n = Len(s) /\ DOMAIN s = 1..n /\ \A m \in 1..n : s[m] \in S
  BY LenProperties, ElementOfSeq
<1>2. j \in Nat /\ j >= 1 /\ j <= n
  BY <1>1
<1>3. /\ a \in Seq(S) /\ Len(a) = j - 1
      /\ \A i \in 1..(j - 1) : a[i] = s[i]
  <2>1. \A m \in 1..(j - 1) : s[m] \in S
    BY <1>1, <1>2
  <2>2. /\ a \in Seq(S) /\ Len(a) = IF 1 <= j - 1 THEN j - 1 - 1 + 1 ELSE 0
        /\ \A i \in 1..(j - 1 - 1 + 1) : a[i] = s[1 + i - 1]
    BY <1>2, <2>1, SubSeqProperties
  <2> HIDE DEF a
  <2> QED
    BY <1>2, <2>2
<1>4. /\ b \in Seq(S) /\ Len(b) = n - j
      /\ \A i \in 1..(n - j) : b[i] = s[j + i]
  <2>1. \A m \in (j + 1)..n : s[m] \in S
    BY <1>1, <1>2
  <2>2. /\ b \in Seq(S) /\ Len(b) = IF j + 1 <= n THEN n - (j + 1) + 1 ELSE 0
        /\ \A i \in 1..(n - (j + 1) + 1) : b[i] = s[j + 1 + i - 1]
    BY <1>1, <1>2, <2>1, SubSeqProperties
  <2> HIDE DEF b
  <2> QED
    BY <1>2, <2>2
<1>5. RemoveAt(s, j) = a \o b
  BY DEF RemoveAt
<1> HIDE DEF a, b
<1>6. /\ a \o b \in Seq(S) /\ DOMAIN (a \o b) = 1..(n - 1)
      /\ \A i \in 1..(n - 1) : (a \o b)[i] = IF i <= j - 1 THEN a[i] ELSE b[i - (j - 1)]
  <2>1. /\ a \o b \in Seq(S) /\ Len(a \o b) = Len(a) + Len(b)
        /\ \A i \in 1..(Len(a) + Len(b)) :
             (a \o b)[i] = IF i <= Len(a) THEN a[i] ELSE b[i - Len(a)]
    BY <1>3, <1>4, ConcatProperties
  <2>2. Len(a) + Len(b) = n - 1
    BY <1>2, <1>3, <1>4
  <2> QED
    BY <1>3, <2>1, <2>2, LenProperties
<1>7. ASSUME NEW k \in 1..(n - 1)
      PROVE  \E m \in 1..n : m # j /\ (a \o b)[k] = s[m]
  <2>1. CASE k <= j - 1
    <3>1. k \in 1..n /\ k # j /\ (a \o b)[k] = s[k]
      BY <1>2, <1>3, <1>6, <2>1
    <3> QED
      BY <3>1
  <2>2. CASE ~ (k <= j - 1)
    <3>1. k + 1 \in 1..n /\ k + 1 # j /\ k - (j - 1) \in 1..(n - j) /\ j + (k - (j - 1)) = k + 1
      BY <1>2, <2>2
    <3>2. (a \o b)[k] = s[k + 1]
      BY <1>4, <1>6, <2>2, <3>1
    <3> QED
      BY <3>1, <3>2
  <2> QED
    BY <2>1, <2>2
<1>8. /\ a \o b \in Seq(S)
      /\ \A k \in DOMAIN (a \o b) : \E m \in DOMAIN s : m # j /\ (a \o b)[k] = s[m]
  BY ONLY <1>1, <1>6, <1>7
<1> QED
  BY ONLY <1>5, <1>8

LEMMA Appended ==
  ASSUME NEW S, NEW s \in Seq(S), NEW e \in S
  PROVE  /\ Append(s, e) \in Seq(S) /\ Len(Append(s, e)) = Len(s) + 1
         /\ DOMAIN Append(s, e) = 1..(Len(s) + 1) /\ DOMAIN s = 1..Len(s)
         /\ Len(s) \in Nat
         /\ \A i \in 1..Len(s) : Append(s, e)[i] = s[i]
         /\ Append(s, e)[Len(s) + 1] = e
BY AppendProperties, LenProperties

-----------------------------------------------------------------------------
(* Which steps touch the requests *)

Wrote == \E i \in Ids, last \in BOOLEAN : Write(i, last)

(* The path of a request goes on, or the watchdog or an exit empties it.   *)
OnRequests == Gone \/ Rearm \/ Serve \/ Wrote

(* Every other step leaves the writes and the jobs alone.                  *)
LEMMA Elsewhere ==
  ASSUME [Next]_vars
  PROVE  \/ OnRequests
         \/ /\ value' = value /\ bodies' = bodies /\ jobs' = jobs /\ heard' = heard
            /\ sent' = sent /\ ended' = ended /\ torn' = torn
<1> DEFINE Goal == \/ OnRequests
                   \/ /\ value' = value /\ bodies' = bodies /\ jobs' = jobs
                      /\ heard' = heard /\ sent' = sent /\ ended' = ended
                      /\ torn' = torn
<1>1. CASE Connect
  BY <1>1, Zenon DEF Connect, requests, phone
<1>2. CASE Subscribe
  BY <1>2, Zenon DEF Subscribe, phone
<1>3. CASE Disconnect
  BY <1>3, Zenon DEF Disconnect, phone
<1>4. CASE LoseAdvertisement
  BY <1>4, Zenon DEF LoseAdvertisement, requests, phone
<1>5. CASE BlueZDies
  BY <1>5, Zenon DEF BlueZDies, requests, phone
<1>6. CASE BlueZReturns
  BY <1>6, Zenon DEF BlueZReturns, requests, phone
<1>7. CASE AnswerApp \/ AnswerAdv \/ AnswerCount \/ AnswerResolve \/ AnswerFailed
  <2>1. ASSUME NEW r, Replies(r) PROVE Goal
    BY <2>1, Zenon DEF Replies, requests, phone
  <2> QED
    BY <1>7, <2>1, Zenon DEF AnswerApp, AnswerAdv, AnswerCount, AnswerResolve, AnswerFailed
<1>8. CASE Start
  BY <1>8, Zenon DEF Start, requests, phone
<1>9. CASE StartApp
  BY <1>9, Zenon DEF StartApp, OnRequests, requests, phone
<1>10. CASE StartAdv
  BY <1>10, Zenon DEF StartAdv, requests, phone
<1>11. CASE Tick
  BY <1>11, Zenon DEF Tick, requests, phone
<1>12. CASE Count
  BY <1>12, Zenon DEF Count, requests, phone
<1>13. CASE Resolve
  BY <1>13, Zenon DEF Resolve, requests, phone
<1>14. CASE AgainApp
  BY <1>14, Zenon DEF AgainApp, requests, phone
<1>15. CASE AdvAgain
  BY <1>15, Zenon DEF AdvAgain, requests, phone
<1>16. CASE UNCHANGED vars
  BY <1>16, Zenon DEF vars, requests, phone
<1>17. CASE Exit \/ Rearm \/ Serve \/ Wrote
  BY <1>17, Zenon DEF Exit, OnRequests
<1> QED
  BY <1>1, <1>2, <1>3, <1>4, <1>5, <1>6, <1>7, <1>8, <1>9, <1>10, <1>11, <1>12,
     <1>13, <1>14, <1>15, <1>16, <1>17
  DEF Next, BlueZ, BlueZAnswers, Watchdog, Wrote

(* The steps that serve requests are the bridge's alone.                   *)
LEMMA ServesAlone ==
  ASSUME Serve \/ Wrote
  PROVE  /\ bluez' = bluez /\ appKnown' = appKnown /\ advertising' = advertising
         /\ central' = central /\ sessions' = sessions /\ subscribed' = subscribed
         /\ faults' = faults /\ wd' = wd /\ reply' = reply
         /\ appRegistered' = appRegistered /\ advRegistered' = advRegistered
         /\ released' = released /\ healthy' = healthy /\ notifying' = notifying
         /\ torn' = torn /\ quiet' = quiet
<1> DEFINE Alone == UNCHANGED << blueZVars, faults, registration, notifying, torn, quiet >>
<1>1. ASSUME NEW i \in Ids, NEW last \in BOOLEAN, Write(i, last) PROVE Alone
  BY <1>1, Zenon DEF Write
<1>2. ASSUME TakeTurn PROVE Alone
  <2>1. /\ blueZVars' = blueZVars /\ faults' = faults /\ registration' = registration
        /\ notifying' = notifying /\ torn' = torn /\ quiet' = quiet
    BY <1>2 DEF TakeTurn
  <2> QED
    BY <2>1, Zenon
<1>3. ASSUME NEW j \in DOMAIN jobs, Dispatched(j) \/ Paced(j) PROVE Alone
  BY <1>3, Zenon DEF Dispatched, Paced
<1> HIDE DEF Alone
<1>4. Alone
  BY <1>1, <1>2, <1>3, Zenon DEF Serve, Wrote
<1> QED
  BY <1>4, Zenon DEF Alone, blueZVars, registration

-----------------------------------------------------------------------------
(* Types *)

FlagTypes ==
  /\ bluez \in BOOLEAN /\ appKnown \in BOOLEAN /\ advertising \in BOOLEAN
  /\ subscribed \in BOOLEAN /\ appRegistered \in BOOLEAN /\ advRegistered \in BOOLEAN
  /\ released \in BOOLEAN /\ healthy \in BOOLEAN /\ notifying \in BOOLEAN
  /\ quiet \in BOOLEAN
  /\ appKnown \/ advertising => bluez /\ Running

CallTypes ==
  /\ wd \in {"off", "sleep", "count", "resolve"} \cup CallsApp \cup CallsAdv
  /\ reply \in {"none", "ok", "exists", "error", "some", "zero"}

CountTypes ==
  /\ central \in 0 .. sessions /\ sessions \in 0 .. MaxSessions
  /\ faults \in 0 .. MaxFaults

RequestTypes ==
  /\ value \in [body : Seq(Fragment), n : 0 .. Notifications]
  /\ bodies \in [Ids -> Seq(Fragment)]
  /\ jobs \in Seq(Job)
  /\ sent \in [Sessions -> [Ids -> 0 .. MaxFragments]]
  /\ ended \subseteq Sessions \X Ids /\ torn \subseteq Sessions \X Ids
  /\ heard \in 0 .. MaxSessions

LEMMA TypesInit == Init => FlagTypes /\ CallTypes /\ CountTypes /\ RequestTypes
<1> SUFFICES ASSUME Init PROVE FlagTypes /\ CallTypes /\ CountTypes /\ RequestTypes
  OBVIOUS
<1>1. FlagTypes /\ CallTypes /\ CountTypes
  <2>1. FlagTypes
    BY DEF Init, FlagTypes
  <2>2. CallTypes
    BY DEF Init, CallTypes
  <2>3. CountTypes
    BY BleBounds DEF Init, CountTypes
  <2> QED
    BY <2>1, <2>2, <2>3
<1>2. NoValue \in [body : Seq(Fragment), n : 0 .. Notifications]
  BY BleBounds DEF NoValue
<1>3. NoBodies \in [Ids -> Seq(Fragment)]
  BY DEF NoBodies
<1>4. NobodyWrote \in [Sessions -> [Ids -> 0 .. MaxFragments]]
  BY BleBounds DEF NobodyWrote
<1>5. RequestTypes
  BY <1>2, <1>3, <1>4, BleBounds DEF Init, RequestTypes
<1> QED
  BY <1>1, <1>5

LEMMA FlagTypesKept ==
  ASSUME FlagTypes, [Next]_vars
  PROVE  FlagTypes'
<1> USE DEF FlagTypes, Running, CallsApp, CallsAdv
<1>1. CASE Connect
  BY <1>1 DEF Connect, requests
<1>2. CASE Subscribe
  BY <1>2 DEF Subscribe, registration
<1>3. CASE Disconnect
  BY <1>3 DEF Disconnect, registration
<1>4. CASE LoseAdvertisement
  BY <1>4 DEF LoseAdvertisement, registration, requests
<1>5. CASE BlueZDies
  BY <1>5 DEF BlueZDies, registration, requests
<1>6. CASE BlueZReturns
  BY <1>6 DEF BlueZReturns, registration, requests
<1>7. CASE AnswerApp
  BY <1>7 DEF AnswerApp, Replies, requests
<1>8. CASE AnswerAdv
  BY <1>8 DEF AnswerAdv, Replies, requests
<1>9. CASE AnswerCount \/ AnswerResolve
  BY <1>9 DEF AnswerCount, AnswerResolve, Replies, blueZVars, requests
<1>10. CASE AnswerFailed
  BY <1>10 DEF AnswerFailed, Replies, blueZVars, requests
<1>11. CASE Start
  BY <1>11 DEF Start, blueZVars, requests
<1>12. ASSUME Gone PROVE FlagTypes'
  BY <1>12 DEF Gone
<1>13. CASE Exit
  BY <1>12, <1>13 DEF Exit
<1>14. CASE StartApp
  <2>1. CASE wd = "start_app" /\ reply = "error" /\ Gone /\ UNCHANGED faults
    BY <1>12, <2>1
  <2>2. CASE /\ reply = "ok"
             /\ Resume("start_app", "start_adv")
             /\ appRegistered' = TRUE
             /\ UNCHANGED << blueZVars, faults, advRegistered, released, healthy, requests,
                             phone, torn, quiet >>
    BY <2>2 DEF Resume, blueZVars, requests
  <2> QED
    BY <1>14, <2>1, <2>2 DEF StartApp
<1>15. CASE StartAdv
  BY <1>15 DEF StartAdv, Resume, AdvertisementReply, ReportRecovery, blueZVars, requests
<1>16. CASE Tick
  BY <1>16 DEF Tick, blueZVars, requests
<1>17. CASE Rearm
  BY <1>17 DEF Rearm, Resume, AdvertisementReply, blueZVars
<1>18. CASE Count
  BY <1>18 DEF Count, Resume, ReportRecovery, ReportError, blueZVars, requests
<1>19. CASE Resolve
  BY <1>19 DEF Resolve, Resume, blueZVars, requests
<1>20. CASE AgainApp
  BY <1>20 DEF AgainApp, Resume, blueZVars, requests
<1>21. CASE AdvAgain
  BY <1>21 DEF AdvAgain, Resume, AdvertisementReply, blueZVars, requests
<1>22. CASE Serve \/ Wrote
  BY <1>22, ServesAlone
<1>23. CASE UNCHANGED vars
  BY <1>23 DEF vars, blueZVars, registration, requests
<1> QED
  BY <1>1, <1>2, <1>3, <1>4, <1>5, <1>6, <1>7, <1>8, <1>9, <1>10, <1>11, <1>13,
     <1>14, <1>15, <1>16, <1>17, <1>18, <1>19, <1>20, <1>21, <1>22, <1>23
  DEF Next, BlueZ, BlueZAnswers, Watchdog, Wrote

LEMMA CallTypesKept ==
  ASSUME CallTypes, [Next]_vars
  PROVE  CallTypes'
<1> USE DEF CallTypes
<1>1. CASE wd' = wd /\ reply' = reply
  BY <1>1
<1>2. CASE Connect \/ Subscribe \/ Disconnect \/ LoseAdvertisement \/ BlueZDies \/ BlueZReturns
  BY <1>1, <1>2, Zenon
  DEF Connect, Subscribe, Disconnect, LoseAdvertisement, BlueZDies, BlueZReturns, registration
<1>3. ASSUME NEW r \in {"ok", "exists", "error", "some", "zero"}, Replies(r)
      PROVE  CallTypes'
  BY <1>3 DEF Replies
<1>4. CASE AnswerApp \/ AnswerCount \/ AnswerResolve \/ AnswerFailed \/ AnswerAdv
  BY <1>3, <1>4 DEF AnswerApp, AnswerCount, AnswerResolve, AnswerFailed, AnswerAdv
<1>5. ASSUME NEW from, NEW to \in {"sleep", "count", "resolve"} \cup CallsApp \cup CallsAdv,
             Resume(from, to)
      PROVE  CallTypes'
  BY <1>5 DEF Resume
<1>6. CASE Start
  BY <1>6 DEF Start, CallsApp
<1>7. CASE Gone
  BY <1>7 DEF Gone
<1>8. CASE StartApp \/ StartAdv \/ Rearm \/ AdvAgain
  BY <1>5, <1>7, <1>8 DEF StartApp, StartAdv, Rearm, AdvAgain, CallsApp, CallsAdv
<1>9. CASE Count \/ Resolve \/ AgainApp
  BY <1>5, <1>9 DEF Count, Resolve, AgainApp, CallsApp, CallsAdv
<1>10. CASE Tick
  BY <1>10 DEF Tick, CallsAdv
<1>11. CASE Exit
  BY <1>7, <1>11 DEF Exit
<1>12. CASE Serve \/ Wrote
  BY <1>1, <1>12, ServesAlone
<1>13. CASE UNCHANGED vars
  BY <1>1, <1>13, Zenon DEF vars, registration
<1> QED
  BY <1>2, <1>4, <1>6, <1>8, <1>9, <1>10, <1>11, <1>12, <1>13
  DEF Next, BlueZ, BlueZAnswers, Watchdog, Wrote

LEMMA CountTypesKept ==
  ASSUME CountTypes, [Next]_vars
  PROVE  CountTypes'
<1> USE BleBounds DEF CountTypes
<1>1. CASE Connect
  BY <1>1 DEF Connect
<1>2. CASE Fault /\ central' \in {0, central} /\ sessions' = sessions
  BY <1>2 DEF Fault
<1>3. CASE faults' = faults /\ central' \in {0, central} /\ sessions' = sessions
  BY <1>3
<1>4. CASE Subscribe \/ Disconnect \/ BlueZReturns \/ AnswerApp \/ AnswerAdv
  BY <1>3, <1>4, Zenon DEF Subscribe, Disconnect, BlueZReturns, AnswerApp, AnswerAdv
<1>5. CASE LoseAdvertisement \/ BlueZDies
  BY <1>2, <1>5, Zenon DEF LoseAdvertisement, BlueZDies
<1>6. CASE AnswerCount \/ AnswerResolve \/ Start \/ StartAdv
  BY <1>3, <1>6, Zenon DEF AnswerCount, AnswerResolve, Start, StartAdv, blueZVars
<1>7. CASE AnswerFailed \/ Exit
  BY <1>2, <1>7, Zenon DEF AnswerFailed, Exit, Gone, blueZVars
<1>8. CASE StartApp
  BY <1>3, <1>8, Zenon DEF StartApp, Gone, blueZVars
<1>9. CASE Tick \/ Rearm
  BY <1>3, <1>9, Zenon DEF Tick, Rearm, blueZVars
<1>10. CASE Count
  BY <1>3, <1>10, Zenon DEF Count, blueZVars
<1>11. CASE Resolve \/ AgainApp \/ AdvAgain
  BY <1>3, <1>11, Zenon DEF Resolve, AgainApp, AdvAgain, blueZVars
<1>12. CASE Serve \/ Wrote
  BY <1>3, <1>12, ServesAlone
<1>13. CASE UNCHANGED vars
  BY <1>3, <1>13, Zenon DEF vars, blueZVars
<1> QED
  BY <1>1, <1>4, <1>5, <1>6, <1>7, <1>8, <1>9, <1>10, <1>11, <1>12, <1>13
  DEF Next, BlueZ, BlueZAnswers, Watchdog, Wrote

(* The fragment that is written, and the body it completes or prolongs.    *)
LEMMA FragmentTypes ==
  ASSUME CountTypes, RequestTypes, NEW i \in Ids, NEW last \in BOOLEAN, Write(i, last),
         NEW frag, frag = << central, i, sent[central][i] + 1 >>
  PROVE  /\ central \in Sessions /\ sent[central][i] \in Nat
         /\ sent[central][i] + 1 \in 1 .. MaxFragments
         /\ frag \in Fragment /\ Fed(frag) \in Seq(Fragment)
         /\ Fed(frag) = Append(bodies[i], frag) /\ bodies[i] \in Seq(Fragment)
<1>1. central \in Sessions
  BY BleBounds DEF CountTypes, Sessions, Write
<1>2. sent[central][i] \in 0 .. MaxFragments /\ sent[central][i] < MaxFragments
  BY <1>1 DEF RequestTypes, Write
<1>3. sent[central][i] \in Nat /\ sent[central][i] + 1 \in 1 .. MaxFragments
  BY <1>2, BleBounds
<1>4. frag \in Fragment
  BY <1>1, <1>3 DEF Fragment
<1>5. bodies[i] \in Seq(Fragment) /\ frag[2] = i
  BY DEF RequestTypes
<1>6. Fed(frag) = Append(bodies[i], frag)
  BY <1>5, Zenon DEF Fed
<1>7. Append(bodies[i], frag) \in Seq(Fragment)
  BY <1>4, <1>5, Appended
<1> QED
  BY <1>1, <1>3, <1>4, <1>5, <1>6, <1>7

LEMMA JobFields ==
  ASSUME NEW body \in Seq(Fragment), NEW at \in {"waiting", "dispatch", "notify"},
         NEW n \in 0 .. Notifications
  PROVE  [body |-> body, at |-> at, n |-> n] \in Job
BY DEF Job

(* A job that goes on.                                                     *)
LEMMA JobUpdates ==
  ASSUME NEW r \in Job, NEW m \in 1 .. Notifications
  PROVE  /\ [r EXCEPT !.at = "dispatch"] \in Job
         /\ [r EXCEPT !.n = m] \in Job
         /\ [[r EXCEPT !.at = "notify"] EXCEPT !.n = m] \in Job
<1>1. m \in 0 .. Notifications
  BY BleBounds
<1>2. PICK e : e = [r EXCEPT !.at = "notify"]
  OBVIOUS
<1>3. e \in Job
  BY <1>2 DEF Job
<1>4. [e EXCEPT !.n = m] \in Job
  BY <1>1, <1>3 DEF Job
<1>5. [r EXCEPT !.at = "dispatch"] \in Job /\ [r EXCEPT !.n = m] \in Job
  BY <1>1 DEF Job
<1> QED
  BY <1>2, <1>4, <1>5, Zenon

LEMMA RequestTypesKept ==
  ASSUME CountTypes, RequestTypes, [Next]_vars
  PROVE  RequestTypes'
<1>0. /\ value \in [body : Seq(Fragment), n : 0 .. Notifications]
      /\ bodies \in [Ids -> Seq(Fragment)]
      /\ jobs \in Seq(Job)
      /\ sent \in [Sessions -> [Ids -> 0 .. MaxFragments]]
      /\ ended \subseteq Sessions \X Ids /\ torn \subseteq Sessions \X Ids
      /\ heard \in 0 .. MaxSessions
  BY DEF RequestTypes
<1>1. CASE /\ value' = value /\ bodies' = bodies /\ jobs' = jobs /\ heard' = heard
           /\ sent' = sent /\ ended' = ended /\ torn' = torn
  BY <1>1 DEF RequestTypes
<1>2. NoBodies \in [Ids -> Seq(Fragment)] /\ torn \cup Underway \subseteq Sessions \X Ids
  BY <1>0 DEF NoBodies, Underway
<1>3. CASE Gone
  <2>1. NoValue \in [body : Seq(Fragment), n : 0 .. Notifications]
    BY BleBounds DEF NoValue
  <2>2. << >> \in Seq(Job) /\ 0 \in 0 .. MaxSessions
    BY BleBounds
  <2>3. /\ value' = NoValue /\ bodies' = NoBodies /\ jobs' = << >> /\ heard' = 0
        /\ sent' = sent /\ ended' = ended /\ torn' = torn \cup Underway
    BY <1>3, Zenon DEF Gone, phone
  <2> QED
    BY <1>0, <1>2, <2>1, <2>2, <2>3, Zenon DEF RequestTypes
<1>4. CASE Rearm
  <2>1. /\ value' = value /\ jobs' = jobs /\ heard' = heard
        /\ sent' = sent /\ ended' = ended
        /\ bodies' \in {bodies, NoBodies} /\ torn' \in {torn, torn \cup Underway}
    BY <1>4, Zenon DEF Rearm, Clear, phone
  <2> QED
    BY <1>0, <1>2, <2>1 DEF RequestTypes
<1>5. ASSUME NEW i \in Ids, NEW last \in BOOLEAN, Write(i, last)
      PROVE  RequestTypes'
  <2> DEFINE frag == << central, i, sent[central][i] + 1 >>
  <2>1. /\ central \in Sessions /\ sent[central][i] + 1 \in 0 .. MaxFragments
        /\ Fed(frag) \in Seq(Fragment)
    BY <1>5, FragmentTypes
  <2>2. /\ value' = value /\ heard' = heard /\ torn' = torn
        /\ sent' = [sent EXCEPT ![central][i] = sent[central][i] + 1]
        /\ \/ /\ bodies' = [bodies EXCEPT ![i] = << >>]
              /\ jobs' = Append(jobs, Waiting(Fed(frag)))
              /\ ended' = ended \cup {<< central, i >>}
           \/ /\ bodies' = [bodies EXCEPT ![i] = Fed(frag)]
              /\ jobs' = jobs /\ ended' = ended
    BY <1>5, Zenon DEF Write
  <2> HIDE DEF frag
  <2>3. Waiting(Fed(frag)) \in Job
    BY <2>1, JobFields, BleBounds DEF Waiting
  <2>4. jobs' \in Seq(Job)
    <3>1. Append(jobs, Waiting(Fed(frag))) \in Seq(Job)
      BY <1>0, <2>3, Appended
    <3> QED
      BY <1>0, <2>2, <3>1, Zenon
  <2>5. sent' \in [Sessions -> [Ids -> 0 .. MaxFragments]]
    BY <1>0, <2>1, <2>2
  <2>6. bodies' \in [Ids -> Seq(Fragment)] /\ ended' \subseteq Sessions \X Ids
    <3>1. << central, i >> \in Sessions \X Ids /\ << >> \in Seq(Fragment)
      BY <2>1
    <3>2. \A b \in Seq(Fragment) : [bodies EXCEPT ![i] = b] \in [Ids -> Seq(Fragment)]
      BY <1>0
    <3>3. bodies' \in [Ids -> Seq(Fragment)]
      BY <2>1, <2>2, <3>1, <3>2, Zenon
    <3>4. ended' \subseteq Sessions \X Ids
      BY <1>0, <2>2, <3>1
    <3> QED
      BY <3>3, <3>4
  <2> QED
    BY <1>0, <2>2, <2>4, <2>5, <2>6, Zenon DEF RequestTypes
<1>6. ASSUME bodies' = bodies, sent' = sent, ended' = ended, torn' = torn,
             value' \in [body : Seq(Fragment), n : 0 .. Notifications],
             jobs' \in Seq(Job), heard' \in 0 .. MaxSessions
      PROVE  RequestTypes'
  BY <1>0, <1>6, Zenon DEF RequestTypes
<1>7. ASSUME NEW j \in DOMAIN jobs
      PROVE  /\ j \in 1..Len(jobs) /\ jobs[j] \in Job
             /\ \A job \in Job : [jobs EXCEPT ![j] = job] \in Seq(Job)
  <2>1. j \in 1..Len(jobs)
    BY <1>0, LenProperties
  <2> QED
    BY <1>0, <2>1, ElementOfSeq, ExceptSeq
<1>8. CASE TakeTurn
  <2>1. PICK j \in DOMAIN jobs : jobs' = [jobs EXCEPT ![j].at = "dispatch"]
    BY <1>8, Zenon DEF TakeTurn
  <2>2. [jobs[j] EXCEPT !.at = "dispatch"] \in Job
    BY <1>7 DEF Job
  <2>3. jobs' \in Seq(Job)
    BY <1>7, <2>1, <2>2
  <2>4. /\ bodies' = bodies /\ sent' = sent /\ ended' = ended /\ torn' = torn
        /\ value' = value /\ heard' = heard
    BY <1>8 DEF TakeTurn, phone
  <2> QED
    BY <1>0, <1>6, <2>3, <2>4
<1>9. ASSUME NEW j \in DOMAIN jobs, NEW k \in 1 .. Notifications, Notify(j, k)
      PROVE  /\ value' \in [body : Seq(Fragment), n : 0 .. Notifications]
             /\ heard' \in 0 .. MaxSessions
  <2>1. jobs[j].body \in Seq(Fragment) /\ k \in 0 .. Notifications
    BY <1>7, BleBounds DEF Job
  <2>2. heard' \in {central, 0} /\ value' = [body |-> jobs[j].body, n |-> k]
    BY <1>9, Zenon DEF Notify
  <2>3. central \in 0 .. MaxSessions /\ 0 \in 0 .. MaxSessions
    BY BleBounds DEF CountTypes
  <2> QED
    BY <2>1, <2>2, <2>3
<1>10. ASSUME NEW j \in DOMAIN jobs, Finish(j)
       PROVE  jobs' \in Seq(Job) /\ value' = value /\ heard' = heard
  BY <1>0, <1>7, <1>10, Removed DEF Finish
<1>11. ASSUME NEW j \in DOMAIN jobs, Dispatched(j)
       PROVE  RequestTypes'
  <2>1. bodies' = bodies /\ sent' = sent /\ ended' = ended /\ torn' = torn
    BY <1>11, Zenon DEF Dispatched, phone
  <2>2. CASE Finish(j)
    BY <1>0, <1>6, <1>10, <2>1, <2>2
  <2>3. CASE Notify(j, 1) /\ jobs' = [jobs EXCEPT ![j].at = "notify", ![j].n = 1]
    <3>1. 1 \in 1 .. Notifications
      BY BleBounds
    <3>2. [[jobs[j] EXCEPT !.at = "notify"] EXCEPT !.n = 1] \in Job
      BY <1>7, <3>1, JobUpdates
    <3>3. jobs' = [jobs EXCEPT ![j] = [[jobs[j] EXCEPT !.at = "notify"] EXCEPT !.n = 1]]
      BY <1>0, <2>3
    <3>4. jobs' \in Seq(Job)
      BY <1>7, <3>2, <3>3, Zenon
    <3> QED
      BY <1>6, <1>9, <2>1, <2>3, <3>1, <3>4
  <2> QED
    BY <1>11, <2>2, <2>3, Zenon DEF Dispatched
<1>12. ASSUME NEW j \in DOMAIN jobs, Paced(j)
       PROVE  RequestTypes'
  <2>1. bodies' = bodies /\ sent' = sent /\ ended' = ended /\ torn' = torn
    BY <1>12, Zenon DEF Paced, phone
  <2>2. CASE Finish(j)
    BY <1>0, <1>6, <1>10, <2>1, <2>2
  <2>3. CASE /\ MoreToSend(j) /\ Notify(j, jobs[j].n + 1)
             /\ jobs' = [jobs EXCEPT ![j].n = jobs[j].n + 1]
    <3>1. jobs[j].n + 1 \in 1 .. Notifications
      BY <1>7, <2>3, BleBounds DEF MoreToSend, Job
    <3>2. [jobs[j] EXCEPT !.n = jobs[j].n + 1] \in Job
      BY <1>7, <3>1, JobUpdates
    <3>3. jobs' = [jobs EXCEPT ![j] = [jobs[j] EXCEPT !.n = jobs[j].n + 1]]
      BY <2>3, Zenon
    <3>4. jobs' \in Seq(Job)
      BY <1>7, <3>2, <3>3, Zenon
    <3> QED
      BY <1>6, <1>9, <2>1, <2>3, <3>1, <3>4
  <2> QED
    BY <1>12, <2>2, <2>3, Zenon DEF Paced
<1> QED
  BY <1>1, <1>3, <1>4, <1>5, <1>8, <1>11, <1>12, Elsewhere DEF OnRequests, Serve, Wrote

-----------------------------------------------------------------------------
(* The jobs *)

(* One job is past the lock, and the value is the fragment it sent last.   *)
LockInv ==
  /\ \A j, k \in DOMAIN jobs : jobs[j].at # "waiting" /\ jobs[k].at # "waiting" => j = k
  /\ \A j \in DOMAIN jobs : jobs[j].at = "notify" =>
       value.body = jobs[j].body /\ value.n = jobs[j].n

OthersStay(j) ==
  DOMAIN jobs' = DOMAIN jobs /\ \A k \in DOMAIN jobs : k # j => jobs'[k] = jobs[k]

(* The three things that happen to a job.                                  *)
TakesTurn(j) ==
  /\ LockFree /\ value' = value /\ heard' = heard
  /\ OthersStay(j)
  /\ jobs'[j].body = jobs[j].body /\ jobs'[j].at = "dispatch"

Sends(j, n) ==
  /\ jobs[j].at # "waiting"
  /\ (jobs[j].at = "dispatch" /\ n = 1 /\ notifying) \/ (jobs[j].at = "notify" /\ n = jobs[j].n + 1)
  /\ value' = [body |-> jobs[j].body, n |-> n]
  /\ heard' = IF subscribed THEN central ELSE 0
  /\ OthersStay(j)
  /\ jobs'[j].body = jobs[j].body /\ jobs'[j].at = "notify" /\ jobs'[j].n = n

Leaves(j) ==
  /\ jobs[j].at # "waiting" /\ value' = value /\ heard' = heard
  /\ \A k \in DOMAIN jobs' : \E m \in DOMAIN jobs : m # j /\ jobs'[k] = jobs[m]

LEMMA Serving ==
  ASSUME RequestTypes, Serve
  PROVE  \E j \in DOMAIN jobs : TakesTurn(j) \/ Leaves(j) \/ \E n \in Nat : Sends(j, n)
<1>1. jobs \in Seq(Job) /\ DOMAIN jobs = 1..Len(jobs)
  BY LenProperties DEF RequestTypes
<1>2. ASSUME NEW j \in DOMAIN jobs, NEW job \in Job, jobs' = [jobs EXCEPT ![j] = job]
      PROVE  OthersStay(j) /\ jobs'[j] = job
  <2>1. jobs' \in Seq(Job) /\ Len(jobs') = Len(jobs)
    BY <1>1, <1>2, ExceptSeq
  <2>2. DOMAIN jobs' = DOMAIN jobs
    BY <1>1, <2>1, LenProperties
  <2> QED
    BY <1>1, <1>2, <2>2 DEF OthersStay
<1>3. ASSUME NEW j \in DOMAIN jobs
      PROVE  /\ jobs[j] \in Job /\ jobs[j].n \in Nat
             /\ jobs[j].at \in {"waiting", "dispatch", "notify"}
  <2>1. jobs[j] \in Job
    BY <1>1, ElementOfSeq
  <2> QED
    BY <2>1, BleBounds DEF Job
<1>4. ASSUME NEW j \in DOMAIN jobs, Finish(j), jobs[j].at # "waiting"
      PROVE  Leaves(j)
  <2>1. jobs' = RemoveAt(jobs, j) /\ value' = value /\ heard' = heard
    BY <1>4 DEF Finish
  <2>2. \A k \in DOMAIN RemoveAt(jobs, j) :
          \E m \in DOMAIN jobs : m # j /\ RemoveAt(jobs, j)[k] = jobs[m]
    BY <1>1, Removed
  <2> QED
    BY <1>4, <2>1, <2>2 DEF Leaves
<1>5. CASE TakeTurn
  <2>1. /\ LockFree /\ value' = value /\ heard' = heard
        /\ \E j \in DOMAIN jobs : jobs' = [jobs EXCEPT ![j].at = "dispatch"]
    BY <1>5, Zenon DEF TakeTurn
  <2>2. PICK j \in DOMAIN jobs : jobs' = [jobs EXCEPT ![j].at = "dispatch"]
    BY <2>1
  <2>3. PICK job : job = [jobs[j] EXCEPT !.at = "dispatch"]
    OBVIOUS
  <2>4. job \in Job /\ job.at = "dispatch" /\ job.body = jobs[j].body
    BY <1>3, <2>3 DEF Job
  <2>5. jobs' = [jobs EXCEPT ![j] = job]
    BY <2>2, <2>3, Zenon
  <2> QED
    BY <1>2, <2>1, <2>4, <2>5 DEF TakesTurn
<1>6. ASSUME NEW j \in DOMAIN jobs, NEW n \in 1 .. Notifications, Notify(j, n),
             NEW job \in Job, jobs' = [jobs EXCEPT ![j] = job],
             job.body = jobs[j].body, job.at = "notify", job.n = n,
             \/ jobs[j].at = "dispatch" /\ n = 1 /\ notifying
             \/ jobs[j].at = "notify" /\ n = jobs[j].n + 1
      PROVE  n \in Nat /\ Sends(j, n)
  <2>1. n \in Nat
    BY BleBounds
  <2> QED
    BY <1>2, <1>6, <2>1 DEF Sends, Notify
<1>7. ASSUME NEW j \in DOMAIN jobs, Dispatched(j)
      PROVE  Leaves(j) \/ \E n \in Nat : Sends(j, n)
  <2>1. jobs[j].at = "dispatch"
    BY <1>7 DEF Dispatched
  <2>2. CASE Finish(j)
    BY <1>4, <2>1, <2>2
  <2>3. CASE /\ notifying /\ Notify(j, 1)
             /\ jobs' = [jobs EXCEPT ![j].at = "notify", ![j].n = 1]
    <3>1. 1 \in 1 .. Notifications
      BY BleBounds
    <3>2. PICK e : e = [jobs[j] EXCEPT !.at = "notify"]
      OBVIOUS
    <3>3. e \in Job /\ e.at = "notify" /\ e.body = jobs[j].body
      BY <1>3, <3>2 DEF Job
    <3>4. PICK job : job = [e EXCEPT !.n = 1]
      OBVIOUS
    <3>5. job.at = "notify" /\ job.body = jobs[j].body /\ job.n = 1
      BY <3>3, <3>4 DEF Job
    <3>6. job \in Job
      BY <1>3, <3>1, <3>2, <3>4, JobUpdates
    <3>7. jobs' = [jobs EXCEPT ![j] = job]
      BY <1>1, <2>3, <3>2, <3>4
    <3> QED
      BY <1>6, <2>1, <2>3, <3>1, <3>5, <3>6, <3>7
  <2> QED
    BY <1>7, <2>2, <2>3, Zenon DEF Dispatched, Listened
<1>8. ASSUME NEW j \in DOMAIN jobs, Paced(j)
      PROVE  Leaves(j) \/ \E n \in Nat : Sends(j, n)
  <2>1. jobs[j].at = "notify"
    BY <1>8 DEF Paced
  <2>2. CASE Finish(j)
    BY <1>4, <2>1, <2>2
  <2>3. CASE /\ MoreToSend(j) /\ Notify(j, jobs[j].n + 1)
             /\ jobs' = [jobs EXCEPT ![j].n = jobs[j].n + 1]
    <3>1. jobs[j].n + 1 \in 1 .. Notifications
      BY <1>3, <2>3, BleBounds DEF MoreToSend
    <3>2. PICK job : job = [jobs[j] EXCEPT !.n = jobs[j].n + 1]
      OBVIOUS
    <3>3. job.at = "notify" /\ job.body = jobs[j].body /\ job.n = jobs[j].n + 1
      BY <1>3, <2>1, <3>2 DEF Job
    <3>4. job \in Job
      BY <1>3, <3>1, <3>2, JobUpdates
    <3>5. jobs' = [jobs EXCEPT ![j] = job]
      BY <2>3, <3>2, Zenon
    <3> QED
      BY <1>6, <2>1, <2>3, <3>1, <3>3, <3>4, <3>5
  <2> QED
    BY <1>8, <2>2, <2>3, Zenon DEF Paced
<1> QED
  BY <1>5, <1>7, <1>8 DEF Serve

(* A write is the last of its request, and its body becomes a job, or not. *)
LEMMA Writing ==
  ASSUME CountTypes, RequestTypes, NEW i \in Ids, NEW last \in BOOLEAN, Write(i, last),
         NEW body, body = Fed(<< central, i, sent[central][i] + 1 >>)
  PROVE  \/ /\ last /\ DOMAIN jobs' = 1..(Len(jobs) + 1) /\ DOMAIN jobs = 1..Len(jobs)
            /\ Len(jobs) \in Nat
            /\ \A k \in DOMAIN jobs : jobs'[k] = jobs[k]
            /\ jobs'[Len(jobs) + 1].body = body /\ jobs'[Len(jobs) + 1].at = "waiting"
         \/ ~ last /\ jobs' = jobs
<1>1. IF last THEN jobs' = Append(jobs, Waiting(body)) ELSE jobs' = jobs
  BY Zenon DEF Write
<1>2. body \in Seq(Fragment) /\ jobs \in Seq(Job)
  BY FragmentTypes DEF RequestTypes
<1>3. /\ Waiting(body) \in Job
      /\ Waiting(body).body = body /\ Waiting(body).at = "waiting"
  BY <1>2, JobFields, BleBounds DEF Waiting
<1> DEFINE job == Waiting(body)
<1> HIDE DEF job
<1>4. CASE last
  <2>1. jobs' = Append(jobs, job)
    BY <1>1, <1>4 DEF job
  <2>2. /\ DOMAIN Append(jobs, job) = 1..(Len(jobs) + 1) /\ DOMAIN jobs = 1..Len(jobs)
        /\ Len(jobs) \in Nat
        /\ \A k \in 1..Len(jobs) : Append(jobs, job)[k] = jobs[k]
        /\ Append(jobs, job)[Len(jobs) + 1] = job
    BY <1>2, <1>3, Appended DEF job
  <2> QED
    BY <1>3, <1>4, <2>1, <2>2 DEF job
<1>5. CASE ~ last
  BY <1>1, <1>5
<1> QED
  BY <1>4, <1>5

LEMMA LockKept ==
  ASSUME CountTypes, RequestTypes, LockInv, [Next]_vars
  PROVE  LockInv'
<1>1. CASE jobs' = jobs /\ value' = value
  BY <1>1 DEF LockInv
<1>2. CASE Gone
  BY <1>2 DEF Gone, LockInv
<1>3. CASE Rearm
  BY <1>1, <1>3 DEF Rearm
<1>4. ASSUME NEW i \in Ids, NEW last \in BOOLEAN, Write(i, last)
      PROVE  LockInv'
  <2>1. value' = value
    BY <1>4 DEF Write
  <2>2. CASE last
    <3>1. /\ DOMAIN jobs' = 1..(Len(jobs) + 1) /\ DOMAIN jobs = 1..Len(jobs)
          /\ Len(jobs) \in Nat
          /\ \A k \in DOMAIN jobs : jobs'[k] = jobs[k]
          /\ jobs'[Len(jobs) + 1].at = "waiting"
      BY <1>4, <2>2, Writing
    <3>2. \A k \in DOMAIN jobs' : jobs'[k].at # "waiting" =>
            k \in DOMAIN jobs /\ jobs'[k] = jobs[k]
      BY <3>1
    <3> QED
      BY <2>1, <3>2 DEF LockInv
  <2>3. CASE ~ last
    BY <1>1, <1>4, <2>1, <2>3, Writing
  <2> QED
    BY <2>2, <2>3
<1>5. CASE Serve
  <2>1. PICK j \in DOMAIN jobs : TakesTurn(j) \/ Leaves(j) \/ \E n \in Nat : Sends(j, n)
    BY <1>5, Serving
  <2>2. CASE TakesTurn(j)
    BY <2>2 DEF TakesTurn, OthersStay, LockFree, LockInv
  <2>3. CASE Leaves(j)
    <3>1. \A k \in DOMAIN jobs' : jobs'[k].at = "waiting"
      BY <2>3 DEF Leaves, LockInv
    <3> QED
      BY <3>1 DEF LockInv
  <2>4. ASSUME NEW n \in Nat, Sends(j, n)
        PROVE  LockInv'
    <3>1. \A k \in DOMAIN jobs' : k # j => jobs'[k].at = "waiting"
      BY <2>4 DEF Sends, OthersStay, LockInv
    <3>2. value'.body = jobs'[j].body /\ value'.n = jobs'[j].n
      BY <2>4 DEF Sends
    <3> QED
      BY <3>1, <3>2 DEF LockInv
  <2> QED
    BY <2>1, <2>2, <2>3, <2>4
<1> QED
  BY <1>1, <1>2, <1>3, <1>4, <1>5, Elsewhere DEF OnRequests, Wrote

-----------------------------------------------------------------------------
(* The link and the advertisement *)

(* The last central is the one connected, and while it is there BlueZ runs *)
(* and does not advertise.                                                 *)
LinkInv ==
  /\ central \in {0, sessions}
  /\ subscribed => central # 0
  /\ central # 0 => bluez
  /\ advertising => central = 0

(* BlueZ has registered the advertisement and the bridge does not know yet.*)
Fresh == wd \in CallsAdv /\ reply = "ok"

(* Unless a Release is missing, one is remembered while a central is       *)
(* connected, and forgotten when the advertisement is back.                *)
ReleaseInv ==
  ~ quiet =>
     /\ central # 0 => released
     /\ advertising /\ released => Fresh

SameLink ==
  /\ central' = central /\ sessions' = sessions
  /\ subscribed' = subscribed /\ notifying' = notifying

(* A step that brings no central and takes no Release back.                *)
Undisturbed ==
  /\ sessions' = sessions /\ central' \in {0, central} /\ released' = released
  /\ Fresh => Fresh'
  /\ ~ Fresh /\ ~ advertising => Fresh' \/ ~ advertising'

(* The bridge learns that the advertisement is registered.                 *)
Renews == (StartAdv \/ AdvAgain \/ Rearm) /\ reply = "ok"

LEMMA LinkSteps ==
  ASSUME FlagTypes, [Next]_vars
  PROVE  /\ quiet => quiet'
         /\ Connect \/ Subscribe \/ Disconnect \/ Gone \/ quiet' \/ SameLink
         /\ Connect \/ Gone \/ Renews \/ quiet' \/ Undisturbed
<1> DEFINE Goal == /\ quiet => quiet'
                   /\ Connect \/ Subscribe \/ Disconnect \/ Gone \/ quiet' \/ SameLink
                   /\ Connect \/ Gone \/ Renews \/ quiet' \/ Undisturbed
<1>0. CallsApp = {"start_app", "again_app"} /\ CallsAdv = {"start_adv", "rearm", "again_adv", "restore"}
  BY DEF CallsApp, CallsAdv
<1>1. CASE Connect
  BY <1>1, Zenon DEF Connect
<1>2. CASE Subscribe
  BY <1>2 DEF Subscribe, registration, Undisturbed, Fresh
<1>3. CASE Disconnect
  BY <1>3 DEF Disconnect, registration, Undisturbed, Fresh
<1>4. CASE LoseAdvertisement \/ BlueZDies
  BY <1>4, Zenon DEF LoseAdvertisement, BlueZDies
<1>5. CASE BlueZReturns
  BY <1>5 DEF BlueZReturns, registration, requests, SameLink, Undisturbed, Fresh
<1>6. CASE Gone
  BY <1>6, Zenon DEF Gone
<1>7. CASE AnswerApp \/ AnswerCount \/ AnswerResolve \/ AnswerFailed
  <2>1. /\ central' = central /\ sessions' = sessions /\ subscribed' = subscribed
        /\ notifying' = notifying /\ released' = released /\ advertising' = advertising
        /\ quiet' = quiet /\ reply = "none"
    BY <1>7, Zenon
    DEF AnswerApp, AnswerCount, AnswerResolve, AnswerFailed, Replies, blueZVars, requests
  <2> QED
    BY <2>1 DEF SameLink, Undisturbed, Fresh
<1>8. CASE AnswerAdv
  <2>1. /\ central' = central /\ sessions' = sessions /\ subscribed' = subscribed
        /\ released' = released /\ reply = "none" /\ wd \in CallsAdv
        /\ advertising' = (bluez /\ (advertising \/ central = 0))
    BY <1>8, Zenon DEF AnswerAdv, Replies
  <2>2. PICK r \in {"ok", "exists", "error"} :
          (r = "ok" <=> bluez /\ ~ advertising /\ central = 0) /\ Replies(r)
    BY <1>8, Zenon DEF AnswerAdv
  <2>3. wd' = wd /\ notifying' = notifying /\ quiet' = quiet /\ reply' = r
    BY <2>2 DEF Replies, requests
  <2>4. ~ advertising /\ r # "ok" => ~ advertising'
    BY <2>1, <2>2 DEF FlagTypes
  <2> QED
    BY <2>1, <2>2, <2>3, <2>4 DEF SameLink, Undisturbed, Fresh
<1>9. CASE Start
  BY <1>0, <1>9 DEF Start, blueZVars, requests, SameLink, Undisturbed, Fresh
<1>10. CASE StartApp
  <2>1. CASE /\ Resume("start_app", "start_adv")
             /\ UNCHANGED << blueZVars, faults, advRegistered, released, healthy, requests,
                             phone, torn, quiet >>
    BY <1>0, <2>1 DEF Resume, blueZVars, requests, SameLink, Undisturbed, Fresh
  <2> QED
    BY <1>6, <1>10, <2>1, Zenon DEF StartApp
<1>11. CASE StartAdv \/ AdvAgain \/ Rearm
  <2>1. /\ central' = central /\ sessions' = sessions /\ subscribed' = subscribed
        /\ notifying' = notifying /\ advertising' = advertising
        /\ released' = (released /\ reply # "ok") /\ (quiet => quiet')
    BY <1>11, Zenon DEF StartAdv, AdvAgain, Rearm, AdvertisementReply, blueZVars, requests
  <2> QED
    BY <1>11, <2>1 DEF SameLink, Undisturbed, Fresh, Renews, FlagTypes
<1>12. CASE Tick
  BY <1>0, <1>12 DEF Tick, blueZVars, requests, SameLink, Undisturbed, Fresh
<1>13. CASE Count \/ Resolve \/ AgainApp
  <2>1. wd \in {"count", "resolve", "again_app"}
    BY <1>13, Zenon DEF Count, Resolve, AgainApp, Resume
  <2>2. /\ central' = central /\ sessions' = sessions /\ subscribed' = subscribed
        /\ notifying' = notifying /\ released' = released /\ advertising' = advertising
        /\ quiet' = quiet
    BY <1>13, Zenon DEF Count, Resolve, AgainApp, blueZVars, requests
  <2> QED
    BY <1>0, <2>1, <2>2 DEF SameLink, Undisturbed, Fresh
<1>14. CASE Serve \/ Wrote
  BY <1>14, ServesAlone DEF SameLink, Undisturbed, Fresh
<1>15. CASE UNCHANGED vars
  BY <1>15 DEF vars, blueZVars, registration, requests, SameLink, Undisturbed, Fresh
<1> QED
  BY <1>1, <1>2, <1>3, <1>4, <1>5, <1>6, <1>7, <1>8, <1>9, <1>10, <1>11, <1>12,
     <1>13, <1>14, <1>15
  DEF Next, BlueZ, BlueZAnswers, Watchdog, Exit, Wrote

LEMMA LinkKept ==
  ASSUME FlagTypes, CountTypes, LinkInv, [Next]_vars
  PROVE  LinkInv'
<1> USE DEF LinkInv
<1>1. CASE Connect
  BY <1>1, BleBounds DEF Connect, FlagTypes, CountTypes
<1>2. CASE Subscribe
  BY <1>2 DEF Subscribe
<1>3. CASE Disconnect
  BY <1>3 DEF Disconnect
<1>4. CASE LoseAdvertisement
  BY <1>4 DEF LoseAdvertisement
<1>5. CASE BlueZDies
  BY <1>5 DEF BlueZDies
<1>6. CASE BlueZReturns
  BY <1>6 DEF BlueZReturns
<1>7. CASE AnswerApp
  BY <1>7 DEF AnswerApp
<1>8. CASE AnswerAdv
  BY <1>8 DEF AnswerAdv
<1>9. CASE Gone
  BY <1>9 DEF Gone
<1>10. CASE blueZVars' = blueZVars
  BY <1>10 DEF blueZVars
<1>11. CASE AnswerCount \/ AnswerResolve \/ AnswerFailed \/ Start \/ StartAdv \/ Tick \/ Rearm
  BY <1>10, <1>11, Zenon
  DEF AnswerCount, AnswerResolve, AnswerFailed, Start, StartAdv, Tick, Rearm
<1>12. CASE Count \/ Resolve \/ AgainApp \/ AdvAgain
  BY <1>10, <1>12, Zenon DEF Count, Resolve, AgainApp, AdvAgain
<1>13. CASE StartApp
  BY <1>9, <1>10, <1>13, Zenon DEF StartApp
<1>14. CASE Serve \/ Wrote
  BY <1>14, ServesAlone
<1>15. CASE UNCHANGED vars
  BY <1>10, <1>15, Zenon DEF vars
<1> QED
  BY <1>1, <1>2, <1>3, <1>4, <1>5, <1>6, <1>7, <1>8, <1>9, <1>11, <1>12, <1>13,
     <1>14, <1>15
  DEF Next, BlueZ, BlueZAnswers, Watchdog, Exit, Wrote

LEMMA ReleaseKept ==
  ASSUME FlagTypes, LinkInv, ReleaseInv, [Next]_vars
  PROVE  ReleaseInv'
<1> SUFFICES ASSUME ~ quiet'
             PROVE  (central' # 0 => released') /\ (advertising' /\ released' => Fresh')
  BY DEF ReleaseInv
<1>1. /\ central # 0 => released
      /\ advertising /\ released => Fresh
  BY LinkSteps DEF ReleaseInv
<1>2. CASE Connect
  BY <1>2 DEF Connect
<1>3. CASE Gone
  BY <1>3 DEF Gone
<1>4. CASE Renews
  <2>1. /\ advertising' = advertising /\ central' = central
        /\ AdvertisementReply(FALSE) \/ AdvertisementReply(TRUE)
    BY <1>4, Zenon DEF Renews, StartAdv, AdvAgain, Rearm, blueZVars
  <2>2. /\ released' = (released /\ reply # "ok")
        /\ reply = "ok" => quiet' \/ advertising
    BY <2>1 DEF AdvertisementReply, FlagTypes
  <2>3. reply = "ok" /\ advertising /\ ~ released'
    BY <1>4, <2>2 DEF Renews
  <2> QED
    BY <2>1, <2>3 DEF LinkInv
<1>5. CASE Undisturbed
  BY <1>1, <1>5 DEF Undisturbed, FlagTypes
<1> QED
  BY <1>2, <1>3, <1>4, <1>5, LinkSteps

-----------------------------------------------------------------------------
(* Who is answered *)

(* The session that writes a body: that of its first fragment.             *)
Owner(body) == body[1][1]

(* Every request has a first fragment, of a session that has been.         *)
OwnerInv ==
  /\ \A i \in Ids : bodies[i] # << >> => Owner(bodies[i]) <= sessions
  /\ \A j \in DOMAIN jobs : jobs[j].body # << >> /\ Owner(jobs[j].body) <= sessions

(* Unless a Release is missing, `notifying` is the subscription of the     *)
(* central, and the central that is being answered has heard the value.    *)
ListenInv ==
  ~ quiet =>
    /\ notifying = subscribed
    /\ \A j \in DOMAIN jobs : jobs[j].at = "notify" /\ central = Owner(jobs[j].body) =>
         heard = central /\ subscribed

LEMMA Owners ==
  ASSUME NEW body \in Seq(Fragment), body # << >>
  PROVE  /\ body[1] \in Fragment /\ Owner(body) \in Sessions
         /\ Owner(body) \in Nat /\ Owner(body) >= 1
<1>1. 1 \in 1..Len(body)
  BY EmptySeq, LenProperties
<1>2. body[1] \in Fragment
  BY <1>1, ElementOfSeq
<1>3. Owner(body) \in Sessions
  BY <1>2 DEF Fragment, Owner
<1> QED
  BY <1>2, <1>3, BleBounds DEF Sessions

LEMMA JobTypes ==
  ASSUME RequestTypes, NEW j \in DOMAIN jobs
  PROVE  /\ jobs[j].body \in Seq(Fragment) /\ jobs[j].n \in 0 .. Notifications
         /\ jobs[j].at \in {"waiting", "dispatch", "notify"}
<1>1. jobs[j] \in Job
  <2>1. j \in 1..Len(jobs) /\ jobs \in Seq(Job)
    BY LenProperties DEF RequestTypes
  <2> QED
    BY <2>1, ElementOfSeq
<1> QED
  BY <1>1 DEF Job

(* A body keeps its owner as it grows; a new one belongs to the central.   *)
LEMMA Growing ==
  ASSUME NEW body \in Seq(Fragment), NEW frag \in Fragment
  PROVE  /\ Append(body, frag) # << >>
         /\ Append(body, frag)[1] = IF body = << >> THEN frag ELSE body[1]
<1>1. PICK n \in Nat : n = Len(body) /\ DOMAIN body = 1..n
  BY LenProperties
<1>2. /\ Append(body, frag) \in Seq(Fragment)
      /\ DOMAIN Append(body, frag) = 1..(n + 1)
      /\ \A k \in 1..n : Append(body, frag)[k] = body[k]
      /\ Append(body, frag)[n + 1] = frag
  BY <1>1, Appended
<1>3. Append(body, frag) # << >>
  <2>1. 1 \in DOMAIN Append(body, frag) /\ DOMAIN << >> = {}
    BY <1>1, <1>2
  <2> QED
    BY <2>1
<1>4. CASE body = << >>
  <2>1. n = 0
    BY <1>1, <1>4
  <2> QED
    BY <1>2, <1>3, <1>4, <2>1
<1>5. CASE body # << >>
  <2>1. n # 0
    BY <1>1, <1>5, EmptySeq
  <2>2. 1 \in 1..n
    BY <2>1
  <2> QED
    BY <1>2, <1>3, <1>5, <2>2
<1> QED
  BY <1>4, <1>5

LEMMA SessionsGrow ==
  ASSUME CountTypes, [Next]_vars
  PROVE  /\ sessions \in Nat /\ sessions' \in Nat /\ sessions' >= sessions
<1>1. sessions \in Nat /\ sessions' \in Nat
  BY CountTypesKept, BleBounds DEF CountTypes
<1>2. sessions' \in {sessions, sessions + 1}
  <2>1. CASE Connect
    BY <2>1 DEF Connect
  <2>2. CASE blueZVars' = blueZVars
    BY <2>2, Zenon DEF blueZVars
  <2>3. CASE Subscribe \/ Disconnect \/ LoseAdvertisement \/ BlueZDies \/ BlueZReturns
    BY <2>3, Zenon DEF Subscribe, Disconnect, LoseAdvertisement, BlueZDies, BlueZReturns
  <2>4. CASE AnswerApp \/ AnswerAdv \/ Gone
    BY <2>4, Zenon DEF AnswerApp, AnswerAdv, Gone
  <2>5. CASE AnswerCount \/ AnswerResolve \/ AnswerFailed \/ Start \/ StartAdv \/ Tick \/ Rearm
    BY <2>2, <2>5, Zenon
    DEF AnswerCount, AnswerResolve, AnswerFailed, Start, StartAdv, Tick, Rearm
  <2>6. CASE Count \/ Resolve \/ AgainApp \/ AdvAgain
    BY <2>2, <2>6, Zenon DEF Count, Resolve, AgainApp, AdvAgain
  <2>7. CASE StartApp
    BY <2>2, <2>4, <2>7, Zenon DEF StartApp
  <2>8. CASE Serve \/ Wrote
    BY <2>8, ServesAlone
  <2>9. CASE UNCHANGED vars
    BY <2>2, <2>9, Zenon DEF vars
  <2> QED
    BY <2>1, <2>3, <2>4, <2>5, <2>6, <2>7, <2>8, <2>9
    DEF Next, BlueZ, BlueZAnswers, Watchdog, Exit, Wrote
<1> QED
  BY <1>1, <1>2

LEMMA OwnersKept ==
  ASSUME CountTypes, RequestTypes, OwnerInv, [Next]_vars
  PROVE  OwnerInv'
<1>1. sessions \in Nat /\ sessions' \in Nat /\ sessions' >= sessions
  BY SessionsGrow
<1>2. bodies \in [Ids -> Seq(Fragment)]
  BY DEF RequestTypes
<1>3. ASSUME NEW body \in Seq(Fragment), body # << >>, Owner(body) <= sessions
      PROVE  Owner(body) <= sessions'
  BY <1>1, <1>3, Owners
<1>4. \A i \in Ids : bodies[i] # << >> => Owner(bodies[i]) <= sessions'
  BY <1>2, <1>3 DEF OwnerInv
<1>5. \A j \in DOMAIN jobs : jobs[j].body # << >> /\ Owner(jobs[j].body) <= sessions'
  BY <1>3, JobTypes DEF OwnerInv
<1>6. CASE bodies' = bodies /\ jobs' = jobs
  BY <1>4, <1>5, <1>6 DEF OwnerInv
<1>7. CASE Gone
  BY <1>7 DEF Gone, NoBodies, OwnerInv
<1>8. CASE Rearm
  <2>1. jobs' = jobs /\ bodies' \in {bodies, NoBodies}
    BY <1>8, Zenon DEF Rearm, Clear
  <2> QED
    BY <1>4, <1>5, <2>1 DEF OwnerInv, NoBodies
<1>9. ASSUME NEW i \in Ids, NEW last \in BOOLEAN, Write(i, last)
      PROVE  OwnerInv'
  <2> DEFINE frag == << central, i, sent[central][i] + 1 >>
             body == Fed(frag)
  <2>1. frag \in Fragment /\ body = Append(bodies[i], frag) /\ central \in Sessions
    BY <1>9, FragmentTypes
  <2>2. frag[1] = central /\ central <= sessions
    BY <1>1 DEF CountTypes
  <2>3. bodies' = [bodies EXCEPT ![i] = << >>] \/ bodies' = [bodies EXCEPT ![i] = body]
    BY <1>9, Zenon DEF Write
  <2>4. \/ /\ last /\ DOMAIN jobs' = 1..(Len(jobs) + 1) /\ DOMAIN jobs = 1..Len(jobs)
           /\ Len(jobs) \in Nat
           /\ \A k \in DOMAIN jobs : jobs'[k] = jobs[k]
           /\ jobs'[Len(jobs) + 1].body = body
        \/ ~ last /\ jobs' = jobs
    BY <1>9, Writing
  <2> HIDE DEF frag, body
  <2>5. body # << >> /\ Owner(body) <= sessions'
    <3>1. bodies[i] \in Seq(Fragment)
      BY <1>2
    <3>2. body # << >> /\ Owner(body) = IF bodies[i] = << >> THEN central ELSE Owner(bodies[i])
      BY <2>1, <2>2, <3>1, Growing DEF Owner
    <3>3. central <= sessions'
      BY <1>1, <2>2 DEF CountTypes
    <3> QED
      BY <1>4, <3>2, <3>3
  <2>6. \A k \in Ids : bodies'[k] # << >> => Owner(bodies'[k]) <= sessions'
    BY <1>2, <1>4, <2>3, <2>5
  <2>7. \A k \in DOMAIN jobs' : jobs'[k].body # << >> /\ Owner(jobs'[k].body) <= sessions'
    <3>1. \A k \in DOMAIN jobs' : (k \in DOMAIN jobs /\ jobs'[k] = jobs[k]) \/ jobs'[k].body = body
      BY <2>4
    <3> QED
      BY <1>5, <2>5, <3>1
  <2> QED
    BY <2>6, <2>7 DEF OwnerInv, Owner
<1>10. CASE Serve
  <2>1. bodies' = bodies
    BY <1>10, Zenon DEF Serve, TakeTurn, Dispatched, Paced
  <2>2. \A k \in DOMAIN jobs' : \E m \in DOMAIN jobs : jobs'[k].body = jobs[m].body
    <3>1. PICK j \in DOMAIN jobs : TakesTurn(j) \/ Leaves(j) \/ \E n \in Nat : Sends(j, n)
      BY <1>10, Serving
    <3> QED
      BY <3>1 DEF TakesTurn, Leaves, Sends, OthersStay
  <2> QED
    BY <1>4, <1>5, <2>1, <2>2 DEF OwnerInv, Owner
<1> QED
  BY <1>6, <1>7, <1>8, <1>9, <1>10, Elsewhere DEF OnRequests, Wrote

LEMMA ListenKept ==
  ASSUME FlagTypes, CountTypes, RequestTypes, LockInv, OwnerInv, ListenInv, [Next]_vars
  PROVE  ListenInv'
<1> SUFFICES ASSUME ~ quiet'
             PROVE  /\ notifying' = subscribed'
                    /\ \A j \in DOMAIN jobs' :
                         jobs'[j].at = "notify" /\ central' = Owner(jobs'[j].body) =>
                           heard' = central' /\ subscribed'
  BY DEF ListenInv, Owner
<1>1. /\ notifying = subscribed
      /\ \A j \in DOMAIN jobs : jobs[j].at = "notify" /\ central = Owner(jobs[j].body) =>
           heard = central /\ subscribed
  BY LinkSteps DEF ListenInv
<1>2. \A j \in DOMAIN jobs : /\ Owner(jobs[j].body) \in Nat
                             /\ Owner(jobs[j].body) >= 1 /\ Owner(jobs[j].body) <= sessions
  BY JobTypes, Owners DEF OwnerInv
<1>3. CASE Gone
  <2>1. notifying' = FALSE /\ subscribed' = FALSE /\ jobs' = << >>
    BY <1>3, Zenon DEF Gone
  <2>2. DOMAIN jobs' = {}
    BY <2>1
  <2> QED
    BY <2>1, <2>2, Zenon
<1>4. CASE Rearm
  <2>1. /\ notifying' = notifying /\ subscribed' = subscribed /\ central' = central
        /\ jobs' = jobs /\ heard' = heard
    BY <1>4, Zenon DEF Rearm, blueZVars
  <2> QED
    BY <1>1, <2>1
<1>5. CASE Serve \/ Wrote
  <2>1. notifying' = notifying /\ subscribed' = subscribed /\ central' = central
    BY <1>5, ServesAlone
  <2>2. CASE Serve
    <3>1. PICK j \in DOMAIN jobs : TakesTurn(j) \/ Leaves(j) \/ \E n \in Nat : Sends(j, n)
      BY <2>2, Serving
    <3>2. CASE TakesTurn(j)
      BY <1>1, <2>1, <3>2 DEF TakesTurn, OthersStay
    <3>3. CASE Leaves(j)
      BY <1>1, <2>1, <3>3 DEF Leaves
    <3>4. ASSUME NEW n \in Nat, Sends(j, n)
          PROVE  \A k \in DOMAIN jobs' :
                    jobs'[k].at = "notify" /\ central' = Owner(jobs'[k].body) =>
                      heard' = central' /\ subscribed'
      <4>1. \A k \in DOMAIN jobs' : jobs'[k].at = "notify" => k = j
        BY <3>4 DEF Sends, OthersStay, LockInv
      <4>2. jobs'[j].body = jobs[j].body /\ heard' = IF subscribed THEN central ELSE 0
        BY <3>4 DEF Sends
      <4>3. central = Owner(jobs[j].body) => subscribed
        BY <1>1, <3>4 DEF Sends
      <4> QED
        BY <2>1, <4>1, <4>2, <4>3
    <3> QED
      BY <1>1, <2>1, <3>1, <3>2, <3>3, <3>4
  <2>3. ASSUME NEW i \in Ids, NEW last \in BOOLEAN, Write(i, last)
        PROVE  /\ heard' = heard
               /\ \A k \in DOMAIN jobs' : jobs'[k].at = "notify" =>
                    k \in DOMAIN jobs /\ jobs'[k] = jobs[k]
    <3>1. heard' = heard
      BY <2>3, Zenon DEF Write
    <3>2. \/ /\ DOMAIN jobs' = 1..(Len(jobs) + 1) /\ DOMAIN jobs = 1..Len(jobs)
             /\ Len(jobs) \in Nat
             /\ \A k \in DOMAIN jobs : jobs'[k] = jobs[k]
             /\ jobs'[Len(jobs) + 1].at = "waiting"
          \/ jobs' = jobs
      BY <2>3, Writing
    <3> QED
      BY <3>1, <3>2
  <2> QED
    BY <1>1, <1>5, <2>1, <2>2, <2>3 DEF Wrote
<1>6. CASE jobs' = jobs /\ heard' = heard
  <2>1. CASE Connect
    <3>1. /\ central' = sessions + 1 /\ notifying' = notifying /\ subscribed' = subscribed
      BY <2>1, Zenon DEF Connect, requests
    <3>2. \A j \in DOMAIN jobs : Owner(jobs[j].body) # sessions + 1
      BY <1>2, BleBounds DEF CountTypes
    <3> QED
      BY <1>1, <1>6, <3>1, <3>2
  <2>2. CASE Subscribe
    BY <1>1, <1>6, <2>2 DEF Subscribe
  <2>3. CASE Disconnect
    <3>1. central' = 0 /\ notifying' = (notifying /\ ~ subscribed) /\ subscribed' = FALSE
      BY <2>3, Zenon DEF Disconnect
    <3>2. \A j \in DOMAIN jobs : Owner(jobs[j].body) # 0
      BY <1>2
    <3>3. notifying' = FALSE
      BY <1>1, <3>1 DEF FlagTypes
    <3> QED
      BY <1>6, <3>1, <3>2, <3>3
  <2>4. CASE SameLink
    BY <1>1, <1>6, <2>4 DEF SameLink
  <2> QED
    BY <1>3, <2>1, <2>2, <2>3, <2>4, LinkSteps
<1> QED
  BY <1>3, <1>4, <1>5, <1>6, Elsewhere DEF OnRequests, Wrote

-----------------------------------------------------------------------------
(* What the buffers hold *)

(* A session that has not begun has written nothing.                       *)
Unsent == \A s \in Sessions, i \in Ids : s > sessions => sent[s][i] = 0

(* The central has not begun its request i, or it was cut off.             *)
Unbegun(i) ==
  central # 0 /\ << central, i >> \notin ended \cup torn => sent[central][i] = 0

(* The buffer holds all that the last session has written of its request,  *)
(* or Rearm is about to empty it.                                          *)
Partial(i) ==
  /\ Whole(bodies[i]) /\ bodies[i][1][2] = i
  /\ released
  /\ \/ Fresh
     \/ /\ Owner(bodies[i]) = sessions /\ ~ advertising
        /\ << sessions, i >> \notin ended
        /\ Len(bodies[i]) = sent[sessions][i]

BodyInv ==
  ~ quiet =>
    \A i \in Ids : IF bodies[i] = << >> THEN Unbegun(i) ELSE Partial(i) \/ Cut(bodies[i])

LEMMA UnsentKept ==
  ASSUME CountTypes, RequestTypes, Unsent, [Next]_vars
  PROVE  Unsent'
<1>1. sessions \in Nat /\ sessions' \in Nat /\ sessions' >= sessions
  BY SessionsGrow
<1>2. \A s \in Sessions : s > sessions' => s > sessions
  BY <1>1, BleBounds DEF Sessions
<1>3. CASE sent' = sent
  BY <1>2, <1>3 DEF Unsent
<1>4. ASSUME NEW i \in Ids, NEW last \in BOOLEAN, Write(i, last)
      PROVE  Unsent'
  <2>1. /\ sent' = [sent EXCEPT ![central][i] = sent[central][i] + 1]
        /\ central \in Sessions /\ central <= sessions
        /\ sent \in [Sessions -> [Ids -> 0 .. MaxFragments]]
    <3>1. sent' = [sent EXCEPT ![central][i] = sent[central][i] + 1]
      BY <1>4, Zenon DEF Write
    <3>2. central \in Sessions
      BY <1>4, FragmentTypes
    <3> QED
      BY <1>1, <3>1, <3>2 DEF CountTypes, RequestTypes
  <2>2. \A s \in Sessions : s > sessions => s # central
    BY <1>1, <2>1, BleBounds DEF Sessions
  <2>3. \A s \in Sessions, k \in Ids : s # central => sent'[s][k] = sent[s][k]
    BY <2>1
  <2> QED
    BY <1>2, <2>2, <2>3 DEF Unsent
<1>5. CASE Gone \/ Rearm \/ Serve
  BY <1>3, <1>5, Zenon DEF Gone, Rearm, Serve, TakeTurn, Dispatched, Paced, phone
<1> QED
  BY <1>3, <1>4, <1>5, Elsewhere DEF OnRequests, Wrote

LEMMA TornGrows ==
  ASSUME [Next]_vars
  PROVE  torn \subseteq torn'
<1>1. CASE Gone \/ Rearm
  <2>1. torn' \in {torn, torn \cup Underway}
    BY <1>1, Zenon DEF Gone, Rearm, Clear
  <2> QED
    BY <2>1
<1>2. CASE Serve \/ Wrote
  BY <1>2, ServesAlone
<1> QED
  BY <1>1, <1>2, Elsewhere DEF OnRequests

(* What a write makes of a buffer: the beginning of the central's request  *)
(* up to this write, or something with a request in it that was cut.       *)
LEMMA Prolonged ==
  ASSUME CountTypes, RequestTypes, LinkInv, BodyInv, ~ quiet,
         NEW i \in Ids, NEW last \in BOOLEAN, Write(i, last),
         NEW frag, frag = << central, i, sent[central][i] + 1 >>,
         NEW body, body = Fed(frag)
  PROVE  /\ body \in Seq(Fragment) /\ body # << >>
         /\ \/ Cut(body)
            \/ /\ Whole(body) /\ Owner(body) = central /\ body[1][2] = i
               /\ Len(body) = sent[central][i] + 1
<1>1. /\ frag \in Fragment /\ bodies[i] \in Seq(Fragment)
      /\ body = Append(bodies[i], frag) /\ body \in Seq(Fragment)
      /\ sent[central][i] \in Nat
  BY FragmentTypes
<1>2. PICK n \in Nat : n = Len(bodies[i]) /\ DOMAIN bodies[i] = 1..n
  BY <1>1, LenProperties
<1>3. /\ Len(body) = n + 1 /\ DOMAIN body = 1..(n + 1)
      /\ \A k \in 1..n : body[k] = bodies[i][k]
      /\ body[n + 1] = frag
  <2>1. PICK b \in Seq(Fragment) : b = bodies[i]
    BY <1>1
  <2>2. /\ Len(Append(b, frag)) = Len(b) + 1
        /\ DOMAIN Append(b, frag) = 1..(Len(b) + 1)
        /\ \A k \in 1..Len(b) : Append(b, frag)[k] = b[k]
        /\ Append(b, frag)[Len(b) + 1] = frag
    BY ONLY <1>1, Appended
  <2> QED
    BY <1>1, <1>2, <2>1, <2>2
<1>4. body # << >>
  BY <1>1, Growing
<1>5. /\ central # 0 /\ central = sessions /\ << central, i >> \notin ended
      /\ reply = "none" /\ n + 1 \in DOMAIN body
  <2>1. central # 0 /\ << central, i >> \notin ended /\ reply = "none"
    BY Zenon DEF Write
  <2>2. n + 1 \in 1..(n + 1)
    BY <1>2
  <2> QED
    BY <1>3, <2>1, <2>2 DEF LinkInv
<1>6. << frag[1], frag[2] >> = << central, i >>
  OBVIOUS
<1>7. CASE bodies[i] = << >>
  <2>1. n = 0
    BY <1>2, <1>7
  <2>2. << central, i >> \in torn \/ sent[central][i] = 0
    BY <1>5, <1>7 DEF BodyInv, Unbegun
  <2>3. CASE << central, i >> \in torn
    BY <1>1, <1>3, <1>4, <1>5, <1>6, <2>3 DEF Cut
  <2>4. CASE sent[central][i] = 0
    <3>1. body[1] = << central, i, 1 >> /\ DOMAIN body = {1} /\ Len(body) = 1
      BY <1>3, <2>1, <2>4
    <3>2. \A k \in DOMAIN body : body[k] = << central, i, k >>
      BY <3>1
    <3>3. body[1][1] = central /\ body[1][2] = i
      BY <3>1
    <3>4. Whole(body)
      BY <3>2, <3>3 DEF Whole
    <3> QED
      BY <1>1, <1>4, <2>4, <3>1, <3>3, <3>4 DEF Owner
  <2> QED
    BY <2>2, <2>3, <2>4
<1>8. CASE bodies[i] # << >>
  <2>1. Partial(i) \/ Cut(bodies[i])
    BY <1>8 DEF BodyInv
  <2>2. CASE Cut(bodies[i])
    <3>1. PICK k \in 1..n : << bodies[i][k][1], bodies[i][k][2] >> \in torn
      BY <1>2, <2>2 DEF Cut
    <3>2. k \in DOMAIN body /\ body[k] = bodies[i][k]
      BY <1>2, <1>3
    <3>3. Cut(body)
      BY <3>1, <3>2 DEF Cut
    <3> QED
      BY <1>1, <1>4, <3>3, Zenon
  <2>3. CASE Partial(i)
    <3>1. /\ Whole(bodies[i]) /\ bodies[i][1][2] = i /\ Owner(bodies[i]) = central
          /\ n = sent[central][i]
      BY <1>2, <1>5, <2>3 DEF Partial, Fresh
    <3>2. body[1] = bodies[i][1]
      BY ONLY <1>1, <1>8, Growing
    <3>3. Owner(body) = central /\ body[1][2] = i
      BY <3>1, <3>2 DEF Owner
    <3>4. \A k \in 1..n : body[k] = << central, i, k >>
      BY <1>2, <1>3, <3>1 DEF Whole, Owner
    <3>5. body[n + 1] = << central, i, n + 1 >>
      BY <1>3, <3>1
    <3>6. \A k \in 1..(n + 1) : k \in 1..n \/ k = n + 1
      BY <1>2
    <3>7. Whole(body)
      BY <1>3, <3>3, <3>4, <3>5, <3>6 DEF Whole, Owner
    <3> QED
      BY <1>1, <1>3, <1>4, <3>1, <3>3, <3>7
  <2> QED
    BY <2>1, <2>2, <2>3
<1> QED
  BY <1>7, <1>8

(* A step that leaves the buffers and the writes alone and disturbs no one.*)
LEMMA BodiesStay ==
  ASSUME BodyInv, Undisturbed, ~ quiet, torn \subseteq torn',
         bodies' = bodies, sent' = sent, ended' = ended
  PROVE  BodyInv'
<1>1. ASSUME NEW i \in Ids, bodies[i] = << >>, Unbegun(i)
      PROVE  Unbegun(i)'
  BY <1>1 DEF Unbegun, Undisturbed
<1>2. ASSUME NEW i \in Ids, Cut(bodies[i])
      PROVE  Cut(bodies[i])'
  BY <1>2 DEF Cut
<1>3. ASSUME NEW i \in Ids, Partial(i)
      PROVE  Partial(i)'
  BY <1>3 DEF Partial, Undisturbed, Whole, Owner
<1> QED
  BY <1>1, <1>2, <1>3 DEF BodyInv

LEMMA BodiesKept ==
  ASSUME FlagTypes, CountTypes, RequestTypes, LinkInv, ReleaseInv, Unsent, BodyInv,
         [Next]_vars
  PROVE  BodyInv'
<1> SUFFICES ASSUME ~ quiet'
             PROVE  BodyInv'
  BY DEF BodyInv
<1>1. ~ quiet /\ torn \subseteq torn'
  BY LinkSteps, TornGrows
<1>2. CASE Gone
  <2>1. central' = 0 /\ bodies' = NoBodies
    BY <1>2, Zenon DEF Gone
  <2> QED
    BY <2>1 DEF NoBodies, BodyInv, Unbegun
<1>3. CASE Serve
  <2>1. Undisturbed
    BY <1>3, ServesAlone DEF Undisturbed, Fresh
  <2>2. bodies' = bodies /\ sent' = sent /\ ended' = ended
    BY <1>3, Zenon DEF Serve, TakeTurn, Dispatched, Paced, phone
  <2> QED
    BY <1>1, <2>1, <2>2, BodiesStay
<1>4. CASE Rearm
  <2>1. /\ advRegistered' = (advRegistered \/ reply \in {"ok", "exists"})
        /\ released' = (released /\ reply # "ok")
        /\ central' = central /\ sessions' = sessions /\ advertising' = advertising
        /\ sent' = sent /\ ended' = ended
        /\ \/ advRegistered' /\ Clear
           \/ ~ advRegistered' /\ bodies' = bodies /\ torn' = torn
    BY <1>4, Zenon DEF Rearm, AdvertisementReply, blueZVars, phone
  <2>2. CASE Clear
    <3>1. bodies' = NoBodies /\ torn' = torn \cup Underway
      BY <2>2, Zenon DEF Clear
    <3>2. ASSUME NEW i \in Ids
          PROVE  Unbegun(i)'
      <4>1. SUFFICES ASSUME central # 0, << central, i >> \notin ended,
                            << central, i >> \notin Underway
                     PROVE  sent[central][i] = 0
        BY <2>1, <3>1 DEF Unbegun
      <4>2. central \in Sessions
        BY <4>1, BleBounds DEF CountTypes, Sessions
      <4>3. ~ (sent[central][i] > 0)
        BY <4>1, <4>2 DEF Underway
      <4>4. sent[central][i] \in 0 .. MaxFragments
        BY <4>2 DEF RequestTypes
      <4> QED
        BY <4>3, <4>4, BleBounds
    <3> QED
      BY <3>1, <3>2 DEF BodyInv, NoBodies
  <2>3. CASE ~ advRegistered' /\ bodies' = bodies /\ torn' = torn
    <3>1. reply # "ok" /\ released' = released
      BY <2>1, <2>3 DEF FlagTypes
    <3>2. Undisturbed
      BY <2>1, <3>1 DEF Undisturbed, Fresh
    <3> QED
      BY <1>1, <2>1, <2>3, <3>2, BodiesStay
  <2> QED
    BY <2>1, <2>2, <2>3
<1>5. ASSUME NEW i \in Ids, NEW last \in BOOLEAN, Write(i, last)
      PROVE  BodyInv'
  <2> DEFINE frag == << central, i, sent[central][i] + 1 >>
             body == Fed(frag)
  <2>1. /\ central' = central /\ sessions' = sessions /\ released' = released
        /\ advertising' = advertising /\ wd' = wd /\ reply' = reply /\ torn' = torn
    BY <1>5, ServesAlone DEF Wrote
  <2>2. /\ central \in Sessions /\ central = sessions /\ released /\ ~ advertising
        /\ << central, i >> \notin ended /\ ~ Fresh
    BY <1>1, <1>5, FragmentTypes DEF Write, LinkInv, ReleaseInv, Fresh
  <2>3. /\ body # << >>
        /\ \/ Cut(body)
           \/ /\ Whole(body) /\ Owner(body) = central /\ body[1][2] = i
              /\ Len(body) = sent[central][i] + 1
    BY <1>1, <1>5, Prolonged
  <2>4. sent' = [sent EXCEPT ![central][i] = sent[central][i] + 1]
    BY <1>5, Zenon DEF Write
  <2>5. \/ /\ bodies' = [bodies EXCEPT ![i] = << >>]
           /\ ended' = ended \cup {<< central, i >>}
        \/ /\ bodies' = [bodies EXCEPT ![i] = body]
           /\ ended' = ended
    BY <1>5, Zenon DEF Write
  <2> HIDE DEF frag, body
  <2>6. /\ bodies \in [Ids -> Seq(Fragment)]
        /\ sent \in [Sessions -> [Ids -> 0 .. MaxFragments]]
    BY DEF RequestTypes
  <2>7. ASSUME NEW k \in Ids, k # i
        PROVE  IF bodies'[k] = << >> THEN Unbegun(k)' ELSE Partial(k)' \/ Cut(bodies[k])'
    <3>1. bodies'[k] = bodies[k] /\ sent'[central][k] = sent[central][k]
      BY <2>2, <2>4, <2>5, <2>6, <2>7
    <3>2. << central, k >> \in ended' <=> << central, k >> \in ended
      BY <2>5, <2>7
    <3>3. IF bodies[k] = << >> THEN Unbegun(k) ELSE Partial(k) \/ Cut(bodies[k])
      BY <1>1 DEF BodyInv
    <3>4. CASE bodies[k] = << >>
      BY <2>1, <3>1, <3>2, <3>3, <3>4 DEF Unbegun
    <3>5. CASE bodies[k] # << >> /\ Cut(bodies[k])
      BY <2>1, <3>1, <3>5 DEF Cut
    <3>6. CASE bodies[k] # << >> /\ Partial(k)
      <4>1. Partial(k)'
        BY <2>1, <2>2, <3>1, <3>2, <3>6 DEF Partial, Fresh, Whole, Owner
      <4> QED
        BY <3>1, <3>6, <4>1
    <3> QED
      BY <3>3, <3>4, <3>5, <3>6
  <2>8. IF bodies'[i] = << >> THEN Unbegun(i)' ELSE Partial(i)' \/ Cut(bodies[i])'
    <3>1. CASE bodies' = [bodies EXCEPT ![i] = << >>] /\ ended' = ended \cup {<< central, i >>}
      BY <2>1, <2>6, <3>1 DEF Unbegun
    <3>2. CASE bodies' = [bodies EXCEPT ![i] = body] /\ ended' = ended
      <4>1. bodies'[i] = body
        BY <2>6, <3>2
      <4>2. CASE Cut(body)
        BY <2>1, <2>3, <4>1, <4>2 DEF Cut
      <4>3. CASE /\ Whole(body) /\ Owner(body) = central /\ body[1][2] = i
                 /\ Len(body) = sent[central][i] + 1
        <5>1. sent'[sessions][i] = sent[central][i] + 1
          BY <2>2, <2>4, <2>6
        <5>2. Partial(i)'
          BY <2>1, <2>2, <3>2, <4>1, <4>3, <5>1 DEF Partial, Whole, Owner
        <5> QED
          BY <2>3, <4>1, <5>2
      <4> QED
        BY <2>3, <4>2, <4>3
    <3> QED
      BY <2>5, <3>1, <3>2
  <2> QED
    BY <2>7, <2>8 DEF BodyInv
<1>6. CASE bodies' = bodies /\ sent' = sent /\ ended' = ended /\ torn' = torn
  <2>1. CASE Connect
    <3>1. /\ advertising /\ released' /\ wd' = wd /\ reply' = reply
          /\ central' = sessions + 1 /\ sessions < MaxSessions
      BY <2>1, Zenon DEF Connect
    <3>2. sessions + 1 \in Sessions /\ sessions + 1 > sessions
      BY <3>1, BleBounds DEF CountTypes, Sessions
    <3>3. \A i \in Ids : Unbegun(i)'
      BY <1>6, <3>1, <3>2 DEF Unbegun, Unsent
    <3>4. ASSUME NEW i \in Ids, Partial(i)
          PROVE  Partial(i)'
      BY <1>6, <3>1, <3>4 DEF Partial, Fresh, Whole
    <3>5. ASSUME NEW i \in Ids, Cut(bodies[i])
          PROVE  Cut(bodies[i])'
      BY <1>6, <3>5 DEF Cut
    <3> QED
      BY <1>1, <1>6, <3>3, <3>4, <3>5 DEF BodyInv
  <2>2. CASE (StartAdv \/ AdvAgain) /\ reply = "ok"
    <3>1. central' = central /\ AdvertisementReply(FALSE)
      BY <2>2, Zenon DEF StartAdv, AdvAgain, blueZVars
    <3>2. ~ released
      BY <2>2, <3>1 DEF AdvertisementReply
    <3>3. ASSUME NEW i \in Ids
          PROVE  IF bodies'[i] = << >> THEN Unbegun(i)' ELSE Cut(bodies[i])'
      <4>1. IF bodies[i] = << >> THEN Unbegun(i) ELSE Cut(bodies[i])
        BY <1>1, <3>2 DEF BodyInv, Partial
      <4> QED
        BY <1>6, <3>1, <4>1 DEF Unbegun, Cut
    <3> QED
      BY <3>3 DEF BodyInv
  <2>3. CASE Undisturbed
    BY <1>1, <1>6, <2>3, BodiesStay
  <2> QED
    BY <1>2, <1>4, <2>1, <2>2, <2>3, LinkSteps DEF Renews
<1> QED
  BY <1>2, <1>3, <1>4, <1>5, <1>6, Elsewhere DEF OnRequests, Wrote

LEMMA WholeKept ==
  ASSUME CountTypes, RequestTypes, LinkInv, BodyInv, FlagTypes, RequestsAreWhole,
         [Next]_vars
  PROVE  RequestsAreWhole'
<1> SUFFICES ASSUME ~ quiet'
             PROVE  \A j \in DOMAIN jobs' : Whole(jobs'[j].body) \/ Cut(jobs[j].body)'
  BY DEF RequestsAreWhole, Whole
<1>1. ~ quiet /\ torn \subseteq torn'
  BY LinkSteps, TornGrows
<1>2. ASSUME NEW j \in DOMAIN jobs', NEW body, jobs'[j].body = body, Whole(body) \/ Cut(body)
      PROVE  Whole(jobs'[j].body) \/ Cut(jobs[j].body)'
  BY <1>1, <1>2 DEF Cut
<1>3. \A m \in DOMAIN jobs : Whole(jobs[m].body) \/ Cut(jobs[m].body)
  BY <1>1 DEF RequestsAreWhole
<1>4. CASE \A j \in DOMAIN jobs' : \E m \in DOMAIN jobs : jobs'[j].body = jobs[m].body
  BY <1>2, <1>3, <1>4
<1>5. CASE jobs' = jobs
  BY <1>4, <1>5
<1>6. CASE Gone \/ Rearm
  <2>1. jobs' = << >> \/ jobs' = jobs
    BY <1>6, Zenon DEF Gone, Rearm
  <2> QED
    BY <1>5, <2>1
<1>7. CASE Serve
  <2>1. PICK j \in DOMAIN jobs : TakesTurn(j) \/ Leaves(j) \/ \E n \in Nat : Sends(j, n)
    BY <1>7, Serving
  <2> QED
    BY <1>4, <2>1 DEF TakesTurn, Leaves, Sends, OthersStay
<1>8. ASSUME NEW i \in Ids, NEW last \in BOOLEAN, Write(i, last)
      PROVE  \A j \in DOMAIN jobs' : Whole(jobs'[j].body) \/ Cut(jobs[j].body)'
  <2> DEFINE body == Fed(<< central, i, sent[central][i] + 1 >>)
  <2>1. Whole(body) \/ Cut(body)
    BY <1>1, <1>8, Prolonged
  <2>2. \/ /\ DOMAIN jobs' = 1..(Len(jobs) + 1) /\ DOMAIN jobs = 1..Len(jobs)
           /\ Len(jobs) \in Nat
           /\ \A k \in DOMAIN jobs : jobs'[k] = jobs[k]
           /\ jobs'[Len(jobs) + 1].body = body
        \/ jobs' = jobs
    BY <1>8, Writing
  <2> HIDE DEF body
  <2>3. \A k \in DOMAIN jobs' : jobs'[k].body = body \/ \E m \in DOMAIN jobs : jobs'[k] = jobs[m]
    BY <2>2
  <2> QED
    BY <1>2, <1>3, <2>1, <2>3
<1> QED
  BY <1>5, <1>6, <1>7, <1>8, Elsewhere DEF OnRequests, Wrote

-----------------------------------------------------------------------------
(* Theorems *)

Types == FlagTypes /\ CallTypes /\ CountTypes /\ RequestTypes

IInv ==
  /\ Types /\ LockInv /\ LinkInv /\ ReleaseInv /\ OwnerInv /\ ListenInv
  /\ Unsent /\ BodyInv /\ RequestsAreWhole

LEMMA IInvInit == Init => IInv
<1> SUFFICES ASSUME Init PROVE IInv
  OBVIOUS
<1>1. Types
  BY TypesInit DEF Types
<1>2. /\ jobs = << >> /\ DOMAIN jobs = {} /\ central = 0 /\ sessions = 0
      /\ ~ subscribed /\ ~ notifying /\ ~ advertising /\ bodies = NoBodies
      /\ sent = NobodyWrote
  BY DEF Init
<1>3. LockInv /\ RequestsAreWhole
  BY <1>2, Zenon DEF LockInv, RequestsAreWhole
<1>4. LinkInv /\ ReleaseInv
  BY <1>2 DEF LinkInv, ReleaseInv
<1>5. \A i \in Ids : bodies[i] = << >>
  BY <1>2 DEF NoBodies
<1>6. OwnerInv
  BY <1>2, <1>5, Zenon DEF OwnerInv
<1>7. BodyInv
  BY <1>2, <1>5, Zenon DEF BodyInv, Unbegun
<1>8. Unsent
  BY <1>2 DEF Unsent, NobodyWrote
<1>9. ListenInv
  <2>1. notifying = subscribed
    BY <1>1, <1>2 DEF Types, FlagTypes
  <2> QED
    BY <1>2, <2>1, Zenon DEF ListenInv
<1> QED
  BY <1>1, <1>3, <1>4, <1>6, <1>7, <1>8, <1>9 DEF IInv

LEMMA IInvKept ==
  ASSUME IInv, [Next]_vars
  PROVE  IInv'
<1>1. Types'
  BY FlagTypesKept, CallTypesKept, CountTypesKept, RequestTypesKept DEF IInv, Types
<1>2. LockInv' /\ LinkInv' /\ ReleaseInv'
  BY LockKept, LinkKept, ReleaseKept DEF IInv, Types
<1>3. OwnerInv' /\ ListenInv'
  BY OwnersKept, ListenKept DEF IInv, Types
<1>4. Unsent' /\ BodyInv' /\ RequestsAreWhole'
  BY UnsentKept, BodiesKept, WholeKept DEF IInv, Types
<1> QED
  BY <1>1, <1>2, <1>3, <1>4 DEF IInv

LEMMA Inductive == Spec => []IInv
BY IInvInit, IInvKept, PTL DEF Spec

(* Every variable keeps its type, and BlueZ serves and advertises the GATT *)
(* application only while both it and the bridge run.                      *)
THEOREM TypeCorrect == Spec => []TypeOK
<1>1. IInv => TypeOK
  <2>1. FlagTypes => /\ {bluez, appKnown, advertising, subscribed, appRegistered,
                          advRegistered, released, healthy, notifying, quiet}
                            \subseteq BOOLEAN
                     /\ appKnown \/ advertising => bluez /\ Running
    BY DEF FlagTypes
  <2> QED
    BY <2>1, Zenon DEF IInv, Types, CallTypes, CountTypes, RequestTypes, TypeOK
<1> QED
  BY <1>1, Inductive, PTL

(* A request reaches the RPC dispatcher as its central wrote it, from the  *)
(* first fragment to the last, unless its buffer was emptied while it was  *)
(* being written or BlueZ dropped a central without a Release: no fragment *)
(* of an earlier connection that used the same request id is left in the   *)
(* buffer when the next central writes.                                    *)
THEOREM RequestsComeWhole == Spec => []RequestsAreWhole
BY Inductive, PTL DEF IInv

(* The notifications of two answers are never mixed, for any number of     *)
(* requests that wait for the lock.                                        *)
THEOREM AnswersUnmixed == Spec => AnswersInOnePiece
<1>1. ASSUME IInv, [Next]_vars
      PROVE  \/ UNCHANGED value
             \/ value' = NoValue
             \/ value'.n = 1
             \/ value'.body = value.body /\ value'.n = value.n + 1
  <2>1. CASE Gone
    BY <2>1, Zenon DEF Gone
  <2>2. CASE Rearm \/ Wrote
    BY <2>2, Zenon DEF Rearm, Wrote, Write
  <2>3. CASE Serve
    <3>1. PICK j \in DOMAIN jobs : TakesTurn(j) \/ Leaves(j) \/ \E n \in Nat : Sends(j, n)
      BY <1>1, <2>3, Serving DEF IInv, Types
    <3>2. ASSUME NEW n \in Nat, Sends(j, n)
          PROVE  value'.n = 1 \/ (value'.body = value.body /\ value'.n = value.n + 1)
      BY <1>1, <3>2 DEF Sends, IInv, LockInv
    <3> QED
      BY <3>1, <3>2 DEF TakesTurn, Leaves
  <2> QED
    BY <1>1, <2>1, <2>2, <2>3, Elsewhere DEF OnRequests
<1> QED
  BY <1>1, Inductive, PTL DEF AnswersInOnePiece, Spec

(* A central that hears a later fragment of the answer to its own request  *)
(* has heard the one before, for any number of fragments: it cannot have   *)
(* left, come back or subscribed in between without the answer being that  *)
(* of another session.                                                     *)
THEOREM HeardFromTheStart == Spec => HearsFromTheStart
<1>1. ASSUME IInv, [Next]_vars,
             value' # value, value'.n > 1, heard' # 0, heard' = value'.body[1][1]
      PROVE  heard = heard' \/ quiet
  <2>1. CASE Gone
    <3>1. value' = NoValue
      BY <2>1, Zenon DEF Gone
    <3> QED
      BY <1>1, <3>1 DEF NoValue
  <2>2. CASE Rearm \/ Wrote
    BY <1>1, <2>2, Zenon DEF Rearm, Wrote, Write
  <2>3. CASE Serve
    <3>1. PICK j \in DOMAIN jobs : TakesTurn(j) \/ Leaves(j) \/ \E n \in Nat : Sends(j, n)
      BY <1>1, <2>3, Serving DEF IInv, Types
    <3>2. ASSUME NEW n \in Nat, Sends(j, n)
          PROVE  heard = heard' \/ quiet
      <4>1. jobs[j].at = "notify" /\ value'.body = jobs[j].body
        BY <1>1, <3>2 DEF Sends
      <4>2. heard' = central /\ central = Owner(jobs[j].body)
        BY <1>1, <3>2, <4>1 DEF Sends, Owner
      <4> QED
        BY <1>1, <4>1, <4>2 DEF IInv, ListenInv
    <3> QED
      BY <1>1, <3>1, <3>2 DEF TakesTurn, Leaves
  <2> QED
    BY <1>1, <2>1, <2>2, <2>3, Elsewhere DEF OnRequests
<1> QED
  BY <1>1, Inductive, PTL DEF HearsFromTheStart, Spec
=================================================================================

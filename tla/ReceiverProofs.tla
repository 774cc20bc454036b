---------------------------- MODULE ReceiverProofs ----------------------------
(***************************************************************************)
(* Theorems about the receiving application on top of the upload server:   *)
(* that it is an application the server's theorems speak of, and what the  *)
(* two achieve together.                                                   *)
(***************************************************************************)
EXTENDS Receiver, UploadServerProofs, FiniteSetTheorems

\* The types of what the application keeps, but for the list of entries.
AppTypes ==
  /\ sessions \in SUBSET Session
  /\ pending \in Session \union {NoSession}
  /\ response \in [Session -> Response]
  /\ watchdog \in [Session -> Watchdog]
  /\ task \in [Session -> [File -> [1..MaxAttempts -> TaskState]]]
  /\ delivered \in SUBSET (Session \X File)

(***************************************************************************)
(* The channel                                                             *)
(***************************************************************************)
IsPrepare(e, s) == e.type = "PrepareUpload" /\ e.session = s
IsAbort(e, s) == e.type = "PrepareUploadAborted" /\ e.session = s
IsEnd(e, s) == e.type = "SessionEnd" /\ e.session = s

\* What the application may rely on about events still in the channel: a request is
\* announced once, before anything was done for it; its end and its abort come when it
\* is over; and a request that waits for a decision is the last one announced.
EventsOf(s) ==
  /\ \A i, j \in 1..Len(events) : IsPrepare(events[i], s) /\ IsPrepare(events[j], s) => i = j
  /\ \A i \in 1..Len(events) : IsPrepare(events[i], s) => watchdog[s] = "None"
  /\ watchdog[s] = "None" => response[s] = "None"
  /\ prep[s] \in {"Idle", "Offering"} =>
       watchdog[s] = "None" /\ \A i \in 1..Len(events) : ~IsPrepare(events[i], s)
  /\ \A i \in 1..Len(events) : IsEnd(events[i], s) => ending[s] # "None"
  /\ \A i \in 1..Len(events) : IsAbort(events[i], s) => prep[s] = "Closed"
  /\ prep[s] \in Selecting =>
       \A t \in Session \ {s}, i \in 1..Len(events) : IsPrepare(events[i], t) =>
         \E j \in 1..Len(events) : i < j /\ IsPrepare(events[j], s)
EventInv == \A s \in Session : EventsOf(s)

\* Handlers go on, sessions end and answers come only in ways the channel allows for.
EventCalm ==
  \A s \in Session :
    /\ prep'[s] \in {"Idle", "Offering"} => prep[s] \in {"Idle", "Offering"}
    /\ prep[s] = "Closed" => prep'[s] = "Closed"
    /\ prep'[s] \in Selecting => prep[s] \in Selecting
    /\ ending[s] # "None" => ending'[s] # "None"
    /\ watchdog[s] = "None" <=> watchdog'[s] = "None"
    /\ watchdog[s] = "None" /\ response[s] = "None" => response'[s] = "None"

LEMMA CalmEvents ==
  ASSUME EventInv, EventCalm, UNCHANGED events
  PROVE  EventInv'
<1> SUFFICES ASSUME NEW s \in Session
             PROVE  EventsOf(s)'
  BY DEF EventInv
<1> QED BY DEF EventInv, EventsOf, EventCalm

\* An event other than a request is sent.
LEMMA MoreEvents ==
  ASSUME ServerTypeOK, EventInv, EventCalm, NEW e \in Event, Emit(e),
         e.type # "PrepareUpload",
         \A s \in Session : IsEnd(e, s) => ending'[s] # "None",
         \A s \in Session : IsAbort(e, s) => prep'[s] = "Closed"
  PROVE  EventInv'
<1> SUFFICES ASSUME NEW s \in Session
             PROVE  EventsOf(s)'
  BY DEF EventInv
<1>1. /\ \A i \in 1..Len(events) : i \in 1..Len(events') /\ events'[i] = events[i]
      /\ \A i \in 1..Len(events') : i \in 1..Len(events) \/ events'[i] = e
  BY AppendEvents
<1>2. \A t \in Session : ~IsPrepare(e, t)
  BY DEF IsPrepare
<1> QED BY <1>1, <1>2 DEF EventInv, EventsOf, EventCalm

\* A request is announced.
LEMMA OfferEvents ==
  ASSUME ServerTypeOK, ClaimOwned, EventInv, NEW s \in Session, OfferSession(s), UNCHANGED appVars
  PROVE  EventInv'
<1>1. /\ \A i \in 1..Len(events) : i \in 1..Len(events') /\ events'[i] = events[i]
      /\ events'[Len(events')] = PrepareUpload(s) /\ Len(events') \in 1..Len(events')
      /\ \A i \in 1..Len(events') : i \in 1..Len(events) \/ i = Len(events')
      /\ Len(events) \in Nat /\ Len(events') = Len(events) + 1
  BY AppendEvents, SessionEventTypes DEF OfferSession
<1>2. \A t \in Session : /\ IsPrepare(PrepareUpload(s), t) <=> t = s
                         /\ ~IsEnd(PrepareUpload(s), t) /\ ~IsAbort(PrepareUpload(s), t)
  BY DEF IsPrepare, IsEnd, IsAbort, PrepareUpload
<1>3. /\ prep[s] = "Offering" /\ prep'[s] = "Deciding"
      /\ \A t \in Session \ {s} : prep'[t] = prep[t]
      /\ UNCHANGED <<ending, watchdog, response>>
  BY DEF OfferSession, appVars, ServerTypeOK
<1>4. \A t \in Session \ {s} : prep[t] \notin Selecting
  BY <1>3 DEF ClaimOwned, Owning, Selecting, Pending
<1> SUFFICES ASSUME NEW t \in Session
             PROVE  EventsOf(t)'
  BY DEF EventInv
<1>5. CASE t = s
  <2>1. /\ watchdog[s] = "None" /\ response[s] = "None"
        /\ \A i \in 1..Len(events) : /\ ~IsPrepare(events[i], s) /\ ~IsAbort(events[i], s)
                                     /\ IsEnd(events[i], s) => ending[s] # "None"
    BY <1>3 DEF EventInv, EventsOf
  <2>2. \A i \in 1..Len(events'), u \in Session \ {s} : IsPrepare(events'[i], u) =>
          \E j \in 1..Len(events') : i < j /\ IsPrepare(events'[j], s)
    BY <1>1, <1>2
  <2> QED BY <1>1, <1>2, <1>3, <1>5, <2>1, <2>2 DEF EventsOf
<1>6. CASE t # s
  BY <1>1, <1>2, <1>3, <1>4, <1>6 DEF EventInv, EventsOf
<1> QED BY <1>5, <1>6

\* The application takes an event; a session becomes known by its request.
LEMMA FewerEvents ==
  ASSUME ServerTypeOK, EventInv, events # <<>>, events' = Tail(events),
         \A s \in Session :
           /\ prep'[s] = prep[s] \/ (prep[s] = "Deciding" /\ prep'[s] \in {"Accepted", "Declined"})
           /\ watchdog'[s] = "None" => watchdog[s] = "None" /\ response'[s] = "None"
           /\ watchdog[s] = "None" => watchdog'[s] = "None" \/ IsPrepare(events[1], s),
         UNCHANGED ending
  PROVE  EventInv'
<1>1. /\ Len(events) \in Nat /\ Len(events') \in Nat /\ Len(events) = Len(events') + 1
      /\ \A i \in 1..Len(events') : i + 1 \in 1..Len(events) /\ events'[i] = events[i + 1]
      /\ 1 \in 1..Len(events)
  BY TailEvents
<1> SUFFICES ASSUME NEW s \in Session
             PROVE  EventsOf(s)'
  BY DEF EventInv
<1>2. EventsOf(s)
  BY DEF EventInv
<1>3. \A i \in 1..Len(events') : IsPrepare(events'[i], s) => ~IsPrepare(events[1], s)
  <2> SUFFICES ASSUME NEW i \in 1..Len(events'), IsPrepare(events'[i], s), IsPrepare(events[1], s)
               PROVE  FALSE
    OBVIOUS
  <2>1. i + 1 = 1
    BY <1>1, <1>2 DEF EventsOf
  <2> QED BY <1>1, <2>1
<1>4. prep'[s] \in Selecting =>
        \A t \in Session \ {s}, i \in 1..Len(events') : IsPrepare(events'[i], t) =>
          \E j \in 1..Len(events') : i < j /\ IsPrepare(events'[j], s)
  <2> SUFFICES ASSUME prep'[s] \in Selecting, NEW t \in Session \ {s},
                      NEW i \in 1..Len(events'), IsPrepare(events'[i], t)
               PROVE  \E j \in 1..Len(events') : i < j /\ IsPrepare(events'[j], s)
    OBVIOUS
  <2>1. prep[s] \in Selecting
    BY DEF Selecting
  <2>2. IsPrepare(events[i + 1], t) /\ i + 1 \in 1..Len(events)
    BY <1>1
  <2>3. PICK j \in 1..Len(events) : i + 1 < j /\ IsPrepare(events[j], s)
    BY <1>2, <2>1, <2>2 DEF EventsOf
  <2>4. j - 1 \in 1..Len(events') /\ i < j - 1 /\ (j - 1) + 1 = j
    BY <1>1, <2>3
  <2>5. IsPrepare(events'[j - 1], s)
    BY <1>1, <2>3, <2>4
  <2> QED BY <2>4, <2>5
<1>5. /\ \A i \in 1..Len(events') : IsPrepare(events'[i], s) => watchdog'[s] = "None"
      /\ watchdog'[s] = "None" => response'[s] = "None"
      /\ prep'[s] \in {"Idle", "Offering"} =>
           watchdog'[s] = "None" /\ \A i \in 1..Len(events') : ~IsPrepare(events'[i], s)
      /\ \A i \in 1..Len(events') : IsEnd(events'[i], s) => ending'[s] # "None"
      /\ \A i \in 1..Len(events') : IsAbort(events'[i], s) => prep'[s] = "Closed"
  BY <1>1, <1>2, <1>3 DEF EventsOf
<1>6. \A i, j \in 1..Len(events') : IsPrepare(events'[i], s) /\ IsPrepare(events'[j], s) => i = j
  <2> SUFFICES ASSUME NEW i \in 1..Len(events'), NEW j \in 1..Len(events'),
                      IsPrepare(events'[i], s), IsPrepare(events'[j], s)
               PROVE  i = j
    OBVIOUS
  <2>1. i + 1 = j + 1
    BY <1>1, <1>2 DEF EventsOf
  <2> QED BY <2>1
<1> QED BY <1>4, <1>5, <1>6 DEF EventsOf

LEMMA EventsServer ==
  ASSUME ServerInv, AppTypes, EventInv, ServerStep, UNCHANGED appVars
  PROVE  EventInv'
<1> USE DEF ServerInv
<1>1. UNCHANGED <<watchdog, response>>
  BY DEF appVars
<1>2. ASSUME NEW s \in Session, PrepareStep(s) PROVE EventInv'
  <2>1. CASE OfferSession(s)
    BY <2>1, OfferEvents
  <2>2. CASE AnnounceAbort(s)
    <3>1. /\ EventCalm /\ prep'[s] = "Closed"
          /\ PrepareUploadAborted(s).type = "PrepareUploadAborted"
          /\ \A t \in Session : /\ ~IsEnd(PrepareUploadAborted(s), t)
                                /\ IsAbort(PrepareUploadAborted(s), t) => t = s
      BY <1>1, <2>2 DEF AnnounceAbort, EventCalm, ServerTypeOK, Selecting, IsEnd, IsAbort,
                        PrepareUploadAborted
    <3>2. Emit(PrepareUploadAborted(s)) /\ PrepareUploadAborted(s) \in Event
      BY <2>2, SessionEventTypes DEF AnnounceAbort
    <3> QED BY <3>1, <3>2, MoreEvents
  <2>3. CASE \/ ClaimSlot(s) \/ CreateSession(s) \/ RefuseSession(s) \/ LoseClaim(s)
             \/ DropPrepare(s) \/ MissDecision(s) \/ ObserveCancel(s) \/ ReleaseClaim(s)
    <3>1. UNCHANGED <<events, ending>>
      BY <2>3 DEF ClaimSlot, CreateSession, RefuseSession, LoseClaim, DropPrepare, MissDecision,
                  ObserveCancel, AbandonClaim, ReleaseClaim
    <3>2. /\ prep[s] \notin {"Offering", "Closed"} => prep'[s] \in PrepState \ Selecting
          /\ prep[s] = "Offering" => prep'[s] = "Dropped"
          /\ prep[s] # "Closed"
          /\ prep'[s] \in {"Idle", "Offering"} => prep[s] = "Idle"
          /\ \A t \in Session \ {s} : prep'[t] = prep[t]
      BY <2>3 DEF ClaimSlot, CreateSession, RefuseSession, LoseClaim, DropPrepare, MissDecision,
                  ObserveCancel, AbandonClaim, ReleaseClaim, Disconnected, DecisionLost,
                  TokenWins, NothingToReceive, Selecting, ServerTypeOK, PrepState
    <3>3. EventCalm
      BY <1>1, <3>1, <3>2 DEF EventCalm, Selecting
    <3> QED BY <3>1, <3>3, CalmEvents
  <2> QED BY <1>2, <2>1, <2>2, <2>3 DEF PrepareStep
<1>3. ASSUME NEW s \in Session, NEW f \in File, UploadStep(s, f) PROVE EventInv'
  <2>1. prep' = prep
    BY <1>3 DEF UploadStep, StartUpload, OfferFile, SaveFile, FinishUpload, DropUpload,
                FinalizeDropped, LoseUpload
  <2>2. \A t \in Session : ending[t] # "None" => ending'[t] # "None"
    BY <1>3 DEF UploadStep, StartUpload, OfferFile, SaveFile, FinishUpload, DropUpload,
                FinalizeDropped, LoseUpload, FinalizeFile, ServerTypeOK
  <2>3. EventCalm
    BY <1>1, <2>1, <2>2 DEF EventCalm
  <2>4. CASE OfferFile(s, f)
    <3>1. /\ FileUpload(s, f).type = "FileUpload"
          /\ \A t \in Session : ~IsEnd(FileUpload(s, f), t) /\ ~IsAbort(FileUpload(s, f), t)
      BY DEF IsEnd, IsAbort, FileUpload
    <3>2. Emit(FileUpload(s, f)) /\ FileUpload(s, f) \in Event
      BY <2>4, SessionEventTypes DEF OfferFile
    <3> QED BY <2>3, <3>1, <3>2, MoreEvents
  <2>5. CASE UNCHANGED events
    BY <2>3, <2>5, CalmEvents
  <2> QED BY <1>3, <2>4, <2>5 DEF UploadStep, StartUpload, SaveFile, FinishUpload, DropUpload,
                                  FinalizeDropped, LoseUpload
<1>4. ASSUME NEW s \in Session, EndStep(s) PROVE EventInv'
  <2>1. /\ prep' = prep
        /\ \A t \in Session : ending[t] # "None" => ending'[t] # "None"
    BY <1>4 DEF EndStep, AnnounceEnd, LoseEnd, CancelActive, ServerTypeOK
  <2>2. EventCalm
    BY <1>1, <2>1 DEF EventCalm
  <2>3. CASE AnnounceEnd(s)
    <3> DEFINE e == SessionEnd(s, IF ending[s] = "Cancelled" THEN "Cancelled" ELSE "Finished")
    <3>1. /\ e.type = "SessionEnd" /\ ending'[s] # "None"
          /\ \A t \in Session : ~IsAbort(e, t) /\ (IsEnd(e, t) => t = s)
      BY <2>3 DEF AnnounceEnd, SessionEnd, IsEnd, IsAbort, ServerTypeOK
    <3>2. Emit(e) /\ e \in Event
      BY <2>3, SessionEventTypes DEF AnnounceEnd
    <3> HIDE DEF e
    <3> QED BY <2>2, <3>1, <3>2, MoreEvents
  <2>4. CASE UNCHANGED events
    BY <2>2, <2>4, CalmEvents
  <2> QED BY <1>4, <2>3, <2>4 DEF EndStep, LoseEnd, CancelActive
<1>5. ASSUME NEW ip \in Peer, NEW id \in Session \union {NoSession}, CancelPending(ip, id)
      PROVE  EventInv'
  <2>1. EventCalm /\ UNCHANGED events
    BY <1>1, <1>5 DEF EventCalm, CancelPending
  <2> QED BY <2>1, CalmEvents
<1> QED BY <1>2, <1>3, <1>4, <1>5 DEF ServerStep

(***************************************************************************)
(* The prompt                                                              *)
(***************************************************************************)

\* Only a prompt on offer is closed, and then its response.
LEMMA CloseEffect ==
  ASSUME AppTypes
  PROVE  /\ ClosePrompt(response) \in [Session -> Response]
         /\ \A s \in Session :
              ClosePrompt(response)[s] =
                IF s = pending /\ response[s] = "Open" THEN "Closed" ELSE response[s]
BY ServerAssumption DEF AppTypes, ClosePrompt, Response

LEMMA WithdrawEffect ==
  ASSUME AppTypes, NEW s \in Session, WithdrawPrompt(s)
  PROVE  /\ pending' = IF pending = s THEN NoSession ELSE pending
         /\ response' \in [Session -> Response]
         /\ \A t \in Session :
              response'[t] = IF t = s /\ pending = s /\ response[t] = "Open" THEN "Closed"
                             ELSE response[t]
BY CloseEffect DEF WithdrawPrompt, AppTypes

LEMMA ShowEffect ==
  ASSUME AppTypes, NEW s \in Session, ShowPrompt(s)
  PROVE  /\ pending' = s
         /\ response' \in [Session -> Response]
         /\ response'[s] = "Open"
         /\ \A t \in Session \ {s} :
              response'[t] = IF t = pending /\ response[t] = "Open" THEN "Closed" ELSE response[t]
BY CloseEffect DEF ShowPrompt, Response

\* A session is forgotten: its watchdog may stop, its prompt goes.
LEMMA ForgetEffect ==
  ASSUME AppTypes, NEW s \in Session, Forget(s)
  PROVE  /\ sessions' = sessions \ {s}
         /\ watchdog' \in [Session -> Watchdog]
         /\ watchdog'[s] = watchdog[s] \/ (watchdog[s] = "Armed" /\ watchdog'[s] = "Stopped")
         /\ \A t \in Session \ {s} : watchdog'[t] = watchdog[t]
         /\ WithdrawPrompt(s)
BY DEF Forget, AppTypes, Watchdog

(***************************************************************************)
(* What one step of the application does, whichever it is                  *)
(***************************************************************************)
AppNext ==
  \/ EventLoop
  \/ \E choice \in {"Accept", "Reject"} : DecidePending(choice)
  \/ \E s \in Session : DecisionTask(s) \/ WatchdogExpires(s) \/ WatchdogCleans(s)
  \/ \E s \in Session, f \in File, n \in 1..MaxAttempts : ResultTask(s, f, n)

\* The application only ever does what the server allows it to do.
LEMMA LoopIsAllowed ==
  ASSUME ServerTypeOK, EventLoop
  PROVE  AppTakes
<1> DEFINE e == Head(events)
<1>1. /\ events # <<>> /\ events' = Tail(events)
      /\ UNCHANGED <<slot, cancelled, status, attempts, outcome, ending>>
  BY DEF EventLoop, DeclineOffer, HandlePrepareUpload, HandleFileUpload, HandleSessionEnd,
         HandleAborted, Takes, appVars
<1>2. e.session \in Session /\ (e.type = "FileUpload" => e.file \in File)
  BY <1>1, HeadTail
<1>3. CASE DeclineOffer
  <2>1. DecidesSession(e.session)
    BY <1>3 DEF DeclineOffer, DecidesSession
  <2> QED BY <1>1, <1>3, <2>1 DEF AppTakes, DeclineOffer, Takes
<1>4. CASE HandlePrepareUpload
  <2>1. DecidesSession(e.session) \/ UNCHANGED <<prep, answer>>
    BY <1>4 DEF HandlePrepareUpload, DecidesSession
  <2> QED BY <1>1, <1>4, <2>1 DEF AppTakes, HandlePrepareUpload, Takes
<1>5. CASE HandleFileUpload
  <2>1. ProvidesTarget(e.session, e.file)
    BY <1>5 DEF HandleFileUpload, ProvidesTarget
  <2> QED BY <1>1, <1>5, <2>1 DEF AppTakes, HandleFileUpload, Takes
<1>6. CASE HandleSessionEnd \/ HandleAborted
  BY <1>1, <1>6 DEF AppTakes, HandleSessionEnd, HandleAborted
<1> QED BY <1>3, <1>4, <1>5, <1>6 DEF EventLoop

LEMMA DecisionIsAllowed ==
  ASSUME AppTypes, EventInv, NEW s \in Session, DecisionTask(s)
  PROVE  AppDecides(s) \/ UNCHANGED serverVars
<1>1. CASE prep[s] = "Deciding"
  <2>1. \A i \in 1..Len(events) : ~IsPrepare(events[i], s)
    BY DEF EventInv, EventsOf, DecisionTask
  <2>2. Taken(PrepareUpload(s))
    BY <2>1 DEF Taken, IsPrepare, PrepareUpload
  <2>3. DecidesSession(s)
    BY DEF DecisionTask, DecidesSession
  <2> QED BY <1>1, <2>2, <2>3 DEF AppDecides, DecisionTask
<1>2. CASE prep[s] # "Deciding"
  BY <1>2 DEF DecisionTask, Answered, serverVars
<1> QED BY <1>1, <1>2

LEMMA AppIsAllowed ==
  ASSUME ServerTypeOK, AppTypes, EventInv, AppNext
  PROVE  AppStep \/ UNCHANGED serverVars
<1>1. ASSUME EventLoop PROVE AppStep
  BY <1>1, LoopIsAllowed DEF AppStep
<1>2. ASSUME NEW s \in Session, DecisionTask(s) PROVE AppStep \/ UNCHANGED serverVars
  BY <1>2, DecisionIsAllowed DEF AppStep
<1>3. ASSUME NEW s \in Session, WatchdogExpires(s) PROVE AppStep
  BY <1>3 DEF WatchdogExpires, AppCancels, AppStep
<1> QED BY <1>1, <1>2, <1>3 DEF AppNext, DecidePending, WatchdogCleans, ResultTask, DeliverFile,
                                ReportFile, ReportFailure, TaskStep

LEMMA NextIsAllowed ==
  ASSUME ServerTypeOK, AppTypes, EventInv, [Next]_vars
  PROVE  [ServerNext]_serverVars
<1>1. CASE ServerStep
  BY <1>1 DEF ServerNext
<1>2. CASE AppNext
  BY <1>2, AppIsAllowed DEF ServerNext
<1>3. CASE UNCHANGED vars
  BY <1>3 DEF vars
<1> QED BY <1>1, <1>2, <1>3 DEF Next, AppNext

(***************************************************************************)
(* Types, channel and prompt, step by step of the application              *)
(***************************************************************************)
PromptInv == PromptIsBacked /\ NoOrphanedDecision

LEMMA TaskType ==
  ASSUME AppTypes, NEW s \in Session, NEW f \in File, NEW n, NEW new \in TaskState,
         task' = [task EXCEPT ![s][f][n] = new]
  PROVE  task' \in [Session -> [File -> [1..MaxAttempts -> TaskState]]]
<1>1. task[s] \in [File -> [1..MaxAttempts -> TaskState]]
  BY DEF AppTypes
<1>2. task[s][f] \in [1..MaxAttempts -> TaskState]
  BY <1>1
<1>3. [task[s][f] EXCEPT ![n] = new] \in [1..MaxAttempts -> TaskState]
  BY <1>2
<1>4. [task[s] EXCEPT ![f] = [task[s][f] EXCEPT ![n] = new]]
        \in [File -> [1..MaxAttempts -> TaskState]]
  BY <1>1, <1>3
<1> QED BY <1>4 DEF AppTypes

LEMMA AppTypesStep ==
  ASSUME ServerTypeOK, AppTypes, [Next]_vars
  PROVE  AppTypes'
<1> DEFINE h == Head(events)
<1>0. h.session \in Session \/ ~EventLoop
  BY HeadTail DEF EventLoop, DeclineOffer, HandlePrepareUpload, HandleFileUpload,
                  HandleSessionEnd, HandleAborted, Takes
<1>1. CASE ServerStep /\ UNCHANGED appVars
  BY <1>1 DEF AppTypes, appVars
<1>2. CASE DeclineOffer
  BY <1>2 DEF DeclineOffer, AppTypes, appVars
<1>3. CASE HandlePrepareUpload
  <2>1. h.session \in Session
    BY <1>0, <1>3 DEF EventLoop
  <2>2. /\ pending' \in Session \union {NoSession}
        /\ response' \in [Session -> Response]
    BY <1>3, <2>1, ShowEffect DEF HandlePrepareUpload, AppTypes
  <2> QED BY <1>3, <2>1, <2>2 DEF HandlePrepareUpload, AppTypes, Watchdog
<1>4. CASE HandleFileUpload
  <2>1. task' \in [Session -> [File -> [1..MaxAttempts -> TaskState]]]
    <3>1. h.session \in Session /\ h.file \in File /\ "Waiting" \in TaskState
      BY <1>4, HeadTail DEF HandleFileUpload, Takes, TaskState
    <3>2. CASE task' = [task EXCEPT ![h.session][h.file][attempts[h.session][h.file]] = "Waiting"]
      BY <3>1, <3>2, TaskType
    <3>3. CASE UNCHANGED task
      BY <3>3 DEF AppTypes
    <3> QED BY <1>4, <3>2, <3>3 DEF HandleFileUpload
  <2> QED BY <1>4, <2>1 DEF HandleFileUpload, AppTypes
<1>5. CASE HandleSessionEnd \/ HandleAborted
  <2>1. h.session \in Session /\ Forget(h.session)
    BY <1>0, <1>5 DEF EventLoop, HandleSessionEnd, HandleAborted
  <2>2. /\ sessions' \in SUBSET Session
        /\ pending' \in Session \union {NoSession}
        /\ response' \in [Session -> Response]
        /\ watchdog' \in [Session -> Watchdog]
    BY <2>1, ForgetEffect, WithdrawEffect DEF AppTypes
  <2> QED BY <1>5, <2>2 DEF HandleSessionEnd, HandleAborted, AppTypes
<1>6. ASSUME NEW choice \in {"Accept", "Reject"}, DecidePending(choice) PROVE AppTypes'
  BY <1>6 DEF DecidePending, AppTypes, Response
<1>7. ASSUME NEW s \in Session, DecisionTask(s) \/ WatchdogExpires(s) PROVE AppTypes'
  BY <1>7 DEF DecisionTask, WatchdogExpires, AppTypes, Response, Watchdog
<1>8. ASSUME NEW s \in Session, WatchdogCleans(s) PROVE AppTypes'
  <2>1. /\ pending' \in Session \union {NoSession}
        /\ response' \in [Session -> Response]
    BY <1>8, WithdrawEffect DEF WatchdogCleans, AppTypes
  <2> QED BY <1>8, <2>1 DEF WatchdogCleans, AppTypes, Watchdog
<1>9. ASSUME NEW s \in Session, NEW f \in File, NEW n \in 1..MaxAttempts, ResultTask(s, f, n)
      PROVE  AppTypes'
  <2>1. task' \in [Session -> [File -> [1..MaxAttempts -> TaskState]]]
    <3>1. PICK new \in TaskState : task' = [task EXCEPT ![s][f][n] = new]
      BY <1>9 DEF ResultTask, DeliverFile, ReportFile, ReportFailure, TaskStep, TaskState
    <3> QED BY <3>1, TaskType
  <2>2. delivered' \in SUBSET (Session \X File)
    BY <1>9 DEF ResultTask, DeliverFile, ReportFile, ReportFailure, AppTypes
  <2> QED BY <1>9, <2>1, <2>2 DEF ResultTask, DeliverFile, ReportFile, ReportFailure, TaskStep,
                                  AppTypes
<1>10. CASE UNCHANGED vars
  BY <1>10 DEF vars, appVars, AppTypes
<1> QED BY <1>1, <1>2, <1>3, <1>4, <1>5, <1>6, <1>7, <1>8, <1>9, <1>10 DEF Next, EventLoop

\* An event that the loop takes is of a session, and the server's part of it is known.
LEMMA TakenEvent ==
  ASSUME ServerTypeOK, EventLoop
  PROVE  /\ events # <<>> /\ events' = Tail(events)
         /\ Head(events) = events[1] /\ 1 \in 1..Len(events)
         /\ events[1].session \in Session
         /\ events[1].type = "FileUpload" => events[1].file \in File
         /\ UNCHANGED <<slot, cancelled, status, attempts, outcome, ending>>
<1>1. AppTakes
  BY LoopIsAllowed
<1> QED BY <1>1, TailEvents, HeadTail DEF AppTakes

LEMMA EventsLoop ==
  ASSUME ServerTypeOK, AppTypes, EventInv, EventLoop
  PROVE  EventInv'
<1> DEFINE h == events[1].session
<1>1. /\ h \in Session /\ Head(events) = events[1] /\ 1 \in 1..Len(events)
      /\ events # <<>> /\ events' = Tail(events) /\ UNCHANGED ending
  BY TakenEvent
<1>2. ASSUME NEW s \in Session
      PROVE  prep'[s] = prep[s] \/ (prep[s] = "Deciding" /\ prep'[s] \in {"Accepted", "Declined"})
  BY <1>1, <1>2 DEF EventLoop, DeclineOffer, HandlePrepareUpload, HandleFileUpload,
     HandleSessionEnd, HandleAborted, Answered, ServerTypeOK
<1>3. ASSUME NEW s \in Session
      PROVE  /\ watchdog'[s] = "None" => watchdog[s] = "None" /\ response'[s] = "None"
             /\ watchdog[s] = "None" => watchdog'[s] = "None" \/ IsPrepare(events[1], s)
  <2>0. watchdog[s] = "None" => response[s] = "None"
    BY DEF EventInv, EventsOf
  <2>1. CASE DeclineOffer \/ HandleFileUpload
    BY <2>0, <2>1 DEF DeclineOffer, HandleFileUpload, appVars
  <2>2. CASE HandlePrepareUpload
    <3>1. /\ watchdog' = [watchdog EXCEPT ![h] = "Armed"]
          /\ events[1].type = "PrepareUpload"
          /\ (ShowPrompt(h) \/ UNCHANGED <<pending, response>>)
      BY <1>1, <2>2 DEF HandlePrepareUpload, Takes
    <3>2. CASE s = h
      BY <3>1, <3>2 DEF IsPrepare, AppTypes
    <3>3. CASE s # h
      <4>1. watchdog'[s] = watchdog[s]
        BY <3>1, <3>3 DEF AppTypes
      <4>2. response[s] = "None" => response'[s] = "None"
        BY <1>1, <3>1, <3>3, ShowEffect
      <4> QED BY <2>0, <4>1, <4>2
    <3> QED BY <3>2, <3>3
  <2>3. CASE HandleSessionEnd \/ HandleAborted
    <3>1. Forget(h)
      BY <1>1, <2>3 DEF HandleSessionEnd, HandleAborted
    <3>2. watchdog'[s] = "None" <=> watchdog[s] = "None"
      BY <1>1, <3>1, ForgetEffect
    <3>3. response[s] = "None" => response'[s] = "None"
      BY <1>1, <3>1, ForgetEffect, WithdrawEffect
    <3> QED BY <2>0, <3>2, <3>3
  <2> QED BY <2>1, <2>2, <2>3 DEF EventLoop
<1> QED BY <1>1, <1>2, <1>3, FewerEvents

LEMMA EventsApp ==
  ASSUME ServerTypeOK, AppTypes, EventInv, PromptIsBacked, AppNext
  PROVE  EventInv'
<1>1. ASSUME NEW choice \in {"Accept", "Reject"}, DecidePending(choice) PROVE EventInv'
  <2>1. pending \in Session /\ watchdog[pending] # "None"
    BY <1>1 DEF DecidePending, AppTypes, PromptIsBacked
  <2>2. EventCalm /\ UNCHANGED events
    BY <1>1, <2>1 DEF DecidePending, serverVars, EventCalm, AppTypes
  <2> QED BY <2>2, CalmEvents
<1>2. ASSUME NEW s \in Session, DecisionTask(s) PROVE EventInv'
  <2>1. watchdog[s] # "None"
    BY <1>2 DEF DecisionTask, EventInv, EventsOf
  <2>2. \A t \in Session : prep'[t] = prep[t] \/
          (prep[t] = "Deciding" /\ prep'[t] \in {"Accepted", "Declined"})
    BY <1>2 DEF DecisionTask, Answered, ServerTypeOK
  <2>3. EventCalm /\ UNCHANGED events
    BY <1>2, <2>1, <2>2 DEF DecisionTask, EventCalm, AppTypes, Selecting
  <2> QED BY <2>3, CalmEvents
<1>3. ASSUME NEW s \in Session, WatchdogExpires(s) PROVE EventInv'
  <2>1. EventCalm /\ UNCHANGED events
    BY <1>3 DEF WatchdogExpires, EventCalm, AppTypes
  <2> QED BY <2>1, CalmEvents
<1>4. ASSUME NEW s \in Session, WatchdogCleans(s) PROVE EventInv'
  <2>1. \A t \in Session : response[t] = "None" => response'[t] = "None"
    BY <1>4, WithdrawEffect DEF WatchdogCleans
  <2>2. EventCalm /\ UNCHANGED events
    BY <1>4, <2>1 DEF WatchdogCleans, serverVars, EventCalm, AppTypes
  <2> QED BY <2>2, CalmEvents
<1>5. ASSUME NEW s \in Session, NEW f \in File, NEW n \in 1..MaxAttempts, ResultTask(s, f, n)
      PROVE  EventInv'
  <2>1. EventCalm /\ UNCHANGED events
    BY <1>5 DEF ResultTask, DeliverFile, ReportFile, ReportFailure, TaskStep, serverVars, EventCalm
  <2> QED BY <2>1, CalmEvents
<1> QED BY <1>1, <1>2, <1>3, <1>4, <1>5, EventsLoop DEF AppNext

LEMMA PromptForgets ==
  ASSUME AppTypes, PromptInv, NEW s \in Session,
         sessions' = sessions \ {s}, WithdrawPrompt(s),
         \A t \in Session \ {s} : watchdog'[t] = watchdog[t]
  PROVE  PromptInv'
<1>1. /\ pending' = IF pending = s THEN NoSession ELSE pending
      /\ \A t \in Session :
           response'[t] = IF t = s /\ pending = s /\ response[t] = "Open" THEN "Closed"
                          ELSE response[t]
  BY WithdrawEffect
<1> QED BY <1>1, ServerAssumption DEF PromptInv, PromptIsBacked, NoOrphanedDecision

LEMMA PromptStep ==
  ASSUME ServerTypeOK, AppTypes, PromptInv, [Next]_vars
  PROVE  PromptInv'
<1> DEFINE h == events[1].session
<1>1. ASSUME sessions' = sessions, pending' = pending, response' = response, watchdog' = watchdog
      PROVE  PromptInv'
  BY <1>1 DEF PromptInv, PromptIsBacked, NoOrphanedDecision
<1>2. CASE HandlePrepareUpload
  <2>1. /\ h \in Session
        /\ sessions' = sessions \union {h}
        /\ watchdog' = [watchdog EXCEPT ![h] = "Armed"]
        /\ ShowPrompt(h) \/ UNCHANGED <<pending, response>>
    BY <1>2, TakenEvent DEF HandlePrepareUpload, EventLoop
  <2>2. CASE ShowPrompt(h)
    <3>1. /\ pending' = h /\ response'[h] = "Open"
          /\ \A t \in Session \ {h} :
               response'[t] = IF t = pending /\ response[t] = "Open" THEN "Closed" ELSE response[t]
      BY <2>1, <2>2, ShowEffect
    <3>2. h \in sessions' /\ watchdog'[h] = "Armed"
      BY <2>1 DEF AppTypes
    <3> QED BY <3>1, <3>2 DEF PromptInv, PromptIsBacked, NoOrphanedDecision
  <2>3. CASE UNCHANGED <<pending, response>>
    BY <2>1, <2>3 DEF PromptInv, PromptIsBacked, NoOrphanedDecision, AppTypes
  <2> QED BY <2>1, <2>2, <2>3
<1>3. CASE HandleSessionEnd \/ HandleAborted
  <2>1. h \in Session /\ Forget(h)
    BY <1>3, TakenEvent DEF HandleSessionEnd, HandleAborted, EventLoop
  <2> QED BY <2>1, ForgetEffect, PromptForgets
<1>4. ASSUME NEW choice \in {"Accept", "Reject"}, DecidePending(choice) PROVE PromptInv'
  BY <1>4, ServerAssumption DEF DecidePending, PromptInv, PromptIsBacked, NoOrphanedDecision,
                                AppTypes
<1>5. ASSUME NEW s \in Session, DecisionTask(s) PROVE PromptInv'
  BY <1>5 DEF DecisionTask, PromptInv, PromptIsBacked, NoOrphanedDecision, AppTypes
<1>6. ASSUME NEW s \in Session, WatchdogExpires(s) PROVE PromptInv'
  BY <1>6 DEF WatchdogExpires, PromptInv, PromptIsBacked, NoOrphanedDecision, AppTypes
<1>7. ASSUME NEW s \in Session, WatchdogCleans(s) PROVE PromptInv'
  <2>1. \A t \in Session \ {s} : watchdog'[t] = watchdog[t]
    BY <1>7 DEF WatchdogCleans, AppTypes
  <2> QED BY <1>7, <2>1, PromptForgets DEF WatchdogCleans
<1>8. CASE \/ ServerStep /\ UNCHANGED appVars
           \/ DeclineOffer \/ HandleFileUpload
           \/ \E s \in Session, f \in File, n \in 1..MaxAttempts : ResultTask(s, f, n)
           \/ UNCHANGED vars
  <2>1. CASE (ServerStep /\ UNCHANGED appVars) \/ DeclineOffer \/ UNCHANGED vars
    BY <1>1, <2>1 DEF appVars, vars, DeclineOffer
  <2>2. CASE HandleFileUpload
    BY <1>1, <2>2, Zenon DEF HandleFileUpload
  <2>3. CASE \E s \in Session, f \in File, n \in 1..MaxAttempts : ResultTask(s, f, n)
    BY <1>1, <2>3 DEF ResultTask, DeliverFile, ReportFile, ReportFailure, TaskStep
  <2> QED BY <1>8, <2>1, <2>2, <2>3
<1> QED BY <1>2, <1>3, <1>4, <1>5, <1>6, <1>7, <1>8 DEF Next, EventLoop

(***************************************************************************)
(* Who watches an acceptance.  An idle timeout that strikes while an       *)
(* acceptance is on its way is the one exception (RacingExpiry).           *)
(***************************************************************************)
WatchedSession(s) ==
  \/ response[s] = "Accept" /\ prep[s] = "Deciding"
  \/ prep[s] = "Accepted"
  \/ slot = Active(s)
WatchInv == \A s \in Session : WatchedSession(s) => watchdog[s] = "Armed"

\* The server's own steps lead to an acceptance only from an acceptance.
LEMMA WatchServer ==
  ASSUME ServerTypeOK, EventInv, ServerStep, UNCHANGED appVars, NEW s \in Session, WatchedSession(s)'
  PROVE  WatchedSession(s)
<1> USE DEF ServerTypeOK
<1>0. response'[s] = response[s] /\ watchdog'[s] = watchdog[s]
  BY DEF appVars
<1>1. ASSUME NEW t \in Session, PrepareStep(t) PROVE WatchedSession(s)
  <2>1. prep'[s] = "Accepted" => prep[s] = "Accepted"
    BY <1>1 DEF PrepareStep, ClaimSlot, OfferSession, CreateSession, RefuseSession, LoseClaim,
                DropPrepare, MissDecision, ObserveCancel, AbandonClaim, ReleaseClaim, AnnounceAbort
  <2>2. slot' = Active(s) => slot = Active(s) \/ prep[s] = "Accepted"
    BY <1>1 DEF PrepareStep, ClaimSlot, OfferSession, CreateSession, RefuseSession, LoseClaim,
                DropPrepare, MissDecision, ObserveCancel, AbandonClaim, ReleaseClaim,
                AnnounceAbort, ClearPending, Active, Pending, Free
  <2>3. prep'[s] = "Deciding" => prep[s] \in {"Deciding", "Offering"}
    BY <1>1 DEF PrepareStep, ClaimSlot, OfferSession, CreateSession, RefuseSession, LoseClaim,
                DropPrepare, MissDecision, ObserveCancel, AbandonClaim, ReleaseClaim, AnnounceAbort
  <2>4. prep[s] = "Offering" => response[s] = "None"
    BY DEF EventInv, EventsOf
  <2> QED BY <1>0, <2>1, <2>2, <2>3, <2>4 DEF WatchedSession
<1>2. ASSUME NEW t \in Session, NEW f \in File, UploadStep(t, f) PROVE WatchedSession(s)
  BY <1>0, <1>2 DEF WatchedSession, UploadStep, StartUpload, OfferFile, SaveFile, FinishUpload,
     DropUpload, FinalizeDropped, LoseUpload, FinalizeFile, Active, Free
<1>3. ASSUME NEW t \in Session, EndStep(t) PROVE WatchedSession(s)
  BY <1>0, <1>3 DEF WatchedSession, EndStep, AnnounceEnd, LoseEnd, CancelActive, Active, Free
<1>4. ASSUME NEW ip \in Peer, NEW id \in Session \union {NoSession}, CancelPending(ip, id)
      PROVE  WatchedSession(s)
  BY <1>0, <1>4 DEF WatchedSession, CancelPending
<1> QED BY <1>1, <1>2, <1>3, <1>4 DEF ServerStep

LEMMA WatchStep ==
  ASSUME ~RacingExpiry, ServerInv, AppTypes, EventInv, PromptInv, WatchInv, [Next]_vars
  PROVE  WatchInv'
<1> USE DEF ServerInv
<1> DEFINE h == events[1].session
<1> SUFFICES ASSUME NEW s \in Session, WatchedSession(s)'
             PROVE  watchdog'[s] = "Armed"
  BY DEF WatchInv
<1>0. ASSUME WatchedSession(s), watchdog'[s] = watchdog[s] PROVE watchdog'[s] = "Armed"
  BY <1>0 DEF WatchInv
<1>1. CASE ServerStep /\ UNCHANGED appVars
  BY <1>0, <1>1, WatchServer DEF appVars
<1>2. CASE DeclineOffer
  BY <1>0, <1>2, TakenEvent DEF DeclineOffer, EventLoop, appVars, Answered, WatchedSession,
                                ServerTypeOK
<1>3. CASE HandlePrepareUpload
  <2>1. /\ h \in Session /\ slot' = slot
        /\ watchdog' = [watchdog EXCEPT ![h] = "Armed"]
        /\ ShowPrompt(h) \/ UNCHANGED <<pending, response>>
        /\ Answered(h, "Accepted", Offer[h]) \/ UNCHANGED <<prep, answer>>
    BY <1>3, TakenEvent DEF HandlePrepareUpload, EventLoop
  <2>2. CASE s = h
    BY <2>1, <2>2 DEF AppTypes
  <2>3. CASE s # h
    <3>1. response'[s] = "Accept" => response[s] = "Accept"
      BY <2>1, <2>3, ShowEffect
    <3>2. prep'[s] = prep[s] /\ watchdog'[s] = watchdog[s]
      BY <2>1, <2>3 DEF Answered, ServerTypeOK, AppTypes
    <3> QED BY <1>0, <2>1, <3>1, <3>2 DEF WatchedSession
  <2> QED BY <2>2, <2>3
<1>4. CASE HandleFileUpload
  BY <1>0, <1>4 DEF HandleFileUpload, WatchedSession
<1>5. CASE HandleSessionEnd \/ HandleAborted
  <2>1. /\ h \in Session /\ Forget(h) /\ UNCHANGED <<slot, prep>>
        /\ IsEnd(events[1], h) \/ IsAbort(events[1], h)
    BY <1>5, TakenEvent DEF HandleSessionEnd, HandleAborted, EventLoop, Takes, IsEnd, IsAbort
  <2>2. response'[s] = "Accept" => response[s] = "Accept"
    BY <2>1, ForgetEffect, WithdrawEffect
  <2>3. WatchedSession(s)
    BY <2>1, <2>2 DEF WatchedSession
  <2>4. CASE s = h
    <3>1. ending[s] # "None" \/ prep[s] = "Closed"
      BY <1>5, <2>1, <2>4, TakenEvent DEF EventInv, EventsOf, EventLoop
    <3>2. FALSE
      BY <2>3, <3>1 DEF WatchedSession, FileInv, SessionStages
    <3> QED BY <3>2
  <2>5. CASE s # h
    BY <1>0, <2>1, <2>3, <2>5, ForgetEffect
  <2> QED BY <2>4, <2>5
<1>6. ASSUME NEW choice \in {"Accept", "Reject"}, DecidePending(choice)
      PROVE  watchdog'[s] = "Armed"
  <2>1. CASE s = pending /\ choice = "Accept"
    BY <1>6, <2>1 DEF DecidePending, PromptInv, PromptIsBacked
  <2>2. CASE ~(s = pending /\ choice = "Accept")
    BY <1>0, <1>6, <2>2 DEF DecidePending, serverVars, WatchedSession, AppTypes
  <2> QED BY <2>1, <2>2
<1>7. ASSUME NEW t \in Session, DecisionTask(t) PROVE watchdog'[s] = "Armed"
  BY <1>0, <1>7 DEF DecisionTask, Answered, WatchedSession, AppTypes, ServerTypeOK
<1>8. ASSUME NEW t \in Session, WatchdogExpires(t) PROVE watchdog'[s] = "Armed"
  <2>1. WatchedSession(s)
    BY <1>8 DEF WatchdogExpires, CancelV2Session, WatchedSession, Active, Free
  <2>2. s # t
    BY <1>8 DEF WatchdogExpires, CancelV2Session, InFlight, WatchedSession, Active, Free
  <2> QED BY <1>0, <1>8, <2>1, <2>2 DEF WatchdogExpires, AppTypes
<1>9. ASSUME NEW t \in Session, WatchdogCleans(t) PROVE watchdog'[s] = "Armed"
  <2>1. response'[s] = "Accept" => response[s] = "Accept"
    BY <1>9, WithdrawEffect DEF WatchdogCleans
  <2>2. WatchedSession(s)
    BY <1>9, <2>1 DEF WatchdogCleans, serverVars, WatchedSession
  <2>3. s # t
    BY <1>9, <2>2 DEF WatchInv, WatchdogCleans
  <2> QED BY <1>0, <1>9, <2>2, <2>3 DEF WatchdogCleans, AppTypes
<1>10. CASE \/ \E t \in Session, f \in File, n \in 1..MaxAttempts : ResultTask(t, f, n)
            \/ UNCHANGED vars
  BY <1>0, <1>10 DEF vars, appVars, serverVars, ResultTask, DeliverFile, ReportFile, ReportFailure,
                     TaskStep, WatchedSession
<1> QED BY <1>1, <1>2, <1>3, <1>4, <1>5, <1>6, <1>7, <1>8, <1>9, <1>10 DEF Next, EventLoop

(***************************************************************************)
(* A prompt whose request still waits                                      *)
(***************************************************************************)
PromptKept ==
  \A s \in Session :
    pending = s /\ pending' # s /\ prep[s] = "Deciding" =>
      response'[s] \in {"Accept", "Reject"} \/ watchdog[s] = "Cancelling"

LEMMA PromptKeptStep ==
  ASSUME ServerInv, AppTypes, EventInv, PromptInv, [Next]_vars
  PROVE  PromptKept
<1> USE DEF ServerInv
<1> DEFINE h == events[1].session
<1> SUFFICES ASSUME NEW s \in Session, pending = s, pending' # s, prep[s] = "Deciding",
                    watchdog[s] # "Cancelling"
             PROVE  response'[s] \in {"Accept", "Reject"}
  BY DEF PromptKept
<1>1. watchdog[s] # "None"
  BY DEF PromptInv, PromptIsBacked
<1>2. ~HandlePrepareUpload
  <2> SUFFICES ASSUME HandlePrepareUpload PROVE FALSE
    OBVIOUS
  <2>1. h \in Session /\ 1 \in 1..Len(events) /\ IsPrepare(events[1], h) /\ ShowPrompt(h)
    BY TakenEvent DEF HandlePrepareUpload, EventLoop, Takes, IsPrepare
  <2>2. s # h
    BY <2>1, ShowEffect
  <2>3. PICK j \in 1..Len(events) : IsPrepare(events[j], s)
    BY <2>1, <2>2 DEF EventInv, EventsOf, Selecting
  <2> QED BY <1>1, <2>3 DEF EventInv, EventsOf
<1>3. ~(HandleSessionEnd \/ HandleAborted)
  <2> SUFFICES ASSUME HandleSessionEnd \/ HandleAborted PROVE FALSE
    OBVIOUS
  <2>1. /\ h \in Session /\ 1 \in 1..Len(events) /\ Forget(h)
        /\ IsEnd(events[1], h) \/ IsAbort(events[1], h)
    BY TakenEvent DEF HandleSessionEnd, HandleAborted, EventLoop, Takes, IsEnd, IsAbort
  <2>2. s = h
    BY <2>1, ForgetEffect, WithdrawEffect
  <2>3. ending[s] # "None" \/ prep[s] = "Closed"
    BY <2>1, <2>2 DEF EventInv, EventsOf
  <2> QED BY <2>3 DEF FileInv, SessionStages
<1>4. ASSUME NEW choice \in {"Accept", "Reject"}, DecidePending(choice)
      PROVE  response'[s] \in {"Accept", "Reject"}
  BY <1>4 DEF DecidePending, AppTypes
<1>5. ASSUME NEW t \in Session, WatchdogCleans(t) PROVE FALSE
  BY <1>5, WithdrawEffect DEF WatchdogCleans
<1>6. ~((ServerStep /\ UNCHANGED appVars) \/ UNCHANGED vars)
  BY DEF appVars, vars
<1>7. ~(DeclineOffer \/ HandleFileUpload)
  <2>1. ~DeclineOffer
    BY DEF DeclineOffer, appVars
  <2>2. ~HandleFileUpload
    BY Zenon DEF HandleFileUpload
  <2> QED BY <2>1, <2>2
<1>8. ~\E t \in Session : DecisionTask(t) \/ WatchdogExpires(t)
  BY DEF DecisionTask, WatchdogExpires
<1>9. ~\E t \in Session, f \in File, n \in 1..MaxAttempts : ResultTask(t, f, n)
  BY DEF ResultTask, DeliverFile, ReportFile, ReportFailure, TaskStep
<1> HIDE DEF ServerInv
<1> QED BY <1>2, <1>3, <1>4, <1>5, <1>6, <1>7, <1>8, <1>9 DEF Next, EventLoop

(***************************************************************************)
(* Uploads and their result tasks                                          *)
(***************************************************************************)
IsFile(e, s, f) == e.type = "FileUpload" /\ e.session = s /\ e.file = f
InChannel(s, f) == \E i \in 1..Len(events) : IsFile(events[i], s, f)
OnceInChannel(s, f) ==
  \A i, j \in 1..Len(events) : IsFile(events[i], s, f) /\ IsFile(events[j], s, f) => i = j

\* The last attempt at a file is the only one that may have succeeded, the file is
\* announced once for each attempt, and a delivered file is one whose success was reported.
UploadFacts(s, f) ==
  LET last == attempts[s][f] IN
  /\ upload[s][f] # "Idle" => last # 0
  /\ upload[s][f] \in {"Offering", "Waiting", "Saving", "Refused"} => outcome[s][f][last] = "None"
  /\ upload[s][f] = "Success" => outcome[s][f][last] = "Ok"
  /\ \A n \in 1..MaxAttempts : n > last => outcome[s][f][n] = "None"
  /\ \A n \in 1..MaxAttempts : outcome[s][f][n] = "Ok" =>
       /\ n = last
       /\ upload[s][f] \in {"Success", "Leaked", "Idle"}
       /\ slot = Active(s) => status[s][f] # "Pending"
  /\ status[s][f] = "Finished" => last # 0 /\ outcome[s][f][last] = "Ok"
ChannelFacts(s, f) ==
  LET last == attempts[s][f] IN
  /\ OnceInChannel(s, f)
  /\ InChannel(s, f) =>
       /\ last # 0
       /\ outcome[s][f][last] # "Ok"
       /\ upload[s][f] \in {"Waiting", "Dropped", "Idle"}
       /\ upload[s][f] = "Idle" /\ slot = Active(s) => status[s][f] # "Pending"
TaskFacts(s, f) ==
  LET last == attempts[s][f] IN
  /\ upload[s][f] = "Saving" => task[s][f][last] = "Waiting"
  /\ <<s, f>> \in delivered =>
       last # 0 /\ outcome[s][f][last] = "Ok" /\ task[s][f][last] \in {"Delivered", "Done"}
  /\ ~DiskMayFail => \A n \in 1..MaxAttempts : outcome[s][f][n] = "Ok" =>
       <<s, f>> \in delivered \/ task[s][f][n] = "Waiting"
FileFacts == \A s \in Session, f \in File : UploadFacts(s, f) /\ ChannelFacts(s, f) /\ TaskFacts(s, f)

LEMMA ChannelCalm ==
  ASSUME ServerTypeOK, NEW s \in Session, NEW f \in File, OnceInChannel(s, f),
         \/ UNCHANGED events
         \/ events # <<>> /\ events' = Tail(events)
         \/ \E e \in Event : Emit(e) /\ ~IsFile(e, s, f)
  PROVE  OnceInChannel(s, f)' /\ (InChannel(s, f)' => InChannel(s, f))
<1>1. CASE UNCHANGED events
  BY <1>1 DEF OnceInChannel, InChannel
<1>2. CASE events # <<>> /\ events' = Tail(events)
  <2>1. \A i \in 1..Len(events') : i + 1 \in 1..Len(events) /\ events'[i] = events[i + 1]
    BY <1>2, TailEvents
  <2>2. ASSUME NEW i \in 1..Len(events'), NEW j \in 1..Len(events'),
               IsFile(events'[i], s, f), IsFile(events'[j], s, f)
        PROVE  i = j
    <3>1. i + 1 = j + 1
      BY <2>1, <2>2 DEF OnceInChannel
    <3> QED BY <3>1
  <2> QED BY <2>1, <2>2 DEF OnceInChannel, InChannel
<1>3. ASSUME NEW e \in Event, Emit(e), ~IsFile(e, s, f)
      PROVE  OnceInChannel(s, f)' /\ (InChannel(s, f)' => InChannel(s, f))
  <2>1. \A i \in 1..Len(events') : IsFile(events'[i], s, f) =>
          i \in 1..Len(events) /\ IsFile(events[i], s, f)
    BY <1>3, AppendEvents
  <2> QED BY <2>1 DEF OnceInChannel, InChannel
<1> QED BY <1>1, <1>2, <1>3

LEMMA ChannelTakes ==
  ASSUME ServerTypeOK, NEW s \in Session, NEW f \in File, OnceInChannel(s, f),
         events # <<>>, events' = Tail(events), IsFile(events[1], s, f)
  PROVE  InChannel(s, f) /\ ~InChannel(s, f)'
<1>1. /\ 1 \in 1..Len(events) /\ Len(events') \in Nat
      /\ \A i \in 1..Len(events') : i + 1 \in 1..Len(events) /\ events'[i] = events[i + 1]
  BY TailEvents
<1>2. ASSUME NEW i \in 1..Len(events'), IsFile(events'[i], s, f) PROVE FALSE
  <2>1. i + 1 = 1
    BY <1>1, <1>2 DEF OnceInChannel
  <2> QED BY <1>1, <2>1
<1> QED BY <1>1, <1>2 DEF InChannel

LEMMA ChannelAdds ==
  ASSUME ServerTypeOK, NEW s \in Session, NEW f \in File, Emit(FileUpload(s, f)), ~InChannel(s, f)
  PROVE  OnceInChannel(s, f)'
<1>1. \A i \in 1..Len(events') : IsFile(events'[i], s, f) => i = Len(events')
  BY AppendEvents, SessionEventTypes DEF InChannel
<1> QED BY <1>1 DEF OnceInChannel

FactsOf(s, f) == UploadFacts(s, f) /\ ChannelFacts(s, f) /\ TaskFacts(s, f)

\* Nothing happens to a file, and its session may lose the slot.
FileCalm(s, f) ==
  /\ upload'[s][f] = upload[s][f]
  /\ attempts'[s][f] = attempts[s][f]
  /\ outcome'[s][f] = outcome[s][f]
  /\ status'[s][f] = status[s][f]
  /\ task'[s][f] = task[s][f]
  /\ <<s, f>> \in delivered' <=> <<s, f>> \in delivered
  /\ slot' = Active(s) => slot = Active(s)
  /\ \/ UNCHANGED events
     \/ events # <<>> /\ events' = Tail(events)
     \/ \E e \in Event : Emit(e) /\ ~IsFile(e, s, f)

LEMMA FactsCalm ==
  ASSUME ServerTypeOK, NEW s \in Session, NEW f \in File, FactsOf(s, f), FileCalm(s, f)
  PROVE  FactsOf(s, f)'
<1>1. OnceInChannel(s, f)' /\ (InChannel(s, f)' => InChannel(s, f))
  BY ChannelCalm DEF FactsOf, ChannelFacts, FileCalm
<1>2. UploadFacts(s, f)'
  BY DEF UploadFacts, FactsOf, FileCalm, Active
<1>3. ChannelFacts(s, f)'
  BY <1>1 DEF ChannelFacts, FactsOf, FileCalm, Active
<1>4. TaskFacts(s, f)'
  BY DEF TaskFacts, FactsOf, FileCalm
<1> QED BY <1>2, <1>3, <1>4 DEF FactsOf

LEMMA FactsPrepare ==
  ASSUME ServerInv, FileFacts, NEW t \in Session, PrepareStep(t), UNCHANGED appVars
  PROVE  FileFacts'
<1> USE DEF ServerInv
<1> SUFFICES ASSUME NEW s \in Session, NEW f \in File
             PROVE  FactsOf(s, f)'
  BY DEF FileFacts, FactsOf
<1>1. FactsOf(s, f)
  BY DEF FileFacts, FactsOf
<1>2. UNCHANGED <<attempts, upload, outcome, task, delivered>>
  BY DEF appVars, PrepareStep, ClaimSlot, OfferSession, CreateSession, RefuseSession, LoseClaim,
         DropPrepare, MissDecision, ObserveCancel, AbandonClaim, ReleaseClaim, AnnounceAbort
<1>3. UNCHANGED events \/ \E e \in Event : Emit(e) /\ ~IsFile(e, s, f)
  BY SessionEventTypes DEF PrepareStep, ClaimSlot, OfferSession, CreateSession, RefuseSession,
     LoseClaim, DropPrepare, MissDecision, ObserveCancel, AbandonClaim, ReleaseClaim,
     AnnounceAbort, IsFile, PrepareUpload, PrepareUploadAborted
<1>4. CASE CreateSession(t) /\ s = t
  <2>1. attempts[s][f] = 0 /\ upload[s][f] = "Idle" /\ UNCHANGED events
    BY <1>4 DEF FileInv, SessionStages, CreateSession
  <2>2. status'[s][f] \in {"Pending", "Absent"}
    BY <1>4 DEF CreateSession, ServerTypeOK
  <2>3. OnceInChannel(s, f)' /\ ~InChannel(s, f)'
    BY <1>1, <2>1 DEF FactsOf, ChannelFacts, OnceInChannel, InChannel
  <2>4. \A n \in 1..MaxAttempts : outcome[s][f][n] # "Ok"
    BY <1>1, <2>1 DEF FactsOf, UploadFacts
  <2>5. UploadFacts(s, f)'
    BY <1>1, <1>2, <2>1, <2>2, <2>4 DEF FactsOf, UploadFacts
  <2>6. TaskFacts(s, f)'
    BY <1>1, <1>2, <2>1, <2>4 DEF FactsOf, TaskFacts
  <2> QED BY <2>3, <2>5, <2>6 DEF FactsOf, ChannelFacts
<1>5. CASE ~(CreateSession(t) /\ s = t)
  <2>1. status'[s][f] = status[s][f]
    BY <1>5 DEF PrepareStep, ClaimSlot, OfferSession, CreateSession, RefuseSession, LoseClaim,
         DropPrepare, MissDecision, ObserveCancel, AbandonClaim, ReleaseClaim, AnnounceAbort,
         ServerTypeOK
  <2>2. slot' = Active(s) => slot = Active(s)
    BY <1>5 DEF PrepareStep, ClaimSlot, OfferSession, CreateSession, RefuseSession, LoseClaim,
         DropPrepare, MissDecision, ObserveCancel, AbandonClaim, ReleaseClaim, AnnounceAbort,
         ClearPending, Active, Pending, Free
  <2>3. FileCalm(s, f)
    BY <1>2, <1>3, <2>1, <2>2 DEF FileCalm
  <2> QED BY <1>1, <2>3, FactsCalm
<1> QED BY <1>4, <1>5

LEMMA FactsOther ==
  ASSUME ServerTypeOK, NEW t \in Session, NEW g \in File, UploadStep(t, g), UNCHANGED appVars,
         NEW s \in Session, NEW f \in File, ~(s = t /\ f = g)
  PROVE  FileCalm(s, f)
<1> USE DEF ServerTypeOK
<1>1. /\ upload'[s][f] = upload[s][f]
      /\ attempts'[s][f] = attempts[s][f]
      /\ status'[s][f] = status[s][f]
  BY DEF UploadStep, StartUpload, OfferFile, SaveFile, FinishUpload, DropUpload, FinalizeDropped,
         LoseUpload, FinalizeFile
<1>2. outcome'[s][f] = outcome[s][f]
  BY DEF UploadStep, StartUpload, OfferFile, SaveFile, FinishUpload, DropUpload, FinalizeDropped,
         LoseUpload
<1>3. slot' = Active(s) => slot = Active(s)
  BY DEF UploadStep, StartUpload, OfferFile, SaveFile, FinishUpload, DropUpload, FinalizeDropped,
         LoseUpload, FinalizeFile, Active, Free
<1>4. UNCHANGED events \/ \E e \in Event : Emit(e) /\ ~IsFile(e, s, f)
  <2>1. ~IsFile(FileUpload(t, g), s, f) /\ FileUpload(t, g) \in Event
    BY SessionEventTypes DEF IsFile, FileUpload
  <2> QED BY <2>1 DEF UploadStep, StartUpload, OfferFile, SaveFile, FinishUpload, DropUpload,
                      FinalizeDropped, LoseUpload
<1> QED BY <1>1, <1>2, <1>3, <1>4 DEF FileCalm, appVars

SetsOutcome(s, f, n, v) == outcome' = [outcome EXCEPT ![s][f][n] = v]

LEMMA OutcomeSet ==
  ASSUME ServerTypeOK, NEW s \in Session, NEW f \in File, NEW n \in 1..MaxAttempts, NEW v,
         SetsOutcome(s, f, n, v)
  PROVE  /\ outcome'[s][f][n] = v
         /\ \A m \in 1..MaxAttempts : m # n => outcome'[s][f][m] = outcome[s][f][m]
<1>1. outcome[s] \in [File -> [1..MaxAttempts -> {"None", "Ok", "Err"}]]
  BY DEF ServerTypeOK
<1>2. outcome[s][f] \in [1..MaxAttempts -> {"None", "Ok", "Err"}]
  BY <1>1
<1>3. outcome'[s] = [outcome[s] EXCEPT ![f] = [outcome[s][f] EXCEPT ![n] = v]]
  BY DEF ServerTypeOK, SetsOutcome
<1>4. outcome'[s][f] = [outcome[s][f] EXCEPT ![n] = v]
  BY <1>1, <1>3
<1> QED BY <1>2, <1>4

LEMMA FactsOwn ==
  ASSUME ServerInv, NEW s \in Session, NEW f \in File, FactsOf(s, f), UploadStep(s, f),
         UNCHANGED appVars
  PROVE  FactsOf(s, f)'
<1> USE DEF ServerInv, ServerTypeOK
<1> DEFINE last == attempts[s][f]
<1>0. task' = task /\ delivered' = delivered
  BY DEF appVars
<1>b. ServerTypeOK
  BY DEF ServerInv
<1>a. ASSUME UNCHANGED events
      PROVE  OnceInChannel(s, f)' /\ (InChannel(s, f)' <=> InChannel(s, f))
  BY <1>a DEF FactsOf, ChannelFacts, OnceInChannel, InChannel
<1>1. ASSUME NEW ip \in Peer, StartUpload(ip, s, f) PROVE FactsOf(s, f)'
  <2>1. /\ slot = Active(s) /\ status[s][f] = "Pending" /\ upload[s][f] = "Idle"
        /\ last < MaxAttempts
    BY <1>1 DEF StartUpload, FileInv, UploadOwned, RetryBudget
  <2>2. /\ upload'[s][f] = "Offering" /\ attempts'[s][f] = last + 1
        /\ outcome' = outcome /\ status'[s][f] = "InProgress" /\ slot' = slot /\ events' = events
    BY <1>1 DEF StartUpload
  <2>3. /\ last + 1 \in 1..MaxAttempts /\ last + 1 > last /\ last + 1 # 0
        /\ \A n \in 1..MaxAttempts : n > last + 1 => n > last
    BY <2>1, ServerAssumption
  <2>4. /\ outcome[s][f][last + 1] = "None"
        /\ \A n \in 1..MaxAttempts : outcome[s][f][n] # "Ok"
        /\ \A n \in 1..MaxAttempts : n > last + 1 => outcome[s][f][n] = "None"
    BY <2>1, <2>3 DEF FactsOf, UploadFacts
  <2>5. ~InChannel(s, f) /\ <<s, f>> \notin delivered
    <3>1. last # 0 => last \in 1..MaxAttempts
      OBVIOUS
    <3> QED BY <2>1, <2>4, <3>1 DEF FactsOf, ChannelFacts, TaskFacts
  <2>6. UploadFacts(s, f)'
    BY <2>2, <2>3, <2>4 DEF UploadFacts
  <2>7. ChannelFacts(s, f)' /\ TaskFacts(s, f)'
    BY <1>0, <1>a, <2>2, <2>4, <2>5 DEF ChannelFacts, TaskFacts
  <2> QED BY <2>6, <2>7 DEF FactsOf
<1>2. CASE OfferFile(s, f)
  <2>1. /\ upload[s][f] = "Offering" /\ upload'[s][f] = "Waiting"
        /\ UNCHANGED <<slot, status, attempts, outcome>>
    BY <1>2 DEF OfferFile
  <2>2. OnceInChannel(s, f)'
    BY <1>2, <2>1, ChannelAdds DEF OfferFile, FactsOf, ChannelFacts
  <2>3. UploadFacts(s, f)'
    BY <2>1 DEF FactsOf, UploadFacts
  <2>4. ChannelFacts(s, f)'
    BY <2>1, <2>2 DEF FactsOf, UploadFacts, ChannelFacts
  <2>5. TaskFacts(s, f)'
    BY <1>0, <2>1 DEF FactsOf, TaskFacts
  <2> QED BY <2>3, <2>4, <2>5 DEF FactsOf
<1>3. ASSUME NEW r \in SaveResult, SaveFile(s, f, r) PROVE FactsOf(s, f)'
  <2>1. /\ upload[s][f] = "Saving" /\ upload'[s][f] = r
        /\ UNCHANGED <<slot, status, attempts, events>>
        /\ last \in 1..MaxAttempts
    BY <1>3 DEF SaveFile, FactsOf, UploadFacts
  <2>0. slot = Active(s) => status[s][f] # "Pending"
    BY <2>1 DEF FileInv, UploadOwned
  <2>2. /\ outcome'[s][f][last] = IF r = "Success" THEN "Ok" ELSE "Err"
        /\ \A n \in 1..MaxAttempts : n # last => outcome'[s][f][n] = outcome[s][f][n]
    <3> DEFINE v == IF r = "Success" THEN "Ok" ELSE "Err"
    <3> HIDE DEF ServerInv, ServerTypeOK, last, v
    <3>1. SetsOutcome(s, f, last, v)
      BY <1>3 DEF SaveFile, last, v, SetsOutcome
    <3>2. /\ outcome'[s][f][last] = v
          /\ \A n \in 1..MaxAttempts : n # last => outcome'[s][f][n] = outcome[s][f][n]
      BY <1>b, <2>1, <3>1, OutcomeSet
    <3> QED BY <3>2 DEF v
  <2>3. /\ \A n \in 1..MaxAttempts : outcome[s][f][n] # "Ok"
        /\ status[s][f] # "Finished" /\ <<s, f>> \notin delivered
    BY <2>1 DEF FactsOf, UploadFacts, TaskFacts
  <2>4. UploadFacts(s, f)'
    <3>1. \A n \in 1..MaxAttempts : n > last => outcome[s][f][n] = "None" /\ n # last
      BY <2>1 DEF FactsOf, UploadFacts
    <3>2. \A n \in 1..MaxAttempts : n > last => outcome'[s][f][n] = "None"
      BY <2>2, <3>1
    <3>3. \A n \in 1..MaxAttempts : outcome'[s][f][n] = "Ok" => n = last /\ r = "Success"
      BY <2>2, <2>3
    <3> HIDE DEF ServerTypeOK
    <3> QED BY <2>0, <2>1, <2>2, <2>3, <3>2, <3>3 DEF UploadFacts, SaveResult
  <2>5. ChannelFacts(s, f)'
    BY <1>a, <2>1 DEF FactsOf, ChannelFacts
  <2>6. TaskFacts(s, f)'
    BY <1>0, <2>1, <2>2, <2>3 DEF FactsOf, TaskFacts, SaveResult
  <2> QED BY <2>4, <2>5, <2>6 DEF FactsOf
<1>4. CASE FinishUpload(s, f) \/ FinalizeDropped(s, f)
  <2>1. /\ upload[s][f] \in SaveResult \union {"Refused", "Dropped"}
        /\ upload'[s][f] = "Idle"
        /\ UNCHANGED <<attempts, outcome, events>>
    BY <1>4 DEF FinishUpload, FinalizeDropped
  <2>2. /\ slot' = Active(s) => slot = Active(s)
        /\ slot' = Active(s) => status'[s][f] # "Pending" \/ upload[s][f] = "HashMismatch"
        /\ status'[s][f] = "Finished" => status[s][f] = "Finished" \/ upload[s][f] = "Success"
    <3>1. CASE slot # Active(s)
      BY <1>4, <3>1 DEF FinishUpload, FinalizeDropped, FinalizeFile
    <3>2. CASE slot = Active(s)
      <4>1. status[s][f] = "InProgress"
        BY <2>1, <3>2 DEF FileInv, UploadOwned, SaveResult
      <4> QED BY <1>4, <3>2, <4>1 DEF FinishUpload, FinalizeDropped, FinalizeFile, FinalStatus
    <3> QED BY <3>1, <3>2
  <2>3. UploadFacts(s, f)'
    BY <2>1, <2>2 DEF FactsOf, UploadFacts, SaveResult
  <2>4. ChannelFacts(s, f)'
    BY <1>a, <2>1, <2>2 DEF FactsOf, ChannelFacts, SaveResult
  <2>5. TaskFacts(s, f)'
    BY <1>0, <2>1 DEF FactsOf, TaskFacts
  <2> QED BY <2>3, <2>4, <2>5 DEF FactsOf
<1>5. CASE DropUpload(s, f)
  <2>1. /\ upload[s][f] \in {"Offering", "Waiting", "Saving", "Refused"}
        /\ upload'[s][f] = "Dropped"
        /\ UNCHANGED <<slot, status, attempts, events>>
        /\ last \in 1..MaxAttempts
    BY <1>5 DEF DropUpload, FactsOf, UploadFacts
  <2>2. /\ outcome'[s][f][last] = "Err"
        /\ \A n \in 1..MaxAttempts : n # last => outcome'[s][f][n] = outcome[s][f][n]
    <3> HIDE DEF ServerInv, ServerTypeOK, last
    <3>1. SetsOutcome(s, f, last, "Err")
      BY <1>5 DEF DropUpload, last, SetsOutcome
    <3> QED BY <1>b, <2>1, <3>1, OutcomeSet
  <2>3. /\ \A n \in 1..MaxAttempts : outcome[s][f][n] # "Ok"
        /\ status[s][f] # "Finished" /\ <<s, f>> \notin delivered
    BY <2>1 DEF FactsOf, UploadFacts, TaskFacts
  <2>4. UploadFacts(s, f)'
    <3>1. \A n \in 1..MaxAttempts : n > last => outcome[s][f][n] = "None" /\ n # last
      BY <2>1 DEF FactsOf, UploadFacts
    <3>2. \A n \in 1..MaxAttempts : n > last => outcome'[s][f][n] = "None"
      BY <2>2, <3>1
    <3>3. \A n \in 1..MaxAttempts : outcome'[s][f][n] # "Ok"
      BY <2>2, <2>3
    <3> HIDE DEF ServerTypeOK
    <3> QED BY <2>1, <2>2, <2>3, <3>2, <3>3 DEF UploadFacts
  <2>5. ChannelFacts(s, f)'
    BY <1>a, <2>1, <2>2 DEF FactsOf, ChannelFacts
  <2>6. TaskFacts(s, f)'
    BY <1>0, <2>1, <2>2, <2>3 DEF FactsOf, TaskFacts
  <2> QED BY <2>4, <2>5, <2>6 DEF FactsOf
<1>6. CASE LoseUpload(s, f)
  <2>1. /\ upload[s][f] \in SaveResult \union {"Refused"}
        /\ upload'[s][f] = "Leaked"
        /\ UNCHANGED <<slot, status, attempts, outcome, events>>
    BY <1>6 DEF LoseUpload
  <2>2. UploadFacts(s, f)'
    BY <2>1 DEF FactsOf, UploadFacts, SaveResult
  <2>3. ChannelFacts(s, f)' /\ TaskFacts(s, f)'
    BY <1>0, <1>a, <2>1 DEF FactsOf, ChannelFacts, TaskFacts, SaveResult
  <2> QED BY <2>2, <2>3 DEF FactsOf
<1> QED BY <1>1, <1>2, <1>3, <1>4, <1>5, <1>6 DEF UploadStep

LEMMA FactsServer ==
  ASSUME ServerInv, FileFacts, ServerStep, UNCHANGED appVars
  PROVE  FileFacts'
<1>0. ServerTypeOK
  BY DEF ServerInv
<1>1. ASSUME NEW t \in Session, NEW g \in File, UploadStep(t, g) PROVE FileFacts'
  <2> SUFFICES ASSUME NEW s \in Session, NEW f \in File
               PROVE  FactsOf(s, f)'
    BY DEF FileFacts, FactsOf
  <2>1. FactsOf(s, f)
    BY DEF FileFacts, FactsOf
  <2>2. CASE s = t /\ f = g
    BY <1>1, <2>1, <2>2, FactsOwn
  <2>3. CASE ~(s = t /\ f = g)
    BY <1>0, <1>1, <2>1, <2>3, FactsOther, FactsCalm
  <2> QED BY <2>2, <2>3
<1>2. CASE \/ \E t \in Session : EndStep(t)
           \/ \E ip \in Peer, id \in Session \union {NoSession} : CancelPending(ip, id)
  <2> SUFFICES ASSUME NEW s \in Session, NEW f \in File
               PROVE  FactsOf(s, f)'
    BY DEF FileFacts, FactsOf
  <2>1. FactsOf(s, f)
    BY DEF FileFacts, FactsOf
  <2>2. slot' = Active(s) => slot = Active(s)
    BY <1>2 DEF EndStep, AnnounceEnd, LoseEnd, CancelActive, CancelPending, Active, Free
  <2>3. UNCHANGED events \/ \E e \in Event : Emit(e) /\ ~IsFile(e, s, f)
    <3>1. ASSUME NEW t \in Session, AnnounceEnd(t)
          PROVE  \E e \in Event : Emit(e) /\ ~IsFile(e, s, f)
      <4> DEFINE e == SessionEnd(t, IF ending[t] = "Cancelled" THEN "Cancelled" ELSE "Finished")
      <4>1. e \in Event /\ Emit(e) /\ ~IsFile(e, s, f)
        BY <3>1, SessionEventTypes DEF AnnounceEnd, IsFile, SessionEnd
      <4> QED BY <4>1
    <3> QED BY <1>2, <3>1 DEF EndStep, LoseEnd, CancelActive, CancelPending
  <2>4. FileCalm(s, f)
    BY <1>2, <2>2, <2>3 DEF EndStep, AnnounceEnd, LoseEnd, CancelActive, CancelPending, FileCalm,
                            appVars
  <2> QED BY <1>0, <2>1, <2>4, FactsCalm
<1> QED BY <1>1, <1>2, FactsPrepare DEF ServerStep

SetTask(s, f, n, v) == task' = [task EXCEPT ![s][f][n] = v]

LEMMA TaskSet ==
  ASSUME AppTypes, NEW s \in Session, NEW f \in File, NEW n \in 1..MaxAttempts, NEW v,
         SetTask(s, f, n, v)
  PROVE  /\ task'[s][f][n] = v
         /\ \A m \in 1..MaxAttempts : m # n => task'[s][f][m] = task[s][f][m]
<1>1. task[s] \in [File -> [1..MaxAttempts -> TaskState]]
  BY DEF AppTypes
<1>2. task[s][f] \in [1..MaxAttempts -> TaskState]
  BY <1>1
<1>3. task'[s] = [task[s] EXCEPT ![f] = [task[s][f] EXCEPT ![n] = v]]
  BY DEF AppTypes, SetTask
<1>4. task'[s][f] = [task[s][f] EXCEPT ![n] = v]
  BY <1>1, <1>3
<1> QED BY <1>2, <1>4

LEMMA TaskOther ==
  ASSUME AppTypes, NEW s \in Session, NEW f \in File, NEW n, NEW v,
         SetTask(s, f, n, v),
         NEW t \in Session, NEW g \in File, ~(t = s /\ g = f)
  PROVE  task'[t][g] = task[t][g]
<1>1. task[s] \in [File -> [1..MaxAttempts -> TaskState]]
  BY DEF AppTypes
<1>2. /\ t = s => task'[t] = [task[s] EXCEPT ![f] = [task[s][f] EXCEPT ![n] = v]]
      /\ t # s => task'[t] = task[t]
  BY DEF AppTypes, SetTask
<1> QED BY <1>1, <1>2

\* The loop takes a file's event: it is the only one, and no attempt has succeeded.
LEMMA FactsArrives ==
  ASSUME ServerTypeOK, AppTypes, FileFacts, HandleFileUpload
  PROVE  FileFacts'
<1>0. PICK t \in Session, g \in File : t = events[1].session /\ g = events[1].file
  BY TakenEvent DEF HandleFileUpload, EventLoop, Takes
<1> DEFINE last == attempts[t][g]
<1>1. /\ 1 \in 1..Len(events) /\ events # <<>> /\ events' = Tail(events)
      /\ IsFile(events[1], t, g)
      /\ UNCHANGED <<slot, status, attempts, outcome, delivered>>
      /\ \/ TargetGiven(t, g, "Refused") /\ task' = task
         \/ TargetGiven(t, g, "Saving") /\ task' = [task EXCEPT ![t][g][last] = "Waiting"]
  BY <1>0, TakenEvent DEF HandleFileUpload, EventLoop, Takes, IsFile
<1> SUFFICES ASSUME NEW s \in Session, NEW f \in File
             PROVE  FactsOf(s, f)'
  BY DEF FileFacts, FactsOf
<1>2. FactsOf(t, g) /\ FactsOf(s, f)
  BY <1>1 DEF FileFacts, FactsOf
<1>3. InChannel(t, g) /\ ~InChannel(t, g)'
  BY <1>1, <1>2, ChannelTakes DEF FactsOf, ChannelFacts
<1>4. /\ last \in 1..MaxAttempts /\ outcome[t][g][last] # "Ok"
      /\ upload[t][g] \in {"Waiting", "Dropped", "Idle"}
  BY <1>1, <1>2, <1>3 DEF FactsOf, ChannelFacts, ServerTypeOK
<1>5. CASE s = t /\ f = g
  <2>1. /\ upload'[t][g] \in {upload[t][g], "Refused", "Saving"}
        /\ upload[t][g] # "Waiting" => upload'[t][g] = upload[t][g]
        /\ upload'[t][g] = "Saving" => task'[t][g][last] = "Waiting"
    <3>1. CASE TargetGiven(t, g, "Refused") /\ task' = task
      BY <1>1, <1>4, <3>1 DEF TargetGiven, ServerTypeOK
    <3>2. CASE TargetGiven(t, g, "Saving") /\ task' = [task EXCEPT ![t][g][last] = "Waiting"]
      <4> HIDE DEF last
      <4>1. task'[t][g][last] = "Waiting"
        <5>1. SetTask(t, g, last, "Waiting") /\ last \in 1..MaxAttempts
          BY <1>4, <3>2 DEF SetTask
        <5> QED BY <5>1, TaskSet
      <4> QED BY <1>1, <3>2, <4>1 DEF TargetGiven, ServerTypeOK
    <3> QED BY <1>1, <3>1, <3>2
  <2>2. \A n \in 1..MaxAttempts : outcome[t][g][n] # "Ok"
    BY <1>2, <1>4 DEF FactsOf, UploadFacts
  <2>3. <<t, g>> \notin delivered
    BY <1>2, <1>4 DEF FactsOf, TaskFacts
  <2>4. UploadFacts(t, g)'
    BY <1>1, <1>2, <1>4, <2>1, <2>2 DEF FactsOf, UploadFacts
  <2>5. ChannelFacts(t, g)'
    BY <1>1, <1>2, <1>3, ChannelCalm DEF FactsOf, ChannelFacts
  <2>6. TaskFacts(t, g)'
    BY <1>1, <2>1, <2>2, <2>3 DEF TaskFacts
  <2> QED BY <1>5, <2>4, <2>5, <2>6 DEF FactsOf
<1>6. CASE ~(s = t /\ f = g)
  <2>1. upload'[s][f] = upload[s][f]
    BY <1>1, <1>6 DEF TargetGiven, ServerTypeOK
  <2>2. task'[s][f] = task[s][f]
    <3> HIDE DEF last
    <3>1. SetTask(t, g, last, "Waiting") \/ task' = task
      BY <1>1 DEF SetTask
    <3> QED BY <1>6, <3>1, TaskOther
  <2>3. FileCalm(s, f)
    BY <1>1, <2>1, <2>2 DEF FileCalm
  <2> QED BY <1>2, <2>3, FactsCalm
<1> QED BY <1>5, <1>6

\* A result task moves.
LEMMA FactsReports ==
  ASSUME ServerTypeOK, AppTypes, FileFacts, NEW t \in Session, NEW g \in File,
         NEW n \in 1..MaxAttempts, ResultTask(t, g, n)
  PROVE  FileFacts'
<1> DEFINE last == attempts[t][g]
<1> SUFFICES ASSUME NEW s \in Session, NEW f \in File
             PROVE  FactsOf(s, f)'
  BY DEF FileFacts, FactsOf
<1>1. FactsOf(s, f) /\ FactsOf(t, g)
  BY DEF FileFacts, FactsOf
<1>2. UNCHANGED <<slot, upload, status, attempts, outcome, events>>
  BY DEF ResultTask, DeliverFile, ReportFile, ReportFailure, TaskStep, serverVars
<1>3. PICK to \in {"Delivered", "Done"} :
        /\ task' = [task EXCEPT ![t][g][n] = to]
        /\ \/ /\ task[t][g][n] = "Waiting" /\ to = "Delivered" /\ outcome[t][g][n] = "Ok"
              /\ delivered' = delivered \union {<<t, g>>}
           \/ task[t][g][n] = "Delivered" /\ to = "Done" /\ delivered' = delivered
           \/ /\ task[t][g][n] = "Waiting" /\ to = "Done" /\ delivered' = delivered
              /\ outcome[t][g][n] = "Err" \/ (DiskMayFail /\ outcome[t][g][n] = "Ok")
  BY DEF ResultTask, DeliverFile, ReportFile, ReportFailure, TaskStep
<1>4. /\ task'[t][g][n] = to
      /\ \A m \in 1..MaxAttempts : m # n => task'[t][g][m] = task[t][g][m]
      /\ ~(s = t /\ f = g) => task'[s][f] = task[s][f]
  <2>1. SetTask(t, g, n, to)
    BY <1>3 DEF SetTask
  <2>2. /\ task'[t][g][n] = to
        /\ \A m \in 1..MaxAttempts : m # n => task'[t][g][m] = task[t][g][m]
    BY <2>1, TaskSet
  <2>3. ~(s = t /\ f = g) => task'[s][f] = task[s][f]
    BY <2>1, TaskOther
  <2> QED BY <2>2, <2>3
<1>5. CASE s = t /\ f = g
  <2>1. UploadFacts(t, g)' /\ ChannelFacts(t, g)'
    BY <1>1, <1>2 DEF FactsOf, UploadFacts, ChannelFacts, OnceInChannel, InChannel
  <2>2. upload[t][g] = "Saving" =>
          last \in 1..MaxAttempts /\ outcome[t][g][last] = "None" /\ task[t][g][last] = "Waiting"
    BY <1>1 DEF FactsOf, UploadFacts, TaskFacts, ServerTypeOK
  <2>3. upload[t][g] = "Saving" => task'[t][g][last] = "Waiting"
    BY <1>3, <1>4, <2>2
  <2>4. outcome[t][g][n] = "Ok" => n = last /\ last # 0
    BY <1>1, ServerAssumption DEF FactsOf, UploadFacts
  <2>5. <<t, g>> \in delivered' =>
          last # 0 /\ outcome[t][g][last] = "Ok" /\ task'[t][g][last] \in {"Delivered", "Done"}
    <3>1. CASE <<t, g>> \in delivered
      <4>1. /\ last # 0 /\ outcome[t][g][last] = "Ok"
            /\ task[t][g][last] \in {"Delivered", "Done"}
        BY <1>1, <3>1 DEF FactsOf, TaskFacts
      <4>2. last \in 1..MaxAttempts
        BY <4>1 DEF ServerTypeOK
      <4> HIDE DEF last
      <4> QED BY <1>4, <4>1, <4>2
    <3>2. CASE <<t, g>> \notin delivered
      <4>1. <<t, g>> \in delivered' => outcome[t][g][n] = "Ok" /\ to = "Delivered"
        BY <1>3, <3>2
      <4> QED BY <1>4, <2>4, <4>1
    <3> QED BY <3>1, <3>2
  <2>6. ASSUME ~DiskMayFail, NEW m \in 1..MaxAttempts, outcome[t][g][m] = "Ok"
        PROVE  <<t, g>> \in delivered' \/ task'[t][g][m] = "Waiting"
    <3>1. <<t, g>> \in delivered \/ task[t][g][m] = "Waiting"
      BY <1>1, <2>6 DEF FactsOf, TaskFacts
    <3> QED BY <1>3, <1>4, <2>6, <3>1
  <2>7. TaskFacts(t, g)'
    BY <1>2, <2>3, <2>5, <2>6 DEF TaskFacts
  <2> QED BY <1>5, <2>1, <2>7 DEF FactsOf
<1>6. CASE ~(s = t /\ f = g)
  <2>1. <<s, f>> \in delivered' <=> <<s, f>> \in delivered
    BY <1>3, <1>6
  <2>2. FileCalm(s, f)
    BY <1>2, <1>4, <1>6, <2>1 DEF FileCalm
  <2> QED BY <1>1, <2>2, FactsCalm
<1> QED BY <1>5, <1>6

LEMMA FactsStep ==
  ASSUME ServerInv, AppTypes, FileFacts, [Next]_vars
  PROVE  FileFacts'
<1>0. ServerTypeOK
  BY DEF ServerInv
<1>1. ASSUME UNCHANGED <<upload, attempts, outcome, status, task, delivered>>,
             \A s \in Session : slot' = Active(s) => slot = Active(s),
             UNCHANGED events \/ (events # <<>> /\ events' = Tail(events))
      PROVE  FileFacts'
  <2> SUFFICES ASSUME NEW s \in Session, NEW f \in File
               PROVE  FactsOf(s, f)'
    BY DEF FileFacts, FactsOf
  <2>1. FactsOf(s, f)
    BY DEF FileFacts, FactsOf
  <2>2. FileCalm(s, f)
    BY <1>1 DEF FileCalm
  <2> QED BY <1>0, <2>1, <2>2, FactsCalm
<1>2. CASE DeclineOffer \/ HandlePrepareUpload \/ HandleSessionEnd \/ HandleAborted
  BY <1>1, <1>2 DEF DeclineOffer, HandlePrepareUpload, HandleSessionEnd, HandleAborted, Takes,
                    appVars
<1>3. CASE \/ \E choice \in {"Accept", "Reject"} : DecidePending(choice)
           \/ \E s \in Session : DecisionTask(s) \/ WatchdogExpires(s) \/ WatchdogCleans(s)
           \/ UNCHANGED vars
  BY <1>1, <1>3 DEF DecidePending, DecisionTask, WatchdogExpires, WatchdogCleans, CancelV2Session,
                    vars, appVars, serverVars, Active, Free
<1> QED BY <1>0, <1>2, <1>3, FactsServer, FactsArrives, FactsReports DEF Next, EventLoop

(***************************************************************************)
(* The list of incoming transfers                                          *)
(***************************************************************************)
LEMMA OfferedFiles ==
  ASSUME NEW s \in Session
  PROVE  /\ Cardinality(Offer[s]) \in Nat
         /\ \A i \in 1..Cardinality(Offer[s]) : SetToSeq(Offer[s])[i] \in Offer[s]
         /\ Offer[s] \subseteq File
<1>1. IsFiniteSet(Offer[s]) /\ Offer[s] \subseteq File
  BY ServerAssumption, ReceiverAssumption
<1>2. /\ Cardinality(Offer[s]) \in Nat
      /\ ExistsBijection(1..Cardinality(Offer[s]), Offer[s])
  BY <1>1, FS_CardinalityType
<1>3. \E q \in [1..Cardinality(Offer[s]) -> Offer[s]] : IsInjective(q)
  BY <1>2 DEF ExistsBijection, Bijection, Injection, IsInjective
<1>4. SetToSeq(Offer[s]) \in [1..Cardinality(Offer[s]) -> Offer[s]]
  BY <1>3 DEF SetToSeq
<1> QED BY <1>1, <1>2, <1>4

LEMMA SetEffect ==
  ASSUME incoming \in Seq(Entry), NEW s, NEW f, NEW new \in {"Waiting", "Receiving", "Completed", "Failed"},
         SetEntry(s, f, new)
  PROVE  /\ incoming' \in Seq(Entry) /\ Len(incoming') = Len(incoming)
         /\ \A i \in 1..Len(incoming) :
              /\ incoming'[i].session = incoming[i].session
              /\ incoming'[i].file = incoming[i].file
              /\ incoming'[i].status =
                   IF incoming[i].session = s /\ incoming[i].file = f THEN new
                   ELSE incoming[i].status
<1>1. /\ DOMAIN incoming = 1..Len(incoming) /\ Len(incoming) \in Nat
      /\ \A i \in 1..Len(incoming) : incoming[i] \in Entry
  OBVIOUS
<1>2. incoming' = [i \in 1..Len(incoming) |->
                     IF incoming[i].session = s /\ incoming[i].file = f
                     THEN [incoming[i] EXCEPT !.status = new] ELSE incoming[i]]
  BY <1>1 DEF SetEntry
<1>3. \A i \in 1..Len(incoming) :
        /\ [incoming[i] EXCEPT !.status = new] \in Entry
        /\ [incoming[i] EXCEPT !.status = new].session = incoming[i].session
        /\ [incoming[i] EXCEPT !.status = new].file = incoming[i].file
        /\ [incoming[i] EXCEPT !.status = new].status = new
  BY <1>1 DEF Entry
<1>4. incoming' \in [1..Len(incoming) -> Entry]
  BY <1>1, <1>2, <1>3
<1>5. incoming' \in Seq(Entry) /\ Len(incoming') = Len(incoming)
  BY <1>1, <1>4
<1> QED BY <1>2, <1>3, <1>5

LEMMA FailEffect ==
  ASSUME incoming \in Seq(Entry), NEW s, FailIncomplete(s)
  PROVE  /\ incoming' \in Seq(Entry) /\ Len(incoming') = Len(incoming)
         /\ \A i \in 1..Len(incoming) :
              /\ incoming'[i].session = incoming[i].session
              /\ incoming'[i].file = incoming[i].file
              /\ incoming'[i].status =
                   IF incoming[i].session = s /\ incoming[i].status \in Incomplete THEN "Failed"
                   ELSE incoming[i].status
<1>1. /\ DOMAIN incoming = 1..Len(incoming) /\ Len(incoming) \in Nat
      /\ \A i \in 1..Len(incoming) : incoming[i] \in Entry
  OBVIOUS
<1>2. incoming' = [i \in 1..Len(incoming) |->
                     IF incoming[i].session = s /\ incoming[i].status \in Incomplete
                     THEN [incoming[i] EXCEPT !.status = "Failed"] ELSE incoming[i]]
  BY <1>1 DEF FailIncomplete
<1>3. \A i \in 1..Len(incoming) :
        /\ [incoming[i] EXCEPT !.status = "Failed"] \in Entry
        /\ [incoming[i] EXCEPT !.status = "Failed"].session = incoming[i].session
        /\ [incoming[i] EXCEPT !.status = "Failed"].file = incoming[i].file
        /\ [incoming[i] EXCEPT !.status = "Failed"].status = "Failed"
  BY <1>1 DEF Entry
<1>4. incoming' \in [1..Len(incoming) -> Entry]
  BY <1>1, <1>2, <1>3
<1>5. incoming' \in Seq(Entry) /\ Len(incoming') = Len(incoming)
  BY <1>1, <1>4
<1> QED BY <1>2, <1>3, <1>5

LEMMA Concat ==
  ASSUME NEW S, NEW a \in Seq(S), NEW b \in Seq(S)
  PROVE  /\ a \o b \in Seq(S) /\ Len(a \o b) = Len(a) + Len(b)
         /\ \A j \in 1..Len(a) + Len(b) :
              (a \o b)[j] = IF j <= Len(a) THEN a[j] ELSE b[j - Len(a)]
OBVIOUS

LEMMA Suffix ==
  ASSUME NEW S, NEW a \in Seq(S), NEW d \in Nat, d <= Len(a)
  PROVE  LET b == SubSeq(a, d + 1, Len(a))
         IN  /\ b \in Seq(S) /\ Len(b) = Len(a) - d
             /\ \A i \in 1..Len(b) : i + d \in 1..Len(a) /\ b[i] = a[i + d]
OBVIOUS

\* Entries of the new request are appended; of the others, some may have gone.
LEMMA AddEffect ==
  ASSUME incoming \in Seq(Entry), NEW s \in Session, AddEntries(s)
  PROVE  /\ incoming' \in Seq(Entry)
         /\ \A j \in 1..Len(incoming') :
              \/ \E i \in 1..Len(incoming) : incoming'[j] = incoming[i]
              \/ /\ incoming'[j].session = s /\ incoming'[j].status = "Waiting"
                 /\ incoming'[j].file \in Offer[s]
<1> DEFINE n == Cardinality(Offer[s])
           new == [i \in 1..n |-> [session |-> s, file |-> SetToSeq(Offer[s])[i],
                                   status |-> "Waiting"]]
           excess == Len(incoming) + Len(new) - MaxIncoming
           drop == IF excess <= 0 THEN 0
                   ELSE IF excess < Len(incoming) THEN excess ELSE Len(incoming)
           old == SubSeq(incoming, drop + 1, Len(incoming))
<1>1. n \in Nat /\ \A i \in 1..n : SetToSeq(Offer[s])[i] \in Offer[s] /\ SetToSeq(Offer[s])[i] \in File
  BY OfferedFiles
<1>2. \A i \in 1..n : new[i] \in Entry /\ new[i].session = s /\ new[i].status = "Waiting"
                      /\ new[i].file \in Offer[s]
  BY <1>1 DEF Entry
<1>3. new \in [1..n -> Entry]
  BY <1>2
<1> HIDE DEF new
<1>4. new \in Seq(Entry) /\ Len(new) = n
  BY <1>1, <1>3
<1>5. drop \in Nat /\ drop <= Len(incoming) /\ Len(incoming) \in Nat
  BY <1>1, <1>4, ReceiverAssumption
<1>6. incoming' = old \o new
  BY DEF AddEntries, new
<1> HIDE DEF drop
<1>7. /\ old \in Seq(Entry) /\ Len(old) = Len(incoming) - drop
      /\ \A i \in 1..Len(old) : i + drop \in 1..Len(incoming) /\ old[i] = incoming[i + drop]
  BY <1>5, Suffix
<1> HIDE DEF old
<1>8. /\ incoming' \in Seq(Entry) /\ Len(incoming') = Len(old) + Len(new)
      /\ \A j \in 1..Len(incoming') :
           incoming'[j] = IF j <= Len(old) THEN old[j] ELSE new[j - Len(old)]
  <2>1. old \in Seq(Entry) /\ new \in Seq(Entry)
    BY <1>4, <1>7
  <2>2. /\ old \o new \in Seq(Entry) /\ Len(old \o new) = Len(old) + Len(new)
        /\ \A j \in 1..Len(old) + Len(new) :
             (old \o new)[j] = IF j <= Len(old) THEN old[j] ELSE new[j - Len(old)]
    BY <2>1, Concat
  <2> QED BY <1>6, <2>2
<1>9. ASSUME NEW j \in 1..Len(incoming')
      PROVE  \/ \E i \in 1..Len(incoming) : incoming'[j] = incoming[i]
             \/ /\ incoming'[j].session = s /\ incoming'[j].status = "Waiting"
                /\ incoming'[j].file \in Offer[s]
  <2>1. CASE j <= Len(old)
    BY <1>7, <1>8, <2>1
  <2>2. CASE ~(j <= Len(old))
    <3>1. j - Len(old) \in 1..n
      BY <1>1, <1>4, <1>7, <1>8, <2>2
    <3> QED BY <1>2, <1>8, <2>2, <3>1
  <2> QED BY <2>1, <2>2
<1> QED BY <1>8, <1>9

(***************************************************************************)
(* What the application knows of a session from its request to its end     *)
(***************************************************************************)
IsFinished(e, s) == e.type = "SessionEnd" /\ e.session = s /\ e.reason = "Finished"
Booked(s) == \A f \in File : status[s][f] \in Final \union {"Absent"}

\* An accepted request was accepted whole and is known; a session that is reported as
\* finished has booked every file.
SessionOf(s) ==
  /\ prep[s] = "Accepted" => answer[s] = Offer[s]
  /\ prep[s] \in {"Accepted", "Ready"} => watchdog[s] # "None"
  /\ prep[s] = "Ready" => \A f \in Offer[s] : status[s][f] # "Absent"
  /\ \A i \in 1..Len(events) : IsFinished(events[i], s) => prep[s] = "Ready" /\ Booked(s)
\* A result task belongs to a known session, and an attempt succeeds only with one.
TaskOf(s, f) ==
  \A n \in 1..MaxAttempts :
    /\ outcome[s][f][n] = "Ok" => task[s][f][n] # "None"
    /\ task[s][f][n] # "None" => watchdog[s] # "None"
    /\ task[s][f][n] = "Delivered" => <<s, f>> \in delivered
SessionInv == \A s \in Session : SessionOf(s) /\ \A f \in File : TaskOf(s, f)

\* What a session has booked stays booked.
LEMMA ReadyStays ==
  ASSUME ServerTypeOK, [ServerNext]_serverVars, NEW s \in Session, prep[s] = "Ready"
  PROVE  /\ prep'[s] = "Ready"
         /\ \A f \in File : /\ status[s][f] \in Final \union {"Absent"} => status'[s][f] = status[s][f]
                            /\ status[s][f] # "Absent" => status'[s][f] # "Absent"
<1> USE DEF ServerTypeOK
<1>1. ASSUME NEW t \in Session, PrepareStep(t)
      PROVE  prep'[s] = "Ready" /\ status'[s] = status[s]
  BY <1>1 DEF PrepareStep, ClaimSlot, OfferSession, CreateSession, RefuseSession, LoseClaim,
     DropPrepare, MissDecision, ObserveCancel, AbandonClaim, ReleaseClaim, AnnounceAbort,
     NothingToReceive, Disconnected, DecisionLost, TokenWins, Selecting
<1>2. ASSUME NEW t \in Session, NEW g \in File, UploadStep(t, g), NEW f \in File
      PROVE  /\ prep'[s] = "Ready"
             /\ status[s][f] \in Final \union {"Absent"} => status'[s][f] = status[s][f]
             /\ status[s][f] # "Absent" => status'[s][f] # "Absent"
  <2>1. prep' = prep
    BY <1>2 DEF UploadStep, StartUpload, OfferFile, SaveFile, FinishUpload, DropUpload,
                FinalizeDropped, LoseUpload
  <2>2. \/ status' = status
        \/ \E v : /\ status' = [status EXCEPT ![t][g] = v]
                 /\ \/ status[t][g] = "Pending" /\ v = "InProgress"
                    \/ \E r : v = FinalStatus(t, g, r)
    BY <1>2 DEF UploadStep, StartUpload, OfferFile, SaveFile, FinishUpload, DropUpload,
                FinalizeDropped, LoseUpload, FinalizeFile
  <2>3. ASSUME NEW v, status' = [status EXCEPT ![t][g] = v],
               \/ status[t][g] = "Pending" /\ v = "InProgress"
               \/ \E r : v = FinalStatus(t, g, r)
        PROVE  /\ status[s][f] \in Final \union {"Absent"} => status'[s][f] = status[s][f]
               /\ status[s][f] # "Absent" => status'[s][f] # "Absent"
    <3>1. /\ status[t][g] \in Final \union {"Absent"} => v = status[t][g]
          /\ status[t][g] # "Absent" => v # "Absent"
      BY <2>3 DEF FinalStatus, Final
    <3>2. status'[t][g] = v /\ (~(s = t /\ f = g) => status'[s][f] = status[s][f])
      BY <2>3
    <3> QED BY <3>1, <3>2
  <2> QED BY <2>1, <2>2, <2>3
<1>3. CASE \/ \E t \in Session : EndStep(t)
           \/ \E ip \in Peer, id \in Session \union {NoSession} : CancelPending(ip, id)
  BY <1>3 DEF EndStep, AnnounceEnd, LoseEnd, CancelActive, CancelPending
<1>4. CASE AppStep
  <2>1. UNCHANGED status
    BY <1>4 DEF AppStep, AppTakes, AppDecides, AppProvides, AppCancels
  <2>2. prep'[s] = "Ready"
    BY <1>4 DEF AppStep, AppTakes, AppDecides, AppProvides, AppCancels, DecidesSession, Answered
  <2> QED BY <2>1, <2>2
<1>5. CASE UNCHANGED serverVars
  BY <1>5 DEF serverVars
<1> QED BY <1>1, <1>2, <1>3, <1>4, <1>5 DEF ServerNext, ServerStep

\* A session is reported as finished when it is.
LEMMA FinishedEvents ==
  ASSUME ServerInv, SessionInv, [ServerNext]_serverVars, NEW s \in Session,
         \/ UNCHANGED events
         \/ events # <<>> /\ events' = Tail(events)
         \/ \E e \in Event : Emit(e) /\ (IsFinished(e, s) => AnnounceEnd(s))
  PROVE  \A i \in 1..Len(events') : IsFinished(events'[i], s) => prep'[s] = "Ready" /\ Booked(s)'
<1>0. ServerTypeOK /\ SessionOf(s)
  BY DEF ServerInv, SessionInv
<1> SUFFICES ASSUME NEW i \in 1..Len(events'), IsFinished(events'[i], s)
             PROVE  prep'[s] = "Ready" /\ Booked(s)'
  OBVIOUS
<1>1. prep[s] = "Ready" /\ Booked(s)
  <2>1. CASE UNCHANGED events
    BY <1>0, <2>1 DEF SessionOf
  <2>2. CASE events # <<>> /\ events' = Tail(events)
    BY <1>0, <2>2, TailEvents DEF SessionOf
  <2>3. ASSUME NEW e \in Event, Emit(e), IsFinished(e, s) => AnnounceEnd(s)
        PROVE  prep[s] = "Ready" /\ Booked(s)
    <3>1. CASE i \in 1..Len(events)
      BY <1>0, <2>3, <3>1, AppendEvents DEF SessionOf
    <3>2. CASE i \notin 1..Len(events)
      <4>1. IsFinished(e, s)
        BY <1>0, <2>3, <3>2, AppendEvents
      <4>2. /\ ending[s] \in {"Finished", "FinishedByTask", "Cancelled"}
            /\ Emit(SessionEnd(s, IF ending[s] = "Cancelled" THEN "Cancelled" ELSE "Finished"))
        BY <2>3, <4>1 DEF AnnounceEnd
      <4>3. e = SessionEnd(s, IF ending[s] = "Cancelled" THEN "Cancelled" ELSE "Finished")
        BY <1>0, <2>3, <4>2, AppendEvents, SessionEventTypes
      <4>4. ending[s] \in {"Finished", "FinishedByTask"}
        BY <4>1, <4>2, <4>3 DEF IsFinished, SessionEnd
      <4> QED BY <4>4 DEF ServerInv, FileInv, SessionStages, FinishedIsQuiet, Booked
    <3> QED BY <3>1, <3>2
  <2> QED BY <2>1, <2>2, <2>3
<1>2. prep'[s] = "Ready" /\ \A f \in File : status'[s][f] = status[s][f]
  BY <1>0, <1>1, ReadyStays DEF Booked
<1> QED BY <1>1, <1>2 DEF Booked

LEMMA SessionServer ==
  ASSUME ServerInv, AppTypes, SessionInv, ServerStep, UNCHANGED appVars, NEW s \in Session
  PROVE  SessionOf(s)'
<1>0. ServerTypeOK /\ SessionOf(s) /\ [ServerNext]_serverVars /\ watchdog' = watchdog
  BY DEF ServerInv, SessionInv, ServerNext, appVars
<1>1. \/ UNCHANGED events
      \/ \E e \in Event : Emit(e) /\ (IsFinished(e, s) => AnnounceEnd(s))
  <2>1. ASSUME NEW t \in Session, AnnounceEnd(t)
        PROVE  \E e \in Event : Emit(e) /\ (IsFinished(e, s) => AnnounceEnd(s))
    <3> DEFINE e == SessionEnd(t, IF ending[t] = "Cancelled" THEN "Cancelled" ELSE "Finished")
    <3>1. e \in Event /\ Emit(e) /\ (IsFinished(e, s) => t = s)
      BY <2>1, SessionEventTypes DEF AnnounceEnd, IsFinished, SessionEnd
    <3> QED BY <2>1, <3>1
  <2>2. ASSUME NEW t \in Session, EndStep(t)
        PROVE  \/ UNCHANGED events
               \/ \E e \in Event : Emit(e) /\ (IsFinished(e, s) => AnnounceEnd(s))
    BY <2>1, <2>2 DEF EndStep, LoseEnd, CancelActive
  <2>3. ASSUME NEW t \in Session, PrepareStep(t)
        PROVE  UNCHANGED events \/ \E e \in Event : Emit(e) /\ ~IsFinished(e, s)
    BY <2>3, SessionEventTypes DEF PrepareStep, ClaimSlot, OfferSession, CreateSession,
       RefuseSession, LoseClaim, DropPrepare, MissDecision, ObserveCancel, AbandonClaim,
       ReleaseClaim, AnnounceAbort, IsFinished, PrepareUpload, PrepareUploadAborted
  <2>4. ASSUME NEW t \in Session, NEW g \in File, UploadStep(t, g)
        PROVE  UNCHANGED events \/ \E e \in Event : Emit(e) /\ ~IsFinished(e, s)
    BY <2>4, SessionEventTypes DEF UploadStep, StartUpload, OfferFile, SaveFile, FinishUpload,
       DropUpload, FinalizeDropped, LoseUpload, IsFinished, FileUpload
  <2> QED BY <2>2, <2>3, <2>4 DEF ServerStep, CancelPending
<1>2. \A i \in 1..Len(events') : IsFinished(events'[i], s) => prep'[s] = "Ready" /\ Booked(s)'
  BY <1>0, <1>1, FinishedEvents
<1>3. \/ prep'[s] \notin {"Accepted", "Ready"}
      \/ prep'[s] = prep[s] /\ answer' = answer
      \/ /\ prep[s] = "Accepted" /\ prep'[s] = "Ready"
         /\ \A f \in answer[s] \cap File : status'[s][f] = "Pending"
  <2>1. ASSUME NEW t \in Session, PrepareStep(t), prep'[s] \in {"Accepted", "Ready"}
        PROVE  \/ prep'[s] = prep[s] /\ answer' = answer
               \/ /\ prep[s] = "Accepted" /\ prep'[s] = "Ready"
                  /\ \A f \in answer[s] \cap File : status'[s][f] = "Pending"
    BY <1>0, <2>1 DEF PrepareStep, ClaimSlot, OfferSession, CreateSession, RefuseSession, LoseClaim,
       DropPrepare, MissDecision, ObserveCancel, AbandonClaim, ReleaseClaim, AnnounceAbort,
       ServerTypeOK
  <2>2. ASSUME NEW t \in Session, EndStep(t) PROVE prep' = prep /\ answer' = answer
    BY <2>2 DEF EndStep, AnnounceEnd, LoseEnd, CancelActive
  <2>3. ASSUME NEW t \in Session, NEW g \in File, UploadStep(t, g)
        PROVE  prep' = prep /\ answer' = answer
    BY <2>3 DEF UploadStep, StartUpload, OfferFile, SaveFile, FinishUpload, DropUpload,
                FinalizeDropped, LoseUpload
  <2> QED BY <2>1, <2>2, <2>3 DEF ServerStep, CancelPending
<1>4. prep'[s] = "Ready" => \A f \in Offer[s] : status'[s][f] # "Absent"
  <2>1. Offer[s] \subseteq File
    BY OfferedFiles
  <2>2. CASE prep[s] = "Ready"
    BY <1>0, <2>1, <2>2, ReadyStays DEF SessionOf
  <2>3. CASE prep[s] # "Ready"
    BY <1>0, <1>3, <2>1, <2>3 DEF SessionOf
  <2> QED BY <2>2, <2>3
<1> QED BY <1>0, <1>2, <1>3, <1>4 DEF SessionOf

\* What a step of the application answers, and that no session is forgotten altogether.
LEMMA AppAnswers ==
  ASSUME ServerTypeOK, AppTypes, EventInv, AppNext, NEW s \in Session
  PROVE  /\ \/ prep'[s] = prep[s] /\ answer'[s] = answer[s]
            \/ prep'[s] = "Declined"
            \/ prep'[s] = "Accepted" /\ answer'[s] = Offer[s] /\ watchdog[s] # "None"
            \/ prep'[s] = "Accepted" /\ answer'[s] = Offer[s] /\ watchdog'[s] # "None"
         /\ watchdog[s] # "None" => watchdog'[s] # "None"
         /\ status' = status
         /\ UNCHANGED events \/ (events # <<>> /\ events' = Tail(events))
<1>1. CASE EventLoop
  <2> DEFINE h == events[1].session
  <2>1. /\ h \in Session /\ Head(events) = events[1] /\ status' = status
        /\ events # <<>> /\ events' = Tail(events)
    BY <1>1, TakenEvent
  <2>2. CASE DeclineOffer \/ HandleFileUpload
    BY <2>1, <2>2 DEF DeclineOffer, HandleFileUpload, Answered, appVars, ServerTypeOK
  <2>3. CASE HandlePrepareUpload
    <3>1. /\ watchdog' = [watchdog EXCEPT ![h] = "Armed"]
          /\ Answered(h, "Accepted", Offer[h]) \/ UNCHANGED <<prep, answer>>
      BY <2>1, <2>3 DEF HandlePrepareUpload
    <3> QED BY <2>1, <3>1 DEF Answered, ServerTypeOK, AppTypes
  <2>4. CASE HandleSessionEnd \/ HandleAborted
    <3>1. Forget(h) /\ UNCHANGED <<prep, answer>>
      BY <2>1, <2>4 DEF HandleSessionEnd, HandleAborted
    <3> QED BY <2>1, <3>1, ForgetEffect
  <2> QED BY <1>1, <2>2, <2>3, <2>4 DEF EventLoop
<1>2. ASSUME NEW choice \in {"Accept", "Reject"}, DecidePending(choice)
      PROVE  UNCHANGED <<prep, answer, status, events, watchdog>>
  BY <1>2 DEF DecidePending, serverVars
<1>3. ASSUME NEW t \in Session, DecisionTask(t)
      PROVE  /\ UNCHANGED <<status, events, watchdog>>
             /\ \/ prep'[s] = prep[s] /\ answer'[s] = answer[s]
                \/ prep'[s] = "Declined"
                \/ prep'[s] = "Accepted" /\ answer'[s] = Offer[s] /\ watchdog[s] # "None"
  <2>1. watchdog[t] # "None"
    BY <1>3 DEF DecisionTask, EventInv, EventsOf
  <2> QED BY <1>3, <2>1 DEF DecisionTask, Answered, ServerTypeOK
<1>4. ASSUME NEW t \in Session, WatchdogExpires(t) \/ WatchdogCleans(t)
      PROVE  /\ UNCHANGED <<prep, answer, status, events>>
             /\ watchdog[s] # "None" => watchdog'[s] # "None"
  BY <1>4 DEF WatchdogExpires, WatchdogCleans, serverVars, AppTypes
<1>5. ASSUME NEW t \in Session, NEW g \in File, NEW n \in 1..MaxAttempts, ResultTask(t, g, n)
      PROVE  UNCHANGED <<prep, answer, status, events, watchdog>>
  BY <1>5 DEF ResultTask, DeliverFile, ReportFile, ReportFailure, TaskStep, serverVars
<1> QED BY <1>1, <1>2, <1>3, <1>4, <1>5 DEF AppNext

LEMMA SessionApp ==
  ASSUME ServerInv, AppTypes, EventInv, SessionInv, AppNext, NEW s \in Session
  PROVE  SessionOf(s)'
<1>0. ServerTypeOK /\ SessionOf(s)
  BY DEF ServerInv, SessionInv
<1>1. [ServerNext]_serverVars
  BY <1>0, AppIsAllowed DEF ServerNext
<1>2. \A i \in 1..Len(events') : IsFinished(events'[i], s) => prep'[s] = "Ready" /\ Booked(s)'
  BY <1>0, <1>1, AppAnswers, FinishedEvents
<1> QED BY <1>0, <1>2, AppAnswers DEF SessionOf

SetOutcome(s, f, v) == outcome' = [outcome EXCEPT ![s][f][attempts[s][f]] = v]

LEMMA OutcomeBooked ==
  ASSUME ServerTypeOK, NEW s \in Session, NEW f \in File, attempts[s][f] \in 1..MaxAttempts, NEW v,
         SetOutcome(s, f, v)
  PROVE  /\ outcome'[s][f][attempts[s][f]] = v
         /\ \A m \in 1..MaxAttempts : m # attempts[s][f] => outcome'[s][f][m] = outcome[s][f][m]
<1>1. PICK n \in 1..MaxAttempts : n = attempts[s][f]
  OBVIOUS
<1>2. outcome[s][f] \in [1..MaxAttempts -> {"None", "Ok", "Err"}]
  BY DEF ServerTypeOK
<1>3. outcome'[s][f] = [outcome[s][f] EXCEPT ![n] = v]
  BY <1>1 DEF ServerTypeOK, SetOutcome
<1> QED BY <1>1, <1>2, <1>3

LEMMA TaskServer ==
  ASSUME ServerInv, AppTypes, FileFacts, SessionInv, ServerStep, UNCHANGED appVars,
         NEW s \in Session, NEW f \in File
  PROVE  TaskOf(s, f)'
<1>0. ServerTypeOK /\ TaskOf(s, f) /\ UNCHANGED <<task, watchdog, delivered>>
  BY DEF ServerInv, SessionInv, appVars
<1>1. ASSUME NEW n \in 1..MaxAttempts, outcome'[s][f][n] = "Ok"
      PROVE  task[s][f][n] # "None"
  <2>1. CASE outcome' = outcome
    BY <1>0, <1>1, <2>1 DEF TaskOf
  <2>2. ASSUME NEW t \in Session, NEW g \in File, NEW v, v # "None",
               SetOutcome(t, g, v),
               v = "Ok" => upload[t][g] = "Saving", upload[t][g] # "Idle"
        PROVE  task[s][f][n] # "None"
    <3>0. attempts[t][g] \in 1..MaxAttempts
      BY <1>0, <2>2 DEF FileFacts, UploadFacts, ServerTypeOK
    <3>1. PICK k \in 1..MaxAttempts : k = attempts[t][g]
      BY <3>0
    <3>2. outcome'[t][g][k] = v /\ \A m \in 1..MaxAttempts : m # k => outcome'[t][g][m] = outcome[t][g][m]
      BY <1>0, <2>2, <3>0, <3>1, OutcomeBooked
    <3>3. ~(s = t /\ f = g) => outcome'[s][f] = outcome[s][f]
      BY <1>0, <2>2 DEF ServerTypeOK, SetOutcome
    <3>4. CASE s = t /\ f = g /\ n = k
      BY <1>1, <2>2, <3>1, <3>2, <3>4 DEF FileFacts, TaskFacts
    <3>5. CASE ~(s = t /\ f = g /\ n = k)
      BY <1>0, <1>1, <3>2, <3>3, <3>5 DEF TaskOf
    <3> QED BY <3>4, <3>5
  <2>3. ASSUME NEW t \in Session, NEW g \in File, UploadStep(t, g)
        PROVE  \/ outcome' = outcome
               \/ \E v : /\ v # "None" /\ upload[t][g] # "Idle"
                         /\ SetOutcome(t, g, v)
                         /\ v = "Ok" => upload[t][g] = "Saving"
    <3>1. ASSUME NEW r \in SaveResult, SaveFile(t, g, r)
          PROVE  \E v : /\ v # "None" /\ upload[t][g] # "Idle"
                        /\ SetOutcome(t, g, v)
                        /\ v = "Ok" => upload[t][g] = "Saving"
      <4> DEFINE v == IF r = "Success" THEN "Ok" ELSE "Err"
      <4>1. /\ v # "None" /\ upload[t][g] # "Idle"
            /\ SetOutcome(t, g, v)
            /\ v = "Ok" => upload[t][g] = "Saving"
        BY <3>1 DEF SaveFile, SetOutcome
      <4> QED BY <4>1
    <3>2. CASE DropUpload(t, g)
      <4>1. SetOutcome(t, g, "Err") /\ upload[t][g] # "Idle"
        BY <3>2 DEF DropUpload, SetOutcome
      <4> QED BY <4>1
    <3> QED BY <2>3, <3>1, <3>2 DEF UploadStep, StartUpload, OfferFile, FinishUpload,
                                    FinalizeDropped, LoseUpload
  <2>4. ASSUME NEW t \in Session, PrepareStep(t) \/ EndStep(t) PROVE outcome' = outcome
    BY <2>4 DEF PrepareStep, ClaimSlot, OfferSession, CreateSession, RefuseSession, LoseClaim,
       DropPrepare, MissDecision, ObserveCancel, AbandonClaim, ReleaseClaim, AnnounceAbort,
       EndStep, AnnounceEnd, LoseEnd, CancelActive
  <2> QED BY <2>1, <2>2, <2>3, <2>4 DEF ServerStep, CancelPending
<1> QED BY <1>0, <1>1 DEF TaskOf

\* A file's event is of a session that was created, so one the application knows.
LEMMA ArrivingIsKnown ==
  ASSUME ServerInv, FileFacts, SessionInv, HandleFileUpload,
         NEW t \in Session, NEW g \in File, t = events[1].session, g = events[1].file
  PROVE  /\ watchdog[t] # "None" /\ attempts[t][g] \in 1..MaxAttempts
         /\ outcome[t][g][attempts[t][g]] # "Ok"
<1>0. ServerTypeOK
  BY DEF ServerInv
<1>1. InChannel(t, g)
  BY <1>0, TakenEvent DEF HandleFileUpload, EventLoop, Takes, InChannel, IsFile
<1>2. attempts[t][g] # 0 /\ outcome[t][g][attempts[t][g]] # "Ok"
  BY <1>1 DEF FileFacts, ChannelFacts
<1>3. prep[t] = "Ready"
  BY <1>2 DEF ServerInv, FileInv, SessionStages
<1>4. attempts[t][g] \in 1..MaxAttempts
  BY <1>0, <1>2 DEF ServerTypeOK
<1>5. watchdog[t] # "None"
  BY <1>3 DEF SessionInv, SessionOf
<1> QED BY <1>2, <1>4, <1>5

LEMMA TaskApp ==
  ASSUME ServerInv, AppTypes, EventInv, FileFacts, SessionInv, AppNext,
         NEW s \in Session, NEW f \in File
  PROVE  TaskOf(s, f)'
<1>0. ServerTypeOK /\ TaskOf(s, f)
  BY DEF ServerInv, SessionInv
<1>1. watchdog[s] # "None" => watchdog'[s] # "None"
  BY <1>0, AppAnswers
<1>2. CASE task' = task /\ outcome' = outcome /\ delivered' = delivered
  BY <1>0, <1>1, <1>2 DEF TaskOf
<1>3. ASSUME NEW t \in Session, NEW g \in File, NEW k \in 1..MaxAttempts, NEW v, v # "None",
             SetTask(t, g, k, v), outcome' = outcome, delivered \subseteq delivered',
             watchdog[t] # "None", v = "Delivered" => <<t, g>> \in delivered'
      PROVE  TaskOf(s, f)'
  <2>1. task'[t][g][k] = v /\ \A m \in 1..MaxAttempts : m # k => task'[t][g][m] = task[t][g][m]
    BY <1>3, TaskSet
  <2>2. ~(s = t /\ f = g) => task'[s][f] = task[s][f]
    BY <1>3, TaskOther
  <2> SUFFICES ASSUME NEW n \in 1..MaxAttempts
               PROVE  /\ outcome'[s][f][n] = "Ok" => task'[s][f][n] # "None"
                      /\ task'[s][f][n] # "None" => watchdog'[s] # "None"
                      /\ task'[s][f][n] = "Delivered" => <<s, f>> \in delivered'
    BY DEF TaskOf
  <2>3. CASE s = t /\ f = g /\ n = k
    BY <1>1, <1>3, <2>1, <2>3
  <2>4. CASE ~(s = t /\ f = g /\ n = k)
    BY <1>0, <1>1, <1>3, <2>1, <2>2, <2>4 DEF TaskOf
  <2> QED BY <2>3, <2>4
<1>4. CASE HandleFileUpload
  <2>0. PICK t \in Session, g \in File : t = events[1].session /\ g = events[1].file
    BY <1>0, <1>4, TakenEvent DEF HandleFileUpload, EventLoop, Takes
  <2>1. PICK k \in 1..MaxAttempts : k = attempts[t][g]
    BY <1>4, <2>0, ArrivingIsKnown
  <2>2. /\ watchdog[t] # "None" /\ outcome' = outcome /\ delivered' = delivered
        /\ task' = task \/ SetTask(t, g, k, "Waiting")
    BY <1>0, <1>4, <2>0, <2>1, ArrivingIsKnown, TakenEvent DEF HandleFileUpload, SetTask, EventLoop
  <2> QED BY <1>2, <1>3, <2>2
<1>5. ASSUME NEW t \in Session, NEW g \in File, NEW n \in 1..MaxAttempts, ResultTask(t, g, n)
      PROVE  TaskOf(s, f)'
  <2>1. PICK to \in {"Delivered", "Done"} :
          /\ SetTask(t, g, n, to) /\ task[t][g][n] # "None"
          /\ outcome' = outcome /\ delivered \subseteq delivered'
          /\ to = "Delivered" => <<t, g>> \in delivered'
    BY <1>5 DEF ResultTask, DeliverFile, ReportFile, ReportFailure, TaskStep, SetTask, serverVars
  <2>2. watchdog[t] # "None"
    BY <2>1 DEF SessionInv, TaskOf
  <2> QED BY <1>3, <2>1, <2>2
<1>6. CASE \/ DeclineOffer \/ HandlePrepareUpload \/ HandleSessionEnd \/ HandleAborted
           \/ \E choice \in {"Accept", "Reject"} : DecidePending(choice)
           \/ \E t \in Session : DecisionTask(t) \/ WatchdogExpires(t) \/ WatchdogCleans(t)
  <2>1. task' = task /\ outcome' = outcome /\ delivered' = delivered
    BY <1>6 DEF DeclineOffer, HandlePrepareUpload, HandleSessionEnd, HandleAborted, DecidePending,
                DecisionTask, WatchdogExpires, WatchdogCleans, appVars, serverVars
  <2> QED BY <1>2, <2>1
<1> QED BY <1>4, <1>5, <1>6 DEF AppNext, EventLoop

LEMMA SessionStep ==
  ASSUME ServerInv, AppTypes, EventInv, FileFacts, SessionInv, [Next]_vars
  PROVE  SessionInv'
<1>1. CASE ServerStep /\ UNCHANGED appVars
  BY <1>1, SessionServer, TaskServer DEF SessionInv
<1>2. CASE AppNext
  BY <1>2, SessionApp, TaskApp DEF SessionInv
<1>3. CASE UNCHANGED vars
  BY <1>3 DEF vars, serverVars, appVars, SessionInv, SessionOf, TaskOf, Booked
<1> QED BY <1>1, <1>2, <1>3 DEF Next, AppNext

(***************************************************************************)
(* The entries                                                             *)
(***************************************************************************)
EntryStatus == {"Waiting", "Receiving", "Completed", "Failed"}
Listed(s, f, st) ==
  \E i \in 1..Len(incoming) :
    incoming[i].session = s /\ incoming[i].file = f /\ incoming[i].status = st

LEMMA EntryTypes ==
  ASSUME incoming \in Seq(Entry), NEW i \in 1..Len(incoming)
  PROVE  /\ incoming[i].session \in Session /\ incoming[i].file \in File
         /\ incoming[i].status \in EntryStatus
<1>1. incoming[i] \in Entry
  OBVIOUS
<1> QED BY <1>1 DEF Entry, EntryStatus

LEMMA ListedAfterSet ==
  ASSUME incoming \in Seq(Entry), NEW t \in Session, NEW g \in File, NEW new \in EntryStatus,
         SetEntry(t, g, new)
  PROVE  /\ incoming' \in Seq(Entry)
         /\ \A s \in Session, f \in File, st \in EntryStatus : Listed(s, f, st)' =>
              IF s = t /\ f = g THEN st = new /\ \E old \in EntryStatus : Listed(t, g, old)
              ELSE Listed(s, f, st)
<1>1. /\ incoming' \in Seq(Entry) /\ Len(incoming') = Len(incoming)
      /\ \A i \in 1..Len(incoming) :
           /\ incoming'[i].session = incoming[i].session
           /\ incoming'[i].file = incoming[i].file
           /\ incoming'[i].status = IF incoming[i].session = t /\ incoming[i].file = g THEN new
                                    ELSE incoming[i].status
  BY SetEffect DEF EntryStatus
<1> QED BY <1>1, EntryTypes DEF Listed

LEMMA ListedAfterFail ==
  ASSUME incoming \in Seq(Entry), NEW t \in Session, FailIncomplete(t)
  PROVE  /\ incoming' \in Seq(Entry)
         /\ \A s \in Session, f \in File, st \in EntryStatus : Listed(s, f, st)' =>
              \E old \in EntryStatus :
                /\ Listed(s, f, old)
                /\ st = IF s = t /\ old \in Incomplete THEN "Failed" ELSE old
<1>1. /\ incoming' \in Seq(Entry) /\ Len(incoming') = Len(incoming)
      /\ \A i \in 1..Len(incoming) :
           /\ incoming'[i].session = incoming[i].session
           /\ incoming'[i].file = incoming[i].file
           /\ incoming'[i].status =
                IF incoming[i].session = t /\ incoming[i].status \in Incomplete THEN "Failed"
                ELSE incoming[i].status
  BY FailEffect
<1> QED BY <1>1, EntryTypes DEF Listed

LEMMA ListedAfterAdd ==
  ASSUME incoming \in Seq(Entry), NEW t \in Session, AddEntries(t)
  PROVE  /\ incoming' \in Seq(Entry)
         /\ \A s \in Session, f \in File, st \in EntryStatus : Listed(s, f, st)' =>
              Listed(s, f, st) \/ (s = t /\ st = "Waiting" /\ f \in Offer[t])
<1>1. /\ incoming' \in Seq(Entry)
      /\ \A j \in 1..Len(incoming') :
           \/ \E i \in 1..Len(incoming) : incoming'[j] = incoming[i]
           \/ /\ incoming'[j].session = t /\ incoming'[j].status = "Waiting"
              /\ incoming'[j].file \in Offer[t]
  BY AddEffect
<1> QED BY <1>1 DEF Listed

Watched(s) == watchdog[s] \in {"Armed", "Cancelling"}
Untouched(s, f) == \A n \in 1..MaxAttempts : task[s][f][n] = "None"
Busy(s, f) == \E n \in 1..MaxAttempts : task[s][f][n] \in {"Waiting", "Delivered"}

\* What an entry's status says of its file.
EntryOf(s, f, st) ==
  /\ watchdog[s] # "None" /\ f \in Offer[s]
  /\ st = "Completed" => <<s, f>> \in delivered
  /\ st = "Waiting" => Untouched(s, f) /\ (Watched(s) \/ status[s][f] = "Failed")
  /\ st = "Receiving" => Busy(s, f)
EntriesTrue ==
  \A s \in Session, f \in File, st \in EntryStatus : Listed(s, f, st) => EntryOf(s, f, st)
\* Entries of the same file agree.
EntriesAgree ==
  \A s \in Session, f \in File, old, new \in EntryStatus :
    Listed(s, f, old) /\ Listed(s, f, new) => old = new
ListInv == incoming \in Seq(Entry) /\ EntriesTrue /\ EntriesAgree

\* An entry stays true as long as nothing is taken back.
EntryCalm(s, f, st) ==
  /\ watchdog[s] # "None" => watchdog'[s] # "None"
  /\ delivered \subseteq delivered'
  /\ st = "Waiting" /\ Untouched(s, f) => Untouched(s, f)'
  /\ st = "Waiting" /\ (Watched(s) \/ status[s][f] = "Failed") => Watched(s)' \/ status'[s][f] = "Failed"
  /\ st = "Receiving" /\ Busy(s, f) => Busy(s, f)'
LEMMA EntryStays ==
  ASSUME NEW s, NEW f, NEW st, EntryOf(s, f, st), EntryCalm(s, f, st)
  PROVE  EntryOf(s, f, st)'
BY DEF EntryOf, EntryCalm, Watched, Busy

\* Nothing of the list changes.
LEMMA ListCalm ==
  ASSUME ListInv, incoming' = incoming,
         \A s \in Session, f \in File, st \in EntryStatus :
           Listed(s, f, st) => EntryCalm(s, f, st)
  PROVE  ListInv'
<1>1. \A s \in Session, f \in File, st \in EntryStatus : Listed(s, f, st)' <=> Listed(s, f, st)
  BY DEF Listed
<1>2. EntriesTrue'
  BY <1>1, EntryStays DEF ListInv, EntriesTrue
<1> QED BY <1>1, <1>2 DEF ListInv, EntriesAgree

\* The entries are failed for the session t, and nothing else is taken back.
LEMMA ListFails ==
  ASSUME ListInv, NEW t \in Session, FailIncomplete(t),
         \A s \in Session, f \in File, st \in EntryStatus :
           Listed(s, f, st) /\ (s # t \/ st \notin Incomplete) => EntryCalm(s, f, st),
         watchdog[t] # "None" => watchdog'[t] # "None"
  PROVE  ListInv'
<1>1. /\ incoming' \in Seq(Entry)
      /\ \A s \in Session, f \in File, st \in EntryStatus : Listed(s, f, st)' =>
           \E old \in EntryStatus :
             /\ Listed(s, f, old)
             /\ st = IF s = t /\ old \in Incomplete THEN "Failed" ELSE old
  BY ListedAfterFail DEF ListInv
<1>2. ASSUME NEW s \in Session, NEW f \in File, NEW st \in EntryStatus, Listed(s, f, st)'
      PROVE  EntryOf(s, f, st)'
  <2>1. PICK old \in EntryStatus :
          Listed(s, f, old) /\ st = IF s = t /\ old \in Incomplete THEN "Failed" ELSE old
    BY <1>1, <1>2
  <2>2. EntryOf(s, f, old)
    BY <2>1 DEF ListInv, EntriesTrue
  <2>3. CASE s = t /\ old \in Incomplete
    BY <2>1, <2>2, <2>3 DEF EntryOf
  <2>4. CASE ~(s = t /\ old \in Incomplete)
    <3>1. st = old /\ EntryCalm(s, f, st)
      BY <2>1, <2>4
    <3> QED BY <2>2, <3>1, EntryStays
  <2> QED BY <2>3, <2>4
<1>3. ASSUME NEW s \in Session, NEW f \in File, NEW st \in EntryStatus, NEW other \in EntryStatus,
             Listed(s, f, st)', Listed(s, f, other)'
      PROVE  st = other
  <2>1. PICK old \in EntryStatus :
          Listed(s, f, old) /\ st = IF s = t /\ old \in Incomplete THEN "Failed" ELSE old
    BY <1>1, <1>3
  <2>2. PICK old2 \in EntryStatus :
          Listed(s, f, old2) /\ other = IF s = t /\ old2 \in Incomplete THEN "Failed" ELSE old2
    BY <1>1, <1>3
  <2>3. old = old2
    BY <2>1, <2>2 DEF ListInv, EntriesAgree
  <2> QED BY <2>1, <2>2, <2>3
<1> QED BY <1>1, <1>2, <1>3 DEF ListInv, EntriesTrue, EntriesAgree

\* The entries of one file get a new status, and nothing else is taken back.
LEMMA ListSets ==
  ASSUME ListInv, NEW t \in Session, NEW g \in File, NEW new \in EntryStatus, SetEntry(t, g, new),
         \A s \in Session, f \in File, st \in EntryStatus :
           Listed(s, f, st) /\ ~(s = t /\ f = g) => EntryCalm(s, f, st),
         watchdog[t] # "None" => watchdog'[t] # "None",
         new # "Waiting",
         new = "Completed" => <<t, g>> \in delivered',
         new = "Receiving" => Busy(t, g)'
  PROVE  ListInv'
<1>1. /\ incoming' \in Seq(Entry)
      /\ \A s \in Session, f \in File, st \in EntryStatus : Listed(s, f, st)' =>
           IF s = t /\ f = g THEN st = new /\ \E old \in EntryStatus : Listed(t, g, old)
           ELSE Listed(s, f, st)
  BY ListedAfterSet DEF ListInv
<1>2. ASSUME NEW s \in Session, NEW f \in File, NEW st \in EntryStatus, Listed(s, f, st)'
      PROVE  EntryOf(s, f, st)'
  <2>1. CASE s = t /\ f = g
    <3>1. PICK old \in EntryStatus : Listed(t, g, old)
      BY <1>1, <1>2, <2>1
    <3>2. EntryOf(t, g, old) /\ st = new
      BY <1>1, <1>2, <2>1, <3>1 DEF ListInv, EntriesTrue
    <3> QED BY <2>1, <3>2 DEF EntryOf
  <2>2. CASE ~(s = t /\ f = g)
    <3>1. EntryOf(s, f, st) /\ EntryCalm(s, f, st)
      BY <1>1, <1>2, <2>2 DEF ListInv, EntriesTrue
    <3> QED BY <3>1, EntryStays
  <2> QED BY <2>1, <2>2
<1>3. EntriesAgree'
  BY <1>1 DEF ListInv, EntriesAgree
<1> QED BY <1>1, <1>2, <1>3 DEF ListInv, EntriesTrue

\* A request is listed of which there was no entry.
LEMMA ListAdds ==
  ASSUME ListInv, NEW t \in Session, AddEntries(t), watchdog[t] = "None", watchdog'[t] = "Armed",
         \A f \in File : Untouched(t, f)',
         \A s \in Session, f \in File, st \in EntryStatus : s # t => EntryCalm(s, f, st)
  PROVE  ListInv'
<1>1. /\ incoming' \in Seq(Entry)
      /\ \A s \in Session, f \in File, st \in EntryStatus : Listed(s, f, st)' =>
           Listed(s, f, st) \/ (s = t /\ st = "Waiting" /\ f \in Offer[t])
  BY ListedAfterAdd DEF ListInv
<1>2. \A f \in File, st \in EntryStatus : ~Listed(t, f, st)
  BY DEF ListInv, EntriesTrue, EntryOf
<1>3. ASSUME NEW s \in Session, NEW f \in File, NEW st \in EntryStatus, Listed(s, f, st)'
      PROVE  EntryOf(s, f, st)'
  <2>1. CASE s = t
    <3>1. st = "Waiting" /\ f \in Offer[t]
      BY <1>1, <1>2, <1>3, <2>1
    <3> QED BY <2>1, <3>1 DEF EntryOf, Watched
  <2>2. CASE s # t
    <3>1. EntryOf(s, f, st) /\ EntryCalm(s, f, st)
      BY <1>1, <1>3, <2>2 DEF ListInv, EntriesTrue
    <3> QED BY <3>1, EntryStays
  <2> QED BY <2>1, <2>2
<1>4. EntriesAgree'
  BY <1>1, <1>2 DEF ListInv, EntriesAgree
<1> QED BY <1>1, <1>3, <1>4 DEF ListInv, EntriesTrue

\* A session that ends finished leaves a waiting entry only for a file it never heard of.
LEMMA FinishedSession ==
  ASSUME ServerInv, FileFacts, SessionInv, events # <<>>, NEW t \in Session,
         IsFinished(events[1], t), NEW f \in Offer[t], Untouched(t, f)
  PROVE  status[t][f] = "Failed"
<1>1. 1 \in 1..Len(events) /\ f \in File
  BY OfferedFiles DEF ServerInv, ServerTypeOK
<1>2. prep[t] = "Ready" /\ Booked(t)
  BY <1>1 DEF SessionInv, SessionOf
<1>3. status[t][f] \in {"Finished", "Failed"}
  BY <1>1, <1>2 DEF SessionInv, SessionOf, Booked, Final
<1>4. status[t][f] # "Finished"
  <2> SUFFICES ASSUME status[t][f] = "Finished"
               PROVE  FALSE
    OBVIOUS
  <2>1. attempts[t][f] \in 1..MaxAttempts /\ outcome[t][f][attempts[t][f]] = "Ok"
    BY <1>1 DEF FileFacts, UploadFacts, ServerInv, ServerTypeOK
  <2> QED BY <1>1, <2>1 DEF SessionInv, TaskOf, Untouched
<1> QED BY <1>3, <1>4

LEMMA ListServer ==
  ASSUME ServerInv, SessionInv, ListInv, ServerStep, UNCHANGED appVars
  PROVE  ListInv'
<1>1. ASSUME NEW s \in Session, NEW f \in File, NEW st \in EntryStatus
      PROVE  EntryCalm(s, f, st)
  <2>1. status[s][f] = "Failed" => status'[s][f] = "Failed"
    BY ReadyStays DEF ServerInv, FileInv, SessionStages, ServerNext, Final
  <2> QED BY <2>1 DEF EntryCalm, appVars, Watched, Untouched, Busy
<1> QED BY <1>1, ListCalm DEF appVars

LEMMA ListLoop ==
  ASSUME ServerInv, AppTypes, EventInv, FileFacts, SessionInv, ListInv, EventLoop
  PROVE  ListInv'
<1>0. ServerTypeOK
  BY DEF ServerInv
<1> DEFINE h == events[1].session
<1>1. /\ h \in Session /\ Head(events) = events[1] /\ 1 \in 1..Len(events)
      /\ events # <<>> /\ status' = status
  BY <1>0, TakenEvent
<1>2. PICK t \in Session : t = h
  BY <1>1
<1> HIDE DEF h
<1>3. CASE DeclineOffer
  BY <1>1, <1>3, ListCalm DEF DeclineOffer, appVars, EntryCalm, Watched, Untouched, Busy
<1>4. CASE HandlePrepareUpload
  <2>1. /\ AddEntries(t) /\ watchdog' = [watchdog EXCEPT ![t] = "Armed"]
        /\ task' = task /\ delivered' = delivered /\ IsPrepare(events[1], t)
    BY <1>1, <1>2, <1>4 DEF HandlePrepareUpload, Takes, h, IsPrepare
  <2>2. watchdog[t] = "None"
    BY <1>1, <2>1 DEF EventInv, EventsOf
  <2>3. \A f \in File : Untouched(t, f)'
    BY <2>1, <2>2 DEF SessionInv, TaskOf, Untouched
  <2>4. watchdog'[t] = "Armed" /\ \A s \in Session : s # t => watchdog'[s] = watchdog[s]
    BY <2>1 DEF AppTypes
  <2>5. \A s \in Session, f \in File, st \in EntryStatus : s # t => EntryCalm(s, f, st)
    BY <1>1, <2>1, <2>4 DEF EntryCalm, Watched, Untouched, Busy
  <2> QED BY <2>1, <2>2, <2>3, <2>4, <2>5, ListAdds
<1>5. CASE HandleFileUpload
  <2>1. PICK g \in File : g = events[1].file
    BY <1>0, <1>5, TakenEvent DEF HandleFileUpload, EventLoop, Takes
  <2>2. PICK k \in 1..MaxAttempts : k = attempts[t][g]
    BY <1>2, <1>5, <2>1, ArrivingIsKnown DEF h
  <2>3. /\ watchdog' = watchdog /\ delivered' = delivered
        /\ \/ SetEntry(t, g, "Failed") /\ task' = task
           \/ SetEntry(t, g, "Receiving") /\ SetTask(t, g, k, "Waiting")
    BY <1>1, <1>2, <1>5, <2>1, <2>2 DEF HandleFileUpload, h, SetTask
  <2>4. ASSUME NEW s \in Session, NEW f \in File, NEW st \in EntryStatus, ~(s = t /\ f = g)
        PROVE  EntryCalm(s, f, st)
    <3>1. task'[s][f] = task[s][f]
      BY <2>3, <2>4, TaskOther
    <3> QED BY <1>1, <2>3, <3>1 DEF EntryCalm, Watched, Untouched, Busy
  <2>5. SetTask(t, g, k, "Waiting") => Busy(t, g)'
    <3>1. SetTask(t, g, k, "Waiting") => task'[t][g][k] = "Waiting"
      BY TaskSet
    <3> QED BY <3>1 DEF Busy
  <2>6. /\ {"Failed", "Receiving"} \subseteq EntryStatus
        /\ \A s \in Session, f \in File, st \in EntryStatus :
             Listed(s, f, st) /\ ~(s = t /\ f = g) => EntryCalm(s, f, st)
    BY <2>4 DEF EntryStatus
  <2>7. SetEntry(t, g, "Failed") => ListInv'
    BY <2>3, <2>6, ListSets
  <2>8. SetEntry(t, g, "Receiving") /\ Busy(t, g)' => ListInv'
    BY <2>3, <2>6, ListSets
  <2> QED BY <2>3, <2>5, <2>7, <2>8
<1>6. CASE HandleSessionEnd \/ HandleAborted
  <2>1. /\ Forget(t) /\ task' = task /\ delivered' = delivered
        /\ FailIncomplete(t) \/ (incoming' = incoming /\ IsEnd(events[1], t)
                                   /\ events[1].reason # "Cancelled")
    BY <1>1, <1>2, <1>6 DEF HandleSessionEnd, HandleAborted, h, Takes, IsEnd
  <2>2. /\ watchdog[t] # "None" => watchdog'[t] # "None"
        /\ \A s \in Session : s # t => watchdog'[s] = watchdog[s]
    BY <2>1, ForgetEffect
  <2>3. ASSUME NEW s \in Session, NEW f \in File, NEW st \in EntryStatus,
               s # t \/ st # "Waiting" \/ (Untouched(t, f) => status[t][f] = "Failed")
        PROVE  (st = "Waiting" /\ ~Untouched(s, f)) \/ EntryCalm(s, f, st)
    BY <1>1, <2>1, <2>2, <2>3 DEF EntryCalm, Watched, Untouched, Busy
  <2>4. CASE FailIncomplete(t)
    <3>1. \A s \in Session, f \in File, st \in EntryStatus :
            Listed(s, f, st) /\ (s # t \/ st \notin Incomplete) => EntryCalm(s, f, st)
      BY <2>3 DEF Incomplete, ListInv, EntriesTrue, EntryOf
    <3> QED BY <2>2, <2>4, <3>1, ListFails
  <2>5. CASE incoming' = incoming /\ IsEnd(events[1], t) /\ events[1].reason # "Cancelled"
    <3>1. IsFinished(events[1], t)
      <4>1. events[1] \in Event
        BY <1>0, <1>1, TailEvents DEF ServerTypeOK
      <4> QED BY <2>5, <4>1 DEF Event, IsFinished, IsEnd
    <3>2. \A f \in Offer[t] : Untouched(t, f) => status[t][f] = "Failed"
      BY <1>1, <3>1, FinishedSession
    <3>3. \A s \in Session, f \in File, st \in EntryStatus :
            Listed(s, f, st) => EntryCalm(s, f, st)
      BY <2>3, <3>2 DEF ListInv, EntriesTrue, EntryOf
    <3> QED BY <2>5, <3>3, ListCalm
  <2> QED BY <2>1, <2>4, <2>5
<1> QED BY <1>3, <1>4, <1>5, <1>6 DEF EventLoop

LEMMA ListTasks ==
  ASSUME ServerInv, AppTypes, SessionInv, ListInv, NEW t \in Session, NEW g \in File,
         NEW n \in 1..MaxAttempts, ResultTask(t, g, n)
  PROVE  ListInv'
<1>1. PICK to \in {"Delivered", "Done"} :
        /\ SetTask(t, g, n, to) /\ task[t][g][n] \in {"Waiting", "Delivered"}
        /\ status' = status /\ watchdog' = watchdog /\ delivered \subseteq delivered'
        /\ \/ to = "Delivered" /\ incoming' = incoming
           \/ task[t][g][n] = "Delivered" /\ SetEntry(t, g, "Completed")
           \/ SetEntry(t, g, "Failed")
  BY DEF ResultTask, DeliverFile, ReportFile, ReportFailure, TaskStep, SetTask, serverVars
<1>2. ASSUME NEW s \in Session, NEW f \in File, NEW st \in EntryStatus, ~(s = t /\ f = g)
      PROVE  EntryCalm(s, f, st)
  <2>1. task'[s][f] = task[s][f]
    BY <1>1, <1>2, TaskOther
  <2> QED BY <1>1, <2>1 DEF EntryCalm, Watched, Untouched, Busy
<1>3. /\ {"Failed", "Completed"} \subseteq EntryStatus
      /\ \A s \in Session, f \in File, st \in EntryStatus :
           Listed(s, f, st) /\ ~(s = t /\ f = g) => EntryCalm(s, f, st)
  BY <1>2 DEF EntryStatus
<1>4. CASE to = "Delivered" /\ incoming' = incoming
  <2>1. task'[t][g][n] = "Delivered"
    BY <1>1, <1>4, TaskSet
  <2>2. Busy(t, g)' /\ ~Untouched(t, g)
    BY <1>1, <2>1 DEF Busy, Untouched
  <2>3. \A st \in EntryStatus : EntryCalm(t, g, st)
    BY <1>1, <2>2 DEF EntryCalm, Watched
  <2>4. \A s \in Session, f \in File, st \in EntryStatus : EntryCalm(s, f, st)
    BY <1>2, <2>3
  <2> QED BY <1>4, <2>4, ListCalm
<1>5. CASE task[t][g][n] = "Delivered" /\ SetEntry(t, g, "Completed")
  <2>1. <<t, g>> \in delivered'
    BY <1>1, <1>5 DEF SessionInv, TaskOf
  <2> QED BY <1>1, <1>3, <1>5, <2>1, ListSets
<1>6. CASE SetEntry(t, g, "Failed")
  BY <1>1, <1>3, <1>6, ListSets
<1> QED BY <1>1, <1>4, <1>5, <1>6

LEMMA ListStep ==
  ASSUME ServerInv, AppTypes, EventInv, FileFacts, SessionInv, ListInv, [Next]_vars
  PROVE  ListInv'
<1>1. ASSUME NEW choice \in {"Accept", "Reject"}, DecidePending(choice)
      PROVE  ListInv'
  BY <1>1, ListCalm DEF DecidePending, serverVars, EntryCalm, Watched, Untouched, Busy
<1>2. ASSUME NEW t \in Session, DecisionTask(t)
      PROVE  ListInv'
  <2>1. /\ UNCHANGED <<status, task, delivered, watchdog>>
        /\ incoming' = incoming \/ FailIncomplete(t)
    BY <1>2 DEF DecisionTask
  <2>2. \A s \in Session, f \in File, st \in EntryStatus : EntryCalm(s, f, st)
    BY <2>1 DEF EntryCalm, Watched, Untouched, Busy
  <2>3. CASE incoming' = incoming
    BY <2>2, <2>3, ListCalm
  <2>4. CASE FailIncomplete(t)
    BY <2>1, <2>2, <2>4, ListFails
  <2> QED BY <2>1, <2>3, <2>4
<1>3. ASSUME NEW t \in Session, WatchdogExpires(t)
      PROVE  ListInv'
  <2>1. /\ UNCHANGED <<status, task, delivered, incoming>>
        /\ watchdog[t] = "Armed" /\ watchdog' = [watchdog EXCEPT ![t] = "Cancelling"]
    BY <1>3 DEF WatchdogExpires
  <2>2. \A s \in Session : /\ watchdog[s] # "None" => watchdog'[s] # "None"
                           /\ Watched(s) => Watched(s)'
    BY <2>1 DEF AppTypes, Watched
  <2>3. \A s \in Session, f \in File, st \in EntryStatus : EntryCalm(s, f, st)
    BY <2>1, <2>2 DEF EntryCalm, Untouched, Busy
  <2> QED BY <2>1, <2>3, ListCalm
<1>4. ASSUME NEW t \in Session, WatchdogCleans(t)
      PROVE  ListInv'
  <2>1. /\ UNCHANGED <<status, task, delivered>> /\ FailIncomplete(t)
        /\ watchdog' = [watchdog EXCEPT ![t] = "Expired"]
    BY <1>4 DEF WatchdogCleans, serverVars
  <2>2. /\ \A s \in Session : watchdog[s] # "None" => watchdog'[s] # "None"
        /\ \A s \in Session : s # t => watchdog'[s] = watchdog[s]
    BY <2>1 DEF AppTypes
  <2>3. \A s \in Session, f \in File, st \in EntryStatus :
          Listed(s, f, st) /\ (s # t \/ st \notin Incomplete) => EntryCalm(s, f, st)
    BY <2>1, <2>2 DEF EntryCalm, Watched, Untouched, Busy, Incomplete
  <2> QED BY <2>1, <2>2, <2>3, ListFails
<1>5. CASE UNCHANGED vars
  BY <1>5, ListCalm DEF vars, serverVars, appVars, EntryCalm, Watched, Untouched, Busy
<1> QED BY <1>1, <1>2, <1>3, <1>4, <1>5, ListServer, ListLoop, ListTasks DEF Next

\* Nothing but the report of an earlier attempt's failure takes a completed entry back.
Overtaken(s, f) == \E n \in 1..MaxAttempts : outcome[s][f][n] = "Err" /\ task[s][f][n] = "Waiting"
StaysCompleted ==
  \A i \in 1..Len(incoming) : incoming[i].status = "Completed" =>
    \A j \in 1..Len(incoming') :
      LET s == incoming[i].session
          f == incoming[i].file
      IN  incoming'[j].session = s /\ incoming'[j].file = f =>
            \/ incoming'[j].status = "Completed"
            \/ \E n \in 1..MaxAttempts : outcome[s][f][n] = "Err" /\ task[s][f][n] = "Waiting"

LEMMA CompletedStays ==
  ASSUME ServerInv, AppTypes, EventInv, FileFacts, SessionInv, ListInv, ListInv', [Next]_vars
  PROVE  StaysCompleted
<1>1. ASSUME NEW s \in Session, NEW f \in File, NEW st \in EntryStatus,
             Listed(s, f, "Completed"), Listed(s, f, st)', ~Overtaken(s, f)
      PROVE  st = "Completed"
  <2>0. /\ ServerTypeOK /\ EntryOf(s, f, "Completed") /\ "Completed" \in EntryStatus
        /\ \A old \in EntryStatus : Listed(s, f, old) => old = "Completed"
        /\ incoming \in Seq(Entry)
    BY <1>1 DEF ServerInv, ListInv, EntriesTrue, EntriesAgree, EntryStatus
  <2>1. <<s, f>> \in delivered /\ watchdog[s] # "None"
    BY <2>0 DEF EntryOf
  <2>2. /\ attempts[s][f] \in 1..MaxAttempts /\ outcome[s][f][attempts[s][f]] = "Ok"
        /\ task[s][f][attempts[s][f]] \in {"Delivered", "Done"}
        /\ \A n \in 1..MaxAttempts : outcome[s][f][n] = "Ok" => n = attempts[s][f]
    <3>1. UploadFacts(s, f) /\ TaskFacts(s, f)
      BY DEF FileFacts
    <3>2. attempts[s][f] \in 0..MaxAttempts
      BY <2>0 DEF ServerTypeOK
    <3> QED BY <2>1, <3>1, <3>2 DEF TaskFacts, UploadFacts
  <2>3. ASSUME incoming' = incoming PROVE st = "Completed"
    BY <1>1, <2>0, <2>3 DEF Listed
  <2>4. ASSUME NEW t \in Session, FailIncomplete(t) PROVE st = "Completed"
    <3>1. PICK old \in EntryStatus :
            Listed(s, f, old) /\ st = IF s = t /\ old \in Incomplete THEN "Failed" ELSE old
      BY <1>1, <2>0, <2>4, ListedAfterFail
    <3> QED BY <2>0, <3>1 DEF Incomplete
  <2>5. ASSUME NEW t \in Session, NEW g \in File, NEW new \in EntryStatus, SetEntry(t, g, new),
               s = t /\ f = g => new = "Completed"
        PROVE  st = "Completed"
    BY <1>1, <2>0, <2>5, ListedAfterSet
  <2>6. CASE EventLoop
    <3>1. PICK t \in Session : t = events[1].session /\ Head(events) = events[1] /\ 1 \in 1..Len(events)
      BY <2>0, <2>6, TakenEvent
    <3>2. CASE DeclineOffer \/ HandleSessionEnd \/ HandleAborted
      BY <2>3, <2>4, <3>1, <3>2 DEF DeclineOffer, HandleSessionEnd, HandleAborted, appVars
    <3>3. CASE HandlePrepareUpload
      <4>1. AddEntries(t) /\ IsPrepare(events[1], t)
        BY <3>1, <3>3 DEF HandlePrepareUpload, Takes, IsPrepare
      <4>2. watchdog[t] = "None"
        BY <3>1, <4>1 DEF EventInv, EventsOf
      <4> QED BY <1>1, <2>0, <2>1, <4>1, <4>2, ListedAfterAdd
    <3>4. CASE HandleFileUpload
      <4>1. PICK g \in File : g = events[1].file
        BY <2>0, <3>4, TakenEvent DEF HandleFileUpload, EventLoop, Takes
      <4>2. outcome[t][g][attempts[t][g]] # "Ok"
        BY <3>1, <3>4, <4>1, ArrivingIsKnown
      <4>3. PICK new \in EntryStatus : SetEntry(t, g, new)
        BY <3>1, <3>4, <4>1 DEF HandleFileUpload, EntryStatus
      <4> QED BY <2>2, <2>5, <4>2, <4>3
    <3> QED BY <2>6, <3>2, <3>3, <3>4 DEF EventLoop
  <2>7. ASSUME NEW t \in Session, NEW g \in File, NEW n \in 1..MaxAttempts, ResultTask(t, g, n)
        PROVE  st = "Completed"
    <3>1. CASE DeliverFile(t, g, n)
      BY <2>3, <3>1 DEF DeliverFile
    <3>2. CASE ReportFile(t, g, n)
      BY <2>0, <2>5, <3>2 DEF ReportFile
    <3>3. CASE ReportFailure(t, g, n)
      <4>1. /\ SetEntry(t, g, "Failed") /\ "Failed" \in EntryStatus /\ task[t][g][n] = "Waiting"
            /\ outcome[t][g][n] \in {"Err", "Ok"}
        BY <3>3 DEF ReportFailure, TaskStep, EntryStatus
      <4>2. ~(s = t /\ f = g)
        BY <1>1, <2>2, <4>1 DEF Overtaken
      <4> QED BY <2>5, <4>1, <4>2
    <3> QED BY <2>7, <3>1, <3>2, <3>3 DEF ResultTask
  <2>8. CASE \/ ServerStep /\ UNCHANGED appVars
             \/ \E choice \in {"Accept", "Reject"} : DecidePending(choice)
             \/ \E t \in Session : DecisionTask(t) \/ WatchdogExpires(t) \/ WatchdogCleans(t)
             \/ UNCHANGED vars
    BY <2>3, <2>4, <2>8 DEF DecidePending, DecisionTask, WatchdogExpires, WatchdogCleans, appVars, vars
  <2> QED BY <2>6, <2>7, <2>8 DEF Next
<1>2. \A i \in 1..Len(incoming) : incoming[i].session \in Session /\ incoming[i].file \in File
  BY EntryTypes DEF ListInv
<1>3. \A j \in 1..Len(incoming') : incoming'[j].status \in EntryStatus
  <2>1. ASSUME NEW j \in 1..Len(incoming') PROVE incoming'[j] \in Entry
    BY DEF ListInv
  <2> QED BY <2>1 DEF Entry, EntryStatus
<1> QED BY <1>1, <1>2, <1>3 DEF StaysCompleted, Listed, Overtaken
(***************************************************************************)
(* The theorems                                                            *)
(***************************************************************************)
ReceiverInv ==
  ServerInv /\ AppTypes /\ EventInv /\ PromptInv /\ FileFacts /\ SessionInv /\ ListInv

LEMMA ReceiverInvInit == ASSUME Init PROVE ReceiverInv
<1>1. ServerInv
  BY ServerInvInit DEF Init
<1>2. AppTypes
  BY DEF Init, AppTypes, Response, Watchdog, TaskState
<1>3. EventInv /\ PromptInv
  BY ServerAssumption DEF Init, ServerInit, EventInv, EventsOf, PromptInv, PromptIsBacked,
     NoOrphanedDecision, Selecting
<1>4. FileFacts
  BY DEF Init, ServerInit, FileFacts, UploadFacts, ChannelFacts, TaskFacts, InChannel, OnceInChannel
<1>5. SessionInv
  <2>1. \A s \in Session, f \in File, n \in 1..MaxAttempts :
          task[s][f][n] = "None" /\ outcome[s][f][n] = "None"
    BY DEF Init, ServerInit
  <2>2. \A s \in Session : prep[s] = "Idle" /\ Len(events) = 0
    BY DEF Init, ServerInit
  <2>3. ASSUME NEW s \in Session PROVE SessionOf(s)
    BY <2>2 DEF SessionOf
  <2>4. ASSUME NEW s \in Session, NEW f \in File PROVE TaskOf(s, f)
    BY <2>1 DEF TaskOf
  <2> QED BY <2>3, <2>4 DEF SessionInv
<1>6. ListInv
  BY DEF Init, ListInv, EntriesTrue, EntriesAgree, Listed
<1> QED BY <1>1, <1>2, <1>3, <1>4, <1>5, <1>6 DEF ReceiverInv

LEMMA ReceiverInvStep == ASSUME ReceiverInv, [Next]_vars PROVE ReceiverInv'
<1> USE DEF ReceiverInv
<1>1. ServerTypeOK
  BY DEF ServerInv
<1>2. ServerInv'
  BY <1>1, NextIsAllowed, ServerInvStep
<1>3. AppTypes' /\ PromptInv'
  BY <1>1, AppTypesStep, PromptStep
<1>4. EventInv'
  <2>1. CASE ServerStep /\ UNCHANGED appVars
    BY <2>1, EventsServer
  <2>2. CASE AppNext
    BY <1>1, <2>2, EventsApp DEF PromptInv
  <2>3. CASE UNCHANGED vars
    <3>1. EventCalm /\ UNCHANGED events
      BY <2>3 DEF vars, serverVars, appVars, EventCalm
    <3> QED BY <3>1, CalmEvents
  <2> QED BY <2>1, <2>2, <2>3 DEF Next, AppNext
<1>5. FileFacts'
  BY FactsStep
<1>6. SessionInv' /\ ListInv'
  BY SessionStep, ListStep
<1> QED BY <1>2, <1>3, <1>4, <1>5, <1>6

\* The invariant of the receiver: that of the server, of the channel, of the prompt, of the
\* upload attempts, of the sessions the application knows and of the entries it lists.
THEOREM ReceiverInvariant == Spec => []ReceiverInv
BY ReceiverInvInit, ReceiverInvStep, PTL DEF Spec

\* Event loop, decision tasks and watchdogs only do what the server allows an application
\* to do, so every theorem about ServerSpec holds of the receiver.
THEOREM ReceiverImplementsServer == Spec => ImplementsServer
<1>1. Init => ServerInit
  BY DEF Init
<1>2. ReceiverInv /\ [Next]_vars => [ServerNext]_serverVars
  BY NextIsAllowed DEF ReceiverInv, ServerInv
<1> QED BY <1>1, <1>2, ReceiverInvariant, PTL DEF Spec, ImplementsServer, ServerSpec

\* So one session at a time has the slot, from its own claim to its own end, whatever the
\* prompt, the decision tasks and the watchdogs of the application do.
THEOREM ReceiverImplementsSlot == Spec => SlotRefinement
BY ReceiverImplementsServer, ServerImplementsSlot, PTL DEF ImplementsServer

\* And claims, uploads and finished sessions are owned as the server promises, and the
\* events that run_events takes from the channel are in order.
THEOREM ReceiverKeepsServer ==
  Spec => [](ClaimOwned /\ UploadOwned /\ NoFinishedHolder /\ FinishedIsQuiet /\ ChannelOrder)
BY ReceiverImplementsServer, ClaimIsOwned, UploadIsOwned, SlotHolderIsUnfinished,
   FinishedSessionIsQuiet, EventsInOrder, PTL DEF ImplementsServer

\* A prompt on offer can be answered, and a watchdog will withdraw it if nobody else does
\* (pending_transfer and session_watchdog).
THEOREM PromptsAreBacked == Spec => []PromptIsBacked
<1>1. ReceiverInv => PromptIsBacked
  BY DEF ReceiverInv, PromptInv
<1> QED BY <1>1, ReceiverInvariant, PTL

\* No decision task waits for a prompt that is gone.
THEOREM DecisionsAreAwaited == Spec => []NoOrphanedDecision
<1>1. ReceiverInv => NoOrphanedDecision
  BY DEF ReceiverInv, PromptInv
<1> QED BY <1>1, ReceiverInvariant, PTL

\* Unless the idle timeout strikes an acceptance on its way, the active session has a
\* watchdog: a sender that vanishes does not keep the slot.
THEOREM ActiveSessionIsWatched ==
  ASSUME ~RacingExpiry
  PROVE  Spec => []ActiveIsWatched
<1>1. Init => WatchInv
  BY DEF Init, ServerInit, WatchInv, WatchedSession, Free, Active
<1>2. ReceiverInv /\ WatchInv /\ [Next]_vars => WatchInv'
  BY WatchStep DEF ReceiverInv
<1>3. WatchInv => ActiveIsWatched
  BY DEF WatchInv, WatchedSession, ActiveIsWatched
<1> QED BY <1>1, <1>2, <1>3, ReceiverInvariant, PTL DEF Spec

\* The prompt of a request that still waits goes only by the user's decision or its own
\* timeout, never by another request's prompt or end.
THEOREM LivePromptsStay == Spec => LivePromptKept
<1>1. ReceiverInv /\ [Next]_vars => [PromptKept]_vars
  BY PromptKeptStep DEF ReceiverInv
<1> QED BY <1>1, ReceiverInvariant, PTL DEF Spec, LivePromptKept, PromptKept

\* A file is delivered and put into the history once, however often its upload is retried.
THEOREM FilesAreDeliveredOnce == Spec => DeliveredOnce
<1> DEFINE Once == \A s \in Session, f \in File, n \in 1..MaxAttempts :
                     DeliverFile(s, f, n) => <<s, f>> \notin delivered
<1>1. ReceiverInv => Once
  <2> SUFFICES ASSUME ReceiverInv, NEW s \in Session, NEW f \in File, NEW n \in 1..MaxAttempts,
                      DeliverFile(s, f, n), <<s, f>> \in delivered
               PROVE  FALSE
    OBVIOUS
  <2>1. outcome[s][f][n] = "Ok" /\ task[s][f][n] = "Waiting"
    BY DEF DeliverFile, TaskStep
  <2>2. UploadFacts(s, f) /\ TaskFacts(s, f)
    BY DEF ReceiverInv, FileFacts
  <2>3. n = attempts[s][f]
    BY <2>1, <2>2 DEF UploadFacts
  <2> QED BY <2>1, <2>2, <2>3 DEF TaskFacts
<1> HIDE DEF Once
<1>2. ReceiverInv /\ [Next]_vars => [Once]_vars
  BY <1>1
<1> QED BY <1>2, ReceiverInvariant, PTL DEF Spec, DeliveredOnce, Once

\* On a disk that does not fail, a file whose upload was answered with 200 is in the
\* history, or its result task is still about to put it there.
THEOREM FinishedFilesAreDelivered ==
  ASSUME ~DiskMayFail
  PROVE  Spec => []FinishedIsDelivered
<1>1. ReceiverInv => FinishedIsDelivered
  <2> SUFFICES ASSUME ReceiverInv, NEW s \in Session, NEW f \in File, status[s][f] = "Finished"
               PROVE  <<s, f>> \in delivered \/ \E n \in 1..MaxAttempts : task[s][f][n] = "Waiting"
    BY DEF FinishedIsDelivered
  <2>1. UploadFacts(s, f) /\ TaskFacts(s, f) /\ attempts[s][f] \in 0..MaxAttempts
    BY DEF ReceiverInv, FileFacts, ServerInv, ServerTypeOK
  <2>2. attempts[s][f] \in 1..MaxAttempts /\ outcome[s][f][attempts[s][f]] = "Ok"
    BY <2>1 DEF UploadFacts
  <2> QED BY <2>1, <2>2 DEF TaskFacts
<1> QED BY <1>1, ReceiverInvariant, PTL

\* What the application keeps has its types.
THEOREM ReceiverTypes == Spec => []ReceiverTypeOK
<1>1. ReceiverInv => ReceiverTypeOK
  BY DEF ReceiverInv, ServerInv, AppTypes, ListInv, ReceiverTypeOK
<1> QED BY <1>1, ReceiverInvariant, PTL

\* An open entry has a live watchdog or a result task that will close it, unless its upload
\* was dropped before the application could hear of it (incoming_transfers).
THEOREM OpenEntriesHaveOwners == Spec => []OpenEntriesAreOwned
<1>1. ReceiverInv => OpenEntriesAreOwned
  <2> SUFFICES ASSUME ReceiverInv, NEW i \in 1..Len(incoming),
                      NEW s \in Session, NEW f \in File, s = incoming[i].session,
                      f = incoming[i].file, incoming[i].status \in Incomplete
               PROVE  Responsible(s, f) \/ NeverHeardOf(s, f)
    BY EntryTypes DEF ReceiverInv, ListInv, OpenEntriesAreOwned
  <2>1. PICK st \in EntryStatus : st = incoming[i].status
    BY DEF Incomplete, EntryStatus
  <2>2. EntryOf(s, f, st)
    BY <2>1 DEF ReceiverInv, ListInv, EntriesTrue, Listed
  <2> QED BY <2>1, <2>2 DEF EntryOf, Watched, Untouched, Busy, Incomplete, Responsible,
                            NeverHeardOf
<1> QED BY <1>1, ReceiverInvariant, PTL

\* A completed entry stays completed, whatever ends, is aborted or times out; only the late
\* failure report of an earlier attempt overwrites it (update_incoming_result).
THEOREM CompletedEntriesStay == Spec => CompletedKept
<1>1. ReceiverInv /\ ReceiverInv' /\ [Next]_vars => [StaysCompleted]_vars
  BY CompletedStays DEF ReceiverInv
<1> QED BY <1>1, ReceiverInvariant, PTL DEF Spec, CompletedKept, StaysCompleted
=============================================================================

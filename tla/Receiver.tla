------------------------------ MODULE Receiver ------------------------------
(***************************************************************************)
(* The receiving application on top of the upload server: the event loop   *)
(* (run_events), the prompt shown to the user and its decision task, the   *)
(* idle watchdog of each session, the result task of each upload attempt   *)
(* and the list of incoming transfers.                                     *)
(*                                                                         *)
(* The event loop handles one event at a time; the decision tasks, the     *)
(* watchdogs, the result tasks and the control API run beside it.  A       *)
(* handler is one action: between its locks it touches nothing another     *)
(* task decides on.  The watchdog is two actions, because the slot it      *)
(* cancels and the prompt it withdraws are under different locks.          *)
(***************************************************************************)
EXTENDS UploadServer, FiniteSets, SequencesExt

CONSTANTS
  MaxIncoming,    \* MAX_INCOMING_FILES (100 in the program)
  Oversized,      \* requests that offer more than max_upload_bytes
  AutoAccept,     \* the values the auto-accept setting takes
  DiskMayFail,    \* may create_dir_all, hard_link or remove_file fail?
  RacingExpiry    \* may the idle timeout strike while an acceptance, or an
                  \* upload the loop has not seen, is on its way?

ASSUME ReceiverAssumption ==
  /\ MaxIncoming \in Nat \ {0}
  /\ Oversized \in SUBSET Session
  /\ \A s \in Session : IsFiniteSet(Offer[s])
  /\ AutoAccept \in (SUBSET BOOLEAN) \ {{}}
  /\ DiskMayFail \in BOOLEAN
  /\ RacingExpiry \in BOOLEAN

VARIABLES
  sessions,    \* the sessions the event loop keeps a SessionSender for
  pending,     \* pending_transfer: the session of the prompt
  response,    \* the user's response channel of each session
  watchdog,    \* the watchdog task of each session
  incoming,    \* incoming_transfers: the list of entries, oldest first
  task,        \* the result task of each upload attempt
  delivered    \* files moved to the destination and put into the history

appVars == <<sessions, pending, response, watchdog, incoming, task, delivered>>
vars    == <<serverVars, appVars>>

Response   == {"None", "Open", "Accept", "Reject", "Closed", "Done"}
Watchdog   == {"None", "Armed", "Stopped", "Cancelling", "Expired"}
TaskState  == {"None", "Waiting", "Delivered", "Done"}
Incomplete == {"Waiting", "Receiving"}
Entry == [session : Session, file : File,
          status : {"Waiting", "Receiving", "Completed", "Failed"}]

Init ==
  /\ ServerInit
  /\ sessions = {}
  /\ pending = NoSession
  /\ response = [s \in Session |-> "None"]
  /\ watchdog = [s \in Session |-> "None"]
  /\ incoming = <<>>
  /\ task = [s \in Session |-> [f \in File |-> [n \in 1..MaxAttempts |-> "None"]]]
  /\ delivered = {}

(***************************************************************************)
(* The incoming list                                                       *)
(***************************************************************************)

\* update_incoming_result, and the Receiving mark: whatever the status was.
SetEntry(s, f, new) ==
  incoming' = [i \in DOMAIN incoming |->
    IF incoming[i].session = s /\ incoming[i].file = f
    THEN [incoming[i] EXCEPT !.status = new] ELSE incoming[i]]

\* Mutant of FailIncomplete: every entry of the session fails.
FailAll(s) ==
  incoming' = [i \in DOMAIN incoming |->
    IF incoming[i].session = s THEN [incoming[i] EXCEPT !.status = "Failed"] ELSE incoming[i]]

\* fail_incomplete_session
FailIncomplete(s) ==
  incoming' = [i \in DOMAIN incoming |->
    IF incoming[i].session = s /\ incoming[i].status \in Incomplete
    THEN [incoming[i] EXCEPT !.status = "Failed"] ELSE incoming[i]]

\* Make room by draining the oldest entries, then append the new ones.
AddEntries(s) ==
  LET new    == [i \in 1..Cardinality(Offer[s]) |->
                   [session |-> s, file |-> SetToSeq(Offer[s])[i], status |-> "Waiting"]]
      excess == Len(incoming) + Len(new) - MaxIncoming
      drop   == IF excess <= 0 THEN 0
                ELSE IF excess < Len(incoming) THEN excess ELSE Len(incoming)
  IN  incoming' = SubSeq(incoming, drop + 1, Len(incoming)) \o new

(***************************************************************************)
(* The prompt.  Overwriting or withdrawing pending_transfer drops its      *)
(* response_tx.                                                            *)
(***************************************************************************)
ClosePrompt(responses) ==
  IF pending # NoSession /\ responses[pending] = "Open"
  THEN [responses EXCEPT ![pending] = "Closed"] ELSE responses

\* Mutant of ShowPrompt: the sender of the prompt before lives on.
ShowPromptLeaky(s) ==
  /\ response' = [response EXCEPT ![s] = "Open"]
  /\ pending' = s

ShowPrompt(s) ==
  /\ response' = [ClosePrompt(response) EXCEPT ![s] = "Open"]
  /\ pending' = s

\* Mutant of WithdrawPrompt: whatever prompt is on offer is withdrawn.
WithdrawAnyPrompt(s) ==
  /\ pending' = NoSession
  /\ response' = ClosePrompt(response)

WithdrawPrompt(s) ==
  IF pending = s
  THEN pending' = NoSession /\ response' = ClosePrompt(response)
  ELSE UNCHANGED <<pending, response>>

(***************************************************************************)
(* The event loop                                                          *)
(***************************************************************************)
Takes(type) ==
  /\ events # <<>>
  /\ Head(events).type = type
  /\ events' = Tail(events)

Refused(s) == s \in Oversized \/ Cardinality(Offer[s]) > MaxIncoming

\* Too much is offered: declined at once, and nothing is registered.
DeclineOffer ==
  /\ Takes("PrepareUpload")
  /\ LET s == Head(events).session IN
       /\ Refused(s)
       /\ Answered(s, "Declined", {})
  /\ UNCHANGED <<slot, cancelled, status, attempts, upload, outcome, ending>>
  /\ UNCHANGED appVars

\* The transfer is listed and watched, then accepted or put before the user.
HandlePrepareUpload ==
  /\ Takes("PrepareUpload")
  /\ LET s == Head(events).session IN
       /\ ~Refused(s)
       /\ AddEntries(s)
       /\ sessions' = sessions \union {s}
       /\ watchdog' = [watchdog EXCEPT ![s] = "Armed"]
       /\ \E auto \in AutoAccept :
            IF auto
            THEN Answered(s, "Accepted", Offer[s]) /\ UNCHANGED <<pending, response>>
            ELSE ShowPrompt(s) /\ UNCHANGED <<prep, answer>>
  /\ UNCHANGED <<slot, cancelled, status, attempts, upload, outcome, ending>>
  /\ UNCHANGED <<task, delivered>>

\* A file arrives: its result task is started and the server gets a path.
HandleFileUpload ==
  /\ Takes("FileUpload")
  /\ LET s == Head(events).session
         f == Head(events).file IN
       \/ /\ DiskMayFail
          /\ SetEntry(s, f, "Failed")
          /\ TargetGiven(s, f, "Refused")
          /\ UNCHANGED task
       \/ /\ SetEntry(s, f, "Receiving")
          /\ TargetGiven(s, f, "Saving")
          /\ task' = [task EXCEPT ![s][f][attempts[s][f]] = "Waiting"]
  /\ UNCHANGED <<slot, prep, cancelled, answer, status, attempts, outcome, ending>>
  /\ UNCHANGED <<sessions, pending, response, watchdog, delivered>>

\* Mutant of Forget: the prompt stays.
ForgetKeepsPrompt(s) ==
  /\ sessions' = sessions \ {s}
  /\ watchdog' = IF s \in sessions /\ watchdog[s] = "Armed"
                 THEN [watchdog EXCEPT ![s] = "Stopped"] ELSE watchdog
  /\ UNCHANGED <<pending, response>>

\* Forget a session: stop its watchdog and withdraw its prompt.
Forget(s) ==
  /\ sessions' = sessions \ {s}
  /\ watchdog' = IF s \in sessions /\ watchdog[s] = "Armed"
                 THEN [watchdog EXCEPT ![s] = "Stopped"] ELSE watchdog
  /\ WithdrawPrompt(s)

HandleSessionEnd ==
  /\ Takes("SessionEnd")
  /\ Forget(Head(events).session)
  /\ IF Head(events).reason = "Cancelled"
     THEN FailIncomplete(Head(events).session) ELSE UNCHANGED incoming
  /\ UNCHANGED <<slot, prep, cancelled, answer, status, attempts, upload, outcome, ending>>
  /\ UNCHANGED <<task, delivered>>

\* Mutant of HandleAborted: the entries stay open.
HandleAbortedKeepsEntries ==
  /\ Takes("PrepareUploadAborted")
  /\ Forget(Head(events).session)
  /\ UNCHANGED incoming
  /\ UNCHANGED <<slot, prep, cancelled, answer, status, attempts, upload, outcome, ending>>
  /\ UNCHANGED <<task, delivered>>

HandleAborted ==
  /\ Takes("PrepareUploadAborted")
  /\ Forget(Head(events).session)
  /\ FailIncomplete(Head(events).session)
  /\ UNCHANGED <<slot, prep, cancelled, answer, status, attempts, upload, outcome, ending>>
  /\ UNCHANGED <<task, delivered>>

EventLoop ==
  \/ DeclineOffer \/ HandlePrepareUpload \/ HandleFileUpload
  \/ HandleSessionEnd \/ HandleAborted

(***************************************************************************)
(* The user, the decision task, the watchdog                               *)
(***************************************************************************)

\* An acceptance, or an upload the event loop has not seen, is on its way.
InFlight(s) ==
  \/ response[s] = "Accept" \/ prep[s] = "Accepted"
  \/ \E f \in File : upload[s][f] = "Offering" \/ ~Taken(FileUpload(s, f))

\* Mutant of DecidePending: the answer stops the watchdog.
DecidePendingUnwatched(choice) ==
  /\ pending # NoSession
  /\ watchdog[pending] # "Cancelling"
  /\ response' = [response EXCEPT ![pending] = choice]
  /\ pending' = NoSession
  /\ watchdog' = [watchdog EXCEPT ![pending] = "Stopped"]
  /\ UNCHANGED serverVars
  /\ UNCHANGED <<sessions, incoming, task, delivered>>

\* POST /pending/{accept,reject}: decide_pending names no session, it takes whatever
\* is pending now.
DecidePending(choice) ==
  /\ pending # NoSession
  /\ RacingExpiry \/ choice = "Reject" \/ watchdog[pending] # "Cancelling"
  /\ response' = [response EXCEPT ![pending] = choice]
  /\ pending' = NoSession
  /\ UNCHANGED serverVars
  /\ UNCHANGED <<sessions, watchdog, incoming, task, delivered>>

\* The decision task passes the response on to the waiting request.
DecisionTask(s) ==
  /\ response[s] \in {"Accept", "Reject", "Closed"}
  /\ response' = [response EXCEPT ![s] = "Done"]
  /\ IF response[s] = "Accept"
     THEN Answered(s, "Accepted", Offer[s]) /\ UNCHANGED incoming
     ELSE Answered(s, "Declined", {}) /\ FailIncomplete(s)
  /\ UNCHANGED <<slot, cancelled, status, attempts, upload, outcome, ending, events>>
  /\ UNCHANGED <<sessions, pending, watchdog, task, delivered>>

\* Mutants of WatchdogExpires: it frees a pending claim too, or nothing.
WatchdogFreesClaim(s) ==
  /\ watchdog[s] = "Armed"
  /\ slot' = IF slot.id = s THEN Free ELSE slot
  /\ watchdog' = [watchdog EXCEPT ![s] = "Cancelling"]
  /\ UNCHANGED <<prep, cancelled, answer, status, attempts, upload, outcome, ending, events>>
  /\ UNCHANGED <<sessions, pending, response, incoming, task, delivered>>
WatchdogKeepsSession(s) ==
  /\ watchdog[s] = "Armed"
  /\ RacingExpiry \/ ~InFlight(s)
  /\ watchdog' = [watchdog EXCEPT ![s] = "Cancelling"]
  /\ UNCHANGED serverVars
  /\ UNCHANGED <<sessions, pending, response, incoming, task, delivered>>

\* 120 s without activity: first the server's session is cancelled ...
WatchdogExpires(s) ==
  /\ watchdog[s] = "Armed"
  /\ RacingExpiry \/ ~InFlight(s)
  /\ CancelV2Session(s)
  /\ watchdog' = [watchdog EXCEPT ![s] = "Cancelling"]
  /\ UNCHANGED <<prep, cancelled, answer, status, attempts, upload, outcome, ending, events>>
  /\ UNCHANGED <<sessions, pending, response, incoming, task, delivered>>

\* Mutant of WatchdogCleans: the prompt stays.
WatchdogKeepsPrompt(s) ==
  /\ watchdog[s] = "Cancelling"
  /\ watchdog' = [watchdog EXCEPT ![s] = "Expired"]
  /\ sessions' = sessions \ {s}
  /\ FailIncomplete(s)
  /\ UNCHANGED serverVars
  /\ UNCHANGED <<pending, response, task, delivered>>

\* ... then the session is forgotten, its prompt and its open entries closed.
WatchdogCleans(s) ==
  /\ watchdog[s] = "Cancelling"
  /\ watchdog' = [watchdog EXCEPT ![s] = "Expired"]
  /\ sessions' = sessions \ {s}
  /\ WithdrawPrompt(s)
  /\ FailIncomplete(s)
  /\ UNCHANGED serverVars
  /\ UNCHANGED <<task, delivered>>

(***************************************************************************)
(* The result task of attempt n of a file                                  *)
(***************************************************************************)
TaskStep(s, f, n, from, to) ==
  /\ task[s][f][n] = from
  /\ task' = [task EXCEPT ![s][f][n] = to]
  /\ UNCHANGED serverVars
  /\ UNCHANGED <<sessions, pending, response, watchdog>>

\* finalize_upload succeeds: the file has its final name and is in the history.
DeliverFile(s, f, n) ==
  /\ outcome[s][f][n] = "Ok"
  /\ TaskStep(s, f, n, "Waiting", "Delivered")
  /\ delivered' = delivered \union {<<s, f>>}
  /\ UNCHANGED incoming

ReportFile(s, f, n) ==
  /\ TaskStep(s, f, n, "Delivered", "Done")
  /\ SetEntry(s, f, "Completed")
  /\ UNCHANGED delivered

\* Mutant of ReportFailure: a task gives up with its session.
ReportForgotten(s, f, n) ==
  /\ outcome[s][f][n] = "Err" \/ s \notin sessions
  /\ TaskStep(s, f, n, "Waiting", "Done")
  /\ SetEntry(s, f, "Failed")
  /\ UNCHANGED delivered

\* The upload failed, its handler is gone, or finalize_upload fails.
ReportFailure(s, f, n) ==
  /\ outcome[s][f][n] = "Err" \/ (DiskMayFail /\ outcome[s][f][n] = "Ok")
  /\ TaskStep(s, f, n, "Waiting", "Done")
  /\ SetEntry(s, f, "Failed")
  /\ UNCHANGED delivered

ResultTask(s, f, n) == DeliverFile(s, f, n) \/ ReportFile(s, f, n) \/ ReportFailure(s, f, n)

Next ==
  \/ ServerStep /\ UNCHANGED appVars
  \/ EventLoop
  \/ \E choice \in {"Accept", "Reject"} : DecidePending(choice)
  \/ \E s \in Session : DecisionTask(s) \/ WatchdogExpires(s) \/ WatchdogCleans(s)
  \/ \E s \in Session, f \in File, n \in 1..MaxAttempts : ResultTask(s, f, n)

Spec == Init /\ [][Next]_vars

(***************************************************************************)
(* Fairness: the runtime polls every ready task, and a timer that nothing  *)
(* resets fires.  Uploads end the resets: each request starts finitely     *)
(* many uploads of finite files.  Nothing is assumed of senders or user.   *)
(***************************************************************************)
Fairness ==
  /\ WF_vars(EventLoop)
  /\ \A s \in Session :
       /\ WF_vars(PrepareProgress(s) /\ UNCHANGED appVars)
       /\ WF_vars(AnnounceEnd(s) /\ UNCHANGED appVars)
       /\ WF_vars(DecisionTask(s))
       /\ WF_vars(WatchdogExpires(s))
       /\ WF_vars(WatchdogCleans(s))
  /\ \A s \in Session, f \in File :
       /\ WF_vars((OfferFile(s, f) \/ FinishUpload(s, f) \/ FinalizeDropped(s, f))
                    /\ UNCHANGED appVars)
       /\ \A n \in 1..MaxAttempts : WF_vars(ResultTask(s, f, n))

FairSpec == Spec /\ Fairness

(***************************************************************************)
(* Properties                                                              *)
(***************************************************************************)
ReceiverTypeOK ==
  /\ ServerTypeOK
  /\ sessions \in SUBSET Session
  /\ pending \in Session \union {NoSession}
  /\ response \in [Session -> Response]
  /\ watchdog \in [Session -> Watchdog]
  /\ incoming \in Seq(Entry)
  /\ task \in [Session -> [File -> [1..MaxAttempts -> TaskState]]]
  /\ delivered \in SUBSET (Session \X File)

\* A prompt on offer is answerable and temporary: its decision task waits for
\* the answer, and a watchdog will withdraw it if nobody else does.
PromptIsBacked ==
  \A s \in Session : pending = s =>
    /\ response[s] = "Open"
    /\ s \in sessions
    /\ watchdog[s] \in {"Armed", "Cancelling"}

\* And no decision task waits for a prompt that is gone.
NoOrphanedDecision ==
  \A s \in Session : response[s] = "Open" => pending = s

\* The active session always has a watchdog, so that a sender that vanishes
\* cannot keep the slot from everybody else.
ActiveIsWatched ==
  \A s \in Session : slot = Active(s) => watchdog[s] = "Armed"

\* An open entry has somebody who will close it: the watchdog of its session or a
\* result task.  The one exception is a file that was offered while the channel was
\* full and whose upload was dropped: it failed without the application ever hearing
\* of it.
Responsible(s, f) ==
  \/ watchdog[s] \in {"Armed", "Cancelling"}
  \/ \E n \in 1..MaxAttempts : task[s][f][n] \in {"Waiting", "Delivered"}
NeverHeardOf(s, f) ==
  status[s][f] = "Failed" /\ \A n \in 1..MaxAttempts : task[s][f][n] = "None"
OpenEntriesAreOwned ==
  \A i \in 1..Len(incoming) :
    LET s == incoming[i].session
        f == incoming[i].file
    IN  incoming[i].status \in Incomplete => Responsible(s, f) \/ NeverHeardOf(s, f)

\* What the sender was told is true: a file that is Finished, so answered with
\* 200, and has no result task left is in the history.
FinishedIsDelivered ==
  \A s \in Session, f \in File :
    status[s][f] = "Finished" =>
      <<s, f>> \in delivered \/ \E n \in 1..MaxAttempts : task[s][f][n] = "Waiting"

\* A file is delivered once, even when its upload was retried.
DeliveredOnce ==
  [][\A s \in Session, f \in File, n \in 1..MaxAttempts :
       DeliverFile(s, f, n) => <<s, f>> \notin delivered]_vars

\* The prompt of a request that is still waiting vanishes only by the user's
\* decision or by its own watchdog; never through the end of another session
\* or another request's prompt.
LivePromptKept ==
  [][\A s \in Session :
       pending = s /\ pending' # s /\ prep[s] = "Deciding" =>
         response'[s] \in {"Accept", "Reject"} \/ watchdog[s] = "Cancelling"]_vars

\* Ends, aborts and timeouts of sessions leave completed entries alone; only the
\* late failure report of an earlier attempt at the same file overwrites one.
CompletedKept ==
  [][\A i \in 1..Len(incoming) : incoming[i].status = "Completed" =>
       \A j \in 1..Len(incoming') :
         LET s == incoming[i].session
             f == incoming[i].file
         IN  incoming'[j].session = s /\ incoming'[j].file = f =>
               \/ incoming'[j].status = "Completed"
               \/ \E n \in 1..MaxAttempts :
                    outcome[s][f][n] = "Err" /\ task[s][f][n] = "Waiting"]_vars

\* The slot never stays with one session: whatever sender and user do, or fail
\* to do, another sender gets its turn.
SlotTurnsFree == \A s \in Session : slot.id = s ~> slot = Free

\* The user is not left with a dead prompt.
PromptGoes == \A s \in Session : pending = s ~> pending # s

\* The receiver is a proper application of the upload server: all that is
\* proved of ServerSpec holds here.
ImplementsServer == ServerSpec
=============================================================================

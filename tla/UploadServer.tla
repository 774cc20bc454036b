---------------------------- MODULE UploadServer ----------------------------
(***************************************************************************)
(* The LocalSend v2 upload server: the single session slot, the            *)
(* prepare-upload, upload and cancel handlers with their drop guards, and  *)
(* the bounded channel on which the server reports to the application.     *)
(*                                                                         *)
(* Every handler is a future that the HTTP server drops when the sender's  *)
(* connection closes, at any await point.  A handler is modelled as a      *)
(* program counter that stands at its await points; the drop guards are    *)
(* tasks of their own that run after the drop.                             *)
(*                                                                         *)
(* Connection and sender behaviour is unconstrained: requests come in any  *)
(* number and order, connections close at any time.  The application is    *)
(* abstract here (AppStep); Receiver replaces it by the real one.          *)
(***************************************************************************)
EXTENDS Naturals, Sequences

CONSTANTS
  Session,           \* session identifiers; one per prepare-upload request
  NoSession,         \* "no session id"
  Peer,              \* sender addresses
  File,              \* file identifiers
  SenderOf,          \* the address each prepare-upload request comes from
  Offer,             \* the files each prepare-upload request offers
  EventCap,          \* capacity of the event channel (32 in the program)
  MaxAttempts,       \* MAX_UPLOAD_ATTEMPTS (3 in the program)
  DropWhileLocking   \* may a connection close while finish()/clear() waits
                     \* for the session lock, its guard already disarmed?

ASSUME ServerAssumption ==
  /\ NoSession \notin Session
  /\ SenderOf \in [Session -> Peer]
  /\ Offer \in [Session -> (SUBSET File) \ {{}}]
  /\ EventCap \in Nat \ {0}
  /\ MaxAttempts \in Nat \ {0}
  /\ DropWhileLocking \in BOOLEAN

VARIABLES
  slot,        \* the session slot: [phase, id]
  prep,        \* where each prepare-upload handler stands
  cancelled,   \* sessions whose cancellation token has fired
  answer,      \* the files the application accepted
  status,      \* status of each file of each session
  attempts,    \* upload requests started for each file
  upload,      \* where the upload handler of each file stands
  outcome,     \* what result_tx carried for each attempt
  ending,      \* how far the end of each session is announced
  events       \* the channel to the application

serverVars == <<slot, prep, cancelled, answer, status, attempts, upload,
                outcome, ending, events>>

Free       == [phase |-> "Free", id |-> NoSession]
Pending(s) == [phase |-> "Pending", id |-> s]
Active(s)  == [phase |-> "Active", id |-> s]
Slot       == {Free} \union [phase : {"Pending", "Active"}, id : Session]

SaveResult == {"Success", "Failed", "HashMismatch"}
FileStatus == {"Absent", "Pending", "InProgress", "Finished", "Failed"}
Final      == {"Finished", "Failed"}

\* prepare-upload: the await points, then what is left to do after them.
PrepState == {"Idle", "Offering", "Deciding", "Accepted", "Declined",
              "Unanswered", "Dropped", "Leaked", "Aborting", "Closed", "Ready"}
\* The handler, or the task of its drop guard, still owns the claim.
Owning    == {"Offering", "Deciding", "Accepted", "Declined", "Unanswered",
              "Dropped", "Leaked"}
\* The handler waits for the decision and watches the cancellation token.
Selecting == {"Deciding", "Accepted", "Declined", "Unanswered"}

UploadState == {"Idle", "Offering", "Waiting", "Saving", "Refused", "Dropped",
                "Leaked"} \union SaveResult

PrepareUpload(s)        == [type |-> "PrepareUpload", session |-> s]
PrepareUploadAborted(s) == [type |-> "PrepareUploadAborted", session |-> s]
FileUpload(s, f)        == [type |-> "FileUpload", session |-> s, file |-> f]
SessionEnd(s, r)        == [type |-> "SessionEnd", session |-> s, reason |-> r]
Event ==
  [type : {"PrepareUpload", "PrepareUploadAborted"}, session : Session]
    \union [type : {"FileUpload"}, session : Session, file : File]
    \union [type : {"SessionEnd"}, session : Session,
            reason : {"Finished", "Cancelled"}]

ServerInit ==
  /\ slot = Free
  /\ prep = [s \in Session |-> "Idle"]
  /\ cancelled = {}
  /\ answer = [s \in Session |-> {}]
  /\ status = [s \in Session |-> [f \in File |-> "Absent"]]
  /\ attempts = [s \in Session |-> [f \in File |-> 0]]
  /\ upload = [s \in Session |-> [f \in File |-> "Idle"]]
  /\ outcome = [s \in Session |-> [f \in File |-> [n \in 1..MaxAttempts |-> "None"]]]
  /\ ending = [s \in Session |-> "None"]
  /\ events = <<>>

(***************************************************************************)
(* The channel: send(...).await completes at once while there is room and  *)
(* otherwise leaves the future suspended, where a drop can hit it.         *)
(***************************************************************************)
HasRoom == Len(events) < EventCap
Emit(e) == HasRoom /\ events' = Append(events, e)

(***************************************************************************)
(* POST prepare-upload                                                     *)
(***************************************************************************)

\* Mutant of ClaimSlot: another request's claim does not count as busy.
ClaimSlotOverPending(s) ==
  /\ prep[s] = "Idle"
  /\ slot.phase # "Active"
  /\ slot' = Pending(s)
  /\ prep' = [prep EXCEPT ![s] = "Offering"]
  /\ UNCHANGED <<cancelled, answer, status, attempts, upload, outcome, ending, events>>

\* A request claims the free slot; any other request gets 409 and no state.
ClaimSlot(s) ==
  /\ prep[s] = "Idle"
  /\ slot = Free
  /\ slot' = Pending(s)
  /\ prep' = [prep EXCEPT ![s] = "Offering"]
  /\ UNCHANGED <<cancelled, answer, status, attempts, upload, outcome, ending, events>>

\* Mutant of OfferSession: the event is sent by a task that outlives the handler.
OfferSessionDetached(s) ==
  /\ prep[s] \in {"Offering", "Dropped", "Aborting"}
  /\ Emit(PrepareUpload(s))
  /\ prep' = IF prep[s] = "Offering" THEN [prep EXCEPT ![s] = "Deciding"] ELSE prep
  /\ UNCHANGED <<slot, cancelled, answer, status, attempts, upload, outcome, ending>>

OfferSession(s) ==
  /\ prep[s] = "Offering"
  /\ Emit(PrepareUpload(s))
  /\ prep' = [prep EXCEPT ![s] = "Deciding"]
  /\ UNCHANGED <<slot, cancelled, answer, status, attempts, upload, outcome, ending>>

\* clear_pending_session looks at no identifier: it frees any pending claim.
ClearPending == slot' = IF slot.phase = "Pending" THEN Free ELSE slot

\* Accepted with at least one file: the claim becomes the active session.
CreateSession(s) ==
  /\ prep[s] = "Accepted"
  /\ answer[s] # {}
  /\ slot' = Active(s)
  /\ status' = [status EXCEPT ![s] =
                  [f \in File |-> IF f \in answer[s] THEN "Pending" ELSE "Absent"]]
  /\ prep' = [prep EXCEPT ![s] = "Ready"]
  /\ UNCHANGED <<cancelled, answer, attempts, upload, outcome, ending, events>>

\* Declined (403), or nothing accepted (204): the guard is disarmed first and
\* the slot is cleared once the lock is granted.
NothingToReceive(s) ==
  \/ prep[s] = "Declined"
  \/ prep[s] = "Accepted" /\ answer[s] = {}

RefuseSession(s) ==
  /\ NothingToReceive(s)
  /\ ClearPending
  /\ prep' = [prep EXCEPT ![s] = "Closed"]
  /\ UNCHANGED <<cancelled, answer, status, attempts, upload, outcome, ending, events>>

\* The connection closes between the disarming and the lock.
LoseClaim(s) ==
  /\ DropWhileLocking
  /\ NothingToReceive(s)
  /\ prep' = [prep EXCEPT ![s] = "Leaked"]
  /\ UNCHANGED <<slot, cancelled, answer, status, attempts, upload, outcome, ending, events>>

\* The future ends with the guard armed: the connection closed, the decision
\* was dropped (500), or the cancellation token won the select (403).
Disconnected(s) == prep[s] \in Selecting \/ (prep[s] = "Offering" /\ ~HasRoom)
DecisionLost(s) == prep[s] = "Unanswered"
TokenWins(s)    == prep[s] \in Selecting /\ s \in cancelled

AbandonClaim(s) ==
  /\ prep' = [prep EXCEPT ![s] = "Dropped"]
  /\ UNCHANGED <<slot, cancelled, answer, status, attempts, upload, outcome, ending, events>>

DropPrepare(s)   == Disconnected(s) /\ AbandonClaim(s)
MissDecision(s)  == DecisionLost(s) /\ AbandonClaim(s)
ObserveCancel(s) == TokenWins(s) /\ AbandonClaim(s)

\* The task of the drop guard frees the slot, then tells the application.
ReleaseClaim(s) ==
  /\ prep[s] = "Dropped"
  /\ ClearPending
  /\ prep' = [prep EXCEPT ![s] = "Aborting"]
  /\ UNCHANGED <<cancelled, answer, status, attempts, upload, outcome, ending, events>>

AnnounceAbort(s) ==
  /\ prep[s] = "Aborting"
  /\ Emit(PrepareUploadAborted(s))
  /\ prep' = [prep EXCEPT ![s] = "Closed"]
  /\ UNCHANGED <<slot, cancelled, answer, status, attempts, upload, outcome, ending>>

(***************************************************************************)
(* POST upload                                                             *)
(***************************************************************************)

\* The request names the active session, comes from its address and carries
\* the token of a file that is still pending.
StartUpload(ip, s, f) ==
  /\ slot = Active(s)
  /\ ip = SenderOf[s]
  /\ status[s][f] = "Pending"
  /\ status' = [status EXCEPT ![s][f] = "InProgress"]
  /\ attempts' = [attempts EXCEPT ![s][f] = @ + 1]
  /\ upload' = [upload EXCEPT ![s][f] = "Offering"]
  /\ UNCHANGED <<slot, prep, cancelled, answer, outcome, ending, events>>

OfferFile(s, f) ==
  /\ upload[s][f] = "Offering"
  /\ Emit(FileUpload(s, f))
  /\ upload' = [upload EXCEPT ![s][f] = "Waiting"]
  /\ UNCHANGED <<slot, prep, cancelled, answer, status, attempts, outcome, ending>>

\* Mutant of SaveFile: the result is sent before the hash is compared.
SaveFileUnchecked(s, f, r) ==
  /\ upload[s][f] = "Saving"
  /\ upload' = [upload EXCEPT ![s][f] = r]
  /\ outcome' = [outcome EXCEPT ![s][f][attempts[s][f]] =
                   IF r = "Failed" THEN "Err" ELSE "Ok"]
  /\ UNCHANGED <<slot, prep, cancelled, answer, status, attempts, ending, events>>

\* The body is written and checked; the application learns the result on
\* result_tx before the server books it.
SaveFile(s, f, r) ==
  /\ upload[s][f] = "Saving"
  /\ upload' = [upload EXCEPT ![s][f] = r]
  /\ outcome' = [outcome EXCEPT ![s][f][attempts[s][f]] =
                   IF r = "Success" THEN "Ok" ELSE "Err"]
  /\ UNCHANGED <<slot, prep, cancelled, answer, status, attempts, ending, events>>

\* finalize_file: book the result and end the session with its last file.
FinalStatus(s, f, r) ==
  IF status[s][f] # "InProgress" THEN status[s][f]
  ELSE IF r = "Success" THEN "Finished"
  ELSE IF r = "HashMismatch" /\ attempts[s][f] < MaxAttempts THEN "Pending"
  ELSE "Failed"

\* Mutant of IsComplete: an upload that still runs does not hold the session.
IsCompleteEarly(s, files) == \A f \in File : files[s][f] # "Pending"

IsComplete(s, files) == \A f \in File : files[s][f] \in Final \union {"Absent"}

\* Mutant of FinalizeFile: only a success ends the session.
FinalizeFileOnSuccess(s, f, r, end) ==
  IF slot # Active(s)
  THEN UNCHANGED <<slot, status, ending>>
  ELSE /\ status' = [status EXCEPT ![s][f] = FinalStatus(s, f, r)]
       /\ IF r = "Success" /\ IsComplete(s, status')
          THEN slot' = Free /\ ending' = [ending EXCEPT ![s] = end]
          ELSE UNCHANGED <<slot, ending>>

FinalizeFile(s, f, r, end) ==
  IF slot # Active(s)
  THEN UNCHANGED <<slot, status, ending>>
  ELSE /\ status' = [status EXCEPT ![s][f] = FinalStatus(s, f, r)]
       /\ IF IsComplete(s, status')
          THEN slot' = Free /\ ending' = [ending EXCEPT ![s] = end]
          ELSE UNCHANGED <<slot, ending>>

FinishUpload(s, f) ==
  /\ upload[s][f] \in SaveResult \union {"Refused"}
  /\ FinalizeFile(s, f, IF upload[s][f] = "Refused" THEN "Failed" ELSE upload[s][f],
                  "Finished")
  /\ upload' = [upload EXCEPT ![s][f] = "Idle"]
  /\ UNCHANGED <<prep, cancelled, answer, attempts, outcome, events>>

\* Mutant of DropUpload: no guard books the failure.
DropUploadUnguarded(s, f) ==
  /\ upload[s][f] \in {"Waiting", "Saving", "Refused"}
  /\ upload' = [upload EXCEPT ![s][f] = "Idle"]
  /\ outcome' = [outcome EXCEPT ![s][f][attempts[s][f]] = "Err"]
  /\ UNCHANGED <<slot, prep, cancelled, answer, status, attempts, ending, events>>

\* The connection closes: before FileUpload could be sent, before the target
\* came, or in the middle of the body.  A result_tx handed out is closed.
DropUpload(s, f) ==
  /\ \/ upload[s][f] \in {"Waiting", "Saving", "Refused"}
     \/ upload[s][f] = "Offering" /\ ~HasRoom
  /\ upload' = [upload EXCEPT ![s][f] = "Dropped"]
  /\ outcome' = [outcome EXCEPT ![s][f][attempts[s][f]] = "Err"]
  /\ UNCHANGED <<slot, prep, cancelled, answer, status, attempts, ending, events>>

\* The task of the drop guard books the failure.
FinalizeDropped(s, f) ==
  /\ upload[s][f] = "Dropped"
  /\ FinalizeFile(s, f, "Failed", "FinishedByTask")
  /\ upload' = [upload EXCEPT ![s][f] = "Idle"]
  /\ UNCHANGED <<prep, cancelled, answer, attempts, outcome, events>>

\* The connection closes while finish() waits for the lock, guard disarmed.
LoseUpload(s, f) ==
  /\ DropWhileLocking
  /\ upload[s][f] \in SaveResult \union {"Refused"}
  /\ upload' = [upload EXCEPT ![s][f] = "Leaked"]
  /\ UNCHANGED <<slot, prep, cancelled, answer, status, attempts, outcome, ending, events>>

(***************************************************************************)
(* The end of a session                                                    *)
(***************************************************************************)
AnnounceEnd(s) ==
  /\ ending[s] \in {"Finished", "FinishedByTask", "Cancelled"}
  /\ Emit(SessionEnd(s, IF ending[s] = "Cancelled" THEN "Cancelled" ELSE "Finished"))
  /\ ending' = [ending EXCEPT ![s] = "Announced"]
  /\ UNCHANGED <<slot, prep, cancelled, answer, status, attempts, upload, outcome>>

\* The request that ended the session is dropped while the channel is full.
LoseEnd(s) ==
  /\ ending[s] \in {"Finished", "Cancelled"}
  /\ ~HasRoom
  /\ ending' = [ending EXCEPT ![s] = "Lost"]
  /\ UNCHANGED <<slot, prep, cancelled, answer, status, attempts, upload, outcome, events>>

\* Mutant of CancelPending: cancel frees the slot itself.
CancelPendingFreesSlot(ip, id) ==
  /\ slot.phase = "Pending"
  /\ SenderOf[slot.id] = ip
  /\ id \in {NoSession, slot.id}
  /\ cancelled' = cancelled \union {slot.id}
  /\ slot' = Free
  /\ UNCHANGED <<prep, answer, status, attempts, upload, outcome, ending, events>>

\* POST cancel from the pending sender; it need not know the session id.
CancelPending(ip, id) ==
  /\ slot.phase = "Pending"
  /\ SenderOf[slot.id] = ip
  /\ id \in {NoSession, slot.id}
  /\ cancelled' = cancelled \union {slot.id}
  /\ UNCHANGED <<slot, prep, answer, status, attempts, upload, outcome, ending, events>>

\* POST cancel of the active session, by id and from its sender.
CancelActive(ip, id) ==
  /\ slot = Active(id)
  /\ SenderOf[id] = ip
  /\ slot' = Free
  /\ ending' = [ending EXCEPT ![id] = "Cancelled"]
  /\ UNCHANGED <<prep, cancelled, answer, status, attempts, upload, outcome, events>>

\* ServerHandle::cancel_v2_session, called by the application: true exactly
\* when the session was active, and no event is sent.
CancelV2Session(s) == slot' = IF slot = Active(s) THEN Free ELSE slot

(***************************************************************************)
(* The server's own steps: what it does without the application.           *)
(***************************************************************************)
PrepareStep(s) ==
  \/ ClaimSlot(s) \/ OfferSession(s) \/ CreateSession(s) \/ RefuseSession(s)
  \/ LoseClaim(s) \/ DropPrepare(s) \/ MissDecision(s) \/ ObserveCancel(s)
  \/ ReleaseClaim(s) \/ AnnounceAbort(s)

UploadStep(s, f) ==
  \/ \E ip \in Peer : StartUpload(ip, s, f)
  \/ OfferFile(s, f)
  \/ \E r \in SaveResult : SaveFile(s, f, r)
  \/ FinishUpload(s, f) \/ DropUpload(s, f) \/ FinalizeDropped(s, f)
  \/ LoseUpload(s, f)

EndStep(s) ==
  \/ AnnounceEnd(s) \/ LoseEnd(s)
  \/ \E ip \in Peer : CancelActive(ip, s)

ServerStep ==
  \/ \E s \in Session : PrepareStep(s) \/ EndStep(s)
  \/ \E s \in Session, f \in File : UploadStep(s, f)
  \/ \E ip \in Peer, id \in Session \union {NoSession} : CancelPending(ip, id)

(***************************************************************************)
(* The application.  It answers a prepare-upload or a file when it has     *)
(* taken the event, at once or later; an answer to a handler that is gone  *)
(* is lost.                                                                *)
(***************************************************************************)
Answered(s, verdict, ids) ==
  IF prep[s] = "Deciding"
  THEN prep' = [prep EXCEPT ![s] = verdict] /\ answer' = [answer EXCEPT ![s] = ids]
  ELSE UNCHANGED <<prep, answer>>

DecidesSession(s) ==
  \/ \E ids \in SUBSET Offer[s] : Answered(s, "Accepted", ids)
  \/ \E verdict \in {"Declined", "Unanswered"} : Answered(s, verdict, {})

TargetGiven(s, f, reply) ==
  upload' = IF upload[s][f] = "Waiting" THEN [upload EXCEPT ![s][f] = reply] ELSE upload

ProvidesTarget(s, f) == \E reply \in {"Saving", "Refused"} : TargetGiven(s, f, reply)

Taken(e) == \A i \in 1..Len(events) : events[i] # e

\* The application takes the next event and may answer it right away.
AppTakes ==
  /\ events # <<>>
  /\ events' = Tail(events)
  /\ LET e == Head(events) IN
       \/ UNCHANGED <<prep, answer, upload>>
       \/ /\ e.type = "PrepareUpload"
          /\ DecidesSession(e.session)
          /\ UNCHANGED upload
       \/ /\ e.type = "FileUpload"
          /\ ProvidesTarget(e.session, e.file)
          /\ UNCHANGED <<prep, answer>>
  /\ UNCHANGED <<slot, cancelled, status, attempts, outcome, ending>>

AppDecides(s) ==
  /\ prep[s] = "Deciding"
  /\ Taken(PrepareUpload(s))
  /\ DecidesSession(s)
  /\ UNCHANGED <<slot, cancelled, status, attempts, upload, outcome, ending, events>>

AppProvides(s, f) ==
  /\ upload[s][f] = "Waiting"
  /\ Taken(FileUpload(s, f))
  /\ ProvidesTarget(s, f)
  /\ UNCHANGED <<slot, prep, cancelled, answer, status, attempts, outcome, ending, events>>

AppCancels(s) ==
  /\ CancelV2Session(s)
  /\ UNCHANGED <<prep, cancelled, answer, status, attempts, upload, outcome, ending, events>>

AppStep ==
  \/ AppTakes
  \/ \E s \in Session : AppDecides(s) \/ AppCancels(s)
  \/ \E s \in Session, f \in File : AppProvides(s, f)

ServerNext == ServerStep \/ AppStep

ServerSpec == ServerInit /\ [][ServerNext]_serverVars

\* What the runtime does for a prepare-upload by polling its handler and the task
\* of its guard; specifications with fairness use it.
PrepareProgress(s) ==
  \/ OfferSession(s) \/ CreateSession(s) \/ RefuseSession(s) \/ MissDecision(s)
  \/ ObserveCancel(s) \/ ReleaseClaim(s) \/ AnnounceAbort(s)

(***************************************************************************)
(* Properties                                                              *)
(***************************************************************************)
ServerTypeOK ==
  /\ slot \in Slot
  /\ prep \in [Session -> PrepState]
  /\ cancelled \in SUBSET Session
  /\ answer \in [Session -> SUBSET File]
  /\ status \in [Session -> [File -> FileStatus]]
  /\ attempts \in [Session -> [File -> 0..MaxAttempts]]
  /\ upload \in [Session -> [File -> UploadState]]
  /\ outcome \in [Session -> [File -> [1..MaxAttempts -> {"None", "Ok", "Err"}]]]
  /\ ending \in [Session -> {"None", "Finished", "FinishedByTask", "Cancelled",
                             "Announced", "Lost"}]
  /\ events \in Seq(Event)

\* A pending slot belongs to exactly the one handler, or drop-guard task, that
\* still has to resolve it.  clear_pending_session and the promotion to an
\* active session compare no identifiers: this is what makes them safe.
ClaimOwned ==
  \A s \in Session : slot = Pending(s) <=> prep[s] \in Owning

\* While a session is active, a file is in progress exactly as long as an
\* upload handler, or its drop-guard task, still has to book its result: no
\* file is stuck, and no two uploads of a file overlap.
UploadOwned ==
  \A s \in Session, f \in File :
    slot = Active(s) => (status[s][f] = "InProgress" <=> upload[s][f] # "Idle")

\* The slot is never held by a session all of whose files are final: the last
\* finalize_file frees it, whatever order the files end in.
NoFinishedHolder ==
  \A s \in Session : slot = Active(s) => ~IsComplete(s, status)

\* A file that may still be started has an attempt left (the u8 counter never
\* saturates and a sender is refused after MAX_UPLOAD_ATTEMPTS).
RetryBudget ==
  \A s \in Session, f \in File :
    status[s][f] = "Pending" => attempts[s][f] < MaxAttempts

\* When a session is reported Finished, no upload handler of it is left that
\* could still report or book anything.
FinishedIsQuiet ==
  \A s \in Session : ending[s] \in {"Finished", "FinishedByTask"} =>
    \A f \in File : upload[s][f] = "Idle" /\ status[s][f] \in Final \union {"Absent"}

\* The stages of a session: only a session that was created is active, ends or
\* has files with a history.
SessionStages ==
  \A s \in Session :
    /\ slot = Active(s) => prep[s] = "Ready"
    /\ ending[s] # "None" => prep[s] = "Ready" /\ slot # Active(s)
    /\ prep[s] # "Ready" =>
         \A f \in File : status[s][f] = "Absent" /\ attempts[s][f] = 0 /\ upload[s][f] = "Idle"

\* The inductive invariant of the proofs (UploadServerProofs).
FileInv   == SessionStages /\ UploadOwned /\ NoFinishedHolder /\ RetryBudget /\ FinishedIsQuiet
ServerInv == ServerTypeOK /\ ClaimOwned /\ FileInv

\* The application hears of a session in order: the request first, nothing
\* about its files or end before it, and nothing after its abort.
Position(e) == {i \in 1..Len(events) : events[i] = e}
ChannelOrder ==
  \A s \in Session :
    /\ \A i \in Position(PrepareUpload(s)), j \in 1..Len(events) :
         events[j].session = s => i <= j
    /\ \A i \in Position(PrepareUploadAborted(s)), j \in 1..Len(events) :
         events[j].session = s => j <= i

\* The comment on PendingSessionGuard: the claim is not leaked when the request
\* future is cancelled.
SlotNotLeaked == \A s \in Session : slot = Pending(s) => prep[s] # "Leaked"

\* The single-session slot the server promises.
Past == {s \in Session : prep[s] # "Idle"}
SingleSession == INSTANCE SessionSlot WITH past <- Past
SlotRefinement == SingleSession!SlotSpec
=============================================================================

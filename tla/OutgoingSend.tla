---------------------------- MODULE OutgoingSend ----------------------------
(***************************************************************************)
(* Sending: the requests POST /send and POST /send/text of browsers, one   *)
(* transfer for each target of a request, the guard that cancels the       *)
(* session at a target, the list of transfers, and their history.          *)
(*                                                                         *)
(* All transfers of a request are futures of its one handler, at most      *)
(* MaxConcurrentSends of them, over all requests, past the semaphore.  The *)
(* handler is dropped when the browser goes away, at any await point.  The *)
(* cancel of RemoteSessionGuard runs as a task of its own.  Targets are    *)
(* LocalSend receivers with one session slot each (as SessionSlot); they   *)
(* are modelled from what the client can see of them.                      *)
(***************************************************************************)
EXTENDS Naturals, FiniteSets, Sequences, SequencesExt

CONSTANTS
  Batch,               \* requests to send
  Text,                \* those that send text
  Target,              \* devices
  TargetsOf,           \* the targets of each request, deduplicated
  File,                \* files of a request
  Answer,              \* the sets of files targets may accept, right or wrong
  MaxConcurrentSends,  \* permits of send_semaphore (4 in the program)
  MaxInMemory,         \* MAX_IN_MEMORY_TRANSFERS (100 in the program)
  DbMayFail            \* the requests whose results the database may refuse to write

ASSUME OutgoingAssumption ==
  /\ Text \subseteq Batch
  /\ Answer \in [Batch -> SUBSET (SUBSET File)]
  /\ TargetsOf \in [Batch -> (SUBSET Target) \ {{}}]
  /\ MaxConcurrentSends \in Nat \ {0}
  /\ MaxInMemory \in Nat
  /\ MaxConcurrentSends <= MaxInMemory
  /\ File # {}
  /\ DbMayFail \subseteq Batch

Transfer == {x \in Batch \X Target : x[2] \in TargetsOf[x[1]]}
Of(b)    == {<<b, t>> : t \in TargetsOf[b]}

VARIABLES
  request,    \* where the handler of each request stands
  files,      \* the uploads of each request
  disk,       \* the temporary files that exist
  state,      \* where each transfer stands
  completed,  \* the files of a transfer that were sent successfully
  guard,      \* its RemoteSessionGuard
  records,    \* outgoing_transfers, what the browser polls
  history,    \* the rows of the database, in the order of created_at_ms
  remote,     \* the session of each transfer at its target
  accepted,   \* the files the target accepted
  delivered   \* the files the target has

handlerVars == <<request, files, disk>>
sendVars    == <<state, completed, guard>>
recordVars  == <<records, history>>
remoteVars  == <<remote, accepted, delivered>>
vars        == <<handlerVars, sendVars, recordVars, remoteVars>>

Init ==
  /\ request = [b \in Batch |-> "Idle"]
  /\ files = [b \in Batch |-> {}]
  /\ disk = {}
  /\ state = [x \in Transfer |-> "Idle"]
  /\ completed = [x \in Transfer |-> {}]
  /\ guard = [x \in Transfer |-> "None"]
  /\ records = <<>>
  /\ history = <<>>
  /\ remote = [x \in Transfer |-> "None"]
  /\ accepted = [x \in Transfer |-> {}]
  /\ delivered = [x \in Transfer |-> {}]

InState(S) == {x \in Transfer : state[x] \in S}
Goto(x, s) == state' = [state EXCEPT ![x] = s]
TempFiles(b) == {b} \X File

(***************************************************************************)
(* The handler of a request                                                *)
(***************************************************************************)

\* The next part of the request is a file.
StageFile(b, f) ==
  /\ b \notin Text
  /\ request[b] \in {"Idle", "Staging"}
  /\ f \notin files[b]
  /\ request' = [request EXCEPT ![b] = "Staging"]
  /\ files' = [files EXCEPT ![b] = @ \union {f}]
  /\ disk' = disk \union {<<b, f>>}
  /\ UNCHANGED <<sendVars, recordVars, remoteVars>>

\* Mutant of AbortRequest: nobody removes the files.
AbortRequestKeepsFiles(b) ==
  /\ request[b] = "Staging"
  /\ request' = [request EXCEPT ![b] = "Over"]
  /\ UNCHANGED <<files, disk, sendVars, recordVars, remoteVars>>

\* A limit, an unknown target or an I/O error ends the request, or the browser goes
\* away: TempUpload and TempPathGuard remove the files when they are dropped.
AbortRequest(b) ==
  /\ request[b] = "Staging"
  /\ request' = [request EXCEPT ![b] = "Over"]
  /\ disk' = disk \ TempFiles(b)
  /\ UNCHANGED <<files, sendVars, recordVars, remoteVars>>

\* send_text has its one upload in memory.
TextUpload == CHOOSE f \in File : TRUE

StartText(b) ==
  /\ b \in Text
  /\ request[b] = "Idle"
  /\ request' = [request EXCEPT ![b] = "Sending"]
  /\ files' = [files EXCEPT ![b] = {TextUpload}]
  /\ UNCHANGED <<disk, sendVars, recordVars, remoteVars>>

StartSends(b) ==
  /\ request[b] = "Staging"
  /\ request' = [request EXCEPT ![b] = "Sending"]
  /\ UNCHANGED <<files, disk, sendVars, recordVars, remoteVars>>

\* Every transfer has returned its result; the temporary files go.
FinishRequest(b) ==
  /\ request[b] = "Sending"
  /\ \A x \in Of(b) : state[x] = "Done"
  /\ request' = [request EXCEPT ![b] = "Over"]
  /\ disk' = disk \ TempFiles(b)
  /\ UNCHANGED <<files, sendVars, recordVars, remoteVars>>

\* Mutant of DropRequest: the guards go with the handler, without a cancel.
DropRequestUnguarded(b) ==
  /\ request[b] = "Sending"
  /\ request' = [request EXCEPT ![b] = "Over"]
  /\ disk' = disk \ TempFiles(b)
  /\ state' = [x \in Transfer |->
       IF x \in Of(b) /\ state[x] \notin {"Idle", "Done"} THEN "Dropped" ELSE state[x]]
  /\ UNCHANGED <<files, completed, guard, recordVars, remoteVars>>

\* The browser goes away: with the handler all its transfers are dropped, wherever
\* they are.
DropRequest(b) ==
  /\ request[b] = "Sending"
  /\ request' = [request EXCEPT ![b] = "Over"]
  /\ disk' = disk \ TempFiles(b)
  /\ state' = [x \in Transfer |->
       IF x \in Of(b) /\ state[x] \notin {"Idle", "Done"} THEN "Dropped" ELSE state[x]]
  /\ guard' = [x \in Transfer |->
       IF x \in Of(b) /\ guard[x] = "Armed" THEN "Cancelling" ELSE guard[x]]
  /\ UNCHANGED <<files, completed, recordVars, remoteVars>>

(***************************************************************************)
(* send_to_target and perform_send                                         *)
(***************************************************************************)
Open == {"Preparing", "Sending"}

SetStatus(x, s) ==
  records' = [i \in DOMAIN records |->
    IF records[i].id = x THEN [records[i] EXCEPT !.status = s] ELSE records[i]]

\* The position of the first record whose transfer is over.
Evictable == {i \in DOMAIN records : records[i].status \notin Open}

\* Mutant of MakeRoom: the oldest record goes, whatever its transfer does.
MakeRoomOldest == IF Len(records) >= MaxInMemory THEN Tail(records) ELSE records

\* Mutant of MakeRoom: room is made when there is too much already.
MakeRoomLate ==
  IF Len(records) > MaxInMemory /\ Evictable # {}
  THEN RemoveAt(records, CHOOSE i \in Evictable : \A j \in Evictable : i <= j)
  ELSE records

MakeRoom ==
  IF Len(records) >= MaxInMemory /\ Evictable # {}
  THEN RemoveAt(records, CHOOSE i \in Evictable : \A j \in Evictable : i <= j)
  ELSE records

Permits == MaxConcurrentSends
         - Cardinality(InState({"Preparing", "Uploading", "Cancelling", "Finished"}))

\* A permit of the semaphore, and the record of the transfer.
BeginSend(x) ==
  /\ request[x[1]] = "Sending"
  /\ state[x] = "Idle"
  /\ Permits > 0
  /\ Goto(x, "Preparing")
  /\ records' = Append(MakeRoom, [id |-> x, status |-> "Preparing"])
  /\ UNCHANGED <<handlerVars, completed, guard, history, remoteVars>>

\* No registration within REGISTER_TIMEOUT, no answer within PREPARE_TIMEOUT, or an
\* error or refusal before.
PrepareFails(x) ==
  /\ state[x] = "Preparing"
  /\ Goto(x, "Finished")
  /\ UNCHANGED <<handlerVars, completed, guard, recordVars, remoteVars>>

\* 204: the target has taken a text from the request itself, and no file.
TakeNothing(x) ==
  /\ state[x] = "Preparing"
  /\ remote[x] = "Nothing"
  /\ Goto(x, "Finished")
  /\ completed' = [completed EXCEPT ![x] = IF x[1] \in Text THEN files[x[1]] ELSE {}]
  /\ UNCHANGED <<handlerVars, guard, recordVars, remoteVars>>

\* The target has opened a session: the guard is armed.  A session for no file, or
\* for a file that was not offered, is cancelled at once.
TakeAnswer(x) ==
  /\ state[x] = "Preparing"
  /\ remote[x] = "Active"
  /\ SetStatus(x, "Sending")
  /\ IF accepted[x] # {} /\ accepted[x] \subseteq files[x[1]]
     THEN Goto(x, "Uploading") /\ guard' = [guard EXCEPT ![x] = "Armed"]
     ELSE Goto(x, "Cancelling") /\ guard' = [guard EXCEPT ![x] = "Cancelling"]
  /\ UNCHANGED <<handlerVars, completed, history, remoteVars>>

\* Mutant of UploadOk: a file counts as sent before the target has answered.
UploadOkUnanswered(x, f) ==
  /\ state[x] = "Uploading"
  /\ f \in accepted[x] \ completed[x]
  /\ completed' = [completed EXCEPT ![x] = @ \union {f}]
  /\ IF completed'[x] = accepted[x]
     THEN Goto(x, "Finished") /\ guard' = [guard EXCEPT ![x] = "Done"]
     ELSE UNCHANGED <<state, guard>>
  /\ UNCHANGED <<handlerVars, recordVars, remoteVars>>

\* One file after the other; after the last one the guard is completed.
UploadOk(x, f) ==
  /\ state[x] = "Uploading"
  /\ f \in delivered[x] \ completed[x]
  /\ completed' = [completed EXCEPT ![x] = @ \union {f}]
  /\ IF completed'[x] = accepted[x]
     THEN Goto(x, "Finished") /\ guard' = [guard EXCEPT ![x] = "Done"]
     ELSE UNCHANGED <<state, guard>>
  /\ UNCHANGED <<handlerVars, recordVars, remoteVars>>

\* An error or the timeout of an upload, whose file may have arrived or not.
UploadFails(x) ==
  /\ state[x] = "Uploading"
  /\ Goto(x, "Cancelling")
  /\ guard' = [guard EXCEPT ![x] = "Cancelling"]
  /\ UNCHANGED <<handlerVars, completed, recordVars, remoteVars>>

\* The handler has waited for the task of the guard.
EndCancel(x) ==
  /\ state[x] = "Cancelling"
  /\ guard[x] \in {"Done", "Lost"}
  /\ Goto(x, "Finished")
  /\ UNCHANGED <<handlerVars, completed, guard, recordVars, remoteVars>>

\* Mutant of BookResult: sending some of the files is a success.
BookPartialResult(x) ==
  /\ state[x] = "Finished"
  /\ Goto(x, "Done")
  /\ SetStatus(x, IF completed[x] # {} THEN "Completed" ELSE "Failed")
  /\ \/ history' = Append(history, [id |-> x, sent |-> completed[x]])
     \/ x[1] \in DbMayFail /\ UNCHANGED history
  /\ UNCHANGED <<handlerVars, completed, guard, remoteVars>>

\* The result is shown and written, a row for each file in one transaction, without
\* an await between the two: a success only if every file was sent.
BookResult(x) ==
  /\ state[x] = "Finished"
  /\ Goto(x, "Done")
  /\ SetStatus(x, IF completed[x] = files[x[1]] THEN "Completed" ELSE "Failed")
  /\ \/ history' = Append(history, [id |-> x, sent |-> completed[x]])
     \/ x[1] \in DbMayFail /\ UNCHANGED history
  /\ UNCHANGED <<handlerVars, completed, guard, remoteVars>>

\* The task of the guard: /cancel reaches the target, or not within CANCEL_TIMEOUT.
GuardCancels(x) ==
  /\ guard[x] = "Cancelling"
  /\ guard' = [guard EXCEPT ![x] = "Done"]
  /\ remote' = [remote EXCEPT ![x] = "Over"]
  /\ UNCHANGED <<handlerVars, state, completed, recordVars, accepted, delivered>>

CancelLost(x) ==
  /\ guard[x] = "Cancelling"
  /\ guard' = [guard EXCEPT ![x] = "Lost"]
  /\ UNCHANGED <<handlerVars, state, completed, recordVars, remoteVars>>

(***************************************************************************)
(* Restart: temporary files are removed and the latest transfers restored  *)
(* from the history, newest first.                                         *)
(***************************************************************************)
Restored(h) ==
  [id |-> h.id, status |-> IF h.sent = files[h.id[1]] THEN "Completed" ELSE "Failed"]

Latest == SubSeq(history, 1 + (IF Len(history) > MaxInMemory
                               THEN Len(history) - MaxInMemory ELSE 0), Len(history))

Restart ==
  /\ \E b \in Batch : request[b] # "Idle"
  /\ request' = [b \in Batch |-> IF request[b] = "Idle" THEN "Idle" ELSE "Over"]
  /\ disk' = {}
  /\ state' = [x \in Transfer |->
       IF state[x] \in {"Idle", "Done"} THEN state[x] ELSE "Dropped"]
  /\ guard' = [x \in Transfer |->
       IF guard[x] \in {"Armed", "Cancelling"} THEN "Lost" ELSE guard[x]]
  /\ records' = Reverse([i \in DOMAIN Latest |-> Restored(Latest[i])])
  /\ UNCHANGED <<files, completed, history, remoteVars>>

(***************************************************************************)
(* The targets                                                             *)
(***************************************************************************)
PeerBusy(t) == \E x \in Transfer : x[2] = t /\ remote[x] = "Active"

\* Its user accepts some of the files; the answer may be wrong, or get lost.
PeerAccepts(x, A) ==
  /\ state[x] = "Preparing"
  /\ remote[x] = "None"
  /\ ~PeerBusy(x[2])
  /\ remote' = [remote EXCEPT ![x] = "Active"]
  /\ accepted' = [accepted EXCEPT ![x] = A]
  /\ UNCHANGED <<handlerVars, sendVars, recordVars, delivered>>

\* 204: a text was in the request; of files, none is wanted.
PeerTakesNothing(x) ==
  /\ state[x] = "Preparing"
  /\ remote[x] = "None"
  /\ remote' = [remote EXCEPT ![x] = "Nothing"]
  /\ delivered' = [delivered EXCEPT ![x] = IF x[1] \in Text THEN files[x[1]] ELSE {}]
  /\ UNCHANGED <<handlerVars, sendVars, recordVars, accepted>>

\* Its user cancels the session, or it has waited too long for its sender.
PeerLetsGo(x) ==
  /\ remote[x] = "Active"
  /\ remote' = [remote EXCEPT ![x] = "Over"]
  /\ UNCHANGED <<handlerVars, sendVars, recordVars, accepted, delivered>>

\* It stores the file that is being uploaded; after the last one the session is over.
PeerStores(x, f) ==
  /\ remote[x] = "Active"
  /\ state[x] = "Uploading"
  /\ delivered[x] = completed[x]
  /\ f \in accepted[x] \ delivered[x]
  /\ delivered' = [delivered EXCEPT ![x] = @ \union {f}]
  /\ remote' = [remote EXCEPT ![x] = IF delivered'[x] = accepted[x] THEN "Over" ELSE @]
  /\ UNCHANGED <<handlerVars, sendVars, recordVars, accepted>>

RequestStep(b) ==
  \/ AbortRequest(b) \/ StartText(b) \/ StartSends(b) \/ FinishRequest(b) \/ DropRequest(b)
  \/ \E f \in File : StageFile(b, f)

SendStep(x) ==
  \/ BeginSend(x) \/ PrepareFails(x) \/ TakeNothing(x)
  \/ TakeAnswer(x) \/ UploadFails(x) \/ EndCancel(x) \/ BookResult(x)
  \/ GuardCancels(x) \/ CancelLost(x)
  \/ \E f \in File : UploadOk(x, f)

PeerStep(x) ==
  \/ PeerTakesNothing(x) \/ PeerLetsGo(x)
  \/ \E A \in Answer[x[1]] : PeerAccepts(x, A)
  \/ \E f \in File : PeerStores(x, f)

Next ==
  \/ \E b \in Batch : RequestStep(b)
  \/ \E x \in Transfer : SendStep(x) \/ PeerStep(x)
  \/ Restart

Spec == Init /\ [][Next]_vars

(***************************************************************************)
(* Properties                                                              *)
(***************************************************************************)
Status == Open \union {"Completed", "Failed"}

OutgoingTypeOK ==
  /\ request \in [Batch -> {"Idle", "Staging", "Sending", "Over"}]
  /\ files \in [Batch -> SUBSET File]
  /\ disk \in SUBSET (Batch \X File)
  /\ state \in [Transfer -> {"Idle", "Preparing", "Uploading", "Cancelling", "Finished",
                             "Done", "Dropped"}]
  /\ completed \in [Transfer -> SUBSET File]
  /\ \A x \in Transfer : completed[x] \subseteq files[x[1]]
  /\ guard \in [Transfer -> {"None", "Armed", "Cancelling", "Done", "Lost"}]
  /\ records \in Seq([id : Transfer, status : Status])
  /\ history \in Seq([id : Transfer, sent : SUBSET File])
  /\ remote \in [Transfer -> {"None", "Active", "Nothing", "Over"}]
  /\ accepted \in [Transfer -> SUBSET File]
  /\ delivered \in [Transfer -> SUBSET File]

\* What the list and the history call sent has arrived at the target, whatever was
\* accepted, cancelled, retried or timed out.
SentIsDelivered ==
  /\ \A i \in DOMAIN records :
       records[i].status = "Completed" => files[records[i].id[1]] \subseteq delivered[records[i].id]
  /\ \A i \in DOMAIN history : history[i].sent \subseteq delivered[history[i].id]

\* A restart does not turn a success into a failure or back: what the list says of a
\* transfer that is over is what would be restored from the history.
RestoredAgrees ==
  \A i \in DOMAIN records, j \in DOMAIN history :
    records[i].id = history[j].id => records[i] = Restored(history[j])

\* Making room in the list never takes the record of a transfer under way, whose
\* progress and result would be shown nowhere.
LiveRecordListed ==
  \A x \in InState({"Preparing", "Uploading", "Cancelling", "Finished"}) :
    \E i \in DOMAIN records : records[i].id = x /\ records[i].status \in Open

\* MAX_IN_MEMORY_TRANSFERS is a limit, except for the records that dropped requests
\* have left in an open state: those are never evicted.
RecordsBounded ==
  LET Stuck == {i \in DOMAIN records :
                 records[i].status \in Open /\ state[records[i].id] = "Dropped"}
  IN Len(records) <= MaxInMemory + Cardinality(Stuck)

\* A temporary file exists exactly as long as its request needs it: all transfers of
\* a request read the same files, and none is left when the request has ended.
StagedExactly ==
  disk = {part \in (Batch \ Text) \X File :
            request[part[1]] \in {"Staging", "Sending"} /\ part[2] \in files[part[1]]}

\* No target keeps its only slot for a transfer that is given up: whoever was told
\* of a session there completes or cancels it, even if the browser goes away.  What
\* is left are sessions whose answer or whose cancel did not get through.
RemoteSessionOwned ==
  \A x \in Transfer : remote[x] = "Active" =>
    \/ state[x] = "Preparing"
    \/ state[x] = "Uploading" /\ guard[x] = "Armed"
    \/ guard[x] \in {"Cancelling", "Lost"}
    \/ guard[x] = "None" /\ state[x] \in {"Finished", "Done", "Dropped"}

\* "Temporary files are then removed and the transfer result is persisted": when
\* nobody works on a transfer any more, its result is in the history.
ResultPersisted ==
  \A i \in DOMAIN records :
    state[records[i].id] \in {"Done", "Dropped"} =>
      \E j \in DOMAIN history : history[j].id = records[i].id

(***************************************************************************)
(* The refinement: a transfer that was dropped is lost, and a record whose *)
(* transfer was in progress when it was written is open.                   *)
(***************************************************************************)
Verdict(x) == IF completed[x] = files[x[1]] THEN "Completed" ELSE "Failed"
Stage == [x \in Transfer |->
  CASE state[x] = "Idle"    -> "New"
    [] state[x] = "Done"    -> Verdict(x)
    [] state[x] = "Dropped" -> "Lost"
    [] OTHER                -> "Running"]
Arrived == {x \in Transfer : state[x] # "Idle" /\ files[x[1]] \subseteq delivered[x]}
Shown(record) == <<record.id, IF record.status \in Open THEN "Open" ELSE record.status>>
List == {Shown(records[i]) : i \in DOMAIN records}
Kept == {history[j].id : j \in DOMAIN history}

Report == INSTANCE TransferReport WITH
  stage <- Stage, arrived <- Arrived, list <- List, kept <- Kept

\* Whatever is evicted, dropped, timed out, refused by the database or restarted, the
\* list calls a transfer sent only after all of it arrived, its verdict never changes,
\* and what the list says after a restart is what was concluded before.
ImplementsReport == Report!ReportSpec
=============================================================================

-------------------------- MODULE UploadServerProofs --------------------------
(***************************************************************************)
(* Theorems about the upload server, for every set of sessions and files   *)
(* and every channel capacity, with and without DropWhileLocking.          *)
(***************************************************************************)
EXTENDS UploadServer, TLAPS

USE DEF Free, Pending, Active

(***************************************************************************)
(* Typing.  The attempts counter stays in range because a file is only     *)
(* restarted while RetryBudget leaves it an attempt.                       *)
(***************************************************************************)
LEMMA FinalStatusType ==
  ASSUME ServerTypeOK, NEW s \in Session, NEW f \in File, NEW r
  PROVE  FinalStatus(s, f, r) \in FileStatus
BY DEF FinalStatus, ServerTypeOK, FileStatus

LEMMA EmitType ==
  ASSUME ServerTypeOK, NEW e \in Event, Emit(e)
  PROVE  events' \in Seq(Event)
BY DEF ServerTypeOK, Emit

LEMMA SessionEventTypes ==
  ASSUME NEW s \in Session
  PROVE  /\ PrepareUpload(s) \in Event
         /\ PrepareUploadAborted(s) \in Event
         /\ \A f \in File : FileUpload(s, f) \in Event
         /\ \A r \in {"Finished", "Cancelled"} : SessionEnd(s, r) \in Event
BY DEF Event, PrepareUpload, PrepareUploadAborted, FileUpload, SessionEnd

LEMMA FinalizeType ==
  ASSUME ServerTypeOK, NEW s \in Session, NEW f \in File, NEW r,
         NEW end \in {"Finished", "FinishedByTask"}, FinalizeFile(s, f, r, end)
  PROVE  /\ slot' \in Slot
         /\ status' \in [Session -> [File -> FileStatus]]
         /\ ending' \in [Session -> {"None", "Finished", "FinishedByTask", "Cancelled",
                                     "Announced", "Lost"}]
<1>1. FinalStatus(s, f, r) \in FileStatus
  BY FinalStatusType
<1>2. CASE slot # Active(s)
  BY <1>2 DEF FinalizeFile, ServerTypeOK
<1>3. CASE slot = Active(s)
  <2>1. status' = [status EXCEPT ![s][f] = FinalStatus(s, f, r)]
    BY <1>3 DEF FinalizeFile
  <2>3. status' \in [Session -> [File -> FileStatus]]
    BY <1>1, <2>1 DEF ServerTypeOK
  <2>2. /\ slot' \in {slot, Free}
        /\ ending' = ending \/ ending' = [ending EXCEPT ![s] = end]
    BY <1>3 DEF FinalizeFile
  <2> QED BY <2>2, <2>3 DEF ServerTypeOK, Slot
<1> QED BY <1>2, <1>3

LEMMA TypeInit == ASSUME ServerInit PROVE ServerTypeOK
BY ServerAssumption DEF ServerInit, ServerTypeOK, Slot, PrepState, FileStatus, UploadState

LEMMA TypePrepare ==
  ASSUME ServerTypeOK, NEW s \in Session, PrepareStep(s)
  PROVE  ServerTypeOK'
<1> USE DEF ServerTypeOK, Slot, PrepState
<1>1. CASE ClaimSlot(s)
  BY <1>1 DEF ClaimSlot
<1>2. CASE OfferSession(s)
  <2>1. events' \in Seq(Event)
    BY <1>2, EmitType, SessionEventTypes DEF OfferSession
  <2> QED BY <1>2, <2>1 DEF OfferSession
<1>3. CASE CreateSession(s)
  <2>1. [f \in File |-> IF f \in answer[s] THEN "Pending" ELSE "Absent"] \in [File -> FileStatus]
    BY DEF FileStatus
  <2> QED BY <1>3, <2>1 DEF CreateSession
<1>4. CASE RefuseSession(s)
  BY <1>4 DEF RefuseSession, ClearPending
<1>5. CASE LoseClaim(s)
  BY <1>5 DEF LoseClaim
<1>6. CASE DropPrepare(s) \/ MissDecision(s) \/ ObserveCancel(s)
  BY <1>6 DEF DropPrepare, MissDecision, ObserveCancel, AbandonClaim
<1>7. CASE ReleaseClaim(s)
  BY <1>7 DEF ReleaseClaim, ClearPending
<1>8. CASE AnnounceAbort(s)
  <2>1. events' \in Seq(Event)
    BY <1>8, EmitType, SessionEventTypes DEF AnnounceAbort
  <2> QED BY <1>8, <2>1 DEF AnnounceAbort
<1> QED BY <1>1, <1>2, <1>3, <1>4, <1>5, <1>6, <1>7, <1>8 DEF PrepareStep

LEMMA TypeUpload ==
  ASSUME ServerTypeOK, RetryBudget, NEW s \in Session, NEW f \in File, UploadStep(s, f)
  PROVE  ServerTypeOK'
<1> USE DEF ServerTypeOK
<1>1. ASSUME NEW ip \in Peer, StartUpload(ip, s, f) PROVE ServerTypeOK'
  <2>1. attempts[s][f] + 1 \in 0..MaxAttempts
    BY <1>1, ServerAssumption DEF StartUpload, RetryBudget
  <2>2. attempts' \in [Session -> [File -> 0..MaxAttempts]]
    BY <1>1, <2>1 DEF StartUpload
  <2>3. status' \in [Session -> [File -> FileStatus]]
    BY <1>1 DEF StartUpload, FileStatus
  <2>4. upload' \in [Session -> [File -> UploadState]]
    BY <1>1 DEF StartUpload, UploadState
  <2> QED BY <1>1, <2>2, <2>3, <2>4 DEF StartUpload
<1>2. CASE OfferFile(s, f)
  <2>1. upload' \in [Session -> [File -> UploadState]]
    BY <1>2 DEF OfferFile, UploadState
  <2>2. events' \in Seq(Event)
    BY <1>2, EmitType, SessionEventTypes DEF OfferFile
  <2> QED BY <1>2, <2>1, <2>2 DEF OfferFile
<1>3. ASSUME NEW r \in SaveResult, SaveFile(s, f, r) PROVE ServerTypeOK'
  <2>1. upload' \in [Session -> [File -> UploadState]]
    BY <1>3 DEF SaveFile, UploadState
  <2>2. outcome' \in [Session -> [File -> [1..MaxAttempts -> {"None", "Ok", "Err"}]]]
    BY <1>3 DEF SaveFile
  <2> QED BY <1>3, <2>1, <2>2 DEF SaveFile
<1>4. CASE FinishUpload(s, f)
  <2>1. upload' \in [Session -> [File -> UploadState]]
    BY <1>4 DEF FinishUpload, UploadState
  <2> QED BY <1>4, <2>1, FinalizeType DEF FinishUpload
<1>5. CASE DropUpload(s, f)
  <2>1. upload' \in [Session -> [File -> UploadState]]
    BY <1>5 DEF DropUpload, UploadState
  <2>2. outcome' \in [Session -> [File -> [1..MaxAttempts -> {"None", "Ok", "Err"}]]]
    BY <1>5 DEF DropUpload
  <2> QED BY <1>5, <2>1, <2>2 DEF DropUpload
<1>6. CASE FinalizeDropped(s, f)
  <2>1. upload' \in [Session -> [File -> UploadState]]
    BY <1>6 DEF FinalizeDropped, UploadState
  <2> QED BY <1>6, <2>1, FinalizeType DEF FinalizeDropped
<1>7. CASE LoseUpload(s, f)
  <2>1. upload' \in [Session -> [File -> UploadState]]
    BY <1>7 DEF LoseUpload, UploadState
  <2> QED BY <1>7, <2>1 DEF LoseUpload
<1> QED BY <1>1, <1>2, <1>3, <1>4, <1>5, <1>6, <1>7 DEF UploadStep

LEMMA TypeEnd ==
  ASSUME ServerTypeOK, NEW s \in Session, EndStep(s)
  PROVE  ServerTypeOK'
<1> USE DEF ServerTypeOK, Slot
<1>1. CASE AnnounceEnd(s)
  <2>1. events' \in Seq(Event)
    BY <1>1, EmitType, SessionEventTypes DEF AnnounceEnd
  <2> QED BY <1>1, <2>1 DEF AnnounceEnd
<1>2. CASE LoseEnd(s)
  BY <1>2 DEF LoseEnd
<1>3. ASSUME NEW ip \in Peer, CancelActive(ip, s) PROVE ServerTypeOK'
  BY <1>3 DEF CancelActive
<1> QED BY <1>1, <1>2, <1>3 DEF EndStep

LEMMA TypeCancelPending ==
  ASSUME ServerTypeOK, NEW ip \in Peer, NEW id \in Session \union {NoSession},
         CancelPending(ip, id)
  PROVE  ServerTypeOK'
BY DEF ServerTypeOK, CancelPending, Slot

LEMMA DecidesType ==
  ASSUME ServerTypeOK, NEW s \in Session, DecidesSession(s)
  PROVE  /\ prep' \in [Session -> PrepState]
         /\ answer' \in [Session -> SUBSET File]
<1>1. ASSUME NEW ids \in SUBSET Offer[s], Answered(s, "Accepted", ids)
      PROVE  prep' \in [Session -> PrepState] /\ answer' \in [Session -> SUBSET File]
  <2>1. ids \in SUBSET File
    BY ServerAssumption
  <2> QED BY <1>1, <2>1 DEF ServerTypeOK, Answered, PrepState
<1>2. ASSUME NEW verdict \in {"Declined", "Unanswered"}, Answered(s, verdict, {})
      PROVE  prep' \in [Session -> PrepState] /\ answer' \in [Session -> SUBSET File]
  BY <1>2 DEF ServerTypeOK, Answered, PrepState
<1> QED BY <1>1, <1>2 DEF DecidesSession

LEMMA ProvidesType ==
  ASSUME ServerTypeOK, NEW s \in Session, NEW f \in File, ProvidesTarget(s, f)
  PROVE  upload' \in [Session -> [File -> UploadState]]
BY DEF ServerTypeOK, ProvidesTarget, TargetGiven, UploadState

LEMMA HeadTail ==
  ASSUME ServerTypeOK, events # <<>>
  PROVE  /\ Tail(events) \in Seq(Event)
         /\ Head(events) \in Event
         /\ Head(events).session \in Session
         /\ Head(events).type = "FileUpload" => Head(events).file \in File
<1>1. Tail(events) \in Seq(Event) /\ Head(events) \in Event
  BY DEF ServerTypeOK
<1>2. QED BY <1>1 DEF Event

LEMMA TypeApp ==
  ASSUME ServerTypeOK, AppStep
  PROVE  ServerTypeOK'
<1>1. CASE AppTakes
  <2>1. events' \in Seq(Event)
    BY <1>1, HeadTail DEF AppTakes
  <2>2. /\ prep' \in [Session -> PrepState]
        /\ answer' \in [Session -> SUBSET File]
        /\ upload' \in [Session -> [File -> UploadState]]
    BY <1>1, HeadTail, DecidesType, ProvidesType DEF AppTakes, ServerTypeOK
  <2> QED BY <1>1, <2>1, <2>2 DEF AppTakes, ServerTypeOK
<1>2. ASSUME NEW s \in Session, AppDecides(s) PROVE ServerTypeOK'
  BY <1>2, DecidesType DEF AppDecides, ServerTypeOK
<1>3. ASSUME NEW s \in Session, AppCancels(s) PROVE ServerTypeOK'
  BY <1>3 DEF AppCancels, CancelV2Session, ServerTypeOK, Slot
<1>4. ASSUME NEW s \in Session, NEW f \in File, AppProvides(s, f) PROVE ServerTypeOK'
  BY <1>4, ProvidesType DEF AppProvides, ServerTypeOK
<1> QED BY <1>1, <1>2, <1>3, <1>4 DEF AppStep

LEMMA TypeStep ==
  ASSUME ServerTypeOK, RetryBudget, [ServerNext]_serverVars
  PROVE  ServerTypeOK'
<1>1. CASE ServerStep
  BY <1>1, TypePrepare, TypeUpload, TypeEnd, TypeCancelPending DEF ServerStep
<1>2. CASE AppStep
  BY <1>2, TypeApp
<1>3. CASE UNCHANGED serverVars
  BY <1>3 DEF serverVars, ServerTypeOK
<1> QED BY <1>1, <1>2, <1>3 DEF ServerNext

(***************************************************************************)
(* Who owns the claim.  A step that neither moves a handler across the     *)
(* border of Owning nor touches a pending slot is of no interest.          *)
(***************************************************************************)
LEMMA ClaimCalm ==
  ASSUME ClaimOwned,
         \A t \in Session : slot' = Pending(t) <=> slot = Pending(t),
         \A t \in Session : prep'[t] \in Owning <=> prep[t] \in Owning
  PROVE  ClaimOwned'
BY DEF ClaimOwned

LEMMA ClaimPrepare ==
  ASSUME ServerTypeOK, ClaimOwned, NEW s \in Session, PrepareStep(s)
  PROVE  ClaimOwned'
<1> USE DEF ServerTypeOK, ClaimOwned, Owning
<1>1. CASE ClaimSlot(s)
  BY <1>1, ServerAssumption DEF ClaimSlot
<1>2. CASE OfferSession(s)
  BY <1>2 DEF OfferSession
<1>3. CASE CreateSession(s)
  BY <1>3 DEF CreateSession
<1>4. CASE RefuseSession(s)
  BY <1>4 DEF RefuseSession, ClearPending, NothingToReceive
<1>5. CASE LoseClaim(s)
  BY <1>5 DEF LoseClaim, NothingToReceive
<1>6. CASE DropPrepare(s) \/ MissDecision(s) \/ ObserveCancel(s)
  BY <1>6 DEF DropPrepare, MissDecision, ObserveCancel, AbandonClaim, Disconnected,
              DecisionLost, TokenWins, Selecting
<1>7. CASE ReleaseClaim(s)
  BY <1>7 DEF ReleaseClaim, ClearPending
<1>8. CASE AnnounceAbort(s)
  BY <1>8 DEF AnnounceAbort
<1> QED BY <1>1, <1>2, <1>3, <1>4, <1>5, <1>6, <1>7, <1>8 DEF PrepareStep

LEMMA FinalizeSlot ==
  ASSUME NEW s \in Session, NEW f \in File, NEW r, NEW end, FinalizeFile(s, f, r, end)
  PROVE  slot' = slot \/ (slot = Active(s) /\ slot' = Free)
BY DEF FinalizeFile

LEMMA ClaimUpload ==
  ASSUME ClaimOwned, NEW s \in Session, NEW f \in File, UploadStep(s, f)
  PROVE  ClaimOwned'
<1>1. prep' = prep
  BY DEF UploadStep, StartUpload, OfferFile, SaveFile, FinishUpload, DropUpload,
         FinalizeDropped, LoseUpload
<1>2. CASE FinishUpload(s, f)
  BY <1>1, <1>2, FinalizeSlot, ClaimCalm DEF FinishUpload
<1>3. CASE FinalizeDropped(s, f)
  BY <1>1, <1>3, FinalizeSlot, ClaimCalm DEF FinalizeDropped
<1>4. CASE ~FinishUpload(s, f) /\ ~FinalizeDropped(s, f)
  <2>1. slot' = slot
    BY <1>4 DEF UploadStep, StartUpload, OfferFile, SaveFile, DropUpload, LoseUpload
  <2> QED BY <1>1, <2>1, ClaimCalm
<1> QED BY <1>2, <1>3, <1>4

LEMMA DecidesOwner ==
  ASSUME ServerTypeOK, NEW s \in Session, DecidesSession(s)
  PROVE  \A t \in Session : prep'[t] = prep[t] \/ (prep[t] = "Deciding" /\
                              prep'[t] \in {"Accepted", "Declined", "Unanswered"})
BY DEF ServerTypeOK, DecidesSession, Answered

LEMMA ClaimApp ==
  ASSUME ServerTypeOK, ClaimOwned, AppStep
  PROVE  ClaimOwned'
<1>1. CASE AppTakes
  <2>1. \A t \in Session : prep'[t] = prep[t] \/ (prep[t] = "Deciding" /\
                              prep'[t] \in {"Accepted", "Declined", "Unanswered"})
    BY <1>1, HeadTail, DecidesOwner DEF AppTakes
  <2> QED BY <1>1, <2>1, ClaimCalm DEF AppTakes, Owning
<1>2. ASSUME NEW s \in Session, AppDecides(s) PROVE ClaimOwned'
  BY <1>2, DecidesOwner, ClaimCalm DEF AppDecides, Owning
<1>3. ASSUME NEW s \in Session, AppCancels(s) PROVE ClaimOwned'
  BY <1>3, ClaimCalm DEF AppCancels, CancelV2Session
<1>4. ASSUME NEW s \in Session, NEW f \in File, AppProvides(s, f) PROVE ClaimOwned'
  BY <1>4, ClaimCalm DEF AppProvides
<1> QED BY <1>1, <1>2, <1>3, <1>4 DEF AppStep

LEMMA ClaimStep ==
  ASSUME ServerTypeOK, ClaimOwned, [ServerNext]_serverVars
  PROVE  ClaimOwned'
<1>1. ASSUME NEW s \in Session, EndStep(s) PROVE ClaimOwned'
  BY <1>1, ClaimCalm DEF EndStep, AnnounceEnd, LoseEnd, CancelActive
<1>2. ASSUME NEW ip \in Peer, NEW id \in Session \union {NoSession}, CancelPending(ip, id)
      PROVE  ClaimOwned'
  BY <1>2, ClaimCalm DEF CancelPending
<1>3. CASE ServerStep
  BY <1>1, <1>2, <1>3, ClaimPrepare, ClaimUpload DEF ServerStep
<1>4. CASE AppStep
  BY <1>4, ClaimApp
<1>5. CASE UNCHANGED serverVars
  BY <1>5, ClaimCalm DEF serverVars
<1> QED BY <1>3, <1>4, <1>5 DEF ServerNext

(***************************************************************************)
(* The files of a session.  Most steps are calm: they start, book and end  *)
(* nothing.                                                                *)
(***************************************************************************)
Calm ==
  /\ status' = status /\ attempts' = attempts
  /\ \A s \in Session :
       /\ slot' = Active(s) => slot = Active(s)
       /\ prep'[s] = "Ready" <=> prep[s] = "Ready"
       /\ ending'[s] # "None" => \/ ending[s] # "None"
                                 \/ slot = Active(s) /\ slot' # Active(s)
       /\ ending'[s] \in {"Finished", "FinishedByTask"} => ending'[s] = ending[s]
       /\ \A f \in File : upload'[s][f] = "Idle" <=> upload[s][f] = "Idle"

LEMMA CalmFiles ==
  ASSUME FileInv, Calm
  PROVE  FileInv'
<1> USE DEF Calm, FileInv
<1>1. SessionStages'
  BY DEF SessionStages
<1>2. UploadOwned'
  BY DEF UploadOwned
<1>3. NoFinishedHolder'
  BY DEF NoFinishedHolder, IsComplete
<1>4. RetryBudget'
  BY DEF RetryBudget
<1>5. FinishedIsQuiet'
  BY DEF FinishedIsQuiet
<1> QED BY <1>1, <1>2, <1>3, <1>4, <1>5

LEMMA FilesPrepare ==
  ASSUME ServerTypeOK, FileInv, NEW s \in Session, PrepareStep(s)
  PROVE  FileInv'
<1> USE DEF ServerTypeOK
<1>1. CASE CreateSession(s)
  <2>1. prep[s] # "Ready" /\ prep'[s] = "Ready" /\ \A t \in Session \ {s} : prep'[t] = prep[t]
    BY <1>1 DEF CreateSession
  <2>2. /\ \A f \in File : /\ status'[s][f] = IF f \in answer[s] THEN "Pending" ELSE "Absent"
                           /\ attempts[s][f] = 0 /\ upload[s][f] = "Idle"
        /\ \A t \in Session \ {s} : status'[t] = status[t]
        /\ slot' = Active(s)
        /\ UNCHANGED <<attempts, upload, ending>>
        /\ ending[s] = "None"
    BY <1>1, <2>1 DEF CreateSession, FileInv, SessionStages
  <2>3. PICK g \in File : status'[s][g] = "Pending"
    BY <1>1, <2>2 DEF CreateSession
  <2>4. SessionStages'
    <3>1. \A t \in Session \ {s} : ending[t] # "None" => prep[t] = "Ready"
      BY DEF FileInv, SessionStages
    <3> QED BY <2>1, <2>2, <3>1 DEF FileInv, SessionStages
  <2>5. UploadOwned'
    BY <2>2 DEF FileInv, UploadOwned
  <2>6. NoFinishedHolder'
    BY <2>2, <2>3 DEF NoFinishedHolder, IsComplete, Final
  <2>7. RetryBudget'
    <3>1. 0 < MaxAttempts
      BY ServerAssumption
    <3>2. \A t \in Session \ {s}, f \in File :
            status'[t][f] = "Pending" => attempts'[t][f] < MaxAttempts
      BY <2>2 DEF FileInv, RetryBudget
    <3>3. \A f \in File : attempts'[s][f] < MaxAttempts
      BY <2>2, <3>1
    <3> QED BY <3>2, <3>3 DEF RetryBudget
  <2>8. FinishedIsQuiet'
    BY <2>2 DEF FileInv, FinishedIsQuiet
  <2> QED BY <2>4, <2>5, <2>6, <2>7, <2>8 DEF FileInv
<1>2. CASE ~CreateSession(s)
  <2>1. UNCHANGED <<status, attempts, upload, ending>>
    BY <1>2 DEF PrepareStep, ClaimSlot, OfferSession, RefuseSession, LoseClaim, DropPrepare,
         MissDecision, ObserveCancel, AbandonClaim, ReleaseClaim, AnnounceAbort
  <2>2. slot' = slot \/ slot' = Free \/ slot' = Pending(s)
    BY <1>2 DEF PrepareStep, ClaimSlot, OfferSession, RefuseSession, LoseClaim, DropPrepare,
         MissDecision, ObserveCancel, AbandonClaim, ReleaseClaim, AnnounceAbort, ClearPending
  <2>3. /\ prep[s] # "Ready" /\ prep'[s] # "Ready"
        /\ \A t \in Session \ {s} : prep'[t] = prep[t]
    BY <1>2 DEF PrepareStep, ClaimSlot, OfferSession, RefuseSession, LoseClaim, DropPrepare,
         MissDecision, ObserveCancel, AbandonClaim, ReleaseClaim, AnnounceAbort,
         NothingToReceive, Disconnected, DecisionLost, TokenWins, Selecting
  <2>4. Calm
    BY <2>1, <2>2, <2>3 DEF Calm
  <2> QED BY <2>4, CalmFiles
<1> QED BY <1>1, <1>2

LEMMA StartFiles ==
  ASSUME ServerTypeOK, FileInv, NEW s \in Session, NEW f \in File,
         NEW ip \in Peer, StartUpload(ip, s, f)
  PROVE  FileInv'
<1>1. /\ slot = Active(s) /\ slot' = slot /\ prep' = prep /\ ending' = ending
      /\ status[s][f] = "Pending" /\ status'[s][f] = "InProgress"
      /\ upload'[s][f] = "Offering"
      /\ \A t \in Session, g \in File : t # s \/ g # f =>
           /\ status'[t][g] = status[t][g]
           /\ upload'[t][g] = upload[t][g]
           /\ attempts'[t][g] = attempts[t][g]
  BY DEF StartUpload, ServerTypeOK
<1>2. prep[s] = "Ready" /\ ending[s] = "None"
  BY <1>1 DEF FileInv, SessionStages
<1>3. SessionStages'
  <2>1. ASSUME NEW t \in Session, t # s, prep'[t] # "Ready", NEW g \in File
        PROVE  status'[t][g] = "Absent" /\ attempts'[t][g] = 0 /\ upload'[t][g] = "Idle"
    <3>1. prep[t] # "Ready"
      BY <1>1, <2>1
    <3>2. status[t][g] = "Absent" /\ attempts[t][g] = 0 /\ upload[t][g] = "Idle"
      BY <3>1, <2>1 DEF FileInv, SessionStages
    <3> QED BY <1>1, <2>1, <3>2
  <2>2. \A t \in Session : /\ slot' = Active(t) => prep'[t] = "Ready"
                          /\ ending'[t] # "None" => prep'[t] = "Ready" /\ slot' # Active(t)
    BY <1>1 DEF FileInv, SessionStages
  <2> QED BY <1>1, <1>2, <2>1, <2>2 DEF SessionStages
<1>4. UploadOwned'
  BY <1>1 DEF FileInv, UploadOwned
<1>5. NoFinishedHolder'
  <2>1. \A t \in Session : slot' = Active(t) => t = s
    BY <1>1
  <2> QED BY <1>1, <2>1 DEF NoFinishedHolder, IsComplete, Final
<1>6. RetryBudget'
  BY <1>1 DEF FileInv, RetryBudget
<1>7. FinishedIsQuiet'
  BY <1>1, <1>2 DEF FileInv, FinishedIsQuiet
<1> QED BY <1>3, <1>4, <1>5, <1>6, <1>7 DEF FileInv

\* Booking a result: finalize_file, by the handler or by its guard's task.
LEMMA BookFiles ==
  ASSUME ServerTypeOK, FileInv, NEW s \in Session, NEW f \in File, NEW r,
         NEW end \in {"Finished", "FinishedByTask"},
         upload[s][f] # "Idle",
         FinalizeFile(s, f, r, end),
         upload' = [upload EXCEPT ![s][f] = "Idle"],
         UNCHANGED <<prep, attempts>>
  PROVE  FileInv'
<1> DEFINE new == FinalStatus(s, f, r)
<1>1. prep[s] = "Ready"
  BY DEF FileInv, SessionStages
<1>2. /\ upload'[s][f] = "Idle"
      /\ \A t \in Session, g \in File : t # s \/ g # f => upload'[t][g] = upload[t][g]
  BY DEF ServerTypeOK
<1>3. CASE slot # Active(s)
  <2>1. UNCHANGED <<slot, status, ending>>
    BY <1>3 DEF FinalizeFile
  <2>2. SessionStages'
    BY <1>1, <1>2, <2>1 DEF FileInv, SessionStages
  <2>3. UploadOwned'
    BY <1>2, <1>3, <2>1 DEF FileInv, UploadOwned
  <2>4. NoFinishedHolder' /\ RetryBudget'
    BY <2>1 DEF FileInv, NoFinishedHolder, RetryBudget, IsComplete
  <2>5. FinishedIsQuiet'
    BY <1>2, <2>1 DEF FileInv, FinishedIsQuiet
  <2> QED BY <2>2, <2>3, <2>4, <2>5 DEF FileInv
<1>4. CASE slot = Active(s)
  <2>1. status[s][f] = "InProgress"
    BY <1>4 DEF FileInv, UploadOwned
  <2>2. /\ new \in {"Pending", "Finished", "Failed"}
        /\ new = "Pending" => attempts[s][f] < MaxAttempts
    BY <2>1 DEF FinalStatus
  <2>3. status' = [status EXCEPT ![s][f] = new]
    BY <1>4 DEF FinalizeFile
  <2>4. /\ status'[s][f] = new
        /\ \A t \in Session, g \in File : t # s \/ g # f => status'[t][g] = status[t][g]
    BY <2>3 DEF ServerTypeOK
  <2>5. RetryBudget'
    BY <2>2, <2>4 DEF FileInv, RetryBudget
  <2>6. \A t \in Session : t # s => slot # Active(t)
    BY <1>4
  <2>7. ending[s] = "None"
    BY <1>4 DEF FileInv, SessionStages
  <2>8. CASE IsComplete(s, status')
    <3>1. slot' = Free /\ ending' = [ending EXCEPT ![s] = end]
      BY <1>4, <2>8 DEF FinalizeFile
    <3>2. SessionStages'
      BY <1>1, <1>2, <2>4, <3>1 DEF FileInv, SessionStages, ServerTypeOK
    <3>3. UploadOwned' /\ NoFinishedHolder'
      BY <3>1 DEF UploadOwned, NoFinishedHolder
    <3>4. \A g \in File : status'[s][g] \in Final \union {"Absent"} /\ upload'[s][g] = "Idle"
      BY <1>2, <1>4, <2>4, <2>8 DEF IsComplete, FileInv, UploadOwned, Final
    <3>5. FinishedIsQuiet'
      BY <1>2, <2>4, <3>1, <3>4 DEF FileInv, FinishedIsQuiet, ServerTypeOK
    <3> QED BY <2>5, <3>2, <3>3, <3>5 DEF FileInv
  <2>9. CASE ~IsComplete(s, status')
    <3>1. UNCHANGED <<slot, ending>>
      BY <1>4, <2>9 DEF FinalizeFile
    <3>2. SessionStages'
      BY <1>1, <1>2, <2>4, <3>1 DEF FileInv, SessionStages
    <3>3. UploadOwned'
      BY <1>2, <2>2, <2>4, <2>6, <3>1 DEF FileInv, UploadOwned
    <3>4. NoFinishedHolder'
      BY <2>6, <2>9, <3>1 DEF NoFinishedHolder, IsComplete
    <3>5. FinishedIsQuiet'
      BY <1>2, <2>4, <2>7, <3>1 DEF FileInv, FinishedIsQuiet
    <3> QED BY <2>5, <3>2, <3>3, <3>4, <3>5 DEF FileInv
  <2> QED BY <2>8, <2>9
<1> QED BY <1>3, <1>4

LEMMA FilesUpload ==
  ASSUME ServerTypeOK, FileInv, NEW s \in Session, NEW f \in File, UploadStep(s, f)
  PROVE  FileInv'
<1>1. ASSUME NEW ip \in Peer, StartUpload(ip, s, f) PROVE FileInv'
  BY <1>1, StartFiles
<1>2. CASE FinishUpload(s, f)
  BY <1>2, BookFiles DEF FinishUpload, SaveResult
<1>3. CASE FinalizeDropped(s, f)
  BY <1>3, BookFiles DEF FinalizeDropped
<1>4. CASE \/ OfferFile(s, f) \/ DropUpload(s, f) \/ LoseUpload(s, f)
           \/ \E r \in SaveResult : SaveFile(s, f, r)
  <2>1. /\ UNCHANGED <<slot, prep, status, attempts, ending>>
        /\ upload[s][f] # "Idle"
        /\ \E v \in UploadState \ {"Idle"} : upload' = [upload EXCEPT ![s][f] = v]
    BY <1>4 DEF UploadState, OfferFile, DropUpload, LoseUpload, SaveFile, SaveResult
  <2>2. \A t \in Session, g \in File : upload'[t][g] = "Idle" <=> upload[t][g] = "Idle"
    BY <2>1 DEF ServerTypeOK
  <2> QED BY <2>1, <2>2, CalmFiles DEF Calm
<1> QED BY <1>1, <1>2, <1>3, <1>4 DEF UploadStep

LEMMA FilesApp ==
  ASSUME ServerTypeOK, FileInv, AppStep
  PROVE  FileInv'
<1> DEFINE SamePrep   == \A t \in Session : prep'[t] = "Ready" <=> prep[t] = "Ready"
           SameUpload == \A t \in Session, g \in File :
                           upload'[t][g] = "Idle" <=> upload[t][g] = "Idle"
<1>1. ASSUME NEW s \in Session, NEW f \in File, ProvidesTarget(s, f) PROVE SameUpload
  BY <1>1 DEF ProvidesTarget, TargetGiven, ServerTypeOK
<1>2. ASSUME NEW s \in Session, DecidesSession(s) PROVE SamePrep
  BY <1>2, DecidesOwner
<1>3. CASE AppTakes
  <2>1. SamePrep /\ SameUpload
    BY <1>1, <1>2, <1>3, HeadTail DEF AppTakes
  <2> QED BY <1>3, <2>1, CalmFiles DEF AppTakes, Calm
<1>4. ASSUME NEW s \in Session, AppDecides(s) PROVE FileInv'
  BY <1>2, <1>4, CalmFiles DEF AppDecides, Calm
<1>5. ASSUME NEW s \in Session, AppCancels(s) PROVE FileInv'
  BY <1>5, CalmFiles DEF AppCancels, CancelV2Session, Calm
<1>6. ASSUME NEW s \in Session, NEW f \in File, AppProvides(s, f) PROVE FileInv'
  BY <1>1, <1>6, CalmFiles DEF AppProvides, Calm
<1> QED BY <1>3, <1>4, <1>5, <1>6 DEF AppStep

LEMMA FilesStep ==
  ASSUME ServerTypeOK, FileInv, [ServerNext]_serverVars
  PROVE  FileInv'
<1>1. ASSUME NEW s \in Session, AnnounceEnd(s) \/ LoseEnd(s) PROVE FileInv'
  <2>1. /\ UNCHANGED <<slot, prep, status, attempts, upload>>
        /\ ending[s] # "None"
        /\ ending' = [ending EXCEPT ![s] = "Announced"] \/ ending' = [ending EXCEPT ![s] = "Lost"]
    BY <1>1 DEF AnnounceEnd, LoseEnd
  <2> QED BY <2>1, CalmFiles DEF Calm, ServerTypeOK
<1>2. ASSUME NEW s \in Session, NEW ip \in Peer, CancelActive(ip, s) PROVE FileInv'
  BY <1>2, CalmFiles DEF CancelActive, Calm, ServerTypeOK
<1>3. ASSUME NEW ip \in Peer, NEW id \in Session \union {NoSession}, CancelPending(ip, id)
      PROVE  FileInv'
  BY <1>3, CalmFiles DEF CancelPending, Calm
<1>4. CASE ServerStep
  BY <1>1, <1>2, <1>3, <1>4, FilesPrepare, FilesUpload DEF ServerStep, EndStep
<1>5. CASE AppStep
  BY <1>5, FilesApp
<1>6. CASE UNCHANGED serverVars
  BY <1>6, CalmFiles DEF serverVars, Calm
<1> QED BY <1>4, <1>5, <1>6 DEF ServerNext

(***************************************************************************)
(* The order of events                                                     *)
(***************************************************************************)
LEMMA TailEvents ==
  ASSUME ServerTypeOK, events # <<>>, events' = Tail(events)
  PROVE  /\ Len(events) \in Nat /\ Len(events') \in Nat /\ Len(events) = Len(events') + 1
         /\ Head(events) = events[1] /\ 1 \in 1..Len(events) /\ events[1] \in Event
         /\ \A i \in 1..Len(events') : i + 1 \in 1..Len(events) /\ events'[i] = events[i + 1]
BY DEF ServerTypeOK

LEMMA AppendEvents ==
  ASSUME ServerTypeOK, NEW e \in Event, Emit(e)
  PROVE  /\ Len(events) \in Nat /\ Len(events') = Len(events) + 1
         /\ \A i \in 1..Len(events) : i \in 1..Len(events') /\ events'[i] = events[i]
         /\ events'[Len(events')] = e /\ Len(events') \in 1..Len(events')
         /\ \A i \in 1..Len(events') : i \in 1..Len(events) \/ i = Len(events')
BY DEF ServerTypeOK, Emit

\* Nothing of a request is in the channel before it is announced, and nothing follows its
\* abort, which is announced when the request is over.
OrderOf(s) ==
  /\ \A i, j \in 1..Len(events) :
       /\ events[i] = PrepareUpload(s) /\ events[j].session = s => i <= j
       /\ events[i] = PrepareUploadAborted(s) /\ events[j].session = s => j <= i
  /\ prep[s] \in {"Idle", "Offering"} => \A i \in 1..Len(events) : events[i].session # s
  /\ \A i \in 1..Len(events) : events[i] = PrepareUploadAborted(s) => prep[s] = "Closed"
OrderInv == \A s \in Session : OrderOf(s)

\* No event, or one less, and the request of s goes on as requests do.
LEMMA OrderCalm ==
  ASSUME ServerTypeOK, NEW s \in Session, OrderOf(s),
         UNCHANGED events \/ (events # <<>> /\ events' = Tail(events)),
         prep'[s] \in {"Idle", "Offering"} => prep[s] \in {"Idle", "Offering"},
         prep[s] = "Closed" => prep'[s] = "Closed"
  PROVE  OrderOf(s)'
<1>1. CASE UNCHANGED events
  BY <1>1 DEF OrderOf, PrepareUpload, PrepareUploadAborted
<1>2. CASE events # <<>> /\ events' = Tail(events)
  <2>1. /\ Len(events) \in Nat /\ Len(events') \in Nat
        /\ \A i \in 1..Len(events') : i + 1 \in 1..Len(events) /\ events'[i] = events[i + 1]
    BY <1>2, TailEvents
  <2>2. ASSUME NEW i \in 1..Len(events'), NEW j \in 1..Len(events')
        PROVE  /\ events'[i] = PrepareUpload(s) /\ events'[j].session = s => i <= j
               /\ events'[i] = PrepareUploadAborted(s) /\ events'[j].session = s => j <= i
    <3>1. /\ events'[i] = PrepareUpload(s) /\ events'[j].session = s => i + 1 <= j + 1
          /\ events'[i] = PrepareUploadAborted(s) /\ events'[j].session = s => j + 1 <= i + 1
      BY <2>1 DEF OrderOf
    <3> QED BY <3>1
  <2> QED BY <2>1, <2>2 DEF OrderOf, PrepareUpload, PrepareUploadAborted
<1> QED BY <1>1, <1>2

\* An event is sent; one of s only while its request or its session lives.
LEMMA OrderSends ==
  ASSUME ServerTypeOK, NEW s \in Session, OrderOf(s), NEW e \in Event, Emit(e),
         e = PrepareUpload(s) => prep[s] = "Offering",
         e.session = s => prep[s] # "Closed" /\ prep'[s] \notin {"Idle", "Offering"},
         e = PrepareUploadAborted(s) => prep'[s] = "Closed",
         prep'[s] \in {"Idle", "Offering"} => prep[s] \in {"Idle", "Offering"},
         prep[s] = "Closed" => prep'[s] = "Closed"
  PROVE  OrderOf(s)'
<1>1. /\ Len(events) \in Nat /\ Len(events') = Len(events) + 1
      /\ \A i \in 1..Len(events) : i \in 1..Len(events') /\ events'[i] = events[i]
      /\ events'[Len(events')] = e /\ Len(events') \in 1..Len(events')
      /\ \A i \in 1..Len(events') : i \in 1..Len(events) \/ i = Len(events')
  BY AppendEvents
<1>2. ASSUME NEW i \in 1..Len(events'), NEW j \in 1..Len(events')
      PROVE  /\ events'[i] = PrepareUpload(s) /\ events'[j].session = s => i <= j
             /\ events'[i] = PrepareUploadAborted(s) /\ events'[j].session = s => j <= i
  <2>1. CASE i \in 1..Len(events) /\ j \in 1..Len(events)
    BY <1>1, <2>1 DEF OrderOf
  <2>2. CASE i \in 1..Len(events) /\ j = Len(events')
    BY <1>1, <2>2 DEF OrderOf
  <2>3. CASE i = Len(events')
    <3>1. events'[i] = PrepareUpload(s) /\ events'[j].session = s => j = i
      BY <1>1, <2>3 DEF OrderOf
    <3> QED BY <1>1, <2>3, <3>1
  <2> QED BY <1>1, <2>1, <2>2, <2>3
<1>3. prep'[s] \in {"Idle", "Offering"} => \A i \in 1..Len(events') : events'[i].session # s
  BY <1>1 DEF OrderOf
<1>4. \A i \in 1..Len(events') : events'[i] = PrepareUploadAborted(s) => prep'[s] = "Closed"
  BY <1>1 DEF OrderOf
<1> QED BY <1>2, <1>3, <1>4 DEF OrderOf, PrepareUpload, PrepareUploadAborted

LEMMA OrderStep ==
  ASSUME ServerInv, OrderInv, [ServerNext]_serverVars
  PROVE  OrderInv'
<1> USE DEF ServerInv
<1> SUFFICES ASSUME NEW s \in Session
             PROVE  OrderOf(s)'
  BY DEF OrderInv
<1>0. OrderOf(s)
  BY DEF OrderInv
<1>1. ASSUME NEW t \in Session, PrepareStep(t) PROVE OrderOf(s)'
  <2>1. CASE OfferSession(t)
    <3>1. /\ PrepareUpload(t) \in Event /\ Emit(PrepareUpload(t))
          /\ PrepareUpload(t).session = t /\ PrepareUpload(t) # PrepareUploadAborted(s)
      BY <2>1, SessionEventTypes DEF OfferSession, PrepareUpload, PrepareUploadAborted
    <3>2. /\ prep[t] = "Offering" /\ prep'[t] = "Deciding"
          /\ s # t => prep'[s] = prep[s] /\ PrepareUpload(t) # PrepareUpload(s)
      BY <2>1 DEF OfferSession, ServerTypeOK, PrepareUpload
    <3> QED BY <1>0, <3>1, <3>2, OrderSends
  <2>2. CASE AnnounceAbort(t)
    <3>1. /\ PrepareUploadAborted(t) \in Event /\ Emit(PrepareUploadAborted(t))
          /\ PrepareUploadAborted(t).session = t /\ PrepareUploadAborted(t) # PrepareUpload(s)
      BY <2>2, SessionEventTypes DEF AnnounceAbort, PrepareUpload, PrepareUploadAborted
    <3>2. /\ prep[t] = "Aborting" /\ prep'[t] = "Closed"
          /\ s # t => prep'[s] = prep[s] /\ PrepareUploadAborted(t) # PrepareUploadAborted(s)
      BY <2>2 DEF AnnounceAbort, ServerTypeOK, PrepareUploadAborted
    <3> QED BY <1>0, <3>1, <3>2, OrderSends
  <2>3. CASE \/ ClaimSlot(t) \/ CreateSession(t) \/ RefuseSession(t) \/ LoseClaim(t)
             \/ DropPrepare(t) \/ MissDecision(t) \/ ObserveCancel(t) \/ ReleaseClaim(t)
    <3>1. UNCHANGED events
      BY <2>3 DEF ClaimSlot, CreateSession, RefuseSession, LoseClaim, DropPrepare, MissDecision,
                  ObserveCancel, AbandonClaim, ReleaseClaim
    <3>2. /\ prep'[s] \in {"Idle", "Offering"} => prep[s] \in {"Idle", "Offering"}
          /\ prep[s] = "Closed" => prep'[s] = "Closed"
      BY <2>3 DEF ClaimSlot, CreateSession, RefuseSession, LoseClaim, DropPrepare, MissDecision,
                  ObserveCancel, AbandonClaim, ReleaseClaim, NothingToReceive, Disconnected,
                  DecisionLost, TokenWins, Selecting, ServerTypeOK
    <3> QED BY <1>0, <3>1, <3>2, OrderCalm
  <2> QED BY <1>1, <2>1, <2>2, <2>3 DEF PrepareStep
<1>2. ASSUME NEW t \in Session, NEW f \in File, UploadStep(t, f) PROVE OrderOf(s)'
  <2>1. prep' = prep
    BY <1>2 DEF UploadStep, StartUpload, OfferFile, SaveFile, FinishUpload, DropUpload,
                FinalizeDropped, LoseUpload
  <2>2. CASE OfferFile(t, f)
    <3>1. /\ FileUpload(t, f) \in Event /\ Emit(FileUpload(t, f))
          /\ FileUpload(t, f).session = t /\ FileUpload(t, f).type = "FileUpload"
          /\ PrepareUpload(s).type = "PrepareUpload"
          /\ PrepareUploadAborted(s).type = "PrepareUploadAborted"
      BY <2>2, SessionEventTypes DEF OfferFile, FileUpload, PrepareUpload, PrepareUploadAborted
    <3>2. prep[t] = "Ready"
      BY <2>2 DEF OfferFile, FileInv, SessionStages
    <3> QED BY <1>0, <2>1, <3>1, <3>2, OrderSends
  <2>3. CASE UNCHANGED events
    BY <1>0, <2>1, <2>3, OrderCalm
  <2> QED BY <1>2, <2>2, <2>3 DEF UploadStep, StartUpload, SaveFile, FinishUpload, DropUpload,
                                  FinalizeDropped, LoseUpload
<1>3. ASSUME NEW t \in Session, EndStep(t) PROVE OrderOf(s)'
  <2>1. prep' = prep
    BY <1>3 DEF EndStep, AnnounceEnd, LoseEnd, CancelActive
  <2>2. CASE AnnounceEnd(t)
    <3>1. PICK r \in {"Finished", "Cancelled"} : Emit(SessionEnd(t, r))
      BY <2>2 DEF AnnounceEnd
    <3>2. /\ SessionEnd(t, r) \in Event /\ SessionEnd(t, r).session = t
          /\ SessionEnd(t, r).type = "SessionEnd" /\ PrepareUpload(s).type = "PrepareUpload"
          /\ PrepareUploadAborted(s).type = "PrepareUploadAborted"
      BY SessionEventTypes DEF SessionEnd, PrepareUpload, PrepareUploadAborted
    <3>3. prep[t] = "Ready"
      BY <2>2 DEF AnnounceEnd, FileInv, SessionStages
    <3> QED BY <1>0, <2>1, <3>1, <3>2, <3>3, OrderSends
  <2>3. CASE UNCHANGED events
    BY <1>0, <2>1, <2>3, OrderCalm
  <2> QED BY <1>3, <2>2, <2>3 DEF EndStep, LoseEnd, CancelActive
<1>4. ASSUME NEW ip \in Peer, NEW id \in Session \union {NoSession}, CancelPending(ip, id)
      PROVE  OrderOf(s)'
  BY <1>0, <1>4, OrderCalm DEF CancelPending
<1>5. CASE AppStep
  <2>1. UNCHANGED events \/ (events # <<>> /\ events' = Tail(events))
    BY <1>5 DEF AppStep, AppTakes, AppDecides, AppProvides, AppCancels
  <2>2. prep'[s] = prep[s] \/ (prep[s] = "Deciding" /\ prep'[s] \in {"Accepted", "Declined", "Unanswered"})
    BY <1>5 DEF AppStep, AppTakes, AppDecides, AppProvides, AppCancels, DecidesSession, Answered,
                ServerTypeOK
  <2> QED BY <1>0, <2>1, <2>2, OrderCalm
<1>6. CASE UNCHANGED serverVars
  BY <1>0, <1>6, OrderCalm DEF serverVars
<1> QED BY <1>1, <1>2, <1>3, <1>4, <1>5, <1>6 DEF ServerNext, ServerStep

(***************************************************************************)
(* The theorems.                                                           *)
(***************************************************************************)
LEMMA ServerInvInit == ASSUME ServerInit PROVE ServerInv
<1>1. ServerTypeOK
  BY TypeInit
<1>2. ClaimOwned
  BY DEF ServerInit, ClaimOwned, Owning
<1>3. FileInv
  BY ServerAssumption DEF ServerInit, FileInv, SessionStages, UploadOwned, NoFinishedHolder,
     RetryBudget, FinishedIsQuiet
<1> QED BY <1>1, <1>2, <1>3 DEF ServerInv

LEMMA ServerInvStep == ASSUME ServerInv, [ServerNext]_serverVars PROVE ServerInv'
BY TypeStep, ClaimStep, FilesStep DEF ServerInv, FileInv

(***************************************************************************)
(* The server implements the abstract single-session slot.                 *)
(***************************************************************************)
LEMMA SlotInitMaps == ASSUME ServerInit PROVE SingleSession!SlotInit
BY DEF ServerInit, SingleSession!SlotInit, SingleSession!Free, Past

\* A step that keeps the slot and lets no handler leave "Idle" is a stutter.
LEMMA SlotStutters ==
  ASSUME slot' = slot, \A t \in Session : prep'[t] = "Idle" <=> prep[t] = "Idle"
  PROVE  UNCHANGED SingleSession!slotVars
BY DEF SingleSession!slotVars, Past

LEMMA SlotReleases ==
  ASSUME NEW s \in Session, slot \in {Pending(s), Active(s)}, slot' = Free,
         \A t \in Session : prep'[t] = "Idle" <=> prep[t] = "Idle"
  PROVE  SingleSession!SlotNext
BY DEF SingleSession!SlotNext, SingleSession!Release, SingleSession!Free,
       SingleSession!Pending, SingleSession!Active, Past

LEMMA SlotPrepare ==
  ASSUME ServerInv, NEW s \in Session, PrepareStep(s)
  PROVE  [SingleSession!SlotNext]_SingleSession!slotVars
<1> USE DEF ServerInv, ServerTypeOK
<1>1. CASE ClaimSlot(s)
  <2>1. s \notin Past /\ Past' = Past \union {s}
    BY <1>1 DEF ClaimSlot, Past
  <2> QED BY <1>1, <2>1 DEF ClaimSlot, SingleSession!SlotNext, SingleSession!Claim,
                SingleSession!Free, SingleSession!Pending
<1>2. CASE CreateSession(s)
  <2>1. slot = Pending(s) /\ Past' = Past
    BY <1>2 DEF CreateSession, ClaimOwned, Owning, Past
  <2> QED BY <1>2, <2>1 DEF CreateSession, SingleSession!SlotNext, SingleSession!Promote,
                SingleSession!Active, SingleSession!Pending
<1>3. CASE RefuseSession(s) \/ ReleaseClaim(s)
  <2>1. slot = Pending(s) /\ slot' = Free
    BY <1>3 DEF RefuseSession, ReleaseClaim, NothingToReceive, ClearPending, ClaimOwned, Owning
  <2>2. \A t \in Session : prep'[t] = "Idle" <=> prep[t] = "Idle"
    BY <1>3 DEF RefuseSession, ReleaseClaim, NothingToReceive
  <2> QED BY <2>1, <2>2, SlotReleases
<1>4. CASE \/ OfferSession(s) \/ LoseClaim(s) \/ DropPrepare(s) \/ MissDecision(s)
           \/ ObserveCancel(s) \/ AnnounceAbort(s)
  <2>1. slot' = slot
    BY <1>4 DEF OfferSession, LoseClaim, DropPrepare, MissDecision, ObserveCancel,
                AbandonClaim, AnnounceAbort
  <2>2. \A t \in Session : prep'[t] = "Idle" <=> prep[t] = "Idle"
    BY <1>4 DEF OfferSession, LoseClaim, DropPrepare, MissDecision, ObserveCancel,
                AbandonClaim, AnnounceAbort, NothingToReceive, Disconnected, DecisionLost,
                TokenWins, Selecting
  <2> QED BY <2>1, <2>2, SlotStutters
<1> QED BY <1>1, <1>2, <1>3, <1>4 DEF PrepareStep

LEMMA SlotUpload ==
  ASSUME ServerInv, NEW s \in Session, NEW f \in File, UploadStep(s, f)
  PROVE  [SingleSession!SlotNext]_SingleSession!slotVars
<1>1. prep' = prep
  BY DEF UploadStep, StartUpload, OfferFile, SaveFile, FinishUpload, DropUpload,
         FinalizeDropped, LoseUpload
<1>2. slot' = slot \/ (slot = Active(s) /\ slot' = Free)
  BY FinalizeSlot DEF UploadStep, StartUpload, OfferFile, SaveFile, FinishUpload,
     DropUpload, FinalizeDropped, LoseUpload
<1> QED BY <1>1, <1>2, SlotStutters, SlotReleases

LEMMA SlotApp ==
  ASSUME ServerInv, AppStep
  PROVE  [SingleSession!SlotNext]_SingleSession!slotVars
<1>1. ASSUME NEW s \in Session, DecidesSession(s)
      PROVE  \A t \in Session : prep'[t] = "Idle" <=> prep[t] = "Idle"
  BY <1>1, DecidesOwner DEF ServerInv
<1>2. CASE AppTakes
  <2>1. \A t \in Session : prep'[t] = "Idle" <=> prep[t] = "Idle"
    BY <1>1, <1>2, HeadTail DEF AppTakes, ServerInv
  <2> QED BY <1>2, <2>1, SlotStutters DEF AppTakes
<1>3. ASSUME NEW s \in Session, AppDecides(s)
      PROVE  [SingleSession!SlotNext]_SingleSession!slotVars
  BY <1>1, <1>3, SlotStutters DEF AppDecides
<1>4. ASSUME NEW s \in Session, AppCancels(s)
      PROVE  [SingleSession!SlotNext]_SingleSession!slotVars
  BY <1>4, SlotStutters, SlotReleases DEF AppCancels, CancelV2Session
<1>5. ASSUME NEW s \in Session, NEW f \in File, AppProvides(s, f)
      PROVE  [SingleSession!SlotNext]_SingleSession!slotVars
  BY <1>5, SlotStutters DEF AppProvides
<1> QED BY <1>2, <1>3, <1>4, <1>5 DEF AppStep

LEMMA SlotStep ==
  ASSUME ServerInv, [ServerNext]_serverVars
  PROVE  [SingleSession!SlotNext]_SingleSession!slotVars
<1>1. ASSUME NEW s \in Session, EndStep(s)
      PROVE  [SingleSession!SlotNext]_SingleSession!slotVars
  <2>1. prep' = prep /\ (slot' = slot \/ (slot = Active(s) /\ slot' = Free))
    BY <1>1 DEF EndStep, AnnounceEnd, LoseEnd, CancelActive
  <2> QED BY <2>1, SlotStutters, SlotReleases
<1>2. ASSUME NEW ip \in Peer, NEW id \in Session \union {NoSession}, CancelPending(ip, id)
      PROVE  [SingleSession!SlotNext]_SingleSession!slotVars
  BY <1>2, SlotStutters DEF CancelPending
<1>3. CASE ServerStep
  BY <1>1, <1>2, <1>3, SlotPrepare, SlotUpload DEF ServerStep
<1>4. CASE AppStep
  BY <1>4, SlotApp
<1>5. CASE UNCHANGED serverVars
  BY <1>5, SlotStutters DEF serverVars
<1> QED BY <1>3, <1>4, <1>5 DEF ServerNext

\* The inductive invariant holds in every reachable state of the v2 server.
THEOREM ServerInvariant == ServerSpec => []ServerInv
BY ServerInvInit, ServerInvStep, PTL DEF ServerSpec

\* Every variable keeps its type; in particular no file is started more than
\* MAX_UPLOAD_ATTEMPTS times.
THEOREM ServerTypes == ServerSpec => []ServerTypeOK
<1>1. ServerInv => ServerTypeOK
  BY DEF ServerInv
<1> QED BY <1>1, ServerInvariant, PTL

\* Each pending claim has exactly one owner, so the identifier-blind
\* clear_pending_session and the unconditional promotion in prepare_upload can
\* only ever touch the claim of the request that runs them.
THEOREM ClaimIsOwned == ServerSpec => []ClaimOwned
<1>1. ServerInv => ClaimOwned
  BY DEF ServerInv
<1> QED BY <1>1, ServerInvariant, PTL

\* No file of the active session is stuck in progress without a handler or a
\* guard task that will book it (UploadGuard), and none has two.
THEOREM UploadIsOwned == ServerSpec => []UploadOwned
<1>1. ServerInv => UploadOwned
  BY DEF ServerInv, FileInv
<1> QED BY <1>1, ServerInvariant, PTL

\* finalize_file never leaves the slot with a session that is complete.
THEOREM SlotHolderIsUnfinished == ServerSpec => []NoFinishedHolder
<1>1. ServerInv => NoFinishedHolder
  BY DEF ServerInv, FileInv
<1> QED BY <1>1, ServerInvariant, PTL

\* A session reported Finished has no upload handler left.
THEOREM FinishedSessionIsQuiet == ServerSpec => []FinishedIsQuiet
<1>1. ServerInv => FinishedIsQuiet
  BY DEF ServerInv, FileInv
<1> QED BY <1>1, ServerInvariant, PTL

\* A file that may be started again has attempts left (MAX_UPLOAD_ATTEMPTS).
THEOREM RetriesAreBounded == ServerSpec => []RetryBudget
<1>1. ServerInv => RetryBudget
  BY DEF ServerInv, FileInv
<1> QED BY <1>1, ServerInvariant, PTL

\* The v2 server implements SessionSlot: one session at a time, promoted only
\* from its own claim, released only while it holds the slot, never reused.
THEOREM ServerImplementsSlot == ServerSpec => SlotRefinement
BY ServerInvariant, SlotInitMaps, SlotStep, PTL DEF ServerSpec, SlotRefinement, SingleSession!SlotSpec

\* The application hears of a session in order: the request first, nothing about its files
\* or end before it, and nothing after its abort (the events of upload_server).
THEOREM EventsInOrder == ServerSpec => []ChannelOrder
<1>1. ServerInit => OrderInv
  <2>1. ServerInit => Len(events) = 0
    BY DEF ServerInit
  <2>2. Len(events) = 0 => OrderInv
    BY DEF OrderInv, OrderOf
  <2> QED BY <2>1, <2>2
<1>2. ServerInv /\ OrderInv /\ [ServerNext]_serverVars => OrderInv'
  BY OrderStep
<1>3. OrderInv => ChannelOrder
  BY DEF OrderInv, OrderOf, ChannelOrder, Position
<1> QED BY <1>1, <1>2, <1>3, ServerInvariant, PTL DEF ServerSpec
=============================================================================

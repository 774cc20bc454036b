------------------------------ MODULE LinkShare ------------------------------
(***************************************************************************)
(* Link sharing: the one active share, its staged files, the requests of   *)
(* browsers for the file list, and the downloads.                          *)
(*                                                                         *)
(* The store is one lock; what a handler does while it holds the lock is   *)
(* one action.  A handler future is dropped when its connection closes, at *)
(* any await point: while files are staged, while a browser waits for the  *)
(* decision, and between two remove_file calls of a cleanup.  The drop     *)
(* guards StagedShareFiles and PendingShareRequestGuard run as tasks.      *)
(***************************************************************************)
EXTENDS Naturals, FiniteSets

CONSTANTS
  Share,              \* share_id of each POST /share
  NoShare,
  Request,            \* request_id of each prepare-download that is admitted
  NoRequest,
  Address,            \* addresses of browsers; the session_id is the address
  AddressOf,          \* the address each request comes from
  File,               \* files of a share
  Pin,                \* PINs
  NoPin,              \* no PIN is set, or none is supplied
  MaxPinAttempts      \* MAX_PIN_ATTEMPTS (10 in the program)

ASSUME LinkShareAssumption ==
  /\ NoShare \notin Share
  /\ NoRequest \notin Request
  /\ NoPin \notin Pin
  /\ AddressOf \in [Request -> Address]
  /\ MaxPinAttempts \in Nat \ {0}

VARIABLES
  active,      \* the share in the store
  settings,    \* its auto_accept and pin
  requests,    \* its requests, by address
  attempts,    \* its pin_attempts
  prepare,     \* where each prepare-download handler stands
  supplied,    \* the PIN each request came with
  listed,      \* the share whose file list each request was given
  approved,    \* history: which address was ever accepted for which share
  start,       \* where each start_share handler stands
  files,       \* the files each share consists of
  previous,    \* the share each start_share replaced
  cleanup,     \* the removal of the files of a share taken from the store
  disk,        \* the staged files that exist
  download     \* the path a download of each address was granted

shareVars   == <<active, settings>>
requestVars == <<requests, attempts, prepare, supplied, listed, approved>>
fileVars    == <<start, files, previous, cleanup, disk>>
vars        == <<shareVars, requestVars, fileVars, download>>

NoEntry  == [id |-> NoRequest, status |-> "None"]
Empty    == [ip \in Address |-> NoEntry]
Unguessed == [ip \in Address |-> 0]
Settings == [auto : BOOLEAN, pin : Pin \union {NoPin}]
NoPath   == <<NoShare, NoShare>>

Init ==
  /\ active = NoShare
  /\ settings = [auto |-> FALSE, pin |-> NoPin]
  /\ requests = Empty
  /\ attempts = Unguessed
  /\ prepare = [r \in Request |-> "Idle"]
  /\ supplied = [r \in Request |-> NoPin]
  /\ listed = [r \in Request |-> NoShare]
  /\ approved = {}
  /\ start = [s \in Share |-> "Idle"]
  /\ files = [s \in Share |-> {}]
  /\ previous = [s \in Share |-> NoShare]
  /\ cleanup = [s \in Share |-> "None"]
  /\ disk = {}
  /\ download = [ip \in Address |-> NoPath]

\* A handler whose request leaves the store gets "false", or finds the sender of
\* its channel gone, which it reads as "false" too.
Evict(gone) ==
  prepare' = [r \in Request |->
    IF r \in gone /\ prepare[r] = "Waiting" THEN "Refused" ELSE prepare[r]]

Listed == {requests[ip].id : ip \in Address} \ {NoRequest}

\* reject_all_requests
RejectAll == requests' = Empty /\ Evict(Listed)

(***************************************************************************)
(* POST /share                                                             *)
(***************************************************************************)

\* The next part of the upload is a file, written below temp_dir.
StageFile(s, f) ==
  /\ start[s] \in {"Idle", "Staging"}
  /\ f \notin files[s]
  /\ start' = [start EXCEPT ![s] = "Staging"]
  /\ files' = [files EXCEPT ![s] = @ \union {f}]
  /\ disk' = disk \union {<<s, f>>}
  /\ UNCHANGED <<shareVars, requestVars, previous, cleanup, download>>

\* Mutant of AbortStart: nobody removes what was staged.
AbortStartUnguarded(s) ==
  /\ start[s] = "Staging"
  /\ start' = [start EXCEPT ![s] = "Done"]
  /\ UNCHANGED <<shareVars, requestVars, files, previous, cleanup, disk, download>>

\* A limit, a bad field or an I/O error ends the request, or its connection
\* closes: the guard is armed.
AbortStart(s) ==
  /\ start[s] = "Staging"
  /\ start' = [start EXCEPT ![s] = "Discarding"]
  /\ UNCHANGED <<shareVars, requestVars, files, previous, cleanup, disk, download>>

\* Mutant of InstallShare: the new share is cleaned up instead of the old one.
InstallShareSwapped(s, new) ==
  /\ start[s] = "Staging"
  /\ active' = s
  /\ settings' = new
  /\ RejectAll
  /\ attempts' = Unguessed
  /\ previous' = [previous EXCEPT ![s] = active]
  /\ start' = [start EXCEPT ![s] = "Replacing"]
  /\ cleanup' = [cleanup EXCEPT ![s] = "Running"]
  /\ UNCHANGED <<supplied, listed, approved, files, disk, download>>

\* replace_share: the new share is swapped in and the requests of the old one are
\* rejected; its files are removed before the guard is disarmed.
InstallShare(s, new) ==
  /\ start[s] = "Staging"
  /\ active' = s
  /\ settings' = new
  /\ RejectAll
  /\ attempts' = Unguessed
  /\ previous' = [previous EXCEPT ![s] = active]
  /\ IF active = NoShare
     THEN start' = [start EXCEPT ![s] = "Done"] /\ UNCHANGED cleanup
     ELSE /\ start' = [start EXCEPT ![s] = "Replacing"]
          /\ cleanup' = [cleanup EXCEPT ![active] = "Running"]
  /\ UNCHANGED <<supplied, listed, approved, files, disk, download>>

\* The task of the armed guard removes what was staged.
DiscardFile(s, f) ==
  /\ start[s] = "Discarding"
  /\ <<s, f>> \in disk
  /\ disk' = disk \ {<<s, f>>}
  /\ UNCHANGED <<shareVars, requestVars, start, files, previous, cleanup, download>>

(***************************************************************************)
(* PUT and DELETE /share, and the removal of files                         *)
(***************************************************************************)

\* Mutant of UpdateShare: another PIN rejects nobody.
UpdateShareKeepsRequests(new) ==
  /\ active # NoShare
  /\ settings' = new
  /\ attempts' = IF new.pin = settings.pin THEN attempts ELSE Unguessed
  /\ UNCHANGED <<active, requests, prepare, supplied, listed, approved, fileVars, download>>

\* Another PIN clears the attempts and rejects everybody, accepted or not.
UpdateShare(new) ==
  /\ active # NoShare
  /\ settings' = new
  /\ IF new.pin = settings.pin
     THEN UNCHANGED <<requests, attempts, prepare>>
     ELSE RejectAll /\ attempts' = Unguessed
  /\ UNCHANGED <<active, supplied, listed, approved, fileVars, download>>

\* Mutant of StopShare: the files stay.
StopShareKeepsFiles(s) ==
  /\ active = s
  /\ active' = NoShare
  /\ RejectAll
  /\ UNCHANGED <<settings, attempts, supplied, listed, approved, fileVars, download>>

StopShare(s) ==
  /\ active = s
  /\ active' = NoShare
  /\ RejectAll
  /\ cleanup' = [cleanup EXCEPT ![s] = "Running"]
  /\ UNCHANGED <<settings, attempts, supplied, listed, approved>>
  /\ UNCHANGED <<start, files, previous, disk, download>>

RemoveFile(s, f) ==
  /\ cleanup[s] = "Running"
  /\ <<s, f>> \in disk
  /\ disk' = disk \ {<<s, f>>}
  /\ UNCHANGED <<shareVars, requestVars, start, files, previous, cleanup, download>>

\* The start_share that replaced s waits for the cleanup; what becomes of it.
Replacer(s, state) ==
  start' = [t \in Share |->
    IF start[t] = "Replacing" /\ previous[t] = s THEN state ELSE start[t]]

FilesOn(s) == {f \in File : <<s, f>> \in disk}

\* cleanup_share returns; start_share disarms its guard.
FinishCleanup(s) ==
  /\ cleanup[s] = "Running"
  /\ FilesOn(s) = {}
  /\ cleanup' = [cleanup EXCEPT ![s] = "Done"]
  /\ Replacer(s, "Done")
  /\ UNCHANGED <<shareVars, requestVars, files, previous, disk, download>>

\* The connection closes during the cleanup: the rest of it is lost, and the
\* guard of a start_share, still armed, discards the files of the new share.
DropCleanup(s) ==
  /\ cleanup[s] = "Running"
  /\ FilesOn(s) # {}
  /\ cleanup' = [cleanup EXCEPT ![s] = "Lost"]
  /\ Replacer(s, "Discarding")
  /\ UNCHANGED <<shareVars, requestVars, files, previous, disk, download>>

\* The process dies and starts again: memory is lost, and
\* cleanup_stale_share_files removes every staged file before the router is up.
Restart ==
  /\ \E s \in Share : start[s] # "Idle"
  /\ active' = NoShare
  /\ requests' = Empty
  /\ attempts' = Unguessed
  /\ prepare' = [r \in Request |-> IF prepare[r] = "Idle" THEN "Idle" ELSE "Closed"]
  /\ start' = [s \in Share |-> IF start[s] = "Idle" THEN "Idle" ELSE "Done"]
  /\ cleanup' = [s \in Share |-> IF cleanup[s] = "None" THEN "None" ELSE "Done"]
  /\ disk' = {}
  /\ download' = [ip \in Address |-> NoPath]
  /\ UNCHANGED <<settings, supplied, listed, approved, files, previous>>

(***************************************************************************)
(* POST prepare-download                                                   *)
(***************************************************************************)
Accepted(ip) == active # NoShare /\ requests[ip].status = "Accepted"

\* A browser that was accepted asks again with its session id.
ListAgain(r) ==
  /\ prepare[r] = "Idle"
  /\ Accepted(AddressOf[r])
  /\ listed' = [listed EXCEPT ![r] = active]
  /\ prepare' = [prepare EXCEPT ![r] = "Closed"]
  /\ UNCHANGED <<shareVars, requests, attempts, supplied, approved, fileVars, download>>

\* check_pin refuses: a wrong PIN counts, and after the last attempt any PIN is
\* refused without a trace.
MisguessPin(ip) ==
  /\ active # NoShare
  /\ settings.pin # NoPin
  /\ attempts[ip] < MaxPinAttempts
  /\ attempts' = [attempts EXCEPT ![ip] = @ + 1]
  /\ UNCHANGED <<shareVars, requests, prepare, supplied, listed, approved, fileVars, download>>

\* Mutant of PinPasses: the right PIN always passes.
PinPassesUnlimited(ip, pin) == settings.pin = NoPin \/ pin = settings.pin

\* check_pin lets a request pass.
PinPasses(ip, pin) ==
  settings.pin = NoPin \/ (attempts[ip] < MaxPinAttempts /\ pin = settings.pin)

\* The request supersedes the one of its address, accepted or not, and waits for
\* the user unless everybody is accepted.
AdmitRequest(r, pin) ==
  LET ip == AddressOf[r] IN
  /\ prepare[r] = "Idle"
  /\ active # NoShare
  /\ PinPasses(ip, pin)
  /\ attempts' = IF settings.pin = NoPin THEN attempts ELSE [attempts EXCEPT ![ip] = 0]
  /\ supplied' = [supplied EXCEPT ![r] = pin]
  /\ prepare' = [q \in Request |->
       IF q = r THEN (IF settings.auto THEN "Granted" ELSE "Waiting")
       ELSE IF q = requests[ip].id /\ prepare[q] = "Waiting" THEN "Refused"
       ELSE prepare[q]]
  /\ requests' = [requests EXCEPT ![ip] =
       [id |-> r, status |-> IF settings.auto THEN "Accepted" ELSE "Pending"]]
  /\ approved' = IF settings.auto THEN approved \union {<<active, ip>>} ELSE approved
  /\ UNCHANGED <<shareVars, listed, fileVars, download>>

\* Mutant of ClearPendingRequest: the pending request of the address is removed,
\* whosever it is.
ClearAnyRequest(r) ==
  LET ip == AddressOf[r] IN
  /\ prepare[r] \in {"Refused", "Dropped"}
  /\ requests' = IF requests[ip].status = "Pending"
                 THEN [requests EXCEPT ![ip] = NoEntry] ELSE requests
  /\ prepare' = [q \in Request |->
       IF q = r THEN "Closed"
       ELSE IF requests'[ip] # requests[ip] /\ q = requests[ip].id /\ prepare[q] = "Waiting"
            THEN "Refused"
       ELSE prepare[q]]
  /\ UNCHANGED <<shareVars, attempts, supplied, listed, approved, fileVars, download>>

\* clear_pending_request, by the handler itself or by the task of its guard:
\* only its own request, and only while that is pending.
ClearPendingRequest(r) ==
  LET ip == AddressOf[r] IN
  /\ prepare[r] \in {"Refused", "Dropped"}
  /\ requests' = IF requests[ip] = [id |-> r, status |-> "Pending"]
                 THEN [requests EXCEPT ![ip] = NoEntry] ELSE requests
  /\ prepare' = [q \in Request |->
       IF q = r THEN "Closed"
       ELSE IF requests'[ip] # requests[ip] /\ q = requests[ip].id /\ prepare[q] = "Waiting"
            THEN "Refused"
       ELSE prepare[q]]
  /\ UNCHANGED <<shareVars, attempts, supplied, listed, approved, fileVars, download>>

\* Mutant of DropRequest: no guard clears the entry.
DropRequestUnguarded(r) ==
  /\ prepare[r] \in {"Waiting", "Refused", "Granted"}
  /\ prepare' = [prepare EXCEPT ![r] = "Closed"]
  /\ UNCHANGED <<shareVars, requests, attempts, supplied, listed, approved, fileVars, download>>

\* The browser goes away, before or after the decision was sent.
DropRequest(r) ==
  /\ prepare[r] \in {"Waiting", "Refused", "Granted"}
  /\ prepare' = [prepare EXCEPT ![r] = "Dropped"]
  /\ UNCHANGED <<shareVars, requests, attempts, supplied, listed, approved, fileVars, download>>

\* Mutant of AnswerGranted: the decision is taken for good.
AnswerGrantedUnchecked(r) ==
  /\ prepare[r] = "Granted"
  /\ prepare' = [prepare EXCEPT ![r] = "Closed"]
  /\ listed' = [listed EXCEPT ![r] = active]
  /\ UNCHANGED <<shareVars, requests, attempts, supplied, approved, fileVars, download>>

\* After the decision the store is read again: the address must still be, or be
\* again, accepted for the share that is active now.
AnswerGranted(r) ==
  /\ prepare[r] = "Granted"
  /\ prepare' = [prepare EXCEPT ![r] = "Closed"]
  /\ listed' = IF Accepted(AddressOf[r]) THEN [listed EXCEPT ![r] = active] ELSE listed
  /\ UNCHANGED <<shareVars, requests, attempts, supplied, approved, fileVars, download>>

(***************************************************************************)
(* POST /share/requests/{session_id}/{decision}                            *)
(***************************************************************************)
AcceptRequest(ip) ==
  /\ active # NoShare
  /\ requests[ip] # NoEntry
  /\ requests' = [requests EXCEPT ![ip].status = "Accepted"]
  /\ prepare' = [r \in Request |->
       IF r = requests[ip].id /\ prepare[r] = "Waiting" THEN "Granted" ELSE prepare[r]]
  /\ approved' = approved \union {<<active, ip>>}
  /\ UNCHANGED <<shareVars, attempts, supplied, listed, fileVars, download>>

\* Also withdraws an acceptance.
RejectRequest(ip) ==
  /\ active # NoShare
  /\ requests[ip] # NoEntry
  /\ requests' = [requests EXCEPT ![ip] = NoEntry]
  /\ Evict({requests[ip].id})
  /\ UNCHANGED <<shareVars, attempts, supplied, listed, approved, fileVars, download>>

(***************************************************************************)
(* GET download: the path is looked up under the lock and opened after it. *)
(***************************************************************************)
GrantDownload(ip, f) ==
  /\ download[ip] = NoPath
  /\ Accepted(ip)
  /\ f \in files[active]
  /\ download' = [download EXCEPT ![ip] = <<active, f>>]
  /\ UNCHANGED <<shareVars, requestVars, fileVars>>

\* The file is sent, or the request fails because it is gone.
OpenFile(ip) ==
  /\ download[ip] # NoPath
  /\ download' = [download EXCEPT ![ip] = NoPath]
  /\ UNCHANGED <<shareVars, requestVars, fileVars>>

ShareStep(s) ==
  \/ AbortStart(s) \/ StopShare(s) \/ FinishCleanup(s) \/ DropCleanup(s)
  \/ \E new \in Settings : InstallShare(s, new)
  \/ \E f \in File : StageFile(s, f) \/ DiscardFile(s, f) \/ RemoveFile(s, f)

RequestStep(r) ==
  \/ ListAgain(r) \/ ClearPendingRequest(r) \/ DropRequest(r) \/ AnswerGranted(r)
  \/ \E pin \in Pin \union {NoPin} : AdmitRequest(r, pin)

AddressStep(ip) ==
  \/ MisguessPin(ip) \/ AcceptRequest(ip) \/ RejectRequest(ip) \/ OpenFile(ip)
  \/ \E f \in File : GrantDownload(ip, f)

Next ==
  \/ \E s \in Share : ShareStep(s)
  \/ \E r \in Request : RequestStep(r)
  \/ \E ip \in Address : AddressStep(ip)
  \/ \E new \in Settings : UpdateShare(new)
  \/ Restart

Spec == Init /\ [][Next]_vars

\* Fairness: cleanups go on unless dropped, and the tasks of the guards run.
\* Nothing is assumed of the user or of browsers.
FairSpec ==
  /\ Spec
  /\ \A s \in Share :
       /\ WF_vars(FinishCleanup(s))
       /\ \A f \in File : WF_vars(RemoveFile(s, f)) /\ WF_vars(DiscardFile(s, f))

(***************************************************************************)
(* Properties                                                              *)
(***************************************************************************)
PrepareState == {"Idle", "Waiting", "Granted", "Refused", "Dropped", "Closed"}

LinkShareTypeOK ==
  /\ active \in Share \union {NoShare}
  /\ settings \in Settings
  /\ requests \in [Address -> [id : Request \union {NoRequest},
                               status : {"None", "Pending", "Accepted"}]]
  /\ attempts \in [Address -> 0..MaxPinAttempts]
  /\ prepare \in [Request -> PrepareState]
  /\ supplied \in [Request -> Pin \union {NoPin}]
  /\ listed \in [Request -> Share \union {NoShare}]
  /\ approved \in SUBSET (Share \X Address)
  /\ start \in [Share -> {"Idle", "Staging", "Replacing", "Discarding", "Done"}]
  /\ files \in [Share -> SUBSET File]
  /\ previous \in [Share -> Share \union {NoShare}]
  /\ cleanup \in [Share -> {"None", "Running", "Done", "Lost"}]
  /\ disk \in SUBSET (Share \X File)
  /\ download \in [Address -> (Share \X File) \union {NoPath}]

\* Nobody waits for a decision that cannot come: a waiting handler has its entry,
\* still pending, in the store.  And the user is asked about nobody who left,
\* except until the task of the guard has run.
PendingIsAwaited ==
  \A r \in Request :
    LET entry == [id |-> r, status |-> "Pending"] IN
    /\ prepare[r] = "Waiting" => requests[AddressOf[r]] = entry
    /\ requests[AddressOf[r]] = entry => prepare[r] \in {"Waiting", "Dropped"}

\* "Changing the PIN disconnects browsers that were already accepted": whoever is
\* listed, pending or accepted, came with the PIN that is set now.
AdmittedWithPin ==
  \A ip \in Address :
    requests[ip] # NoEntry /\ settings.pin # NoPin => supplied[requests[ip].id] = settings.pin

\* A file list or a file goes only to an address that was accepted for this very
\* share, even if the share was replaced between the decision and the answer.
ServedWasApproved ==
  /\ \A r \in Request : listed[r] # NoShare => <<listed[r], AddressOf[r]>> \in approved
  /\ \A ip \in Address : download[ip] # NoPath => <<download[ip][1], ip>> \in approved

\* The request of a waiting browser is removed by a decision, by a newer request
\* of its address or with the share or the PIN, never by the cleanup of an older
\* request of the same address.
LiveRequestKept ==
  [][\A r \in Request : prepare[r] = "Waiting" /\ prepare'[r] = "Refused" =>
       \/ active' # active \/ settings'.pin # settings.pin
       \/ RejectRequest(AddressOf[r])
       \/ requests'[AddressOf[r]].id \notin {r, NoRequest}]_vars

\* After MAX_PIN_ATTEMPTS wrong PINs no request of the address is admitted, with
\* whatever PIN, until the PIN changes or another share starts.
LockedOut ==
  [][\A ip \in Address :
       /\ active # NoShare /\ settings.pin # NoPin /\ attempts[ip] = MaxPinAttempts
       /\ active' = active /\ settings'.pin = settings.pin
       => requests'[ip].id \in {requests[ip].id, NoRequest}]_vars

\* "Accepted browsers may download its files repeatedly while it remains active":
\* the files of the active share exist.
ActiveFilesExist ==
  \A s \in Share : active = s => {s} \X files[s] \subseteq disk

\* Only the guard of its own start_share, dropped in the middle of replacing the
\* share before, ever takes the files of the active share away.
ActiveFilesKept ==
  \A s \in Share :
    active = s /\ start[s] # "Discarding" => {s} \X files[s] \subseteq disk

\* "Stopping the share ... removes its staged files": a staged file belongs to an
\* upload in progress, to the active share, to a removal that is under way, or
\* to one that was dropped half-way.
StagedFilesOwned ==
  \A path \in disk :
    \/ active = path[1]
    \/ start[path[1]] \in {"Staging", "Discarding"}
    \/ cleanup[path[1]] \in {"Running", "Lost"}

\* The files of a share that is over are eventually gone, unless the request that
\* removes them is dropped.
FilesRemoved ==
  \A s \in Share, f \in File :
    <<s, f>> \in disk /\ active # s /\ start[s] # "Staging"
      ~> <<s, f>> \notin disk \/ cleanup[s] = "Lost"

(***************************************************************************)
(* The refinement: whose request says what in the store, and what was sent *)
(* to whom.                                                                *)
(***************************************************************************)
Past == {s \in Share : start[s] \notin {"Idle", "Staging"}}
WithStatus(status) == {ip \in Address : requests[ip].status = status}
Given == {<<listed[r], AddressOf[r]>> : r \in {r \in Request : listed[r] # NoShare}}

Access == INSTANCE ShareAccess WITH
  Terms <- Settings, open <- active, past <- Past, terms <- settings,
  asking <- WithStatus("Pending"), admitted <- WithStatus("Accepted"),
  given <- Given, reading <- [ip \in Address |-> download[ip][1]]

\* "Accepted browsers may download its files": whatever is dropped, superseded,
\* replaced, decided twice or answered late, an address is given a list or a file of
\* the active share only while it is accepted for it, and is not accepted any more
\* once it asked again, the PIN changed, the share was replaced or the user withdrew.
ImplementsAccess == Access!AccessSpec
=============================================================================

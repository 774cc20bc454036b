--------------------------- MODULE LinkShareProofs ---------------------------
(***************************************************************************)
(* Theorems about the requests and downloads of a link share, for every    *)
(* set of shares, requests, addresses, files and PINs.                     *)
(***************************************************************************)
EXTENDS LinkShare, TLAPS

USE LinkShareAssumption

(***************************************************************************)
(* Typing.                                                                 *)
(***************************************************************************)
LEMMA TypeInit == ASSUME Init PROVE LinkShareTypeOK
BY DEF Init, LinkShareTypeOK, Settings, Empty, NoEntry, Unguessed, NoPath, PrepareState

LEMMA EvictType ==
  ASSUME LinkShareTypeOK, NEW gone, Evict(gone)
  PROVE  prepare' \in [Request -> PrepareState]
BY DEF LinkShareTypeOK, Evict, PrepareState

LEMMA TypeShareStep ==
  ASSUME LinkShareTypeOK, NEW s \in Share, ShareStep(s)
  PROVE  LinkShareTypeOK'
<1> USE DEF LinkShareTypeOK
<1>1. CASE AbortStart(s)
  BY <1>1 DEF AbortStart, shareVars, requestVars
<1>2. CASE StopShare(s)
  BY <1>2, EvictType DEF StopShare, RejectAll, Empty, NoEntry
<1>3. CASE FinishCleanup(s)
  BY <1>3 DEF FinishCleanup, Replacer, shareVars, requestVars
<1>4. CASE DropCleanup(s)
  BY <1>4 DEF DropCleanup, Replacer, shareVars, requestVars
<1>5. ASSUME NEW new \in Settings, InstallShare(s, new)
      PROVE  LinkShareTypeOK'
  <2>1. prepare' \in [Request -> PrepareState]
    BY <1>5, EvictType DEF InstallShare, RejectAll
  <2>2. /\ requests' \in [Address -> [id : Request \union {NoRequest},
                                      status : {"None", "Pending", "Accepted"}]]
        /\ attempts' \in [Address -> 0..MaxPinAttempts]
    BY <1>5, LinkShareAssumption DEF InstallShare, RejectAll, Empty, NoEntry, Unguessed
  <2>3. /\ start' \in [Share -> {"Idle", "Staging", "Replacing", "Discarding", "Done"}]
        /\ cleanup' \in [Share -> {"None", "Running", "Done", "Lost"}]
        /\ previous' \in [Share -> Share \union {NoShare}]
    BY <1>5 DEF InstallShare
  <2> QED BY <1>5, <2>1, <2>2, <2>3 DEF InstallShare
<1>6. ASSUME NEW f \in File, StageFile(s, f) \/ DiscardFile(s, f) \/ RemoveFile(s, f)
      PROVE  LinkShareTypeOK'
  <2>1. /\ start' \in [Share -> {"Idle", "Staging", "Replacing", "Discarding", "Done"}]
        /\ files' \in [Share -> SUBSET File]
        /\ disk' \in SUBSET (Share \X File)
    <3>1. CASE StageFile(s, f)
      BY <1>6, <3>1 DEF StageFile
    <3>2. CASE DiscardFile(s, f) \/ RemoveFile(s, f)
      BY <3>2 DEF DiscardFile, RemoveFile
    <3> QED BY <1>6, <3>1, <3>2
  <2>2. UNCHANGED <<shareVars, requestVars, previous, cleanup, download>>
    BY <1>6 DEF StageFile, DiscardFile, RemoveFile
  <2> QED BY <2>1, <2>2 DEF shareVars, requestVars
<1> QED BY <1>1, <1>2, <1>3, <1>4, <1>5, <1>6 DEF ShareStep

LEMMA TypeRequestStep ==
  ASSUME LinkShareTypeOK, NEW r \in Request, RequestStep(r)
  PROVE  LinkShareTypeOK'
<1> USE DEF LinkShareTypeOK, shareVars, fileVars
<1>1. CASE ListAgain(r)
  BY <1>1 DEF ListAgain, PrepareState
<1>2. CASE ClearPendingRequest(r)
  <2>1. prepare' \in [Request -> PrepareState]
    BY <1>2 DEF ClearPendingRequest, PrepareState
  <2>2. requests' \in [Address -> [id : Request \union {NoRequest},
                                   status : {"None", "Pending", "Accepted"}]]
    BY <1>2 DEF ClearPendingRequest, NoEntry
  <2> QED BY <1>2, <2>1, <2>2 DEF ClearPendingRequest
<1>3. CASE DropRequest(r)
  BY <1>3 DEF DropRequest, PrepareState
<1>4. CASE AnswerGranted(r)
  BY <1>4 DEF AnswerGranted, PrepareState
<1>5. ASSUME NEW pin \in Pin \union {NoPin}, AdmitRequest(r, pin)
      PROVE  LinkShareTypeOK'
  <2>1. AddressOf[r] \in Address
    OBVIOUS
  <2>2. prepare' \in [Request -> PrepareState]
    BY <1>5 DEF AdmitRequest, PrepareState
  <2>3. requests' \in [Address -> [id : Request \union {NoRequest},
                                   status : {"None", "Pending", "Accepted"}]]
    BY <1>5, <2>1 DEF AdmitRequest
  <2>4. attempts' \in [Address -> 0..MaxPinAttempts]
    BY <1>5, <2>1 DEF AdmitRequest
  <2>5. approved' \in SUBSET (Share \X Address)
    BY <1>5, <2>1 DEF AdmitRequest
  <2>6. supplied' \in [Request -> Pin \union {NoPin}]
    BY <1>5 DEF AdmitRequest
  <2> QED BY <1>5, <2>2, <2>3, <2>4, <2>5, <2>6 DEF AdmitRequest
<1> QED BY <1>1, <1>2, <1>3, <1>4, <1>5 DEF RequestStep

LEMMA TypeAddressStep ==
  ASSUME LinkShareTypeOK, NEW ip \in Address, AddressStep(ip)
  PROVE  LinkShareTypeOK'
<1> USE DEF LinkShareTypeOK, shareVars, requestVars, fileVars
<1>1. CASE MisguessPin(ip)
  BY <1>1 DEF MisguessPin
<1>2. CASE AcceptRequest(ip)
  <2>1. prepare' \in [Request -> PrepareState]
    BY <1>2 DEF AcceptRequest, PrepareState
  <2>2. requests' \in [Address -> [id : Request \union {NoRequest},
                                   status : {"None", "Pending", "Accepted"}]]
    BY <1>2 DEF AcceptRequest
  <2>3. approved' \in SUBSET (Share \X Address)
    BY <1>2 DEF AcceptRequest
  <2> QED BY <1>2, <2>1, <2>2, <2>3 DEF AcceptRequest
<1>3. CASE RejectRequest(ip)
  BY <1>3, EvictType DEF RejectRequest, NoEntry
<1>4. CASE OpenFile(ip)
  BY <1>4 DEF OpenFile
<1>5. ASSUME NEW f \in File, GrantDownload(ip, f)
      PROVE  LinkShareTypeOK'
  <2>1. <<active, f>> \in Share \X File
    BY <1>5 DEF GrantDownload, Accepted
  <2> QED BY <1>5, <2>1 DEF GrantDownload
<1> QED BY <1>1, <1>2, <1>3, <1>4, <1>5 DEF AddressStep

LEMMA TypeNext == ASSUME LinkShareTypeOK, [Next]_vars PROVE LinkShareTypeOK'
<1>1. ASSUME NEW new \in Settings, UpdateShare(new)
      PROVE  LinkShareTypeOK'
  <2>1. CASE new.pin = settings.pin
    BY <1>1, <2>1 DEF UpdateShare, LinkShareTypeOK, fileVars
  <2>2. CASE new.pin # settings.pin
    BY <1>1, <2>2, EvictType
    DEF UpdateShare, LinkShareTypeOK, RejectAll, Empty, NoEntry, Unguessed, fileVars
  <2> QED BY <2>1, <2>2
<1>2. CASE Restart
  BY <1>2 DEF Restart, LinkShareTypeOK, Empty, NoEntry, Unguessed, NoPath, PrepareState
<1>3. CASE UNCHANGED vars
  BY <1>3 DEF vars, shareVars, requestVars, fileVars, LinkShareTypeOK
<1> QED BY <1>1, <1>2, <1>3, TypeShareStep, TypeRequestStep, TypeAddressStep DEF Next

(***************************************************************************)
(* The inductive invariant.  An entry of the store names a request of its  *)
(* own address; a store without a share has no entries; an accepted entry  *)
(* was accepted for the share that is active now.                          *)
(***************************************************************************)
EntriesNamed ==
  \A ip \in Address : requests[ip] # NoEntry =>
    /\ requests[ip].id \in Request
    /\ AddressOf[requests[ip].id] = ip
    /\ requests[ip].status \in {"Pending", "Accepted"}

EntriesNeedShare == active = NoShare => \A ip \in Address : requests[ip] = NoEntry

AcceptedIsApproved ==
  \A ip \in Address : requests[ip].status = "Accepted" => <<active, ip>> \in approved

ShareInv ==
  /\ LinkShareTypeOK
  /\ EntriesNamed
  /\ EntriesNeedShare
  /\ AcceptedIsApproved
  /\ PendingIsAwaited
  /\ AdmittedWithPin
  /\ ServedWasApproved

\* All of it but the typing.
Entries ==
  /\ EntriesNamed /\ EntriesNeedShare /\ AcceptedIsApproved
  /\ PendingIsAwaited /\ AdmittedWithPin /\ ServedWasApproved

LEMMA EntriesInit == ASSUME Init PROVE Entries
BY DEF Init, Entries, EntriesNamed, EntriesNeedShare, AcceptedIsApproved, PendingIsAwaited,
       AdmittedWithPin, ServedWasApproved, Empty, NoEntry, NoPath

\* Steps that touch neither the share, nor the requests, nor the downloads.
LEMMA EntriesUnaffected ==
  ASSUME Entries, UNCHANGED <<shareVars, requestVars, download>>
  PROVE  Entries'
BY DEF Entries, EntriesNamed, EntriesNeedShare, AcceptedIsApproved, PendingIsAwaited,
       AdmittedWithPin, ServedWasApproved, shareVars, requestVars, Accepted

\* When every request is rejected nothing is left to be wrong.
LEMMA EntriesRejected ==
  ASSUME LinkShareTypeOK, Entries, RejectAll, UNCHANGED <<listed, approved, supplied, download>>
  PROVE  Entries'
<1>1. \A ip \in Address : requests'[ip] = NoEntry
  BY DEF RejectAll, Empty
<1>2. \A r \in Request : prepare'[r] # "Waiting"
  <2> SUFFICES ASSUME NEW r \in Request, prepare[r] = "Waiting" PROVE prepare'[r] = "Refused"
    BY DEF RejectAll, Evict
  <2>1. requests[AddressOf[r]] = [id |-> r, status |-> "Pending"]
    BY DEF Entries, PendingIsAwaited
  <2>2. AddressOf[r] \in Address /\ r # NoRequest
    BY LinkShareAssumption
  <2>3. r \in {requests[a].id : a \in Address}
    BY <2>1, <2>2
  <2>4. r \in Listed
    BY <2>2, <2>3 DEF Listed
  <2> QED BY <2>4 DEF RejectAll, Evict
<1>3. ServedWasApproved'
  BY DEF Entries, ServedWasApproved
<1>4. PendingIsAwaited'
  BY <1>1, <1>2 DEF PendingIsAwaited, NoEntry
<1> QED BY <1>1, <1>3, <1>4
        DEF Entries, EntriesNamed, EntriesNeedShare, AcceptedIsApproved, AdmittedWithPin, NoEntry

LEMMA EntriesShareStep ==
  ASSUME LinkShareTypeOK, Entries, NEW s \in Share, ShareStep(s)
  PROVE  Entries'
<1>1. CASE AbortStart(s) \/ FinishCleanup(s) \/ DropCleanup(s)
  BY <1>1, EntriesUnaffected DEF AbortStart, FinishCleanup, DropCleanup
<1>2. CASE StopShare(s)
  BY <1>2, EntriesRejected DEF StopShare
<1>3. ASSUME NEW new \in Settings, InstallShare(s, new) PROVE Entries'
  BY <1>3, EntriesRejected DEF InstallShare
<1>4. ASSUME NEW f \in File, StageFile(s, f) \/ DiscardFile(s, f) \/ RemoveFile(s, f)
      PROVE  Entries'
  BY <1>4, EntriesUnaffected DEF StageFile, DiscardFile, RemoveFile
<1> QED BY <1>1, <1>2, <1>3, <1>4 DEF ShareStep

LEMMA EntriesUpdate ==
  ASSUME LinkShareTypeOK, Entries, NEW new \in Settings, UpdateShare(new)
  PROVE  Entries'
<1>1. CASE new.pin # settings.pin
  BY <1>1, EntriesRejected DEF UpdateShare
<1>2. CASE new.pin = settings.pin
  <2>1. /\ UNCHANGED <<active, requestVars, download>>
        /\ settings'.pin = settings.pin
    BY <1>2 DEF UpdateShare, requestVars
  <2> QED BY <2>1 DEF Entries, EntriesNamed, EntriesNeedShare, AcceptedIsApproved,
                      PendingIsAwaited, AdmittedWithPin, ServedWasApproved, requestVars
<1> QED BY <1>1, <1>2

LEMMA EntriesRequestStep ==
  ASSUME LinkShareTypeOK, Entries, NEW r \in Request, RequestStep(r)
  PROVE  Entries'
<1> DEFINE ip == AddressOf[r]
<1>0. ip \in Address
  OBVIOUS
<1>1. CASE ListAgain(r)
  <2>1. UNCHANGED <<shareVars, requests, supplied, approved, download>>
    BY <1>1 DEF ListAgain
  <2>2. ServedWasApproved'
    BY <1>0, <1>1, <2>1 DEF ListAgain, Accepted, Entries, AcceptedIsApproved, ServedWasApproved,
                            LinkShareTypeOK
  <2>3. PendingIsAwaited'
    BY <1>1, <2>1 DEF ListAgain, Entries, PendingIsAwaited, LinkShareTypeOK
  <2> QED BY <2>1, <2>2, <2>3 DEF Entries, EntriesNamed, EntriesNeedShare, AcceptedIsApproved,
                                  AdmittedWithPin, shareVars
<1>2. CASE ClearPendingRequest(r)
  <2>1. UNCHANGED <<shareVars, listed, supplied, approved, download>>
    BY <1>2 DEF ClearPendingRequest
  <2>2. \A a \in Address : requests'[a] = requests[a] \/ requests'[a] = NoEntry
    BY <1>0, <1>2 DEF ClearPendingRequest, LinkShareTypeOK
  <2>3. \A q \in Request : prepare'[q] = IF q = r THEN "Closed" ELSE prepare[q]
    BY <1>0, <1>2 DEF ClearPendingRequest, LinkShareTypeOK
  <2>4. requests'[ip] # [id |-> r, status |-> "Pending"]
    BY <1>0, <1>2 DEF ClearPendingRequest, LinkShareTypeOK, NoEntry
  <2>5. \A a \in Address : requests'[a] # requests[a] => requests[a].id = r
    BY <1>0, <1>2 DEF ClearPendingRequest, LinkShareTypeOK
  <2>6. PendingIsAwaited'
    <3> SUFFICES ASSUME NEW q \in Request
                 PROVE  LET entry == [id |-> q, status |-> "Pending"] IN
                        /\ prepare'[q] = "Waiting" => requests'[AddressOf[q]] = entry
                        /\ requests'[AddressOf[q]] = entry => prepare'[q] \in {"Waiting", "Dropped"}
      BY DEF PendingIsAwaited
    <3>1. AddressOf[q] \in Address
      BY LinkShareAssumption
    <3>2. CASE q = r
      BY <2>3, <2>4, <3>2
    <3>3. CASE q # r /\ requests'[AddressOf[q]] = requests[AddressOf[q]]
      BY <2>3, <3>3 DEF Entries, PendingIsAwaited
    <3>4. CASE q # r /\ requests'[AddressOf[q]] # requests[AddressOf[q]]
      <4>1. requests'[AddressOf[q]] = NoEntry /\ requests[AddressOf[q]].id = r
        BY <2>2, <2>5, <3>1, <3>4
      <4>2. requests[AddressOf[q]] # [id |-> q, status |-> "Pending"]
        BY <3>4, <4>1
      <4>3. prepare[q] # "Waiting"
        BY <4>2 DEF Entries, PendingIsAwaited
      <4>4. NoEntry # [id |-> q, status |-> "Pending"]
        BY DEF NoEntry
      <4> QED BY <2>3, <3>4, <4>1, <4>3, <4>4
    <3> QED BY <3>2, <3>3, <3>4
  <2> QED BY <2>1, <2>2, <2>6 DEF Entries, EntriesNamed, EntriesNeedShare, AcceptedIsApproved,
                                  AdmittedWithPin, ServedWasApproved, shareVars, NoEntry
<1>3. CASE DropRequest(r)
  <2>1. UNCHANGED <<shareVars, requests, supplied, listed, approved, download>>
    BY <1>3 DEF DropRequest
  <2>2. PendingIsAwaited'
    BY <1>3, <2>1 DEF DropRequest, Entries, PendingIsAwaited, LinkShareTypeOK
  <2> QED BY <2>1, <2>2 DEF Entries, EntriesNamed, EntriesNeedShare, AcceptedIsApproved,
                            AdmittedWithPin, ServedWasApproved, shareVars
<1>4. CASE AnswerGranted(r)
  <2>1. UNCHANGED <<shareVars, requests, supplied, approved, download>>
    BY <1>4 DEF AnswerGranted
  <2>2. ServedWasApproved'
    BY <1>0, <1>4, <2>1 DEF AnswerGranted, Accepted, Entries, AcceptedIsApproved,
                            ServedWasApproved, LinkShareTypeOK
  <2>3. PendingIsAwaited'
    BY <1>4, <2>1 DEF AnswerGranted, Entries, PendingIsAwaited, LinkShareTypeOK
  <2> QED BY <2>1, <2>2, <2>3 DEF Entries, EntriesNamed, EntriesNeedShare, AcceptedIsApproved,
                                  AdmittedWithPin, shareVars
<1>5. ASSUME NEW pin \in Pin \union {NoPin}, AdmitRequest(r, pin)
      PROVE  Entries'
  <2> DEFINE st == IF settings.auto THEN "Accepted" ELSE "Pending"
  <2>1. /\ UNCHANGED <<shareVars, listed, download>>
        /\ active # NoShare
        /\ prepare[r] = "Idle"
        /\ PinPasses(ip, pin)
    BY <1>5 DEF AdmitRequest
  <2>2. /\ requests'[ip] = [id |-> r, status |-> st]
        /\ \A a \in Address \ {ip} : requests'[a] = requests[a]
    BY <1>0, <1>5 DEF AdmitRequest, LinkShareTypeOK
  <2>3. /\ supplied'[r] = pin
        /\ \A q \in Request \ {r} : supplied'[q] = supplied[q]
    BY <1>5 DEF AdmitRequest, LinkShareTypeOK
  <2>4. \A q \in Request :
          prepare'[q] = IF q = r THEN (IF settings.auto THEN "Granted" ELSE "Waiting")
                        ELSE IF q = requests[ip].id /\ prepare[q] = "Waiting" THEN "Refused"
                        ELSE prepare[q]
    BY <1>5 DEF AdmitRequest
  <2>5. /\ approved \subseteq approved'
        /\ settings.auto => <<active, ip>> \in approved'
    BY <1>5 DEF AdmitRequest
  <2>6. EntriesNamed'
    BY <1>0, <2>2 DEF Entries, EntriesNamed, NoEntry
  <2>7. EntriesNeedShare'
    BY <2>1 DEF EntriesNeedShare, shareVars
  <2>8. AcceptedIsApproved'
    BY <1>0, <2>1, <2>2, <2>5 DEF Entries, AcceptedIsApproved, shareVars
  <2>9. PendingIsAwaited'
    <3> SUFFICES ASSUME NEW q \in Request
                 PROVE  LET entry == [id |-> q, status |-> "Pending"] IN
                        /\ prepare'[q] = "Waiting" => requests'[AddressOf[q]] = entry
                        /\ requests'[AddressOf[q]] = entry => prepare'[q] \in {"Waiting", "Dropped"}
      BY DEF PendingIsAwaited
    <3>1. CASE q = r
      BY <1>0, <2>2, <2>4, <3>1
    <3>2. CASE q # r /\ AddressOf[q] = ip
      BY <1>0, <2>2, <2>4, <3>2 DEF Entries, PendingIsAwaited
    <3>3. CASE q # r /\ AddressOf[q] # ip
      <4>1. requests[ip].id # q
        BY <1>0, <3>3 DEF Entries, EntriesNamed, NoEntry
      <4> QED BY <2>2, <2>4, <3>3, <4>1 DEF Entries, PendingIsAwaited
    <3> QED BY <3>1, <3>2, <3>3
  <2>10. AdmittedWithPin'
    <3> SUFFICES ASSUME NEW a \in Address, requests'[a] # NoEntry, settings.pin # NoPin
                 PROVE  supplied'[requests'[a].id] = settings.pin
      BY <2>1 DEF AdmittedWithPin, shareVars
    <3>1. CASE a = ip
      BY <2>1, <2>2, <2>3, <3>1 DEF PinPasses
    <3>2. CASE a # ip
      <4>1. /\ requests'[a] = requests[a]
            /\ requests[a].id \in Request \ {r}
        BY <2>2, <3>2 DEF Entries, EntriesNamed
      <4> QED BY <2>3, <4>1 DEF Entries, AdmittedWithPin
    <3> QED BY <3>1, <3>2
  <2>11. ServedWasApproved'
    BY <2>1, <2>5 DEF Entries, ServedWasApproved
  <2> QED BY <2>6, <2>7, <2>8, <2>9, <2>10, <2>11 DEF Entries
<1> QED BY <1>1, <1>2, <1>3, <1>4, <1>5 DEF RequestStep

LEMMA EntriesAddressStep ==
  ASSUME LinkShareTypeOK, Entries, NEW ip \in Address, AddressStep(ip)
  PROVE  Entries'
<1>1. CASE MisguessPin(ip)
  BY <1>1 DEF MisguessPin, Entries, EntriesNamed, EntriesNeedShare, AcceptedIsApproved,
              PendingIsAwaited, AdmittedWithPin, ServedWasApproved, shareVars
<1>2. CASE AcceptRequest(ip)
  <2>1. /\ UNCHANGED <<shareVars, supplied, listed, download>>
        /\ active # NoShare
        /\ requests[ip] # NoEntry
        /\ approved' = approved \union {<<active, ip>>}
    BY <1>2 DEF AcceptRequest
  <2>2. /\ requests'[ip] = [id |-> requests[ip].id, status |-> "Accepted"]
        /\ \A a \in Address \ {ip} : requests'[a] = requests[a]
    BY <1>2 DEF AcceptRequest, LinkShareTypeOK
  <2>3. \A q \in Request : prepare'[q] =
          IF q = requests[ip].id /\ prepare[q] = "Waiting" THEN "Granted" ELSE prepare[q]
    BY <1>2 DEF AcceptRequest
  <2>4. \A a \in Address : requests'[a] # NoEntry =>
          requests[a] # NoEntry /\ requests'[a].id = requests[a].id
    BY <2>1, <2>2
  <2>5. EntriesNamed'
    BY <2>2, <2>4 DEF Entries, EntriesNamed
  <2>6. EntriesNeedShare'
    BY <2>1 DEF EntriesNeedShare, shareVars
  <2>7. AcceptedIsApproved'
    BY <2>1, <2>2 DEF Entries, AcceptedIsApproved, shareVars
  <2>8. PendingIsAwaited'
    <3> SUFFICES ASSUME NEW q \in Request
                 PROVE  LET entry == [id |-> q, status |-> "Pending"] IN
                        /\ prepare'[q] = "Waiting" => requests'[AddressOf[q]] = entry
                        /\ requests'[AddressOf[q]] = entry => prepare'[q] \in {"Waiting", "Dropped"}
      BY DEF PendingIsAwaited
    <3>1. CASE AddressOf[q] = ip
      BY <2>2, <2>3, <3>1 DEF Entries, PendingIsAwaited
    <3>2. CASE AddressOf[q] # ip
      <4>1. requests[ip].id # q
        BY <2>1, <3>2 DEF Entries, EntriesNamed
      <4> QED BY <2>2, <2>3, <3>2, <4>1 DEF Entries, PendingIsAwaited
    <3> QED BY <3>1, <3>2
  <2>9. AdmittedWithPin'
    BY <2>1, <2>4 DEF Entries, AdmittedWithPin, shareVars
  <2>10. ServedWasApproved'
    BY <2>1 DEF Entries, ServedWasApproved
  <2> QED BY <2>5, <2>6, <2>7, <2>8, <2>9, <2>10 DEF Entries
<1>3. CASE RejectRequest(ip)
  <2>1. /\ UNCHANGED <<shareVars, supplied, listed, approved, download>>
        /\ requests[ip] # NoEntry
    BY <1>3 DEF RejectRequest
  <2>2. /\ requests'[ip] = NoEntry
        /\ \A a \in Address \ {ip} : requests'[a] = requests[a]
    BY <1>3 DEF RejectRequest, LinkShareTypeOK
  <2>3. \A q \in Request : prepare'[q] =
          IF q = requests[ip].id /\ prepare[q] = "Waiting" THEN "Refused" ELSE prepare[q]
    BY <1>3 DEF RejectRequest, Evict
  <2>4. PendingIsAwaited'
    <3> SUFFICES ASSUME NEW q \in Request
                 PROVE  LET entry == [id |-> q, status |-> "Pending"] IN
                        /\ prepare'[q] = "Waiting" => requests'[AddressOf[q]] = entry
                        /\ requests'[AddressOf[q]] = entry => prepare'[q] \in {"Waiting", "Dropped"}
      BY DEF PendingIsAwaited
    <3>1. CASE AddressOf[q] = ip
      BY <2>2, <2>3, <3>1 DEF Entries, PendingIsAwaited, NoEntry
    <3>2. CASE AddressOf[q] # ip
      <4>1. requests[ip].id # q
        BY <2>1, <3>2 DEF Entries, EntriesNamed
      <4> QED BY <2>2, <2>3, <3>2, <4>1 DEF Entries, PendingIsAwaited
    <3> QED BY <3>1, <3>2
  <2> QED BY <2>1, <2>2, <2>4 DEF Entries, EntriesNamed, EntriesNeedShare, AcceptedIsApproved,
                                  AdmittedWithPin, ServedWasApproved, shareVars, NoEntry
<1>4. CASE OpenFile(ip)
  <2>1. UNCHANGED <<shareVars, requestVars>> /\ download' = [download EXCEPT ![ip] = NoPath]
    BY <1>4 DEF OpenFile
  <2>2. ServedWasApproved'
    BY <2>1 DEF Entries, ServedWasApproved, requestVars, LinkShareTypeOK
  <2> QED BY <2>1, <2>2 DEF Entries, EntriesNamed, EntriesNeedShare, AcceptedIsApproved,
                            PendingIsAwaited, AdmittedWithPin, shareVars, requestVars
<1>5. ASSUME NEW f \in File, GrantDownload(ip, f)
      PROVE  Entries'
  <2>1. /\ UNCHANGED <<shareVars, requestVars>>
        /\ download' = [download EXCEPT ![ip] = <<active, f>>]
        /\ <<active, ip>> \in approved
    BY <1>5 DEF GrantDownload, Accepted, Entries, AcceptedIsApproved
  <2>2. ServedWasApproved'
    BY <2>1 DEF Entries, ServedWasApproved, requestVars, LinkShareTypeOK
  <2> QED BY <2>1, <2>2 DEF Entries, EntriesNamed, EntriesNeedShare, AcceptedIsApproved,
                            PendingIsAwaited, AdmittedWithPin, shareVars, requestVars
<1> QED BY <1>1, <1>2, <1>3, <1>4, <1>5 DEF AddressStep

LEMMA EntriesRestart ==
  ASSUME LinkShareTypeOK, Entries, Restart
  PROVE  Entries'
<1>1. \A ip \in Address : requests'[ip] = NoEntry /\ download'[ip] = NoPath
  BY DEF Restart, Empty
<1>2. \A r \in Request : prepare'[r] # "Waiting"
  BY DEF Restart
<1>3. UNCHANGED <<settings, supplied, listed, approved>>
  BY DEF Restart
<1> QED BY <1>1, <1>2, <1>3
        DEF Entries, EntriesNamed, EntriesNeedShare, AcceptedIsApproved, PendingIsAwaited,
            AdmittedWithPin, ServedWasApproved, NoEntry

\* Every reachable state has well-formed entries, each awaited, admitted with the PIN of
\* now, and accepted only for the share of now.
THEOREM ShareInvariant == Spec => []ShareInv
<1>1. Init => ShareInv
  BY TypeInit, EntriesInit DEF ShareInv, Entries
<1>2. ASSUME ShareInv, [Next]_vars PROVE ShareInv'
  <2>1. LinkShareTypeOK /\ Entries
    BY <1>2 DEF ShareInv, Entries
  <2>2. LinkShareTypeOK'
    BY <1>2, <2>1, TypeNext
  <2>3. Entries'
    <3>1. CASE UNCHANGED vars
      BY <2>1, <3>1, EntriesUnaffected DEF vars
    <3>2. CASE Next
      BY <2>1, <3>2, EntriesShareStep, EntriesRequestStep, EntriesAddressStep, EntriesUpdate,
         EntriesRestart DEF Next
    <3> QED BY <1>2, <3>1, <3>2
  <2> QED BY <2>2, <2>3 DEF ShareInv, Entries
<1> QED BY <1>1, <1>2, PTL DEF Spec

\* The store and its handlers are typed, for every value of the constants.
THEOREM ShareTypes == Spec => []LinkShareTypeOK
<1>1. ShareInv => LinkShareTypeOK
  BY DEF ShareInv
<1> QED BY <1>1, ShareInvariant, PTL

\* No browser waits for a decision that cannot come, and the user is asked about nobody
\* who has left for good.
THEOREM RequestIsAwaited == Spec => []PendingIsAwaited
<1>1. ShareInv => PendingIsAwaited
  BY DEF ShareInv
<1> QED BY <1>1, ShareInvariant, PTL

\* Everybody in the store came with the PIN that is set now.
THEOREM PinChangeDisconnects == Spec => []AdmittedWithPin
<1>1. ShareInv => AdmittedWithPin
  BY DEF ShareInv
<1> QED BY <1>1, ShareInvariant, PTL

\* Lists and files go only to addresses that were accepted for that very share.
THEOREM OnlyApprovedAreServed == Spec => []ServedWasApproved
<1>1. ShareInv => ServedWasApproved
  BY DEF ShareInv
<1> QED BY <1>1, ShareInvariant, PTL

\* After the last wrong PIN nobody new is admitted from the address.
THEOREM WrongPinsLockOut == Spec => LockedOut
<1> DEFINE Locked(ip) ==
      /\ active # NoShare /\ settings.pin # NoPin /\ attempts[ip] = MaxPinAttempts
      /\ active' = active /\ settings'.pin = settings.pin
<1>1. ASSUME ShareInv, [Next]_vars, NEW ip \in Address, Locked(ip)
      PROVE  requests'[ip].id \in {requests[ip].id, NoRequest}
  <2>1. CASE UNCHANGED vars
    BY <2>1 DEF vars, requestVars
  <2>2. ASSUME NEW s \in Share, ShareStep(s) PROVE requests'[ip].id \in {requests[ip].id, NoRequest}
    <3>1. requests' = requests \/ RejectAll
      BY <2>2 DEF ShareStep, AbortStart, StopShare, FinishCleanup, DropCleanup, InstallShare,
                  StageFile, DiscardFile, RemoveFile, requestVars
    <3> QED BY <3>1 DEF RejectAll, Empty, NoEntry
  <2>3. ASSUME NEW r \in Request, RequestStep(r) PROVE requests'[ip].id \in {requests[ip].id, NoRequest}
    <3>1. ASSUME NEW pin \in Pin \union {NoPin}, AdmitRequest(r, pin), AddressOf[r] = ip
          PROVE  FALSE
      BY <1>1, <3>1 DEF AdmitRequest, PinPasses
    <3>2. ASSUME NEW pin \in Pin \union {NoPin}, AdmitRequest(r, pin), AddressOf[r] # ip
          PROVE  requests'[ip] = requests[ip]
      BY <1>1, <3>2 DEF AdmitRequest, ShareInv, LinkShareTypeOK
    <3>3. CASE ClearPendingRequest(r)
      BY <1>1, <3>3 DEF ClearPendingRequest, ShareInv, LinkShareTypeOK, NoEntry
    <3>4. CASE ListAgain(r) \/ DropRequest(r) \/ AnswerGranted(r)
      BY <3>4 DEF ListAgain, DropRequest, AnswerGranted
    <3> QED BY <2>3, <3>1, <3>2, <3>3, <3>4 DEF RequestStep
  <2>4. ASSUME NEW a \in Address, AddressStep(a) PROVE requests'[ip].id \in {requests[ip].id, NoRequest}
    <3>1. CASE AcceptRequest(a) \/ RejectRequest(a)
      BY <1>1, <3>1 DEF AcceptRequest, RejectRequest, ShareInv, LinkShareTypeOK, NoEntry
    <3>2. CASE MisguessPin(a) \/ OpenFile(a) \/ \E f \in File : GrantDownload(a, f)
      BY <3>2 DEF MisguessPin, OpenFile, GrantDownload, requestVars
    <3> QED BY <2>4, <3>1, <3>2 DEF AddressStep
  <2>5. ASSUME NEW new \in Settings, UpdateShare(new) PROVE requests'[ip].id \in {requests[ip].id, NoRequest}
    BY <1>1, <2>5 DEF UpdateShare
  <2>6. CASE Restart
    BY <2>6 DEF Restart, Empty, NoEntry
  <2> QED BY <1>1, <2>1, <2>2, <2>3, <2>4, <2>5, <2>6 DEF Next
<1>2. ShareInv /\ [Next]_vars => [\A ip \in Address : Locked(ip) =>
                                    requests'[ip].id \in {requests[ip].id, NoRequest}]_vars
  BY <1>1
<1> QED BY <1>2, ShareInvariant, PTL DEF Spec, LockedOut

(***************************************************************************)
(* The files.  What is staged is there; a share that is active or being    *)
(* removed is past its staging; and what is being removed is not active.   *)
(***************************************************************************)
Installed == {"Replacing", "Done", "Discarding"}

FileInv ==
  /\ \A s \in Share : start[s] = "Idle" => files[s] = {}
  /\ \A s \in Share : start[s] = "Staging" => {s} \X files[s] \subseteq disk
  /\ \A s \in Share : active = s \/ cleanup[s] # "None" => start[s] \in Installed
  /\ \A s \in Share : cleanup[s] # "None" => active # s
  /\ ActiveFilesKept
  /\ StagedFilesOwned

LEMMA FileInit == ASSUME Init PROVE FileInv
BY LinkShareAssumption DEF Init, FileInv, ActiveFilesKept, StagedFilesOwned

LEMMA FilesShareStep ==
  ASSUME LinkShareTypeOK, FileInv, NEW s \in Share, ShareStep(s)
  PROVE  FileInv'
<1> USE DEF FileInv, ActiveFilesKept, StagedFilesOwned, Installed, LinkShareTypeOK
<1>1. CASE AbortStart(s)
  BY <1>1 DEF AbortStart, shareVars
<1>2. CASE StopShare(s)
  BY <1>2, LinkShareAssumption DEF StopShare
<1>3. CASE FinishCleanup(s)
  <2>1. /\ UNCHANGED <<active, files, disk>>
        /\ cleanup[s] = "Running"
        /\ cleanup' = [cleanup EXCEPT ![s] = "Done"]
    BY <1>3 DEF FinishCleanup, shareVars
  <2>2. \A t \in Share : start'[t] = start[t] \/ (start[t] = "Replacing" /\ start'[t] = "Done")
    <3>1. start' = [t \in Share |->
            IF start[t] = "Replacing" /\ previous[t] = s THEN "Done" ELSE start[t]]
      BY <1>3 DEF FinishCleanup, Replacer
    <3> QED BY <3>1
  <2>3. \A path \in disk : path[1] # s
    BY <1>3 DEF FinishCleanup, FilesOn
  <2>4. StagedFilesOwned'
    BY <2>2, <2>1, <2>3
  <2>5. ActiveFilesKept'
    BY <2>2, <2>1
  <2> QED BY <2>2, <2>1, <2>4, <2>5
<1>4. CASE DropCleanup(s)
  <2>1. /\ UNCHANGED <<active, files, disk>>
        /\ cleanup[s] = "Running"
        /\ cleanup' = [cleanup EXCEPT ![s] = "Lost"]
    BY <1>4 DEF DropCleanup, shareVars
  <2>2. \A t \in Share : start'[t] = start[t] \/ (start[t] = "Replacing" /\ start'[t] = "Discarding")
    <3>1. start' = [t \in Share |->
            IF start[t] = "Replacing" /\ previous[t] = s THEN "Discarding" ELSE start[t]]
      BY <1>4 DEF DropCleanup, Replacer
    <3> QED BY <3>1
  <2>3. StagedFilesOwned'
    BY <2>2, <2>1
  <2>4. ActiveFilesKept'
    BY <2>2, <2>1
  <2>5. \A t \in Share : start'[t] = "Idle" => start[t] = "Idle" /\ files'[t] = {}
    BY <2>1, <2>2
  <2>6. \A t \in Share : start'[t] = "Staging" => {t} \X files'[t] \subseteq disk'
    <3> SUFFICES ASSUME NEW t \in Share, start'[t] = "Staging" PROVE {t} \X files[t] \subseteq disk
      BY <2>1
    <3> QED BY <2>2
  <2>7. \A t \in Share : cleanup'[t] # "None" => cleanup[t] # "None"
    BY <2>1
  <2>8. \A t \in Share : active' = t \/ cleanup'[t] # "None" => start'[t] \in Installed
    <3> SUFFICES ASSUME NEW t \in Share, start[t] \in Installed PROVE start'[t] \in Installed
      BY <2>1, <2>7
    <3> QED BY <2>2
  <2>9. \A t \in Share : cleanup'[t] # "None" => active' # t
    BY <2>1, <2>7
  <2> HIDE DEF ActiveFilesKept, StagedFilesOwned
  <2> QED BY <2>3, <2>4, <2>5, <2>6, <2>8, <2>9
<1>5. ASSUME NEW new \in Settings, InstallShare(s, new) PROVE FileInv'
  <2>1. /\ start[s] = "Staging"
        /\ active' = s
        /\ active # s
        /\ cleanup[s] = "None"
        /\ UNCHANGED <<files, disk>>
    BY <1>5 DEF InstallShare
  <2>2. /\ \A t \in Share \ {s} : start'[t] = start[t]
        /\ start'[s] \in {"Done", "Replacing"}
        /\ \A t \in Share \ {active} : cleanup'[t] = cleanup[t]
        /\ active # NoShare => cleanup'[active] = "Running"
    BY <1>5 DEF InstallShare
  <2>3. ActiveFilesKept'
    BY <2>1, <2>2
  <2>4. StagedFilesOwned'
    BY <2>1, <2>2, LinkShareAssumption
  <2> QED BY <2>1, <2>2, <2>3, <2>4
<1>6. ASSUME NEW f \in File, StageFile(s, f) PROVE FileInv'
  <2>1. /\ active # s
        /\ cleanup[s] = "None"
        /\ {s} \X files[s] \subseteq disk
    BY <1>6 DEF StageFile
  <2>2. /\ UNCHANGED <<active, cleanup>>
        /\ start' = [start EXCEPT ![s] = "Staging"]
        /\ files' = [files EXCEPT ![s] = files[s] \union {f}]
        /\ disk' = disk \union {<<s, f>>}
    BY <1>6 DEF StageFile, shareVars
  <2>3. ActiveFilesKept'
    BY <2>1, <2>2
  <2>4. StagedFilesOwned'
    BY <2>2
  <2>5. \A t \in Share : start'[t] = "Staging" => {t} \X files'[t] \subseteq disk'
    BY <2>1, <2>2
  <2> QED BY <2>1, <2>2, <2>3, <2>4, <2>5
<1>7. ASSUME NEW f \in File, DiscardFile(s, f) \/ RemoveFile(s, f) PROVE FileInv'
  <2>1. /\ UNCHANGED <<active, start, files, cleanup>>
        /\ disk' = disk \ {<<s, f>>}
        /\ start[s] # "Staging"
        /\ active = s => start[s] = "Discarding"
    BY <1>7 DEF DiscardFile, RemoveFile, shareVars
  <2> QED BY <2>1
<1> QED BY <1>1, <1>2, <1>3, <1>4, <1>5, <1>6, <1>7 DEF ShareStep

LEMMA FilesNext == ASSUME LinkShareTypeOK, FileInv, [Next]_vars PROVE FileInv'
<1>1. ASSUME UNCHANGED <<active, fileVars>> PROVE FileInv'
  BY <1>1 DEF FileInv, ActiveFilesKept, StagedFilesOwned, fileVars
<1>2. ASSUME NEW r \in Request, RequestStep(r) PROVE FileInv'
  BY <1>1, <1>2 DEF RequestStep, ListAgain, ClearPendingRequest, DropRequest, AnswerGranted,
                    AdmitRequest, shareVars
<1>3. ASSUME NEW ip \in Address, AddressStep(ip) PROVE FileInv'
  BY <1>1, <1>3 DEF AddressStep, MisguessPin, AcceptRequest, RejectRequest, OpenFile,
                    GrantDownload, shareVars
<1>4. ASSUME NEW new \in Settings, UpdateShare(new) PROVE FileInv'
  BY <1>1, <1>4 DEF UpdateShare
<1>5. CASE Restart
  BY <1>5, LinkShareAssumption
  DEF Restart, FileInv, ActiveFilesKept, StagedFilesOwned, Installed, LinkShareTypeOK
<1>6. CASE UNCHANGED vars
  BY <1>1, <1>6 DEF vars, shareVars
<1> QED BY <1>2, <1>3, <1>4, <1>5, <1>6, FilesShareStep DEF Next

\* Every staged file has an owner, and the files of the active share are there unless the
\* guard of its own start_share takes them.
THEOREM FileInvariant == Spec => []FileInv
<1>1. Init => FileInv
  BY FileInit
<1>2. LinkShareTypeOK /\ FileInv /\ [Next]_vars => FileInv'
  BY FilesNext
<1> QED BY <1>1, <1>2, ShareTypes, PTL DEF Spec

\* The files of the active share exist, except for the one flaw of start_share.
THEOREM ActiveShareHasFiles == Spec => []ActiveFilesKept
<1>1. FileInv => ActiveFilesKept
  BY DEF FileInv
<1> QED BY <1>1, FileInvariant, PTL

\* No staged file is forgotten, except by a removal that is dropped half-way.
THEOREM StagedFilesHaveOwner == Spec => []StagedFilesOwned
<1>1. FileInv => StagedFilesOwned
  BY DEF FileInv
<1> QED BY <1>1, FileInvariant, PTL

\* A waiting browser is refused by the user, by a newer request of its address, or with the
\* share or the PIN, and by nothing else.
THEOREM WaitingRequestKept == Spec => LiveRequestKept
<1> DEFINE Refused(r) == prepare[r] = "Waiting" /\ prepare'[r] = "Refused"
           Excused(r) == \/ active' # active \/ settings'.pin # settings.pin
                         \/ RejectRequest(AddressOf[r])
                         \/ requests'[AddressOf[r]].id \notin {r, NoRequest}
<1>1. ASSUME ShareInv, FileInv, [Next]_vars, NEW r \in Request, Refused(r)
      PROVE  Excused(r)
  <2>1. CASE UNCHANGED vars
    BY <1>1, <2>1 DEF vars, requestVars
  <2>2. ASSUME NEW s \in Share, ShareStep(s) PROVE Excused(r)
    <3>1. CASE StopShare(s)
      BY <3>1, LinkShareAssumption DEF StopShare
    <3>2. ASSUME NEW new \in Settings, InstallShare(s, new) PROVE Excused(r)
      BY <1>1, <3>2 DEF InstallShare, FileInv, Installed
    <3>3. ASSUME UNCHANGED requestVars PROVE Excused(r)
      BY <1>1, <3>3 DEF requestVars
    <3> QED BY <2>2, <3>1, <3>2, <3>3 DEF ShareStep, AbortStart, FinishCleanup, DropCleanup,
                                          StageFile, DiscardFile, RemoveFile
  <2>3. ASSUME NEW q \in Request, RequestStep(q) PROVE Excused(r)
    <3>1. CASE ListAgain(q) \/ DropRequest(q) \/ AnswerGranted(q)
      BY <1>1, <3>1 DEF ListAgain, DropRequest, AnswerGranted, ShareInv, LinkShareTypeOK
    <3>2. CASE ClearPendingRequest(q)
      <4>1. r # q
        BY <1>1, <3>2 DEF ClearPendingRequest
      <4>2. ~(requests'[AddressOf[q]] # requests[AddressOf[q]] /\ r = requests[AddressOf[q]].id)
        BY <3>2, <4>1, LinkShareAssumption DEF ClearPendingRequest
      <4>3. prepare'[r] = prepare[r]
        BY <3>2, <4>1, <4>2 DEF ClearPendingRequest
      <4> QED BY <1>1, <4>3
    <3>3. ASSUME NEW pin \in Pin \union {NoPin}, AdmitRequest(q, pin) PROVE Excused(r)
      <4>1. r = requests[AddressOf[q]].id /\ r # q
        BY <1>1, <3>3 DEF AdmitRequest
      <4>2. AddressOf[r] = AddressOf[q]
        <5>1. requests[AddressOf[q]] # NoEntry
          BY <4>1, LinkShareAssumption DEF NoEntry
        <5> QED BY <1>1, <4>1, <5>1, LinkShareAssumption DEF ShareInv, EntriesNamed
      <4>3. requests'[AddressOf[q]].id = q
        BY <1>1, <3>3, LinkShareAssumption DEF AdmitRequest, ShareInv, LinkShareTypeOK
      <4> QED BY <4>1, <4>2, <4>3, LinkShareAssumption
    <3> QED BY <2>3, <3>1, <3>2, <3>3 DEF RequestStep
  <2>4. ASSUME NEW a \in Address, AddressStep(a) PROVE Excused(r)
    <3>1. CASE RejectRequest(a)
      <4>1. requests[a] # NoEntry /\ r = requests[a].id
        BY <1>1, <3>1 DEF RejectRequest, Evict
      <4>2. AddressOf[r] = a
        BY <1>1, <4>1 DEF ShareInv, EntriesNamed
      <4> QED BY <3>1, <4>2
    <3>2. CASE AcceptRequest(a)
      BY <1>1, <3>2 DEF AcceptRequest
    <3>3. CASE MisguessPin(a) \/ OpenFile(a) \/ \E f \in File : GrantDownload(a, f)
      BY <1>1, <3>3 DEF MisguessPin, OpenFile, GrantDownload, requestVars
    <3> QED BY <2>4, <3>1, <3>2, <3>3 DEF AddressStep
  <2>5. ASSUME NEW new \in Settings, UpdateShare(new) PROVE Excused(r)
    BY <1>1, <2>5 DEF UpdateShare
  <2>6. CASE Restart
    BY <1>1, <2>6 DEF Restart
  <2> QED BY <1>1, <2>1, <2>2, <2>3, <2>4, <2>5, <2>6 DEF Next
<1>2. ShareInv /\ FileInv /\ [Next]_vars => [\A r \in Request : Refused(r) => Excused(r)]_vars
  BY <1>1
<1> QED BY <1>2, ShareInvariant, FileInvariant, PTL DEF Spec, LiveRequestKept

(***************************************************************************)
(* The refinement to ShareAccess.  A request that was given a list is      *)
(* over, so that no list is given twice in its name.                       *)
(***************************************************************************)
ListedAreOver == \A r \in Request : listed[r] # NoShare => prepare[r] = "Closed"

AccessStep == [Access!AccessNext]_Access!accessVars

LEMMA ListedStep ==
  ASSUME ShareInv, ListedAreOver, [Next]_vars
  PROVE  ListedAreOver'
<1> SUFFICES ASSUME NEW r \in Request, listed'[r] # NoShare PROVE prepare'[r] = "Closed"
  BY DEF ListedAreOver
<1> USE DEF ListedAreOver
<1>1. CASE UNCHANGED requestVars
  BY <1>1 DEF requestVars
<1>2. ASSUME NEW gone, Evict(gone), UNCHANGED listed PROVE prepare'[r] = "Closed"
  BY <1>2 DEF Evict
<1>3. ASSUME NEW s \in Share, ShareStep(s) PROVE prepare'[r] = "Closed"
  BY <1>1, <1>2, <1>3 DEF ShareStep, AbortStart, StopShare, FinishCleanup, DropCleanup, InstallShare,
                          StageFile, DiscardFile, RemoveFile, RejectAll
<1>4. ASSUME NEW q \in Request, RequestStep(q) PROVE prepare'[r] = "Closed"
  <2>1. CASE ListAgain(q) \/ AnswerGranted(q)
    BY <2>1 DEF ListAgain, AnswerGranted, ShareInv, LinkShareTypeOK
  <2>2. CASE DropRequest(q) \/ ClearPendingRequest(q)
    BY <2>2 DEF DropRequest, ClearPendingRequest, ShareInv, LinkShareTypeOK
  <2>3. ASSUME NEW pin \in Pin \union {NoPin}, AdmitRequest(q, pin) PROVE prepare'[r] = "Closed"
    BY <2>3 DEF AdmitRequest
  <2> QED BY <1>4, <2>1, <2>2, <2>3 DEF RequestStep
<1>5. ASSUME NEW a \in Address, AddressStep(a) PROVE prepare'[r] = "Closed"
  <2>1. CASE AcceptRequest(a)
    BY <2>1 DEF AcceptRequest
  <2>2. CASE RejectRequest(a)
    BY <1>2, <2>2 DEF RejectRequest
  <2>3. CASE MisguessPin(a) \/ OpenFile(a) \/ \E f \in File : GrantDownload(a, f)
    BY <2>3 DEF MisguessPin, OpenFile, GrantDownload, requestVars
  <2> QED BY <1>5, <2>1, <2>2, <2>3 DEF AddressStep
<1>6. ASSUME NEW new \in Settings, UpdateShare(new) PROVE prepare'[r] = "Closed"
  BY <1>2, <1>6 DEF UpdateShare, RejectAll
<1>7. CASE Restart
  BY <1>7 DEF Restart
<1>8. CASE UNCHANGED vars
  BY <1>1, <1>8 DEF vars
<1> QED BY <1>3, <1>4, <1>5, <1>6, <1>7, <1>8 DEF Next

\* Steps that nobody at the door notices.
LEMMA AccessStutters ==
  ASSUME UNCHANGED <<active, settings, requests, listed, download>>,
         \A s \in Share : start'[s] \in {"Idle", "Staging"} <=> start[s] \in {"Idle", "Staging"}
  PROVE  AccessStep
<1>1. Past' = Past
  BY DEF Past
<1>2. WithStatus("Pending")' = WithStatus("Pending") /\ WithStatus("Accepted")' = WithStatus("Accepted")
      /\ Given' = Given
  BY DEF WithStatus, Given
<1> QED BY <1>1, <1>2 DEF AccessStep, Access!accessVars

LEMMA EmptyStore ==
  ASSUME requests' = Empty
  PROVE  Access!NobodyIn
<1>1. \A ip \in Address : requests'[ip].status = "None"
  BY DEF Empty, NoEntry
<1> QED BY <1>1 DEF Access!NobodyIn, WithStatus

LEMMA SameGiven ==
  ASSUME UNCHANGED listed
  PROVE  Given' = Given
BY DEF Given

\* The life of a share.
LEMMA AccessOfShare ==
  ASSUME ShareInv, NEW s \in Share, ShareStep(s)
  PROVE  AccessStep
<1>1. ASSUME NEW new \in Settings, InstallShare(s, new) PROVE AccessStep
  <2>1. /\ start[s] = "Staging" /\ start'[s] \in {"Done", "Replacing"}
        /\ \A t \in Share \ {s} : start'[t] = start[t]
        /\ active' = s /\ settings' = new /\ requests' = Empty
        /\ UNCHANGED <<listed, download>>
    BY <1>1 DEF InstallShare, RejectAll, ShareInv, LinkShareTypeOK
  <2>2. s \notin Past /\ Past' = Past \union {s}
    BY <2>1 DEF Past
  <2>3. Access!Open(s, new)
    BY <2>1, <2>2, EmptyStore, SameGiven DEF Access!Open
  <2> QED BY <2>3 DEF AccessStep, Access!AccessNext
<1>2. CASE AbortStart(s)
  <2>1. /\ start[s] = "Staging" /\ start'[s] = "Discarding"
        /\ \A t \in Share \ {s} : start'[t] = start[t]
        /\ UNCHANGED <<active, settings, requests, listed, download>>
    BY <1>2 DEF AbortStart, ShareInv, LinkShareTypeOK, shareVars, requestVars
  <2>2. s \notin Past /\ Past' = Past \union {s}
    BY <2>1 DEF Past
  <2>3. Access!Forgo(s)
    BY <2>1, <2>2, SameGiven DEF Access!Forgo, WithStatus
  <2> QED BY <2>3 DEF AccessStep, Access!AccessNext
<1>3. CASE StopShare(s)
  <2>1. /\ active = s /\ active' = NoShare /\ requests' = Empty
        /\ UNCHANGED <<settings, listed, start, download>>
    BY <1>3 DEF StopShare, RejectAll
  <2>2. Access!Close
    BY <2>1, EmptyStore, SameGiven, LinkShareAssumption DEF Access!Close, Past
  <2> QED BY <2>2 DEF AccessStep, Access!AccessNext
<1>4. CASE FinishCleanup(s) \/ DropCleanup(s)
  <2>1. UNCHANGED <<active, settings, requests, listed, download>>
    BY <1>4 DEF FinishCleanup, DropCleanup, shareVars, requestVars
  <2>2. \A t \in Share : start'[t] \in {"Idle", "Staging"} <=> start[t] \in {"Idle", "Staging"}
    BY <1>4 DEF FinishCleanup, DropCleanup, Replacer
  <2> QED BY <2>1, <2>2, AccessStutters
<1>5. ASSUME NEW f \in File, StageFile(s, f) \/ DiscardFile(s, f) \/ RemoveFile(s, f)
      PROVE  AccessStep
  <2>1. UNCHANGED <<active, settings, requests, listed, download>>
    BY <1>5 DEF StageFile, DiscardFile, RemoveFile, shareVars, requestVars
  <2>2. \A t \in Share : start'[t] \in {"Idle", "Staging"} <=> start[t] \in {"Idle", "Staging"}
    BY <1>5 DEF StageFile, DiscardFile, RemoveFile, ShareInv, LinkShareTypeOK
  <2> QED BY <2>1, <2>2, AccessStutters
<1> QED BY <1>1, <1>2, <1>3, <1>4, <1>5 DEF ShareStep

\* A list is given to an address that is accepted at that moment.
LEMMA AccessListed ==
  ASSUME ShareInv, ListedAreOver, NEW r \in Request, prepare[r] # "Closed",
         Accepted(AddressOf[r]), listed' = [listed EXCEPT ![r] = active],
         UNCHANGED <<active, settings, requests, start, download>>
  PROVE  AccessStep
<1> DEFINE a == AddressOf[r]
<1>1. a \in Address /\ a \in WithStatus("Accepted") /\ active # NoShare
  BY DEF Accepted, WithStatus
<1>2. listed[r] = NoShare /\ listed'[r] = active /\ \A q \in Request \ {r} : listed'[q] = listed[q]
  BY DEF ListedAreOver, ShareInv, LinkShareTypeOK
<1>3. Given' = Given \union {<<active, a>>}
  <2>1. {q \in Request : listed'[q] # NoShare} = {q \in Request : listed[q] # NoShare} \union {r}
    BY <1>1, <1>2
  <2>2. \A q \in Request : listed[q] # NoShare => listed'[q] = listed[q]
    BY <1>2
  <2> QED BY <1>2, <2>1, <2>2 DEF Given
<1>4. Access!List(a)
  BY <1>1, <1>3 DEF Access!List, Past, WithStatus
<1> QED BY <1>1, <1>4 DEF AccessStep, Access!AccessNext

LEMMA AccessOfRequest ==
  ASSUME ShareInv, ListedAreOver, NEW r \in Request, RequestStep(r)
  PROVE  AccessStep
<1> DEFINE a == AddressOf[r]
<1>0. a \in Address
  OBVIOUS
<1>1. CASE ListAgain(r)
  BY <1>1, AccessListed DEF ListAgain, shareVars, fileVars
<1>2. CASE AnswerGranted(r)
  <2>1. UNCHANGED <<active, settings, requests, start, download>>
    BY <1>2 DEF AnswerGranted, shareVars, fileVars
  <2>2. CASE Accepted(a)
    BY <1>2, <2>1, <2>2, AccessListed DEF AnswerGranted
  <2>3. CASE ~Accepted(a)
    BY <1>2, <2>1, <2>3, AccessStutters DEF AnswerGranted
  <2> QED BY <2>2, <2>3
<1>3. CASE DropRequest(r)
  BY <1>3, AccessStutters DEF DropRequest, shareVars, fileVars
<1>4. CASE ClearPendingRequest(r)
  <2>1. UNCHANGED <<active, settings, listed, start, download>>
    BY <1>4 DEF ClearPendingRequest, shareVars, fileVars
  <2>2. CASE requests[a] = [id |-> r, status |-> "Pending"]
    <3>1. /\ requests[a].status = "Pending" /\ requests'[a].status = "None"
          /\ \A b \in Address \ {a} : requests'[b] = requests[b]
      BY <1>0, <1>4, <2>2 DEF ClearPendingRequest, NoEntry, ShareInv, LinkShareTypeOK
    <3>2. Access!Dismiss(a)
      BY <1>0, <2>1, <3>1, SameGiven DEF Access!Dismiss, WithStatus, Past
    <3> QED BY <1>0, <3>2 DEF AccessStep, Access!AccessNext
  <2>3. CASE requests[a] # [id |-> r, status |-> "Pending"]
    <3>1. requests' = requests
      BY <1>4, <2>3 DEF ClearPendingRequest
    <3> QED BY <2>1, <3>1, AccessStutters
  <2> QED BY <2>2, <2>3
<1>5. ASSUME NEW pin \in Pin \union {NoPin}, AdmitRequest(r, pin) PROVE AccessStep
  <2>1. /\ UNCHANGED <<active, settings, listed, start, download>> /\ active # NoShare
        /\ requests'[a].status = IF settings.auto THEN "Accepted" ELSE "Pending"
        /\ \A b \in Address \ {a} : requests'[b] = requests[b]
    BY <1>0, <1>5 DEF AdmitRequest, ShareInv, LinkShareTypeOK, shareVars, fileVars
  <2>2. Access!Ask(a)
    <3>1. CASE settings.auto
      BY <1>0, <2>1, <3>1, SameGiven DEF Access!Ask, WithStatus, Past
    <3>2. CASE ~settings.auto
      BY <1>0, <2>1, <3>2, SameGiven DEF Access!Ask, WithStatus, Past
    <3> QED BY <3>1, <3>2
  <2> QED BY <1>0, <2>2 DEF AccessStep, Access!AccessNext
<1> QED BY <1>1, <1>2, <1>3, <1>4, <1>5 DEF RequestStep

LEMMA AccessOfAddress ==
  ASSUME ShareInv, NEW a \in Address, AddressStep(a)
  PROVE  AccessStep
<1>1. CASE MisguessPin(a)
  BY <1>1, AccessStutters DEF MisguessPin, shareVars, fileVars
<1>2. CASE AcceptRequest(a)
  <2>1. /\ UNCHANGED <<active, settings, listed, start, download>>
        /\ requests[a].status \in {"Pending", "Accepted"}
        /\ requests'[a].status = "Accepted"
        /\ \A b \in Address \ {a} : requests'[b] = requests[b]
    BY <1>2 DEF AcceptRequest, ShareInv, EntriesNamed, LinkShareTypeOK, shareVars, fileVars
  <2>2. Access!Admit(a)
    BY <2>1, SameGiven DEF Access!Admit, WithStatus, Past
  <2> QED BY <2>2 DEF AccessStep, Access!AccessNext
<1>3. CASE RejectRequest(a)
  <2>1. /\ UNCHANGED <<active, settings, listed, start, download>>
        /\ requests[a].status \in {"Pending", "Accepted"}
        /\ requests'[a].status = "None"
        /\ \A b \in Address \ {a} : requests'[b] = requests[b]
    BY <1>3 DEF RejectRequest, NoEntry, ShareInv, EntriesNamed, LinkShareTypeOK, shareVars, fileVars
  <2>2. Access!Dismiss(a)
    BY <2>1, SameGiven DEF Access!Dismiss, WithStatus, Past
  <2> QED BY <2>2 DEF AccessStep, Access!AccessNext
<1> DEFINE reading == [ip \in Address |-> download[ip][1]]
<1>4. CASE OpenFile(a)
  <2>1. /\ UNCHANGED <<active, settings, requests, listed, start>>
        /\ download' = [download EXCEPT ![a] = NoPath] /\ download[a] # NoPath
    BY <1>4 DEF OpenFile, shareVars, requestVars, fileVars
  <2>2. reading[a] # NoShare
    BY <2>1, LinkShareAssumption DEF ShareInv, LinkShareTypeOK
  <2>3. reading' = [reading EXCEPT ![a] = NoShare]
    BY <2>1 DEF ShareInv, LinkShareTypeOK, NoPath
  <2>4. Access!Finish(a)
    BY <2>1, <2>2, <2>3, SameGiven DEF Access!Finish, WithStatus, Past
  <2> QED BY <2>4 DEF AccessStep, Access!AccessNext
<1>5. ASSUME NEW f \in File, GrantDownload(a, f) PROVE AccessStep
  <2>1. /\ UNCHANGED <<active, settings, requests, listed, start>>
        /\ download' = [download EXCEPT ![a] = <<active, f>>] /\ download[a] = NoPath
        /\ requests[a].status = "Accepted"
    BY <1>5 DEF GrantDownload, Accepted, shareVars, requestVars, fileVars
  <2>2. reading[a] = NoShare
    BY <2>1 DEF NoPath
  <2>3. reading' = [reading EXCEPT ![a] = active]
    BY <2>1 DEF ShareInv, LinkShareTypeOK
  <2>4. Access!Read(a)
    BY <2>1, <2>2, <2>3, SameGiven DEF Access!Read, WithStatus, Past
  <2> QED BY <2>4 DEF AccessStep, Access!AccessNext
<1> QED BY <1>1, <1>2, <1>3, <1>4, <1>5 DEF AddressStep

LEMMA AccessOfNext ==
  ASSUME ShareInv, ListedAreOver, [Next]_vars
  PROVE  AccessStep
<1>1. ASSUME NEW new \in Settings, UpdateShare(new) PROVE AccessStep
  <2>1. /\ UNCHANGED <<active, listed, start, download>> /\ active # NoShare /\ settings' = new
        /\ IF new.pin = settings.pin THEN requests' = requests ELSE requests' = Empty
    BY <1>1 DEF UpdateShare, RejectAll, fileVars
  <2>2. Access!Adjust(new)
    <3>1. CASE new.pin = settings.pin
      BY <2>1, <3>1, SameGiven DEF Access!Adjust, WithStatus, Past
    <3>2. CASE new.pin # settings.pin
      BY <2>1, <3>2, EmptyStore, SameGiven DEF Access!Adjust, Past
    <3> QED BY <3>1, <3>2
  <2> QED BY <2>2 DEF AccessStep, Access!AccessNext
<1>2. CASE Restart
  <2>1. /\ active' = NoShare /\ requests' = Empty /\ UNCHANGED <<settings, listed>>
        /\ \A t \in Share : start[t] # "Idle" => start'[t] = "Done"
        /\ download' = [ip \in Address |-> NoPath]
    BY <1>2 DEF Restart
  <2>2. Past \subseteq Past' /\ Past' \subseteq Share
    BY <2>1 DEF Past
  <2>3. [ip \in Address |-> download[ip][1]]' = [ip \in Address |-> NoShare]
    BY <2>1 DEF NoPath
  <2>4. Access!Restarted
    BY <2>1, <2>2, <2>3, EmptyStore, SameGiven DEF Access!Restarted
  <2> QED BY <2>4 DEF AccessStep, Access!AccessNext
<1>3. CASE UNCHANGED vars
  BY <1>3, AccessStutters DEF vars, shareVars, requestVars, fileVars
<1> QED BY <1>1, <1>2, <1>3, AccessOfShare, AccessOfRequest, AccessOfAddress DEF Next

\* Link sharing implements ShareAccess: whoever is given a list or a file is let in at
\* that moment, and out again after a withdrawal, a new request, another PIN, another
\* share or a restart.
THEOREM ShareImplementsAccess == Spec => ImplementsAccess
<1>1. Init => ListedAreOver
  BY DEF Init, ListedAreOver
<1>2. Spec => []ListedAreOver
  BY <1>1, ListedStep, ShareInvariant, PTL DEF Spec
<1>3. Init => Access!AccessInit
  <2> SUFFICES ASSUME Init PROVE Access!AccessInit
    OBVIOUS
  <2>1. Past = {} /\ WithStatus("Pending") = {} /\ WithStatus("Accepted") = {} /\ Given = {}
    BY DEF Init, Past, WithStatus, Given, Empty, NoEntry
  <2>2. [ip \in Address |-> download[ip][1]] = [ip \in Address |-> NoShare]
    BY DEF Init, NoPath
  <2>3. active = NoShare /\ settings \in Settings
    BY DEF Init, Settings
  <2> QED BY <2>1, <2>2, <2>3 DEF Access!AccessInit
<1>4. ShareInv /\ ListedAreOver /\ [Next]_vars => [Access!AccessNext]_Access!accessVars
  BY AccessOfNext DEF AccessStep
<1> QED BY <1>2, <1>3, <1>4, ShareInvariant, PTL DEF Spec, ImplementsAccess, Access!AccessSpec
=============================================================================

-------------------------- MODULE OutgoingSendProofs --------------------------
(***************************************************************************)
(* Theorems about outgoing transfers, for every set of requests, targets   *)
(* and files, every number of permits and every length of the list.        *)
(***************************************************************************)
EXTENDS OutgoingSend, FiniteSetTheorems, WellFoundedInduction, TLAPS

RecordType == [id : Transfer, status : Status]
RowType == [id : Transfer, sent : SUBSET File]

\* Every transfer is one of its request.
LEMMA TransferOf ==
  ASSUME NEW x \in Transfer
  PROVE  x[1] \in Batch /\ x[2] \in Target /\ x = <<x[1], x[2]>>
BY DEF Transfer

LEMMA OfRequest ==
  ASSUME NEW x \in Transfer, NEW b \in Batch
  PROVE  x \in Of(b) <=> x[1] = b
BY DEF Transfer, Of

-----------------------------------------------------------------------------
(* The list of records and the history, as sequences.                       *)

LessThan == {p \in Nat \X Nat : p[1] < p[2]}

\* Positions can be compared: there is a first one.
LEMMA FirstPosition ==
  ASSUME NEW T \in SUBSET Nat, T # {}
  PROVE  \E i \in T : \A j \in T : i <= j
<1>1. IsWellFoundedOn(LessThan, Nat)
  BY NatLessThanWellFounded, Zenon DEF OpToRel, LessThan
<1>2. T \subseteq Nat
  OBVIOUS
<1>3. PICK i \in T : \A j \in T : <<j, i>> \notin LessThan
  BY <1>1, <1>2, WFMin, Zenon
<1>4. \A j \in T : ~(j < i)
  BY <1>3 DEF LessThan
<1> QED BY <1>4

\* RemoveAt keeps the other elements and adds none.
LEMMA RemoveAtElements ==
  ASSUME NEW S, NEW s \in Seq(S), NEW i \in 1..Len(s)
  PROVE  /\ RemoveAt(s, i) \in Seq(S)
         /\ \A k \in DOMAIN RemoveAt(s, i) : \E j \in DOMAIN s : RemoveAt(s, i)[k] = s[j]
         /\ \A j \in DOMAIN s : j # i => \E k \in DOMAIN RemoveAt(s, i) : RemoveAt(s, i)[k] = s[j]
         /\ Len(RemoveAt(s, i)) = Len(s) - 1
         /\ \A k \in 1..(i - 1) : RemoveAt(s, i)[k] = s[k]
         /\ \A k \in i..(Len(s) - 1) : RemoveAt(s, i)[k] = s[k + 1]
<1> DEFINE left == SubSeq(s, 1, i - 1)
           right == SubSeq(s, i + 1, Len(s))
           short == left \o right
<1>a. left \in Seq(S) /\ Len(left) = i - 1 /\ \A k \in 1..(i - 1) : left[k] = s[k]
  OBVIOUS
<1>b. right \in Seq(S) /\ Len(right) = Len(s) - i /\ \A k \in 1..(Len(s) - i) : right[k] = s[i + k]
  OBVIOUS
<1>r. RemoveAt(s, i) = short
  BY DEF RemoveAt
<1> HIDE DEF left, right
<1>1. short \in Seq(S) /\ Len(short) = Len(s) - 1
  <2>1. left \in Seq(S) /\ right \in Seq(S)
    BY <1>a, <1>b
  <2>2. short \in Seq(S) /\ Len(short) = Len(left) + Len(right)
    BY <2>1
  <2> HIDE DEF short
  <2> QED BY <1>a, <1>b, <2>2
<1>2. \A k \in 1..(i - 1) : short[k] = s[k]
  <2> TAKE k \in 1..(i - 1)
  <2>1. k \in 1..Len(left) /\ k \in 1..(Len(left) + Len(right))
    BY <1>a, <1>b
  <2>2. short[k] = left[k]
    BY <1>a, <1>b, <2>1
  <2> QED BY <1>a, <2>2
<1>3. \A k \in i..(Len(s) - 1) : short[k] = s[k + 1]
  <2> TAKE k \in i..(Len(s) - 1)
  <2>1. short[k] = right[k - (i - 1)]
    BY <1>a, <1>b
  <2>2. k - (i - 1) \in 1..(Len(s) - i) /\ i + (k - (i - 1)) = k + 1
    OBVIOUS
  <2> QED BY <1>b, <2>1, <2>2
<1> HIDE DEF short
<1>4. DOMAIN short = 1..(Len(s) - 1) /\ DOMAIN s = 1..Len(s) /\ Len(s) \in Nat
  BY <1>1
<1>5. ASSUME NEW k \in DOMAIN short PROVE \E j \in DOMAIN s : short[k] = s[j]
  BY <1>2, <1>3, <1>4
<1>6. ASSUME NEW j \in DOMAIN s, j # i PROVE \E k \in DOMAIN short : short[k] = s[j]
  <2>1. CASE j < i
    <3>1. j \in DOMAIN short /\ short[j] = s[j] BY <1>2, <1>4, <2>1
    <3> QED BY <3>1
  <2>2. CASE j > i
    <3>1. j - 1 \in DOMAIN short /\ short[j - 1] = s[j] BY <1>3, <1>4, <2>2
    <3> QED BY <3>1
  <2> QED BY <1>4, <1>6, <2>1, <2>2
<1> QED BY <1>1, <1>2, <1>3, <1>5, <1>6, <1>r

\* Room is made by a record that is over, or not at all.
LEMMA MakeRoomElements ==
  ASSUME records \in Seq(RecordType)
  PROVE  /\ MakeRoom \in Seq(RecordType)
         /\ \A k \in DOMAIN MakeRoom : \E j \in DOMAIN records : MakeRoom[k] = records[j]
         /\ \A j \in DOMAIN records : records[j].status \in Open =>
              \E k \in DOMAIN MakeRoom : MakeRoom[k] = records[j]
<1>1. CASE Len(records) >= MaxInMemory /\ Evictable # {}
  <2> DEFINE first == CHOOSE i \in Evictable : \A j \in Evictable : i <= j
  <2>1. Evictable \in SUBSET Nat /\ Evictable \subseteq 1..Len(records)
    BY DEF Evictable
  <2>2. first \in Evictable
    BY <1>1, <2>1, FirstPosition
  <2>3. first \in 1..Len(records) /\ records[first].status \notin Open
    BY <2>1, <2>2 DEF Evictable
  <2>4. MakeRoom = RemoveAt(records, first)
    BY <1>1 DEF MakeRoom
  <2> HIDE DEF first
  <2> QED BY <2>3, <2>4, RemoveAtElements
<1>2. CASE ~(Len(records) >= MaxInMemory /\ Evictable # {})
  BY <1>2 DEF MakeRoom
<1> QED BY <1>1, <1>2

LEMMA BeginElements ==
  ASSUME records \in Seq(RecordType), NEW x \in Transfer, BeginSend(x)
  PROVE  /\ records' \in Seq(RecordType)
         /\ \A k \in DOMAIN records' :
              records'[k] = [id |-> x, status |-> "Preparing"] \/ \E j \in DOMAIN records : records'[k] = records[j]
         /\ \A j \in DOMAIN records : records[j].status \in Open =>
              \E k \in DOMAIN records' : records'[k] = records[j]
         /\ \E k \in DOMAIN records' : records'[k] = [id |-> x, status |-> "Preparing"]
<1> DEFINE new == [id |-> x, status |-> "Preparing"]
<1>1. records' = Append(MakeRoom, new) /\ new \in RecordType
  BY DEF BeginSend, RecordType, Status, Open
<1>2. /\ MakeRoom \in Seq(RecordType)
      /\ \A k \in DOMAIN MakeRoom : \E j \in DOMAIN records : MakeRoom[k] = records[j]
      /\ \A j \in DOMAIN records : records[j].status \in Open =>
           \E k \in DOMAIN MakeRoom : MakeRoom[k] = records[j]
  BY MakeRoomElements
<1> HIDE DEF new
<1>3. /\ records' \in Seq(RecordType) /\ Len(MakeRoom) \in Nat
      /\ DOMAIN MakeRoom = 1..Len(MakeRoom) /\ DOMAIN records' = 1..(Len(MakeRoom) + 1)
      /\ \A k \in 1..Len(MakeRoom) : records'[k] = MakeRoom[k]
      /\ records'[Len(MakeRoom) + 1] = new
  BY <1>1, <1>2
<1>4. \A k \in DOMAIN records' : records'[k] = new \/ \E j \in DOMAIN records : records'[k] = records[j]
  <2> TAKE k \in DOMAIN records'
  <2>1. CASE k = Len(MakeRoom) + 1 BY <1>3, <2>1
  <2>2. CASE k \in DOMAIN MakeRoom BY <1>2, <1>3, <2>2
  <2> QED BY <1>3, <2>1, <2>2
<1>5. \A j \in DOMAIN records : records[j].status \in Open =>
        \E k \in DOMAIN records' : records'[k] = records[j]
  <2>1. \A k \in DOMAIN MakeRoom : k \in DOMAIN records' /\ records'[k] = MakeRoom[k]
    BY <1>3
  <2> QED BY <1>2, <2>1
<1>6. \E k \in DOMAIN records' : records'[k] = new
  <2>1. Len(MakeRoom) + 1 \in DOMAIN records' BY <1>3
  <2> QED BY <1>3, <2>1
<1> QED BY <1>3, <1>4, <1>5, <1>6 DEF new

LEMMA StatusElements ==
  ASSUME records \in Seq(RecordType), NEW x \in Transfer, NEW s \in Status, SetStatus(x, s)
  PROVE  /\ records' \in Seq(RecordType) /\ DOMAIN records' = DOMAIN records
         /\ \A i \in DOMAIN records :
              records'[i] = IF records[i].id = x THEN [id |-> x, status |-> s] ELSE records[i]
<1>1. DOMAIN records = 1..Len(records) /\ Len(records) \in Nat
  OBVIOUS
<1>2. \A i \in DOMAIN records : records[i] \in RecordType
  BY <1>1
<1>3. \A i \in DOMAIN records :
        records'[i] = IF records[i].id = x THEN [id |-> x, status |-> s] ELSE records[i]
  BY <1>2 DEF SetStatus, RecordType
<1>4. \A i \in 1..Len(records) : records'[i] \in RecordType
  BY <1>1, <1>2, <1>3 DEF RecordType
<1>5. records' = [i \in 1..Len(records) |-> records'[i]]
  BY <1>1 DEF SetStatus
<1>6. records' \in Seq(RecordType)
  BY <1>1, <1>4, <1>5
<1> QED BY <1>1, <1>3, <1>5, <1>6

LEMMA RestoredElements ==
  ASSUME history \in Seq(RowType), Restart
  PROVE  /\ records' \in Seq(RecordType)
         /\ \A i \in DOMAIN records' :
              /\ Len(history) + 1 - i \in DOMAIN history
              /\ records'[i] = Restored(history[Len(history) + 1 - i])
         /\ Len(records') <= MaxInMemory
<1> DEFINE start == 1 + (IF Len(history) > MaxInMemory THEN Len(history) - MaxInMemory ELSE 0)
           n == Len(history) - start + 1
<1>1. /\ Len(history) \in Nat /\ DOMAIN history = 1..Len(history) /\ start \in Nat \ {0}
      /\ MaxInMemory \in Nat /\ n \in Nat /\ n <= MaxInMemory
  BY OutgoingAssumption
<1>2. \A j \in DOMAIN history : history[j] \in RowType
  BY <1>1
<1>3. Latest = SubSeq(history, start, Len(history))
  BY DEF Latest
<1>4. DOMAIN Latest = 1..n /\ \A k \in 1..n : Latest[k] = history[start + k - 1]
  <2> HIDE DEF start
  <2> QED BY <1>1, <1>3
<1> HIDE DEF start, n
<1>5. \A k \in 1..n : start + k - 1 \in DOMAIN history
  BY <1>1 DEF n
<1> DEFINE list == [i \in DOMAIN Latest |-> Restored(Latest[i])]
<1>6. \A k \in 1..n : Restored(Latest[k]) \in RecordType
  <2> TAKE k \in 1..n
  <2>1. Latest[k] \in RowType BY <1>2, <1>4, <1>5
  <2> QED BY <2>1 DEF Restored, RecordType, RowType, Status, Open
<1>7. list \in Seq(RecordType) /\ Len(list) = n
  <2>1. list = [i \in 1..n |-> Restored(Latest[i])] BY <1>4
  <2> HIDE DEF list
  <2> QED BY <1>1, <1>6, <2>1
<1>8. records' = Reverse(list)
  BY DEF Restart
<1>9. records' = [i \in 1..n |-> list[n - i + 1]]
  BY <1>7, <1>8 DEF Reverse
<1>10. ASSUME NEW i \in 1..n
       PROVE  /\ records'[i] \in RecordType
              /\ Len(history) + 1 - i \in DOMAIN history
              /\ records'[i] = Restored(history[Len(history) + 1 - i])
  <2>1. n - i + 1 \in 1..n
    BY <1>1
  <2>2. records'[i] = Restored(Latest[n - i + 1])
    BY <1>4, <1>9, <2>1
  <2>3. start + (n - i + 1) - 1 = Len(history) + 1 - i
    BY <1>1 DEF n
  <2>4. Latest[n - i + 1] = history[Len(history) + 1 - i]
    BY <1>4, <2>1, <2>3
  <2>5. records'[i] = Restored(history[Len(history) + 1 - i])
    BY <2>2, <2>4, Zenon
  <2>6. records'[i] \in RecordType
    BY <1>6, <2>1, <2>2
  <2> QED BY <1>5, <2>1, <2>3, <2>5, <2>6
<1>11. DOMAIN records' = 1..n /\ records' = [i \in 1..n |-> records'[i]]
  BY <1>9
<1> HIDE DEF list
<1>12. records' \in Seq(RecordType) /\ Len(records') = n
  BY <1>1, <1>10, <1>11
<1> QED BY <1>1, <1>10, <1>11, <1>12

-----------------------------------------------------------------------------
(* A transfer, its guard and its target.                                    *)

\* What SentIsDelivered and RemoteSessionOwned need of each transfer: a session that
\* is used was opened for files that were offered, the target has only files that it
\* accepted, and it is done with the last of them.
TransferOK(x) ==
  /\ request[x[1]] \in {"Idle", "Staging"} => state[x] = "Idle"
  /\ state[x] = "Idle" => remote[x] = "None"
  /\ state[x] \in {"Idle", "Preparing"} => completed[x] = {} /\ guard[x] = "None"
  /\ remote[x] = "None" \/ (state[x] = "Preparing" /\ remote[x] # "Nothing") => delivered[x] = {}
  /\ remote[x] = "Nothing" => delivered[x] = IF x[1] \in Text THEN files[x[1]] ELSE {}
  /\ state[x] = "Uploading" =>
       /\ accepted[x] \subseteq files[x[1]] /\ delivered[x] \subseteq accepted[x]
       /\ remote[x] = "Active" => delivered[x] # accepted[x]
  /\ completed[x] \subseteq delivered[x]
  /\ guard[x] = "Done" => remote[x] # "Active"

SessionOwned(x) ==
  remote[x] = "Active" =>
    \/ state[x] = "Preparing"
    \/ state[x] = "Uploading" /\ guard[x] = "Armed"
    \/ guard[x] \in {"Cancelling", "Lost"}
    \/ guard[x] = "None" /\ state[x] \in {"Finished", "Done", "Dropped"}

TransferInv == \A x \in Transfer : TransferOK(x) /\ SessionOwned(x)

\* The temporary files of a request, which has none before it begins.
StagedInv ==
  /\ StagedExactly
  /\ \A b \in Batch : request[b] = "Idle" => files[b] = {}

\* The transfers have the types that OutgoingTypeOK gives them.
SendTypes ==
  /\ state \in [Transfer -> {"Idle", "Preparing", "Uploading", "Cancelling", "Finished",
                             "Done", "Dropped"}]
  /\ completed \in [Transfer -> SUBSET File]
  /\ \A x \in Transfer : completed[x] \subseteq files[x[1]]
  /\ guard \in [Transfer -> {"None", "Armed", "Cancelling", "Done", "Lost"}]
  /\ remote \in [Transfer -> {"None", "Active", "Nothing", "Over"}]
  /\ accepted \in [Transfer -> SUBSET File]
  /\ delivered \in [Transfer -> SUBSET File]
HandlerTypes ==
  /\ request \in [Batch -> {"Idle", "Staging", "Sending", "Over"}]
  /\ files \in [Batch -> SUBSET File]
  /\ disk \in SUBSET (Batch \X File)
ListTypes == records \in Seq(RecordType) /\ history \in Seq(RowType)

LEMMA TypeParts == OutgoingTypeOK <=> HandlerTypes /\ SendTypes /\ ListTypes
BY Zenon DEF OutgoingTypeOK, HandlerTypes, SendTypes, ListTypes, RecordType, RowType

TransferTypes == HandlerTypes /\ SendTypes

LEMMA InitTransfer == Init => TransferTypes /\ TransferInv
<1> SUFFICES ASSUME Init PROVE TransferTypes /\ TransferInv
  OBVIOUS
<1>1. HandlerTypes /\ SendTypes
  BY TransferOf DEF Init, HandlerTypes, SendTypes
<1>2. TransferInv
  BY TransferOf DEF Init, TransferInv, TransferOK, SessionOwned
<1> QED BY <1>1, <1>2 DEF TransferTypes

\* A step of the handler of b.
LEMMA HandlerMove ==
  ASSUME TransferTypes, TransferInv, NEW b \in Batch, RequestStep(b)
  PROVE  TransferTypes' /\ TransferInv'
<1> USE DEF TransferTypes, HandlerTypes, SendTypes, TransferInv, TransferOK, SessionOwned
<1> USE TransferOf
<1>1. CASE AbortRequest(b) \/ StartSends(b) \/ FinishRequest(b)
  <2>1. /\ UNCHANGED <<files, sendVars, remoteVars>> /\ disk' \subseteq disk
        /\ request[b] # "Idle"
        /\ request' \in [Batch -> {"Idle", "Staging", "Sending", "Over"}]
        /\ request'[b] \in {"Sending", "Over"} /\ \A c \in Batch \ {b} : request'[c] = request[c]
    <3>1. CASE AbortRequest(b) BY <3>1 DEF AbortRequest
    <3>2. CASE StartSends(b) BY <3>2 DEF StartSends
    <3>3. CASE FinishRequest(b) BY <3>3 DEF FinishRequest
    <3> QED BY <1>1, <3>1, <3>2, <3>3
  <2> QED BY <2>1 DEF sendVars, remoteVars
<1>2. CASE StartText(b)
  <2>1. TextUpload \in File
    BY OutgoingAssumption DEF TextUpload
  <2>2. /\ UNCHANGED <<disk, sendVars, remoteVars>> /\ request[b] = "Idle"
        /\ request' = [request EXCEPT ![b] = "Sending"]
        /\ files' = [files EXCEPT ![b] = {TextUpload}]
    BY <1>2 DEF StartText
  <2> QED BY <2>1, <2>2 DEF sendVars, remoteVars
<1>3. CASE DropRequest(b)
  <2>1. \A x \in Transfer : x \in Of(b) <=> x[1] = b
    BY OfRequest
  <2>2. /\ UNCHANGED <<files, completed, remoteVars>> /\ disk' \subseteq disk
        /\ request[b] = "Sending" /\ request' = [request EXCEPT ![b] = "Over"]
        /\ state' = [x \in Transfer |->
             IF x[1] = b /\ state[x] \notin {"Idle", "Done"} THEN "Dropped" ELSE state[x]]
        /\ guard' = [x \in Transfer |->
             IF x[1] = b /\ guard[x] = "Armed" THEN "Cancelling" ELSE guard[x]]
    BY <1>3, <2>1 DEF DropRequest
  <2> QED BY <2>2 DEF remoteVars
<1>4. ASSUME NEW f \in File, StageFile(b, f) PROVE TransferTypes' /\ TransferInv'
  <2>1. /\ UNCHANGED <<sendVars, remoteVars>> /\ request[b] \in {"Idle", "Staging"}
        /\ request' = [request EXCEPT ![b] = "Staging"]
        /\ files' = [files EXCEPT ![b] = @ \union {f}] /\ disk' = disk \union {<<b, f>>}
    BY <1>4 DEF StageFile
  <2> QED BY <2>1 DEF sendVars, remoteVars
<1> QED BY <1>1, <1>2, <1>3, <1>4 DEF RequestStep

\* A step of the transfer x, or of its target.
LEMMA TransferMove ==
  ASSUME TransferTypes, TransferInv, NEW x \in Transfer, SendStep(x) \/ PeerStep(x)
  PROVE  TransferTypes' /\ TransferInv'
<1> USE DEF TransferTypes, HandlerTypes, SendTypes, TransferInv, TransferOK, SessionOwned, Goto,
            handlerVars, sendVars, remoteVars
<1> USE TransferOf
<1>1. CASE BeginSend(x)
  BY <1>1 DEF BeginSend
<1>2. CASE PrepareFails(x)
  BY <1>2 DEF PrepareFails
<1>3. CASE TakeNothing(x)
  BY <1>3 DEF TakeNothing
<1>4. CASE TakeAnswer(x)
  BY <1>4 DEF TakeAnswer
<1>5. CASE UploadFails(x)
  BY <1>5 DEF UploadFails
<1>6. CASE EndCancel(x)
  BY <1>6 DEF EndCancel
<1>7. CASE BookResult(x)
  BY <1>7 DEF BookResult
<1>8. CASE GuardCancels(x)
  BY <1>8 DEF GuardCancels
<1>9. CASE CancelLost(x)
  BY <1>9 DEF CancelLost
<1>10. ASSUME NEW f \in File, UploadOk(x, f) PROVE TransferTypes' /\ TransferInv'
  <2>1. /\ state[x] = "Uploading" /\ f \in delivered[x] /\ f \in files[x[1]]
        /\ UNCHANGED <<handlerVars, remoteVars>>
        /\ completed' = [completed EXCEPT ![x] = @ \union {f}]
    BY <1>10 DEF UploadOk
  <2>2. CASE completed'[x] = accepted[x]
    <3>1. completed'[x] = completed[x] \union {f}
      BY <2>1
    <3>2. delivered[x] = accepted[x] /\ remote[x] # "Active"
      <4>1. /\ completed[x] \subseteq delivered[x] /\ delivered[x] \subseteq accepted[x]
            /\ remote[x] = "Active" => delivered[x] # accepted[x]
        BY <2>1
      <4>2. accepted[x] = completed[x] \union {f}
        BY <2>1, <2>2, <3>1, Zenon
      <4>3. accepted[x] \subseteq delivered[x]
        BY <2>1, <4>1, <4>2
      <4> HIDE DEF TransferTypes, TransferInv
      <4>4. delivered[x] = accepted[x]
        BY <4>1, <4>3
      <4>5. remote[x] # "Active"
        BY <4>1, <4>4
      <4> QED BY <4>4, <4>5
    <3>3. /\ state' = [state EXCEPT ![x] = "Finished"]
          /\ guard' = [guard EXCEPT ![x] = "Done"]
      BY <1>10, <2>2 DEF UploadOk
    <3> QED BY <2>1, <3>1, <3>2, <3>3
  <2>3. CASE completed'[x] # accepted[x]
    <3>1. UNCHANGED <<state, guard>>
      BY <1>10, <2>3 DEF UploadOk
    <3> QED BY <2>1, <3>1
  <2> QED BY <2>2, <2>3
<1>11. CASE PeerTakesNothing(x)
  BY <1>11 DEF PeerTakesNothing
<1>12. CASE PeerLetsGo(x)
  BY <1>12 DEF PeerLetsGo
<1>13. ASSUME NEW A \in Answer[x[1]], PeerAccepts(x, A) PROVE TransferTypes' /\ TransferInv'
  <2>1. A \in SUBSET File
    BY OutgoingAssumption
  <2> QED BY <1>13, <2>1 DEF PeerAccepts
<1>14. ASSUME NEW f \in File, PeerStores(x, f) PROVE TransferTypes' /\ TransferInv'
  BY <1>14 DEF PeerStores
<1> QED BY <1>1, <1>2, <1>3, <1>4, <1>5, <1>6, <1>7, <1>8, <1>9, <1>10, <1>11, <1>12, <1>13,
           <1>14 DEF SendStep, PeerStep

LEMMA RestartMove ==
  ASSUME TransferTypes, TransferInv, Restart
  PROVE  TransferTypes' /\ TransferInv'
BY TransferOf DEF Restart, TransferTypes, HandlerTypes, SendTypes, TransferInv, TransferOK,
                  SessionOwned, remoteVars

-----------------------------------------------------------------------------
(* The temporary files.                                                     *)

LEMMA StagedMove ==
  ASSUME TransferTypes, StagedInv, [Next]_vars
  PROVE  StagedInv'
<1> USE DEF TransferTypes, HandlerTypes, StagedInv, StagedExactly
<1>1. ASSUME UNCHANGED handlerVars PROVE StagedInv'
  BY <1>1 DEF handlerVars
<1>2. ASSUME NEW b \in Batch, RequestStep(b) PROVE StagedInv'
  <2>1. CASE AbortRequest(b)
    BY <2>1 DEF AbortRequest, TempFiles
  <2>2. CASE StartText(b)
    BY <2>2 DEF StartText
  <2>3. CASE StartSends(b)
    BY <2>3 DEF StartSends
  <2>4. CASE FinishRequest(b) \/ DropRequest(b)
    BY <2>4 DEF FinishRequest, DropRequest, TempFiles
  <2>5. ASSUME NEW f \in File, StageFile(b, f) PROVE StagedInv'
    <3>1. /\ b \notin Text /\ request[b] \in {"Idle", "Staging"}
          /\ request' = [request EXCEPT ![b] = "Staging"]
          /\ files' = [files EXCEPT ![b] = @ \union {f}]
          /\ disk' = disk \union {<<b, f>>}
      BY <2>5 DEF StageFile
    <3>2. \A part \in Batch \X File :
            part \in disk' <=> /\ part[1] \notin Text
                               /\ request'[part[1]] \in {"Staging", "Sending"}
                               /\ part[2] \in files'[part[1]]
      <4> TAKE part \in Batch \X File
      <4>1. part \in disk' <=> part \in disk \/ (part[1] = b /\ part[2] = f)
        BY <3>1
      <4>2. CASE part[1] = b
        BY <3>1, <4>1, <4>2
      <4>3. CASE part[1] # b
        BY <3>1, <4>1, <4>3
      <4> QED BY <4>2, <4>3
    <3>3. disk' \subseteq Batch \X File
      BY <3>1
    <3> QED BY <3>1, <3>2, <3>3
  <2> QED BY <1>2, <2>1, <2>2, <2>3, <2>4, <2>5 DEF RequestStep
<1>3. ASSUME NEW x \in Transfer, SendStep(x) \/ PeerStep(x) PROVE UNCHANGED handlerVars
  BY <1>3 DEF SendStep, PeerStep, BeginSend, PrepareFails, TakeNothing, TakeAnswer, UploadFails,
              EndCancel, BookResult, GuardCancels, CancelLost, UploadOk, PeerTakesNothing,
              PeerLetsGo, PeerAccepts, PeerStores
<1>4. CASE Restart
  BY <1>4 DEF Restart
<1> QED BY <1>1, <1>2, <1>3, <1>4 DEF Next, vars

-----------------------------------------------------------------------------
(* The list and the history.                                                *)

Live(x) == state[x] \in {"Preparing", "Uploading", "Cancelling", "Finished"}

\* Rows are of transfers that returned a result, one for each; records of transfers
\* that have begun.
ListInv ==
  /\ \A j \in DOMAIN history : state[history[j].id] = "Done"
  /\ \A i, j \in DOMAIN history : history[i].id = history[j].id => i = j
  /\ \A i \in DOMAIN records : state[records[i].id] # "Idle"
  /\ SentIsDelivered /\ RestoredAgrees /\ LiveRecordListed

\* What a step that leaves list and history alone may do to the rest.
ListKept ==
  /\ UNCHANGED recordVars
  /\ \A x \in Transfer :
       /\ state[x] = "Done" => state'[x] = "Done"
       /\ state[x] # "Idle" => state'[x] # "Idle" /\ files'[x[1]] = files[x[1]]
       /\ Live(x)' => Live(x)
       /\ Live(x) => Live(x)' \/ state'[x] = "Dropped"
       /\ state[x] = "Dropped" => state'[x] = "Dropped"
       /\ delivered[x] \subseteq delivered'[x]

LEMMA ListTypesElements ==
  ASSUME ListTypes
  PROVE  /\ \A i \in DOMAIN records : records[i].id \in Transfer /\ records[i].status \in Status
                                      /\ records[i] = [id |-> records[i].id, status |-> records[i].status]
         /\ \A j \in DOMAIN history : history[j].id \in Transfer /\ history[j].sent \in SUBSET File
                                      /\ history[j] = [id |-> history[j].id, sent |-> history[j].sent]
<1>1. \A i \in DOMAIN records : records[i] \in RecordType
  BY DEF ListTypes
<1>2. \A j \in DOMAIN history : history[j] \in RowType
  BY DEF ListTypes
<1> QED BY <1>1, <1>2 DEF RecordType, RowType

LEMMA KeptList ==
  ASSUME ListTypes, ListInv, ListKept
  PROVE  ListTypes' /\ ListInv'
<1>1. records' = records /\ history' = history
  BY DEF ListKept, recordVars
<1>2. \A i \in DOMAIN records : records[i].id \in Transfer
  BY ListTypesElements
<1>3. \A j \in DOMAIN history : history[j].id \in Transfer
  BY ListTypesElements
<1>4. SentIsDelivered'
  BY <1>1, <1>2, <1>3 DEF ListInv, ListKept, SentIsDelivered
<1>5. RestoredAgrees'
  <2> SUFFICES ASSUME NEW i \in DOMAIN records, NEW j \in DOMAIN history,
                      records[i].id = history[j].id
               PROVE  records[i] = Restored(history[j])'
    BY <1>1 DEF RestoredAgrees
  <2>1. files'[history[j].id[1]] = files[history[j].id[1]]
    BY <1>3 DEF ListInv, ListKept
  <2>2. records[i] = Restored(history[j])
    BY DEF ListInv, RestoredAgrees
  <2> QED BY <1>1, <2>1, <2>2 DEF Restored
<1>6. LiveRecordListed'
  BY <1>1 DEF ListInv, ListKept, LiveRecordListed, InState, Live
<1> QED BY <1>1, <1>2, <1>3, <1>4, <1>5, <1>6 DEF ListTypes, ListInv, ListKept

LEMMA BeginList ==
  ASSUME TransferTypes, ListTypes, ListInv, NEW x \in Transfer, BeginSend(x)
  PROVE  ListTypes' /\ ListInv'
<1> DEFINE new == [id |-> x, status |-> "Preparing"]
<1>1. /\ records' \in Seq(RecordType)
      /\ \A k \in DOMAIN records' :
           records'[k] = new \/ \E j \in DOMAIN records : records'[k] = records[j]
      /\ \A j \in DOMAIN records : records[j].status \in Open =>
           \E k \in DOMAIN records' : records'[k] = records[j]
      /\ \E k \in DOMAIN records' : records'[k] = new
  BY BeginElements DEF ListTypes
<1>2. /\ state[x] = "Idle" /\ state' = [state EXCEPT ![x] = "Preparing"]
      /\ history' = history /\ files' = files /\ delivered' = delivered
  BY DEF BeginSend, Goto, handlerVars, remoteVars
<1>3. new.id = x /\ new.status = "Preparing"
  OBVIOUS
<1> HIDE DEF new
<1>4. \A j \in DOMAIN history : history[j].id \in Transfer /\ history[j].id # x
  BY <1>2, ListTypesElements DEF ListInv
<1>5. \A i \in DOMAIN records : records[i].id \in Transfer /\ records[i].id # x
  BY <1>2, ListTypesElements DEF ListInv
<1>6. \A j \in DOMAIN history : state'[history[j].id] = "Done"
  BY <1>2, <1>4 DEF ListInv, TransferTypes, SendTypes
<1>7. \A i \in DOMAIN records' : state'[records'[i].id] # "Idle"
  <2> TAKE i \in DOMAIN records'
  <2>1. CASE records'[i] = new
    BY <1>2, <1>3, <2>1 DEF TransferTypes, SendTypes
  <2>2. ASSUME NEW j \in DOMAIN records, records'[i] = records[j] PROVE state'[records'[i].id] # "Idle"
    BY <1>2, <1>5, <2>2 DEF ListInv, TransferTypes, SendTypes
  <2> QED BY <1>1, <2>1, <2>2
<1>8. SentIsDelivered'
  <2>1. ASSUME NEW i \in DOMAIN records', records'[i].status = "Completed"
        PROVE  files[records'[i].id[1]] \subseteq delivered[records'[i].id]
    <3>1. PICK j \in DOMAIN records : records'[i] = records[j]
      BY <1>1, <1>3, <2>1
    <3> QED BY <2>1, <3>1 DEF ListInv, SentIsDelivered
  <2> QED BY <1>2, <2>1 DEF ListInv, SentIsDelivered
<1>9. RestoredAgrees'
  <2> SUFFICES ASSUME NEW i \in DOMAIN records', NEW j \in DOMAIN history,
                      records'[i].id = history[j].id
               PROVE  records'[i] = Restored(history[j])
    BY <1>2 DEF RestoredAgrees, Restored
  <2>1. records'[i] # new
    BY <1>3, <1>4
  <2>2. PICK k \in DOMAIN records : records'[i] = records[k]
    BY <1>1, <2>1
  <2> QED BY <2>2 DEF ListInv, RestoredAgrees
<1>10. LiveRecordListed'
  <2> SUFFICES ASSUME NEW y \in Transfer, Live(y)'
               PROVE  \E k \in DOMAIN records' : records'[k].id = y /\ records'[k].status \in Open
    BY DEF LiveRecordListed, InState, Live
  <2>1. CASE y = x
    BY <1>1, <1>3, <2>1 DEF Open
  <2>2. CASE y # x
    <3>1. Live(y)
      BY <1>2, <2>2 DEF Live, TransferTypes, SendTypes
    <3>2. PICK i \in DOMAIN records : records[i].id = y /\ records[i].status \in Open
      BY <3>1 DEF ListInv, LiveRecordListed, InState, Live
    <3> QED BY <1>1, <3>2
  <2> QED BY <2>1, <2>2
<1>11. ListTypes'
  BY <1>1, <1>2 DEF ListTypes
<1> QED BY <1>2, <1>6, <1>7, <1>8, <1>9, <1>10, <1>11 DEF ListInv

LEMMA AnswerList ==
  ASSUME TransferTypes, ListTypes, ListInv, NEW x \in Transfer, TakeAnswer(x)
  PROVE  ListTypes' /\ ListInv'
<1>1. /\ state[x] = "Preparing" /\ SetStatus(x, "Sending")
      /\ state' \in {[state EXCEPT ![x] = "Uploading"], [state EXCEPT ![x] = "Cancelling"]}
      /\ history' = history /\ files' = files /\ delivered' = delivered
  BY DEF TakeAnswer, Goto, handlerVars, remoteVars
<1>2. /\ records' \in Seq(RecordType) /\ DOMAIN records' = DOMAIN records
      /\ \A i \in DOMAIN records :
           records'[i] = IF records[i].id = x THEN [id |-> x, status |-> "Sending"] ELSE records[i]
  <2>1. "Sending" \in Status
    BY DEF Status, Open
  <2> QED BY <1>1, <2>1, StatusElements DEF ListTypes
<1>3. \A j \in DOMAIN history : history[j].id \in Transfer /\ history[j].id # x
  BY <1>1, ListTypesElements DEF ListInv
<1>4. \A i \in DOMAIN records : records'[i].id = records[i].id /\ records[i].id \in Transfer
  BY <1>2, ListTypesElements
<1>5. \A y \in Transfer : /\ (y # x => state'[y] = state[y])
                          /\ state'[x] \in {"Uploading", "Cancelling"}
  BY <1>1 DEF TransferTypes, SendTypes
<1>6. SentIsDelivered'
  <2>1. \A i \in DOMAIN records : records'[i].status = "Completed" => records'[i] = records[i]
    BY <1>2
  <2> QED BY <1>1, <1>2, <2>1 DEF ListInv, SentIsDelivered
<1>7. RestoredAgrees'
  <2>1. \A i \in DOMAIN records : records[i].id # x => records'[i] = records[i]
    BY <1>2
  <2> QED BY <1>1, <1>2, <1>3, <1>4, <2>1 DEF ListInv, RestoredAgrees, Restored
<1>8. LiveRecordListed'
  <2> SUFFICES ASSUME NEW y \in Transfer, Live(y)'
               PROVE  \E k \in DOMAIN records' : records'[k].id = y /\ records'[k].status \in Open
    BY DEF LiveRecordListed, InState, Live
  <2>1. Live(y)
    BY <1>1, <1>5 DEF Live
  <2>2. PICK i \in DOMAIN records : records[i].id = y /\ records[i].status \in Open
    BY <2>1 DEF ListInv, LiveRecordListed, InState, Live
  <2> QED BY <1>2, <2>2 DEF Open
<1> QED BY <1>1, <1>2, <1>3, <1>4, <1>5, <1>6, <1>7, <1>8 DEF ListTypes, ListInv

LEMMA BookList ==
  ASSUME TransferTypes, TransferInv, ListTypes, ListInv, NEW x \in Transfer, BookResult(x)
  PROVE  ListTypes' /\ ListInv'
<1> DEFINE status == IF completed[x] = files[x[1]] THEN "Completed" ELSE "Failed"
           row == [id |-> x, sent |-> completed[x]]
<1>1. /\ state[x] = "Finished" /\ state' = [state EXCEPT ![x] = "Done"]
      /\ SetStatus(x, status) /\ history' \in {history, Append(history, row)}
      /\ files' = files /\ delivered' = delivered
  BY DEF BookResult, Goto, handlerVars, remoteVars
<1>2. completed[x] \subseteq delivered[x] /\ completed[x] \in SUBSET File
  BY DEF TransferInv, TransferOK, TransferTypes, SendTypes
<1>3. /\ row \in RowType /\ row.id = x /\ row.sent = completed[x]
      /\ [id |-> x, status |-> status] = Restored(row)
  BY <1>2 DEF RowType, Restored
<1>4. /\ status \in Status
      /\ status = "Completed" => files[x[1]] \subseteq delivered[x]
  BY <1>2 DEF Status
<1> HIDE DEF status, row
<1>5. /\ records' \in Seq(RecordType) /\ DOMAIN records' = DOMAIN records
      /\ \A i \in DOMAIN records :
           records'[i] = IF records[i].id = x THEN [id |-> x, status |-> status] ELSE records[i]
  BY <1>1, <1>4, StatusElements DEF ListTypes
<1>6. /\ history' \in Seq(RowType)
      /\ \A j \in DOMAIN history' : (j \in DOMAIN history /\ history'[j] = history[j])
                                    \/ (j = Len(history) + 1 /\ history'[j] = row)
  <2>1. history \in Seq(RowType) /\ row \in RowType
    BY <1>3 DEF ListTypes
  <2>2. CASE history' = history
    BY <2>1, <2>2
  <2>3. CASE history' = Append(history, row)
    BY <2>1, <2>3
  <2> QED BY <1>1, <2>2, <2>3
<1>7. \A j \in DOMAIN history : history[j].id \in Transfer /\ history[j].id # x
  BY <1>1, ListTypesElements DEF ListInv
<1>8. \A i \in DOMAIN records : /\ records'[i].id = records[i].id /\ records[i].id \in Transfer
                                /\ records'[i].id = x => records'[i] = [id |-> x, status |-> status]
                                /\ records'[i].id # x => records'[i] = records[i]
  BY <1>5, ListTypesElements
<1>9. \A y \in Transfer : (y # x => state'[y] = state[y]) /\ state'[x] = "Done"
  BY <1>1 DEF TransferTypes, SendTypes
<1>10. \A j \in DOMAIN history' : state'[history'[j].id] = "Done"
  BY <1>3, <1>6, <1>7, <1>9 DEF ListInv
<1>11. \A i, j \in DOMAIN history' : history'[i].id = history'[j].id => i = j
  BY <1>3, <1>6, <1>7 DEF ListInv
<1>12. \A i \in DOMAIN records' : state'[records'[i].id] # "Idle"
  BY <1>5, <1>8, <1>9 DEF ListInv
<1>13. SentIsDelivered'
  <2>1. ASSUME NEW i \in DOMAIN records, records'[i].status = "Completed"
        PROVE  files[records'[i].id[1]] \subseteq delivered[records'[i].id]
    <3>1. CASE records'[i].id = x
      <4>1. status = "Completed" BY <1>8, <2>1, <3>1
      <4> QED BY <1>4, <3>1, <4>1
    <3>2. CASE records'[i].id # x
      BY <1>8, <2>1, <3>2 DEF ListInv, SentIsDelivered
    <3> QED BY <3>1, <3>2
  <2>2. ASSUME NEW j \in DOMAIN history'
        PROVE  history'[j].sent \subseteq delivered[history'[j].id]
    BY <1>2, <1>3, <1>6 DEF ListInv, SentIsDelivered
  <2> QED BY <1>1, <1>5, <2>1, <2>2 DEF SentIsDelivered
<1>14. RestoredAgrees'
  <2> SUFFICES ASSUME NEW i \in DOMAIN records, NEW j \in DOMAIN history',
                      records'[i].id = history'[j].id
               PROVE  records'[i] = Restored(history'[j])
    BY <1>1, <1>5 DEF RestoredAgrees, Restored
  <2>1. CASE records'[i].id = x
    <3>1. history'[j] = row
      BY <1>6, <1>7, <2>1
    <3> QED BY <1>3, <1>8, <2>1, <3>1
  <2>2. CASE records'[i].id # x
    <3>1. j \in DOMAIN history /\ history'[j] = history[j]
      BY <1>3, <1>6, <2>2
    <3> QED BY <1>8, <2>2, <3>1 DEF ListInv, RestoredAgrees
  <2> QED BY <2>1, <2>2
<1>15. LiveRecordListed'
  <2> SUFFICES ASSUME NEW y \in Transfer, Live(y)'
               PROVE  \E k \in DOMAIN records' : records'[k].id = y /\ records'[k].status \in Open
    BY DEF LiveRecordListed, InState, Live
  <2>1. Live(y) /\ y # x
    BY <1>9 DEF Live
  <2>2. PICK i \in DOMAIN records : records[i].id = y /\ records[i].status \in Open
    BY <2>1 DEF ListInv, LiveRecordListed, InState, Live
  <2> QED BY <1>5, <2>1, <2>2
<1>16. ListTypes'
  BY <1>5, <1>6 DEF ListTypes
<1> QED BY <1>10, <1>11, <1>12, <1>13, <1>14, <1>15, <1>16 DEF ListInv

LEMMA RestartList ==
  ASSUME TransferTypes, ListTypes, ListInv, Restart
  PROVE  ListTypes' /\ ListInv'
<1>1. /\ records' \in Seq(RecordType)
      /\ \A i \in DOMAIN records' : \E j \in DOMAIN history : records'[i] = Restored(history[j])
  BY RestoredElements DEF ListTypes
<1>2. /\ history' = history /\ files' = files /\ delivered' = delivered
      /\ state' = [x \in Transfer |->
           IF state[x] \in {"Idle", "Done"} THEN state[x] ELSE "Dropped"]
  BY DEF Restart, remoteVars
<1>3. \A j \in DOMAIN history : history[j].id \in Transfer /\ state'[history[j].id] = "Done"
  BY <1>2, ListTypesElements DEF ListInv
<1>4. \A j \in DOMAIN history : /\ Restored(history[j]).id = history[j].id
                                /\ Restored(history[j]).status = "Completed" =>
                                     history[j].sent = files[history[j].id[1]]
  BY DEF Restored
<1>5. \A i \in DOMAIN records' : state'[records'[i].id] # "Idle"
  BY <1>1, <1>3, <1>4
<1>6. SentIsDelivered'
  <2>1. ASSUME NEW i \in DOMAIN records', records'[i].status = "Completed"
        PROVE  files[records'[i].id[1]] \subseteq delivered[records'[i].id]
    <3>1. PICK j \in DOMAIN history : records'[i] = Restored(history[j])
      BY <1>1
    <3>2. records'[i].id = history[j].id /\ history[j].sent = files[history[j].id[1]]
      BY <1>4, <2>1, <3>1
    <3> QED BY <3>2 DEF ListInv, SentIsDelivered
  <2> QED BY <1>2, <2>1 DEF ListInv, SentIsDelivered
<1>7. RestoredAgrees'
  <2> SUFFICES ASSUME NEW i \in DOMAIN records', NEW j \in DOMAIN history,
                      records'[i].id = history[j].id
               PROVE  records'[i] = Restored(history[j])
    BY <1>2 DEF RestoredAgrees, Restored
  <2>1. PICK k \in DOMAIN history : records'[i] = Restored(history[k])
    BY <1>1
  <2>2. k = j
    BY <1>4, <2>1 DEF ListInv
  <2> QED BY <2>1, <2>2
<1>8. LiveRecordListed'
  BY <1>2 DEF LiveRecordListed, InState
<1> QED BY <1>1, <1>2, <1>3, <1>5, <1>6, <1>7, <1>8 DEF ListTypes, ListInv

\* Everything but BeginSend, TakeAnswer, BookResult and Restart leaves both alone.
LEMMA HandlerKeepsList ==
  ASSUME TransferTypes, TransferInv, NEW b \in Batch, RequestStep(b)
  PROVE  ListKept
<1> USE TransferOf DEF TransferTypes, HandlerTypes, SendTypes, TransferInv, TransferOK, ListKept, Live
<1>1. CASE AbortRequest(b) \/ StartSends(b) \/ FinishRequest(b)
  BY <1>1 DEF AbortRequest, StartSends, FinishRequest, sendVars, remoteVars
<1>2. CASE StartText(b)
  BY <1>2 DEF StartText, sendVars, remoteVars
<1>3. CASE DropRequest(b)
  BY <1>3 DEF DropRequest, remoteVars
<1>4. ASSUME NEW f \in File, StageFile(b, f) PROVE ListKept
  BY <1>4 DEF StageFile, sendVars, remoteVars
<1> QED BY <1>1, <1>2, <1>3, <1>4 DEF RequestStep

LEMMA TransferKeepsList ==
  ASSUME TransferTypes, TransferInv, NEW x \in Transfer, SendStep(x) \/ PeerStep(x)
  PROVE  BeginSend(x) \/ TakeAnswer(x) \/ BookResult(x) \/ ListKept
<1> USE DEF TransferTypes, HandlerTypes, SendTypes, TransferInv, TransferOK, ListKept, Live, Goto,
            handlerVars, sendVars, remoteVars
<1>1. CASE PrepareFails(x)
  BY <1>1 DEF PrepareFails
<1>2. CASE TakeNothing(x)
  BY <1>2 DEF TakeNothing
<1>3. CASE UploadFails(x)
  BY <1>3 DEF UploadFails
<1>4. CASE EndCancel(x)
  BY <1>4 DEF EndCancel
<1>5. CASE GuardCancels(x) \/ CancelLost(x)
  BY <1>5 DEF GuardCancels, CancelLost
<1>6. ASSUME NEW f \in File, UploadOk(x, f) PROVE ListKept
  BY <1>6 DEF UploadOk
<1>7. CASE PeerTakesNothing(x)
  BY <1>7 DEF PeerTakesNothing
<1>8. CASE PeerLetsGo(x)
  BY <1>8 DEF PeerLetsGo
<1>9. ASSUME NEW A \in Answer[x[1]], PeerAccepts(x, A) PROVE ListKept
  BY <1>9 DEF PeerAccepts
<1>10. ASSUME NEW f \in File, PeerStores(x, f) PROVE ListKept
  BY <1>10 DEF PeerStores
<1> QED BY <1>1, <1>2, <1>3, <1>4, <1>5, <1>6, <1>7, <1>8, <1>9, <1>10 DEF SendStep, PeerStep

-----------------------------------------------------------------------------
(* The length of the list.                                                  *)

Running == InState({"Preparing", "Uploading", "Cancelling", "Finished"})
Stuck == {i \in DOMAIN records :
            records[i].status \in Open /\ state[records[i].id] = "Dropped"}

\* At most as many transfers run as there are permits; a record that is open is of
\* one that runs or was dropped, and one that runs has a single record.
CountInv ==
  /\ IsFiniteSet(Running) /\ Cardinality(Running) <= MaxConcurrentSends
  /\ \A i \in DOMAIN records :
       records[i].status \in Open => Live(records[i].id) \/ state[records[i].id] = "Dropped"
  /\ \A i, j \in DOMAIN records : Live(records[i].id) /\ records[i].id = records[j].id => i = j
  /\ RecordsBounded

LEMMA BoundedByStuck == RecordsBounded <=> Len(records) <= MaxInMemory + Cardinality(Stuck)
BY DEF RecordsBounded, Stuck

LEMMA PositionsFinite ==
  ASSUME NEW s \in Seq(RecordType), NEW T \in SUBSET DOMAIN s
  PROVE  /\ IsFiniteSet(DOMAIN s) /\ Cardinality(DOMAIN s) = Len(s)
         /\ IsFiniteSet(T) /\ Cardinality(T) \in Nat
<1>1. DOMAIN s = 1..Len(s) /\ Len(s) \in Nat
  OBVIOUS
<1>2. IsFiniteSet(DOMAIN s) /\ Cardinality(DOMAIN s) = Len(s)
  <2>1. \A n \in Nat : IsFiniteSet(1..n) /\ Cardinality(1..n) = n
    <3> TAKE n \in Nat
    <3>1. IsFiniteSet(1..n) /\ Cardinality(1..n) = IF 1 > n THEN 0 ELSE n - 1 + 1
      BY FS_Interval
    <3>2. (IF 1 > n THEN 0 ELSE n - 1 + 1) = n
      OBVIOUS
    <3> QED BY <3>1, <3>2
  <2> QED BY <1>1, <2>1
<1> QED BY <1>2, FS_Subset, FS_CardinalityType

\* Where the records of the list are after room was made: old[k] is the former place
\* of the k-th one, at most one is gone, and what is open is still there.
RoomOf(short, old) ==
  /\ old \in [1..Len(short) -> DOMAIN records]
  /\ \A k, m \in 1..Len(short) : old[k] = old[m] => k = m
  /\ \A k \in 1..Len(short) : short[k] = records[old[k]]
  /\ \A j \in DOMAIN records :
       records[j].status \in Open => \E k \in 1..Len(short) : old[k] = j
  /\ \E gone \in {{}} \union {{i} : i \in Evictable} : \A j \in DOMAIN records :
       j \notin gone <=> \E k \in 1..Len(short) : old[k] = j
  /\ Len(short) = IF Len(records) >= MaxInMemory /\ Evictable # {}
                  THEN Len(records) - 1 ELSE Len(records)

LEMMA RoomPositions ==
  ASSUME records \in Seq(RecordType)
  PROVE  \E old : RoomOf(MakeRoom, old)
<1>0. DOMAIN records = 1..Len(records) /\ Len(records) \in Nat
  OBVIOUS
<1>1. CASE Len(records) >= MaxInMemory /\ Evictable # {}
  <2> DEFINE first == CHOOSE i \in Evictable : \A j \in Evictable : i <= j
             short == RemoveAt(records, first)
             old == [k \in 1..Len(short) |-> IF k < first THEN k ELSE k + 1]
  <2>1. Evictable \in SUBSET Nat /\ Evictable \subseteq 1..Len(records)
    BY DEF Evictable
  <2>2. first \in Evictable
    BY <1>1, <2>1, FirstPosition
  <2>3. first \in 1..Len(records) /\ records[first].status \notin Open
    BY <2>1, <2>2 DEF Evictable
  <2>4. MakeRoom = short
    BY <1>1 DEF MakeRoom
  <2> HIDE DEF first
  <2>5. /\ Len(short) = Len(records) - 1
        /\ \A k \in 1..(first - 1) : short[k] = records[k]
        /\ \A k \in first..(Len(records) - 1) : short[k] = records[k + 1]
    BY <2>3, RemoveAtElements
  <2> HIDE DEF short
  <2>6. \A k \in 1..Len(short) : old[k] = (IF k < first THEN k ELSE k + 1) /\ old[k] \in 1..Len(records)
    BY <1>0, <2>3, <2>5
  <2>7. old \in [1..Len(short) -> DOMAIN records]
    BY <1>0, <2>6
  <2> HIDE DEF old
  <2>8. \A k, m \in 1..Len(short) : old[k] = old[m] => k = m
    BY <1>0, <2>3, <2>5, <2>6
  <2>9. \A k \in 1..Len(short) : short[k] = records[old[k]]
    BY <1>0, <2>3, <2>5, <2>6
  <2>10. ASSUME NEW j \in DOMAIN records, j # first
         PROVE  \E k \in 1..Len(short) : old[k] = j
    <3>1. j # first /\ j \in 1..Len(records)
      BY <1>0, <2>10
    <3>2. CASE j < first
      <4>1. j \in 1..Len(short) BY <1>0, <2>3, <2>5, <3>1, <3>2
      <4> QED BY <2>6, <3>2, <4>1
    <3>3. CASE j > first
      <4>1. j - 1 \in 1..Len(short) /\ ~(j - 1 < first) /\ (j - 1) + 1 = j
        BY <1>0, <2>3, <2>5, <3>1, <3>3
      <4>2. old[j - 1] = j BY <2>6, <4>1
      <4> QED BY <4>1, <4>2
    <3> QED BY <1>0, <2>3, <3>1, <3>2, <3>3
  <2>11. \A k \in 1..Len(short) : old[k] # first
    BY <1>0, <2>3, <2>5, <2>6
  <2>12. \A j \in DOMAIN records : j \notin {first} <=> \E k \in 1..Len(short) : old[k] = j
    BY <2>10, <2>11
  <2>13. {first} \in {{}} \union {{i} : i \in Evictable}
    BY <2>2
  <2>14. \A j \in DOMAIN records :
           records[j].status \in Open => \E k \in 1..Len(short) : old[k] = j
    BY <2>3, <2>10
  <2>15. \E gone \in {{}} \union {{i} : i \in Evictable} : \A j \in DOMAIN records :
            j \notin gone <=> \E k \in 1..Len(short) : old[k] = j
    BY <2>12, <2>13, Zenon
  <2>16. RoomOf(short, old)
    BY <1>1, <2>5, <2>7, <2>8, <2>9, <2>14, <2>15 DEF RoomOf
  <2> QED BY <2>4, <2>16
<1>2. CASE ~(Len(records) >= MaxInMemory /\ Evictable # {})
  <2> DEFINE old == [k \in 1..Len(records) |-> k]
  <2>1. MakeRoom = records
    BY <1>2 DEF MakeRoom
  <2>2. old \in [1..Len(records) -> DOMAIN records] /\ \A k \in 1..Len(records) : old[k] = k
    BY <1>0
  <2> HIDE DEF old
  <2>3. \A j \in DOMAIN records : j \notin {} <=> \E k \in 1..Len(records) : old[k] = j
    BY <1>0, <2>2
  <2>4. \E gone \in {{}} \union {{i} : i \in Evictable} : \A j \in DOMAIN records :
           j \notin gone <=> \E k \in 1..Len(records) : old[k] = j
    <3>1. {} \in {{}} \union {{i} : i \in Evictable}
      OBVIOUS
    <3> QED BY <2>3, <3>1, Zenon
  <2>5. \A k, m \in 1..Len(records) : old[k] = old[m] => k = m
    BY <2>2
  <2>6. \A k \in 1..Len(records) : records[k] = records[old[k]]
    BY <2>2
  <2>7. RoomOf(records, old)
    BY <1>2, <2>2, <2>3, <2>4, <2>5, <2>6 DEF RoomOf
  <2> QED BY <2>1, <2>7
<1> QED BY <1>1, <1>2

\* What may run after a step that starts nothing.
LEMMA RunningFewer ==
  ASSUME CountInv, \A x \in Transfer : Live(x)' => Live(x)
  PROVE  IsFiniteSet(Running') /\ Cardinality(Running') <= MaxConcurrentSends
<1>1. Running' \subseteq Running
  BY DEF Running, InState, Live
<1>2. IsFiniteSet(Running') /\ Cardinality(Running') <= Cardinality(Running)
  BY <1>1, FS_Subset DEF CountInv
<1>3. Cardinality(Running') \in Nat /\ Cardinality(Running) \in Nat /\ MaxConcurrentSends \in Nat
  BY <1>2, FS_CardinalityType, OutgoingAssumption DEF CountInv
<1> QED BY <1>2, <1>3 DEF CountInv

\* A step that keeps the positions, and what is stuck.
LEMMA SameLength ==
  ASSUME ListTypes, ListTypes', RecordsBounded, Len(records') = Len(records), Stuck \subseteq Stuck'
  PROVE  RecordsBounded'
<1>1. Stuck \in SUBSET DOMAIN records /\ Stuck' \in SUBSET DOMAIN records'
  BY DEF Stuck
<1>2. IsFiniteSet(Stuck') /\ Cardinality(Stuck') \in Nat /\ Cardinality(Stuck) \in Nat
  BY <1>1, PositionsFinite DEF ListTypes
<1>3. Cardinality(Stuck) <= Cardinality(Stuck')
  BY <1>2, FS_Subset
<1>4. Len(records) <= MaxInMemory + Cardinality(Stuck) /\ Len(records) \in Nat /\ MaxInMemory \in Nat
  BY BoundedByStuck, OutgoingAssumption DEF ListTypes
<1>5. Len(records') <= MaxInMemory + Cardinality(Stuck')
  BY <1>2, <1>3, <1>4
<1> QED BY <1>5 DEF RecordsBounded, Stuck

LEMMA KeptCount ==
  ASSUME ListTypes, ListTypes', CountInv, ListKept
  PROVE  CountInv'
<1>1. records' = records
  BY DEF ListKept, recordVars
<1>2. \A i \in DOMAIN records : records[i].id \in Transfer
  BY ListTypesElements
<1>3. IsFiniteSet(Running') /\ Cardinality(Running') <= MaxConcurrentSends
  BY RunningFewer DEF ListKept
<1>4. Stuck \subseteq Stuck'
  BY <1>1, <1>2 DEF Stuck, ListKept
<1>5. RecordsBounded'
  BY <1>1, <1>4, SameLength DEF CountInv
<1> QED BY <1>1, <1>2, <1>3, <1>5 DEF CountInv, ListKept

\* TakeAnswer and BookResult: one transfer goes on, or is done, and its record says so.
LEMMA StatusCount ==
  ASSUME TransferTypes, ListTypes, ListTypes', CountInv, NEW x \in Transfer, Live(x),
         NEW s \in Status, SetStatus(x, s),
         NEW next \in {"Uploading", "Cancelling", "Done"}, Goto(x, next),
         next = "Done" => s \notin Open
  PROVE  CountInv'
<1>1. /\ DOMAIN records' = DOMAIN records
      /\ \A i \in DOMAIN records :
           records'[i] = IF records[i].id = x THEN [id |-> x, status |-> s] ELSE records[i]
  BY StatusElements DEF ListTypes
<1>2. \A i \in DOMAIN records : records[i].id \in Transfer /\ records'[i].id = records[i].id
  BY <1>1, ListTypesElements
<1>3. state'[x] = next /\ \A y \in Transfer : y # x => state'[y] = state[y]
  BY DEF Goto, TransferTypes, SendTypes
<1>4. \A y \in Transfer : Live(y)' => Live(y)
  BY <1>3 DEF Live
<1>5. IsFiniteSet(Running') /\ Cardinality(Running') <= MaxConcurrentSends
  BY <1>4, RunningFewer
<1>6. state[x] # "Dropped"
  BY DEF Live
<1>7. Stuck \subseteq Stuck'
  <2> SUFFICES ASSUME NEW i \in Stuck PROVE i \in Stuck'
    OBVIOUS
  <2>1. i \in DOMAIN records /\ records[i].id # x
    BY <1>6 DEF Stuck
  <2>2. records'[i] = records[i] /\ state'[records[i].id] = state[records[i].id]
    BY <1>1, <1>2, <1>3, <2>1
  <2> QED BY <1>1, <2>1, <2>2 DEF Stuck
<1>8. Len(records') = Len(records)
  BY <1>1 DEF ListTypes
<1>9. RecordsBounded'
  BY <1>7, <1>8, SameLength DEF CountInv
<1>10. ASSUME NEW i \in DOMAIN records, records'[i].status \in Open
       PROVE  Live(records[i].id)' \/ state'[records'[i].id] = "Dropped"
  <2>1. CASE records[i].id = x
    <3>1. records'[i].id = x /\ records'[i].status = s
      BY <1>1, <2>1
    <3>2. next # "Done"
      BY <1>10, <3>1
    <3> QED BY <1>3, <3>1, <3>2 DEF Live
  <2>2. CASE records[i].id # x
    <3>1. records'[i] = records[i] /\ state'[records[i].id] = state[records[i].id]
      BY <1>1, <1>2, <1>3, <2>2
    <3> QED BY <1>10, <3>1 DEF CountInv, Live
  <2> QED BY <2>1, <2>2
<1>11. ASSUME NEW i \in DOMAIN records, NEW j \in DOMAIN records,
              Live(records[i].id)', records'[i].id = records'[j].id
       PROVE  i = j
  <2>1. records[i].id = records[j].id /\ Live(records[i].id)
    BY <1>2, <1>4, <1>11
  <2> QED BY <2>1 DEF CountInv
<1> QED BY <1>1, <1>5, <1>9, <1>10, <1>11 DEF CountInv

\* A new record takes the place of one that is over; when there is none, all records
\* are of transfers that run, of which there are fewer than permits, or stuck.
LEMMA BeginCount ==
  ASSUME TransferTypes, ListTypes, ListTypes', ListInv, CountInv, NEW x \in Transfer, BeginSend(x)
  PROVE  CountInv'
<1> DEFINE new == [id |-> x, status |-> "Preparing"]
           n == Len(MakeRoom)
<1>0. /\ Len(records) \in Nat /\ DOMAIN records = 1..Len(records)
      /\ MaxInMemory \in Nat /\ MaxConcurrentSends \in Nat /\ MaxConcurrentSends <= MaxInMemory
  BY OutgoingAssumption DEF ListTypes
<1>1. /\ state[x] = "Idle" /\ state' = [state EXCEPT ![x] = "Preparing"]
      /\ MaxConcurrentSends - Cardinality(Running) > 0
      /\ records' = Append(MakeRoom, new)
  BY DEF BeginSend, Goto, Permits, Running
<1>2. state'[x] = "Preparing" /\ \A y \in Transfer : y # x => state'[y] = state[y]
  BY <1>1 DEF TransferTypes, SendTypes
<1>3. Cardinality(Running) \in Nat
  BY FS_CardinalityType DEF CountInv
<1>4. Running' = Running \union {x} /\ x \notin Running
  BY <1>1, <1>2 DEF Running, InState
<1>5. IsFiniteSet(Running') /\ Cardinality(Running') <= MaxConcurrentSends
  <2>1. IsFiniteSet(Running) BY DEF CountInv
  <2>2. IsFiniteSet(Running \union {x}) /\ Cardinality(Running \union {x}) = Cardinality(Running) + 1
    BY <1>4, <2>1, FS_AddElement
  <2>3. Cardinality(Running) + 1 <= MaxConcurrentSends
    BY <1>0, <1>1, <1>3
  <2> QED BY <1>4, <2>2, <2>3
<1>6. PICK old \in [1..n -> DOMAIN records] :
           /\ \A k, m \in 1..n : old[k] = old[m] => k = m
           /\ \A k \in 1..n : MakeRoom[k] = records[old[k]]
           /\ \A j \in DOMAIN records :
                records[j].status \in Open => \E k \in 1..n : old[k] = j
           /\ n = IF Len(records) >= MaxInMemory /\ Evictable # {}
                  THEN Len(records) - 1 ELSE Len(records)
  <2>1. PICK old : RoomOf(MakeRoom, old)
    BY RoomPositions DEF ListTypes
  <2>2. old \in [1..n -> DOMAIN records]
    BY <2>1 DEF RoomOf
  <2> WITNESS old \in [1..n -> DOMAIN records]
  <2> QED BY <2>1 DEF RoomOf
<1>a. n = IF Len(records) >= MaxInMemory /\ Evictable # {}
          THEN Len(records) - 1 ELSE Len(records)
  BY <1>6
<1>7. /\ n \in Nat /\ Len(records') = n + 1 /\ DOMAIN records' = 1..(n + 1)
      /\ \A k \in 1..n : records'[k] = MakeRoom[k]
      /\ records'[n + 1] = new
  <2>1. MakeRoom \in Seq(RecordType)
    BY MakeRoomElements DEF ListTypes
  <2>2. new \in RecordType
    BY DEF RecordType, Status, Open
  <2> HIDE DEF new
  <2> QED BY <1>1, <2>1, <2>2
<1>8. new.id = x
  OBVIOUS
<1> HIDE DEF new, n
<1>9. \A k \in 1..n : old[k] \in DOMAIN records /\ records'[k] = records[old[k]]
  BY <1>6, <1>7
<1>10. \A i \in DOMAIN records :
         /\ records[i].id \in Transfer /\ records[i].id # x
         /\ state'[records[i].id] = state[records[i].id]
  BY <1>1, <1>2, ListTypesElements DEF ListInv
<1>11. ASSUME NEW k \in DOMAIN records', records'[k].status \in Open
       PROVE  Live(records[k].id)' \/ state'[records'[k].id] = "Dropped"
  <2>1. CASE k = n + 1
    BY <1>2, <1>7, <1>8, <2>1 DEF Live
  <2>2. CASE k \in 1..n
    <3>1. old[k] \in DOMAIN records /\ records'[k] = records[old[k]]
      BY <1>9, <2>2
    <3> QED BY <1>10, <1>11, <3>1 DEF CountInv, Live
  <2> QED BY <1>7, <2>1, <2>2
<1>12. ASSUME NEW k \in DOMAIN records', NEW m \in DOMAIN records',
              Live(records[k].id)', records'[k].id = records'[m].id
       PROVE  k = m
  <2>1. CASE k \in 1..n /\ m \in 1..n
    <3>1. /\ old[k] \in DOMAIN records /\ records'[k] = records[old[k]]
          /\ old[m] \in DOMAIN records /\ records'[m] = records[old[m]]
      BY <1>9, <2>1
    <3>2. Live(records[old[k]].id)
      BY <1>10, <1>12, <3>1 DEF Live
    <3>3. old[k] = old[m]
      BY <1>12, <3>1, <3>2 DEF CountInv
    <3> QED BY <1>6, <2>1, <3>3
  <2>2. ASSUME NEW i \in 1..n PROVE records'[i].id # x
    BY <1>9, <1>10
  <2>3. records'[n + 1].id = x
    BY <1>7, <1>8
  <2> QED BY <1>7, <1>12, <2>1, <2>2, <2>3
<1>13. RecordsBounded'
  <2>1. /\ Stuck \in SUBSET DOMAIN records /\ Stuck' \in SUBSET DOMAIN records'
        /\ IsFiniteSet(Stuck) /\ Cardinality(Stuck) \in Nat
        /\ IsFiniteSet(Stuck') /\ Cardinality(Stuck') \in Nat
    <3>1. Stuck \in SUBSET DOMAIN records /\ Stuck' \in SUBSET DOMAIN records'
      BY DEF Stuck
    <3> QED BY <3>1, PositionsFinite DEF ListTypes
  <2>2. Cardinality(Stuck) <= Cardinality(Stuck')
    <3> DEFINE place == [j \in Stuck |-> CHOOSE k \in 1..n : old[k] = j]
    <3>1. ASSUME NEW j \in Stuck
          PROVE  place[j] \in 1..n /\ old[place[j]] = j
      <4>1. j \in DOMAIN records /\ records[j].status \in Open
        BY DEF Stuck
      <4> QED BY <1>6, <4>1
    <3> HIDE DEF place
    <3>2. ASSUME NEW j \in Stuck PROVE place[j] \in Stuck'
      <4>1. /\ records[j].status \in Open /\ state[records[j].id] = "Dropped"
            /\ j \in DOMAIN records
        BY DEF Stuck
      <4>2. records'[place[j]] = records[j] /\ place[j] \in DOMAIN records'
        BY <1>7, <1>9, <3>1
      <4> QED BY <1>10, <4>1, <4>2 DEF Stuck
    <3>3. place \in [Stuck -> Stuck']
      BY <3>2 DEF place
    <3>4. \A j, l \in Stuck : place[j] = place[l] => j = l
      BY <3>1
    <3>5. place \in Injection(Stuck, Stuck')
      BY <3>3, <3>4 DEF Injection, IsInjective
    <3> QED BY <2>1, <3>5, FS_Injection
  <2>3. Len(records) <= MaxInMemory + Cardinality(Stuck)
    BY BoundedByStuck DEF CountInv
  <2>4. CASE Len(records) >= MaxInMemory /\ Evictable # {}
    <3>1. Len(records') = Len(records)
      BY <1>0, <1>a, <1>7, <2>4
    <3> QED BY <1>0, <2>1, <2>2, <2>3, <3>1 DEF RecordsBounded, Stuck
  <2>5. CASE ~(Len(records) >= MaxInMemory)
    <3>0. n = Len(records)
      BY <1>a, <2>5
    <3>1. Len(records) + 1 <= MaxInMemory
      BY <1>0, <2>5
    <3>2. Len(records') <= MaxInMemory
      BY <1>7, <3>0, <3>1
    <3> QED BY <1>0, <1>7, <2>1, <3>2 DEF RecordsBounded, Stuck
  <2>6. CASE Evictable = {}
    <3> DEFINE Busy == {i \in DOMAIN records : Live(records[i].id)}
    <3>1. DOMAIN records \subseteq Stuck \union Busy
      BY <2>6 DEF Evictable, Stuck, CountInv
    <3>2. [i \in Busy |-> records[i].id] \in Injection(Busy, Running)
      <4>1. \A i \in Busy : records[i].id \in Running
        BY <1>10 DEF Running, InState, Live
      <4>2. \A i, j \in Busy : records[i].id = records[j].id => i = j
        BY DEF CountInv
      <4> QED BY <4>1, <4>2 DEF Injection, IsInjective
    <3>3. IsFiniteSet(Busy) /\ Cardinality(Busy) <= Cardinality(Running)
      BY <3>2, FS_Injection DEF CountInv
    <3> HIDE DEF Busy
    <3>4. /\ IsFiniteSet(Stuck \union Busy) /\ Cardinality(Busy) \in Nat
          /\ Cardinality(Stuck \union Busy) <= Cardinality(Stuck) + Cardinality(Busy)
      <4>1. /\ IsFiniteSet(Stuck \union Busy)
            /\ Cardinality(Stuck \union Busy) =
                 Cardinality(Stuck) + Cardinality(Busy) - Cardinality(Stuck \intersect Busy)
        BY <2>1, <3>3, FS_Union
      <4>2. IsFiniteSet(Stuck \intersect Busy)
        BY <2>1, FS_Intersection
      <4>3. Cardinality(Stuck \intersect Busy) \in Nat /\ Cardinality(Busy) \in Nat
        BY <3>3, <4>2, FS_CardinalityType
      <4> QED BY <2>1, <4>1, <4>3
    <3>5. Len(records) <= Cardinality(Stuck \union Busy)
      <4>1. Cardinality(DOMAIN records) = Len(records)
        BY <1>0, FS_Interval
      <4>2. Cardinality(DOMAIN records) <= Cardinality(Stuck \union Busy)
        BY <3>1, <3>4, FS_Subset
      <4> QED BY <4>1, <4>2
    <3>6. Cardinality(Stuck \union Busy) \in Nat
      BY <3>4, FS_CardinalityType
    <3>7. Len(records') = Len(records) + 1
      BY <1>a, <1>7, <2>6
    <3>8. Len(records') <= MaxInMemory + Cardinality(Stuck')
      BY <1>0, <1>1, <1>3, <2>1, <2>2, <3>3, <3>4, <3>5, <3>6, <3>7
    <3> QED BY <3>8 DEF RecordsBounded, Stuck
  <2> QED BY <1>0, <2>4, <2>5, <2>6
<1> QED BY <1>5, <1>11, <1>12, <1>13 DEF CountInv

\* A restart reads no more rows than the list may have, and nothing runs.
LEMMA RestartCount ==
  ASSUME TransferTypes, ListTypes, ListTypes', ListInv, ListInv', CountInv, Restart
  PROVE  CountInv'
<1>1. state' = [x \in Transfer |-> IF state[x] \in {"Idle", "Done"} THEN state[x] ELSE "Dropped"]
  BY DEF Restart
<1>2. \A x \in Transfer : ~Live(x)'
  BY <1>1 DEF Live
<1>3. IsFiniteSet(Running') /\ Cardinality(Running') <= MaxConcurrentSends
  BY <1>2, RunningFewer
<1>4. \A i \in DOMAIN records' : records'[i].id \in Transfer /\ records'[i].status \notin Open
  <2> TAKE i \in DOMAIN records'
  <2>1. PICK j \in DOMAIN history : records'[i] = Restored(history[j])
    BY RestoredElements DEF ListTypes
  <2>2. history[j].id \in Transfer
    BY ListTypesElements
  <2> QED BY <2>1, <2>2 DEF Restored, Open
<1>5. RecordsBounded'
  <2>1. Len(records') <= MaxInMemory /\ Len(records') \in Nat
    BY RestoredElements DEF ListTypes
  <2>2. Cardinality(Stuck') \in Nat
    <3>1. Stuck' \in SUBSET DOMAIN records'
      BY DEF Stuck
    <3> QED BY <3>1, PositionsFinite DEF ListTypes
  <2>3. Len(records') <= MaxInMemory + Cardinality(Stuck')
    BY <2>1, <2>2, OutgoingAssumption
  <2> QED BY <2>3 DEF RecordsBounded, Stuck
<1> QED BY <1>2, <1>3, <1>4, <1>5 DEF CountInv

-----------------------------------------------------------------------------
(* The theorems.                                                            *)

OutgoingInv == TransferTypes /\ TransferInv /\ StagedInv /\ ListTypes /\ ListInv /\ CountInv

LEMMA OutgoingStep == OutgoingInv /\ [Next]_vars => OutgoingInv'
<1> SUFFICES ASSUME OutgoingInv, [Next]_vars PROVE OutgoingInv'
  OBVIOUS
<1> USE DEF OutgoingInv
<1>1. StagedInv'
  BY StagedMove
<1>2. CASE UNCHANGED vars
  <2>1. UNCHANGED <<request, files, disk, state, completed, guard, records, history, remote,
                    accepted, delivered>>
    BY <1>2 DEF vars, handlerVars, sendVars, recordVars, remoteVars
  <2>2. TransferTypes' /\ TransferInv'
    BY <2>1 DEF TransferTypes, HandlerTypes, SendTypes, TransferInv, TransferOK, SessionOwned
  <2>3. ListKept
    BY <2>1 DEF ListKept, Live, recordVars
  <2> QED BY <1>1, <2>2, <2>3, KeptList, KeptCount
<1>3. ASSUME NEW b \in Batch, RequestStep(b) PROVE OutgoingInv'
  BY <1>1, <1>3, HandlerMove, HandlerKeepsList, KeptList, KeptCount
<1>4. ASSUME NEW x \in Transfer, SendStep(x) \/ PeerStep(x) PROVE OutgoingInv'
  <2>1. TransferTypes' /\ TransferInv'
    BY <1>4, TransferMove
  <2>2. ListTypes' /\ ListInv'
    <3>1. BeginSend(x) \/ TakeAnswer(x) \/ BookResult(x) \/ ListKept
      BY <1>4, TransferKeepsList
    <3> QED BY <3>1, BeginList, AnswerList, BookList, KeptList
  <2>3. CountInv'
    <3>1. CASE ListKept
      BY <2>2, <3>1, KeptCount
    <3>2. CASE BeginSend(x)
      BY <2>2, <3>2, BeginCount
    <3>3. CASE TakeAnswer(x)
      <4>1. /\ Live(x) /\ SetStatus(x, "Sending") /\ "Sending" \in Status
            /\ Goto(x, "Uploading") \/ Goto(x, "Cancelling")
        BY <3>3 DEF TakeAnswer, Live, Status, Open
      <4> QED BY <2>2, <4>1, StatusCount
    <3>4. CASE BookResult(x)
      <4>1. /\ Live(x) /\ Goto(x, "Done")
            /\ \E s \in {"Completed", "Failed"} : SetStatus(x, s)
        BY <3>4 DEF BookResult, Live
      <4>2. {"Completed", "Failed"} \subseteq Status \ Open
        BY DEF Status, Open
      <4> QED BY <2>2, <4>1, <4>2, StatusCount
    <3> QED BY <1>4, <3>1, <3>2, <3>3, <3>4, TransferKeepsList
  <2> QED BY <1>1, <2>1, <2>2, <2>3
<1>5. CASE Restart
  BY <1>1, <1>5, RestartMove, RestartList, RestartCount
<1> QED BY <1>2, <1>3, <1>4, <1>5 DEF Next

\* The strengthening of the invariants below: it is inductive.
THEOREM OutgoingInvariant == Spec => []OutgoingInv
<1>1. Init => OutgoingInv
  <2> SUFFICES ASSUME Init PROVE OutgoingInv
    OBVIOUS
  <2>1. TransferTypes /\ TransferInv
    BY InitTransfer
  <2>2. StagedInv
    BY DEF Init, StagedInv, StagedExactly
  <2>3. ListTypes /\ ListInv
    BY DEF Init, ListTypes, ListInv, SentIsDelivered, RestoredAgrees, LiveRecordListed, InState
  <2>4. CountInv
    <3>1. Running = {}
      BY DEF Init, Running, InState
    <3>2. records = <<>>
      BY DEF Init
    <3>3. RecordsBounded
      <4>1. Stuck = {} /\ Len(records) = 0
        BY <3>2 DEF Stuck
      <4> QED BY <4>1, FS_EmptySet, BoundedByStuck, OutgoingAssumption
    <3> QED BY <3>1, <3>2, <3>3, FS_EmptySet, OutgoingAssumption DEF CountInv
  <2> QED BY <2>1, <2>2, <2>3, <2>4 DEF OutgoingInv
<1> QED BY <1>1, OutgoingStep, PTL DEF Spec

\* Every variable of the model has its type, and what a transfer counts as sent is
\* part of what its request has.
THEOREM OutgoingTypes == Spec => []OutgoingTypeOK
<1>1. OutgoingInv => OutgoingTypeOK
  BY TypeParts DEF OutgoingInv, TransferTypes
<1> QED BY <1>1, OutgoingInvariant, PTL

\* What list and history call sent is at the target, for any number of requests,
\* targets, permits and restarts.
THEOREM SentHasArrived == Spec => []SentIsDelivered
<1>1. OutgoingInv => SentIsDelivered
  BY DEF OutgoingInv, ListInv
<1> QED BY <1>1, OutgoingInvariant, PTL

\* A restart shows what was shown.
THEOREM RestartShowsTheSame == Spec => []RestoredAgrees
<1>1. OutgoingInv => RestoredAgrees
  BY DEF OutgoingInv, ListInv
<1> QED BY <1>1, OutgoingInvariant, PTL

\* Whatever the length of the list, a transfer under way is in it.
THEOREM LiveTransfersAreListed == Spec => []LiveRecordListed
<1>1. OutgoingInv => LiveRecordListed
  BY DEF OutgoingInv, ListInv
<1> QED BY <1>1, OutgoingInvariant, PTL

\* The list has its limit for any number of permits that is not greater, except for
\* the records that dropped requests have left open.
THEOREM ListIsBounded == Spec => []RecordsBounded
<1>1. OutgoingInv => RecordsBounded
  BY DEF OutgoingInv, CountInv
<1> QED BY <1>1, OutgoingInvariant, PTL

\* Temporary files exist exactly while their request needs them.
THEOREM TemporaryFilesAreStaged == Spec => []StagedExactly
<1>1. OutgoingInv => StagedExactly
  BY DEF OutgoingInv, StagedInv
<1> QED BY <1>1, OutgoingInvariant, PTL

\* A session at a target that was heard of is completed or cancelled.
THEOREM RemoteSessionsAreOwned == Spec => []RemoteSessionOwned
<1>1. OutgoingInv => RemoteSessionOwned
  BY DEF OutgoingInv, TransferInv, SessionOwned, RemoteSessionOwned
<1> QED BY <1>1, OutgoingInvariant, PTL

(***************************************************************************)
(* The refinement to TransferReport.  No transfer is listed twice, a       *)
(* request that has begun has files, and a row says what was completed.    *)
(***************************************************************************)
ReportInv ==
  /\ \A i, j \in DOMAIN records : records[i].id = records[j].id => i = j
  /\ \A b \in Batch : request[b] # "Idle" => files[b] # {}
  /\ \A j \in DOMAIN history : history[j].sent = completed[history[j].id]

ReportStep == [Report!ReportNext]_Report!reportVars

\* Records of different transfers remain so when room is made for one that is new.
LEMMA BeginPlaces ==
  ASSUME ListTypes, ListInv, ReportInv, NEW x \in Transfer, BeginSend(x)
  PROVE  /\ \A i, j \in DOMAIN records' : records'[i].id = records'[j].id => i = j
         /\ \E gone \in {{}} \union {{entry} : entry \in {e \in List : e[2] \in Report!Verdict}} :
              List' = (List \ gone) \union {<<x, "Open">>}
<1> DEFINE new == [id |-> x, status |-> "Preparing"]
           n == Len(MakeRoom)
<1>1. PICK old : RoomOf(MakeRoom, old)
  BY RoomPositions DEF ListTypes
<1>2. n \in Nat /\ DOMAIN records' = 1..(n + 1)
      /\ (\A k \in 1..n : records'[k] = MakeRoom[k]) /\ records'[n + 1] = new
  <2>1. MakeRoom \in Seq(RecordType)
    BY MakeRoomElements DEF ListTypes
  <2>2. new \in RecordType /\ records' = Append(MakeRoom, new)
    BY DEF RecordType, Status, Open, BeginSend
  <2> HIDE DEF new
  <2> QED BY <2>1, <2>2
<1>3. \A k \in 1..n : old[k] \in DOMAIN records /\ records'[k] = records[old[k]]
  BY <1>1, <1>2 DEF RoomOf
<1>4. new.id = x /\ Shown(new) = <<x, "Open">>
  BY DEF Shown, Open
<1> HIDE DEF new, n
<1>5. \A i \in DOMAIN records : records[i].id # x
  BY ListTypesElements DEF ListInv, BeginSend
<1>6. ASSUME NEW i \in 1..(n + 1), NEW j \in 1..(n + 1), records'[i].id = records'[j].id
      PROVE  i = j
  <2>1. CASE i = n + 1
    BY <1>2, <1>3, <1>4, <1>5, <1>6, <2>1
  <2>2. CASE j = n + 1
    BY <1>2, <1>3, <1>4, <1>5, <1>6, <2>2
  <2>3. CASE i # n + 1 /\ j # n + 1
    <3>1. i \in 1..n /\ j \in 1..n
      BY <1>2, <2>3
    <3>2. old[i] = old[j]
      BY <1>3, <1>6, <3>1 DEF ReportInv
    <3> QED BY <1>1, <3>1, <3>2 DEF RoomOf, n
  <2> QED BY <2>1, <2>2, <2>3
<1>7. PICK places \in {{}} \union {{i} : i \in Evictable} : \A j \in DOMAIN records :
        j \notin places <=> \E k \in 1..n : old[k] = j
  BY <1>1 DEF RoomOf, n
<1> DEFINE gone == {Shown(records[i]) : i \in places}
<1>8. places \subseteq DOMAIN records
  BY <1>7 DEF Evictable
<1>9. gone \in {{}} \union {{entry} : entry \in {e \in List : e[2] \in Report!Verdict}}
  <2>1. CASE places = {}
    BY <2>1
  <2>2. ASSUME NEW i \in Evictable, places = {i} PROVE gone \in {{entry} : entry \in {e \in List : e[2] \in Report!Verdict}}
    <3>1. i \in DOMAIN records /\ records[i].status \in Report!Verdict
      BY ListTypesElements DEF Evictable, Status, Open, Report!Verdict
    <3>2. Shown(records[i])[2] \in Report!Verdict /\ Shown(records[i]) \in List
      BY <3>1 DEF Shown, Open, Report!Verdict, List
    <3>3. gone = {Shown(records[i])}
      BY <2>2
    <3> QED BY <3>2, <3>3
  <2> QED BY <1>7, <2>1, <2>2
<1>10. ASSUME NEW e PROVE e \in List' <=> e \in (List \ gone) \union {<<x, "Open">>}
  <2>1. CASE e = <<x, "Open">>
    <3>1. n + 1 \in DOMAIN records' /\ Shown(records'[n + 1]) = e
      BY <1>2, <1>4, <2>1
    <3> QED BY <2>1, <3>1 DEF List, Shown
  <2>2. ASSUME NEW k \in DOMAIN records', e = Shown(records'[k]), e # <<x, "Open">>
        PROVE  e \in List \ gone
    <3>1. k \in 1..n
      BY <1>2, <1>4, <2>2
    <3>2. old[k] \in DOMAIN records \ places /\ e = Shown(records[old[k]])
      BY <1>3, <1>7, <2>2, <3>1
    <3>3. \A i \in places : records[i].id # records[old[k]].id
      BY <1>8, <3>2 DEF ReportInv
    <3>4. \A i \in places : Shown(records[i]) # e
      BY <3>2, <3>3 DEF Shown
    <3> QED BY <3>2, <3>4 DEF List
  <2>3. ASSUME NEW i \in DOMAIN records, e = Shown(records[i]), e \notin gone
        PROVE  e \in List'
    <3>1. i \notin places
      BY <2>3
    <3>2. PICK k \in 1..n : old[k] = i
      BY <1>7, <3>1
    <3>3. k \in DOMAIN records' /\ e = Shown(records'[k])
      BY <1>2, <1>3, <2>3, <3>2
    <3> QED BY <3>3 DEF List, Shown
  <2>4. e \in List' <=> \E k \in DOMAIN records' : e = Shown(records'[k])
    BY DEF List, Shown
  <2>5. e \in List <=> \E i \in DOMAIN records : e = Shown(records[i])
    BY DEF List
  <2> QED BY <2>1, <2>2, <2>3, <2>4, <2>5
<1> HIDE DEF gone
<1>11. List' = (List \ gone) \union {<<x, "Open">>}
  BY <1>10
<1> QED BY <1>2, <1>6, <1>9, <1>11

\* A new status is shown of one transfer, and changes nothing else in the list.
LEMMA StatusPlaces ==
  ASSUME ListTypes, ListInv, ReportInv, NEW x \in Transfer, NEW s \in Status, SetStatus(x, s), Live(x)
  PROVE  /\ \A i, j \in DOMAIN records' : records'[i].id = records'[j].id => i = j
         /\ <<x, "Open">> \in List
         /\ List' = (List \ {<<x, "Open">>}) \union {<<x, IF s \in Open THEN "Open" ELSE s>>}
<1> DEFINE word == IF s \in Open THEN "Open" ELSE s
<1>1. /\ DOMAIN records' = DOMAIN records
      /\ \A i \in DOMAIN records :
           records'[i] = IF records[i].id = x THEN [id |-> x, status |-> s] ELSE records[i]
  BY StatusElements DEF ListTypes
<1>2. PICK p \in DOMAIN records : records[p].id = x /\ records[p].status \in Open
  BY DEF ListInv, LiveRecordListed, InState, Live
<1>3. \A i \in DOMAIN records : i # p => records[i].id # x
  BY <1>2 DEF ReportInv
<1>4. Shown(records[p]) = <<x, "Open">> /\ Shown(records'[p]) = <<x, word>>
  BY <1>1, <1>2 DEF Shown
<1>5. \A i \in DOMAIN records : i # p =>
        records'[i] = records[i] /\ Shown(records[i]) # <<x, "Open">>
  BY <1>1, <1>3 DEF Shown
<1> HIDE DEF word
<1>6. ASSUME NEW e PROVE e \in List' <=> e \in (List \ {<<x, "Open">>}) \union {<<x, word>>}
  <2>1. e \in List' <=> \E i \in DOMAIN records : e = Shown(records'[i])
    BY <1>1 DEF List, Shown
  <2>2. e \in List <=> \E i \in DOMAIN records : e = Shown(records[i])
    BY DEF List
  <2> QED BY <1>2, <1>4, <1>5, <2>1, <2>2
<1>7. <<x, "Open">> \in List
  BY <1>2, <1>4 DEF List
<1>8. List' = (List \ {<<x, "Open">>}) \union {<<x, word>>}
  BY <1>6
<1>9. \A i, j \in DOMAIN records' : records'[i].id = records'[j].id => i = j
  BY <1>1 DEF ReportInv
<1> QED BY <1>7, <1>8, <1>9 DEF word

\* Transfers that go on running, or stay as they are, are where they were.
LEMMA SameStage ==
  ASSUME UNCHANGED delivered,
         \A x \in Transfer :
           /\ state'[x] = state[x] \/ (Live(x) /\ Live(x)')
           /\ state[x] # "Idle" => files'[x[1]] = files[x[1]]
           /\ state[x] = "Done" => completed'[x] = completed[x]
  PROVE  Stage' = Stage /\ Arrived' = Arrived
<1>1. \A x \in Transfer : Stage'[x] = Stage[x]
  BY DEF Stage, Verdict, Live
<1>2. Stage' = Stage
  BY <1>1 DEF Stage
<1>3. \A x \in Transfer : state'[x] = "Idle" <=> state[x] = "Idle"
  BY DEF Live
<1>4. Arrived' = Arrived
  BY <1>3 DEF Arrived
<1> QED BY <1>2, <1>4

LEMMA SameList ==
  ASSUME UNCHANGED recordVars
  PROVE  List' = List /\ Kept' = Kept
BY DEF recordVars, List, Kept, Shown

LEMMA ReportOfHandler ==
  ASSUME TransferTypes, TransferInv, NEW b \in Batch, RequestStep(b)
  PROVE  ReportStep
<1> USE TransferOf DEF TransferTypes, HandlerTypes, SendTypes, TransferInv, TransferOK
<1>1. CASE DropRequest(b)
  <2> DEFINE lost == {x \in Transfer : x[1] = b /\ Live(x)}
  <2>1. /\ UNCHANGED <<files, completed, delivered, records, history>>
        /\ \A x \in Transfer : state'[x] = IF x \in lost \/ (x[1] = b /\ state[x] = "Dropped")
                                           THEN "Dropped" ELSE state[x]
    BY <1>1, OfRequest DEF DropRequest, recordVars, remoteVars, Live
  <2>2. lost \in SUBSET Report!Running
    BY DEF Report!Running, Stage, Live
  <2>3. \A x \in Transfer : Stage'[x] = IF x \in lost THEN "Lost" ELSE Stage[x]
    BY <2>1 DEF Stage, Verdict, Live
  <2>4. Stage' = [x \in Transfer |-> IF x \in lost THEN "Lost" ELSE Stage[x]]
    BY <2>3 DEF Stage
  <2>5. Arrived' = Arrived
    BY <2>1 DEF Arrived, Live
  <2>6. List' = List /\ Kept' = Kept
    BY <2>1, SameList DEF recordVars
  <2> HIDE DEF lost
  <2>7. Report!Lose
    BY <2>2, <2>4, <2>5, <2>6 DEF Report!Lose
  <2> QED BY <2>7 DEF ReportStep, Report!ReportNext
<1>2. CASE ~DropRequest(b)
  <2>1. /\ UNCHANGED <<state, completed, delivered, records, history>>
        /\ \A x \in Transfer : state[x] # "Idle" => files'[x[1]] = files[x[1]]
    <3>1. CASE AbortRequest(b) \/ StartSends(b) \/ FinishRequest(b)
      BY <3>1 DEF AbortRequest, StartSends, FinishRequest, sendVars, recordVars, remoteVars
    <3>2. CASE StartText(b)
      BY <3>2 DEF StartText, sendVars, recordVars, remoteVars
    <3>3. ASSUME NEW f \in File, StageFile(b, f)
          PROVE  /\ UNCHANGED <<state, completed, delivered, records, history>>
                 /\ \A x \in Transfer : state[x] # "Idle" => files'[x[1]] = files[x[1]]
      BY <3>3 DEF StageFile, sendVars, recordVars, remoteVars
    <3> QED BY <1>2, <3>1, <3>2, <3>3 DEF RequestStep
  <2> QED BY <2>1, SameStage, SameList DEF ReportStep, Report!reportVars, recordVars
<1> QED BY <1>1, <1>2

\* What is delivered is delivered to a transfer that runs.
LEMMA ReportOfDelivery ==
  ASSUME TransferTypes, NEW x \in Transfer, Live(x),
         UNCHANGED <<files, state, completed, records, history>>,
         \A y \in Transfer \ {x} : delivered'[y] = delivered[y],
         x \in Arrived => x \in Arrived'
  PROVE  ReportStep
<1>1. Stage' = Stage /\ List' = List /\ Kept' = Kept
  BY SameList DEF Stage, Verdict, recordVars
<1>2. \A y \in Transfer \ {x} : y \in Arrived' <=> y \in Arrived
  BY DEF Arrived
<1>3. Arrived \subseteq Transfer /\ Arrived' \subseteq Transfer
  BY DEF Arrived
<1>4. CASE Arrived' = Arrived
  BY <1>1, <1>4 DEF ReportStep, Report!reportVars
<1>5. CASE Arrived' # Arrived
  <2>1. x \in Arrived' /\ x \notin Arrived
    BY <1>2, <1>3, <1>5
  <2>2. Arrived' = Arrived \union {x}
    BY <1>2, <1>3, <2>1
  <2>3. Stage[x] = "Running"
    BY DEF Stage, Live
  <2>4. Report!Arrive(x)
    BY <1>1, <2>1, <2>2, <2>3 DEF Report!Arrive
  <2> QED BY <2>4 DEF ReportStep, Report!ReportNext
<1> QED BY <1>4, <1>5

LEMMA ReportOfTransfer ==
  ASSUME TransferTypes, TransferInv, ListTypes, ListInv, ReportInv,
         NEW x \in Transfer, SendStep(x) \/ PeerStep(x)
  PROVE  ReportStep
<1>1. CASE BeginSend(x)
  <2>1. /\ state[x] = "Idle" /\ state' = [state EXCEPT ![x] = "Preparing"]
        /\ request[x[1]] = "Sending"
        /\ UNCHANGED <<files, completed, delivered, history>>
    BY <1>1 DEF BeginSend, Goto, handlerVars, remoteVars
  <2>2. delivered[x] = {} /\ files[x[1]] # {}
    BY <2>1, TransferOf DEF TransferInv, TransferOK, ReportInv
  <2>3. Stage[x] = "New" /\ Stage' = [Stage EXCEPT ![x] = "Running"]
    <3>1. \A y \in Transfer : Stage'[y] = IF y = x THEN "Running" ELSE Stage[y]
      BY <2>1 DEF Stage, Verdict, TransferTypes, SendTypes
    <3> QED BY <2>1, <3>1 DEF Stage
  <2>4. Arrived' = Arrived
    BY <2>1, <2>2 DEF Arrived, TransferTypes, SendTypes
  <2>5. Kept' = Kept
    BY <2>1 DEF Kept
  <2>6. Report!Begin(x)
    BY <1>1, <2>3, <2>4, <2>5, BeginPlaces DEF Report!Begin
  <2> QED BY <2>6 DEF ReportStep, Report!ReportNext
<1>2. CASE TakeAnswer(x)
  <2>1. /\ Live(x) /\ SetStatus(x, "Sending") /\ "Sending" \in Status /\ "Sending" \in Open
        /\ state' \in {[state EXCEPT ![x] = "Uploading"], [state EXCEPT ![x] = "Cancelling"]}
        /\ UNCHANGED <<files, completed, delivered, history>>
    BY <1>2 DEF TakeAnswer, Goto, Live, Status, Open, handlerVars, remoteVars
  <2>2. List' = List
    <3>1. <<x, "Open">> \in List /\ List' = (List \ {<<x, "Open">>}) \union {<<x, "Open">>}
      BY <2>1, StatusPlaces, Zenon
    <3> QED BY <3>1
  <2>3. Stage' = Stage /\ Arrived' = Arrived
    BY <2>1, SameStage DEF Live, TransferTypes, SendTypes
  <2>4. Kept' = Kept
    BY <2>1 DEF Kept
  <2> QED BY <2>2, <2>3, <2>4 DEF ReportStep, Report!reportVars
<1>3. CASE BookResult(x)
  <2>1. /\ Live(x) /\ state' = [state EXCEPT ![x] = "Done"] /\ SetStatus(x, Verdict(x))
        /\ UNCHANGED <<files, completed, delivered>>
        /\ history' \in {history, Append(history, [id |-> x, sent |-> completed[x]])}
    BY <1>3 DEF BookResult, Goto, Live, Verdict, handlerVars, remoteVars
  <2>2. Verdict(x) \in Report!Verdict /\ Verdict(x) \in Status /\ Verdict(x) \notin Open
    BY DEF Verdict, Report!Verdict, Status, Open
  <2>3. /\ <<x, "Open">> \in List
        /\ List' = (List \ {<<x, "Open">>}) \union {<<x, Verdict(x)>>}
    BY <2>1, <2>2, StatusPlaces
  <2>4. Stage[x] = "Running" /\ Stage' = [Stage EXCEPT ![x] = Verdict(x)]
    <3>1. \A y \in Transfer : Stage'[y] = IF y = x THEN Verdict(x) ELSE Stage[y]
      BY <2>1 DEF Stage, Verdict, TransferTypes, SendTypes
    <3>2. Stage[x] = "Running"
      BY <2>1 DEF Stage, Live
    <3> QED BY <3>1, <3>2 DEF Stage
  <2>5. Arrived' = Arrived
    BY <2>1 DEF Arrived, Live, TransferTypes, SendTypes
  <2>6. Verdict(x) = "Completed" => x \in Arrived
    BY <2>1 DEF Verdict, Arrived, Live, TransferInv, TransferOK
  <2>7. Kept' \in {Kept, Kept \union {x}}
    <3>1. CASE history' = history
      BY <3>1 DEF Kept
    <3>2. CASE history' = Append(history, [id |-> x, sent |-> completed[x]])
      <4> DEFINE row == [id |-> x, sent |-> completed[x]]
      <4>1. row \in RowType /\ row.id = x
        BY DEF RowType, TransferTypes, SendTypes
      <4> HIDE DEF row
      <4>2. /\ DOMAIN history' = 1..(Len(history) + 1) /\ DOMAIN history = 1..Len(history)
            /\ Len(history) \in Nat /\ history'[Len(history) + 1] = row
            /\ \A j \in 1..Len(history) : history'[j] = history[j]
        BY <3>2, <4>1 DEF row, ListTypes
      <4>3. Kept' = Kept \union {x}
        BY <4>1, <4>2 DEF Kept
      <4> QED BY <4>3
    <3> QED BY <2>1, <3>1, <3>2
  <2>8. Report!Conclude(x, Verdict(x))
    BY <2>3, <2>4, <2>5, <2>6, <2>7 DEF Report!Conclude
  <2> QED BY <2>2, <2>8 DEF ReportStep, Report!ReportNext
<1>4. CASE PeerTakesNothing(x)
  <2>1. /\ UNCHANGED <<files, state, completed, records, history>> /\ Live(x)
        /\ remote[x] = "None" /\ \A y \in Transfer \ {x} : delivered'[y] = delivered[y]
    BY <1>4 DEF PeerTakesNothing, Live, handlerVars, sendVars, recordVars, TransferTypes, SendTypes
  <2>2. delivered[x] = {}
    BY <2>1 DEF TransferInv, TransferOK
  <2>3. x \in Arrived => x \in Arrived'
    BY <2>1, <2>2 DEF Arrived
  <2> QED BY <2>1, <2>3, ReportOfDelivery
<1>5. ASSUME NEW f \in File, PeerStores(x, f) PROVE ReportStep
  <2>1. /\ UNCHANGED <<files, state, completed, records, history>> /\ Live(x)
        /\ delivered' = [delivered EXCEPT ![x] = @ \union {f}]
    BY <1>5 DEF PeerStores, Live, handlerVars, sendVars, recordVars
  <2>2. x \in Arrived => x \in Arrived'
    BY <2>1 DEF Arrived, TransferTypes, SendTypes
  <2>3. \A y \in Transfer \ {x} : delivered'[y] = delivered[y]
    BY <2>1 DEF TransferTypes, SendTypes
  <2> QED BY <2>1, <2>2, <2>3, ReportOfDelivery
<1> DEFINE Unseen == /\ UNCHANGED <<files, delivered, records, history>>
                     /\ \A y \in Transfer : /\ state'[y] = state[y] \/ (Live(y) /\ Live(y)')
                                            /\ state[y] = "Done" => completed'[y] = completed[y]
<1>6. CASE PrepareFails(x) \/ UploadFails(x) \/ EndCancel(x)
  <2>1. Unseen
    BY <1>6 DEF PrepareFails, UploadFails, EndCancel, Goto, Live, handlerVars, recordVars, remoteVars,
                TransferTypes, SendTypes
  <2> QED BY <2>1, SameStage, SameList DEF ReportStep, Report!reportVars, recordVars
<1>7. CASE TakeNothing(x)
  <2>1. Unseen
    BY <1>7 DEF TakeNothing, Goto, Live, handlerVars, recordVars, remoteVars, TransferTypes, SendTypes
  <2> QED BY <2>1, SameStage, SameList DEF ReportStep, Report!reportVars, recordVars
<1>8. ASSUME NEW f \in File, UploadOk(x, f) PROVE ReportStep
  <2>1. Unseen
    BY <1>8 DEF UploadOk, Goto, Live, handlerVars, recordVars, remoteVars, TransferTypes, SendTypes
  <2> QED BY <2>1, SameStage, SameList DEF ReportStep, Report!reportVars, recordVars
<1>9. CASE GuardCancels(x) \/ CancelLost(x) \/ PeerLetsGo(x)
  <2>1. Unseen
    BY <1>9 DEF GuardCancels, CancelLost, PeerLetsGo, handlerVars, sendVars, recordVars, remoteVars
  <2> QED BY <2>1, SameStage, SameList DEF ReportStep, Report!reportVars, recordVars
<1>10. ASSUME NEW A \in Answer[x[1]], PeerAccepts(x, A) PROVE ReportStep
  <2>1. Unseen
    BY <1>10 DEF PeerAccepts, handlerVars, sendVars, recordVars, remoteVars
  <2> QED BY <2>1, SameStage, SameList DEF ReportStep, Report!reportVars, recordVars
<1> QED BY <1>1, <1>2, <1>3, <1>4, <1>5, <1>6, <1>7, <1>8, <1>9, <1>10 DEF SendStep, PeerStep

LEMMA ReportOfRestart ==
  ASSUME TransferTypes, ListTypes, ListInv, ReportInv, Restart
  PROVE  /\ \A i, j \in DOMAIN records' : records'[i].id = records'[j].id => i = j
         /\ ReportStep
<1> DEFINE restored == {records'[i].id : i \in DOMAIN records'}
           row(i) == history[Len(history) + 1 - i]
<1>1. /\ UNCHANGED <<files, completed, history, delivered>>
      /\ state' = [x \in Transfer |-> IF state[x] \in {"Idle", "Done"} THEN state[x] ELSE "Dropped"]
  BY DEF Restart, remoteVars
<1>2. /\ records' \in Seq(RecordType)
      /\ \A i \in DOMAIN records' : /\ Len(history) + 1 - i \in DOMAIN history
                                    /\ records'[i] = Restored(row(i))
  BY RestoredElements DEF ListTypes
<1>3. DOMAIN records' \subseteq Nat /\ Len(history) \in Nat
  BY <1>2 DEF ListTypes
<1> HIDE DEF row
<1>4. \A i \in DOMAIN records' : records'[i].id = row(i).id
  BY <1>2 DEF Restored
<1>5. ASSUME NEW i \in DOMAIN records', NEW j \in DOMAIN records', records'[i].id = records'[j].id
      PROVE  i = j
  <2>1. Len(history) + 1 - i = Len(history) + 1 - j
    BY <1>2, <1>4, <1>5 DEF ListInv, row
  <2> QED BY <1>3, <2>1
<1>6. ASSUME NEW i \in DOMAIN records'
      PROVE  /\ records'[i].id \in Kept /\ records'[i].id \in Transfer
             /\ Shown(records'[i]) = <<records'[i].id, Stage[records'[i].id]>>
  <2>1. PICK j \in DOMAIN history : row(i) = history[j]
    BY <1>2 DEF row
  <2>2. history[j].id \in Transfer /\ state[history[j].id] = "Done"
    BY ListTypesElements DEF ListInv
  <2>3. records'[i] = Restored(history[j]) /\ records'[i].id = history[j].id
    BY <1>2, <1>4, <2>1
  <2>4. records'[i].status = Verdict(history[j].id)
    BY <2>3 DEF Restored, Verdict, ReportInv
  <2> QED BY <2>2, <2>3, <2>4 DEF Kept, Shown, Stage, Verdict, Open
<1>7. List' = {<<x, Stage[x]>> : x \in restored}
  <2>1. List' = {Shown(records'[i]) : i \in DOMAIN records'}
    BY DEF List, Shown
  <2> QED BY <1>6, <2>1
<1>8. restored \in SUBSET Kept
  BY <1>6
<1>9. Stage' = [x \in Transfer |-> IF x \in Report!Running THEN "Lost" ELSE Stage[x]]
  <2>1. \A x \in Transfer : Stage'[x] = IF x \in Report!Running THEN "Lost" ELSE Stage[x]
    BY <1>1 DEF Stage, Verdict, Report!Running, TransferTypes, SendTypes
  <2> QED BY <2>1 DEF Stage
<1>10. Arrived' = Arrived /\ Kept' = Kept
  BY <1>1 DEF Arrived, Kept
<1> HIDE DEF restored
<1>11. Report!Restarted
  BY <1>7, <1>8, <1>9, <1>10 DEF Report!Restarted
<1> QED BY <1>5, <1>11 DEF ReportStep, Report!ReportNext

\* Rows say what was completed, and are written when nothing is added any more.
LEMMA RowsStep ==
  ASSUME TransferTypes, TransferInv, ListTypes, ListInv, ReportInv, [Next]_vars
  PROVE  \A j \in DOMAIN history' : history'[j].sent = completed'[history'[j].id]
<1>1. ASSUME history' = history, \A x \in Transfer : state[x] = "Done" => completed'[x] = completed[x]
      PROVE  \A j \in DOMAIN history' : history'[j].sent = completed'[history'[j].id]
  BY <1>1, ListTypesElements DEF ListInv, ReportInv
<1>2. ASSUME NEW x \in Transfer, BookResult(x)
      PROVE  \A j \in DOMAIN history' : history'[j].sent = completed'[history'[j].id]
  <2> DEFINE row == [id |-> x, sent |-> completed[x]]
  <2>1. completed' = completed /\ history' \in {history, Append(history, row)}
    BY <1>2 DEF BookResult
  <2>2. row \in RowType /\ row.id = x /\ row.sent = completed[x]
    BY DEF RowType, TransferTypes, SendTypes
  <2> HIDE DEF row
  <2>3. \A j \in DOMAIN history' : history'[j] = row \/ (j \in DOMAIN history /\ history'[j] = history[j])
    BY <2>1, <2>2 DEF ListTypes
  <2> QED BY <2>1, <2>2, <2>3 DEF ReportInv
<1>3. ASSUME NEW b \in Batch, RequestStep(b) PROVE history' = history /\ completed' = completed
  BY <1>3 DEF RequestStep, AbortRequest, StartText, StartSends, FinishRequest, DropRequest, StageFile,
              sendVars, recordVars
<1>4. ASSUME NEW x \in Transfer, SendStep(x) \/ PeerStep(x), ~BookResult(x)
      PROVE  history' = history /\ \A y \in Transfer : state[y] = "Done" => completed'[y] = completed[y]
  <2>1. CASE TakeNothing(x) \/ \E f \in File : UploadOk(x, f)
    BY <2>1 DEF TakeNothing, UploadOk, recordVars, TransferTypes, SendTypes
  <2>2. CASE ~(TakeNothing(x) \/ \E f \in File : UploadOk(x, f))
    BY <1>4, <2>2 DEF SendStep, PeerStep, BeginSend, PrepareFails, TakeAnswer, UploadFails, EndCancel,
         GuardCancels, CancelLost, PeerTakesNothing, PeerLetsGo, PeerAccepts, PeerStores,
         sendVars, recordVars
  <2> QED BY <2>1, <2>2
<1>5. CASE Restart
  BY <1>1, <1>5 DEF Restart
<1>6. CASE UNCHANGED vars
  BY <1>1, <1>6 DEF vars, sendVars, recordVars
<1> QED BY <1>1, <1>2, <1>3, <1>4, <1>5, <1>6 DEF Next

LEMMA ReportInvStep ==
  ASSUME OutgoingInv, ReportInv, [Next]_vars
  PROVE  ReportInv' /\ ReportStep
<1> USE DEF OutgoingInv
<1> DEFINE Single == \A i, j \in DOMAIN records : records[i].id = records[j].id => i = j
           Begun == \A b \in Batch : request[b] # "Idle" => files[b] # {}
<1>1. \A j \in DOMAIN history' : history'[j].sent = completed'[history'[j].id]
  BY RowsStep
<1>2. ASSUME NEW b \in Batch, RequestStep(b) PROVE Single' /\ Begun' /\ ReportStep
  <2>1. ReportStep
    BY <1>2, ReportOfHandler
  <2>2. Single'
    BY <1>2, HandlerKeepsList DEF ListKept, recordVars, ReportInv
  <2>3. Begun'
    <3>1. CASE AbortRequest(b) \/ StartSends(b) \/ FinishRequest(b) \/ DropRequest(b)
      BY <3>1 DEF AbortRequest, StartSends, FinishRequest, DropRequest, ReportInv, TransferTypes,
                  HandlerTypes
    <3>2. CASE StartText(b)
      BY <3>2 DEF StartText, ReportInv, TransferTypes, HandlerTypes
    <3>3. ASSUME NEW f \in File, StageFile(b, f) PROVE Begun'
      BY <3>3 DEF StageFile, ReportInv, TransferTypes, HandlerTypes
    <3> QED BY <1>2, <3>1, <3>2, <3>3 DEF RequestStep
  <2> QED BY <2>1, <2>2, <2>3
<1>3. ASSUME NEW x \in Transfer, SendStep(x) \/ PeerStep(x) PROVE Single' /\ Begun' /\ ReportStep
  <2>1. ReportStep
    BY <1>3, ReportOfTransfer
  <2>2. Begun'
    <3>1. UNCHANGED handlerVars
      BY <1>3 DEF SendStep, PeerStep, BeginSend, PrepareFails, TakeNothing, TakeAnswer, UploadFails,
                  EndCancel, BookResult, GuardCancels, CancelLost, UploadOk, PeerTakesNothing,
                  PeerLetsGo, PeerAccepts, PeerStores
    <3> QED BY <3>1 DEF handlerVars, ReportInv
  <2>3. Single'
    <3>1. CASE BeginSend(x)
      BY <3>1, BeginPlaces
    <3>2. CASE TakeAnswer(x) \/ BookResult(x)
      <4>1. Live(x) /\ \E s \in Status : SetStatus(x, s)
        BY <3>2 DEF TakeAnswer, BookResult, Live, Status, Open
      <4> QED BY <4>1, StatusPlaces
    <3>3. CASE ListKept
      BY <3>3 DEF ListKept, recordVars, ReportInv
    <3> QED BY <1>3, <3>1, <3>2, <3>3, TransferKeepsList
  <2> QED BY <2>1, <2>2, <2>3
<1>4. ASSUME Restart PROVE Single' /\ Begun' /\ ReportStep
  <2>1. Begun'
    BY <1>4 DEF Restart, ReportInv
  <2> QED BY <1>4, <2>1, ReportOfRestart
<1>5. ASSUME UNCHANGED vars PROVE Single' /\ Begun' /\ ReportStep
  <2>1. UNCHANGED <<request, files, state, completed, records, history, delivered>>
    BY <1>5 DEF vars, handlerVars, sendVars, recordVars, remoteVars
  <2>2. Single' /\ Begun'
    BY <2>1 DEF ReportInv
  <2> QED BY <2>1, <2>2, SameStage, SameList DEF ReportStep, Report!reportVars, recordVars
<1> QED BY <1>1, <1>2, <1>3, <1>4, <1>5 DEF Next, ReportInv

\* Sending implements TransferReport: a transfer is called sent only after all of it
\* arrived, its verdict is final, and a restart shows what was concluded or nothing.
THEOREM SendingImplementsReport == Spec => ImplementsReport
<1>1. Init => ReportInv
  <2> SUFFICES ASSUME Init PROVE ReportInv
    OBVIOUS
  <2>1. DOMAIN records = {} /\ DOMAIN history = {}
    BY DEF Init
  <2> QED BY <2>1 DEF Init, ReportInv
<1>2. Init => Report!ReportInit
  <2> SUFFICES ASSUME Init PROVE Report!ReportInit
    OBVIOUS
  <2>1. DOMAIN records = {} /\ DOMAIN history = {}
    BY DEF Init
  <2>2. List = {} /\ Kept = {}
    BY <2>1 DEF List, Kept
  <2>3. Stage = [x \in Transfer |-> "New"] /\ Arrived = {}
    BY DEF Init, Stage, Arrived
  <2> QED BY <2>2, <2>3 DEF Report!ReportInit
<1>3. OutgoingInv /\ ReportInv /\ [Next]_vars => ReportInv' /\ ReportStep
  BY ReportInvStep
<1> QED BY <1>1, <1>2, <1>3, OutgoingInvariant, PTL
        DEF Spec, ReportStep, ImplementsReport, Report!ReportSpec
=============================================================================

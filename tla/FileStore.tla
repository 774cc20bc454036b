------------------------------- MODULE FileStore -------------------------------
(***************************************************************************)
(* Received files on disk and in the history: what the receiver does with  *)
(* an upload once the server hands it over (FileUpload in run_events,      *)
(* finalize_upload, numbered_path), the task that writes the history to    *)
(* the database (main), and what a start finds after a crash               *)
(* (cleanup_partial_files, list_transfers).  It runs beside the handlers   *)
(* of Settings, which move the destination while uploads are saved.        *)
(*                                                                         *)
(* Each call to the file system is a step of its own: uploads of one       *)
(* session are saved by tasks that run in parallel.                        *)
(***************************************************************************)
EXTENDS Settings, Sequences

CONSTANTS
  Upload,        \* uploads and requests are numbered in the order in which they begin
  Name,          \* the file names that senders ask for
  Path,          \* names of files in a directory
  MaxIndex,      \* bound on the numbers that are tried
  Numbered,      \* [Name -> [0..MaxIndex -> Path]]: numbered_path
  Before,        \* [Directory -> SUBSET Path]: files that are there before the first start
  QueueCap,      \* capacity of received_tx (32)
  MaxOperations, \* bound on uploads and requests together, a request counted twice
  DiskMayFail,   \* may a call to the file system fail?
  Nothing, Other \* contents of a path: no file; a file that Localsendy did not write

ASSUME FileStoreAssumption ==
  /\ Request \subseteq Nat /\ Upload \subseteq Nat
  /\ MaxIndex \in Nat /\ Name # {}
  /\ Numbered \in [Name -> [0..MaxIndex -> Path]]
  /\ Before \in [Directory -> SUBSET Path]
  /\ QueueCap \in Nat \ {0} /\ MaxOperations \in Nat /\ DiskMayFail \in BOOLEAN
  /\ Nothing \notin Upload /\ Other \notin Upload /\ Nothing # Other

VARIABLES
  upload,   \* where the task of each upload stands
  disk,     \* disk[d][p]: whose contents the file p of directory d has
  parts,    \* <<d, u>>: the .localsendy-part- file of u in d
  history,  \* received_files: <<u, name that is shown>>
  queue,    \* received_tx: records on their way to the database
  rows,     \* completed incoming transfers in the database
  swept     \* the directory that the last start cleaned of parts

diskVars == <<disk, parts>>
recordVars == <<history, queue, rows>>
fileVars == <<upload, diskVars, recordVars, swept>>
vars == <<settingsVars, fileVars>>

\* In "Queued" the record waits in the channel; "Stored" and "Unstored" tell how its
\* write to the database ended, "Lost" that a crash came first.  A failed upload is
\* "Stranded" when its part could not be removed, or was made after the removal;
\* "Abandoned" when it still may be made.
Stage == {"Idle", "Making", "Opening", "Writing", "Linking", "Removing", "Recording",
          "Queueing", "Queued", "Stored", "Unstored", "Abandoned", "Failed", "Stranded", "Lost"}
Record == Upload \X Path

FileStoreTypeOK ==
  /\ SettingsTypeOK
  /\ upload \in [Upload -> [at : Stage, name : Name, index : 0..MaxIndex,
                            directory : Directory]]
  /\ disk \in [Directory -> [Path -> Upload \union {Nothing, Other}]]
  /\ parts \subseteq Directory \X Upload
  /\ history \subseteq Record /\ rows \subseteq Record
  /\ queue \in Seq(Record) /\ Len(queue) <= QueueCap
  /\ swept \in Directory

NoUpload == [at |-> "Idle", name |-> CHOOSE n \in Name : TRUE, index |-> 0,
             directory |-> Default.directory]

FilesInit ==
  /\ upload = [u \in Upload |-> NoUpload]
  /\ disk = [d \in Directory |-> [p \in Path |-> IF p \in Before[d] THEN Other ELSE Nothing]]
  /\ parts = {} /\ history = {} /\ queue = <<>> /\ rows = {}
  /\ swept = Default.directory

Init == SettingsInit /\ FilesInit

Operations == 2 * Cardinality({r \in Request : request[r].at # "Idle"})
              + Cardinality({u \in Upload : upload[u].at # "Idle"})

\* The task of u is at a stage, in a program that runs.
At(u, stage) == running /\ upload[u].at = stage
Goto(u, stage) == upload' = [upload EXCEPT ![u].at = stage]

\* The path that u tries next, or has linked.
Target(u) == Numbered[upload[u].name][upload[u].index]
PartOf(u) == <<upload[u].directory, u>>

-----------------------------------------------------------------------------
(* An upload: run_events, the server that writes the body, finalize_upload. *)

BeginSave(u, name) ==
  /\ At(u, "Idle") /\ Operations < MaxOperations
  /\ \A v \in Upload : v < u => upload[v].at # "Idle"
  /\ upload' = [upload EXCEPT ![u] = [at |-> "Making", name |-> name, index |-> 0,
                                      directory |-> destination]]
  /\ UNCHANGED <<settingsVars, diskVars, recordVars, swept>>

\* create_dir_all: the directory may have been removed.
MakeDirectory(u) ==
  /\ At(u, "Making")
  /\ directories' = directories \union {upload[u].directory}
  /\ Goto(u, "Opening")
  /\ UNCHANGED <<copyVars, request, running, race, crashes, removals, diskVars, recordVars,
                 swept>>

\* The server opens the path it was given, and may find the directory removed again.
OpenPart(u) ==
  /\ At(u, "Opening")
  /\ IF upload[u].directory \in directories
     THEN Goto(u, "Writing") /\ parts' = parts \union {PartOf(u)}
     ELSE Goto(u, "Failed") /\ UNCHANGED parts
  /\ UNCHANGED <<settingsVars, disk, recordVars, swept>>

\* The body is complete and its checksum right.
WholeBody(u) ==
  /\ At(u, "Writing")
  /\ Goto(u, "Linking")
  /\ UNCHANGED <<settingsVars, diskVars, recordVars, swept>>

\* The upload fails: remove_file, whose error is not looked at.
FailUpload(u) ==
  \/ parts' = parts \ {PartOf(u)} /\ Goto(u, "Failed")
  \/ DiskMayFail /\ PartOf(u) \in parts /\ UNCHANGED parts /\ Goto(u, "Stranded")

\* The connection closes, the body is wrong, or a call fails.
GiveUp(u) ==
  /\ \/ At(u, "Making") \/ At(u, "Writing")
     \/ DiskMayFail /\ (At(u, "Opening") \/ At(u, "Linking"))
  /\ FailUpload(u)
  /\ UNCHANGED <<settingsVars, disk, recordVars, swept>>

\* The connection closes while the writer task opens the file: what is to be removed
\* may not be there yet.
LoseWriter(u) ==
  /\ At(u, "Opening")
  /\ Goto(u, "Abandoned")
  /\ UNCHANGED <<settingsVars, diskVars, recordVars, swept>>

OpenLate(u) ==
  /\ At(u, "Abandoned")
  /\ IF upload[u].directory \in directories
     THEN Goto(u, "Stranded") /\ parts' = parts \union {PartOf(u)}
     ELSE Goto(u, "Failed") /\ UNCHANGED parts
  /\ UNCHANGED <<settingsVars, disk, recordVars, swept>>

\* Mutant of TryLink: the part is renamed, over whatever is there.
TryLinkByRename(u) ==
  /\ At(u, "Linking")
  /\ Goto(u, "Removing")
  /\ disk' = [disk EXCEPT ![upload[u].directory][Target(u)] = u]
  /\ UNCHANGED <<settingsVars, parts, recordVars, swept>>

\* hard_link fails when the path exists, and then the next number is tried.
TryLink(u) ==
  /\ At(u, "Linking")
  /\ IF disk[upload[u].directory][Target(u)] = Nothing
     THEN /\ disk' = [disk EXCEPT ![upload[u].directory][Target(u)] = u]
          /\ Goto(u, "Removing")
     ELSE /\ upload[u].index < MaxIndex
          /\ upload' = [upload EXCEPT ![u].index = @ + 1]
          /\ UNCHANGED disk
  /\ UNCHANGED <<settingsVars, parts, recordVars, swept>>

\* An error here fails the upload, though the file is delivered.
RemovePart(u) ==
  /\ At(u, "Removing")
  /\ \/ parts' = parts \ {PartOf(u)} /\ Goto(u, "Recording")
     \/ DiskMayFail /\ FailUpload(u)
  /\ UNCHANGED <<settingsVars, disk, recordVars, swept>>

\* Mutant of RecordFile: the name that was asked for is shown.
RecordFileAsAsked(u) ==
  /\ At(u, "Recording")
  /\ history' = history \union {<<u, Numbered[upload[u].name][0]>>}
  /\ Goto(u, "Queueing")
  /\ UNCHANGED <<settingsVars, diskVars, queue, rows, swept>>

RecordFile(u) ==
  /\ At(u, "Recording")
  /\ history' = history \union {<<u, Target(u)>>}
  /\ Goto(u, "Queueing")
  /\ UNCHANGED <<settingsVars, diskVars, queue, rows, swept>>

\* Mutant of QueueRecord: a full channel is not waited for.
QueueRecordOrSkip(u) ==
  /\ At(u, "Queueing")
  /\ queue' = IF Len(queue) < QueueCap THEN Append(queue, <<u, Target(u)>>) ELSE queue
  /\ Goto(u, "Queued")
  /\ UNCHANGED <<settingsVars, diskVars, history, rows, swept>>

\* completed_tx.send waits while the channel is full.
QueueRecord(u) ==
  /\ At(u, "Queueing") /\ Len(queue) < QueueCap
  /\ queue' = Append(queue, <<u, Target(u)>>)
  /\ Goto(u, "Queued")
  /\ UNCHANGED <<settingsVars, diskVars, history, rows, swept>>

\* The task in main: one record after the other; an error is logged, the record gone.
WriteRow ==
  LET u == Head(queue)[1]
  IN  /\ running /\ queue # <<>>
      /\ queue' = Tail(queue)
      /\ \/ rows' = rows \union {Head(queue)} /\ Goto(u, "Stored")
         \/ DbMayFail /\ UNCHANGED rows /\ Goto(u, "Unstored")
      /\ UNCHANGED <<settingsVars, diskVars, history, swept>>

-----------------------------------------------------------------------------
(* The handlers of Settings, crashes and restarts.                          *)

BeginHandler(r) ==
  /\ Operations + 1 < MaxOperations
  /\ \A s \in Request : s < r => request[s].at # "Idle"
  /\ BeginRequest(r)
  /\ UNCHANGED fileVars

ContinueHandler(r) == ContinueRequest(r) /\ UNCHANGED fileVars

AddDirectory(d) == CreateDirectory(d) /\ UNCHANGED fileVars

\* Only an empty directory can be removed.
DropDirectory(d) ==
  /\ \A p \in Path : disk[d][p] = Nothing
  /\ \A u \in Upload : <<d, u>> \notin parts
  /\ RemoveDirectory(d)
  /\ UNCHANGED fileVars

Over(u) == upload[u].at \in {"Idle", "Stored", "Unstored", "Failed", "Stranded", "Lost"}

CrashFiles ==
  /\ Crash
  /\ upload' = [u \in Upload |-> IF Over(u) THEN upload[u]
                                 ELSE [upload[u] EXCEPT !.at = "Lost"]]
  /\ history' = {} /\ queue' = <<>>
  /\ UNCHANGED <<diskVars, rows, swept>>

\* Mutant of StartFiles: the directory of a new instance is cleaned.
StartFilesElsewhere ==
  /\ Start
  /\ history' = rows
  /\ parts' = {part \in parts : part[1] # Default.directory}
  /\ swept' = stored.directory
  /\ UNCHANGED <<upload, disk, queue, rows>>

\* list_transfers and cleanup_partial_files, in the destination of this start only.
StartFiles ==
  /\ Start
  /\ history' = rows
  /\ parts' = {part \in parts : part[1] # stored.directory}
  /\ swept' = stored.directory
  /\ UNCHANGED <<upload, disk, queue, rows>>

\* What the program does by itself for an upload; the body is up to the sender.
SaveStep(u) ==
  \/ MakeDirectory(u) \/ OpenPart(u) \/ OpenLate(u) \/ TryLink(u) \/ RemovePart(u)
  \/ RecordFile(u) \/ QueueRecord(u)

Next ==
  \/ \E r \in Request : BeginHandler(r) \/ ContinueHandler(r)
  \/ \E d \in Directory : AddDirectory(d) \/ DropDirectory(d)
  \/ \E u \in Upload :
       \/ \E name \in Name : BeginSave(u, name)
       \/ SaveStep(u) \/ WholeBody(u) \/ GiveUp(u) \/ LoseWriter(u)
  \/ WriteRow
  \/ CrashFiles \/ StartFiles

Spec == Init /\ [][Next]_vars

\* The tasks of the uploads and of the history are polled by the runtime for as long as
\* the program runs.
FairSpec == Spec /\ (\A u \in Upload : WF_vars(SaveStep(u))) /\ WF_vars(WriteRow)

-----------------------------------------------------------------------------
(* Properties.                                                              *)

\* A file that is in a receive directory is never replaced or removed: not by an upload
\* of the same name that is saved at the same time, not by one whose numbered name is
\* the name another one asks for, not by the cleaning of a start.
NeverOverwritten ==
  [][\A d \in Directory, p \in Path : disk[d][p] # Nothing => disk'[d][p] = disk[d][p]]_vars

\* Every record of the history, shown, on its way to the database or stored, names the
\* file that has the contents of that upload, in the directory that was the
\* destination when the upload began; for two uploads that ask for one name, numbers
\* that collide with a name, and changes of the destination.
NamesItsFile(record) ==
  disk[upload[record[1]].directory][record[2]] = record[1]
HistoryIsOnDisk ==
  /\ \A record \in history \union rows : NamesItsFile(record)
  /\ \A i \in 1..Len(queue) : NamesItsFile(queue[i])

\* A part is of an upload that is being saved, or was stranded (its removal failed, or
\* came too early), or it was left by a crash in a directory that is no longer the
\* destination: a start leaves none in the directory that it receives into.
PartFilesOwned ==
  running => \A part \in parts :
    \/ upload[part[2]].at \in {"Writing", "Linking", "Removing", "Stranded"}
    \/ part[1] # swept /\ upload[part[2]].at = "Lost"

\* A complete body becomes a file, a record of the history and a row of the database,
\* unless a call to the disk or the database fails or the program is killed; when the
\* channel of the history is full too.
DeliveredIsStored ==
  \A u \in Upload :
    (upload[u].at = "Linking") ~>
      (upload[u].at \in {"Stored", "Unstored", "Failed", "Stranded", "Lost"})
=============================================================================

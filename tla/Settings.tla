------------------------------- MODULE Settings -------------------------------
(***************************************************************************)
(* The settings that the panel changes while Localsendy runs: automatic    *)
(* acceptance, display name, language of the random name (update_settings) *)
(* and receive directory (update_storage).  Each lives in the database and *)
(* in the memory of the running program; the name is also in what          *)
(* discovery announces and in what the LocalSend server answers, and the   *)
(* directory also in the destination that the receiver reads.              *)
(*                                                                         *)
(* Handlers run in parallel on several threads, so each write of one of    *)
(* these places is a step of its own; the reads with which a handler       *)
(* begins are one step.                                                    *)
(***************************************************************************)
EXTENDS Naturals, FiniteSets

CONSTANTS
  Request,      \* requests to the two endpoints
  Alias, Locale, Directory,
  RandomName,   \* [Locale -> Alias]: the identity in device-identity.json, localized
  Body,         \* the bodies of update_settings that are considered
  Root,         \* the storage root itself, which the program creates when it needs it
  Default,      \* the settings of a new instance
  MaxCrashes,   \* bound on restarts
  MaxRemovals,  \* bound on directories the user removes
  DbMayFail,    \* may a write to the database fail?
  Unnamed,      \* a field that the body leaves out
  Empty         \* a name that is empty: "choose one at random"

ASSUME SettingsAssumption ==
  /\ RandomName \in [Locale -> Alias]
  /\ Root \in Directory
  /\ Default \in [alias : Alias, locale : Locale, accept : BOOLEAN, directory : Directory]
  /\ Body \subseteq [alias : Alias \union {Unnamed, Empty}, locale : Locale \union {Unnamed},
                     accept : BOOLEAN \union {Unnamed}]
  /\ Unnamed \notin Alias \union Locale \union {Empty} /\ Unnamed \notin BOOLEAN
  /\ Empty \notin Alias
  /\ MaxCrashes \in Nat /\ MaxRemovals \in Nat /\ DbMayFail \in BOOLEAN

VARIABLES
  stored,       \* the values in the database
  memory,       \* local_device.alias, alias_locale, auto_accept, download_subdirectory
  listed,       \* the name in discovery_devices
  served,       \* the name the LocalSend server answers with
  destination,  \* receiver_destination
  directories,  \* those that exist below the storage root
  request,      \* where each handler stands
  running,      \* is the program up?
  race,         \* history: settings of which a write was overtaken or cut short
  crashes, removals

copyVars == <<stored, memory, listed, served, destination>>
settingsVars == <<copyVars, directories, request, running, race, crashes, removals>>

Value == [alias : Alias, locale : Locale, accept : BOOLEAN, directory : Directory]
Setting == {"alias", "locale", "accept", "directory"}
Place == {"Idle", "Compare", "Store", "Apply", "List", "Serve", "Redirect", "Done"}

SettingsTypeOK ==
  /\ stored \in Value /\ memory \in Value
  /\ listed \in Alias /\ served \in Alias /\ destination \in Directory
  /\ directories \subseteq Directory
  /\ request \in [Request -> [at : Place, setting : Setting, locale : BOOLEAN, wants : Value]]
  /\ running \in BOOLEAN
  /\ race \subseteq Setting
  /\ crashes \in 0..MaxCrashes /\ removals \in 0..MaxRemovals

NoRequest == [at |-> "Idle", setting |-> "accept", locale |-> FALSE, wants |-> Default]

SettingsInit ==
  /\ stored = Default /\ memory = Default
  /\ listed = Default.alias /\ served = Default.alias
  /\ destination = Default.directory
  /\ directories = Directory
  /\ request = [r \in Request |-> NoRequest]
  /\ running = TRUE
  /\ race = {}
  /\ crashes = 0 /\ removals = 0

Open == {r \in Request : request[r].at \notin {"Idle", "Done"}}

\* r has changed the database for x, and not yet everything else.
Midway(r, x) ==
  request[r].at \in {"Apply", "List", "Serve", "Redirect"} /\ request[r].setting = x

MoveTo(r, place, x) == request' = [request EXCEPT ![r].at = place, ![r].setting = x]
Finish(r) == request' = [request EXCEPT ![r].at = "Done"]

-----------------------------------------------------------------------------
(* update_settings                                                          *)

\* The name a body asks for (resolve_alias when it is empty); without one it is the
\* name that was read when the request began.
NewName(body, locale) ==
  IF body.alias = Unnamed THEN memory.alias
  ELSE IF body.alias = Empty THEN RandomName[locale]
  ELSE body.alias

BeginSettings(r, body) ==
  LET locale == IF body.locale = Unnamed THEN memory.locale ELSE body.locale
      wants == [alias |-> NewName(body, locale), locale |-> locale,
                accept |-> IF body.accept = Unnamed THEN memory.accept ELSE body.accept,
                directory |-> memory.directory]
  IN  /\ running /\ request[r].at = "Idle"
      /\ request' = [request EXCEPT ![r] =
           [at |-> IF body.accept = Unnamed THEN "Compare" ELSE "Store",
            setting |-> "accept",
            locale |-> body.locale # Unnamed,
            wants |-> wants]]
      /\ UNCHANGED <<copyVars, directories, running, race, crashes, removals>>

\* alias_changed: the name of now is read again.  The locale is stored when it was
\* asked for, and with every new name.
CompareName(r) ==
  /\ running /\ request[r].at = "Compare"
  /\ IF request[r].wants.alias # memory.alias THEN MoveTo(r, "Store", "alias")
     ELSE IF request[r].locale THEN MoveTo(r, "Store", "locale")
     ELSE Finish(r)
  /\ UNCHANGED <<copyVars, directories, running, race, crashes, removals>>

\* store_setting, update_instance_alias: one statement, under the connection's lock.
StoreSetting(r) ==
  LET x == request[r].setting
  IN  /\ running /\ request[r].at = "Store"
      /\ stored' = [stored EXCEPT ![x] = request[r].wants[x]]
      /\ MoveTo(r, "Apply", x)
      /\ race' = IF \E s \in Request \ {r} : Midway(s, x) THEN race \union {x} ELSE race \ {x}
      /\ UNCHANGED <<memory, listed, served, destination, directories, running, crashes,
                     removals>>

\* Mutant of StoreFails: the error is logged and the request goes on.
StoreFailsUnseen(r) ==
  /\ DbMayFail
  /\ running /\ request[r].at = "Store"
  /\ MoveTo(r, "Apply", request[r].setting)
  /\ UNCHANGED <<copyVars, directories, running, race, crashes, removals>>

\* The request ends with an error; what it has done before stays done.
StoreFails(r) ==
  /\ DbMayFail
  /\ running /\ request[r].at = "Store"
  /\ Finish(r)
  /\ UNCHANGED <<copyVars, directories, running, race, crashes, removals>>

\* What follows the write to memory: see the handlers.
AfterApply == [accept |-> "Compare", alias |-> "List", locale |-> "Done", directory |-> "Redirect"]

ApplySetting(r) ==
  LET x == request[r].setting
  IN  /\ running /\ request[r].at = "Apply"
      /\ memory' = [memory EXCEPT ![x] = request[r].wants[x]]
      /\ MoveTo(r, AfterApply[x], x)
      /\ UNCHANGED <<stored, listed, served, destination, directories, running, race,
                     crashes, removals>>

ListName(r) ==
  /\ running /\ request[r].at = "List"
  /\ listed' = request[r].wants.alias
  /\ MoveTo(r, "Serve", "alias")
  /\ UNCHANGED <<stored, memory, served, destination, directories, running, race,
                 crashes, removals>>

\* ServerHandle::update_alias, after which the announcement is queued.  Discovery may
\* have stopped: then the request ends here with an error.
ServeName(r) ==
  /\ running /\ request[r].at = "Serve"
  /\ served' = request[r].wants.alias
  /\ MoveTo(r, "Store", "locale") \/ Finish(r)
  /\ UNCHANGED <<stored, memory, listed, destination, directories, running, race,
                 crashes, removals>>

-----------------------------------------------------------------------------
(* update_storage and create_storage_directory                              *)

\* resolve_subdirectory: the directory must exist.
BeginStorage(r, d) ==
  /\ running /\ request[r].at = "Idle" /\ d \in directories
  /\ request' = [request EXCEPT ![r] =
       [at |-> "Store", setting |-> "directory", locale |-> FALSE,
        wants |-> [memory EXCEPT !.directory = d]]]
  /\ UNCHANGED <<copyVars, directories, running, race, crashes, removals>>

\* Mutant of Redirect: the receiver keeps the destination it has.
RedirectForgotten(r) ==
  /\ running /\ request[r].at = "Redirect"
  /\ Finish(r)
  /\ UNCHANGED <<copyVars, directories, running, race, crashes, removals>>

Redirect(r) ==
  /\ running /\ request[r].at = "Redirect"
  /\ destination' = request[r].wants.directory
  /\ Finish(r)
  /\ UNCHANGED <<stored, memory, listed, served, directories, running, race,
                 crashes, removals>>

CreateDirectory(d) ==
  /\ running /\ d \notin directories
  /\ directories' = directories \union {d}
  /\ UNCHANGED <<copyVars, request, running, race, crashes, removals>>

\* The user removes a directory that nothing is in, behind the program's back.
RemoveDirectory(d) ==
  /\ removals < MaxRemovals /\ d \in directories \ {Root}
  /\ directories' = directories \ {d}
  /\ removals' = removals + 1
  /\ UNCHANGED <<copyVars, request, running, race, crashes>>

-----------------------------------------------------------------------------
(* Drops, crashes and restarts.                                             *)

\* The browser's connection closes while the handler awaits a lock: the server's for
\* the name, those of the directory and of the destination.
DropRequest(r) ==
  LET x == request[r].setting
  IN  /\ running
      /\ \/ request[r].at \in {"Serve", "Redirect"}
         \/ request[r].at = "Apply" /\ x = "directory"
      /\ Finish(r)
      /\ race' = race \union {x}
      /\ UNCHANGED <<copyVars, directories, running, crashes, removals>>

Crash ==
  /\ running /\ crashes < MaxCrashes
  /\ running' = FALSE
  /\ crashes' = crashes + 1
  /\ request' = [r \in Request |-> IF r \in Open THEN [request[r] EXCEPT !.at = "Done"]
                                   ELSE request[r]]
  /\ UNCHANGED <<copyVars, directories, race, removals>>

\* main and initialize_storage: everything from the database.  A start fails while the
\* directory that was stored does not exist.
Start ==
  /\ ~running
  /\ stored.directory \in directories
  /\ running' = TRUE
  /\ memory' = stored
  /\ listed' = stored.alias /\ served' = stored.alias
  /\ destination' = stored.directory
  /\ race' = {}
  /\ UNCHANGED <<stored, directories, request, crashes, removals>>

BeginRequest(r) ==
  \/ \E body \in Body : BeginSettings(r, body)
  \/ \E d \in Directory : BeginStorage(r, d)

ContinueRequest(r) ==
  \/ CompareName(r) \/ StoreSetting(r) \/ StoreFails(r) \/ ApplySetting(r)
  \/ ListName(r) \/ ServeName(r) \/ Redirect(r) \/ DropRequest(r)

SettingsNext ==
  \/ \E r \in Request : BeginRequest(r) \/ ContinueRequest(r)
  \/ \E d \in Directory : CreateDirectory(d) \/ RemoveDirectory(d)
  \/ Crash \/ Start

SettingsSpec == SettingsInit /\ [][SettingsNext]_settingsVars

-----------------------------------------------------------------------------
(* Properties.                                                              *)

\* "Persists ... and applies immediately": when no request is between its write to the
\* database and the end of its writes to memory, a restart would read what is in
\* effect, peers are told the same name by discovery and by the server, and files go
\* to the directory that is shown; after errors, drops, crashes and overlapping
\* requests.  Named exception (race): two requests wrote the same setting at once, or
\* one was dropped between its writes; that lasts until the setting changes again or
\* a restart.
Settled(x) == x \notin race /\ \A r \in Request : ~Midway(r, x)
SettingsInEffect ==
  running =>
    /\ \A x \in Setting : Settled(x) => memory[x] = stored[x]
    /\ Settled("alias") => listed = memory.alias /\ served = memory.alias
    /\ Settled("directory") => destination = memory.directory
=============================================================================

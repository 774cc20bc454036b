---------------------------- MODULE FileStoreProofs ----------------------------
(***************************************************************************)
(* Proofs about Settings and FileStore, for any number of requests,        *)
(* uploads, names and directories, and without the bounds of the runs.     *)
(***************************************************************************)
EXTENDS FileStore, TLAPS

-----------------------------------------------------------------------------
(* Settings.                                                                *)

USE SettingsAssumption DEF copyVars, settingsVars

LEMMA NewNameType ==
  ASSUME SettingsTypeOK, NEW body \in Body, NEW locale \in Locale
  PROVE  NewName(body, locale) \in Alias
BY DEF SettingsTypeOK, NewName, Value

LEMMA ValueUpdate ==
  ASSUME NEW v \in Value, NEW w \in Value, NEW x \in Setting
  PROVE  [v EXCEPT ![x] = w[x]] \in Value
<1>1. CASE x = "alias" BY <1>1 DEF Value
<1>2. CASE x = "locale" BY <1>2 DEF Value
<1>3. CASE x = "accept" BY <1>3 DEF Value
<1>4. CASE x = "directory" BY <1>4 DEF Value
<1> QED BY <1>1, <1>2, <1>3, <1>4 DEF Setting

RequestType == [Request -> [at : Place, setting : Setting, locale : BOOLEAN, wants : Value]]

LEMMA MoveType ==
  ASSUME request \in RequestType, NEW r \in Request, NEW place \in Place, NEW x \in Setting
  PROVE  /\ MoveTo(r, place, x) => request' \in RequestType
         /\ [request[r] EXCEPT !.at = place] \in
              [at : Place, setting : Setting, locale : BOOLEAN, wants : Value]
BY DEF RequestType, MoveTo

LEMMA SettingsTypeStep ==
  ASSUME SettingsTypeOK, [SettingsNext]_settingsVars
  PROVE  SettingsTypeOK'
<1> USE DEF SettingsTypeOK
<1>0. CASE UNCHANGED settingsVars BY <1>0
<1>1. ASSUME NEW r \in Request, NEW body \in Body, BeginSettings(r, body) PROVE SettingsTypeOK'
  <2> DEFINE locale == IF body.locale = Unnamed THEN memory.locale ELSE body.locale
  <2>1. locale \in Locale BY DEF Value
  <2>2. NewName(body, locale) \in Alias BY <2>1, NewNameType
  <2>3. (IF body.accept = Unnamed THEN memory.accept ELSE body.accept) \in BOOLEAN
    BY DEF Value
  <2> DEFINE wants == [alias |-> NewName(body, locale), locale |-> locale,
                accept |-> IF body.accept = Unnamed THEN memory.accept ELSE body.accept,
                directory |-> memory.directory]
  <2>4. wants \in Value BY <2>1, <2>2, <2>3 DEF Value
  <2> HIDE DEF wants
  <2>5. request' = [request EXCEPT ![r] =
           [at |-> IF body.accept = Unnamed THEN "Compare" ELSE "Store",
            setting |-> "accept", locale |-> body.locale # Unnamed, wants |-> wants]]
    BY <1>1 DEF BeginSettings, wants
  <2> QED BY <1>1, <2>4, <2>5 DEF BeginSettings, Place, Setting
<1>2. ASSUME NEW r \in Request, NEW d \in Directory, BeginStorage(r, d) PROVE SettingsTypeOK'
  <2>1. [memory EXCEPT !.directory = d] \in Value BY DEF Value
  <2> QED BY <1>2, <2>1 DEF BeginStorage, Place, Setting
<1>3. ASSUME NEW r \in Request, CompareName(r) PROVE SettingsTypeOK'
  BY <1>3 DEF CompareName, MoveTo, Finish, Place, Setting
<1>4. ASSUME NEW r \in Request, StoreSetting(r) PROVE SettingsTypeOK'
  <2>1. stored' \in Value BY <1>4, ValueUpdate DEF StoreSetting
  <2>2. request' \in RequestType
    <3>1. MoveTo(r, "Apply", request[r].setting) BY <1>4 DEF StoreSetting
    <3>2. request \in RequestType /\ request[r].setting \in Setting /\ "Apply" \in Place
      BY DEF RequestType, Place
    <3> QED BY <3>1, <3>2, MoveType
  <2> QED BY <1>4, <2>1, <2>2 DEF StoreSetting, RequestType
<1>5. ASSUME NEW r \in Request, StoreFails(r) PROVE SettingsTypeOK'
  BY <1>5 DEF StoreFails, Finish, Place, Setting
<1>6. ASSUME NEW r \in Request, ApplySetting(r) PROVE SettingsTypeOK'
  <2>1. memory' \in Value BY <1>6, ValueUpdate DEF ApplySetting
  <2>2. AfterApply[request[r].setting] \in Place BY DEF AfterApply, Place, Setting
  <2>3. request' \in RequestType
    <3>1. MoveTo(r, AfterApply[request[r].setting], request[r].setting) BY <1>6 DEF ApplySetting
    <3>2. request \in RequestType /\ request[r].setting \in Setting BY DEF RequestType
    <3> QED BY <2>2, <3>1, <3>2, MoveType
  <2> QED BY <1>6, <2>1, <2>3 DEF ApplySetting, RequestType
<1>7. ASSUME NEW r \in Request, ListName(r) PROVE SettingsTypeOK'
  <2>1. request' \in RequestType
    <3>1. MoveTo(r, "Serve", "alias") BY <1>7 DEF ListName
    <3>2. request \in RequestType /\ "alias" \in Setting /\ "Serve" \in Place
      BY DEF RequestType, Setting, Place
    <3> QED BY <3>1, <3>2, MoveType
  <2>2. listed' \in Alias BY <1>7 DEF ListName, Value
  <2> QED BY <1>7, <2>1, <2>2 DEF ListName, RequestType
<1>8. ASSUME NEW r \in Request, ServeName(r) PROVE SettingsTypeOK'
  BY <1>8 DEF ServeName, MoveTo, Finish, Place, Setting, Value
<1>9. ASSUME NEW r \in Request, Redirect(r) PROVE SettingsTypeOK'
  BY <1>9 DEF Redirect, Finish, Place, Value
<1>10. ASSUME NEW r \in Request, DropRequest(r) PROVE SettingsTypeOK'
  BY <1>10 DEF DropRequest, Finish, Place, Setting
<1>11. ASSUME NEW d \in Directory, CreateDirectory(d) PROVE SettingsTypeOK'
  BY <1>11 DEF CreateDirectory
<1>12. ASSUME NEW d \in Directory, RemoveDirectory(d) PROVE SettingsTypeOK'
  BY <1>12 DEF RemoveDirectory
<1>13. CASE Crash
  <2>1. ASSUME NEW r \in Request
        PROVE  [request[r] EXCEPT !.at = "Done"] \in
                 [at : Place, setting : Setting, locale : BOOLEAN, wants : Value]
    BY DEF Place
  <2>2. request' \in RequestType BY <1>13, <2>1 DEF Crash, RequestType
  <2>3. crashes' \in 0..MaxCrashes BY <1>13 DEF Crash
  <2> QED BY <1>13, <2>2, <2>3 DEF Crash, RequestType
<1>14. CASE Start
  BY <1>14 DEF Start, Value
<1> QED
  BY <1>0, <1>1, <1>2, <1>3, <1>4, <1>5, <1>6, <1>7, <1>8, <1>9, <1>10, <1>11, <1>12,
     <1>13, <1>14 DEF SettingsNext, BeginRequest, ContinueRequest

(* What holds of a setting x while no write to it was overtaken or cut short: at most  *)
(* one request is between its writes, the database has what it wants, and each place  *)
(* that it has passed has it too.                                                     *)
PlacesFit ==
  \A r \in Request :
    /\ request[r].at \in {"List", "Serve"} => request[r].setting = "alias"
    /\ request[r].at = "Redirect" => request[r].setting = "directory"

StoppedIsQuiet == ~running => \A r \in Request : request[r].at \in {"Idle", "Done"}

OneAtATime ==
  \A x \in Setting \ race, r, s \in Request : Midway(r, x) /\ Midway(s, x) => r = s

WritesSoFar ==
  \A r \in Request, x \in Setting \ race : Midway(r, x) =>
    /\ stored[x] = request[r].wants[x]
    /\ request[r].at # "Apply" => memory[x] = request[r].wants[x]
    /\ request[r].at = "Serve" => listed = request[r].wants.alias

SettingsInv ==
  SettingsTypeOK /\ PlacesFit /\ StoppedIsQuiet /\ OneAtATime /\ WritesSoFar
  /\ SettingsInEffect

\* A step of r that leaves it between no writes, and changes nothing else.
LEMMA QuietStep ==
  ASSUME SettingsInv, SettingsTypeOK', NEW r \in Request, running, running',
         UNCHANGED copyVars, UNCHANGED race,
         \A s \in Request \ {r} : request'[s] = request[s],
         request[r].at \in {"Idle", "Compare", "Store"},
         request'[r].at \in {"Idle", "Compare", "Store", "Done"}
  PROVE  SettingsInv'
<1> USE DEF SettingsInv
<1>1. PlacesFit' BY DEF PlacesFit
<1>2. StoppedIsQuiet' BY DEF StoppedIsQuiet
<1>3. \A s \in Request, x \in Setting : Midway(s, x)' <=> Midway(s, x) BY DEF Midway
<1>4. \A s \in Request, x \in Setting : Midway(s, x) => s # r BY DEF Midway
<1>5. OneAtATime' BY <1>3 DEF OneAtATime
<1>6. WritesSoFar' BY <1>3, <1>4 DEF WritesSoFar
<1>7. SettingsInEffect' BY <1>3 DEF SettingsInEffect, Settled, Setting
<1> QED BY <1>1, <1>2, <1>5, <1>6, <1>7

LEMMA SettingsInvInit ==
  SettingsInit => SettingsInv
<1> SUFFICES ASSUME SettingsInit PROVE SettingsInv OBVIOUS
<1> USE DEF SettingsInit, NoRequest
<1>1. SettingsTypeOK BY DEF SettingsTypeOK, Value, Place, Setting
<1>2. \A r \in Request, x \in Setting : ~Midway(r, x) BY DEF Midway
<1> QED
  BY <1>1, <1>2
     DEF SettingsInv, PlacesFit, StoppedIsQuiet, OneAtATime, WritesSoFar, SettingsInEffect,
         Settled

\* r writes x to the database: it is now between its writes, and any other request that
\* was makes x an exception.
LEMMA StoreStep ==
  ASSUME SettingsInv, SettingsTypeOK', NEW r \in Request, StoreSetting(r)
  PROVE  SettingsInv'
<1> USE DEF SettingsInv
<1>0. PICK x \in Setting : x = request[r].setting BY DEF SettingsTypeOK
<1>1. x \in Setting /\ request[r].at = "Store" /\ running BY <1>0 DEF StoreSetting, SettingsTypeOK
<1>2. /\ request'[r].at = "Apply" /\ request'[r].setting = x
      /\ request'[r].wants = request[r].wants
      /\ \A s \in Request \ {r} : request'[s] = request[s]
  BY <1>0 DEF StoreSetting, MoveTo, SettingsTypeOK
<1>3. \A s \in Request, y \in Setting : Midway(s, y)' <=> Midway(s, y) \/ (s = r /\ y = x)
  BY <1>0, <1>1, <1>2 DEF Midway
<1>4. /\ stored'[x] = request[r].wants[x]
      /\ \A y \in Setting \ {x} : stored'[y] = stored[y]
  BY <1>0, <1>1 DEF StoreSetting, SettingsTypeOK, Value, Setting
<1>5. /\ x \notin race' => \A s \in Request \ {r} : ~Midway(s, x)
      /\ \A y \in Setting \ {x} : y \in race' <=> y \in race
  BY <1>0 DEF StoreSetting
<1>6. PlacesFit' BY <1>2 DEF PlacesFit
<1>7. StoppedIsQuiet' BY <1>1 DEF StoppedIsQuiet, StoreSetting
<1>8. OneAtATime' BY <1>3, <1>5 DEF OneAtATime
<1>9. WritesSoFar'
  <2> SUFFICES ASSUME NEW s \in Request, NEW y \in Setting \ race', Midway(s, y)'
               PROVE  /\ stored'[y] = request'[s].wants[y]
                      /\ request'[s].at # "Apply" => memory'[y] = request'[s].wants[y]
                      /\ request'[s].at = "Serve" => listed' = request'[s].wants.alias
    BY DEF WritesSoFar
  <2>1. CASE s = r BY <2>1, <1>1, <1>2, <1>3, <1>4 DEF Midway
  <2>2. CASE s # r
    <3>1. y # x /\ Midway(s, y) /\ y \notin race BY <2>2, <1>3, <1>5
    <3> QED BY <2>2, <3>1, <1>2, <1>4 DEF WritesSoFar, StoreSetting
  <2> QED BY <2>1, <2>2
<1>10. SettingsInEffect'
  <2>1. ASSUME NEW y \in Setting, Settled(y)' PROVE y # x /\ Settled(y)
    BY <2>1, <1>3, <1>5 DEF Settled
  <2> QED BY <2>1, <1>1, <1>4 DEF SettingsInEffect, StoreSetting, Setting
<1> QED BY <1>6, <1>7, <1>8, <1>9, <1>10

\* r writes x to memory.
LEMMA ApplyStep ==
  ASSUME SettingsInv, SettingsTypeOK', NEW r \in Request, ApplySetting(r)
  PROVE  SettingsInv'
<1> USE DEF SettingsInv
<1>0. PICK x \in Setting : x = request[r].setting BY DEF SettingsTypeOK
<1>1. x \in Setting /\ request[r].at = "Apply" /\ running BY <1>0 DEF ApplySetting, SettingsTypeOK
<1>2. /\ request'[r].at = AfterApply[x] /\ request'[r].setting = x
      /\ request'[r].wants = request[r].wants
      /\ \A s \in Request \ {r} : request'[s] = request[s]
  BY <1>0 DEF ApplySetting, MoveTo, SettingsTypeOK
<1>3. \A s \in Request, y \in Setting : Midway(s, y)' => Midway(s, y)
  BY <1>0, <1>1, <1>2 DEF Midway
<1>4. \A s \in Request, y \in Setting \ {x} : Midway(s, y) => Midway(s, y)'
  BY <1>0, <1>1, <1>2 DEF Midway
<1>5. \A s \in Request \ {r} : Midway(s, x) => Midway(s, x)'
  BY <1>0, <1>1, <1>2 DEF Midway
<1>6. Midway(r, x) BY <1>0, <1>1 DEF Midway
<1>7. /\ memory'[x] = request[r].wants[x]
      /\ \A y \in Setting \ {x} : memory'[y] = memory[y]
  BY <1>0, <1>1 DEF ApplySetting, SettingsTypeOK, Value, Setting
<1>8. UNCHANGED <<stored, listed, served, destination, running, race>> BY DEF ApplySetting
<1>9. PlacesFit'
  <2>1. AfterApply[x] \in {"List", "Serve"} => x = "alias" BY <1>1 DEF AfterApply, Setting
  <2>2. AfterApply[x] = "Redirect" => x = "directory" BY <1>1 DEF AfterApply, Setting
  <2> QED BY <2>1, <2>2, <1>2 DEF PlacesFit
<1>10. StoppedIsQuiet' BY <1>1, <1>8 DEF StoppedIsQuiet
<1>11. OneAtATime' BY <1>3, <1>8 DEF OneAtATime
<1>12. WritesSoFar'
  <2> SUFFICES ASSUME NEW s \in Request, NEW y \in Setting \ race', Midway(s, y)'
               PROVE  /\ stored'[y] = request'[s].wants[y]
                      /\ request'[s].at # "Apply" => memory'[y] = request'[s].wants[y]
                      /\ request'[s].at = "Serve" => listed' = request'[s].wants.alias
    BY DEF WritesSoFar
  <2>1. Midway(s, y) /\ y \notin race BY <1>3, <1>8
  <2>2. CASE s = r
    <3>1. y = x BY <1>0, <2>1, <2>2 DEF Midway
    <3>2. AfterApply[x] # "Serve" BY <1>1 DEF AfterApply, Setting
    <3> QED BY <2>1, <2>2, <3>1, <3>2, <1>2, <1>7, <1>8 DEF WritesSoFar
  <2>3. CASE s # r
    <3>1. y # x BY <2>1, <2>3, <1>1, <1>6 DEF OneAtATime
    <3> QED BY <2>1, <2>3, <3>1, <1>2, <1>7, <1>8 DEF WritesSoFar
  <2> QED BY <2>2, <2>3
<1>13. SettingsInEffect'
  <2>1. ASSUME NEW y \in Setting, Settled(y)' PROVE y # x => Settled(y)
    BY <2>1, <1>4, <1>8 DEF Settled
  <2>2. Settled(x)' => memory'[x] = stored'[x]
    BY <1>1, <1>6, <1>7, <1>8 DEF Settled, WritesSoFar
  <2>3. x \in {"alias", "directory"} => ~Settled(x)'
    BY <1>1, <1>2 DEF Settled, Midway, AfterApply
  <2> QED BY <2>1, <2>2, <2>3, <1>1, <1>7, <1>8 DEF SettingsInEffect, Setting
<1> QED BY <1>9, <1>10, <1>11, <1>12, <1>13

\* r has the name in discovery's records.
LEMMA ListStep ==
  ASSUME SettingsInv, SettingsTypeOK', NEW r \in Request, ListName(r)
  PROVE  SettingsInv'
<1> USE DEF SettingsInv
<1>1. request[r].at = "List" /\ request[r].setting = "alias" /\ running
  BY DEF ListName, PlacesFit
<1>2. /\ request'[r].at = "Serve" /\ request'[r].setting = "alias"
      /\ request'[r].wants = request[r].wants
      /\ \A s \in Request \ {r} : request'[s] = request[s]
  BY DEF ListName, MoveTo, SettingsTypeOK
<1>3. \A s \in Request, y \in Setting : Midway(s, y)' <=> Midway(s, y)
  BY <1>1, <1>2 DEF Midway
<1>4. /\ UNCHANGED <<stored, memory, served, destination, running, race>>
      /\ listed' = request[r].wants.alias
  BY DEF ListName
<1>5. PlacesFit' BY <1>2 DEF PlacesFit
<1>6. StoppedIsQuiet' BY <1>1, <1>4 DEF StoppedIsQuiet
<1>7. OneAtATime' BY <1>3, <1>4 DEF OneAtATime
<1>8. Midway(r, "alias") BY <1>1 DEF Midway
<1>9. WritesSoFar'
  <2> SUFFICES ASSUME NEW s \in Request, NEW y \in Setting \ race, Midway(s, y)
               PROVE  /\ stored[y] = request'[s].wants[y]
                      /\ request'[s].at # "Apply" => memory[y] = request'[s].wants[y]
                      /\ request'[s].at = "Serve" => listed' = request'[s].wants.alias
    BY <1>3, <1>4 DEF WritesSoFar
  <2>1. CASE s = r BY <2>1, <1>1, <1>2, <1>4 DEF WritesSoFar
  <2>2. CASE s # r
    <3>1. y # "alias" BY <2>2, <1>8 DEF OneAtATime
    <3>2. request[s].at # "Serve" BY <3>1 DEF PlacesFit, Midway
    <3> QED BY <2>2, <3>2, <1>2 DEF WritesSoFar
  <2> QED BY <2>1, <2>2
<1>10. SettingsInEffect'
  BY <1>3, <1>4, <1>8 DEF SettingsInEffect, Settled, Setting
<1> QED BY <1>5, <1>6, <1>7, <1>9, <1>10

\* The last write of r, for x: all places have what it wants.
LEMMA LastWrite ==
  ASSUME SettingsInv, SettingsTypeOK', NEW r \in Request, NEW x \in Setting, Midway(r, x),
         running, UNCHANGED <<stored, memory, listed, running, race>>,
         request'[r].at \in {"Store", "Done"},
         \A s \in Request \ {r} : request'[s] = request[s],
         \/ /\ x = "alias" /\ request[r].at = "Serve"
            /\ served' = request[r].wants.alias /\ UNCHANGED destination
         \/ /\ x = "directory" /\ request[r].at = "Redirect"
            /\ destination' = request[r].wants.directory /\ UNCHANGED served
  PROVE  SettingsInv'
<1> USE DEF SettingsInv
<1>1. \A s \in Request, y \in Setting : Midway(s, y)' <=> Midway(s, y) /\ s # r
  BY DEF Midway
<1>2. PlacesFit' BY DEF PlacesFit
<1>3. StoppedIsQuiet' BY DEF StoppedIsQuiet
<1>4. OneAtATime' BY <1>1 DEF OneAtATime
<1>5. WritesSoFar' BY <1>1 DEF WritesSoFar
<1>6. SettingsInEffect'
  <2>1. ASSUME NEW y \in Setting \ {x}, Settled(y)' PROVE Settled(y)
    BY <2>1, <1>1 DEF Settled, Midway
  <2>2. x \notin race => stored[x] = request[r].wants[x] /\ memory[x] = request[r].wants[x]
    BY DEF WritesSoFar
  <2>3. x = "alias" /\ x \notin race => listed = request[r].wants.alias BY DEF WritesSoFar
  <2> QED BY <2>1, <2>2, <2>3 DEF SettingsInEffect, Setting, Settled
<1> QED BY <1>2, <1>3, <1>4, <1>5, <1>6

LEMMA DropStep ==
  ASSUME SettingsInv, SettingsTypeOK', NEW r \in Request, DropRequest(r)
  PROVE  SettingsInv'
<1> USE DEF SettingsInv
<1>0. PICK x \in Setting : x = request[r].setting BY DEF SettingsTypeOK
<1>1. /\ request'[r].at = "Done" /\ running
      /\ \A s \in Request \ {r} : request'[s] = request[s]
      /\ race' = race \union {x}
      /\ UNCHANGED <<stored, memory, listed, served, destination, running>>
  BY <1>0 DEF DropRequest, Finish, SettingsTypeOK
<1>2. \A s \in Request, y \in Setting : Midway(s, y)' <=> Midway(s, y) /\ s # r
  BY <1>1 DEF Midway
<1>3. \A y \in Setting : Settled(y)' => Settled(y)
  BY <1>0, <1>1, <1>2 DEF Settled, Midway
<1>4. PlacesFit' BY <1>1 DEF PlacesFit
<1>5. StoppedIsQuiet' BY <1>1 DEF StoppedIsQuiet
<1>6. OneAtATime' BY <1>1, <1>2 DEF OneAtATime
<1>7. WritesSoFar' BY <1>1, <1>2 DEF WritesSoFar
<1>8. SettingsInEffect' BY <1>1, <1>3 DEF SettingsInEffect, Setting
<1> QED BY <1>4, <1>5, <1>6, <1>7, <1>8

\* Steps that leave the settings and the requests alone.
LEMMA OtherStep ==
  ASSUME SettingsInv, SettingsTypeOK', UNCHANGED <<copyVars, request, running, race>>
  PROVE  SettingsInv'
<1> USE DEF SettingsInv
<1>1. \A s \in Request, x \in Setting : Midway(s, x)' <=> Midway(s, x) BY DEF Midway
<1>2. PlacesFit' BY DEF PlacesFit
<1>3. StoppedIsQuiet' BY DEF StoppedIsQuiet
<1>4. OneAtATime' BY <1>1 DEF OneAtATime
<1>5. WritesSoFar' BY <1>1 DEF WritesSoFar
<1>6. SettingsInEffect' BY <1>1 DEF SettingsInEffect, Settled, Setting
<1> QED BY <1>2, <1>3, <1>4, <1>5, <1>6

LEMMA CrashStep ==
  ASSUME SettingsInv, SettingsTypeOK', Crash
  PROVE  SettingsInv'
<1> USE DEF SettingsInv
<1>1. \A r \in Request : request'[r].at \in {"Idle", "Done"}
  BY DEF Crash, Open, SettingsTypeOK
<1>2. \A r \in Request, x \in Setting : ~Midway(r, x)' BY <1>1 DEF Midway
<1>3. PlacesFit' BY <1>1 DEF PlacesFit
<1>4. StoppedIsQuiet' BY <1>1 DEF StoppedIsQuiet
<1>5. OneAtATime' BY <1>2 DEF OneAtATime
<1>6. WritesSoFar' BY <1>2 DEF WritesSoFar
<1>7. SettingsInEffect' BY DEF SettingsInEffect, Crash
<1> QED BY <1>3, <1>4, <1>5, <1>6, <1>7

LEMMA StartStep ==
  ASSUME SettingsInv, SettingsTypeOK', Start
  PROVE  SettingsInv'
<1> USE DEF SettingsInv
<1>1. \A r \in Request : request[r].at \in {"Idle", "Done"} BY DEF Start, StoppedIsQuiet
<1>2. request' = request BY DEF Start
<1>3. \A r \in Request, x \in Setting : ~Midway(r, x)' BY <1>1, <1>2 DEF Midway
<1>4. PlacesFit' BY <1>1, <1>2 DEF PlacesFit
<1>5. StoppedIsQuiet' BY <1>1, <1>2 DEF StoppedIsQuiet
<1>6. OneAtATime' BY <1>3 DEF OneAtATime
<1>7. WritesSoFar' BY <1>3 DEF WritesSoFar
<1>8. SettingsInEffect' BY DEF SettingsInEffect, Start
<1> QED BY <1>4, <1>5, <1>6, <1>7, <1>8

LEMMA SettingsInvStep ==
  ASSUME SettingsInv, [SettingsNext]_settingsVars
  PROVE  SettingsInv'
<1>1. SettingsTypeOK /\ SettingsTypeOK' BY SettingsTypeStep DEF SettingsInv
<1>2. ASSUME NEW r \in Request, BeginRequest(r) \/ CompareName(r) \/ StoreFails(r)
      PROVE  SettingsInv'
  <2>1. /\ UNCHANGED <<copyVars, race>> /\ running /\ running'
        /\ \A s \in Request \ {r} : request'[s] = request[s]
        /\ request[r].at \in {"Idle", "Compare", "Store"}
        /\ request'[r].at \in {"Idle", "Compare", "Store", "Done"}
    BY <1>1, <1>2
       DEF BeginRequest, BeginSettings, BeginStorage, CompareName, StoreFails, MoveTo,
           Finish, SettingsTypeOK
  <2> QED BY <1>1, <2>1, QuietStep
<1>3. ASSUME NEW r \in Request, StoreSetting(r) PROVE SettingsInv' BY <1>1, <1>3, StoreStep
<1>4. ASSUME NEW r \in Request, ApplySetting(r) PROVE SettingsInv' BY <1>1, <1>4, ApplyStep
<1>5. ASSUME NEW r \in Request, ListName(r) PROVE SettingsInv' BY <1>1, <1>5, ListStep
<1>6. ASSUME NEW r \in Request, ServeName(r) PROVE SettingsInv'
  <2>1. Midway(r, "alias") /\ request[r].at = "Serve" /\ running
    BY <1>6 DEF ServeName, Midway, SettingsInv, PlacesFit
  <2>2. request'[r].at \in {"Store", "Done"} /\ \A s \in Request \ {r} : request'[s] = request[s]
    BY <1>1, <1>6 DEF ServeName, MoveTo, Finish, SettingsTypeOK
  <2>3. served' = request[r].wants.alias
        /\ UNCHANGED <<stored, memory, listed, running, race, destination>>
    BY <1>6 DEF ServeName
  <2>4. "alias" \in Setting BY DEF Setting
  <2> QED BY <1>1, <2>1, <2>2, <2>3, <2>4, LastWrite
<1>7. ASSUME NEW r \in Request, Redirect(r) PROVE SettingsInv'
  <2>1. Midway(r, "directory") /\ request[r].at = "Redirect" /\ running
    BY <1>7 DEF Redirect, Midway, SettingsInv, PlacesFit
  <2>2. request'[r].at \in {"Store", "Done"} /\ \A s \in Request \ {r} : request'[s] = request[s]
    BY <1>1, <1>7 DEF Redirect, Finish, SettingsTypeOK
  <2>3. destination' = request[r].wants.directory
        /\ UNCHANGED <<stored, memory, listed, running, race, served>>
    BY <1>7 DEF Redirect
  <2>4. "directory" \in Setting BY DEF Setting
  <2> QED BY <1>1, <2>1, <2>2, <2>3, <2>4, LastWrite
<1>8. ASSUME NEW r \in Request, DropRequest(r) PROVE SettingsInv' BY <1>1, <1>8, DropStep
<1>9. ASSUME NEW d \in Directory, CreateDirectory(d) \/ RemoveDirectory(d) PROVE SettingsInv'
  BY <1>1, <1>9, OtherStep DEF CreateDirectory, RemoveDirectory
<1>10. CASE Crash BY <1>1, <1>10, CrashStep
<1>11. CASE Start BY <1>1, <1>11, StartStep
<1>12. CASE UNCHANGED settingsVars BY <1>1, <1>12, OtherStep
<1> QED
  BY <1>2, <1>3, <1>4, <1>5, <1>6, <1>7, <1>8, <1>9, <1>10, <1>11, <1>12
     DEF SettingsNext, ContinueRequest

\* The handlers alone: what the panel changed is in effect wherever it is read, and is
\* what a restart reads (update_settings, update_storage, main).
THEOREM SettingsTakeEffect == SettingsSpec => []SettingsInEffect
<1>1. SettingsInit => SettingsInv BY SettingsInvInit
<1>2. SettingsInv /\ [SettingsNext]_settingsVars => SettingsInv' BY SettingsInvStep
<1>3. SettingsInv => SettingsInEffect BY DEF SettingsInv
<1> QED BY <1>1, <1>2, <1>3, PTL DEF SettingsSpec

-----------------------------------------------------------------------------
(* FileStore.                                                               *)

USE FileStoreAssumption DEF diskVars, recordVars, fileVars, vars

UploadType == [at : Stage, name : Name, index : 0..MaxIndex, directory : Directory]

FilesTypeOK ==
  /\ upload \in [Upload -> UploadType]
  /\ disk \in [Directory -> [Path -> Upload \union {Nothing, Other}]]
  /\ parts \subseteq Directory \X Upload
  /\ history \subseteq Record /\ rows \subseteq Record
  /\ queue \in Seq(Record) /\ Len(queue) <= QueueCap
  /\ swept \in Directory

TypeInv == SettingsTypeOK /\ FilesTypeOK

\* Every step of FileStore is one of Settings, or changes nothing that Settings has.
LEMMA SettingsPart ==
  ASSUME TypeInv, [Next]_vars
  PROVE  [SettingsNext]_settingsVars
<1>1. ASSUME NEW u \in Upload, SaveStep(u) PROVE [SettingsNext]_settingsVars
  <2>1. CASE MakeDirectory(u)
    <3>1. upload[u].directory \in Directory BY DEF TypeInv, FilesTypeOK, UploadType
    <3>2. CASE upload[u].directory \in directories
      BY <2>1, <3>2 DEF MakeDirectory
    <3>3. CASE upload[u].directory \notin directories
      <4>1. CreateDirectory(upload[u].directory)
        BY <2>1, <3>3 DEF MakeDirectory, At, CreateDirectory
      <4> QED BY <3>1, <4>1 DEF SettingsNext
    <3> QED BY <3>2, <3>3
  <2>2. CASE OpenPart(u) \/ OpenLate(u) \/ TryLink(u) \/ RemovePart(u) \/ RecordFile(u)
             \/ QueueRecord(u)
    BY <2>2 DEF OpenPart, OpenLate, TryLink, RemovePart, RecordFile, QueueRecord
  <2> QED BY <1>1, <2>1, <2>2 DEF SaveStep
<1>2. ASSUME NEW u \in Upload, (\E name \in Name : BeginSave(u, name)) \/ WholeBody(u) \/ GiveUp(u)
             \/ LoseWriter(u)
      PROVE  [SettingsNext]_settingsVars
  BY <1>2 DEF BeginSave, WholeBody, GiveUp, LoseWriter
<1>3. CASE WriteRow BY <1>3 DEF WriteRow
<1>4. CASE UNCHANGED vars BY <1>4
<1>5. ASSUME NEW r \in Request, BeginHandler(r) \/ ContinueHandler(r)
      PROVE  [SettingsNext]_settingsVars
  BY <1>5 DEF BeginHandler, ContinueHandler, SettingsNext
<1>6. ASSUME NEW d \in Directory, AddDirectory(d) \/ DropDirectory(d)
      PROVE  [SettingsNext]_settingsVars
  BY <1>6 DEF AddDirectory, DropDirectory, SettingsNext
<1>7. CASE CrashFiles \/ StartFiles BY <1>7 DEF CrashFiles, StartFiles, SettingsNext
<1> QED BY <1>1, <1>2, <1>3, <1>4, <1>5, <1>6, <1>7 DEF Next

LEMMA FilesTypeInit ==
  Init => TypeInv
<1> SUFFICES ASSUME Init PROVE TypeInv OBVIOUS
<1>1. SettingsTypeOK BY SettingsInvInit DEF SettingsInv, Init
<1>2. NoUpload \in UploadType
  <2>1. (CHOOSE n \in Name : TRUE) \in Name OBVIOUS
  <2> QED BY <2>1 DEF NoUpload, UploadType, Stage
<1>3. Default.directory \in Directory OBVIOUS
<1> QED BY <1>1, <1>2, <1>3 DEF Init, FilesInit, TypeInv, FilesTypeOK

LEMMA UploadUpdate ==
  ASSUME NEW x \in UploadType, NEW stage \in Stage, NEW i \in 0..MaxIndex
  PROVE  [x EXCEPT !.at = stage] \in UploadType /\ [x EXCEPT !.index = i] \in UploadType
BY DEF UploadType

\* A step that moves u to a stage.
LEMMA GotoType ==
  ASSUME FilesTypeOK, NEW u \in Upload, NEW stage \in Stage, Goto(u, stage)
  PROVE  /\ upload' \in [Upload -> UploadType]
         /\ upload'[u].at = stage
         /\ upload'[u].directory = upload[u].directory
         /\ upload'[u].name = upload[u].name
         /\ upload'[u].index = upload[u].index
         /\ \A v \in Upload \ {u} : upload'[v] = upload[v]
<1>0. upload[u] \in UploadType BY DEF FilesTypeOK
<1>1. [upload[u] EXCEPT !.at = stage] \in UploadType
  <2>1. 0 \in 0..MaxIndex OBVIOUS
  <2> QED BY <1>0, <2>1, UploadUpdate
<1>2. upload' = [upload EXCEPT ![u] = [upload[u] EXCEPT !.at = stage]] BY DEF Goto
<1>3. /\ upload' \in [Upload -> UploadType]
      /\ upload'[u] = [upload[u] EXCEPT !.at = stage]
      /\ \A v \in Upload \ {u} : upload'[v] = upload[v]
  BY <1>1, <1>2 DEF FilesTypeOK
<1>4. upload[u] \in UploadType BY DEF FilesTypeOK
<1> QED BY <1>3, <1>4 DEF UploadType

LEMMA TargetType ==
  ASSUME FilesTypeOK, NEW u \in Upload
  PROVE  Target(u) \in Path /\ PartOf(u) \in Directory \X Upload
BY DEF FilesTypeOK, UploadType, Target, PartOf

LEMMA FilesTypeStep ==
  ASSUME TypeInv, [Next]_vars
  PROVE  FilesTypeOK'
<1> USE DEF TypeInv
<1>0. CASE UNCHANGED fileVars BY <1>0 DEF FilesTypeOK
<1>1. ASSUME NEW u \in Upload, NEW name \in Name, BeginSave(u, name) PROVE FilesTypeOK'
  BY <1>1 DEF BeginSave, FilesTypeOK, UploadType, Stage, SettingsTypeOK
<1>2. ASSUME NEW u \in Upload, MakeDirectory(u) \/ WholeBody(u) \/ LoseWriter(u)
      PROVE  FilesTypeOK'
  BY <1>2, GotoType DEF MakeDirectory, WholeBody, LoseWriter, FilesTypeOK, Stage
<1>3. ASSUME NEW u \in Upload, OpenPart(u) \/ OpenLate(u) PROVE FilesTypeOK'
  <2>1. upload' \in [Upload -> UploadType] BY <1>3, GotoType DEF OpenPart, OpenLate, Stage
  <2>2. parts' \subseteq Directory \X Upload
    BY <1>3, TargetType DEF OpenPart, OpenLate, FilesTypeOK
  <2> QED BY <1>3, <2>1, <2>2 DEF OpenPart, OpenLate, FilesTypeOK
<1>4. ASSUME NEW u \in Upload, GiveUp(u) PROVE FilesTypeOK'
  <2>1. Goto(u, "Failed") \/ Goto(u, "Stranded") BY <1>4 DEF GiveUp, FailUpload
  <2>2. upload' \in [Upload -> UploadType] BY <2>1, GotoType DEF Stage
  <2> QED BY <1>4, <2>2 DEF GiveUp, FailUpload, FilesTypeOK
<1>5. ASSUME NEW u \in Upload, TryLink(u) PROVE FilesTypeOK'
  <2>1. CASE disk[upload[u].directory][Target(u)] = Nothing
    <3>1. upload' \in [Upload -> UploadType] BY <1>5, <2>1, GotoType DEF TryLink, Stage
    <3>2. upload[u].directory \in Directory BY DEF FilesTypeOK, UploadType
    <3>3. disk' = [disk EXCEPT ![upload[u].directory] =
                     [disk[upload[u].directory] EXCEPT ![Target(u)] = u]]
      BY <1>5, <2>1 DEF TryLink
    <3>4. [disk[upload[u].directory] EXCEPT ![Target(u)] = u]
            \in [Path -> Upload \union {Nothing, Other}]
      BY <3>2, TargetType DEF FilesTypeOK
    <3>5. disk' \in [Directory -> [Path -> Upload \union {Nothing, Other}]]
      BY <3>2, <3>3, <3>4 DEF FilesTypeOK
    <3> QED BY <1>5, <3>1, <3>5 DEF TryLink, FilesTypeOK
  <2>2. CASE disk[upload[u].directory][Target(u)] # Nothing
    <3>0. upload[u].index \in 0..MaxIndex /\ upload[u].index < MaxIndex
      BY <1>5, <2>2 DEF TryLink, FilesTypeOK, UploadType
    <3>1. upload[u].index + 1 \in 0..MaxIndex BY <3>0
    <3>2. upload' = [upload EXCEPT ![u] = [upload[u] EXCEPT !.index = upload[u].index + 1]]
      BY <1>5, <2>2 DEF TryLink
    <3>3. upload[u] \in UploadType /\ "Linking" \in Stage BY DEF FilesTypeOK, Stage
    <3>4. [upload[u] EXCEPT !.index = upload[u].index + 1] \in UploadType
      BY <3>1, <3>3, UploadUpdate
    <3>5. upload' \in [Upload -> UploadType] BY <3>2, <3>4 DEF FilesTypeOK
    <3> QED BY <1>5, <2>2, <3>5 DEF TryLink, FilesTypeOK
  <2> QED BY <2>1, <2>2
<1>6. ASSUME NEW u \in Upload, RemovePart(u) PROVE FilesTypeOK'
  <2>1. Goto(u, "Recording") \/ Goto(u, "Failed") \/ Goto(u, "Stranded")
    BY <1>6 DEF RemovePart, FailUpload
  <2>2. upload' \in [Upload -> UploadType] BY <2>1, GotoType DEF Stage
  <2>3. parts' \subseteq Directory \X Upload BY <1>6 DEF RemovePart, FailUpload, FilesTypeOK
  <2> QED BY <1>6, <2>2, <2>3 DEF RemovePart, FilesTypeOK
<1>7. ASSUME NEW u \in Upload, RecordFile(u) PROVE FilesTypeOK'
  <2>0. <<u, Target(u)>> \in Record BY TargetType DEF Record
  <2>1. history' \subseteq Record BY <1>7, <2>0 DEF RecordFile, FilesTypeOK
  <2>2. upload' \in [Upload -> UploadType] BY <1>7, GotoType DEF RecordFile, Stage
  <2> QED BY <1>7, <2>1, <2>2 DEF RecordFile, FilesTypeOK
<1>8. ASSUME NEW u \in Upload, QueueRecord(u) PROVE FilesTypeOK'
  <2>1. <<u, Target(u)>> \in Record BY TargetType DEF Record
  <2>2. queue' \in Seq(Record) /\ Len(queue') <= QueueCap
    BY <1>8, <2>1 DEF QueueRecord, FilesTypeOK
  <2>3. upload' \in [Upload -> UploadType] BY <1>8, GotoType DEF QueueRecord, Stage
  <2> QED BY <1>8, <2>2, <2>3 DEF QueueRecord, FilesTypeOK
<1>9. CASE WriteRow
  <2>1. queue # <<>> /\ Head(queue) \in Record /\ Head(queue)[1] \in Upload
    BY <1>9 DEF WriteRow, FilesTypeOK, Record
  <2>2. queue' \in Seq(Record) /\ Len(queue') <= QueueCap
    BY <1>9, <2>1 DEF WriteRow, FilesTypeOK
  <2>3. upload' \in [Upload -> UploadType]
    <3>1. Goto(Head(queue)[1], "Stored") \/ Goto(Head(queue)[1], "Unstored")
      BY <1>9 DEF WriteRow
    <3> QED BY <2>1, <3>1, GotoType DEF Stage
  <2>4. rows' \subseteq Record BY <1>9, <2>1 DEF WriteRow, FilesTypeOK
  <2> QED BY <1>9, <2>2, <2>3, <2>4 DEF WriteRow, FilesTypeOK
<1>10. CASE CrashFiles
  <2>1. \A u \in Upload : [upload[u] EXCEPT !.at = "Lost"] \in UploadType
    <3>1. \A u \in Upload : upload[u] \in UploadType BY DEF FilesTypeOK
    <3>2. "Lost" \in Stage /\ 0 \in 0..MaxIndex BY DEF Stage
    <3> QED BY <3>1, <3>2, UploadUpdate
  <2>2. upload' \in [Upload -> UploadType] BY <1>10, <2>1 DEF CrashFiles, FilesTypeOK
  <2>3. queue' \in Seq(Record) /\ Len(queue') <= QueueCap BY <1>10 DEF CrashFiles
  <2> QED BY <1>10, <2>2, <2>3 DEF CrashFiles, FilesTypeOK
<1>11. CASE StartFiles
  BY <1>11 DEF StartFiles, Start, FilesTypeOK, SettingsTypeOK, Value
<1> QED
  BY <1>0, <1>1, <1>2, <1>3, <1>4, <1>5, <1>6, <1>7, <1>8, <1>9, <1>10, <1>11
     DEF Next, SaveStep, BeginHandler, ContinueHandler, AddDirectory, DropDirectory

LEMMA TypeInvStep ==
  ASSUME TypeInv, [Next]_vars
  PROVE  TypeInv'
BY SettingsPart, SettingsTypeStep, FilesTypeStep DEF TypeInv

\* The variables have their types: an upload keeps to its stages and its numbers to
\* those that numbered_path makes, the channel of the history to its capacity.
THEOREM FileStoreTypeCorrect == Spec => []FileStoreTypeOK
<1>1. TypeInv => FileStoreTypeOK
  BY DEF TypeInv, FilesTypeOK, FileStoreTypeOK, UploadType
<1> QED BY <1>1, FilesTypeInit, TypeInvStep, PTL DEF Spec

\* With uploads, parts and the history beside them, the handlers still do what Settings
\* says (run_events only reads the destination).
THEOREM FileStoreKeepsSettings == Spec => SettingsSpec
<1>1. Init => SettingsInit BY DEF Init
<1>2. TypeInv /\ [Next]_vars => [SettingsNext]_settingsVars BY SettingsPart
<1> QED BY <1>1, <1>2, FilesTypeInit, TypeInvStep, PTL DEF Spec, SettingsSpec

\* So the settings are in effect there too (update_settings, update_storage, main).
THEOREM FileStoreSettingsInEffect == Spec => []SettingsInEffect
BY FileStoreKeepsSettings, SettingsTakeEffect, PTL

LEMMA DiskGrows ==
  ASSUME TypeInv, [Next]_vars, NEW d \in Directory, NEW p \in Path, disk[d][p] # Nothing
  PROVE  disk'[d][p] = disk[d][p]
<1>1. ASSUME NEW u \in Upload, TryLink(u) PROVE disk'[d][p] = disk[d][p]
  <2>1. CASE disk[upload[u].directory][Target(u)] = Nothing
    <3>1. disk' = [disk EXCEPT ![upload[u].directory][Target(u)] = u] BY <1>1, <2>1 DEF TryLink
    <3>2. upload[u].directory # d \/ Target(u) # p BY <2>1
    <3> QED BY <3>1, <3>2 DEF TypeInv, FilesTypeOK
  <2>2. CASE disk[upload[u].directory][Target(u)] # Nothing BY <1>1, <2>2 DEF TryLink
  <2> QED BY <2>1, <2>2
<1>2. ASSUME NEW u \in Upload, (\E name \in Name : BeginSave(u, name)) \/ WholeBody(u) \/ GiveUp(u)
             \/ LoseWriter(u) \/ MakeDirectory(u) \/ OpenPart(u) \/ OpenLate(u)
             \/ RemovePart(u) \/ RecordFile(u) \/ QueueRecord(u)
      PROVE  disk' = disk
  BY <1>2 DEF BeginSave, WholeBody, GiveUp, LoseWriter, MakeDirectory, OpenPart, OpenLate,
              RemovePart, RecordFile, QueueRecord
<1>3. CASE WriteRow \/ CrashFiles \/ StartFiles \/ UNCHANGED vars
  BY <1>3 DEF WriteRow, CrashFiles, StartFiles
<1>4. ASSUME NEW r \in Request, BeginHandler(r) \/ ContinueHandler(r) PROVE disk' = disk
  BY <1>4 DEF BeginHandler, ContinueHandler
<1>5. ASSUME NEW e \in Directory, AddDirectory(e) \/ DropDirectory(e) PROVE disk' = disk
  BY <1>5 DEF AddDirectory, DropDirectory
<1> QED BY <1>1, <1>2, <1>3, <1>4, <1>5 DEF Next, SaveStep

\* No file in a receive directory is replaced or removed, however many uploads ask for
\* its name (finalize_upload).
THEOREM FilesAreKept == Spec => NeverOverwritten
<1>1. TypeInv /\ [Next]_vars
      => [\A d \in Directory, p \in Path : disk[d][p] # Nothing => disk'[d][p] = disk[d][p]]_vars
  BY DiskGrows
<1> QED BY <1>1, FilesTypeInit, TypeInvStep, PTL DEF Spec, NeverOverwritten

Records == history \union rows \union {queue[i] : i \in 1..Len(queue)}
Begun(u) == upload[u].at # "Idle"
Linked(u) == upload[u].at \in {"Removing", "Recording", "Queueing"}

\* Each record, and each upload between its link and its record, has its file.
RecordInv ==
  /\ \A record \in Records : NamesItsFile(record) /\ Begun(record[1])
  /\ \A u \in Upload : Linked(u) => disk[upload[u].directory][Target(u)] = u

\* What the rest of the invariant needs to know of a step.
LEMMA UploadProgress ==
  ASSUME TypeInv, [Next]_vars, NEW u \in Upload
  PROVE  /\ Begun(u) => Begun(u)' /\ upload'[u].directory = upload[u].directory
         /\ Linked(u) => Target(u)' = Target(u)
         /\ Linked(u)' /\ ~Linked(u) =>
              Begun(u) /\ Target(u)' = Target(u) /\ disk'[upload[u].directory][Target(u)] = u
<1> USE DEF Begun, Linked
<1>1. CASE UNCHANGED upload BY <1>1 DEF Target
<1>2. ASSUME NEW v \in Upload, NEW name \in Name, BeginSave(v, name)
      PROVE  upload'[v].at = "Making" /\ upload[v].at = "Idle"
             /\ \A w \in Upload \ {v} : upload'[w] = upload[w]
  BY <1>2 DEF BeginSave, At, TypeInv, FilesTypeOK
<1>3. ASSUME NEW v \in Upload, NEW stage \in Stage \ {"Idle", "Removing", "Recording", "Queueing"},
             Goto(v, stage)
      PROVE  (Begun(u)' /\ upload'[u].directory = upload[u].directory /\ Target(u)' = Target(u)
              /\ (Linked(u)' => Linked(u))) \/ upload'[u] = upload[u]
  <2>1. FilesTypeOK BY DEF TypeInv
  <2>2. CASE u = v BY <1>3, <2>1, <2>2, GotoType DEF Target
  <2>3. CASE u # v BY <1>3, <2>1, <2>3, GotoType
  <2> QED BY <2>2, <2>3
<1>4. ASSUME NEW v \in Upload, NEW stage \in {"Recording", "Queueing"},
             Goto(v, stage), Linked(v)
      PROVE  (Begun(u)' /\ upload'[u].directory = upload[u].directory /\ Target(u)' = Target(u)
              /\ (Linked(u)' => Linked(u))) \/ upload'[u] = upload[u]
  <2>1. FilesTypeOK /\ stage \in Stage BY DEF TypeInv, Stage
  <2>2. CASE u = v BY <1>4, <2>1, <2>2, GotoType DEF Target
  <2>3. CASE u # v BY <1>4, <2>1, <2>3, GotoType
  <2> QED BY <2>2, <2>3
<1>5. ASSUME NEW v \in Upload, TryLink(v)
      PROVE  \/ upload'[u] = upload[u]
             \/ /\ Begun(u) /\ Begun(u)' /\ ~Linked(u)
                /\ upload'[u].directory = upload[u].directory
                /\ Linked(u)' => Target(u)' = Target(u) /\ disk'[upload[u].directory][Target(u)] = u
  <2>1. FilesTypeOK /\ upload[v].at = "Linking" BY <1>5 DEF TypeInv, TryLink, At
  <2>2. CASE disk[upload[v].directory][Target(v)] = Nothing
    <3>1. Goto(v, "Removing") /\ disk' = [disk EXCEPT ![upload[v].directory][Target(v)] = v]
      BY <1>5, <2>2 DEF TryLink
    <3>2. upload[v].directory \in Directory /\ Target(v) \in Path
      BY <2>1, TargetType DEF FilesTypeOK, UploadType
    <3>3. disk'[upload[v].directory][Target(v)] = v BY <2>1, <3>1, <3>2 DEF FilesTypeOK
    <3>4. "Removing" \in Stage BY DEF Stage
    <3>5. /\ upload'[v].at = "Removing" /\ upload'[v].directory = upload[v].directory
          /\ upload'[v].name = upload[v].name /\ upload'[v].index = upload[v].index
          /\ \A w \in Upload \ {v} : upload'[w] = upload[w]
      BY <2>1, <3>1, <3>4, GotoType
    <3> QED BY <2>1, <3>3, <3>5 DEF Target
  <2>3. CASE disk[upload[v].directory][Target(v)] # Nothing
    <3>1. upload' = [upload EXCEPT ![v] = [upload[v] EXCEPT !.index = upload[v].index + 1]]
      BY <1>5, <2>3 DEF TryLink
    <3>2. upload[v] \in UploadType BY <2>1 DEF FilesTypeOK
    <3> QED BY <2>1, <3>1, <3>2 DEF FilesTypeOK, UploadType
  <2> QED BY <2>2, <2>3
<1>6. CASE CrashFiles
  <2>1. upload'[u] = upload[u] \/ upload'[u] = [upload[u] EXCEPT !.at = "Lost"]
    BY <1>6 DEF CrashFiles, TypeInv, FilesTypeOK
  <2>2. upload[u] \in UploadType BY DEF TypeInv, FilesTypeOK
  <2> QED BY <2>1, <2>2 DEF UploadType, Target
<1>7. ASSUME NEW v \in Upload, MakeDirectory(v) \/ OpenPart(v) \/ OpenLate(v) \/ WholeBody(v)
             \/ GiveUp(v) \/ LoseWriter(v) \/ QueueRecord(v)
      PROVE  \E stage \in Stage \ {"Idle", "Removing", "Recording", "Queueing"} : Goto(v, stage)
  BY <1>7 DEF MakeDirectory, OpenPart, OpenLate, WholeBody, GiveUp, FailUpload, LoseWriter,
              QueueRecord, Stage
<1>8. ASSUME WriteRow
      PROVE  \E v \in Upload, stage \in Stage \ {"Idle", "Removing", "Recording", "Queueing"} :
               Goto(v, stage)
  <2>1. Head(queue)[1] \in Upload BY <1>8 DEF WriteRow, TypeInv, FilesTypeOK, Record
  <2> QED BY <1>8, <2>1 DEF WriteRow, Stage
<1>9. ASSUME NEW v \in Upload, RemovePart(v) \/ RecordFile(v)
      PROVE  \/ Goto(v, "Failed") \/ Goto(v, "Stranded")
             \/ Linked(v) /\ (Goto(v, "Recording") \/ Goto(v, "Queueing"))
  <2>1. Linked(v) BY <1>9 DEF RemovePart, RecordFile, At
  <2>2. CASE RemovePart(v)
    <3>1. Goto(v, "Failed") \/ Goto(v, "Stranded") \/ Goto(v, "Recording")
      BY <2>2 DEF RemovePart, FailUpload
    <3> QED BY <2>1, <3>1
  <2>3. CASE RecordFile(v)
    <3>1. Goto(v, "Queueing") BY <2>3 DEF RecordFile
    <3> QED BY <2>1, <3>1
  <2> QED BY <1>9, <2>2, <2>3
<1>10. ASSUME NEW v \in Upload, SaveStep(v) \/ WholeBody(v) \/ GiveUp(v) \/ LoseWriter(v)
       PROVE  \/ TryLink(v)
              \/ \E stage \in Stage \ {"Idle", "Removing", "Recording", "Queueing"} : Goto(v, stage)
              \/ Linked(v) /\ \E stage \in {"Recording", "Queueing"} : Goto(v, stage)
  BY <1>7, <1>9, <1>10 DEF SaveStep, Stage
<1>11. ASSUME (\E r \in Request : BeginHandler(r) \/ ContinueHandler(r))
              \/ (\E d \in Directory : AddDirectory(d) \/ DropDirectory(d))
              \/ StartFiles \/ UNCHANGED vars
       PROVE  UNCHANGED upload
  BY <1>11 DEF BeginHandler, ContinueHandler, AddDirectory, DropDirectory, StartFiles
<1>12. upload'[u] = upload[u] => Target(u)' = Target(u) BY DEF Target
<1>13. ASSUME NEW v \in Upload, NEW name \in Name, BeginSave(v, name)
       PROVE  \/ upload'[u] = upload[u]
              \/ ~Begun(u) /\ ~Linked(u)'
  BY <1>2, <1>13
<1>14. CASE \E v \in Upload, name \in Name : BeginSave(v, name) BY <1>12, <1>13, <1>14
<1>15. CASE \E v \in Upload : SaveStep(v) \/ WholeBody(v) \/ GiveUp(v) \/ LoseWriter(v)
  BY <1>3, <1>4, <1>5, <1>10, <1>12, <1>15
<1>16. CASE WriteRow BY <1>3, <1>8, <1>12, <1>16
<1> QED BY <1>1, <1>6, <1>11, <1>14, <1>15, <1>16 DEF Next

LEMMA RecordInvStep ==
  ASSUME TypeInv, RecordInv, [Next]_vars
  PROVE  RecordInv'
<1> USE DEF RecordInv
<1>1. FilesTypeOK /\ TypeInv' BY TypeInvStep DEF TypeInv
<1>2. ASSUME NEW u \in Upload
      PROVE  upload[u].directory \in Directory /\ Target(u) \in Path /\ u # Nothing
  BY <1>1, TargetType DEF FilesTypeOK, UploadType
\* New records are made of what was linked.
<1>3. ASSUME NEW record \in Records', record \notin Records
      PROVE  \E u \in Upload : Linked(u) /\ record = <<u, Target(u)>>
  <2>1. ASSUME NEW u \in Upload, RecordFile(u) PROVE record = <<u, Target(u)>> /\ Linked(u)
    BY <1>3, <2>1 DEF RecordFile, Records, Linked, At
  <2>2. ASSUME NEW u \in Upload, QueueRecord(u) PROVE record = <<u, Target(u)>> /\ Linked(u)
    <3>1. Linked(u) BY <2>2 DEF QueueRecord, Linked, At
    <3>2. queue' = Append(queue, <<u, Target(u)>>) /\ UNCHANGED <<history, rows>>
      BY <2>2 DEF QueueRecord
    <3>3. \A i \in 1..Len(queue') : queue'[i] = <<u, Target(u)>> \/ \E j \in 1..Len(queue) : queue'[i] = queue[j]
      BY <1>1, <3>2 DEF FilesTypeOK
    <3> QED BY <1>3, <3>1, <3>2, <3>3 DEF Records
  <2>3. CASE WriteRow
    <3>1. queue # <<>> /\ queue' = Tail(queue) /\ history' = history
          /\ rows' \subseteq rows \union {Head(queue)}
      BY <2>3 DEF WriteRow
    <3>2. Head(queue) = queue[1] /\ 1 \in 1..Len(queue) BY <1>1, <3>1 DEF FilesTypeOK
    <3>3. \A i \in 1..Len(queue') : \E j \in 1..Len(queue) : queue'[i] = queue[j]
      <4>1. ASSUME NEW i \in 1..Len(queue')
            PROVE  i + 1 \in 1..Len(queue) /\ queue'[i] = queue[i + 1]
        BY <1>1, <3>1 DEF FilesTypeOK
      <4> QED BY <4>1
    <3> QED BY <1>3, <3>1, <3>2, <3>3 DEF Records
  <2>4. CASE CrashFiles BY <1>3, <2>4 DEF CrashFiles, Records
  <2>5. CASE StartFiles BY <1>3, <2>5 DEF StartFiles, Records
  <2>6. ASSUME NEW u \in Upload, (\E name \in Name : BeginSave(u, name)) \/ WholeBody(u) \/ GiveUp(u)
               \/ LoseWriter(u) \/ MakeDirectory(u) \/ OpenPart(u) \/ OpenLate(u)
               \/ TryLink(u) \/ RemovePart(u)
        PROVE  UNCHANGED recordVars
    BY <2>6 DEF BeginSave, WholeBody, GiveUp, LoseWriter, MakeDirectory, OpenPart, OpenLate,
                TryLink, RemovePart
  <2>7. ASSUME (\E r \in Request : BeginHandler(r) \/ ContinueHandler(r))
               \/ (\E d \in Directory : AddDirectory(d) \/ DropDirectory(d)) \/ UNCHANGED vars
        PROVE  UNCHANGED recordVars
    BY <2>7 DEF BeginHandler, ContinueHandler, AddDirectory, DropDirectory
  <2>8. ~UNCHANGED recordVars BY <1>3 DEF Records
  <2> QED BY <2>1, <2>2, <2>3, <2>4, <2>5, <2>6, <2>7, <2>8 DEF Next, SaveStep
<1>4. ASSUME NEW u \in Upload, Linked(u)
      PROVE  disk'[upload'[u].directory][Target(u)'] = u
  <2>1. disk[upload[u].directory][Target(u)] = u BY <1>4
  <2>2. disk'[upload[u].directory][Target(u)] = u BY <1>2, <2>1, DiskGrows
  <2> QED BY <1>4, <2>2, UploadProgress DEF Begun, Linked
<1>5. ASSUME NEW u \in Upload, Linked(u)' PROVE disk'[upload'[u].directory][Target(u)'] = u
  <2>1. CASE Linked(u) BY <1>4, <2>1
  <2>2. CASE ~Linked(u) BY <1>5, <2>2, UploadProgress
  <2> QED BY <2>1, <2>2
<1>6. ASSUME NEW record \in Records' PROVE (NamesItsFile(record) /\ Begun(record[1]))'
  <2>1. CASE record \in Records
    <3>1. record[1] \in Upload /\ record[2] \in Path
      BY <1>1, <2>1 DEF FilesTypeOK, Records, Record
    <3>2. disk[upload[record[1]].directory][record[2]] = record[1] /\ Begun(record[1])
      BY <2>1 DEF NamesItsFile
    <3>3. /\ upload[record[1]].directory \in Directory
          /\ disk[upload[record[1]].directory][record[2]] # Nothing
      BY <1>2, <3>1, <3>2
    <3>4. disk'[upload[record[1]].directory][record[2]] = record[1]
      BY <3>1, <3>2, <3>3, DiskGrows
    <3> QED BY <3>1, <3>2, <3>4, UploadProgress DEF NamesItsFile
  <2>2. CASE record \notin Records
    <3>1. PICK u \in Upload : Linked(u) /\ record = <<u, Target(u)>> BY <1>3, <2>2
    <3>2. Begun(u) BY <3>1 DEF Begun, Linked
    <3>3. Target(u)' = Target(u) /\ Begun(u)' BY <3>1, <3>2, UploadProgress
    <3>4. disk'[upload'[u].directory][Target(u)] = u BY <1>4, <3>1, <3>3
    <3> QED BY <3>1, <3>3, <3>4 DEF NamesItsFile, Begun
  <2> QED BY <2>1, <2>2
<1> QED BY <1>5, <1>6

\* The history, on the panel and after a restart, names the file that each upload became
\* (run_events, finalize_upload, main).
THEOREM HistoryNamesFiles == Spec => []HistoryIsOnDisk
<1>1. Init => RecordInv
  BY DEF Init, FilesInit, NoUpload, RecordInv, Records, Linked
<1>2. TypeInv /\ RecordInv /\ [Next]_vars => RecordInv' BY RecordInvStep
<1>3. RecordInv => HistoryIsOnDisk BY DEF RecordInv, Records, HistoryIsOnDisk
<1> QED BY <1>1, <1>2, <1>3, FilesTypeInit, TypeInvStep, PTL DEF Spec

Owner == {"Writing", "Linking", "Removing", "Stranded", "Lost"}
Past == {"Queued", "Stored", "Unstored"}

\* Parts are where their upload puts them, uploads that come after have none, and while
\* the program runs none that a crash left is in the directory that was cleaned.
PartInv ==
  /\ \A part \in parts :
       /\ part = PartOf(part[2]) /\ upload[part[2]].at \in Owner
       /\ running /\ upload[part[2]].at = "Lost" => part[1] # swept
  /\ \A i \in 1..Len(queue) : upload[queue[i][1]].at \in Past

\* A step that moves u on, and may add or remove its part.
LEMMA PartMove ==
  ASSUME TypeInv, PartInv, NEW u \in Upload, NEW stage \in Stage \ {"Lost", "Idle"},
         Goto(u, stage), UNCHANGED <<running, swept>>,
         upload[u].at \in Past => stage \in Past,
         parts' \subseteq parts \union {PartOf(u)},
         stage \in Owner \/ PartOf(u) \notin parts',
         \A i \in 1..Len(queue') :
           (queue'[i][1] = u /\ stage \in Past) \/ \E j \in 1..Len(queue) : queue'[i] = queue[j]
  PROVE  PartInv'
<1> USE DEF PartInv
<1>1. /\ FilesTypeOK /\ \A v \in Upload \ {u} : upload'[v] = upload[v]
      /\ upload'[u].at = stage /\ upload'[u].directory = upload[u].directory
  BY GotoType DEF TypeInv
<1>2. \A v \in Upload : PartOf(v)' = PartOf(v) BY <1>1 DEF PartOf
<1>3. ASSUME NEW part \in parts'
      PROVE  /\ part = PartOf(part[2])' /\ upload'[part[2]].at \in Owner
             /\ running' /\ upload'[part[2]].at = "Lost" => part[1] # swept'
  <2>1. part[2] \in Upload /\ part = PartOf(part[2])
    BY <1>1 DEF FilesTypeOK, PartOf
  <2>2. CASE part[2] = u BY <1>1, <1>2, <2>1, <2>2
  <2>3. CASE part[2] # u
    <3>1. part \in parts BY <2>3 DEF PartOf
    <3> QED BY <1>1, <1>2, <2>1, <2>3, <3>1
  <2> QED BY <2>2, <2>3
<1>4. ASSUME NEW i \in 1..Len(queue') PROVE upload'[queue'[i][1]].at \in Past
  <2>1. CASE queue'[i][1] = u /\ stage \in Past BY <1>1, <2>1
  <2>2. ASSUME NEW j \in 1..Len(queue), queue'[i] = queue[j] PROVE upload'[queue'[i][1]].at \in Past
    <3>1. queue[j][1] \in Upload /\ upload[queue[j][1]].at \in Past
      BY <1>1 DEF FilesTypeOK, Record
    <3> QED BY <1>1, <2>2, <3>1
  <2> QED BY <2>1, <2>2
<1> QED BY <1>3, <1>4

\* A step that leaves the uploads, their parts and the channel alone.
LEMMA PartIdle ==
  ASSUME PartInv, UNCHANGED <<upload, parts, queue, swept, running>>
  PROVE  PartInv'
BY DEF PartInv, PartOf

LEMMA PartInvStep ==
  ASSUME TypeInv, PartInv, [Next]_vars
  PROVE  PartInv'
<1> USE DEF PartInv
<1>0. FilesTypeOK BY DEF TypeInv
<1>1. CASE UNCHANGED vars BY <1>1, PartIdle
<1>2. ASSUME NEW r \in Request, BeginHandler(r) \/ ContinueHandler(r) PROVE PartInv'
  <2>1. UNCHANGED <<running, fileVars>>
    BY <1>2 DEF BeginHandler, ContinueHandler, BeginRequest, BeginSettings, BeginStorage,
                ContinueRequest, CompareName, StoreSetting, StoreFails, ApplySetting, ListName,
                ServeName, Redirect, DropRequest
  <2> QED BY <2>1, PartIdle
<1>3. ASSUME NEW d \in Directory, AddDirectory(d) \/ DropDirectory(d) PROVE PartInv'
  BY <1>3, PartIdle DEF AddDirectory, DropDirectory, CreateDirectory, RemoveDirectory
<1>4. ASSUME NEW u \in Upload, NEW name \in Name, BeginSave(u, name) PROVE PartInv'
  <2>1. \A v \in Upload \ {u} : upload'[v] = upload[v] BY <1>0, <1>4 DEF BeginSave, FilesTypeOK
  <2>2. upload[u].at = "Idle" /\ UNCHANGED <<parts, queue, swept, running>>
    BY <1>4 DEF BeginSave, At
  <2>3. \A part \in parts : part[2] \in Upload \ {u} BY <1>0, <2>2 DEF FilesTypeOK, Owner
  <2>4. ASSUME NEW i \in 1..Len(queue) PROVE queue[i][1] \in Upload \ {u}
    <3>1. queue[i] \in Record BY <1>0 DEF FilesTypeOK
    <3>2. queue[i][1] \in Upload /\ upload[queue[i][1]].at \in Past BY <3>1 DEF Record
    <3> QED BY <2>2, <3>2 DEF Past
  <2> QED BY <2>1, <2>2, <2>3, <2>4 DEF PartOf
<1>5. ASSUME NEW u \in Upload, MakeDirectory(u) \/ OpenPart(u) \/ OpenLate(u) \/ WholeBody(u)
             \/ GiveUp(u) \/ LoseWriter(u)
      PROVE  PartInv'
  <2>1. \/ /\ \E stage \in {"Opening", "Abandoned"} : Goto(u, stage)
           /\ upload[u].at \in {"Making", "Opening"} /\ UNCHANGED parts
        \/ /\ Goto(u, "Failed")
           /\ upload[u].at \in {"Opening", "Abandoned"} /\ UNCHANGED parts
        \/ Goto(u, "Failed") /\ PartOf(u) \notin parts'
        \/ \E stage \in {"Writing", "Linking", "Stranded"} : Goto(u, stage)
    BY <1>5 DEF MakeDirectory, OpenPart, OpenLate, WholeBody, GiveUp, FailUpload, LoseWriter, At
  <2>2. upload[u].at \notin Past
    BY <1>5 DEF MakeDirectory, OpenPart, OpenLate, WholeBody, GiveUp, LoseWriter, At, Past
  <2>3. parts' \subseteq parts \union {PartOf(u)} /\ UNCHANGED <<queue, swept, running>>
    BY <1>5 DEF MakeDirectory, OpenPart, OpenLate, WholeBody, GiveUp, FailUpload, LoseWriter
  <2>4. upload[u].at \in {"Making", "Opening", "Abandoned"} => PartOf(u) \notin parts
    BY DEF PartOf, Owner
  <2>5. {"Opening", "Abandoned", "Writing", "Linking", "Failed", "Stranded"}
          \subseteq Stage \ {"Lost", "Idle"}
        /\ {"Writing", "Linking", "Stranded"} \subseteq Owner
    BY DEF Stage, Owner
  <2>6. PICK stage \in Stage \ {"Lost", "Idle"} :
          Goto(u, stage) /\ (stage \in Owner \/ PartOf(u) \notin parts')
    BY <2>1, <2>4, <2>5
  <2> QED BY <2>2, <2>3, <2>6, PartMove
<1>6. ASSUME NEW u \in Upload, TryLink(u) PROVE PartInv'
  <2>1. upload[u].at = "Linking" /\ UNCHANGED <<parts, queue, swept, running>>
    BY <1>6 DEF TryLink, At
  <2>2. CASE Goto(u, "Removing")
    <3>1. "Removing" \in Stage /\ "Removing" \in Owner /\ upload[u].at \notin Past
      BY <2>1 DEF Stage, Owner, Past
    <3> QED BY <2>1, <2>2, <3>1, PartMove
  <2>3. CASE upload' = [upload EXCEPT ![u].index = @ + 1]
    <3>1. \A v \in Upload : upload'[v].at = upload[v].at /\ PartOf(v)' = PartOf(v)
      BY <1>0, <2>3 DEF FilesTypeOK, UploadType, PartOf
    <3>2. \A part \in parts : part[2] \in Upload BY <1>0 DEF FilesTypeOK
    <3>3. \A i \in 1..Len(queue) : queue[i][1] \in Upload BY <1>0 DEF FilesTypeOK, Record
    <3> QED BY <2>1, <3>1, <3>2, <3>3
  <2> QED BY <1>6, <2>2, <2>3 DEF TryLink
<1>7. ASSUME NEW u \in Upload, RemovePart(u) PROVE PartInv'
  <2>1. upload[u].at = "Removing" /\ UNCHANGED <<queue, swept, running>>
    BY <1>7 DEF RemovePart, At
  <2>2. /\ parts' \subseteq parts
        /\ \/ Goto(u, "Stranded")
           \/ (Goto(u, "Recording") \/ Goto(u, "Failed")) /\ PartOf(u) \notin parts'
    BY <1>7 DEF RemovePart, FailUpload
  <2>3. /\ {"Failed", "Stranded", "Recording"} \subseteq Stage
        /\ "Stranded" \in Owner /\ upload[u].at \notin Past
    BY <2>1 DEF Stage, Owner, Past
  <2> QED BY <2>1, <2>2, <2>3, PartMove
<1>8. ASSUME NEW u \in Upload, RecordFile(u) PROVE PartInv'
  <2>1. upload[u].at = "Recording" /\ Goto(u, "Queueing") /\ UNCHANGED <<parts, queue, swept, running>>
    BY <1>8 DEF RecordFile, At
  <2>2. PartOf(u) \notin parts BY <2>1 DEF PartOf, Owner
  <2>3. "Queueing" \in Stage /\ upload[u].at \notin Past BY <2>1 DEF Stage, Past
  <2> QED BY <2>1, <2>2, <2>3, PartMove
<1>9. ASSUME NEW u \in Upload, QueueRecord(u) PROVE PartInv'
  <2>1. upload[u].at = "Queueing" /\ Goto(u, "Queued") /\ UNCHANGED <<parts, swept, running>>
        /\ queue' = Append(queue, <<u, Target(u)>>)
    BY <1>9 DEF QueueRecord, At
  <2>2. PartOf(u) \notin parts BY <2>1 DEF PartOf, Owner
  <2>3. \A i \in 1..Len(queue') : queue'[i] = <<u, Target(u)>> \/ \E j \in 1..Len(queue) : queue'[i] = queue[j]
    <3> DEFINE record == <<u, Target(u)>>
    <3>1. queue \in Seq(Record) /\ queue' = Append(queue, record) BY <1>0, <2>1 DEF FilesTypeOK
    <3> HIDE DEF record
    <3>2. \A i \in 1..Len(queue') : queue'[i] = record \/ \E j \in 1..Len(queue) : queue'[i] = queue[j]
      BY <3>1
    <3> QED BY <3>2 DEF record
  <2>4. "Queued" \in Stage \ {"Lost", "Idle"} /\ "Queued" \in Past BY DEF Stage, Past
  <2>5. \A i \in 1..Len(queue') :
          (queue'[i][1] = u /\ "Queued" \in Past) \/ \E j \in 1..Len(queue) : queue'[i] = queue[j]
    <3> SUFFICES ASSUME NEW i \in 1..Len(queue'), ~\E j \in 1..Len(queue) : queue'[i] = queue[j]
                 PROVE  queue'[i][1] = u
      BY <2>4, Zenon
    <3>1. queue'[i] = <<u, Target(u)>> BY <2>3
    <3> QED BY <3>1
  <2>6. parts' \subseteq parts \union {PartOf(u)} /\ PartOf(u) \notin parts'
    BY <2>1, <2>2
  <2> HIDE DEF PartInv
  <2> QED BY <2>1, <2>4, <2>5, <2>6, PartMove
<1>10. CASE WriteRow
  <2>1. queue # <<>> /\ queue' = Tail(queue) /\ UNCHANGED <<parts, swept, running>>
        /\ (Goto(Head(queue)[1], "Stored") \/ Goto(Head(queue)[1], "Unstored"))
    BY <1>10 DEF WriteRow
  <2>2. Head(queue) = queue[1] /\ 1 \in 1..Len(queue) /\ Head(queue)[1] \in Upload
    BY <1>0, <2>1 DEF FilesTypeOK, Record
  <2>3. upload[Head(queue)[1]].at \in Past BY <2>2
  <2>4. PartOf(Head(queue)[1]) \notin parts BY <2>3 DEF PartOf, Owner, Past
  <2>5. \A i \in 1..Len(queue') : \E j \in 1..Len(queue) : queue'[i] = queue[j]
    <3>1. ASSUME NEW i \in 1..Len(queue')
          PROVE  i + 1 \in 1..Len(queue) /\ queue'[i] = queue[i + 1]
      BY <1>0, <2>1 DEF FilesTypeOK
    <3> QED BY <3>1
  <2>6. {"Stored", "Unstored"} \subseteq Stage \ {"Lost", "Idle"} /\ {"Stored", "Unstored"} \subseteq Past
    BY DEF Stage, Past
  <2>7. PICK stage \in {"Stored", "Unstored"} : Goto(Head(queue)[1], stage)
    BY <2>1
  <2>8. /\ stage \in Stage \ {"Lost", "Idle"} /\ stage \in Past
        /\ parts' \subseteq parts \union {PartOf(Head(queue)[1])} /\ PartOf(Head(queue)[1]) \notin parts'
    BY <2>1, <2>4, <2>6
  <2> HIDE DEF PartInv
  <2> QED BY <2>1, <2>2, <2>5, <2>7, <2>8, PartMove
<1>11. CASE CrashFiles
  <2>1. \A u \in Upload : upload'[u].directory = upload[u].directory
                          /\ upload'[u].at \in {upload[u].at, "Lost"}
    BY <1>0, <1>11 DEF CrashFiles, FilesTypeOK, UploadType
  <2>2. ~running' /\ parts' = parts /\ queue' = <<>> BY <1>11 DEF CrashFiles, Crash
  <2>3. \A part \in parts : part[2] \in Upload BY <1>0 DEF FilesTypeOK
  <2>4. ASSUME NEW part \in parts' PROVE part = PartOf(part[2])' /\ upload'[part[2]].at \in Owner
    BY <2>1, <2>2, <2>3 DEF PartOf, Owner
  <2>5. ~running' /\ Len(queue') = 0 BY <2>2
  <2> QED BY <2>4, <2>5
<1>12. CASE StartFiles
  <2>1. /\ parts' \subseteq parts /\ \A part \in parts' : part[1] # swept'
        /\ UNCHANGED <<upload, queue>>
    BY <1>12 DEF StartFiles
  <2> QED BY <2>1 DEF PartOf
<1> QED
  BY <1>1, <1>2, <1>3, <1>4, <1>5, <1>6, <1>7, <1>8, <1>9, <1>10, <1>11, <1>12
     DEF Next, SaveStep

\* Whatever crashes and however the destination moves, a start leaves no part of a killed
\* upload in the directory that it receives into (cleanup_partial_files).
THEOREM PartsAreCleaned == Spec => []PartFilesOwned
<1>1. Init => PartInv BY DEF Init, FilesInit, PartInv
<1>2. TypeInv /\ PartInv /\ [Next]_vars => PartInv' BY PartInvStep
<1>3. PartInv => PartFilesOwned BY DEF PartInv, PartFilesOwned, Owner
<1> QED BY <1>1, <1>2, <1>3, FilesTypeInit, TypeInvStep, PTL DEF Spec
=============================================================================

--------------------------- MODULE DiscoveryProofs ---------------------------
(***************************************************************************)
(* Theorems about discovery, for every host, any number of updates, peers  *)
(* and renamings, and all capacities.  What the plan computes is from      *)
(* InterfacesProofs.                                                       *)
(***************************************************************************)
EXTENDS Discovery, InterfacesProofs, TLAPS

\* A name that was not announced since it was set will be: the loop has a command,
\* a handler is about to queue one, or the next tick announces.
Owed == queue # << >> \/ rename = "Updating" \/ overdue

LoopPlaces == {"Select", "Announcing", "Stopped"}

\* What of the types the arguments below need.
NameTypes ==
  /\ queue \in Seq(Command)
  /\ loop \in [at : LoopPlaces, alias : Alias \union {NoAlias}]
  /\ alias \in Alias
  /\ \A r \in replies : r = [over |-> r.over, alias |-> r.alias, older |-> r.older]
                        /\ r.older \in BOOLEAN
  /\ DOMAIN told = endpoints
  /\ told = [e \in endpoints |-> told[e]]

\* Every name that is on its way, or that was sent last, is the current one, or a new
\* announcement is owed.  Answers begun before an announcement are over when it is.
NameInv ==
  loop.at # "Stopped" =>
    /\ loop.at = "Announcing" => loop.alias = alias \/ Owed
    /\ \A r \in replies : ~r.older => r.alias = alias \/ Owed
    /\ loop.at = "Select" => \A r \in replies : ~r.older
    /\ loop.at = "Select" => Owed \/ \A e \in Sockets : told[e] = alias

\* An answer that is marked older keeps its endpoint and its name.
LEMMA OlderReply ==
  ASSUME NameTypes, NEW r \in replies
  PROVE  [r EXCEPT !.older = TRUE] = [over |-> r.over, alias |-> r.alias, older |-> TRUE]
<1> DEFINE Marked == [over : {r.over}, alias : {r.alias}, older : BOOLEAN]
           Old == [r EXCEPT !.older = TRUE]
<1>1. r \in Marked
  <2>1. [over |-> r.over, alias |-> r.alias, older |-> r.older] \in Marked
    BY DEF NameTypes
  <2> QED BY <2>1, Zenon DEF NameTypes
<1>2. ASSUME NEW s \in Marked
      PROVE  [s EXCEPT !.older = TRUE] \in Marked /\ [s EXCEPT !.older = TRUE].older = TRUE
  OBVIOUS
<1>3. ASSUME NEW s \in Marked, s.older = TRUE
      PROVE  s = [over |-> r.over, alias |-> r.alias, older |-> TRUE]
  BY <1>3
<1>4. Old \in Marked /\ Old.older = TRUE
  BY <1>1, <1>2
<1> HIDE DEF Old
<1>5. Old = [over |-> r.over, alias |-> r.alias, older |-> TRUE]
  BY <1>3, <1>4
<1> QED BY <1>5 DEF Old

LEMMA QueueKept ==
  ASSUME NameTypes, QueueScan
  PROVE  /\ queue' \in Seq(Command)
         /\ loop.at # "Stopped" => queue' # << >>
<1>1. CASE Len(queue) < ScanCap /\ loop.at # "Stopped"
  <2>1. queue' = Append(queue, "Announce")
    BY <1>1 DEF QueueScan
  <2> QED BY <2>1 DEF NameTypes, Command
<1>2. CASE ~(Len(queue) < ScanCap /\ loop.at # "Stopped")
  <2>1. queue' = queue
    BY <1>2 DEF QueueScan
  <2>2. loop.at # "Stopped" => queue # << >>
    BY <1>2, DiscoveryAssumption DEF NameTypes
  <2> QED BY <2>1, <2>2 DEF NameTypes
<1> QED BY <1>1, <1>2

LEMMA SocketsReplaced ==
  ASSUME NameTypes, ReplaceSockets \/ RefreshSockets
  PROVE  DOMAIN told' = endpoints' /\ told' = [e \in endpoints' |-> told'[e]]
<1>1. CASE ReplaceSockets
  BY <1>1 DEF ReplaceSockets
<1>2. CASE RefreshSockets
  BY <1>1, <1>2 DEF RefreshSockets, NameTypes
<1> QED BY <1>1, <1>2

\* The arms that announce.
LEMMA AnnouncingStep ==
  ASSUME NameTypes, ReplaceSockets \/ RefreshSockets, StartAnnouncing, UNCHANGED alias,
         queue' \in Seq(Command)
  PROVE  NameTypes' /\ NameInv'
<1>1. loop' = [at |-> "Announcing", alias |-> alias] /\ alias \in Alias /\ alias' = alias
  BY DEF StartAnnouncing, NameTypes
<1>2. \A r \in replies' : \E s \in replies : r = [over |-> s.over, alias |-> s.alias, older |-> TRUE]
  BY OlderReply DEF StartAnnouncing
<1>3. \A r \in replies' : r = [over |-> r.over, alias |-> r.alias, older |-> r.older] /\ r.older = TRUE
  BY <1>2
<1>4. NameTypes'
  BY <1>1, <1>3, SocketsReplaced DEF NameTypes, LoopPlaces
<1> QED BY <1>1, <1>3, <1>4 DEF NameInv

LEMMA FinishStep ==
  ASSUME NameTypes, NameInv, FinishAnnouncing
  PROVE  NameTypes' /\ NameInv'
<1>1. /\ loop.at = "Announcing" /\ \A r \in replies : ~r.older
      /\ loop' = [at |-> "Select", alias |-> NoAlias]
      /\ told' = [e \in endpoints |-> IF e \in Sockets THEN loop.alias ELSE told[e]]
      /\ endpoints' = endpoints /\ unbound' = unbound /\ replies' = replies
      /\ queue' = queue /\ alias' = alias /\ rename' = rename /\ overdue' = overdue
  BY DEF FinishAnnouncing, nameVars, peerVars
<1>2. NameTypes'
  BY <1>1 DEF NameTypes, LoopPlaces
<1>3. Sockets' = Sockets /\ Sockets \subseteq endpoints
  BY <1>1 DEF Sockets
<1>4. \A e \in Sockets : told'[e] = loop.alias
  BY <1>1, <1>3
<1>5. (Owed' <=> Owed) /\ (loop.alias = alias \/ Owed)
  BY <1>1 DEF Owed, NameInv
<1> QED BY <1>1, <1>2, <1>3, <1>4, <1>5 DEF NameInv

LEMMA HandleStep ==
  ASSUME NameTypes, NameInv, HandleAnnouncement
  PROVE  NameTypes' /\ NameInv'
<1>1. /\ loop.at = "Select" /\ loop' = loop
      /\ endpoints' = endpoints /\ unbound' = unbound /\ told' = told
      /\ queue' = queue /\ alias' = alias /\ rename' = rename /\ overdue' = overdue
  BY DEF HandleAnnouncement, nameVars, loopVars
<1>2. \A r \in replies' : r \in replies \/ \E e : r = [over |-> e, alias |-> alias, older |-> FALSE]
  BY DEF HandleAnnouncement
<1>3. NameTypes'
  <2>1. ASSUME NEW r \in replies'
        PROVE  /\ r = [over |-> r.over, alias |-> r.alias, older |-> r.older]
               /\ r.older \in BOOLEAN
    <3>1. CASE r \in replies
      BY <3>1 DEF NameTypes
    <3>2. ASSUME NEW e, r = [over |-> e, alias |-> alias, older |-> FALSE]
          PROVE  /\ r = [over |-> r.over, alias |-> r.alias, older |-> r.older]
                 /\ r.older \in BOOLEAN
      BY <3>2
    <3> QED BY <1>2, <3>1, <3>2
  <2> QED BY <1>1, <2>1 DEF NameTypes
<1>4. (Owed' <=> Owed) /\ Sockets' = Sockets
  BY <1>1 DEF Owed, Sockets
<1> QED BY <1>1, <1>2, <1>3, <1>4 DEF NameInv

LEMMA ReplyStep ==
  ASSUME NameTypes, NameInv, NEW r \in replies, FinishReply(r)
  PROVE  NameTypes' /\ NameInv'
<1>1. /\ replies' = replies \ {r} /\ loop' = loop
      /\ endpoints' = endpoints /\ unbound' = unbound
      /\ told' = IF r.over \in endpoints THEN [told EXCEPT ![r.over] = r.alias] ELSE told
      /\ queue' = queue /\ alias' = alias /\ rename' = rename /\ overdue' = overdue
  BY DEF FinishReply, nameVars, loopVars
<1>2. NameTypes'
  BY <1>1 DEF NameTypes
<1>3. (Owed' <=> Owed) /\ Sockets' = Sockets /\ Sockets \subseteq endpoints
  BY <1>1 DEF Owed, Sockets
<1>4. ASSUME loop.at = "Select", ~Owed, NEW e \in Sockets
      PROVE  told'[e] = alias
  <2>1. told[e] = alias /\ r.alias = alias
    BY <1>4 DEF NameInv
  <2>2. told'[e] \in {told[e], r.alias}
    BY <1>1, <1>3 DEF NameTypes
  <2> QED BY <2>1, <2>2
<1> QED BY <1>1, <1>2, <1>3, <1>4 DEF NameInv

\* A renaming is owed an announcement from its first step to its last.
LEMMA RenameStep ==
  ASSUME NameTypes, NameInv, (\E a \in Alias : Rename(a)) \/ AnnounceName \/ DropRename
  PROVE  NameTypes' /\ NameInv'
<1>1. /\ loop' = loop /\ replies' = replies /\ endpoints' = endpoints /\ unbound' = unbound
      /\ told' = told
  BY DEF Rename, AnnounceName, DropRename, loopVars, peerVars
<1>2. queue' \in Seq(Command) /\ alias' \in Alias
  <2>1. ASSUME NEW a \in Alias, Rename(a) PROVE queue' \in Seq(Command) /\ alias' \in Alias
    BY <2>1 DEF Rename, NameTypes
  <2>2. CASE AnnounceName
    BY <2>2, QueueKept DEF AnnounceName, NameTypes
  <2>3. CASE DropRename
    BY <2>3 DEF DropRename, NameTypes
  <2> QED BY <2>1, <2>2, <2>3
<1>3. loop.at # "Stopped" => Owed'
  BY QueueKept DEF Rename, AnnounceName, DropRename, Owed
<1>4. NameTypes'
  BY <1>1, <1>2 DEF NameTypes
<1> QED BY <1>1, <1>3, <1>4 DEF NameInv

\* Steps that name, sockets and answers do not notice; a command may be added.
LEMMA OtherStep ==
  ASSUME NameTypes, NameInv, UNCHANGED <<alias, rename, overdue, loop, replies, endpoints, unbound, told>>,
         queue' \in Seq(Command), queue # << >> => queue' # << >>
  PROVE  NameTypes' /\ NameInv'
<1>1. NameTypes'
  BY DEF NameTypes
<1>2. (Owed => Owed') /\ Sockets' = Sockets
  BY DEF Owed, Sockets
<1> QED BY <1>1, <1>2 DEF NameInv

LEMMA NameStep == NameTypes /\ NameInv /\ [Next]_vars => NameTypes' /\ NameInv'
<1> SUFFICES ASSUME NameTypes, NameInv, [Next]_vars PROVE NameTypes' /\ NameInv'
  OBVIOUS
<1> DEFINE Same == UNCHANGED <<alias, rename, overdue, loop, replies, endpoints, unbound, told>>
           More == queue' \in Seq(Command) /\ (queue # << >> => queue' # << >>)
<1>1. CASE LoopStep
  <2>1. CASE IntervalTick \/ RefreshTick
    <3>1. queue' \in Seq(Command)
      BY <2>1 DEF IntervalTick, RefreshTick, NameTypes
    <3> QED BY <2>1, <3>1, AnnouncingStep DEF IntervalTick, RefreshTick
  <2>2. CASE TakeAnnounce \/ TakeReconfigure
    <3>1. queue' \in Seq(Command)
      BY <2>2 DEF TakeAnnounce, TakeReconfigure, NameTypes
    <3> QED BY <2>2, <3>1, AnnouncingStep DEF TakeAnnounce, TakeReconfigure
  <2> QED BY <1>1, <2>1, <2>2, FinishStep, HandleStep DEF LoopStep, Tick
<1>2. CASE LoopStops
  <2>1. loop' = [loop EXCEPT !.at = "Stopped"] /\ queue' = << >>
        /\ UNCHANGED <<alias, replies, endpoints, told>>
    BY <1>2 DEF LoopStops, nameVars, peerVars
  <2> QED BY <2>1 DEF NameTypes, NameInv, LoopPlaces
<1>3. CASE PeerStep
  <2>1. ASSUME NEW p \in Peer, (\E e \in Endpoint, announce \in BOOLEAN : Receive(p, e, announce))
                               \/ ProbeDevice(p) \/ AgeDevice(p)
        PROVE  Same /\ More
    BY <2>1 DEF Receive, ProbeDevice, AgeDevice, nameVars, loopVars, NameTypes
  <2> QED BY <1>3, <2>1, ReplyStep, OtherStep DEF PeerStep
<1>4. ASSUME NEW i \in Interface, ChangeInterface(i) PROVE Same /\ More
  BY <1>4 DEF ChangeInterface, nameVars, loopVars, peerVars, NameTypes
<1>5. CASE HandlerStep
  <2>1. CASE Scan
    <3>1. Same
      BY <2>1 DEF Scan, nameVars, loopVars, peerVars
    <3>2. More
      BY <2>1, QueueKept DEF Scan
    <3> QED BY <3>1, <3>2, OtherStep
  <2>2. ASSUME NEW u \in Update, NEW selection \in Selection, BeginUpdate(u, selection)
        PROVE  Same /\ More
    BY <2>2 DEF BeginUpdate, nameVars, loopVars, peerVars, NameTypes
  <2>3. ASSUME NEW u \in Update, SaveNetworks(u) \/ SaveFails(u) \/ ApplyNetworks(u) \/ DropUpdate(u)
        PROVE  Same /\ More
    BY <2>3 DEF SaveNetworks, SaveFails, ApplyNetworks, DropUpdate, nameVars, loopVars, peerVars,
                NameTypes
  <2>4. ASSUME NEW u \in Update, QueueReconfigure(u) PROVE Same /\ More
    <3>1. Same
      BY <2>4 DEF QueueReconfigure, nameVars, loopVars, peerVars
    <3>2. queue' = queue \/ queue' = Append(queue, "Reconfigure")
      BY <2>4 DEF QueueReconfigure
    <3>3. More
      BY <3>2 DEF NameTypes, Command
    <3> QED BY <3>1, <3>3
  <2> QED BY <1>5, <2>1, <2>2, <2>3, <2>4, RenameStep, OtherStep DEF HandlerStep
<1>6. CASE UNCHANGED vars
  <2>1. Same /\ More
    BY <1>6 DEF vars, nameVars, loopVars, peerVars, NameTypes
  <2> QED BY <2>1, OtherStep
<1> QED BY <1>1, <1>2, <1>3, <1>4, <1>5, <1>6, OtherStep DEF Next

-----------------------------------------------------------------------------
(* Networks and their file.                                                 *)

Applying == {u \in Update : update[u].at = "Applying"}
UpdateTypes ==
  update \in [Update -> [at : {"Idle", "Saving", "Applying", "Queueing", "Done"},
                         wanted : Selection]]

\* The file has what is in effect, or what the one update that was saved will set;
\* when two updates were saved, the first to take effect is the overlap.
FileInv ==
  ~overlap =>
    /\ \A u, v \in Saving : u = v
    /\ Applying = {} => file = preferences
    /\ \A u \in Applying : Applying = {u} => file = update[u].wanted

LEMMA FileStep == UpdateTypes /\ FileInv /\ [Next]_vars => UpdateTypes' /\ FileInv'
<1> SUFFICES ASSUME UpdateTypes, FileInv, [Next]_vars PROVE UpdateTypes' /\ FileInv'
  OBVIOUS
<1> USE DEF UpdateTypes, FileInv, Applying, Saving
<1>1. CASE UNCHANGED networkVars
  BY <1>1 DEF networkVars
<1>2. ASSUME NEW u \in Update, NEW selection \in Selection, BeginUpdate(u, selection)
      PROVE  UpdateTypes' /\ FileInv'
  BY <1>2 DEF BeginUpdate
<1>3. ASSUME NEW u \in Update, SaveNetworks(u) PROVE UpdateTypes' /\ FileInv'
  <2>1. /\ u \in Saving /\ update'[u].at = "Applying" /\ update'[u].wanted = update[u].wanted
        /\ \A v \in Update \ {u} : update'[v] = update[v]
        /\ preferences' = preferences /\ overlap' = overlap
        /\ ~overlap => file' = update[u].wanted
    BY <1>3 DEF SaveNetworks
  <2>2. UpdateTypes'
    BY <1>3 DEF SaveNetworks
  <2>3. FileInv'
    BY <2>1
  <2> QED BY <2>2, <2>3
<1>4. ASSUME NEW u \in Update, SaveFails(u) PROVE UpdateTypes' /\ FileInv'
  <2>1. /\ u \in Saving /\ update'[u].at = "Done"
        /\ \A v \in Update \ {u} : update'[v] = update[v]
        /\ preferences' = preferences /\ overlap' = overlap
        /\ ~overlap => file' = file
    BY <1>4 DEF SaveFails, Finished
  <2>2. UpdateTypes'
    BY <1>4, DiscoveryAssumption DEF SaveFails, Finished
  <2>3. FileInv'
    BY <2>1
  <2> QED BY <2>2, <2>3
<1>5. ASSUME NEW u \in Update, ApplyNetworks(u) PROVE UpdateTypes' /\ FileInv'
  <2>1. /\ u \in Applying /\ update'[u].at = "Queueing"
        /\ \A v \in Update \ {u} : update'[v] = update[v]
        /\ preferences' = update[u].wanted /\ file' = file
        /\ ~overlap' => ~overlap /\ Applying = {u}
    BY <1>5 DEF ApplyNetworks
  <2>2. UpdateTypes'
    BY <1>5 DEF ApplyNetworks
  <2>3. ~overlap' => Applying' = {} /\ Saving' = Saving /\ file' = preferences'
    BY <2>1
  <2>4. FileInv'
    BY <2>1, <2>3
  <2> QED BY <2>2, <2>4
<1>6. ASSUME NEW u \in Update, QueueReconfigure(u) \/ DropUpdate(u) PROVE UpdateTypes' /\ FileInv'
  <2>1. CASE QueueReconfigure(u)
    BY <2>1, DiscoveryAssumption DEF QueueReconfigure, Finished
  <2>2. CASE DropUpdate(u)
    BY <2>2, DiscoveryAssumption DEF DropUpdate, Finished
  <2> QED BY <1>6, <2>1, <2>2
<1>7. CASE LoopStep \/ LoopStops
  BY <1>1, <1>7 DEF LoopStep, Tick, IntervalTick, RefreshTick, TakeAnnounce, TakeReconfigure,
                    FinishAnnouncing, HandleAnnouncement, LoopStops
<1>8. CASE PeerStep
  BY <1>1, <1>8 DEF PeerStep, Receive, ProbeDevice, AgeDevice, FinishReply
<1>9. CASE Scan \/ AnnounceName \/ DropRename \/ \E a \in Alias : Rename(a)
  BY <1>1, <1>9 DEF Scan, AnnounceName, DropRename, Rename
<1>10. ASSUME NEW i \in Interface, ChangeInterface(i) PROVE UpdateTypes' /\ FileInv'
  BY <1>1, <1>10 DEF ChangeInterface
<1>11. CASE UNCHANGED vars
  BY <1>1, <1>11 DEF vars
<1> QED BY <1>2, <1>3, <1>4, <1>5, <1>6, <1>7, <1>8, <1>9, <1>10, <1>11 DEF Next, HandlerStep

-----------------------------------------------------------------------------
(* The plan in the states of the loop.                                      *)

HostTypes == host \in Hardware /\ up \subseteq Interface /\ preferences \in Selection

LEMMA PlanOfHost ==
  ASSUME HostTypes
  PROVE  /\ Known(host, up)
         /\ PlanNow = DiscoveryPlan(host, up, preferences)
         /\ PlanNow.endpoints \subseteq Endpoint
<1> DEFINE usable == {i \in up : HasUsableAddress(host[i])}
<1>1. Known(host, up)
  BY DiscoveryAssumption, FS_Subset DEF HostTypes, Known
<1>2. PlanNow = DiscoveryPlan(host, up, preferences)
  BY DEF HostTypes, PlanNow, Plans
<1>3. PassFacts(host, preferences, usable, PlanNow)
  BY <1>1, <1>2, PlanOfAnyHost
<1>4. ASSUME NEW e \in PlanNow.endpoints PROVE e \in Endpoint
  <2>1. PICK i \in usable : e \in EndpointsOf(i, host[i])
    BY <1>3 DEF PassFacts, Used
  <2>2. i \in Interface
    BY DEF HostTypes
  <2> QED BY <2>1, <2>2 DEF Endpoint
<1> QED BY <1>1, <1>2, <1>4

LEMMA PlanSoundness == HostTypes => PlanIsSound
<1> SUFFICES ASSUME HostTypes PROVE PlanIsSound
  OBVIOUS
<1> DEFINE plan == PlanNow
           active == ActiveInterfaces(plan)
           present == {i \in up : HasUsableAddress(host[i]) /\ Includes(preferences, i)}
           physical == {i \in present : IsPhysical(host[i])}
           usable == {i \in up : HasUsableAddress(host[i])}
           claimants == Claimants(host, preferences, usable)
           keys(i) == NetworkKeys(host[i])
           Reaching(key, i) ==
             {j \in physical \ {i} : key \in keys(j) /\ Before(host, j, i)}
           Redundant(i) ==
             keys(i) # {} /\ \A key \in keys(i) : Reaching(key, i) # {}
<1>1. /\ PassFacts(host, preferences, usable, plan)
      /\ active = {i \in Used(preferences, usable) \ plan.covered : DiscoveryCapable(host[i])}
  BY PlanOfHost, PlanOfAnyHost
<1>2. Used(preferences, usable) = present
  BY DEF Used
<1>3. claimants = IF preferences.mode = "All" THEN physical ELSE {}
  BY <1>2 DEF Claimants, Deduplicated
<1>4. \A i \in present : ~Before(host, i, i)
  BY PlanOfHost, BeforeIsOrder
<1>5. /\ plan.covered =
           {i \in claimants : keys(i) # {} /\ \A key \in keys(i) :
              \E j \in claimants : key \in keys(j) /\ Before(host, j, i)}
      /\ \A i \in claimants : \A key \in keys(i) :
           \E j \in claimants \ plan.covered :
             key \in keys(j) /\ (j = i \/ Before(host, j, i))
  BY <1>1 DEF PassFacts, Preceded
<1>6. physical \subseteq present
  OBVIOUS
<1>7. PlanIsSound <=>
        /\ \A i \in present : DiscoveryCapable(host[i]) =>
             (i \notin active <=> preferences.mode = "All" /\ i \in physical /\ Redundant(i))
        /\ \A i \in plan.covered : \A key \in keys(i) :
             \E j \in Reaching(key, i) \ plan.covered :
               j \in active \/ ~DiscoveryCapable(host[j])
  BY DEF PlanIsSound
<1> HIDE DEF plan, active, present, physical, usable, claimants, keys
<1>8. ASSUME NEW i \in present, DiscoveryCapable(host[i])
      PROVE  i \notin active <=> preferences.mode = "All" /\ i \in physical /\ Redundant(i)
  <2>1. i \notin active <=> i \in plan.covered
    BY <1>1, <1>2, <1>8
  <2>2. i \in plan.covered <=> i \in claimants /\ keys(i) # {} /\ \A key \in keys(i) :
          \E j \in claimants : key \in keys(j) /\ Before(host, j, i)
    BY <1>5
  <2>3. CASE preferences.mode = "All"
    <3>1. claimants = physical
      BY <1>3, <2>3
    <3>2. ASSUME NEW key
          PROVE  Reaching(key, i) # {} <=>
                   \E j \in physical : key \in keys(j) /\ Before(host, j, i)
      BY <1>4
    <3> QED BY <2>1, <2>2, <2>3, <3>1, <3>2
  <2>4. CASE preferences.mode # "All"
    BY <1>3, <2>1, <2>2, <2>4
  <2> QED BY <2>3, <2>4
<1>9. ASSUME NEW i \in plan.covered, NEW key \in keys(i)
      PROVE  \E j \in Reaching(key, i) \ plan.covered :
               j \in active \/ ~DiscoveryCapable(host[j])
  <2>1. i \in claimants /\ claimants \subseteq physical
    BY <1>3, <1>5
  <2>2. PICK j \in claimants \ plan.covered :
          key \in keys(j) /\ (j = i \/ Before(host, j, i))
    BY <1>5, <2>1
  <2>3. j # i /\ j \in present
    BY <1>6, <2>1, <2>2
  <2>4. j \in Reaching(key, i) \ plan.covered
    BY <2>1, <2>2, <2>3
  <2>5. j \in active \/ ~DiscoveryCapable(host[j])
    BY <1>1, <1>2, <2>2, <2>3
  <2> QED BY <2>4, <2>5
<1> QED BY <1>7, <1>8, <1>9

-----------------------------------------------------------------------------
(* Types.                                                                   *)

LEMMA ReplaceTypes ==
  ASSUME DiscoveryTypeOK, ReplaceSockets \/ RefreshSockets, UNCHANGED host
  PROVE  /\ unbound' \subseteq endpoints' /\ endpoints' \subseteq Endpoint'
         /\ told' \in [endpoints' -> Alias \union {NoAlias}]
<1>1. Endpoint' = Endpoint
  BY DEF Endpoint
<1>2. CASE ReplaceSockets
  <2>1. endpoints' \subseteq Endpoint
    BY <1>2, PlanOfHost DEF ReplaceSockets, DiscoveryTypeOK, HostTypes
  <2>2. unbound' \subseteq endpoints'
    BY <1>2 DEF ReplaceSockets, Failing
  <2>3. told' \in [endpoints' -> Alias \union {NoAlias}]
    <3>1. \A e \in endpoints : told[e] \in Alias \union {NoAlias}
      BY DEF DiscoveryTypeOK
    <3>2. told' = [e \in endpoints' |-> IF e \in endpoints THEN told[e] ELSE NoAlias]
      BY <1>2 DEF ReplaceSockets
    <3> QED BY <3>1, <3>2
  <2> QED BY <1>1, <2>1, <2>2, <2>3
<1>3. CASE UNCHANGED <<endpoints, unbound, told>>
  BY <1>1, <1>3 DEF DiscoveryTypeOK
<1> QED BY <1>2, <1>3 DEF RefreshSockets

LEMMA AnnounceTypes ==
  ASSUME DiscoveryTypeOK, StartAnnouncing, Endpoint' = Endpoint
  PROVE  /\ loop' \in [at : LoopPlaces, alias : Alias \union {NoAlias}]
         /\ replies' \subseteq Reply'
         /\ overdue' \in BOOLEAN
<1>1. \A r \in replies : r \in Reply
  BY DEF DiscoveryTypeOK
<1>2. \A r \in Reply : [r EXCEPT !.older = TRUE] \in Reply
  BY DEF Reply
<1>3. Reply' = Reply
  BY DEF Reply
<1>4. replies' \subseteq Reply'
  BY <1>1, <1>2, <1>3 DEF StartAnnouncing
<1> QED BY <1>4 DEF StartAnnouncing, DiscoveryTypeOK, LoopPlaces

LEMMA ScanTypes ==
  ASSUME queue \in Seq(Command), Len(queue) <= ScanCap, QueueScan
  PROVE  queue' \in Seq(Command) /\ Len(queue') <= ScanCap
<1>1. ScanCap \in Nat
  BY DiscoveryAssumption
<1>2. CASE queue' = queue
  BY <1>2
<1>3. CASE Len(queue) < ScanCap /\ queue' = Append(queue, "Announce")
  BY <1>1, <1>3 DEF Command
<1> QED BY <1>2, <1>3 DEF QueueScan

LEMMA TakeTypes ==
  ASSUME queue \in Seq(Command), Len(queue) <= ScanCap, queue # << >>, queue' = Tail(queue)
  PROVE  queue' \in Seq(Command) /\ Len(queue') <= ScanCap
BY DiscoveryAssumption

LEMMA LoopTypes == DiscoveryTypeOK /\ (LoopStep \/ LoopStops) => DiscoveryTypeOK'
<1> SUFFICES ASSUME DiscoveryTypeOK, LoopStep \/ LoopStops PROVE DiscoveryTypeOK'
  OBVIOUS
<1>0. /\ host' = host /\ up' = up /\ preferences' = preferences /\ file' = file
      /\ update' = update /\ overlap' = overlap /\ alias' = alias /\ rename' = rename
      /\ budget' = budget
  BY DEF LoopStep, LoopStops, Tick, IntervalTick, RefreshTick, TakeAnnounce, TakeReconfigure,
         FinishAnnouncing, HandleAnnouncement, networkVars, nameVars
<1>a. Endpoint' = Endpoint
  BY <1>0 DEF Endpoint
<1>b. Reply' = Reply /\ Datagram' = Datagram
  BY <1>a DEF Reply, Datagram
<1>1. CASE IntervalTick \/ RefreshTick \/ TakeAnnounce \/ TakeReconfigure
  <2>1. /\ ReplaceSockets \/ RefreshSockets
        /\ StartAnnouncing
        /\ inbox' = inbox /\ devices' = devices
        /\ queue' = queue \/ (queue # << >> /\ queue' = Tail(queue))
    BY <1>1 DEF IntervalTick, RefreshTick, TakeAnnounce, TakeReconfigure
  <2>2. queue' \in Seq(Command) /\ Len(queue') <= ScanCap
    BY <2>1, TakeTypes DEF DiscoveryTypeOK
  <2>3. inbox' \in Seq(Datagram') /\ Len(inbox') <= InboxCap
    BY <1>b, <2>1 DEF DiscoveryTypeOK
  <2>4. /\ unbound' \subseteq endpoints' /\ endpoints' \subseteq Endpoint'
        /\ told' \in [endpoints' -> Alias \union {NoAlias}]
    BY <1>0, <2>1, ReplaceTypes
  <2>5. /\ loop' \in [at : LoopPlaces, alias : Alias \union {NoAlias}]
        /\ replies' \subseteq Reply' /\ overdue' \in BOOLEAN
    BY <1>a, <2>1, AnnounceTypes
  <2> QED BY <1>0, <2>1, <2>2, <2>3, <2>4, <2>5 DEF DiscoveryTypeOK, LoopPlaces
<1>2. CASE FinishAnnouncing
  <2>1. /\ endpoints' = endpoints /\ unbound' = unbound /\ overdue' = overdue
        /\ queue' = queue /\ replies' = replies /\ inbox' = inbox /\ devices' = devices
        /\ loop' = [at |-> "Select", alias |-> NoAlias]
        /\ told' = [e \in endpoints |-> IF e \in Sockets THEN loop.alias ELSE told[e]]
    BY <1>2 DEF FinishAnnouncing, nameVars, peerVars
  <2>2. told' \in [endpoints -> Alias \union {NoAlias}]
    <3>1. /\ \A e \in endpoints : told[e] \in Alias \union {NoAlias}
          /\ loop.alias \in Alias \union {NoAlias}
      BY DEF DiscoveryTypeOK
    <3> QED BY <2>1, <3>1
  <2>3. loop' \in [at : {"Select", "Announcing", "Stopped"}, alias : Alias \union {NoAlias}]
    BY <2>1
  <2> QED BY <1>0, <1>a, <1>b, <2>1, <2>2, <2>3 DEF DiscoveryTypeOK
<1>3. CASE HandleAnnouncement
  <2>1. /\ endpoints' = endpoints /\ unbound' = unbound /\ overdue' = overdue
        /\ queue' = queue /\ loop' = loop /\ told' = told
        /\ inbox # << >> /\ inbox' = Tail(inbox)
        /\ devices' = [devices EXCEPT ![Head(inbox).from] = "Recent"]
    BY <1>3 DEF HandleAnnouncement, nameVars, loopVars
  <2>2. inbox' \in Seq(Datagram') /\ Len(inbox') <= InboxCap
    BY <1>b, <2>1, DiscoveryAssumption DEF DiscoveryTypeOK
  <2>3. devices' \in [Peer -> Age]
    BY <2>1 DEF DiscoveryTypeOK, Age
  <2>4. replies' \subseteq Reply'
    <3>1. \A r \in replies' : r \in replies \/ \E e \in Sockets :
             r = [over |-> e, alias |-> alias, older |-> FALSE]
      BY <1>3 DEF HandleAnnouncement
    <3>2. \A e \in Sockets : [over |-> e, alias |-> alias, older |-> FALSE] \in Reply
      BY DEF Sockets, DiscoveryTypeOK, Reply
    <3> QED BY <1>b, <3>1, <3>2 DEF DiscoveryTypeOK
  <2> QED BY <1>0, <1>a, <2>1, <2>2, <2>3, <2>4 DEF DiscoveryTypeOK
<1>4. CASE LoopStops
  <2>1. /\ endpoints' = endpoints /\ unbound' = unbound /\ overdue' = overdue
        /\ queue' = << >> /\ told' = told
        /\ replies' = replies /\ inbox' = inbox /\ devices' = devices
        /\ loop' = [loop EXCEPT !.at = "Stopped"]
    BY <1>4 DEF LoopStops, nameVars, peerVars
  <2>2. queue' \in Seq(Command) /\ Len(queue') <= ScanCap
    BY <2>1, DiscoveryAssumption
  <2>3. loop' \in [at : {"Select", "Announcing", "Stopped"}, alias : Alias \union {NoAlias}]
    BY <2>1 DEF DiscoveryTypeOK
  <2> QED BY <1>0, <1>a, <1>b, <2>1, <2>2, <2>3 DEF DiscoveryTypeOK
<1> QED BY <1>1, <1>2, <1>3, <1>4 DEF LoopStep, Tick

LEMMA PeerTypes ==
  ASSUME DiscoveryTypeOK, PeerStep \/ \E i \in Interface : ChangeInterface(i)
  PROVE  DiscoveryTypeOK'
<1>0. /\ host' = host /\ preferences' = preferences /\ file' = file
      /\ update' = update /\ overlap' = overlap /\ alias' = alias /\ rename' = rename
      /\ overdue' = overdue /\ queue' = queue
      /\ endpoints' = endpoints /\ unbound' = unbound /\ loop' = loop
  BY DEF PeerStep, ChangeInterface, Receive, ProbeDevice, AgeDevice, FinishReply,
         networkVars, nameVars, loopVars
<1>a. Endpoint' = Endpoint
  BY <1>0 DEF Endpoint
<1>b. Reply' = Reply /\ Datagram' = Datagram
  BY <1>a DEF Reply, Datagram
<1>1. ASSUME NEW p \in Peer, NEW e \in Endpoint, NEW announce \in BOOLEAN, Receive(p, e, announce)
      PROVE  DiscoveryTypeOK'
  <2>1. /\ up' = up /\ replies' = replies /\ devices' = devices /\ told' = told
        /\ Len(inbox) < InboxCap /\ budget > 0 /\ budget' = budget - 1
        /\ inbox' = Append(inbox, [from |-> p, over |-> e, announce |-> announce])
    BY <1>1 DEF Receive
  <2>2. [from |-> p, over |-> e, announce |-> announce] \in Datagram
    BY DEF Datagram
  <2>3. inbox' \in Seq(Datagram') /\ Len(inbox') <= InboxCap
    BY <1>b, <2>1, <2>2, DiscoveryAssumption DEF DiscoveryTypeOK
  <2>4. budget' \in 0..MaxEvents
    BY <2>1, DiscoveryAssumption DEF DiscoveryTypeOK
  <2> QED BY <1>0, <1>a, <1>b, <2>1, <2>3, <2>4 DEF DiscoveryTypeOK
<1>2. ASSUME NEW p \in Peer, ProbeDevice(p) \/ AgeDevice(p) PROVE DiscoveryTypeOK'
  <2>1. /\ up' = up /\ replies' = replies /\ told' = told /\ inbox' = inbox /\ budget' = budget
        /\ devices' \in [Peer -> Age]
    BY <1>2 DEF ProbeDevice, AgeDevice, DiscoveryTypeOK, Age
  <2> QED BY <1>0, <1>a, <1>b, <2>1 DEF DiscoveryTypeOK
<1>3. ASSUME NEW r \in replies, FinishReply(r) PROVE DiscoveryTypeOK'
  <2>1. /\ up' = up /\ inbox' = inbox /\ devices' = devices /\ budget' = budget
        /\ replies' = replies \ {r}
        /\ told' = IF r.over \in endpoints THEN [told EXCEPT ![r.over] = r.alias] ELSE told
    BY <1>3 DEF FinishReply
  <2>2. r.alias \in Alias
    BY DEF DiscoveryTypeOK, Reply
  <2>3. told' \in [endpoints -> Alias \union {NoAlias}]
    BY <2>1, <2>2 DEF DiscoveryTypeOK
  <2> QED BY <1>0, <1>a, <1>b, <2>1, <2>3 DEF DiscoveryTypeOK
<1>4. ASSUME NEW i \in Interface, ChangeInterface(i) PROVE DiscoveryTypeOK'
  <2>1. /\ replies' = replies /\ inbox' = inbox /\ devices' = devices /\ told' = told
        /\ up' \in {up \ {i}, up \union {i}} /\ budget > 0 /\ budget' = budget - 1
    BY <1>4 DEF ChangeInterface, peerVars
  <2>2. up' \subseteq Interface
    BY <2>1 DEF DiscoveryTypeOK
  <2>3. budget' \in 0..MaxEvents
    BY <2>1, DiscoveryAssumption DEF DiscoveryTypeOK
  <2> QED BY <1>0, <1>a, <1>b, <2>1, <2>2, <2>3 DEF DiscoveryTypeOK
<1> QED BY <1>1, <1>2, <1>3, <1>4 DEF PeerStep

LEMMA HandlerTypes ==
  ASSUME DiscoveryTypeOK, HandlerStep
  PROVE  DiscoveryTypeOK'
<1>0. /\ host' = host /\ up' = up /\ endpoints' = endpoints /\ unbound' = unbound
      /\ loop' = loop /\ replies' = replies /\ inbox' = inbox /\ devices' = devices
      /\ told' = told
  BY DEF HandlerStep, Scan, AnnounceName, DropRename, Rename, BeginUpdate, SaveNetworks,
         SaveFails, ApplyNetworks, QueueReconfigure, DropUpdate, loopVars, peerVars
<1>a. Endpoint' = Endpoint
  BY <1>0 DEF Endpoint
<1>b. Reply' = Reply /\ Datagram' = Datagram
  BY <1>a DEF Reply, Datagram
<1> DEFINE Names == /\ alias' \in Alias /\ rename' \in {"Idle", "Updating"}
                    /\ overdue' \in BOOLEAN /\ budget' \in 0..MaxEvents
           Queue == queue' \in Seq(Command) /\ Len(queue') <= ScanCap
           Updated == /\ preferences' \in Selection /\ file' \in Selection \union {Torn}
                      /\ update' \in [Update -> [at : {"Idle", "Saving", "Applying", "Queueing", "Done"},
                                                 wanted : Selection]]
                      /\ overlap' \in BOOLEAN
<1>1. Names /\ Queue /\ Updated => DiscoveryTypeOK'
  BY <1>0, <1>a, <1>b DEF DiscoveryTypeOK
<1>2. UNCHANGED networkVars => Updated
  BY DEF networkVars, DiscoveryTypeOK
<1>3. UNCHANGED <<nameVars, budget>> => Names
  BY DEF nameVars, DiscoveryTypeOK
<1>4. UNCHANGED queue \/ QueueScan => Queue
  BY ScanTypes DEF DiscoveryTypeOK
<1>5. CASE Scan
  <2>1. Names /\ Queue /\ Updated
    BY <1>2, <1>3, <1>4, <1>5, Zenon DEF Scan
  <2> QED BY <1>1, <2>1
<1>6. CASE AnnounceName \/ DropRename \/ \E a \in Alias : Rename(a)
  <2>1. /\ UNCHANGED networkVars
        /\ alias' \in Alias /\ rename' \in {"Idle", "Updating"} /\ overdue' \in BOOLEAN
    BY <1>6 DEF AnnounceName, DropRename, Rename, DiscoveryTypeOK
  <2>2. budget' = budget \/ (budget > 0 /\ budget' = budget - 1)
    BY <1>6 DEF AnnounceName, DropRename, Rename
  <2>3. budget' \in 0..MaxEvents
    BY <2>2, DiscoveryAssumption DEF DiscoveryTypeOK
  <2>4. UNCHANGED queue \/ QueueScan
    BY <1>6 DEF AnnounceName, DropRename, Rename
  <2> QED BY <1>1, <1>2, <1>4, <2>1, <2>3, <2>4
<1>7. ASSUME NEW u \in Update, NEW selection \in Selection, BeginUpdate(u, selection)
      PROVE  DiscoveryTypeOK'
  <2>1. Updated
    BY <1>7 DEF BeginUpdate, DiscoveryTypeOK
  <2>2. Names /\ Queue
    BY <1>3, <1>4, <1>7 DEF BeginUpdate
  <2> QED BY <1>1, <2>1, <2>2
<1>8. ASSUME NEW u \in Update, SaveNetworks(u) PROVE DiscoveryTypeOK'
  <2>1. \A v \in Update : update[v].wanted \in Selection
    BY DEF DiscoveryTypeOK
  <2>2. file' \in Selection \union {Torn}
    BY <1>8, <2>1 DEF SaveNetworks, DiscoveryTypeOK
  <2>3. Updated
    BY <1>8, <2>2 DEF SaveNetworks, DiscoveryTypeOK
  <2>4. Names /\ Queue
    BY <1>3, <1>4, <1>8 DEF SaveNetworks
  <2> QED BY <1>1, <2>3, <2>4
<1>9. Finished \in [at : {"Idle", "Saving", "Applying", "Queueing", "Done"}, wanted : Selection]
  BY DiscoveryAssumption DEF Finished
<1>10. ASSUME NEW u \in Update, SaveFails(u) PROVE DiscoveryTypeOK'
  <2>1. Updated
    BY <1>9, <1>10 DEF SaveFails, DiscoveryTypeOK
  <2>2. Names /\ Queue
    BY <1>3, <1>4, <1>10 DEF SaveFails
  <2> QED BY <1>1, <2>1, <2>2
<1>11. ASSUME NEW u \in Update, ApplyNetworks(u) PROVE DiscoveryTypeOK'
  <2>1. update[u].wanted \in Selection
    BY DEF DiscoveryTypeOK
  <2>2. Updated
    BY <1>11, <2>1 DEF ApplyNetworks, DiscoveryTypeOK
  <2>3. Names /\ Queue
    BY <1>3, <1>4, <1>11 DEF ApplyNetworks
  <2> QED BY <1>1, <2>2, <2>3
<1>12. ASSUME NEW u \in Update, QueueReconfigure(u) PROVE DiscoveryTypeOK'
  <2>1. queue' = queue \/ (Len(queue) < ScanCap /\ queue' = Append(queue, "Reconfigure"))
    BY <1>12 DEF QueueReconfigure
  <2>2. queue \in Seq(Command) /\ Len(queue) <= ScanCap /\ "Reconfigure" \in Command
    BY DEF DiscoveryTypeOK, Command
  <2>3. Queue
    <3>1. ScanCap \in Nat
      BY DiscoveryAssumption
    <3> QED BY <2>1, <2>2, <3>1
  <2>4. Updated
    BY <1>9, <1>12 DEF QueueReconfigure, DiscoveryTypeOK
  <2>5. Names
    BY <1>3, <1>12 DEF QueueReconfigure
  <2> QED BY <1>1, <2>3, <2>4, <2>5
<1>13. ASSUME NEW u \in Update, DropUpdate(u) PROVE DiscoveryTypeOK'
  <2>1. update[u].wanted \in Selection
    BY DEF DiscoveryTypeOK
  <2>2. Updated
    BY <1>9, <1>13, <2>1 DEF DropUpdate, DiscoveryTypeOK
  <2>3. Names /\ Queue
    BY <1>3, <1>4, <1>13 DEF DropUpdate
  <2> QED BY <1>1, <2>2, <2>3
<1> QED BY <1>5, <1>6, <1>7, <1>8, <1>10, <1>11, <1>12, <1>13 DEF HandlerStep

-----------------------------------------------------------------------------
(* The theorems.                                                            *)

\* The strengthening of NameIsAnnounced: it is inductive.
THEOREM NameInvariant == Spec => [](NameTypes /\ NameInv)
<1>1. Init => NameTypes /\ NameInv
  BY DiscoveryAssumption DEF Init, NameTypes, NameInv, Owed, LoopPlaces
<1> QED BY <1>1, NameStep, PTL DEF Spec

\* Whatever is renamed, scanned, reconfigured, answered and dropped, and whatever the
\* plan and the sockets become, the last name sent is the current one, or an
\* announcement of it is under way or owed.
THEOREM CurrentNameIsAnnounced == Spec => []NameIsAnnounced
<1>1. NameTypes /\ NameInv => NameIsAnnounced
  BY DEF NameTypes, LoopPlaces, NameInv, Owed, NameIsAnnounced, AnnouncementDue
<1> QED BY <1>1, NameInvariant, PTL

\* For any number of concurrent updates: when none is under way, the file holds the
\* preferences in effect, unless two overlapped or one was dropped while it was saved.
THEOREM SavedNetworksAreInEffect == Spec => []SavedIsInEffect
<1>1. Init => UpdateTypes /\ FileInv
  BY DiscoveryAssumption DEF Init, UpdateTypes, FileInv, Applying, Saving
<1>2. FileInv => SavedIsInEffect
  BY DEF FileInv, Applying, SavedIsInEffect
<1> QED BY <1>1, <1>2, FileStep, PTL DEF Spec

\* The type invariant, for every instance: what the loop listens on is always among
\* the endpoints of the host, and both channels keep within their capacity.
THEOREM DiscoveryTypes == Spec => []DiscoveryTypeOK
<1>1. Init => DiscoveryTypeOK
  <2> SUFFICES ASSUME Init PROVE DiscoveryTypeOK
    OBVIOUS
  <2>1. HostTypes
    BY DiscoveryAssumption DEF Init, HostTypes
  <2>2. endpoints \subseteq Endpoint /\ unbound \subseteq endpoints
    BY <2>1, PlanOfHost DEF Init, Failing
  <2>3. update \in [Update -> [at : {"Idle", "Saving", "Applying", "Queueing", "Done"},
                              wanted : Selection]]
    BY DiscoveryAssumption DEF Init
  <2>4. /\ told \in [endpoints -> Alias \union {NoAlias}]
        /\ devices \in [Peer -> Age]
        /\ loop \in [at : {"Select", "Announcing", "Stopped"}, alias : Alias \union {NoAlias}]
    BY DEF Init, Age
  <2>5. queue \in Seq(Command) /\ Len(queue) <= ScanCap
        /\ inbox \in Seq(Datagram) /\ Len(inbox) <= InboxCap
    BY DiscoveryAssumption DEF Init
  <2>6. budget \in 0..MaxEvents /\ alias \in Alias
    BY DiscoveryAssumption DEF Init
  <2> QED BY <2>1, <2>2, <2>3, <2>4, <2>5, <2>6 DEF Init, HostTypes, DiscoveryTypeOK
<1>2. DiscoveryTypeOK /\ UNCHANGED vars => DiscoveryTypeOK'
  <2> SUFFICES ASSUME DiscoveryTypeOK, UNCHANGED vars PROVE DiscoveryTypeOK'
    OBVIOUS
  <2>1. Endpoint' = Endpoint
    BY DEF Endpoint, vars
  <2>2. Reply' = Reply /\ Datagram' = Datagram
    BY <2>1 DEF Reply, Datagram
  <2> QED BY <2>1, <2>2 DEF vars, networkVars, nameVars, loopVars, peerVars, DiscoveryTypeOK
<1>3. DiscoveryTypeOK /\ [Next]_vars => DiscoveryTypeOK'
  BY <1>2, LoopTypes, PeerTypes, HandlerTypes DEF Next
<1> QED BY <1>1, <1>3, PTL DEF Spec

\* On every host, whatever is up and selected: what the plan leaves out are physical
\* adapters in automatic mode whose networks preferred ones have claimed, all of them,
\* and each such network keeps an adapter that is used or cannot be.
THEOREM PlansAreSound == Spec => []PlanIsSound
<1>1. DiscoveryTypeOK => HostTypes
  BY DEF DiscoveryTypeOK, HostTypes
<1> QED BY <1>1, PlanSoundness, DiscoveryTypes, PTL
=============================================================================

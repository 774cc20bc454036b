------------------------------- MODULE Discovery -------------------------------
(***************************************************************************)
(* LocalSend discovery: the loop run_discovery of network.rs with its      *)
(* sockets and its answers, the command channel that feeds it, and the     *)
(* handlers that change what it announces and where (update_networks,      *)
(* scan, probe_device, and the part of update_settings that renames).      *)
(*                                                                         *)
(* An announcement is sent three times within 2.6 seconds; here it arrives *)
(* as a whole when those are over, and the loop is busy until then.        *)
(***************************************************************************)
EXTENDS Interfaces

CONSTANTS
  Interface,      \* interfaces, as numbers
  Hardware,       \* the hosts considered: records by interface
  Alias,          \* display names
  InitialAlias,   \* the one at the start
  Update,         \* update_networks requests
  Selection,      \* what they ask for
  Peer,           \* other devices
  ScanCap,        \* capacity of the command channel
  InboxCap,       \* capacity of the datagram channel
  MaxEvents,      \* bound on interfaces going down or up, new names, and datagrams
  Unreliable,     \* families whose sockets may fail to be bound
  EnumerationMayFail, \* may the host refuse to list its interfaces?
  NoAlias, Torn   \* nothing announced yet; a settings file that does not parse

ASSUME DiscoveryAssumption ==
  /\ InitialAlias \in Alias /\ NoAlias \notin Alias
  /\ AllInterfaces \in Selection /\ Torn \notin Selection
  /\ ScanCap \in Nat \ {0} /\ InboxCap \in Nat \ {0} /\ MaxEvents \in Nat
  /\ Interface \in SUBSET Nat /\ IsFiniteSet(Interface)
  /\ \A records \in Hardware : \A i \in Interface : records[i].kind \in Kind

VARIABLES
  host,         \* records of the interfaces, fixed for the host
  up,           \* interfaces that are operational
  preferences,  \* NetworkPreferences in memory
  file,         \* network-settings.json
  update,       \* [Update -> at, wanted]
  alias,        \* the name in discovery_devices
  rename,       \* where update_settings stands after it has set alias
  queue,        \* the command channel
  endpoints,    \* of the plan the loop follows
  unbound,      \* endpoints of it whose socket could not be bound
  loop,         \* at "Select", "Announcing" or "Stopped"; the name being announced
  replies,      \* answers being sent by tasks of their own
  inbox,        \* datagrams not yet handled
  devices,      \* how long ago a peer was seen
  told,         \* [endpoints -> name last sent over it]
  overdue,      \* history: a name was set and its announcement never queued
  overlap,      \* history: two updates saved, or one was dropped half-way
  budget        \* what the bound leaves

networkVars == <<preferences, file, update, overlap>>
loopVars == <<endpoints, unbound, loop>>
peerVars == <<replies, inbox, devices>>
nameVars == <<alias, rename, overdue>>
vars == <<host, up, networkVars, nameVars, queue, loopVars, peerVars, told, budget>>

Endpoint == UNION {EndpointsOf(i, host[i]) : i \in Interface}
Sockets == endpoints \ unbound

\* network_settings and selected_endpoints: the plan for a host, what is up and a selection.
Plans == [h \in Hardware |-> [set \in SUBSET Interface |-> [selection \in Selection |->
            DiscoveryPlan(h, set, selection)]]]
PlanNow == Plans[host][up][preferences]

Command == {"Announce", "Reconfigure"}
Age == {"Recent", "Older"}
Datagram == [from : Peer, over : Endpoint, announce : BOOLEAN]
Reply == [over : Endpoint, alias : Alias, older : BOOLEAN]

DiscoveryTypeOK ==
  /\ host \in Hardware /\ up \subseteq Interface
  /\ preferences \in Selection /\ file \in Selection \union {Torn}
  /\ update \in [Update -> [at : {"Idle", "Saving", "Applying", "Queueing", "Done"},
                            wanted : Selection]]
  /\ alias \in Alias /\ rename \in {"Idle", "Updating"}
  /\ queue \in Seq(Command) /\ Len(queue) <= ScanCap
  /\ unbound \subseteq endpoints /\ endpoints \subseteq Endpoint
  /\ loop \in [at : {"Select", "Announcing", "Stopped"}, alias : Alias \union {NoAlias}]
  /\ replies \subseteq Reply
  /\ inbox \in Seq(Datagram) /\ Len(inbox) <= InboxCap
  /\ devices \in [Peer -> Age]
  /\ told \in [endpoints -> Alias \union {NoAlias}]
  /\ overdue \in BOOLEAN /\ overlap \in BOOLEAN
  /\ budget \in 0..MaxEvents

\* Which of a set of endpoints cannot be bound.
Failing(set) == SUBSET {e \in set : FamilyOf(e) \in Unreliable}

Init ==
  /\ host \in Hardware
  /\ up = Interface
  /\ preferences = AllInterfaces /\ file = AllInterfaces
  /\ update = [u \in Update |-> [at |-> "Idle", wanted |-> AllInterfaces]]
  /\ alias = InitialAlias /\ rename = "Idle"
  /\ queue = << >>
  /\ endpoints = PlanNow.endpoints
  /\ unbound \in Failing(endpoints)
  /\ loop = [at |-> "Select", alias |-> NoAlias]
  /\ replies = {} /\ inbox = << >>
  /\ devices = [p \in Peer |-> "Older"]
  /\ told = [e \in endpoints |-> NoAlias]
  /\ overdue = TRUE             \* until the first tick
  /\ overlap = FALSE
  /\ budget = MaxEvents

-----------------------------------------------------------------------------
(* The host.                                                                *)

\* An interface goes down or comes back, with all its addresses.
ChangeInterface(i) ==
  /\ budget > 0
  /\ up' = IF i \in up THEN up \ {i} ELSE up \union {i}
  /\ budget' = budget - 1
  /\ UNCHANGED <<host, networkVars, nameVars, queue, loopVars, peerVars, told>>

-----------------------------------------------------------------------------
(* run_discovery: one action for each arm of select!, and the end of the    *)
(* announcement that an arm awaits.                                         *)

\* send_announcements begins: the name is read now, and is sent over the sockets
\* of now.  Answers that are already on their way are over before it is: they
\* wait for the same three delays.
StartAnnouncing ==
  /\ loop' = [at |-> "Announcing", alias |-> alias]
  /\ replies' = {[r EXCEPT !.older = TRUE] : r \in replies}
  /\ overdue' = FALSE

\* replace_sockets: the old sockets go, and what cannot be bound is left out.
ReplaceSockets ==
  /\ endpoints' = PlanNow.endpoints
  /\ unbound' \in Failing(endpoints')
  /\ told' = [e \in endpoints' |-> IF e \in endpoints THEN told[e] ELSE NoAlias]

\* Mutant of RefreshSockets: an endpoint that is gone does not count as a change.
RefreshForNewOnly ==
  IF ~(PlanNow.endpoints \subseteq endpoints) THEN ReplaceSockets
  ELSE UNCHANGED <<endpoints, unbound, told>>

\* refresh_sockets_if_needed
RefreshSockets ==
  IF PlanNow.endpoints # endpoints THEN ReplaceSockets
  ELSE UNCHANGED <<endpoints, unbound, told>>

IntervalTick ==
  /\ loop.at = "Select"
  /\ RefreshSockets
  /\ StartAnnouncing
  /\ UNCHANGED <<host, up, networkVars, alias, rename, queue, inbox, devices, budget>>

\* Mutant of RefreshTick: the new sockets are not announced over.
RefreshTickSilent ==
  /\ loop.at = "Select"
  /\ PlanNow.endpoints # endpoints
  /\ RefreshSockets
  /\ UNCHANGED <<host, up, networkVars, nameVars, queue, loop, peerVars, budget>>

RefreshTick ==
  /\ loop.at = "Select"
  /\ PlanNow.endpoints # endpoints
  /\ RefreshSockets
  /\ StartAnnouncing
  /\ UNCHANGED <<host, up, networkVars, alias, rename, queue, inbox, devices, budget>>

TakeAnnounce ==
  /\ loop.at = "Select"
  /\ queue # << >> /\ Head(queue) = "Announce"
  /\ queue' = Tail(queue)
  /\ RefreshSockets
  /\ StartAnnouncing
  /\ UNCHANGED <<host, up, networkVars, alias, rename, inbox, devices, budget>>

TakeReconfigure ==
  /\ loop.at = "Select"
  /\ queue # << >> /\ Head(queue) = "Reconfigure"
  /\ queue' = Tail(queue)
  /\ ReplaceSockets
  /\ StartAnnouncing
  /\ UNCHANGED <<host, up, networkVars, alias, rename, inbox, devices, budget>>

FinishAnnouncing ==
  /\ loop.at = "Announcing"
  /\ \A r \in replies : ~r.older
  /\ told' = [e \in endpoints |-> IF e \in Sockets THEN loop.alias ELSE told[e]]
  /\ loop' = [at |-> "Select", alias |-> NoAlias]
  /\ UNCHANGED <<host, up, networkVars, nameVars, queue, endpoints, unbound,
                 peerVars, budget>>

\* An arm that lists the interfaces fails: `?` ends the loop, and the channel closes.
LoopStops ==
  /\ EnumerationMayFail
  /\ loop.at = "Select"
  /\ loop' = [loop EXCEPT !.at = "Stopped"]
  /\ queue' = << >>
  /\ UNCHANGED <<host, up, networkVars, nameVars, endpoints, unbound, peerVars, told, budget>>

-----------------------------------------------------------------------------
(* Peers.                                                                   *)

\* A receive task forwards a datagram; it waits when the channel is full.
Receive(p, e, announce) ==
  /\ budget > 0
  /\ loop.at # "Stopped" /\ e \in Sockets
  /\ Len(inbox) < InboxCap
  /\ inbox' = Append(inbox, [from |-> p, over |-> e, announce |-> announce])
  /\ budget' = budget - 1
  /\ UNCHANGED <<host, up, networkVars, nameVars, queue, loopVars, replies, devices, told>>

\* handle_announcement.  A device seen less than a second ago is a duplicate;
\* an answer goes out over a socket of the interface and family it came by, if
\* there still is one: the datagram may come from a socket that was replaced.
HandleAnnouncement ==
  LET datagram == Head(inbox)
      matching == {e \in Sockets : NameOf(e) = NameOf(datagram.over)
                                   /\ FamilyOf(e) = FamilyOf(datagram.over)}
      repeated == devices[datagram.from] = "Recent"
  IN  /\ loop.at = "Select" /\ inbox # << >>
      /\ inbox' = Tail(inbox)
      /\ devices' = [devices EXCEPT ![datagram.from] = "Recent"]
      /\ IF datagram.announce /\ ~repeated /\ matching # {}
         THEN \E e \in matching :
                replies' = replies \union {[over |-> e, alias |-> alias, older |-> FALSE]}
         ELSE UNCHANGED replies
      /\ UNCHANGED <<host, up, networkVars, nameVars, queue, loopVars, told, budget>>

\* The task of an answer has sent it three times; it holds its socket until then.
FinishReply(r) ==
  /\ r \in replies
  /\ replies' = replies \ {r}
  /\ told' = IF r.over \in endpoints THEN [told EXCEPT ![r.over] = r.alias] ELSE told
  /\ UNCHANGED <<host, up, networkVars, nameVars, queue, loopVars, inbox, devices, budget>>

\* probe_device: an address the user entered answers over HTTP.
ProbeDevice(p) ==
  /\ devices' = [devices EXCEPT ![p] = "Recent"]
  /\ UNCHANGED <<host, up, networkVars, nameVars, queue, loopVars, replies, inbox, told, budget>>

\* One second after a device was seen.
AgeDevice(p) ==
  /\ devices[p] = "Recent"
  /\ devices' = [devices EXCEPT ![p] = "Older"]
  /\ UNCHANGED <<host, up, networkVars, nameVars, queue, loopVars, replies, inbox, told, budget>>

-----------------------------------------------------------------------------
(* The handlers of api.rs that the loop serves.                             *)

\* Mutant of QueueScan: a scan takes the place of what is queued.
QueueScanFirst == queue' = IF loop.at # "Stopped" THEN << >> ELSE queue

\* queue_discovery_scan: a full channel holds announcements enough.
QueueScan == queue' = IF Len(queue) < ScanCap /\ loop.at # "Stopped"
                      THEN Append(queue, "Announce") ELSE queue

Scan ==
  /\ Len(queue) < ScanCap /\ loop.at # "Stopped"
  /\ QueueScan
  /\ UNCHANGED <<host, up, networkVars, nameVars, loopVars, peerVars, told, budget>>

\* update_settings sets a new name, then awaits receiver_server.update_alias.
Rename(a) ==
  /\ budget > 0
  /\ rename = "Idle" /\ a # alias
  /\ alias' = a
  /\ rename' = "Updating"
  /\ budget' = budget - 1
  /\ UNCHANGED <<host, up, networkVars, overdue, queue, loopVars, peerVars, told>>

AnnounceName ==
  /\ rename = "Updating"
  /\ rename' = "Idle"
  /\ QueueScan
  /\ UNCHANGED <<host, up, networkVars, alias, overdue, loopVars, peerVars, told, budget>>

\* The connection closes at that await: nothing is queued.
DropRename ==
  /\ rename = "Updating"
  /\ rename' = "Idle"
  /\ overdue' = TRUE
  /\ UNCHANGED <<host, up, networkVars, alias, queue, loopVars, peerVars, told, budget>>

\* update_networks accepts a selection of capable interfaces only.
Selectable == {i \in up : HasUsableAddress(host[i]) /\ DiscoveryCapable(host[i])}
Valid(selection) ==
  selection.mode = "Selected" =>
    selection.interfaces # {} /\ selection.interfaces \subseteq Selectable

Finished == [at |-> "Done", wanted |-> AllInterfaces]
Saving == {u \in Update : update[u].at = "Saving"}

BeginUpdate(u, selection) ==
  /\ update[u].at = "Idle" /\ Valid(selection)
  /\ update' = [update EXCEPT ![u] = [at |-> "Saving", wanted |-> selection]]
  /\ overlap' = (overlap \/ Saving # {})
  /\ UNCHANGED <<host, up, preferences, file, nameVars, queue, loopVars, peerVars, told, budget>>

\* save_preferences writes network-settings.json.tmp and renames it.  Every request
\* uses that one name: two that overlap may leave either content, or a mixture.
SaveNetworks(u) ==
  /\ update[u].at = "Saving"
  /\ file' \in IF overlap THEN {update[v].wanted : v \in Update} \union {file, Torn}
               ELSE {update[u].wanted}
  /\ update' = [update EXCEPT ![u].at = "Applying"]
  /\ UNCHANGED <<host, up, preferences, nameVars, queue, loopVars, peerVars, told,
                 overlap, budget>>

\* Mutant of SaveFails: the error is not looked at.
SaveFailsUnseen(u) ==
  /\ update[u].at = "Saving"
  /\ update' = [update EXCEPT ![u].at = "Applying"]
  /\ UNCHANGED <<host, up, preferences, file, nameVars, queue, loopVars, peerVars, told,
                 overlap, budget>>

\* The file cannot be written or renamed.
SaveFails(u) ==
  /\ update[u].at = "Saving"
  /\ update' = [update EXCEPT ![u] = Finished]
  /\ UNCHANGED <<host, up, preferences, file, nameVars, queue, loopVars, peerVars, told,
                 overlap, budget>>

ApplyNetworks(u) ==
  /\ update[u].at = "Applying"
  /\ preferences' = update[u].wanted
  /\ update' = [update EXCEPT ![u].at = "Queueing"]
  /\ overlap' = (overlap \/ \E v \in Update \ {u} : update[v].at = "Applying")
  /\ UNCHANGED <<host, up, file, nameVars, queue, loopVars, peerVars, told, budget>>

\* Waits for room in the channel; an error when the loop has stopped.
QueueReconfigure(u) ==
  /\ update[u].at = "Queueing"
  /\ \/ loop.at = "Stopped" /\ UNCHANGED queue
     \/ loop.at # "Stopped" /\ Len(queue) < ScanCap /\ queue' = Append(queue, "Reconfigure")
  /\ update' = [update EXCEPT ![u] = Finished]
  /\ UNCHANGED <<host, up, preferences, file, nameVars, loopVars, peerVars, told,
                 overlap, budget>>

\* The connection closes at one of the awaits.  A write that has begun goes on.
DropUpdate(u) ==
  /\ update' = [update EXCEPT ![u] = Finished]
  /\ \/ /\ update[u].at = "Saving"
        /\ file' \in {file, update[u].wanted}
        /\ overlap' = TRUE
     \/ /\ update[u].at = "Queueing"
        /\ UNCHANGED <<file, overlap>>
  /\ UNCHANGED <<host, up, preferences, nameVars, queue, loopVars, peerVars, told, budget>>

-----------------------------------------------------------------------------
Tick == IntervalTick \/ RefreshTick

LoopStep == Tick \/ TakeAnnounce \/ TakeReconfigure \/ FinishAnnouncing \/ HandleAnnouncement

HandlerStep ==
  \/ Scan \/ AnnounceName \/ DropRename
  \/ \E a \in Alias : Rename(a)
  \/ \E u \in Update :
       \/ \E selection \in Selection : BeginUpdate(u, selection)
       \/ SaveNetworks(u) \/ SaveFails(u) \/ ApplyNetworks(u)
       \/ QueueReconfigure(u) \/ DropUpdate(u)

PeerStep ==
  \/ \E p \in Peer :
       \/ \E e \in Endpoint, announce \in BOOLEAN : Receive(p, e, announce)
       \/ ProbeDevice(p) \/ AgeDevice(p)
  \/ \E r \in replies : FinishReply(r)

Next ==
  \/ LoopStep \/ HandlerStep \/ PeerStep \/ LoopStops
  \/ \E i \in Interface : ChangeInterface(i)

Spec == Init /\ [][Next]_vars

\* The loop takes a ready arm (the ticks are timers, so there always is one), and its
\* announcements and the tasks of answers end; each waits for 2.6 seconds.
FairSpec ==
  /\ Spec
  /\ WF_vars(LoopStep)
  /\ WF_vars(\E r \in replies : FinishReply(r))

-----------------------------------------------------------------------------
(* Properties.                                                              *)

\* The plan (discovery_plan; "prefers Ethernet when both adapters reach the same
\* network").  Left out are only physical adapters in automatic mode, and only when
\* each of their networks is claimed by a preferred adapter.  That adapter is used,
\* unless it is point-to-point without IPv6: such a one claims its networks, covers
\* Wi-Fi, and has no endpoint of its own.  No adapter is used whose networks were
\* all claimed before.
PlanIsSound ==
  LET plan == PlanNow
      active == ActiveInterfaces(plan)
      present == {i \in up : HasUsableAddress(host[i]) /\ Includes(preferences, i)}
      physical == {i \in present : IsPhysical(host[i])}
      Reaching(key, i) ==
        {j \in physical \ {i} : key \in NetworkKeys(host[j]) /\ Before(host, j, i)}
      Redundant(i) ==
        /\ NetworkKeys(host[i]) # {}
        /\ \A key \in NetworkKeys(host[i]) : Reaching(key, i) # {}
  IN  /\ \A i \in present : DiscoveryCapable(host[i]) =>
           (i \notin active <=> preferences.mode = "All" /\ i \in physical /\ Redundant(i))
      /\ \A i \in plan.covered : \A key \in NetworkKeys(host[i]) :
           \E j \in Reaching(key, i) \ plan.covered :
             j \in active \/ ~DiscoveryCapable(host[j])

\* "Rebroadcast the updated identity", "immediately": whatever is renamed, scanned,
\* reconfigured or answered meanwhile, the last name sent over a socket in use is the
\* current one, or an announcement of it is under way, or it is queued, or the
\* handler that set it is about to queue it.  Named exceptions: that handler was
\* dropped (the next tick announces), and a loop that has stopped.
AnnouncementDue ==
  \/ loop.at = "Announcing" /\ loop.alias = alias
  \/ queue # << >>
  \/ rename = "Updating"
  \/ overdue
NameIsAnnounced ==
  loop.at # "Stopped" =>
    AnnouncementDue \/ \A e \in Sockets : told[e] = alias

\* network-settings.json holds what is in effect when no update is under way,
\* unless two of them overlapped or one was dropped while it was saved.
SavedIsInEffect ==
  (\A u \in Update : update[u].at \in {"Idle", "Queueing", "Done"}) /\ ~overlap
    => file = preferences

\* "The five-second interface refresh activates Wi-Fi": when interfaces and
\* preferences stay as they are, the loop comes to follow the plan for them, and
\* answers over other sockets end, whatever was queued, full, dropped or lost before.
FollowsNetworks ==
  <>[](loop.at = "Stopped" \/
       /\ endpoints = PlanNow.endpoints
       /\ \A r \in replies : r.over \in endpoints)
=============================================================================

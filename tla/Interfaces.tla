------------------------------ MODULE Interfaces ------------------------------
(***************************************************************************)
(* The host's network interfaces as network.rs sees them, and the plan of  *)
(* the interfaces on which devices are discovered (discovery_plan).        *)
(*                                                                         *)
(* An address is known by the network it is in, so two addresses with the  *)
(* same prefix are the same Network.  Link-local addresses have no network *)
(* worth comparing: record.local says in which families there are some.    *)
(* Interfaces are numbers, in the alphabetic order of their names.         *)
(***************************************************************************)
EXTENDS Naturals, FiniteSets, Sequences, Folds

Priority == [Ethernet |-> 0, Wifi |-> 1, Other |-> 2,
             Tunnel |-> 3, Bridge |-> 4, Virtual |-> 5]
Kind == DOMAIN Priority

IsPhysical(record) == record.kind \in {"Ethernet", "Wifi"}

\* The index of an interface is always known on the platforms that are built for.
Ipv4Discovery(record) == ~record.pointToPoint /\ record.v4 # {}
Ipv6Discovery(record) == record.v6 # {} \/ "v6" \in record.local
DiscoveryCapable(record) == Ipv4Discovery(record) \/ Ipv6Discovery(record)

\* interface_records leaves out what has at most link-local IPv6 addresses.
HasUsableAddress(record) ==
  record.v4 # {} \/ "v4" \in record.local \/ record.v6 # {}

NetworkKeys(record) == ({"v4"} \X record.v4) \union ({"v6"} \X record.v6)

\* One IPv4 endpoint for each address, one IPv6 endpoint for the interface.
EndpointsOf(i, record) ==
  (IF Ipv4Discovery(record) THEN {<<i, "v4", n>> : n \in record.v4} ELSE {})
    \union (IF Ipv6Discovery(record) THEN {<<i, "v6">>} ELSE {})

NameOf(endpoint) == endpoint[1]
FamilyOf(endpoint) == endpoint[2]

\* NetworkSelection
AllInterfaces == [mode |-> "All", interfaces |-> {}]
SelectedInterfaces(set) == [mode |-> "Selected", interfaces |-> set]
Includes(selection, i) == selection.mode = "All" \/ i \in selection.interfaces

-----------------------------------------------------------------------------
(* discovery_plan: one pass over the interfaces, the preferred kinds first.  *)
(* Of covered_networks only the keys are kept, as plan.claimed: its values   *)
(* name, for the panel, the interface that claimed a network.                *)

Before(records, i, j) ==
  \/ Priority[records[i].kind] < Priority[records[j].kind]
  \/ Priority[records[i].kind] = Priority[records[j].kind] /\ i < j

LastOf(records, set) == CHOOSE i \in set : \A j \in set \ {i} : Before(records, j, i)

Deduplicated(selection, record) == selection.mode = "All" /\ IsPhysical(record)

\* Mutant of IsCovered: one network that is claimed is enough.
IsPartlyCovered(claimed, selection, record) ==
  /\ Deduplicated(selection, record)
  /\ NetworkKeys(record) \intersect claimed # {}

\* Every network of the interface is claimed by an interface before it.
IsCovered(claimed, selection, record) ==
  /\ Deduplicated(selection, record)
  /\ NetworkKeys(record) # {}
  /\ NetworkKeys(record) \subseteq claimed

EmptyPlan == [endpoints |-> {}, covered |-> {}, claimed |-> {}]

PlanStep(records, selection, plan, i) ==
  LET record == records[i]
      claims == IF Deduplicated(selection, record) THEN NetworkKeys(record) ELSE {}
  IN  IF ~Includes(selection, i) THEN plan
      ELSE IF IsCovered(plan.claimed, selection, record)
      THEN [endpoints |-> plan.endpoints,
            covered   |-> plan.covered \union {i},
            claimed   |-> plan.claimed]
      ELSE [endpoints |-> plan.endpoints \union EndpointsOf(i, record),
            covered   |-> plan.covered,
            claimed   |-> plan.claimed \union claims]

\* Each interface is looked at after all that come before it.
DiscoveryPlan(records, up, selection) ==
  MapThenFoldSet(LAMBDA i, plan : PlanStep(records, selection, plan, i),
                 EmptyPlan,
                 LAMBDA i : i,
                 LAMBDA set : LastOf(records, set),
                 {i \in up : HasUsableAddress(records[i])})

ActiveInterfaces(plan) == {NameOf(e) : e \in plan.endpoints}
=============================================================================

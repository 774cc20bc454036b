----------------------------- MODULE MCDiscovery -----------------------------
(* Small hosts on which discovery is checked: a bridge (1), an Ethernet (2) and a *)
(* Wi-Fi adapter (3), as their names sort.                                       *)
EXTENDS Discovery

Adapter(kind, v4, v6, local, p2p) ==
  [kind |-> kind, v4 |-> v4, v6 |-> v6, local |-> local, pointToPoint |-> p2p]

Bridge == Adapter("Bridge", {"docker"}, {}, {}, FALSE)
Ethernet == Adapter("Ethernet", {"lan"}, {}, {}, FALSE)
Wifi == Adapter("Wifi", {"lan"}, {}, {}, FALSE)
MCHardware ==
  {<<Bridge, Ethernet, Wifi>>,
   <<Bridge, Adapter("Ethernet", {"lan"}, {}, {}, TRUE), Wifi>>,
   <<Bridge, Ethernet, Adapter("Wifi", {"lan"}, {"guest"}, {"v6"}, FALSE)>>}
MCSelection == {AllInterfaces, SelectedInterfaces({3})}
=============================================================================

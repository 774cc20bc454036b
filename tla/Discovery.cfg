SPECIFICATION FairSpec
CONSTANTS
  Interface = {1, 2, 3}
  Hardware <- MCHardware
  Selection <- MCSelection
  Alias = {"old", "new"}
  InitialAlias = "old"
  Update = {u1}
  Peer = {p1}
  ScanCap = 1
  InboxCap = 1
  MaxEvents = 2
  Unreliable = {"v6"}
  EnumerationMayFail = TRUE
  NoAlias = NoAlias
  Torn = Torn
INVARIANTS
  
  NameIsAnnounced
  SavedIsInEffect
PROPERTY FollowsNetworks
CHECK_DEADLOCK FALSE

SPECIFICATION Spec
CONSTANTS
  s1 = s1
  s2 = s2
  p1 = p1
  p2 = p2
  f1 = f1
  f2 = f2
  NoSession = NoSession
  Session = {s1, s2}
  Peer = {p1}
  File = {f1}
  SenderOf <- OneSender
  Offer <- Offers
  EventCap = 2
  MaxAttempts = 1
  DropWhileLocking = FALSE
  MaxIncoming = 1
  Oversized = {}
  AutoAccept = {TRUE, FALSE}
  DiskMayFail = FALSE
  RacingExpiry = FALSE
INVARIANTS
  PromptIsBacked
  NoOrphanedDecision
  
  
PROPERTIES
  LivePromptKept
  ImplementsServer
SYMMETRY Requests
CHECK_DEADLOCK FALSE

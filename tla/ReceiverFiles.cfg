SPECIFICATION Spec
CONSTANTS
  s1 = s1
  s2 = s2
  p1 = p1
  p2 = p2
  f1 = f1
  f2 = f2
  NoSession = NoSession
  Session = {s1}
  Peer = {p1, p2}
  File = {f1, f2}
  SenderOf <- Senders
  Offer <- Offers
  EventCap = 1
  MaxAttempts = 2
  DropWhileLocking = TRUE
  MaxIncoming = 2
  Oversized = {}
  AutoAccept = {TRUE, FALSE}
  DiskMayFail = TRUE
  RacingExpiry = FALSE
INVARIANTS
  
  FinishedIsQuiet
  OpenEntriesAreOwned
PROPERTIES
  DeliveredOnce
  CompletedKept
CHECK_DEADLOCK FALSE

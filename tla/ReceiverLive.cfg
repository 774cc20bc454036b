SPECIFICATION FairSpec
CONSTANTS
  s1 = s1
  s2 = s2
  p1 = p1
  p2 = p2
  f1 = f1
  f2 = f2
  NoSession = NoSession
  Session = {s1, s2}
  Peer = {p1, p2}
  File = {f1}
  SenderOf <- Senders
  Offer <- Offers
  EventCap = 1
  MaxAttempts = 1
  DropWhileLocking = FALSE
  MaxIncoming = 2
  Oversized = {s2}
  AutoAccept = {TRUE, FALSE}
  DiskMayFail = FALSE
  RacingExpiry = FALSE
PROPERTIES
  
  PromptGoes
CHECK_DEADLOCK FALSE

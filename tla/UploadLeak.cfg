SPECIFICATION ServerSpec
CONSTANTS
  s1 = s1
  s2 = s2
  s3 = s3
  p1 = p1
  p2 = p2
  f1 = f1
  f2 = f2
  NoSession = NoSession
  Session = {s1, s3}
  Peer = {p1, p2}
  File = {f1}
  SenderOf <- Senders
  Offer <- Offers
  EventCap = 2
  MaxAttempts = 2
  DropWhileLocking = TRUE
INVARIANTS
  SlotNotLeaked
CHECK_DEADLOCK FALSE

SPECIFICATION Spec
CONSTANTS
  h1 = h1
  h2 = h2
  h3 = h3
  r1 = r1
  r2 = r2
  r3 = r3
  a1 = a1
  a2 = a2
  f1 = f1
  f2 = f2
  pinA = pinA
  pinB = pinB
  NoShare = NoShare
  NoRequest = NoRequest
  NoPin = NoPin
  Share = {h1, h2}
  Request = {r1}
  Address = {a1}
  AddressOf <- Addresses
  File = {f1}
  Pin = {}
  MaxPinAttempts = 1
INVARIANTS
  ActiveFilesExist
CHECK_DEADLOCK FALSE

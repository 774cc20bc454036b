SPECIFICATION Spec
CONSTANTS
  b1 = b1
  b2 = b2
  t1 = t1
  t2 = t2
  f1 = f1
  f2 = f2
  Batch = {b1, b2}
  Text = {b2}
  Target = {t1, t2}
  TargetsOf <- Targets
  Answer <- Answers
  File = {f1, f2}
  MaxConcurrentSends = 2
  MaxInMemory = 2
  DbMayFail = {b1}
INVARIANTS
  SentIsDelivered
  RestoredAgrees
  RecordsBounded
  
  RemoteSessionOwned
PROPERTIES
  ImplementsReport
CHECK_DEADLOCK FALSE

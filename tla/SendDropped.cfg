SPECIFICATION Spec
CONSTANTS
  b1 = b1
  b2 = b2
  t1 = t1
  t2 = t2
  f1 = f1
  f2 = f2
  Batch = {b1, b2}
  Text = {b2}
  Target = {t1}
  TargetsOf <- Targets
  Answer <- Answers
  File = {f1, f2}
  MaxConcurrentSends = 1
  MaxInMemory = 2
  DbMayFail = {}
INVARIANTS
  ResultPersisted
CHECK_DEADLOCK FALSE

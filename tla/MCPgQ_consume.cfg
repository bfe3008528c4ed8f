SPECIFICATION Spec
CONSTANTS
  NULL = NULL
  p1 = p1
  p2 = p2
  c1 = c1
  c2 = c2
  Producer = {p1}
  Bare = {p1}
  Consumer = {c1}
  Registered = {c1}
  NTables = 3
  RangeSlack = 2
  PerTxLimit = 1
  MaxXacts = 2
  MaxPerTx = 2
  MaxIdleTicks = 0
  MaxRotations = 0
  MaxRetries = 1
  MaxRegisters = 3
  MaxCrashes = 1
CHECK_DEADLOCK FALSE
INVARIANTS
  RetriesConserved
  Delivered
  TypeOK

SPECIFICATION Spec
CONSTANTS
  NULL = NULL
  p1 = p1
  p2 = p2
  c1 = c1
  c2 = c2
  Producer = {p1}
  Bare = {p1}
  Consumer = {c1}
  Registered = {c1}
  NTables = 3
  RangeSlack = 2
  PerTxLimit <- NoLimit
  MaxXacts = 2
  MaxPerTx = 1
  MaxIdleTicks = 1
  MaxRotations = 1
  MaxRetries = 0
  MaxRegisters = 0
  MaxCrashes = 0
CHECK_DEADLOCK FALSE
INVARIANTS
  Delivered

SPECIFICATION Spec
CONSTANTS
  NULL = NULL
  b1 = b1
  b2 = b2
  b3 = b3
  s1 = s1
  s2 = s2
  Checkpointer = Checkpointer
  Backend = {b1}
  Standby = {s1, s2}
  MaxWalSenders = 2
  Configs <- Priorities
  MaxLSN = 2
  MaxReloads = 0
  MaxOutages = 1
  MaxSignals = 0
  PostmasterMayDie = FALSE
  CommitModes <- BothModes
INVARIANTS
  AckReplicated

SPECIFICATION Spec
CONSTANTS
  NULL = NULL
  b1 = b1
  b2 = b2
  b3 = b3
  s1 = s1
  s2 = s2
  Checkpointer = Checkpointer
  Backend = {b1, b2}
  Standby = {s1}
  MaxWalSenders = 1
  Configs <- OneStandby
  MaxLSN = 2
  MaxReloads = 1
  MaxOutages = 0
  MaxSignals = 1
  PostmasterMayDie = FALSE
  CommitModes <- FlushOnly
SYMMETRY BackendSymmetry
INVARIANTS
  TypeOK
  NoMissedWakeup
  NoStrayEntry
  QueuesRight

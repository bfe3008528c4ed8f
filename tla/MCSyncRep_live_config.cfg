SPECIFICATION FairSpec
CONSTANTS
  NULL = NULL
  b1 = b1
  b2 = b2
  b3 = b3
  s1 = s1
  s2 = s2
  Checkpointer = Checkpointer
  Backend = {b1}
  Standby = {s1}
  MaxWalSenders = 1
  Configs <- OneStandby
  MaxLSN = 1
  MaxReloads = 1
  MaxOutages = 1
  MaxSignals = 1
  PostmasterMayDie = TRUE
  CommitModes <- FlushOrNone
PROPERTIES
  EveryWaitEnds

SPECIFICATION FairSpec
CONSTANTS
  NULL = NULL
  p1 = p1
  p2 = p2
  p3 = p3
  plain = plain
  plain2 = plain2
  insert = insert
  Proc <- Procs2
  Lock = {plain, plain2}
  VarLock = {}
  LockRank <- RankPlain
  Val = {0}
  MAX_SIMUL_LWLOCKS = 2
  MaxCalls = 3
  MaxSignals = 1
CHECK_DEADLOCK FALSE
INVARIANTS
  SemaphoreConserved
  HoldoffBalanced
PROPERTY
  RWSpec
  EveryCallReturns

SPECIFICATION Spec
CONSTANTS
  NULL = NULL
  p1 = p1
  p2 = p2
  p3 = p3
  plain = plain
  plain2 = plain2
  insert = insert
  Proc <- Procs3
  Lock = {insert}
  VarLock = {insert}
  LockRank <- RankOne
  Val = {0, 1}
  MAX_SIMUL_LWLOCKS = 1
  MaxCalls = 2
  MaxSignals = 1
SYMMETRY Symmetry3
INVARIANTS
  TypeOK
  MutualExclusion
  NoWaiterLost
  NoLostWakeup
  VarWaiterNotStale

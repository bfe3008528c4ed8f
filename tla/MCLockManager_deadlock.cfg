SPECIFICATION Spec
CONSTANTS
  NULL = NULL
  Lock = {1, 2}
  NProcs = 3
  LockMode <- WeakMiddleStrong
  HashPartition <- OnePartition
  FP_LOCK_SLOTS_PER_BACKEND = 1
  MaxLocks <- Calls212
  Relation = {1}
  Impatient = {2}
  Requests <- Mixed
  MayRunOut = {2}
  MayFail = {2}
INVARIANTS
  TypeOK
  NoConflict
  NothingLeftBehind
  BeliefIsTruth
  NoIdleWaiter
  NoDeadlockOverlooked
PROPERTIES
  VerdictRight

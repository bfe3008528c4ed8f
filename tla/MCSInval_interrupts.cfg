SPECIFICATION FairSpec
CONSTANTS
  NULL = NULL
  b1 = b1
  b2 = b2
  Backend <- Backends2
  Startup = {b2}
  Client = {b1}
  MaxBackends = 2
  MAXNUMMESSAGES = 2
  MSGNUMWRAPAROUND = 2
  CLEANUP_MIN = 1
  CLEANUP_QUANTUM = 1
  SIG_THRESHOLD = 0
  WRITE_QUANTUM = 1
  MAXINVALMSGS = 1
  MaxSent = 3
  MaxBatch = 1
  MaxDepth = 1
  MaxReceives = 0
  MaxLXID = 1
INVARIANTS
  VirtualXidUnique
  NoReentrance
  NoSleepOnInterrupt
PROPERTIES
  InsertReturns
  SignalServed

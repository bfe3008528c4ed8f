SPECIFICATION Spec
CONSTANTS
  NULL = NULL
  b1 = b1
  b2 = b2
  Backend <- Backends2
  Startup = {}
  Client = {}
  MaxBackends = 2
  MAXNUMMESSAGES = 2
  MSGNUMWRAPAROUND = 2
  CLEANUP_MIN = 1
  CLEANUP_QUANTUM = 1
  SIG_THRESHOLD = 0
  WRITE_QUANTUM = 1
  MAXINVALMSGS = 1
  MaxSent = 3
  MaxBatch = 2
  MaxDepth = 2
  MaxReceives = 2
  MaxLXID = 0
SYMMETRY Symmetry2
INVARIANTS
  TypeOK
  CountersOrdered
  UnreadIntact
  NoGap
  ReceiveComplete
  FlagTells

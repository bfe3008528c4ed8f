----------------------------- MODULE LockTable -----------------------------
(***************************************************************************)
(* PostgreSQL's shared lock table (storage/lmgr/lock.c): what the          *)
(* functions that run under a partition lock do to one LOCK.               *)
(*                                                                         *)
(* A LOCK with its PROCLOCKs is a record.  One that is not in the hash     *)
(* table is FreeLock, which is also what a new entry is initialised to.    *)
(* grantMask is the set of modes whose count in granted is not zero.       *)
(***************************************************************************)
EXTENDS Integers, Sequences, FiniteSets, SequencesExt

CONSTANTS
  NProcs,     \* PGPROCs; MaxBackends
  Lock,       \* the lock tags, numbered by their partitions
  LockMode,   \* the lock modes in use, out of 1..8
  NULL

AccessShareLock == 1
RowShareLock == 2
RowExclusiveLock == 3
ShareUpdateExclusiveLock == 4
ShareLock == 5
ShareRowExclusiveLock == 6
ExclusiveLock == 7
AccessExclusiveLock == 8

Proc == 1..NProcs    \* ProcGlobal->allProcs

ASSUME LockTableAssumption == NProcs \in Nat \ {0} /\ LockMode \subseteq 1..8 /\ Lock \subseteq Nat /\ IsFiniteSet(Lock) /\ NULL \notin Lock

\* LockConflicts, the table of lock.c.
LockConflicts ==
  <<{8}, {7, 8}, {5, 6, 7, 8}, {4, 5, 6, 7, 8}, {3, 4, 6, 7, 8},
    {3, 4, 5, 6, 7, 8}, {2, 3, 4, 5, 6, 7, 8}, 1..8>>
conflictTab(m) == LockConflicts[m] \cap LockMode

VARIABLES
  lock,   \* struct LOCK and its PROCLOCKs, by lock tag
  proc    \* the fields of struct PGPROC that the partition locks protect

FreeLock ==
  [procLocks |-> <<>>,                          \* who has a PROCLOCK, in the order of the list
   holdMask |-> [p \in Proc |-> {}],            \* PROCLOCK.holdMask
   releaseMask |-> [p \in Proc |-> {}],         \* PROCLOCK.releaseMask
   requested |-> [m \in LockMode |-> 0],
   granted |-> [m \in LockMode |-> 0],
   waitMask |-> {},
   waitProcs |-> <<>>]                          \* the wait queue

LOCK ==
  [procLocks : Seq(Proc), holdMask : [Proc -> SUBSET LockMode], releaseMask : [Proc -> SUBSET LockMode],
   requested : [LockMode -> Nat], granted : [LockMode -> Nat], waitMask : SUBSET LockMode,
   waitProcs : Seq(Proc)]

\* nRequested is zero.
Unrequested(lk) == \A m \in LockMode : lk.requested[m] = 0

\* A list without its first p.
Without(seq, p) ==
  IF \E i \in DOMAIN seq : seq[i] = p
  THEN LET i == CHOOSE i \in DOMAIN seq : seq[i] = p /\ \A j \in DOMAIN seq : seq[j] = p => i <= j
       IN SubSeq(seq, 1, i - 1) \o SubSeq(seq, i + 1, Len(seq))
  ELSE seq

\* SetupLockInTable when there is memory for it.
SetupLockInTable(lk, p, m) ==
  [lk EXCEPT !.procLocks = IF Contains(@, p) THEN @ ELSE Append(@, p),
             !.requested[m] = @ + 1]

\* Nobody else holds a lock that conflicts with p's getting m.
LockCheckConflicts(lk, p, m) ==
  \A m2 \in conflictTab(m) : lk.granted[m2] <= IF m2 \in lk.holdMask[p] THEN 1 ELSE 0

\* GrantLock
GrantLock(lk, p, m) ==
  [lk EXCEPT !.granted[m] = @ + 1,
             !.waitMask = IF lk.granted[m] + 1 = lk.requested[m] THEN @ \ {m} ELSE @,
             !.holdMask[p] = @ \cup {m}]

\* The counts with one added or taken off for each of the modes.
More(counts, modes) == [m \in LockMode |-> IF m \in modes THEN counts[m] + 1 ELSE counts[m]]
Less(counts, modes) == [m \in LockMode |-> IF m \in modes THEN counts[m] - 1 ELSE counts[m]]

\* SetupLockInTable and GrantLock for p and each of the modes.
SetupAndGrant(lk, p, modes) ==
  [lk EXCEPT !.procLocks = IF modes = {} \/ Contains(@, p) THEN @ ELSE Append(@, p),
             !.requested = More(@, modes), !.granted = More(@, modes),
             !.waitMask = @ \ {m \in modes : lk.granted[m] = lk.requested[m]},
             !.holdMask[p] = @ \cup modes]

\* The changes UnGrantLock makes for each of the modes, and its answer for one:
\* may a waiter go on now?
UnGrantLock(lk, p, modes) ==
  [lk EXCEPT !.requested = Less(@, modes), !.granted = Less(@, modes), !.holdMask[p] = @ \ modes]
WakeupNeeded(lk, m) == conflictTab(m) \cap lk.waitMask # {}

\* ProcLockWakeup at q: who conflicts neither with a holder nor with somebody who
\* goes on waiting before it gets its lock and leaves the queue.
WakeupTurn(seen, q) ==
  LET m == proc[q].waitLockMode IN
  IF conflictTab(m) \cap seen.aheadRequests = {} /\ LockCheckConflicts(seen.lk, q, m)
  THEN [seen EXCEPT !.lk = [GrantLock(seen.lk, q, m) EXCEPT !.waitProcs = Without(@, q)]]
  ELSE [seen EXCEPT !.aheadRequests = @ \cup {m}]

ProcLockWakeup(lk) ==
  LET look[i \in 0..Len(lk.waitProcs)] ==
        IF i = 0 THEN [lk |-> lk, aheadRequests |-> {}]
        ELSE WakeupTurn(look[i - 1], lk.waitProcs[i])
  IN look[Len(lk.waitProcs)].lk

\* p's PROCLOCK goes if p holds nothing.
DropProcLock(lk, p) ==
  IF lk.holdMask[p] = {} THEN [lk EXCEPT !.procLocks = Without(@, p)] ELSE lk

\* CleanUpLock
CleanUpLock(lk, p, wakeupNeeded) ==
  IF Unrequested(lk) THEN FreeLock
  ELSE IF wakeupNeeded THEN ProcLockWakeup(DropProcLock(lk, p))
  ELSE DropProcLock(lk, p)

\* UnGrantLock of one mode and then CleanUpLock.
ReleaseMode(lk, p, m) == CleanUpLock(UnGrantLock(lk, p, {m}), p, WakeupNeeded(lk, m))

\* Mutant: those behind the one that gives up are not looked at.
WithoutWaiterNoWakeup(lk, p, m) ==
  LET left == lk.requested[m] - 1
  IN CleanUpLock([lk EXCEPT !.waitProcs = Without(@, p), !.requested[m] = left,
                            !.waitMask = IF lk.granted[m] = left THEN @ \ {m} ELSE @],
                 p, FALSE)

\* What RemoveFromWaitQueue does to the LOCK: p gives up waiting for it.
WithoutWaiter(lk, p, m) ==
  LET left == lk.requested[m] - 1
  IN CleanUpLock([lk EXCEPT !.waitProcs = Without(@, p), !.requested[m] = left,
                            !.waitMask = IF lk.granted[m] = left THEN @ \ {m} ELSE @],
                 p, TRUE)

\* Those in the queue before and not after were granted their locks.
Woken(before, after) == ToSet(before.waitProcs) \ ToSet(after.waitProcs)

\* A process that is not on a queue; the mode and the locks held mean nothing then.
OffQueue(waitStatus) ==
  [waitLock |-> NULL, waitLockMode |-> 0, waitStatus |-> waitStatus, heldLocks |-> {}]

\* ProcWakeup for the processes in S.
ProcWakeup(S) == [q \in Proc |-> IF q \in S THEN OffQueue("OK") ELSE proc[q]]
=============================================================================

---------------------------- MODULE LockManager ----------------------------
(***************************************************************************)
(* PostgreSQL's heavyweight locks (storage/lmgr/lock.c and proc.c) with    *)
(* the deadlock detector: relation locks of transactions, taken through a  *)
(* backend's fast-path array or in the shared table.                       *)
(*                                                                         *)
(* A section under a partition lock, or under the backendLock of a         *)
(* fast-path array, is one step; each Lock has a partition of its own.     *)
(* The semaphore a backend sleeps on is left out: ProcSleep goes on when   *)
(* waitStatus has changed.                                                 *)
(***************************************************************************)
EXTENDS DeadLock

CONSTANTS
  FP_LOCK_SLOTS_PER_BACKEND,
  HashPartition,   \* FastPathStrongLockHashPartition of a lock tag
  Relation,        \* the locks on relations; others do not use the fast path
  Requests,        \* backend -> the locks and modes its transactions ask for
  MaxLocks,        \* bound: LockAcquire calls of a transaction, by backend
  Impatient,       \* backends that may ask not to wait
  MayRunOut,       \* backends that may find the shared table full
  MayFail          \* backends whose transactions may fail between calls or be interrupted

ASSUME LockManagerAssumption ==
  /\ FP_LOCK_SLOTS_PER_BACKEND \in Nat /\ MaxLocks \in [Proc -> Nat] 
  /\ DOMAIN HashPartition = Lock /\ Requests \in [Proc -> SUBSET (Lock \X LockMode)]
  /\ Relation \subseteq Lock /\ Impatient \subseteq Proc /\ MayRunOut \subseteq Proc /\ MayFail \subseteq Proc

VARIABLES
  strongCount,     \* FastPathStrongRelationLocks->count
  fpLockBits,      \* a backend's fast-path array: lock -> modes
  FastPathLocalUseCount,
  locallock,       \* LockMethodLocalHash: what a backend knows of its locks
  StrongLockInProgress,
  deadlockTimer,   \* DEADLOCK_TIMEOUT is still to come
  at,              \* where a backend is
  call,            \* the lock it is acquiring or releasing, and its mode
  nextProc,        \* the fast-path array it will transfer from next
  calls            \* LockAcquire calls of its transaction

fastVars == <<strongCount, fpLockBits, FastPathLocalUseCount>>
localVars == <<locallock, StrongLockInProgress>>
stackVars == <<call, nextProc, calls>>
vars == <<lock, proc, fastVars, localVars, deadlockTimer, at, stackVars>>

NoLocal == [nLocks |-> 0, strong |-> FALSE, fast |-> FALSE, exists |-> FALSE]
Nothing == [lock |-> NULL, mode |-> 0, dontWait |-> FALSE]

Init ==
  /\ lock = [l \in Lock |-> FreeLock]
  /\ proc = [p \in Proc |-> OffQueue("OK")]
  /\ strongCount = [i \in {HashPartition[l] : l \in Lock} |-> 0]
  /\ fpLockBits = [p \in Proc |-> [l \in Lock |-> {}]]
  /\ FastPathLocalUseCount = [p \in Proc |-> 0]
  /\ locallock = [p \in Proc |-> [l \in Lock |-> [m \in LockMode |-> NoLocal]]]
  /\ StrongLockInProgress = [p \in Proc |-> FALSE]
  /\ deadlockTimer = [p \in Proc |-> FALSE]
  /\ at = [p \in Proc |-> "run"]
  /\ call = [p \in Proc |-> Nothing]
  /\ nextProc = [p \in Proc |-> 0]
  /\ calls = [p \in Proc |-> 0]

Goto(p, place) == at' = [at EXCEPT ![p] = place]
SetLock(l, lk) == lock' = [lock EXCEPT ![l] = lk]

\* EligibleForRelationFastPath, ConflictsWithRelationFastPath
Eligible(l, m) == l \in Relation /\ m < ShareUpdateExclusiveLock
Strong(l, m) == l \in Relation /\ m > ShareUpdateExclusiveLock

\* FastPathLocalUseCount as FastPathUnGrantRelationLock counts it.
UsedSlots(bits) == Cardinality({l \in Lock : bits[l] # {}})

\* Other changes of a step that granted locks to the waiters in S.
Grants(l, lk) == SetLock(l, lk) /\ proc' = ProcWakeup(Woken(lock[l], lk))

\* GrantLockLocal. fast: the LOCK is not known, the fast path has the lock.
GrantLockLocal(p, l, m, fast) ==
  locallock' = [locallock EXCEPT ![p][l][m] =
                  [nLocks |-> @.nLocks + 1, strong |-> @.strong, fast |-> fast, exists |-> TRUE]]
-----------------------------------------------------------------------------
(* LockAcquire.                                                            *)

\* Mutant: the fast path does not look for strong lockers.
FastPathOpenAlways(l) == TRUE

\* No strong locker for any lock that hashes as l does.
FastPathOpen(l) == strongCount[HashPartition[l]] = 0

\* FastPathGrantRelationLock finds an entry for l or a free slot.
FastPathRoom(p, l) ==
  fpLockBits[p][l] # {} \/ UsedSlots(fpLockBits[p]) < FP_LOCK_SLOTS_PER_BACKEND

\* Under the backend's own backendLock.
FastPathAcquire(p, l, m) ==
  /\ Eligible(l, m) /\ FastPathLocalUseCount[p] < FP_LOCK_SLOTS_PER_BACKEND
  /\ FastPathOpen(l) /\ FastPathRoom(p, l)
  /\ fpLockBits' = [fpLockBits EXCEPT ![p][l] = @ \cup {m}]
  /\ FastPathLocalUseCount' = [FastPathLocalUseCount EXCEPT ![p] = IF fpLockBits[p][l] = {} THEN @ + 1 ELSE @]
  /\ GrantLockLocal(p, l, m, TRUE)
  /\ UNCHANGED <<strongCount, StrongLockInProgress, at, call, nextProc>>

\* The fast path was not open to m: BeginStrongLockAcquire, or on to the table.
SlowAcquire(p, l, m, dontWait) ==
  /\ ~(/\ Eligible(l, m) /\ FastPathLocalUseCount[p] < FP_LOCK_SLOTS_PER_BACKEND
       /\ FastPathOpen(l) /\ FastPathRoom(p, l))
  /\ call' = [call EXCEPT ![p] = [lock |-> l, mode |-> m, dontWait |-> dontWait]]
  /\ locallock' = [locallock EXCEPT ![p][l][m].exists = TRUE, ![p][l][m].strong = Strong(l, m)]
  /\ StrongLockInProgress' = [StrongLockInProgress EXCEPT ![p] = Strong(l, m)]
  /\ strongCount' = [strongCount EXCEPT ![HashPartition[l]] = IF Strong(l, m) THEN @ + 1 ELSE @]
  /\ nextProc' = [nextProc EXCEPT ![p] = IF Strong(l, m) THEN 1 ELSE 0]
  /\ Goto(p, IF Strong(l, m) THEN "transfer" ELSE "table")
  /\ UNCHANGED <<fpLockBits, FastPathLocalUseCount>>

LockAcquire(p, l, m, dontWait) ==
  /\ at[p] = "run" /\ calls[p] < MaxLocks[p]
  /\ calls' = [calls EXCEPT ![p] = @ + 1]
  /\ \/ /\ locallock[p][l][m].nLocks > 0
        /\ locallock' = [locallock EXCEPT ![p][l][m].nLocks = @ + 1]
        /\ UNCHANGED <<fastVars, StrongLockInProgress, at, call, nextProc>>
     \/ /\ locallock[p][l][m].nLocks = 0
        /\ FastPathAcquire(p, l, m) \/ SlowAcquire(p, l, m, dontWait)
  /\ UNCHANGED <<lock, proc, deadlockTimer>>

\* AbortStrongLockAcquire
AbortStrongLockAcquire(p) ==
  IF StrongLockInProgress[p]
  THEN /\ StrongLockInProgress' = [StrongLockInProgress EXCEPT ![p] = FALSE]
       /\ strongCount' = [strongCount EXCEPT ![HashPartition[call[p].lock]] = @ - 1]
       /\ locallock' = [locallock EXCEPT ![p][call[p].lock][call[p].mode].strong = FALSE]
  ELSE UNCHANGED <<StrongLockInProgress, strongCount, locallock>>

\* The modes of q's fast-path array go to the table and their bits are cleared.
Transfer(q, l, modes) ==
  /\ SetLock(l, SetupAndGrant(lock[l], q, modes))
  /\ fpLockBits' = [fpLockBits EXCEPT ![q][l] = @ \ modes]

\* Mutant: the loop runs past the end of ProcGlobal->allProcs.
LastProcPastEnd(q) == q > NProcs

LastProc(q) == q = NProcs

\* One turn of FastPathTransferRelationLocks, under q's backendLock.
FastPathTransferRelationLocks(p) ==
  LET q == nextProc[p] IN
  /\ at[p] = "transfer"
  /\ Transfer(q, call[p].lock, fpLockBits[q][call[p].lock])
  /\ nextProc' = [nextProc EXCEPT ![p] = IF LastProc(q) THEN 0 ELSE q + 1]
  /\ Goto(p, IF LastProc(q) THEN "table" ELSE "transfer")
  /\ UNCHANGED <<proc, strongCount, FastPathLocalUseCount, localVars, deadlockTimer, call, calls>>

\* SetupLockInTable finds no memory, for one of the modes to transfer or for the
\* lock itself.
OutOfSharedMemory(p) ==
  /\ p \in MayRunOut
  /\ \/ /\ at[p] = "transfer"
        /\ LET modes == fpLockBits[nextProc[p]][call[p].lock] IN
           \E m \in modes : Transfer(nextProc[p], call[p].lock, {m2 \in modes : m2 < m})
     \/ at[p] = "table" /\ UNCHANGED <<lock, fpLockBits>>
  /\ AbortStrongLockAcquire(p)
  /\ Goto(p, "abort")
  /\ nextProc' = [nextProc EXCEPT ![p] = 0]
  /\ UNCHANGED <<proc, FastPathLocalUseCount, deadlockTimer, call, calls>>
-----------------------------------------------------------------------------
(* LockAcquire, under the partition lock.                                  *)

\* The LOCK with p's request in it.
Requested(p) == SetupLockInTable(lock[call[p].lock], p, call[p].mode)

\* Nobody waits or holds in a mode that is in the way.
Available(p) ==
  /\ conflictTab(call[p].mode) \cap Requested(p).waitMask = {}
  /\ LockCheckConflicts(Requested(p), p, call[p].mode)

\* FinishStrongLockAcquire
Acquired(p) ==
  /\ GrantLockLocal(p, call[p].lock, call[p].mode, FALSE)
  /\ StrongLockInProgress' = [StrongLockInProgress EXCEPT ![p] = FALSE]
  /\ Goto(p, "run") /\ call' = [call EXCEPT ![p] = Nothing]

GrantAtOnce(p) ==
  /\ at[p] = "table" /\ Available(p)
  /\ SetLock(call[p].lock, GrantLock(Requested(p), p, call[p].mode))
  /\ Acquired(p)
  /\ UNCHANGED <<proc, fastVars, deadlockTimer, nextProc, calls>>

\* dontWait: everything is put back.
NotAvailable(p) ==
  LET l == call[p].lock
      m == call[p].mode
  IN /\ at[p] = "table" /\ ~Available(p) /\ call[p].dontWait
     /\ SetLock(l, [DropProcLock(Requested(p), p) EXCEPT !.requested[m] = @ - 1])
     /\ StrongLockInProgress' = [StrongLockInProgress EXCEPT ![p] = FALSE]
     /\ strongCount' = [strongCount EXCEPT ![HashPartition[l]] = IF StrongLockInProgress[p] THEN @ - 1 ELSE @]
     /\ locallock' = [locallock EXCEPT ![p][l][m] = NoLocal]
     /\ Goto(p, "run") /\ call' = [call EXCEPT ![p] = Nothing]
     /\ UNCHANGED <<proc, fpLockBits, FastPathLocalUseCount, deadlockTimer, nextProc, calls>>

\* The first waiter that must wait for p, behind the last place if there is none.
InsertionPoint(lk, p) ==
  LET queue == lk.waitProcs
      mine == {i \in DOMAIN queue : conflictTab(proc[queue[i]].waitLockMode) \cap lk.holdMask[p] # {}}
  IN IF mine = {} THEN Len(queue) + 1 ELSE Min(mine)

\* p must go before a waiter that p must wait for: RememberSimpleDeadLock.
EarlyDeadlock(lk, p, m) ==
  LET i == InsertionPoint(lk, p) IN
  i <= Len(lk.waitProcs) /\ conflictTab(m) \cap proc[lk.waitProcs[i]].heldLocks # {}

\* p goes before a waiter, and nobody before that place or holding is in the way.
GrantInFront(lk, p, m) ==
  LET i == InsertionPoint(lk, p) IN
  /\ i <= Len(lk.waitProcs)
  /\ \A j \in 1..(i - 1) : proc[lk.waitProcs[j]].waitLockMode \notin conflictTab(m)
  /\ LockCheckConflicts(lk, p, m)

\* Mutant: only the first one in the queue checks for deadlocks.
MustCheckFirstOnly(lk) == lk.waitProcs = <<>>

\* enable_timeout_after(DEADLOCK_TIMEOUT) for somebody who joins the queue.
MustCheck(lk) == TRUE

\* ProcSleep up to the sleep.
ProcSleep(p) ==
  LET l == call[p].lock
      m == call[p].mode
      lk == Requested(p)
      queued == [lk EXCEPT !.waitProcs = InsertAt(@, InsertionPoint(lk, p), p), !.waitMask = @ \cup {m}]
      waiting == [waitLock |-> l, waitLockMode |-> m, waitStatus |-> "WAITING", heldLocks |-> lk.holdMask[p]]
  IN /\ at[p] = "table" /\ ~Available(p) /\ ~call[p].dontWait
     /\ \/ /\ EarlyDeadlock(lk, p, m)
           /\ SetLock(l, WithoutWaiter(queued, p, m))
           /\ proc' = [ProcWakeup(Woken(lk, WithoutWaiter(queued, p, m))) EXCEPT ![p] = OffQueue("ERROR")]
           /\ Goto(p, "abort")
           /\ UNCHANGED <<localVars, deadlockTimer, call>>
        \/ /\ ~EarlyDeadlock(lk, p, m) /\ GrantInFront(lk, p, m)
           /\ SetLock(l, GrantLock(lk, p, m))
           /\ Acquired(p)
           /\ UNCHANGED <<proc, deadlockTimer>>
        \/ /\ ~EarlyDeadlock(lk, p, m) /\ ~GrantInFront(lk, p, m)
           /\ SetLock(l, queued)
           /\ proc' = [proc EXCEPT ![p] = waiting]
           /\ deadlockTimer' = [deadlockTimer EXCEPT ![p] = MustCheck(lk)]
           /\ Goto(p, "sleep")
           /\ UNCHANGED <<localVars, call>>
     /\ UNCHANGED <<fastVars, nextProc, calls>>

\* ProcSleep after the sleep: GrantAwaitedLock, or DeadLockReport.
Awake(p) ==
  /\ at[p] = "sleep" /\ proc[p].waitStatus # "WAITING"
  /\ deadlockTimer' = [deadlockTimer EXCEPT ![p] = FALSE]
  /\ \/ /\ proc[p].waitStatus = "OK"
        /\ Acquired(p)
     \/ /\ proc[p].waitStatus = "ERROR"
        /\ Goto(p, "abort")
        /\ UNCHANGED <<localVars, call>>
  /\ UNCHANGED <<lock, proc, fastVars, nextProc, calls>>

\* RemoveFromWaitQueue
RemoveFromWaitQueue(p) ==
  LET l == proc[p].waitLock
      lk == WithoutWaiter(lock[l], p, proc[p].waitLockMode)
  IN /\ SetLock(l, lk)
     /\ proc' = [ProcWakeup(Woken(lock[l], lk)) EXCEPT ![p] = OffQueue("ERROR")]

\* CheckDeadLock, once per sleep, in the handler of DEADLOCK_TIMEOUT and under
\* all partition locks.
CheckDeadLock(p) ==
  LET result == DeadLockCheckRecurse(p)
      after == Rearranged(result.constraints)
  IN /\ at[p] = "sleep" /\ deadlockTimer[p]
     /\ deadlockTimer' = [deadlockTimer EXCEPT ![p] = FALSE]
     /\ \/ proc[p].waitLock = NULL /\ UNCHANGED <<lock, proc>>
        \/ /\ proc[p].waitLock # NULL /\ result.deadlock
           /\ RemoveFromWaitQueue(p)
        \/ /\ proc[p].waitLock # NULL /\ ~result.deadlock
           /\ lock' = after
           /\ proc' = ProcWakeup(UNION {Woken(lock[l], after[l]) : l \in Lock})
     /\ UNCHANGED <<fastVars, localVars, at, stackVars>>

\* A cancel or die interrupt, or lock_timeout, ends the sleep: LockErrorCleanup
\* begins with AbortStrongLockAcquire.
Interrupted(p) ==
  /\ at[p] = "sleep" /\ p \in MayFail
  /\ AbortStrongLockAcquire(p)
  /\ deadlockTimer' = [deadlockTimer EXCEPT ![p] = FALSE]
  /\ Goto(p, "cleanup")
  /\ UNCHANGED <<lock, proc, fpLockBits, FastPathLocalUseCount, stackVars>>

\* Mutant: the grant is not noticed.
ForgetGrant(p) == UNCHANGED locallock

\* If somebody has granted p the lock, p must give it back.
RememberGrant(p) ==
  IF proc[p].waitStatus = "OK" THEN GrantLockLocal(p, call[p].lock, call[p].mode, FALSE)
  ELSE UNCHANGED locallock

\* The rest of LockErrorCleanup, under the partition lock.
LockErrorCleanup(p) ==
  /\ at[p] = "cleanup"
  /\ IF proc[p].waitLock # NULL
     THEN RemoveFromWaitQueue(p) /\ UNCHANGED locallock
     ELSE RememberGrant(p) /\ UNCHANGED <<lock, proc>>
  /\ Goto(p, "abort")
  /\ UNCHANGED <<fastVars, StrongLockInProgress, deadlockTimer, stackVars>>
-----------------------------------------------------------------------------
(* Giving locks back.                                                      *)

\* Mutant: strong locks stay counted.
CountWithoutNone(p, S) == strongCount

\* The strong locks among p's entries in S are no longer counted.
CountWithout(p, S) ==
  [i \in DOMAIN strongCount |->
     strongCount[i] - Cardinality({e \in S : HashPartition[e[1]] = i /\ locallock[p][e[1]][e[2]].strong})]

\* A lock taken by the fast path that somebody has moved to the table.
Transferred(p, l, m) == m \notin fpLockBits[p][l]

\* FastPathUnGrantRelationLock
FastPathUnGrant(p, l, m) ==
  /\ fpLockBits' = [fpLockBits EXCEPT ![p][l] = @ \ {m}]
  /\ FastPathLocalUseCount' =
       [FastPathLocalUseCount EXCEPT ![p] = UsedSlots([fpLockBits[p] EXCEPT ![l] = @ \ {m}])]

\* LockRelease of one lock.  The try of the fast path and the release in the table
\* are one step: a lock that the try has not found stays in the table, and no other
\* backend touches the holder's entry there before the second lock is taken.
LockRelease(p, l, m) ==
  LET local == locallock[p][l][m]
      fastTried == Eligible(l, m) /\ FastPathLocalUseCount[p] > 0
  IN /\ at[p] = "run" /\ local.nLocks > 0
     /\ \/ /\ local.nLocks > 1
           /\ locallock' = [locallock EXCEPT ![p][l][m].nLocks = @ - 1]
           /\ UNCHANGED <<lock, proc, fastVars, at, call>>
        \/ /\ local.nLocks = 1 /\ fastTried /\ ~Transferred(p, l, m)
           /\ FastPathUnGrant(p, l, m)
           /\ locallock' = [locallock EXCEPT ![p][l][m] = NoLocal]
           /\ UNCHANGED <<lock, proc, strongCount, at, call>>
        \/ /\ local.nLocks = 1 /\ ~(fastTried /\ ~Transferred(p, l, m))
           /\ Grants(l, ReleaseMode(lock[l], p, m))
           /\ locallock' = [locallock EXCEPT ![p][l][m].nLocks = 0]
           /\ FastPathLocalUseCount' = [FastPathLocalUseCount EXCEPT ![p] =
                                          IF fastTried THEN UsedSlots(fpLockBits[p]) ELSE @]
           /\ call' = [call EXCEPT ![p] = [lock |-> l, mode |-> m, dontWait |-> FALSE]]
           /\ Goto(p, "forget")
           /\ UNCHANGED <<strongCount, fpLockBits>>
     /\ UNCHANGED <<StrongLockInProgress, deadlockTimer, nextProc, calls>>

\* RemoveLocalLock at the end of LockRelease.
RemoveLocalLock(p) ==
  LET l == call[p].lock
      m == call[p].mode
  IN /\ at[p] = "forget"
     /\ strongCount' = CountWithout(p, {<<l, m>>})
     /\ locallock' = [locallock EXCEPT ![p][l][m] = NoLocal]
     /\ call' = [call EXCEPT ![p] = Nothing]
     /\ Goto(p, "run")
     /\ UNCHANGED <<lock, proc, fpLockBits, FastPathLocalUseCount, StrongLockInProgress, deadlockTimer,
                    nextProc, calls>>

\* The transaction ends, or fails: ProcReleaseLocks, which calls LockErrorCleanup
\* (p is not waiting) and LockReleaseAll.
ProcReleaseLocks(p, isCommit) ==
  /\ \/ at[p] = "run" /\ calls[p] > 0 /\ (p \in MayFail \/ isCommit)
     \/ at[p] = "abort" /\ ~isCommit
  /\ AbortStrongLockAcquire(p)
  /\ call' = [call EXCEPT ![p] = Nothing]
  /\ Goto(p, IF isCommit THEN "release" ELSE "releaseAll")
  /\ UNCHANGED <<lock, proc, fpLockBits, FastPathLocalUseCount, deadlockTimer, nextProc, calls>>

\* p is in LockReleaseAll, which after a failure has allLocks set.
Releasing(p) == at[p] \in {"release", "releaseAll"}
allLocks(p) == at[p] = "releaseAll"

Entries(p) == {e \in Lock \X LockMode : locallock[p][e[1]][e[2]].exists}

\* Its place in the local hash table, which decides when hash_seq_search returns it.
HashOrder(e) == 10 * e[1] + e[2]

\* LockReleaseAll, an entry of the local table: a fast-path lock is given back, or
\* found in the table by LockRefindAndRelease; another one is marked for release.
ReleaseLocal(p, l, m) ==
  LET local == locallock[p][l][m] IN
  /\ Releasing(p) /\ local.exists /\ \A e \in Entries(p) : HashOrder(<<l, m>>) <= HashOrder(e)
  /\ \/ /\ local.nLocks = 0
        /\ UNCHANGED <<lock, proc, fpLockBits, FastPathLocalUseCount>>
     \/ /\ local.nLocks > 0 /\ local.fast /\ ~Transferred(p, l, m)
        /\ FastPathUnGrant(p, l, m)
        /\ UNCHANGED <<lock, proc>>
     \/ /\ local.nLocks > 0 /\ local.fast /\ Transferred(p, l, m)
        /\ Grants(l, ReleaseMode(lock[l], p, m))
        /\ FastPathLocalUseCount' = [FastPathLocalUseCount EXCEPT ![p] = UsedSlots(fpLockBits[p])]
        /\ UNCHANGED fpLockBits
     \/ /\ local.nLocks > 0 /\ ~local.fast
        /\ SetLock(l, [lock[l] EXCEPT !.releaseMask[p] = @ \cup {m}])
        /\ UNCHANGED <<proc, fpLockBits, FastPathLocalUseCount>>
  /\ strongCount' = CountWithout(p, {<<l, m>>})
  /\ locallock' = [locallock EXCEPT ![p][l][m] = NoLocal]
  /\ UNCHANGED <<StrongLockInProgress, deadlockTimer, at, stackVars>>

\* The modes of l to release: those marked, or whatever p holds.
ToRelease(p, l) == IF allLocks(p) THEN lock[l].holdMask[p] ELSE lock[l].releaseMask[p]

\* p has a PROCLOCK for l and modes to release, or nothing at all in it.
Releasable(p, l) ==
  Contains(lock[l].procLocks, p) /\ (ToRelease(p, l) # {} \/ lock[l].holdMask[p] = {})

\* LockReleaseAll, a partition: the modes are released, then the waiters are
\* looked at once.
ReleasePartition(p, l) ==
  LET lk == lock[l]
      modes == ToRelease(p, l)
      freed == [UnGrantLock(lk, p, modes) EXCEPT !.releaseMask[p] = {}]
  IN /\ Releasing(p) /\ Entries(p) = {}
     /\ Releasable(p, l) /\ \A l2 \in Lock : l2 < l => ~Releasable(p, l2)
     /\ Grants(l, CleanUpLock(freed, p, \E m \in modes : WakeupNeeded(lk, m)))
     /\ UNCHANGED <<fastVars, localVars, deadlockTimer, at, stackVars>>

\* The end of LockReleaseAll, and a new transaction.
Released(p) ==
  /\ Releasing(p) /\ Entries(p) = {}
  /\ \A l \in Lock : ~Releasable(p, l)
  /\ calls' = [calls EXCEPT ![p] = 0]
  /\ Goto(p, "run")
  /\ UNCHANGED <<lock, proc, fastVars, localVars, deadlockTimer, call, nextProc>>
-----------------------------------------------------------------------------
Step(p) ==
  \/ FastPathTransferRelationLocks(p) \/ GrantAtOnce(p) \/ NotAvailable(p) \/ ProcSleep(p)
  \/ Awake(p) \/ CheckDeadLock(p) \/ LockErrorCleanup(p) \/ RemoveLocalLock(p)
  \/ \E isCommit \in BOOLEAN : ProcReleaseLocks(p, isCommit)
  \/ \E l \in Lock, m \in LockMode : ReleaseLocal(p, l, m)
  \/ \E l \in Lock : ReleasePartition(p, l)
  \/ Released(p)

Next == \E p \in Proc :
  \/ Step(p)
  \/ \E r \in Requests[p], dontWait \in {FALSE, (p \in Impatient)} : LockAcquire(p, r[1], r[2], dontWait)
  \/ \E r \in Requests[p] : LockRelease(p, r[1], r[2])
  \/ OutOfSharedMemory(p) \/ Interrupted(p)

Spec == Init /\ [][Next]_vars
-----------------------------------------------------------------------------
(* Properties.                                                             *)

TypeOK ==
  /\ lock \in [Lock -> LOCK]
  /\ proc \in [Proc -> [waitLock : Lock \cup {NULL}, waitLockMode : LockMode \cup {0},
                        waitStatus : {"OK", "WAITING", "ERROR"}, heldLocks : SUBSET LockMode]]
  /\ strongCount \in [DOMAIN strongCount -> Nat]
  /\ fpLockBits \in [Proc -> [Lock -> SUBSET LockMode]]
  /\ FastPathLocalUseCount \in [Proc -> 0..FP_LOCK_SLOTS_PER_BACKEND]
  /\ locallock \in [Proc -> [Lock -> [LockMode ->
                     [nLocks : Nat, strong : BOOLEAN, fast : BOOLEAN, exists : BOOLEAN]]]]
  /\ StrongLockInProgress \in [Proc -> BOOLEAN] /\ deadlockTimer \in [Proc -> BOOLEAN]
  /\ at \in [Proc -> {"run", "transfer", "table", "sleep", "cleanup", "forget", "abort", "release", "releaseAll"}]
  /\ call \in [Proc -> [lock : Lock \cup {NULL}, mode : LockMode \cup {0}, dontWait : BOOLEAN]]
  /\ nextProc \in [Proc -> 0..NProcs] /\ calls \in [Proc -> Nat]

\* The transaction of p goes on and may use what p has locked.
Active(p) == at[p] \notin {"cleanup", "abort"} /\ ~Releasing(p)
Relied(p, l) == {m \in LockMode : locallock[p][l][m].nLocks > 0}

\* Two transactions never both rely on locks that conflict, whether they got them
\* through their fast-path arrays, in the table, in front of the queue or by being
\* woken, and whoever moved them since.
NoConflict ==
  \A l \in Lock : \A p \in {r \in Proc : Active(r)} : \A m \in Relied(p, l) :
    \A q \in Proc \ {p} : Relied(q, l) \cap conflictTab(m) # {} => ~Active(q)

\* What a transaction believes to hold and what the shared structures say is the
\* same, through transfers and wakeups; a grant that meets an interrupt is known
\* too before the transaction gives its locks back.
BeliefIsTruth ==
  \A p \in Proc : ~Releasing(p) /\ at[p] \notin {"sleep", "cleanup"} =>
    \A l \in Lock, m \in LockMode :
      (locallock[p][l][m].nLocks > 0) <=> (m \in lock[l].holdMask[p] \cup fpLockBits[p][l])

\* A backend without a transaction has left nothing behind: no lock, no entry in
\* a queue, no count that would keep others off the fast path.
NothingLeftBehind ==
  /\ \A p \in Proc : at[p] = "run" /\ calls[p] = 0 =>
       /\ Entries(p) = {} /\ proc[p].waitLock = NULL
       /\ \A l \in Lock : fpLockBits[p][l] = {} /\ ~Contains(lock[l].procLocks, p)
  /\ \A i \in DOMAIN strongCount :
       strongCount[i] = Cardinality({e \in Proc \X Lock \X LockMode :
                          HashPartition[e[2]] = i /\ locallock[e[1]][e[2]][e[3]].strong})

\* Nobody sleeps for a lock that is to be had: whoever waits conflicts with a holder
\* or with somebody before it, although LockRelease looks at the queue only if
\* waitMask tells it to.
NoIdleWaiter ==
  \A l \in Lock : \A i \in DOMAIN lock[l].waitProcs :
    Blockers(lock[l].waitProcs[i]) # {}

\* No deadlock is overlooked: of backends that wait for each other in a circle one has
\* yet to check, although every backend checks but once, and later arrivals, wakeups
\* and rearrangements of the queues change who waits for whom.
NoDeadlockOverlooked ==
  \A S \in SUBSET {p \in Proc : at[p] = "sleep" /\ ~deadlockTimer[p]} : ~Stuck(S)

\* The verdict is right: a backend that gives up was in a circle, and no order of the
\* queues would have left everybody without one; one that waits on is in no circle.
VerdictRight ==
  [][\A p \in Proc : deadlockTimer[p] /\ ~deadlockTimer'[p] /\ at'[p] = "sleep" =>
       /\ proc[p].waitLock # NULL /\ proc'[p].waitStatus = "ERROR" =>
            /\ InCycle(p, Queues)
            /\ \A orders \in Reorderings : \E S \in SUBSET Proc : StuckIn(S, orders)
       /\ proc'[p].waitLock # NULL => ~InCycle(p, Queues)']_vars
=============================================================================

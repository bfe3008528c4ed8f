------------------------------- MODULE LWLock -------------------------------
(***************************************************************************)
(* PostgreSQL's lightweight locks (storage/lmgr/lwlock.c): the             *)
(* shared/exclusive locks that protect every structure in shared memory.   *)
(*                                                                         *)
(* The section of each routine that runs under the spinlock lock->mutex is *)
(* one step.  Everything outside it is a step of its own: the wait on the  *)
(* process semaphore, and the three writes with which a releaser awakens   *)
(* each waiter it took off the queue (unlink, lwWaiting = false, semaphore *)
(* up).  The wait queue is the linked list of the C code, threaded through *)
(* PGPROC.lwWaitLink, because the order of those three writes matters to   *)
(* it.  The process semaphore is shared with the rest of the system, which *)
(* ProcSendSignal and ProcWaitForSignal stand for.                         *)
(***************************************************************************)
EXTENDS Integers, Sequences, FiniteSets

CONSTANTS
  Proc,               \* the backends (PGPROC)
  Lock,               \* the LWLocks
  VarLock,            \* those with a variable (the WAL insertion locks)
  LockRank,           \* the order in which callers take the locks
  Val,                \* values of the variables
  MAX_SIMUL_LWLOCKS,  \* size of held_lwlocks[]
  MaxCalls,           \* bound: lock calls a backend makes
  MaxSignals,         \* bound: semaphore signals of other subsystems
  NULL                \* the null PGPROC pointer

LW_EXCLUSIVE == "LW_EXCLUSIVE"
LW_SHARED == "LW_SHARED"
LW_WAIT_UNTIL_FREE == "LW_WAIT_UNTIL_FREE"

ASSUME ProcAssumption == IsFiniteSet(Proc) /\ NULL \notin Proc
ASSUME LockAssumption ==
  VarLock \subseteq Lock /\ LockRank \in [Lock -> Nat] /\ NULL \notin Val
ASSUME BoundAssumption ==
  /\ MAX_SIMUL_LWLOCKS \in Nat \ {0}
  /\ MaxCalls \in Nat
  /\ MaxSignals \in Nat

VARIABLES
  \* struct LWLock
  releaseOK,    \* lock -> may a release awaken waiters
  exclusive,    \* lock -> number of exclusive holders
  shared,       \* lock -> number of shared holders
  head, tail,   \* lock -> ends of the wait queue; tail is garbage if head = NULL
  var,          \* lock -> the variable associated with it (*valptr)
  \* struct PGPROC
  lwWaiting, lwWaitMode, lwWaitLink,
  sem,          \* proc -> count of the process semaphore
  \* local to a backend
  pc,           \* where the backend is inside a lwlock call
  call,         \* the call it is in and its arguments
  wakeHead,     \* waiters it took off a queue and has not awakened yet
  wakeProc,     \* the one it is awakening
  extraWaits,   \* semaphore signals it absorbed that were not for the lock
  held_lwlocks, \* the array of locks it holds
  InterruptHoldoffCount,
  aborting,     \* it is inside LWLockReleaseAll
  \* history
  calls,        \* lock calls made
  mode,         \* proc, lock -> the mode in which it was granted the lock
  sent, owed    \* signals of other subsystems sent, and not yet consumed

lockVars == <<releaseOK, exclusive, shared, head, tail, var>>
waitVars == <<lwWaiting, lwWaitMode, lwWaitLink>>
wakeVars == <<wakeHead, wakeProc>>
holdVars == <<held_lwlocks, mode>>
signalVars == <<sent, owed>>
vars == <<lockVars, waitVars, sem, pc, call, wakeVars, extraWaits, holdVars,
          InterruptHoldoffCount, aborting, calls, signalVars>>

Call ==
  [op : {"Acquire"}, lock : Lock, mode : {LW_EXCLUSIVE, LW_SHARED}, val : Val \cup {NULL}]
    \cup [op : {"WaitForVar"}, lock : Lock, val : Val]
    \cup [op : {"AcquireOrWait", "UpdateVar", "Release"}, lock : Lock]

\* Being outside any call is not one of them.
ASSUME CallAssumption == NULL \notin Call

\* LWLockInitialize, and a backend that has not called anything yet.
Init ==
  /\ releaseOK = [l \in Lock |-> TRUE]
  /\ exclusive = [l \in Lock |-> 0]
  /\ shared = [l \in Lock |-> 0]
  /\ head = [l \in Lock |-> NULL]
  /\ tail = [l \in Lock |-> NULL]
  /\ \E v \in Val : var = [l \in Lock |-> v]
  /\ lwWaiting = [p \in Proc |-> FALSE]
  /\ lwWaitMode = [p \in Proc |-> LW_EXCLUSIVE]
  /\ lwWaitLink = [p \in Proc |-> NULL]
  /\ sem = [p \in Proc |-> 0]
  /\ pc = [p \in Proc |-> "idle"]
  /\ call = [p \in Proc |-> NULL]
  /\ wakeHead = [p \in Proc |-> NULL]
  /\ wakeProc = [p \in Proc |-> NULL]
  /\ extraWaits = [p \in Proc |-> 0]
  /\ held_lwlocks = [p \in Proc |-> <<>>]
  /\ InterruptHoldoffCount = [p \in Proc |-> 0]
  /\ aborting = [p \in Proc |-> FALSE]
  /\ calls = [p \in Proc |-> 0]
  /\ mode = [p \in Proc |-> [l \in Lock |-> "none"]]
  /\ sent = 0
  /\ owed = [p \in Proc |-> 0]
-----------------------------------------------------------------------------
(* Helpers.                                                                *)

\* Mutant: an exclusive request does not look at the shared holders.
CanAcquireIgnoringShared(l, m) == exclusive[l] = 0

\* If I can get the lock, do so quickly.
CanAcquire(l, m) == exclusive[l] = 0 /\ (m = LW_EXCLUSIVE => shared[l] = 0)

Free(l) == exclusive[l] = 0 /\ shared[l] = 0

\* Mutant: the absorbed signals are forgotten.
ReturnFromWaitForgetful(p, semNow) ==
  /\ sem' = [sem EXCEPT ![p] = semNow]
  /\ extraWaits' = [extraWaits EXCEPT ![p] = 0]
  /\ pc' = [pc EXCEPT ![p] = "idle"]
  /\ call' = [call EXCEPT ![p] = NULL]

\* Re-increment the semaphore by the absorbed signals, and leave the call.
ReturnFromWait(p, semNow) ==
  /\ sem' = [sem EXCEPT ![p] = semNow + extraWaits[p]]
  /\ extraWaits' = [extraWaits EXCEPT ![p] = 0]
  /\ pc' = [pc EXCEPT ![p] = "idle"]
  /\ call' = [call EXCEPT ![p] = NULL]

\* Lock out cancel/die interrupts on entry, allow them again on the way out.
HoldInterrupts(p) == InterruptHoldoffCount' = [InterruptHoldoffCount EXCEPT ![p] = @ + 1]
ResumeInterrupts(p) == InterruptHoldoffCount' = [InterruptHoldoffCount EXCEPT ![p] = @ - 1]

\* Add p at the tail of the wait queue of l and release the mutex.
EnqueueTail(p, l, m) ==
  /\ lwWaiting' = [lwWaiting EXCEPT ![p] = TRUE]
  /\ lwWaitMode' = [lwWaitMode EXCEPT ![p] = m]
  /\ \/ /\ head[l] = NULL
        /\ head' = [head EXCEPT ![l] = p]
        /\ lwWaitLink' = [lwWaitLink EXCEPT ![p] = NULL]
     \/ /\ head[l] # NULL
        /\ lwWaitLink' = [lwWaitLink EXCEPT ![p] = NULL, ![tail[l]] = p]
        /\ UNCHANGED head
  /\ tail' = [tail EXCEPT ![l] = p]

\* The list that starts at h, as a sequence; there is none if it is cyclic.
ProcLists == UNION {[1..n -> Proc] : n \in 0..Cardinality(Proc)}
Lists(h) ==
  {q \in ProcLists :
     IF q = <<>> THEN h = NULL
     ELSE q[1] = h /\ \A i \in DOMAIN q :
            lwWaitLink[q[i]] = IF i < Len(q) THEN q[i + 1] ELSE NULL}

OnlyUntilFree(p) == lwWaitMode[p] = LW_WAIT_UNTIL_FREE
WantsExclusive(p) == lwWaitMode[p] = LW_EXCLUSIVE

\* p may make a call: it is outside any.  Callers that may have to wait keep to
\* the lock order.
MayCall(p) == pc[p] = "idle" /\ ~aborting[p] /\ calls[p] < MaxCalls
InOrder(p, l) == \A i \in DOMAIN held_lwlocks[p] : LockRank[held_lwlocks[p][i]] < LockRank[l]
CountCall(p) == calls' = [calls EXCEPT ![p] = @ + 1]

\* ereport(ERROR): error recovery starts with interrupts held off once.
RaiseError(p) ==
  /\ aborting' = [aborting EXCEPT ![p] = TRUE]
  /\ InterruptHoldoffCount' = [InterruptHoldoffCount EXCEPT ![p] = 1]
  /\ UNCHANGED <<lockVars, waitVars, sem, pc, call, wakeVars, extraWaits,
                 holdVars, signalVars>>
-----------------------------------------------------------------------------
(* Acquiring.                                                              *)

\* held_lwlocks[] and the lock's counters after p got the lock.
Grant(p, c) ==
  /\ exclusive' = [exclusive EXCEPT ![c.lock] = @ + (IF c.mode = LW_EXCLUSIVE THEN 1 ELSE 0)]
  /\ shared' = [shared EXCEPT ![c.lock] = @ + (IF c.mode = LW_EXCLUSIVE THEN 0 ELSE 1)]
  /\ held_lwlocks' = [held_lwlocks EXCEPT ![p] = Append(@, c.lock)]
  /\ mode' = [mode EXCEPT ![p][c.lock] = c.mode]
  /\ UNCHANGED <<head, tail, waitVars>>

\* Mutant: a retrying backend leaves releaseOK as it is.
AllowNoWakeups(ok, retry) == ok

\* If retrying, allow LWLockRelease to release waiters again.
AllowWakeups(ok, retry) == ok \/ retry

\* One round of the loop of LWLockAcquireCommon, under the mutex.
AcquireRound(p, c, retry) ==
  /\ releaseOK' = [releaseOK EXCEPT ![c.lock] = AllowWakeups(@, retry)]
  /\ \/ /\ CanAcquire(c.lock, c.mode)
        /\ Grant(p, c)
        /\ var' = IF c.val # NULL THEN [var EXCEPT ![c.lock] = c.val] ELSE var
        /\ ReturnFromWait(p, sem[p])
     \/ /\ ~CanAcquire(c.lock, c.mode)
        /\ EnqueueTail(p, c.lock, c.mode)
        /\ pc' = [pc EXCEPT ![p] = "sleep"]
        /\ call' = [call EXCEPT ![p] = c]
        /\ UNCHANGED <<exclusive, shared, var, holdVars, sem, extraWaits>>

\* LWLockAcquireCommon up to the end of the first round.
LWLockAcquireCommon(p, c) ==
  /\ MayCall(p)
  /\ CountCall(p)
  /\ \/ /\ Len(held_lwlocks[p]) >= MAX_SIMUL_LWLOCKS
        /\ RaiseError(p)
     \/ /\ Len(held_lwlocks[p]) < MAX_SIMUL_LWLOCKS /\ InOrder(p, c.lock)
        /\ AcquireRound(p, c, FALSE)
        /\ HoldInterrupts(p)
        /\ UNCHANGED <<wakeVars, aborting, signalVars>>

LWLockAcquire(p, l, m) ==
  LWLockAcquireCommon(p, [op |-> "Acquire", lock |-> l, mode |-> m, val |-> NULL])

LWLockAcquireWithVar(p, l, v) ==
  /\ l \in VarLock
  /\ LWLockAcquireCommon(p, [op |-> "Acquire", lock |-> l, mode |-> LW_EXCLUSIVE, val |-> v])

\* LWLockConditionalAcquire, in any order: no side effects if the lock is not
\* available.  Nobody asks for a lock it holds in a way that would be granted.
LWLockConditionalAcquire(p, l, m) ==
  /\ MayCall(p)
  /\ CountCall(p)
  /\ \/ /\ Len(held_lwlocks[p]) >= MAX_SIMUL_LWLOCKS
        /\ RaiseError(p)
     \/ /\ Len(held_lwlocks[p]) < MAX_SIMUL_LWLOCKS
        /\ CanAcquire(l, m) /\ mode[p][l] = "none"
        /\ Grant(p, [lock |-> l, mode |-> m])
        /\ HoldInterrupts(p)
        /\ UNCHANGED <<releaseOK, var, sem, pc, call, wakeVars, extraWaits,
                       aborting, signalVars>>
     \/ /\ Len(held_lwlocks[p]) < MAX_SIMUL_LWLOCKS
        /\ ~CanAcquire(l, m)
        /\ UNCHANGED <<lockVars, waitVars, sem, pc, call, wakeVars, extraWaits,
                       holdVars, InterruptHoldoffCount, aborting, signalVars>>

\* LWLockAcquireOrWait: get the lock, or queue up only to see it released.
LWLockAcquireOrWait(p, l, m) ==
  /\ MayCall(p)
  /\ CountCall(p)
  /\ \/ /\ Len(held_lwlocks[p]) >= MAX_SIMUL_LWLOCKS
        /\ RaiseError(p)
     \/ /\ Len(held_lwlocks[p]) < MAX_SIMUL_LWLOCKS /\ InOrder(p, l)
        /\ CanAcquire(l, m)
        /\ Grant(p, [lock |-> l, mode |-> m])
        /\ HoldInterrupts(p)
        /\ UNCHANGED <<releaseOK, var, sem, pc, call, wakeVars, extraWaits,
                       aborting, signalVars>>
     \/ /\ Len(held_lwlocks[p]) < MAX_SIMUL_LWLOCKS /\ InOrder(p, l)
        /\ ~CanAcquire(l, m)
        /\ EnqueueTail(p, l, LW_WAIT_UNTIL_FREE)
        /\ pc' = [pc EXCEPT ![p] = "sleep"]
        /\ call' = [call EXCEPT ![p] = [op |-> "AcquireOrWait", lock |-> l]]
        /\ HoldInterrupts(p)
        /\ UNCHANGED <<releaseOK, exclusive, shared, var, sem, wakeVars,
                       extraWaits, holdVars, aborting, signalVars>>
-----------------------------------------------------------------------------
(* Waiting for the variable of a lock.                                     *)

\* LWLockWaitForVar up to the loop: the test of lock->exclusive without the mutex.
LWLockWaitForVar(p, l, oldval) ==
  /\ MayCall(p) /\ InOrder(p, l) /\ l \in VarLock
  /\ CountCall(p)
  /\ \/ /\ exclusive[l] = 0
        /\ UNCHANGED <<pc, call, InterruptHoldoffCount>>
     \/ /\ exclusive[l] # 0
        /\ pc' = [pc EXCEPT ![p] = "retry"]
        /\ call' = [call EXCEPT ![p] = [op |-> "WaitForVar", lock |-> l, val |-> oldval]]
        /\ HoldInterrupts(p)
  /\ UNCHANGED <<lockVars, waitVars, sem, wakeVars, extraWaits, holdVars,
                 aborting, signalVars>>

\* Mutant: releaseOK is left alone.
WaiterLeavesReleaseOK(l) == UNCHANGED releaseOK

\* Set releaseOK, to be awakened as soon as the lock is released.
WaiterSetsReleaseOK(l) == releaseOK' = [releaseOK EXCEPT ![l] = TRUE]

\* One round of its loop, under the mutex; these waiters go to the front.
WaitForVarRound(p, l, oldval) ==
  \/ /\ exclusive[l] = 0 \/ var[l] # oldval
     /\ ReturnFromWait(p, sem[p])
     /\ ResumeInterrupts(p)
     /\ UNCHANGED <<lockVars, waitVars>>
  \/ /\ exclusive[l] # 0 /\ var[l] = oldval
     /\ lwWaiting' = [lwWaiting EXCEPT ![p] = TRUE]
     /\ lwWaitMode' = [lwWaitMode EXCEPT ![p] = LW_WAIT_UNTIL_FREE]
     /\ lwWaitLink' = [lwWaitLink EXCEPT ![p] = head[l]]
     /\ tail' = IF head[l] = NULL THEN [tail EXCEPT ![l] = p] ELSE tail
     /\ head' = [head EXCEPT ![l] = p]
     /\ WaiterSetsReleaseOK(l)
     /\ pc' = [pc EXCEPT ![p] = "sleep"]
     /\ UNCHANGED <<exclusive, shared, var, sem, call, extraWaits,
                    InterruptHoldoffCount>>

\* Loop back after having been awakened.
Retry(p) ==
  /\ pc[p] = "retry"
  /\ \/ /\ call[p].op = "Acquire"
        /\ AcquireRound(p, call[p], TRUE)
        /\ UNCHANGED InterruptHoldoffCount
     \/ /\ call[p].op = "WaitForVar"
        /\ WaitForVarRound(p, call[p].lock, call[p].val)
        /\ UNCHANGED holdVars
  /\ UNCHANGED <<wakeVars, aborting, calls, signalVars>>

\* Mutant: the wait goes through without a signal.
Unsignalled(p) == sem[p] >= 0

\* PGSemaphoreLock blocks while the count is zero.
Signalled(p) == sem[p] > 0

\* PGSemaphoreLock in the wait loops: a signal that finds lwWaiting still set
\* was for someone else and is remembered in extraWaits.
SemaphoreWait(p) ==
  /\ pc[p] = "sleep" /\ Signalled(p)
  /\ \/ /\ lwWaiting[p]
        /\ sem' = [sem EXCEPT ![p] = @ - 1]
        /\ extraWaits' = [extraWaits EXCEPT ![p] = @ + 1]
        /\ UNCHANGED <<pc, call, InterruptHoldoffCount>>
     \/ /\ ~lwWaiting[p] /\ call[p].op # "AcquireOrWait"
        /\ sem' = [sem EXCEPT ![p] = @ - 1]
        /\ pc' = [pc EXCEPT ![p] = "retry"]
        /\ UNCHANGED <<call, extraWaits, InterruptHoldoffCount>>
     \/ /\ ~lwWaiting[p] /\ call[p].op = "AcquireOrWait"
        /\ ReturnFromWait(p, sem[p] - 1)
        /\ ResumeInterrupts(p)
  /\ UNCHANGED <<lockVars, waitVars, wakeVars, holdVars, aborting, calls, signalVars>>
-----------------------------------------------------------------------------
(* Releasing and awakening.                                                *)

\* p took the first n waiters of q off the queue of l and is to awaken them.
Detach(p, l, q, n) ==
  /\ head' = [head EXCEPT ![l] = lwWaitLink[q[n]]]
  /\ lwWaitLink' = [lwWaitLink EXCEPT ![q[n]] = NULL]
  /\ wakeHead' = [wakeHead EXCEPT ![p] = q[1]]

\* LWLockUpdateVar: set the variable, detach the waiters in front that only
\* wait for the lock to be free.
LWLockUpdateVar(p, l, v) ==
  /\ MayCall(p) /\ l \in VarLock /\ mode[p][l] = LW_EXCLUSIVE
  /\ CountCall(p)
  /\ var' = [var EXCEPT ![l] = v]
  /\ \/ /\ head[l] # NULL /\ OnlyUntilFree(head[l])
        /\ \E q \in Lists(head[l]) : \E n \in DOMAIN q :
             /\ \A i \in 1..n : OnlyUntilFree(q[i])
             /\ n < Len(q) => ~OnlyUntilFree(q[n + 1])
             /\ Detach(p, l, q, n)
     \/ /\ ~(head[l] # NULL /\ OnlyUntilFree(head[l]))
        /\ UNCHANGED <<head, lwWaitLink, wakeHead>>
  /\ pc' = [pc EXCEPT ![p] = "awaken"]
  /\ call' = [call EXCEPT ![p] = [op |-> "UpdateVar", lock |-> l]]
  /\ UNCHANGED <<releaseOK, exclusive, shared, tail, lwWaiting, lwWaitMode, sem,
                 wakeProc, extraWaits, holdVars, InterruptHoldoffCount, aborting,
                 signalVars>>

\* The n-th waiter of q is the last one a release awakens: past those that only
\* wait for the lock to be free, one exclusive waiter or a run of the others.
LastAwakened(q, n) ==
  \E f \in 1..n :
    /\ \A i \in 1..(f - 1) : OnlyUntilFree(q[i])
    /\ ~OnlyUntilFree(q[f]) \/ f = Len(q)
    /\ IF WantsExclusive(q[f]) THEN n = f
       ELSE /\ \A i \in (f + 1)..n : ~WantsExclusive(q[i])
            /\ n < Len(q) => WantsExclusive(q[n + 1])

\* Mutant: any wakeup is taken for one that retries.
SomebodyRetries(q, n) == FALSE

\* None of the first n waiters of q is going to try for the lock again.
NobodyRetries(q, n) == \A i \in 1..n : OnlyUntilFree(q[i])

\* Drop the i-th entry of held_lwlocks[].
RemoveHeld(h, i) == [j \in 1..(Len(h) - 1) |-> IF j < i THEN h[j] ELSE h[j + 1]]

\* The lock's counters once one hold is given up.  The array of held locks does
\* not record the mode: it is read off the lock.
DropHold(l) ==
  IF exclusive[l] > 0
  THEN exclusive' = [exclusive EXCEPT ![l] = @ - 1] /\ UNCHANGED shared
  ELSE shared' = [shared EXCEPT ![l] = @ - 1] /\ UNCHANGED exclusive

\* Awaken waiters if the lock became free and no one already awakened is still
\* on the way; hold off further wakeups if one of them is going to retry.
DetachWaiters(p, l) ==
  \/ /\ head[l] # NULL /\ exclusive'[l] = 0 /\ shared'[l] = 0 /\ releaseOK[l]
     /\ \E q \in Lists(head[l]) : \E n \in DOMAIN q :
          /\ LastAwakened(q, n)
          /\ Detach(p, l, q, n)
          /\ releaseOK' = [releaseOK EXCEPT ![l] = NobodyRetries(q, n)]
  \/ /\ ~(head[l] # NULL /\ exclusive'[l] = 0 /\ shared'[l] = 0 /\ releaseOK[l])
     /\ UNCHANGED <<head, lwWaitLink, wakeHead, releaseOK>>

\* Mutant: LWLockReleaseAll does not hold off interrupts for each release.
EnterReleaseBare(p) == UNCHANGED InterruptHoldoffCount

\* LWLockReleaseAll matches the RESUME_INTERRUPTS of each LWLockRelease.
EnterRelease(p) ==
  IF aborting[p] THEN HoldInterrupts(p) ELSE UNCHANGED InterruptHoldoffCount

\* LWLockRelease; LWLockReleaseAll releases the latest lock first.
LWLockRelease(p, l) ==
  /\ pc[p] = "idle"
  /\ \E i \in DOMAIN held_lwlocks[p] :
       /\ held_lwlocks[p][i] = l
       /\ aborting[p] => i = Len(held_lwlocks[p])
       /\ held_lwlocks' = [held_lwlocks EXCEPT ![p] = RemoveHeld(@, i)]
  /\ DropHold(l)
  /\ DetachWaiters(p, l)
  /\ mode' = [mode EXCEPT ![p][l] = "none"]
  /\ pc' = [pc EXCEPT ![p] = "awaken"]
  /\ call' = [call EXCEPT ![p] = [op |-> "Release", lock |-> l]]
  /\ EnterRelease(p)
  /\ UNCHANGED <<tail, var, lwWaiting, lwWaitMode, sem, wakeProc, extraWaits,
                 aborting, calls, signalVars>>

\* Mutant: lwWaiting is reset before the waiter is unlinked.
ClearBeforeUnlink(p) ==
  \/ /\ pc[p] = "awaken" /\ wakeHead[p] # NULL
     /\ wakeProc' = [wakeProc EXCEPT ![p] = wakeHead[p]]
     /\ lwWaiting' = [lwWaiting EXCEPT ![wakeHead[p]] = FALSE]
     /\ pc' = [pc EXCEPT ![p] = "clear"]
     /\ UNCHANGED <<lwWaitLink, wakeHead>>
  \/ /\ pc[p] = "clear"
     /\ wakeHead' = [wakeHead EXCEPT ![p] = lwWaitLink[wakeProc[p]]]
     /\ lwWaitLink' = [lwWaitLink EXCEPT ![wakeProc[p]] = NULL]
     /\ pc' = [pc EXCEPT ![p] = "post"]
     /\ UNCHANGED <<lwWaiting, wakeProc>>

\* Take the first waiter off the list and then reset its lwWaiting: the write
\* barrier keeps the two in this order.
UnlinkThenClear(p) ==
  \/ /\ pc[p] = "awaken" /\ wakeHead[p] # NULL
     /\ wakeProc' = [wakeProc EXCEPT ![p] = wakeHead[p]]
     /\ wakeHead' = [wakeHead EXCEPT ![p] = lwWaitLink[wakeHead[p]]]
     /\ lwWaitLink' = [lwWaitLink EXCEPT ![wakeHead[p]] = NULL]
     /\ pc' = [pc EXCEPT ![p] = "clear"]
     /\ UNCHANGED lwWaiting
  \/ /\ pc[p] = "clear"
     /\ lwWaiting' = [lwWaiting EXCEPT ![wakeProc[p]] = FALSE]
     /\ pc' = [pc EXCEPT ![p] = "post"]
     /\ UNCHANGED <<lwWaitLink, wakeVars>>

\* The loop that awakens the detached waiters, one after the other.
AwakenWaiters(p) ==
  /\ \/ /\ UnlinkThenClear(p)
        /\ UNCHANGED <<sem, call, InterruptHoldoffCount>>
     \/ /\ pc[p] = "post"
        /\ sem' = [sem EXCEPT ![wakeProc[p]] = @ + 1]
        /\ wakeProc' = [wakeProc EXCEPT ![p] = NULL]
        /\ pc' = [pc EXCEPT ![p] = "awaken"]
        /\ UNCHANGED <<lwWaiting, lwWaitLink, call, wakeHead, InterruptHoldoffCount>>
     \/ /\ pc[p] = "awaken" /\ wakeHead[p] = NULL
        /\ IF call[p].op = "Release" THEN ResumeInterrupts(p)
                                     ELSE UNCHANGED InterruptHoldoffCount
        /\ pc' = [pc EXCEPT ![p] = "idle"]
        /\ call' = [call EXCEPT ![p] = NULL]
        /\ UNCHANGED <<lwWaiting, lwWaitLink, sem, wakeVars>>
  /\ UNCHANGED <<lockVars, lwWaitMode, extraWaits, holdVars, aborting, calls, signalVars>>

\* ereport(ERROR) anywhere in the code a lock protects.
Error(p) ==
  /\ pc[p] = "idle" /\ ~aborting[p] /\ held_lwlocks[p] # <<>>
  /\ RaiseError(p)
  /\ UNCHANGED calls

\* LWLockReleaseAll is done: error recovery ends and allows interrupts again.
ReleasedAll(p) ==
  /\ aborting[p] /\ pc[p] = "idle" /\ held_lwlocks[p] = <<>>
  /\ aborting' = [aborting EXCEPT ![p] = FALSE]
  /\ ResumeInterrupts(p)
  /\ UNCHANGED <<lockVars, waitVars, sem, pc, call, wakeVars, extraWaits,
                 holdVars, calls, signalVars>>
-----------------------------------------------------------------------------
(* The other users of the process semaphore.                               *)

ProcSendSignal(p) ==
  /\ sent < MaxSignals
  /\ sent' = sent + 1
  /\ owed' = [owed EXCEPT ![p] = @ + 1]
  /\ sem' = [sem EXCEPT ![p] = @ + 1]
  /\ UNCHANGED <<lockVars, waitVars, pc, call, wakeVars, extraWaits, holdVars,
                 InterruptHoldoffCount, aborting, calls>>

ProcWaitForSignal(p) ==
  /\ pc[p] = "idle" /\ ~aborting[p] /\ sem[p] > 0
  /\ sem' = [sem EXCEPT ![p] = @ - 1]
  /\ owed' = [owed EXCEPT ![p] = @ - 1]
  /\ UNCHANGED <<lockVars, waitVars, pc, call, wakeVars, extraWaits, holdVars,
                 InterruptHoldoffCount, aborting, calls, sent>>
-----------------------------------------------------------------------------
\* Every backend has made its calls and given its locks back.
Finished ==
  /\ \A p \in Proc : pc[p] = "idle" /\ held_lwlocks[p] = <<>> /\ ~aborting[p]
  /\ UNCHANGED vars

LWLockCall(p) ==
  \E l \in Lock :
    \/ \E m \in {LW_EXCLUSIVE, LW_SHARED} :
         \/ LWLockAcquire(p, l, m)
         \/ LWLockConditionalAcquire(p, l, m)
         \/ LWLockAcquireOrWait(p, l, m)
    \/ \E v \in Val :
         \/ LWLockAcquireWithVar(p, l, v)
         \/ LWLockWaitForVar(p, l, v)
         \/ LWLockUpdateVar(p, l, v)

\* What a backend does on its own once it is inside a call or holds a lock.
Progress(p) ==
  \/ Retry(p) \/ SemaphoreWait(p) \/ AwakenWaiters(p) \/ ReleasedAll(p)
  \/ \E l \in Lock : LWLockRelease(p, l)

Next ==
  \/ \E p \in Proc :
       \/ LWLockCall(p) \/ Progress(p) \/ Error(p)
       \/ ProcSendSignal(p) \/ ProcWaitForSignal(p)
  \/ Finished

Spec == Init /\ [][Next]_vars
FairSpec == Spec /\ \A p \in Proc : WF_vars(Progress(p))
-----------------------------------------------------------------------------
(* Properties.                                                             *)

PCs == {"idle", "sleep", "retry", "awaken", "clear", "post"}

\* Every variable has its type.
TypeOK ==
  /\ releaseOK \in [Lock -> BOOLEAN]
  /\ exclusive \in [Lock -> Int]
  /\ shared \in [Lock -> Int]
  /\ head \in [Lock -> Proc \cup {NULL}]
  /\ tail \in [Lock -> Proc \cup {NULL}]
  /\ var \in [Lock -> Val]
  /\ lwWaiting \in [Proc -> BOOLEAN]
  /\ lwWaitMode \in [Proc -> {LW_EXCLUSIVE, LW_SHARED, LW_WAIT_UNTIL_FREE}]
  /\ lwWaitLink \in [Proc -> Proc \cup {NULL}]
  /\ sem \in [Proc -> Nat]
  /\ pc \in [Proc -> PCs]
  /\ call \in [Proc -> Call \cup {NULL}]
  /\ wakeHead \in [Proc -> Proc \cup {NULL}]
  /\ wakeProc \in [Proc -> Proc \cup {NULL}]
  /\ extraWaits \in [Proc -> Nat]
  /\ held_lwlocks \in [Proc -> Seq(Lock)]
  /\ InterruptHoldoffCount \in [Proc -> Int]
  /\ aborting \in [Proc -> BOOLEAN]
  /\ calls \in [Proc -> Nat]
  /\ mode \in [Proc -> [Lock -> {"none", LW_EXCLUSIVE, LW_SHARED}]]
  /\ sent \in Nat
  /\ owed \in [Proc -> Int]

Holders(l, m) == {p \in Proc : mode[p][l] = m}

\* The counters of a lock are the number of its holders in each mode, and an
\* exclusive holder is alone: LWLockRelease, which has no record of the mode the
\* caller holds, always gives back the right hold.
MutualExclusion ==
  \A l \in Lock :
    /\ exclusive[l] = Cardinality(Holders(l, LW_EXCLUSIVE))
    /\ shared[l] = Cardinality(Holders(l, LW_SHARED))
    /\ exclusive[l] <= 1
    /\ exclusive[l] = 1 => shared[l] = 0

\* The backends on the list that starts at h (empty if the list is cyclic).
OnList(h) == UNION {{q[i] : i \in DOMAIN q} : q \in Lists(h)}
Queued(l) == OnList(head[l])
ToBeAwakened(p) == \E w \in Proc : p \in OnList(wakeHead[w]) \/ (pc[w] = "clear" /\ wakeProc[w] = p)

\* A backend asleep with lwWaiting set is on the wait queue of its lock or on the
\* list of someone about to awaken it, never on both and never on none: the
\* releaser's walk along lwWaitLink loses nobody.
NoWaiterLost ==
  \A p \in Proc :
    pc[p] = "sleep" /\ lwWaiting[p] =>
      (p \in Queued(call[p].lock)) # ToBeAwakened(p)

\* p has been chosen to be awakened and is going to try for l again.
Retrying(p, l) ==
  /\ call[p] # NULL /\ call[p].op = "Acquire" /\ call[p].lock = l
  /\ pc[p] = "retry" \/ (pc[p] = "sleep" /\ (~lwWaiting[p] \/ ToBeAwakened(p)))

\* Nobody sleeps on a lock that is free, or whose releases awaken no one, unless
\* some awakened backend is on its way to the lock and will awaken the rest.
NoLostWakeup ==
  \A l \in Lock :
    head[l] # NULL /\ (Free(l) \/ ~releaseOK[l]) => \E p \in Proc : Retrying(p, l)

\* A backend queued by LWLockWaitForVar is never left asleep on a lock that was
\* released or whose variable moved on since it looked.
VarWaiterNotStale ==
  \A l \in VarLock : \A p \in Queued(l) :
    call[p] # NULL /\ call[p].op = "WaitForVar" => exclusive[l] = 1 /\ var[l] = call[p].val

\* No semaphore signal is lost or made up: the count of the semaphore, with what
\* the backend absorbed and what releasers still have to post, is the signals
\* owed to other subsystems plus the one that ends the current wait.
SemaphoreConserved ==
  \A p \in Proc :
    sem[p] + extraWaits[p] + Cardinality({w \in Proc : pc[w] = "post" /\ wakeProc[w] = p})
      = owed[p] + (IF pc[p] = "sleep" /\ ~lwWaiting[p] THEN 1 ELSE 0)

\* Interrupts are held off once per lock held and once more inside a call that
\* waits; error recovery, which reset the count, gets back to where it began.
HoldoffBalanced ==
  \A p \in Proc :
    InterruptHoldoffCount[p] =
      (IF aborting[p] THEN 1 ELSE Len(held_lwlocks[p]))
      + (IF pc[p] # "idle" /\ call[p].op # "UpdateVar" THEN 1 ELSE 0)

\* The locks implement abstract shared/exclusive locks: a lock is only ever
\* granted in a mode compatible with its holders, and only a release ends a hold.
RW == INSTANCE RWLock WITH holds <- mode
RWSpec == RW!Spec

\* Once the other backends stop making calls, every backend inside a call leaves
\* it: there is no sleep that nobody ends.
EveryCallReturns == \A p \in Proc : (pc[p] # "idle") ~> (pc[p] = "idle")
=============================================================================

---------------------------- MODULE LWLockProofs ----------------------------
(***************************************************************************)
(* Proofs about LWLock: types, the inductive invariant that ties the       *)
(* counters of a lock to its holders, mutual exclusion, and that the locks *)
(* implement RWLock.  Then the waiters: the wait queue is a linked list,   *)
(* which backends enter at either end and which releasers cut; nobody gets *)
(* lost in it, and nobody in it is forgotten.  Last the two counts: the    *)
(* process semaphore, and the interrupts held off.                         *)
(***************************************************************************)
EXTENDS LWLock, FiniteSetTheorems, SequenceTheorems, WellFoundedInduction, TLAPS

USE ProcAssumption, LockAssumption, BoundAssumption DEF LW_EXCLUSIVE, LW_SHARED, LW_WAIT_UNTIL_FREE

\* Dropping an entry of the array of held locks leaves an array of locks.
LEMMA RemoveHeldType ==
  ASSUME NEW S, NEW h \in Seq(S), NEW i \in DOMAIN h
  PROVE  /\ RemoveHeld(h, i) \in Seq(S)
         /\ Len(RemoveHeld(h, i)) = Len(h) - 1
         /\ \A j \in 1..(Len(h) - 1) :
              RemoveHeld(h, i)[j] = IF j < i THEN h[j] ELSE h[j + 1]
  <1>1. Len(h) \in Nat /\ Len(h) > 0 /\ DOMAIN h = 1..Len(h)
    OBVIOUS
  <1> DEFINE n == Len(h) - 1
             r == RemoveHeld(h, i)
  <1>2. n \in Nat /\ r \in [1..n -> S]
    BY <1>1 DEF RemoveHeld
  <1> HIDE DEF n, r
  <1>3. r \in Seq(S) /\ Len(r) = n
    BY <1>2
  <1>. QED
    BY <1>1, <1>3 DEF RemoveHeld, n, r

\* Init establishes the types.
LEMMA InitTypeOK == Init => TypeOK
  BY DEF Init, TypeOK, PCs

AcquireCall == [op : {"Acquire"}, lock : Lock, mode : {LW_EXCLUSIVE, LW_SHARED}, val : Val \cup {NULL}]

\* Queueing keeps the types of the queue.
LEMMA EnqueueTailType ==
  ASSUME TypeOK, NEW p \in Proc, NEW l \in Lock, NEW m, EnqueueTail(p, l, m)
  PROVE  /\ head' \in [Lock -> Proc \cup {NULL}]
         /\ tail' \in [Lock -> Proc \cup {NULL}]
         /\ lwWaitLink' \in [Proc -> Proc \cup {NULL}]
  <1>1. tail' \in [Lock -> Proc \cup {NULL}]
    BY DEF TypeOK, EnqueueTail
  <1>2. head' \in [Lock -> Proc \cup {NULL}]
    <2>1. head' = head \/ head' = [head EXCEPT ![l] = p]
      BY DEF EnqueueTail
    <2>. QED
      BY <2>1 DEF TypeOK
  <1>3. lwWaitLink' \in [Proc -> Proc \cup {NULL}]
    <2>1. \/ lwWaitLink' = [lwWaitLink EXCEPT ![p] = NULL]
          \/ lwWaitLink' = [lwWaitLink EXCEPT ![p] = NULL, ![tail[l]] = p]
      BY DEF EnqueueTail
    <2>. DEFINE once == [lwWaitLink EXCEPT ![p] = NULL]
    <2>2. once \in [Proc -> Proc \cup {NULL}]
      BY DEF TypeOK
    <2>. HIDE DEF once
    <2>3. [once EXCEPT ![tail[l]] = p] \in [Proc -> Proc \cup {NULL}]
      BY <2>2
    <2>. QED
      BY <2>1, <2>2, <2>3 DEF once
  <1>. QED
    BY <1>1, <1>2, <1>3

\* A round of the acquire loop, first or retried, keeps the types.
LEMMA AcquireRoundType ==
  ASSUME TypeOK, NEW p \in Proc, NEW c \in AcquireCall, NEW retry \in BOOLEAN,
         AcquireRound(p, c, retry)
  PROVE  /\ releaseOK' \in [Lock -> BOOLEAN]
         /\ exclusive' \in [Lock -> Int] /\ shared' \in [Lock -> Int]
         /\ head' \in [Lock -> Proc \cup {NULL}] /\ tail' \in [Lock -> Proc \cup {NULL}]
         /\ var' \in [Lock -> Val]
         /\ lwWaiting' \in [Proc -> BOOLEAN]
         /\ lwWaitMode' \in [Proc -> {LW_EXCLUSIVE, LW_SHARED, LW_WAIT_UNTIL_FREE}]
         /\ lwWaitLink' \in [Proc -> Proc \cup {NULL}]
         /\ sem' \in [Proc -> Nat] /\ extraWaits' \in [Proc -> Nat]
         /\ pc' \in [Proc -> PCs] /\ call' \in [Proc -> Call \cup {NULL}]
         /\ held_lwlocks' \in [Proc -> Seq(Lock)]
         /\ mode' \in [Proc -> [Lock -> {"none", LW_EXCLUSIVE, LW_SHARED}]]
  <1>0. c \in Call /\ c.lock \in Lock /\ c.mode \in {LW_EXCLUSIVE, LW_SHARED} /\ c.val \in Val \cup {NULL}
    BY DEF AcquireCall, Call
  <1>1. releaseOK' \in [Lock -> BOOLEAN]
    BY <1>0 DEF TypeOK, AcquireRound, AllowWakeups
  <1>2. CASE CanAcquire(c.lock, c.mode)
    <2>1. Grant(p, c) /\ ReturnFromWait(p, sem[p])
          /\ var' = IF c.val # NULL THEN [var EXCEPT ![c.lock] = c.val] ELSE var
      BY <1>2 DEF AcquireRound
    <2>2. exclusive' \in [Lock -> Int] /\ shared' \in [Lock -> Int] /\ var' \in [Lock -> Val]
      BY <1>0, <2>1 DEF TypeOK, Grant
    <2>3. held_lwlocks' \in [Proc -> Seq(Lock)]
      BY <1>0, <2>1 DEF TypeOK, Grant
    <2>4. mode' \in [Proc -> [Lock -> {"none", LW_EXCLUSIVE, LW_SHARED}]]
      BY <1>0, <2>1 DEF TypeOK, Grant
    <2>5. sem' \in [Proc -> Nat] /\ extraWaits' \in [Proc -> Nat]
      BY <2>1 DEF TypeOK, ReturnFromWait
    <2>6. pc' \in [Proc -> PCs] /\ call' \in [Proc -> Call \cup {NULL}]
      BY <2>1 DEF TypeOK, ReturnFromWait, PCs
    <2>. QED
      BY <1>1, <2>1, <2>2, <2>3, <2>4, <2>5, <2>6 DEF TypeOK, Grant, waitVars
  <1>3. CASE ~CanAcquire(c.lock, c.mode)
    <2>1. /\ EnqueueTail(p, c.lock, c.mode)
          /\ pc' = [pc EXCEPT ![p] = "sleep"]
          /\ call' = [call EXCEPT ![p] = c]
          /\ UNCHANGED <<exclusive, shared, var, holdVars, sem, extraWaits>>
      BY <1>3 DEF AcquireRound
    <2>2. lwWaiting' \in [Proc -> BOOLEAN]
      BY <2>1 DEF TypeOK, EnqueueTail
    <2>3. lwWaitMode' \in [Proc -> {LW_EXCLUSIVE, LW_SHARED, LW_WAIT_UNTIL_FREE}]
      BY <1>0, <2>1 DEF TypeOK, EnqueueTail
    <2>4. /\ head' \in [Lock -> Proc \cup {NULL}]
          /\ tail' \in [Lock -> Proc \cup {NULL}]
          /\ lwWaitLink' \in [Proc -> Proc \cup {NULL}]
      BY <1>0, <2>1, EnqueueTailType
    <2>5. pc' \in [Proc -> PCs] /\ call' \in [Proc -> Call \cup {NULL}]
      BY <1>0, <2>1 DEF TypeOK, PCs
    <2>. QED
      BY <1>1, <2>1, <2>2, <2>3, <2>4, <2>5 DEF TypeOK, holdVars
  <1>. QED
    BY <1>2, <1>3

\* An error raised inside a call keeps the types.
LEMMA RaiseErrorType ==
  ASSUME TypeOK, NEW p \in Proc, RaiseError(p), calls' \in [Proc -> Nat]
  PROVE  TypeOK'
  <1>1. aborting' \in [Proc -> BOOLEAN] /\ InterruptHoldoffCount' \in [Proc -> Int]
    BY DEF TypeOK, RaiseError
  <1>. QED
    BY <1>1 DEF TypeOK, RaiseError, lockVars, waitVars, wakeVars, holdVars, signalVars

WaitCall == [op : {"WaitForVar"}, lock : Lock, val : Val]
OrWaitCall == [op : {"AcquireOrWait"}, lock : Lock]

\* A backend asleep or about to retry is inside a call that can wait.
CallOK ==
  \A p \in Proc :
    /\ pc[p] = "sleep" => call[p] \in AcquireCall \cup WaitCall \cup OrWaitCall
    /\ pc[p] = "retry" => call[p] \in AcquireCall \cup WaitCall

\* The calls that can wait are calls, told apart by op.
LEMMA CallFacts ==
  /\ AcquireCall \subseteq Call /\ WaitCall \subseteq Call /\ OrWaitCall \subseteq Call
  /\ \A c \in AcquireCall : c.op = "Acquire" /\ c.lock \in Lock /\ c.mode \in {LW_EXCLUSIVE, LW_SHARED}
                            /\ c.val \in Val \cup {NULL}
  /\ \A c \in WaitCall : c.op = "WaitForVar" /\ c.lock \in Lock /\ c.val \in Val
  /\ \A c \in OrWaitCall : c.op = "AcquireOrWait" /\ c.lock \in Lock
  BY DEF AcquireCall, WaitCall, OrWaitCall, Call

\* The types of the variables that a grant writes.
LEMMA GrantType ==
  ASSUME TypeOK, NEW p \in Proc, NEW c, c.lock \in Lock, c.mode \in {LW_EXCLUSIVE, LW_SHARED}, Grant(p, c)
  PROVE  /\ exclusive' \in [Lock -> Int] /\ shared' \in [Lock -> Int]
         /\ held_lwlocks' \in [Proc -> Seq(Lock)]
         /\ mode' \in [Proc -> [Lock -> {"none", LW_EXCLUSIVE, LW_SHARED}]]
  <1>1. exclusive' \in [Lock -> Int] /\ shared' \in [Lock -> Int]
    BY DEF TypeOK, Grant
  <1>2. held_lwlocks' \in [Proc -> Seq(Lock)]
    BY DEF TypeOK, Grant
  <1>3. mode' \in [Proc -> [Lock -> {"none", LW_EXCLUSIVE, LW_SHARED}]]
    BY DEF TypeOK, Grant
  <1>. QED
    BY <1>1, <1>2, <1>3

\* LWLockAcquireCommon keeps the types.
LEMMA AcquireCommonType ==
  ASSUME TypeOK, NEW p \in Proc, NEW c \in AcquireCall, LWLockAcquireCommon(p, c)
  PROVE  TypeOK'
  <1>1. calls' \in [Proc -> Nat]
    <2>1. CountCall(p)
      BY DEF LWLockAcquireCommon
    <2>. QED
      BY <2>1 DEF TypeOK, CountCall
  <1>2. CASE RaiseError(p)
    BY <1>1, <1>2, RaiseErrorType
  <1>3. CASE ~RaiseError(p)
    <2>1. /\ AcquireRound(p, c, FALSE)
          /\ HoldInterrupts(p)
          /\ UNCHANGED <<wakeVars, aborting, signalVars>>
      BY <1>3 DEF LWLockAcquireCommon
    <2>2. InterruptHoldoffCount' \in [Proc -> Int]
      BY <2>1 DEF TypeOK, HoldInterrupts
    <2>3. wakeHead' = wakeHead /\ wakeProc' = wakeProc /\ aborting' = aborting /\ sent' = sent /\ owed' = owed
      BY <2>1 DEF wakeVars, signalVars
    <2>. HIDE DEF LW_EXCLUSIVE, LW_SHARED, LW_WAIT_UNTIL_FREE
    <2>. QED
      BY <1>1, <2>1, <2>2, <2>3, AcquireRoundType DEF TypeOK
  <1>. QED
    BY <1>2, <1>3

\* LWLockConditionalAcquire keeps the types.
LEMMA ConditionalAcquireType ==
  ASSUME TypeOK, NEW p \in Proc, NEW l \in Lock, NEW m \in {LW_EXCLUSIVE, LW_SHARED},
         LWLockConditionalAcquire(p, l, m)
  PROVE  TypeOK'
  <1>1. calls' \in [Proc -> Nat]
    <2>1. CountCall(p)
      BY DEF LWLockConditionalAcquire
    <2>. QED
      BY <2>1 DEF TypeOK, CountCall
  <1>2. CASE RaiseError(p)
    BY <1>1, <1>2, RaiseErrorType
  <1>3. CASE Grant(p, [lock |-> l, mode |-> m]) /\ HoldInterrupts(p)
             /\ UNCHANGED <<releaseOK, var, sem, pc, call, wakeVars, extraWaits, aborting, signalVars>>
    <2>1. InterruptHoldoffCount' \in [Proc -> Int]
      BY <1>3 DEF TypeOK, HoldInterrupts
    <2>2. /\ exclusive' \in [Lock -> Int] /\ shared' \in [Lock -> Int]
          /\ held_lwlocks' \in [Proc -> Seq(Lock)]
          /\ mode' \in [Proc -> [Lock -> {"none", LW_EXCLUSIVE, LW_SHARED}]]
      BY <1>3, GrantType
    <2>3. UNCHANGED <<head, tail, waitVars>>
      BY <1>3 DEF Grant
    <2>. QED
      BY <1>1, <1>3, <2>1, <2>2, <2>3 DEF TypeOK, waitVars, wakeVars, signalVars
  <1>4. CASE UNCHANGED <<lockVars, waitVars, sem, pc, call, wakeVars, extraWaits,
                         holdVars, InterruptHoldoffCount, aborting, signalVars>>
    BY <1>1, <1>4 DEF TypeOK, lockVars, waitVars, wakeVars, holdVars, signalVars
  <1>. QED
    BY <1>2, <1>3, <1>4 DEF LWLockConditionalAcquire

\* LWLockAcquireOrWait keeps the types.
LEMMA AcquireOrWaitType ==
  ASSUME TypeOK, NEW p \in Proc, NEW l \in Lock, NEW m \in {LW_EXCLUSIVE, LW_SHARED},
         LWLockAcquireOrWait(p, l, m)
  PROVE  TypeOK'
  <1>1. calls' \in [Proc -> Nat]
    <2>1. CountCall(p)
      BY DEF LWLockAcquireOrWait
    <2>. QED
      BY <2>1 DEF TypeOK, CountCall
  <1>2. CASE RaiseError(p)
    BY <1>1, <1>2, RaiseErrorType
  <1>3. CASE Grant(p, [lock |-> l, mode |-> m]) /\ HoldInterrupts(p)
             /\ UNCHANGED <<releaseOK, var, sem, pc, call, wakeVars, extraWaits, aborting, signalVars>>
    <2>1. InterruptHoldoffCount' \in [Proc -> Int]
      BY <1>3 DEF TypeOK, HoldInterrupts
    <2>2. /\ exclusive' \in [Lock -> Int] /\ shared' \in [Lock -> Int]
          /\ held_lwlocks' \in [Proc -> Seq(Lock)]
          /\ mode' \in [Proc -> [Lock -> {"none", LW_EXCLUSIVE, LW_SHARED}]]
      BY <1>3, GrantType
    <2>3. UNCHANGED <<head, tail, waitVars>>
      BY <1>3 DEF Grant
    <2>. QED
      BY <1>1, <1>3, <2>1, <2>2, <2>3 DEF TypeOK, waitVars, wakeVars, signalVars
  <1>4. CASE /\ EnqueueTail(p, l, LW_WAIT_UNTIL_FREE)
             /\ pc' = [pc EXCEPT ![p] = "sleep"]
             /\ call' = [call EXCEPT ![p] = [op |-> "AcquireOrWait", lock |-> l]]
             /\ HoldInterrupts(p)
             /\ UNCHANGED <<releaseOK, exclusive, shared, var, sem, wakeVars,
                            extraWaits, holdVars, aborting, signalVars>>
    <2>1. InterruptHoldoffCount' \in [Proc -> Int]
      BY <1>4 DEF TypeOK, HoldInterrupts
    <2>2. /\ head' \in [Lock -> Proc \cup {NULL}]
          /\ tail' \in [Lock -> Proc \cup {NULL}]
          /\ lwWaitLink' \in [Proc -> Proc \cup {NULL}]
      BY <1>4, EnqueueTailType
    <2>3. lwWaiting' \in [Proc -> BOOLEAN]
      BY <1>4 DEF TypeOK, EnqueueTail
    <2>4. lwWaitMode' \in [Proc -> {LW_EXCLUSIVE, LW_SHARED, LW_WAIT_UNTIL_FREE}]
      BY <1>4 DEF TypeOK, EnqueueTail
    <2>5. pc' \in [Proc -> PCs]
      BY <1>4 DEF TypeOK, PCs
    <2>6. call' \in [Proc -> Call \cup {NULL}]
      <3>1. [op |-> "AcquireOrWait", lock |-> l] \in Call
        BY DEF Call
      <3>. QED
        BY <1>4, <3>1 DEF TypeOK
    <2>. QED
      BY <1>1, <1>4, <2>1, <2>2, <2>3, <2>4, <2>5, <2>6 DEF TypeOK, wakeVars, holdVars, signalVars
  <1>. QED
    BY <1>2, <1>3, <1>4 DEF LWLockAcquireOrWait

\* LWLockWaitForVar, before its loop, keeps the types.
LEMMA WaitForVarType ==
  ASSUME TypeOK, NEW p \in Proc, NEW l \in Lock, NEW v \in Val, LWLockWaitForVar(p, l, v)
  PROVE  TypeOK'
  <1>1. calls' \in [Proc -> Nat]
    <2>1. CountCall(p)
      BY DEF LWLockWaitForVar
    <2>. QED
      BY <2>1 DEF TypeOK, CountCall
  <1>2. /\ pc' \in [Proc -> PCs]
        /\ call' \in [Proc -> Call \cup {NULL}]
        /\ InterruptHoldoffCount' \in [Proc -> Int]
    <2>1. CASE UNCHANGED <<pc, call, InterruptHoldoffCount>>
      BY <2>1 DEF TypeOK
    <2>2. CASE /\ pc' = [pc EXCEPT ![p] = "retry"]
               /\ call' = [call EXCEPT ![p] = [op |-> "WaitForVar", lock |-> l, val |-> v]]
               /\ HoldInterrupts(p)
      <3>1. [op |-> "WaitForVar", lock |-> l, val |-> v] \in Call
        BY DEF Call
      <3>. QED
        BY <2>2, <3>1 DEF TypeOK, HoldInterrupts, PCs
    <2>. QED
      BY <2>1, <2>2 DEF LWLockWaitForVar
  <1>3. UNCHANGED <<lockVars, waitVars, sem, wakeVars, extraWaits, holdVars, aborting, signalVars>>
    BY DEF LWLockWaitForVar
  <1>. QED
    BY <1>1, <1>2, <1>3 DEF TypeOK, lockVars, waitVars, wakeVars, holdVars, signalVars

\* A round of the loop of LWLockWaitForVar keeps the types.
LEMMA WaitForVarRoundType ==
  ASSUME TypeOK, NEW p \in Proc, NEW l \in Lock, NEW v \in Val, WaitForVarRound(p, l, v),
         UNCHANGED <<holdVars, wakeVars, aborting, calls, signalVars>>
  PROVE  TypeOK'
  <1>1. CASE /\ ReturnFromWait(p, sem[p])
             /\ ResumeInterrupts(p)
             /\ UNCHANGED <<lockVars, waitVars>>
    <2>1. sem' \in [Proc -> Nat] /\ extraWaits' \in [Proc -> Nat]
      BY <1>1 DEF TypeOK, ReturnFromWait
    <2>2. pc' \in [Proc -> PCs] /\ call' \in [Proc -> Call \cup {NULL}]
      BY <1>1 DEF TypeOK, ReturnFromWait, PCs
    <2>3. InterruptHoldoffCount' \in [Proc -> Int]
      BY <1>1 DEF TypeOK, ResumeInterrupts
    <2>. QED
      BY <1>1, <2>1, <2>2, <2>3 DEF TypeOK, lockVars, waitVars, wakeVars, holdVars, signalVars
  <1>2. CASE /\ lwWaiting' = [lwWaiting EXCEPT ![p] = TRUE]
             /\ lwWaitMode' = [lwWaitMode EXCEPT ![p] = LW_WAIT_UNTIL_FREE]
             /\ lwWaitLink' = [lwWaitLink EXCEPT ![p] = head[l]]
             /\ tail' = IF head[l] = NULL THEN [tail EXCEPT ![l] = p] ELSE tail
             /\ head' = [head EXCEPT ![l] = p]
             /\ WaiterSetsReleaseOK(l)
             /\ pc' = [pc EXCEPT ![p] = "sleep"]
             /\ UNCHANGED <<exclusive, shared, var, sem, call, extraWaits, InterruptHoldoffCount>>
    <2>1. lwWaiting' \in [Proc -> BOOLEAN] /\ lwWaitLink' \in [Proc -> Proc \cup {NULL}]
      BY <1>2 DEF TypeOK
    <2>2. lwWaitMode' \in [Proc -> {LW_EXCLUSIVE, LW_SHARED, LW_WAIT_UNTIL_FREE}]
      BY <1>2 DEF TypeOK
    <2>3. tail' \in [Lock -> Proc \cup {NULL}] /\ head' \in [Lock -> Proc \cup {NULL}]
      BY <1>2 DEF TypeOK
    <2>4. releaseOK' \in [Lock -> BOOLEAN]
      BY <1>2 DEF TypeOK, WaiterSetsReleaseOK
    <2>5. pc' \in [Proc -> PCs]
      BY <1>2 DEF TypeOK, PCs
    <2>. QED
      BY <1>2, <2>1, <2>2, <2>3, <2>4, <2>5 DEF TypeOK, wakeVars, holdVars, signalVars
  <1>. QED
    BY <1>1, <1>2 DEF WaitForVarRound

\* Looping back keeps the types: a retrying backend is in a call that loops.
LEMMA RetryType ==
  ASSUME TypeOK, CallOK, NEW p \in Proc, Retry(p)
  PROVE  TypeOK'
  <1>1. call[p] \in AcquireCall \cup WaitCall
    BY DEF CallOK, Retry
  <1>2. CASE call[p] \in AcquireCall
    <2>1. call[p].op = "Acquire"
      BY <1>2, CallFacts
    <2>2. AcquireRound(p, call[p], TRUE) /\ UNCHANGED <<InterruptHoldoffCount, wakeVars, aborting, calls, signalVars>>
      BY <2>1 DEF Retry
    <2>. HIDE DEF LW_EXCLUSIVE, LW_SHARED, LW_WAIT_UNTIL_FREE
    <2>. QED
      BY <1>2, <2>2, AcquireRoundType DEF TypeOK, wakeVars, signalVars
  <1>3. CASE call[p] \in WaitCall
    <2>1. call[p].op = "WaitForVar" /\ call[p].lock \in Lock /\ call[p].val \in Val
      BY <1>3, CallFacts
    <2>2. WaitForVarRound(p, call[p].lock, call[p].val)
          /\ UNCHANGED <<holdVars, wakeVars, aborting, calls, signalVars>>
      BY <2>1 DEF Retry
    <2>. QED
      BY <2>1, <2>2, WaitForVarRoundType
  <1>. QED
    BY <1>1, <1>2, <1>3

\* The wait on the semaphore keeps the types.
LEMMA SemaphoreWaitType ==
  ASSUME TypeOK, NEW p \in Proc, SemaphoreWait(p)
  PROVE  TypeOK'
  <1>1. sem[p] \in Nat \ {0}
    BY DEF TypeOK, SemaphoreWait, Signalled
  <1>2. sem' \in [Proc -> Nat] /\ extraWaits' \in [Proc -> Nat]
    <2>1. \/ sem' = [sem EXCEPT ![p] = sem[p] - 1]
          \/ sem' = [sem EXCEPT ![p] = (sem[p] - 1) + extraWaits[p]]
      BY DEF SemaphoreWait, ReturnFromWait
    <2>2. \/ extraWaits' = extraWaits
          \/ extraWaits' = [extraWaits EXCEPT ![p] = 0]
          \/ extraWaits' = [extraWaits EXCEPT ![p] = extraWaits[p] + 1]
      BY DEF SemaphoreWait, ReturnFromWait
    <2>3. sem \in [Proc -> Nat] /\ extraWaits \in [Proc -> Nat]
      BY DEF TypeOK
    <2>. QED
      BY <1>1, <2>1, <2>2, <2>3
  <1>3. pc' \in [Proc -> PCs] /\ call' \in [Proc -> Call \cup {NULL}]
    <2>1. /\ pc' = pc \/ pc' = [pc EXCEPT ![p] = "retry"] \/ pc' = [pc EXCEPT ![p] = "idle"]
          /\ call' = call \/ call' = [call EXCEPT ![p] = NULL]
      BY DEF SemaphoreWait, ReturnFromWait
    <2>. QED
      BY <2>1 DEF TypeOK, PCs
  <1>4. InterruptHoldoffCount' \in [Proc -> Int]
    <2>1. UNCHANGED InterruptHoldoffCount \/ ResumeInterrupts(p)
      BY DEF SemaphoreWait
    <2>. QED
      BY <2>1 DEF TypeOK, ResumeInterrupts
  <1>5. UNCHANGED <<lockVars, waitVars, wakeVars, holdVars, aborting, calls, signalVars>>
    BY DEF SemaphoreWait
  <1>. QED
    BY <1>2, <1>3, <1>4, <1>5 DEF TypeOK, lockVars, waitVars, wakeVars, holdVars, signalVars

\* Taking waiters off a queue keeps the types.
LEMMA DetachType ==
  ASSUME TypeOK, NEW p \in Proc, NEW l \in Lock, NEW q \in ProcLists, NEW n \in DOMAIN q,
         Detach(p, l, q, n)
  PROVE  /\ head' \in [Lock -> Proc \cup {NULL}]
         /\ lwWaitLink' \in [Proc -> Proc \cup {NULL}]
         /\ wakeHead' \in [Proc -> Proc \cup {NULL}]
  <1>1. PICK k \in Nat : q \in [1..k -> Proc]
    <2>1. Cardinality(Proc) \in Nat
      BY FS_CardinalityType
    <2>. QED
      BY <2>1 DEF ProcLists
  <1>2. q[n] \in Proc /\ q[1] \in Proc
    BY <1>1
  <1>. QED
    BY <1>2 DEF TypeOK, Detach

\* LWLockUpdateVar keeps the types.
LEMMA UpdateVarType ==
  ASSUME TypeOK, NEW p \in Proc, NEW l \in Lock, NEW v \in Val, LWLockUpdateVar(p, l, v)
  PROVE  TypeOK'
  <1>1. calls' \in [Proc -> Nat]
    <2>1. CountCall(p)
      BY DEF LWLockUpdateVar
    <2>. QED
      BY <2>1 DEF TypeOK, CountCall
  <1>2. /\ head' \in [Lock -> Proc \cup {NULL}]
        /\ lwWaitLink' \in [Proc -> Proc \cup {NULL}]
        /\ wakeHead' \in [Proc -> Proc \cup {NULL}]
    <2>1. CASE UNCHANGED <<head, lwWaitLink, wakeHead>>
      BY <2>1 DEF TypeOK
    <2>2. CASE \E q \in Lists(head[l]) : \E n \in DOMAIN q : Detach(p, l, q, n)
      BY <2>2, DetachType DEF Lists
    <2>. QED
      BY <2>1, <2>2 DEF LWLockUpdateVar
  <1>3. /\ var' = [var EXCEPT ![l] = v]
        /\ pc' = [pc EXCEPT ![p] = "awaken"]
        /\ call' = [call EXCEPT ![p] = [op |-> "UpdateVar", lock |-> l]]
        /\ UNCHANGED <<releaseOK, exclusive, shared, tail, lwWaiting, lwWaitMode, sem,
                 wakeProc, extraWaits, holdVars, InterruptHoldoffCount, aborting, signalVars>>
    BY DEF LWLockUpdateVar
  <1>4. [op |-> "UpdateVar", lock |-> l] \in Call
    BY DEF Call
  <1>5. var' \in [Lock -> Val] /\ pc' \in [Proc -> PCs] /\ call' \in [Proc -> Call \cup {NULL}]
    BY <1>3, <1>4 DEF TypeOK, PCs
  <1>. QED
    BY <1>1, <1>2, <1>3, <1>5 DEF TypeOK, holdVars, signalVars

\* LWLockRelease keeps the types.
LEMMA ReleaseType ==
  ASSUME TypeOK, NEW p \in Proc, NEW l \in Lock, LWLockRelease(p, l)
  PROVE  TypeOK'
  <1>1. held_lwlocks' \in [Proc -> Seq(Lock)]
    <2>1. PICK i \in DOMAIN held_lwlocks[p] : held_lwlocks' = [held_lwlocks EXCEPT ![p] = RemoveHeld(@, i)]
      BY DEF LWLockRelease
    <2>2. held_lwlocks[p] \in Seq(Lock)
      BY DEF TypeOK
    <2>3. RemoveHeld(held_lwlocks[p], i) \in Seq(Lock)
      BY <2>2, RemoveHeldType
    <2>. QED
      BY <2>1, <2>3 DEF TypeOK
  <1>2. exclusive' \in [Lock -> Int] /\ shared' \in [Lock -> Int]
    <2>1. DropHold(l)
      BY DEF LWLockRelease
    <2>. QED
      BY <2>1 DEF TypeOK, DropHold
  <1>3. /\ head' \in [Lock -> Proc \cup {NULL}]
        /\ lwWaitLink' \in [Proc -> Proc \cup {NULL}]
        /\ wakeHead' \in [Proc -> Proc \cup {NULL}]
        /\ releaseOK' \in [Lock -> BOOLEAN]
    <2>1. CASE UNCHANGED <<head, lwWaitLink, wakeHead, releaseOK>>
      BY <2>1 DEF TypeOK
    <2>2. CASE \E q \in Lists(head[l]) : \E n \in DOMAIN q :
                 Detach(p, l, q, n) /\ releaseOK' = [releaseOK EXCEPT ![l] = NobodyRetries(q, n)]
      <3>1. PICK q \in Lists(head[l]) : \E n \in DOMAIN q :
                 Detach(p, l, q, n) /\ releaseOK' = [releaseOK EXCEPT ![l] = NobodyRetries(q, n)]
        BY <2>2
      <3>2. PICK n \in DOMAIN q :
                 Detach(p, l, q, n) /\ releaseOK' = [releaseOK EXCEPT ![l] = NobodyRetries(q, n)]
        BY <3>1
      <3>3. NobodyRetries(q, n) \in BOOLEAN
        BY DEF NobodyRetries
      <3>. QED
        BY <3>2, <3>3, DetachType DEF Lists, TypeOK
    <2>. QED
      BY <2>1, <2>2 DEF LWLockRelease, DetachWaiters
  <1>4. mode' \in [Proc -> [Lock -> {"none", LW_EXCLUSIVE, LW_SHARED}]]
    BY DEF TypeOK, LWLockRelease
  <1>5. pc' \in [Proc -> PCs] /\ call' \in [Proc -> Call \cup {NULL}]
    <2>1. [op |-> "Release", lock |-> l] \in Call
      BY DEF Call
    <2>2. pc' = [pc EXCEPT ![p] = "awaken"] /\ call' = [call EXCEPT ![p] = [op |-> "Release", lock |-> l]]
      BY DEF LWLockRelease
    <2>. QED
      BY <2>1, <2>2 DEF TypeOK, PCs
  <1>6. InterruptHoldoffCount' \in [Proc -> Int]
    <2>1. EnterRelease(p)
      BY DEF LWLockRelease
    <2>. QED
      BY <2>1 DEF TypeOK, EnterRelease, HoldInterrupts
  <1>7. UNCHANGED <<tail, var, lwWaiting, lwWaitMode, sem, wakeProc, extraWaits, aborting, calls, signalVars>>
    BY DEF LWLockRelease
  <1>. QED
    BY <1>1, <1>2, <1>3, <1>4, <1>5, <1>6, <1>7 DEF TypeOK, signalVars

\* The wakeup loop keeps the types.
LEMMA AwakenType ==
  ASSUME TypeOK, NEW p \in Proc, AwakenWaiters(p)
  PROVE  TypeOK'
  <1>0. UNCHANGED <<lockVars, lwWaitMode, extraWaits, holdVars, aborting, calls, signalVars>>
    BY DEF AwakenWaiters
  <1>1. CASE UnlinkThenClear(p) /\ UNCHANGED <<sem, call, InterruptHoldoffCount>>
    <2>1. CASE /\ wakeHead[p] # NULL
               /\ wakeProc' = [wakeProc EXCEPT ![p] = wakeHead[p]]
               /\ wakeHead' = [wakeHead EXCEPT ![p] = lwWaitLink[wakeHead[p]]]
               /\ lwWaitLink' = [lwWaitLink EXCEPT ![wakeHead[p]] = NULL]
               /\ pc' = [pc EXCEPT ![p] = "clear"]
               /\ UNCHANGED lwWaiting
      <3>1. wakeHead[p] \in Proc
        BY <2>1 DEF TypeOK
      <3>2. wakeProc' \in [Proc -> Proc \cup {NULL}] /\ wakeHead' \in [Proc -> Proc \cup {NULL}]
        BY <2>1, <3>1 DEF TypeOK
      <3>3. lwWaitLink' \in [Proc -> Proc \cup {NULL}] /\ pc' \in [Proc -> PCs]
        BY <2>1 DEF TypeOK, PCs
      <3>. QED
        BY <1>0, <1>1, <2>1, <3>2, <3>3 DEF TypeOK, lockVars, holdVars, signalVars
    <2>2. CASE /\ lwWaiting' = [lwWaiting EXCEPT ![wakeProc[p]] = FALSE]
               /\ pc' = [pc EXCEPT ![p] = "post"]
               /\ UNCHANGED <<lwWaitLink, wakeVars>>
      <3>1. lwWaiting' \in [Proc -> BOOLEAN] /\ pc' \in [Proc -> PCs]
        BY <2>2 DEF TypeOK, PCs
      <3>. QED
        BY <1>0, <1>1, <2>2, <3>1 DEF TypeOK, lockVars, wakeVars, holdVars, signalVars
    <2>. QED
      BY <1>1, <2>1, <2>2 DEF UnlinkThenClear
  <1>2. CASE /\ sem' = [sem EXCEPT ![wakeProc[p]] = @ + 1]
             /\ wakeProc' = [wakeProc EXCEPT ![p] = NULL]
             /\ pc' = [pc EXCEPT ![p] = "awaken"]
             /\ UNCHANGED <<lwWaiting, lwWaitLink, call, wakeHead, InterruptHoldoffCount>>
    <2>1. sem' \in [Proc -> Nat]
      <3>1. sem \in [Proc -> Nat]
        BY DEF TypeOK
      <3>2. CASE wakeProc[p] \in Proc
        BY <1>2, <3>1, <3>2
      <3>3. CASE wakeProc[p] \notin Proc
        <4>1. sem' = sem
          BY <1>2, <3>1, <3>3
        <4>. QED
          BY <3>1, <4>1
      <3>. QED
        BY <3>2, <3>3
    <2>2. wakeProc' \in [Proc -> Proc \cup {NULL}] /\ pc' \in [Proc -> PCs]
      BY <1>2 DEF TypeOK, PCs
    <2>. QED
      BY <1>0, <1>2, <2>1, <2>2 DEF TypeOK, lockVars, holdVars, signalVars
  <1>3. CASE /\ IF call[p].op = "Release" THEN ResumeInterrupts(p) ELSE UNCHANGED InterruptHoldoffCount
             /\ pc' = [pc EXCEPT ![p] = "idle"]
             /\ call' = [call EXCEPT ![p] = NULL]
             /\ UNCHANGED <<lwWaiting, lwWaitLink, sem, wakeVars>>
    <2>1. InterruptHoldoffCount' \in [Proc -> Int]
      <3>1. UNCHANGED InterruptHoldoffCount \/ ResumeInterrupts(p)
        BY <1>3
      <3>. QED
        BY <3>1 DEF TypeOK, ResumeInterrupts
    <2>2. pc' \in [Proc -> PCs] /\ call' \in [Proc -> Call \cup {NULL}]
      BY <1>3 DEF TypeOK, PCs
    <2>. QED
      BY <1>0, <1>3, <2>1, <2>2 DEF TypeOK, lockVars, wakeVars, holdVars, signalVars
  <1>. QED
    BY <1>1, <1>2, <1>3 DEF AwakenWaiters

\* The remaining actions keep the types.
LEMMA OtherType ==
  ASSUME TypeOK, NEW p \in Proc,
         Error(p) \/ ReleasedAll(p) \/ ProcSendSignal(p) \/ ProcWaitForSignal(p)
  PROVE  TypeOK'
  <1>1. CASE Error(p)
    <2>1. RaiseError(p) /\ calls' \in [Proc -> Nat]
      BY <1>1 DEF Error, TypeOK
    <2>. QED
      BY <2>1, RaiseErrorType
  <1>2. CASE ReleasedAll(p)
    <2>1. aborting' \in [Proc -> BOOLEAN] /\ InterruptHoldoffCount' \in [Proc -> Int]
      BY <1>2 DEF TypeOK, ReleasedAll, ResumeInterrupts
    <2>. QED
      BY <1>2, <2>1 DEF ReleasedAll, TypeOK, lockVars, waitVars, wakeVars, holdVars, signalVars
  <1>3. CASE ProcSendSignal(p)
    <2>1. sent' \in Nat /\ owed' \in [Proc -> Int]
      BY <1>3 DEF TypeOK, ProcSendSignal
    <2>2. sem' \in [Proc -> Nat]
      BY <1>3 DEF TypeOK, ProcSendSignal
    <2>. QED
      BY <1>3, <2>1, <2>2 DEF ProcSendSignal, TypeOK, lockVars, waitVars, wakeVars, holdVars
  <1>4. CASE ProcWaitForSignal(p)
    <2>1. owed' \in [Proc -> Int] /\ sem' \in [Proc -> Nat]
      BY <1>4 DEF TypeOK, ProcWaitForSignal
    <2>. QED
      BY <1>4, <2>1 DEF ProcWaitForSignal, TypeOK, lockVars, waitVars, wakeVars, holdVars
  <1>. QED
    BY <1>1, <1>2, <1>3, <1>4

-----------------------------------------------------------------------------
\* The callers' lock order: a backend holds each of its locks once, and waits for
\* one that ranks above them.
Ordered ==
  \A p \in Proc :
    /\ \A i, j \in DOMAIN held_lwlocks[p] : i < j => held_lwlocks[p][i] # held_lwlocks[p][j]
    /\ pc[p] \in {"sleep", "retry"} => InOrder(p, call[p].lock)

\* The array of held locks lists exactly the locks that were granted.
HeldMatch ==
  \A p \in Proc, l \in Lock :
    mode[p][l] # "none" <=> \E i \in DOMAIN held_lwlocks[p] : held_lwlocks[p][i] = l

\* The inductive invariant.
LInv == TypeOK /\ CallOK /\ Ordered /\ HeldMatch /\ MutualExclusion

\* Every step either leaves the holds alone, or grants one lock to a backend
\* that can have it, or takes one back.
Granted(p, l, m) ==
  /\ CanAcquire(l, m) /\ mode[p][l] = "none"
  /\ exclusive' = [exclusive EXCEPT ![l] = @ + (IF m = LW_EXCLUSIVE THEN 1 ELSE 0)]
  /\ shared' = [shared EXCEPT ![l] = @ + (IF m = LW_EXCLUSIVE THEN 0 ELSE 1)]
  /\ held_lwlocks' = [held_lwlocks EXCEPT ![p] = Append(@, l)]
  /\ mode' = [mode EXCEPT ![p][l] = m]
  /\ pc'[p] = "idle"
  /\ \A q \in Proc \ {p} : pc'[q] = pc[q] /\ call'[q] = call[q]

Released(p, l) ==
  /\ \E i \in DOMAIN held_lwlocks[p] :
       /\ held_lwlocks[p][i] = l
       /\ held_lwlocks' = [held_lwlocks EXCEPT ![p] = RemoveHeld(@, i)]
  /\ DropHold(l)
  /\ mode' = [mode EXCEPT ![p][l] = "none"]
  /\ pc'[p] = "awaken"
  /\ \A q \in Proc \ {p} : pc'[q] = pc[q] /\ call'[q] = call[q]

\* The queueing half of a step: who waits, and for which call.
Waits(p) ==
  /\ UNCHANGED <<exclusive, shared, holdVars>>
  /\ \A q \in Proc \ {p} : pc'[q] = pc[q] /\ call'[q] = call[q]
  /\ pc'[p] = "sleep" => /\ call'[p] \in AcquireCall \cup WaitCall \cup OrWaitCall
                         /\ InOrder(p, call'[p].lock)
  /\ pc'[p] = "retry" => /\ call'[p] \in AcquireCall \cup WaitCall
                         /\ InOrder(p, call'[p].lock)

HoldStep == \E p \in Proc :
  Waits(p) \/ \E l \in Lock : Released(p, l) \/ \E m \in {LW_EXCLUSIVE, LW_SHARED} : Granted(p, l, m)

\* A backend does not hold a lock it may wait for: the lock ranks above its own.
LEMMA InOrderNotHeld ==
  ASSUME TypeOK, HeldMatch, NEW p \in Proc, NEW l \in Lock, InOrder(p, l)
  PROVE  mode[p][l] = "none"
  <1>1. \A i \in DOMAIN held_lwlocks[p] : held_lwlocks[p][i] # l
    BY DEF InOrder
  <1>. QED
    BY <1>1 DEF HeldMatch

\* A backend inside AcquireRound is granted the lock or waits for it.
LEMMA AcquireRoundHold ==
  ASSUME TypeOK, HeldMatch, NEW p \in Proc, NEW c \in AcquireCall, NEW retry, InOrder(p, c.lock),
         AcquireRound(p, c, retry)
  PROVE  HoldStep
  <1>0. c.lock \in Lock /\ c.mode \in {LW_EXCLUSIVE, LW_SHARED}
    BY CallFacts
  <1>1. CASE CanAcquire(c.lock, c.mode)
    <2>1. Grant(p, c) /\ ReturnFromWait(p, sem[p])
      BY <1>1 DEF AcquireRound
    <2>2. pc'[p] = "idle" /\ \A q \in Proc \ {p} : pc'[q] = pc[q] /\ call'[q] = call[q]
      BY <2>1 DEF ReturnFromWait, TypeOK
    <2>3. Granted(p, c.lock, c.mode)
      BY <1>0, <1>1, <2>1, <2>2, InOrderNotHeld DEF Grant, Granted
    <2>. QED
      BY <1>0, <2>3 DEF HoldStep
  <1>2. CASE ~CanAcquire(c.lock, c.mode)
    <2>1. /\ pc' = [pc EXCEPT ![p] = "sleep"]
          /\ call' = [call EXCEPT ![p] = c]
          /\ UNCHANGED <<exclusive, shared, holdVars>>
      BY <1>2 DEF AcquireRound
    <2>2. pc'[p] = "sleep" /\ call'[p] = c /\ \A q \in Proc \ {p} : pc'[q] = pc[q] /\ call'[q] = call[q]
      BY <2>1 DEF TypeOK
    <2>3. Waits(p)
      BY <2>1, <2>2 DEF Waits
    <2>. QED
      BY <2>3 DEF HoldStep
  <1>. QED
    BY <1>1, <1>2

\* A step that changes neither the holds nor where backends are in their calls.
LEMMA QuietHold ==
  ASSUME CallOK, Ordered, NEW p \in Proc,
         UNCHANGED <<exclusive, shared, holdVars, pc, call>>
  PROVE  HoldStep
  <1>1. Waits(p)
    BY DEF Waits, CallOK, Ordered
  <1>. QED
    BY <1>1 DEF HoldStep

\* A backend that leaves its call or goes on awakening waits for nothing.
LEMMA BusyHold ==
  ASSUME TypeOK, NEW p \in Proc, NEW t \in {"idle", "awaken", "clear", "post"}, NEW c,
         UNCHANGED <<exclusive, shared, holdVars>>,
         pc' = [pc EXCEPT ![p] = t], call' = call \/ call' = [call EXCEPT ![p] = c]
  PROVE  HoldStep
  <1>1. pc'[p] = t /\ \A q \in Proc \ {p} : pc'[q] = pc[q] /\ call'[q] = call[q]
    BY DEF TypeOK
  <1>2. Waits(p)
    BY <1>1 DEF Waits
  <1>. QED
    BY <1>2 DEF HoldStep

\* Every step of the specification has one of the three effects on the holds.
LEMMA NextHold ==
  ASSUME TypeOK, CallOK, Ordered, HeldMatch, [Next]_vars
  PROVE  HoldStep \/ UNCHANGED <<exclusive, shared, holdVars, pc, call>>
  <1>1. ASSUME NEW p \in Proc, NEW c \in AcquireCall, LWLockAcquireCommon(p, c)
        PROVE  HoldStep
    <2>1. CASE RaiseError(p)
      BY <2>1, QuietHold DEF RaiseError, lockVars
    <2>2. CASE InOrder(p, c.lock) /\ AcquireRound(p, c, FALSE)
      BY <1>1, <2>2, AcquireRoundHold DEF LWLockAcquireCommon
    <2>. QED
      BY <1>1, <2>1, <2>2 DEF LWLockAcquireCommon
  <1>2. ASSUME NEW p \in Proc, NEW l \in Lock, NEW m \in {LW_EXCLUSIVE, LW_SHARED}, LWLockAcquire(p, l, m)
        PROVE  HoldStep
    <2>1. [op |-> "Acquire", lock |-> l, mode |-> m, val |-> NULL] \in AcquireCall
      BY DEF AcquireCall
    <2>. QED
      BY <1>1, <1>2, <2>1 DEF LWLockAcquire
  <1>3. ASSUME NEW p \in Proc, NEW l \in Lock, NEW v \in Val, LWLockAcquireWithVar(p, l, v)
        PROVE  HoldStep
    <2>1. [op |-> "Acquire", lock |-> l, mode |-> LW_EXCLUSIVE, val |-> v] \in AcquireCall
      BY DEF AcquireCall
    <2>. QED
      BY <1>1, <1>3, <2>1 DEF LWLockAcquireWithVar
  <1>4. ASSUME NEW p \in Proc, NEW l \in Lock, NEW m \in {LW_EXCLUSIVE, LW_SHARED},
               MayCall(p), mode[p][l] = "none", CanAcquire(l, m), Grant(p, [lock |-> l, mode |-> m]),
               UNCHANGED <<pc, call>>
        PROVE  HoldStep
    <2>1. pc'[p] = "idle" /\ \A q \in Proc \ {p} : pc'[q] = pc[q] /\ call'[q] = call[q]
      BY <1>4 DEF MayCall
    <2>2. Granted(p, l, m)
      BY <1>4, <2>1 DEF Grant, Granted
    <2>. QED
      BY <2>2 DEF HoldStep
  <1>5. ASSUME NEW p \in Proc, NEW l \in Lock, NEW m \in {LW_EXCLUSIVE, LW_SHARED},
               LWLockConditionalAcquire(p, l, m)
        PROVE  HoldStep
    <2>1. CASE RaiseError(p)
      BY <2>1, QuietHold DEF RaiseError, lockVars
    <2>2. CASE UNCHANGED <<lockVars, holdVars, pc, call>>
      BY <2>2, QuietHold DEF lockVars
    <2>3. CASE CanAcquire(l, m) /\ mode[p][l] = "none" /\ Grant(p, [lock |-> l, mode |-> m]) /\ UNCHANGED <<pc, call>>
      BY <1>4, <1>5, <2>3 DEF LWLockConditionalAcquire
    <2>. QED
      BY <1>5, <2>1, <2>2, <2>3 DEF LWLockConditionalAcquire
  <1>6. ASSUME NEW p \in Proc, NEW l \in Lock, NEW m \in {LW_EXCLUSIVE, LW_SHARED},
               LWLockAcquireOrWait(p, l, m)
        PROVE  HoldStep
    <2>1. CASE RaiseError(p)
      BY <2>1, QuietHold DEF RaiseError, lockVars
    <2>2. CASE /\ InOrder(p, l)
               /\ pc' = [pc EXCEPT ![p] = "sleep"]
               /\ call' = [call EXCEPT ![p] = [op |-> "AcquireOrWait", lock |-> l]]
               /\ UNCHANGED <<exclusive, shared, holdVars>>
      <3>1. /\ pc'[p] = "sleep" /\ call'[p] = [op |-> "AcquireOrWait", lock |-> l]
            /\ \A q \in Proc \ {p} : pc'[q] = pc[q] /\ call'[q] = call[q]
        BY <2>2 DEF TypeOK
      <3>2. call'[p] \in OrWaitCall /\ call'[p].lock = l
        BY <3>1 DEF OrWaitCall
      <3>3. Waits(p)
        BY <2>2, <3>1, <3>2 DEF Waits
      <3>. QED
        BY <3>3 DEF HoldStep
    <2>3. CASE /\ InOrder(p, l) /\ CanAcquire(l, m)
               /\ Grant(p, [lock |-> l, mode |-> m]) /\ UNCHANGED <<pc, call>>
      BY <1>4, <1>6, <2>3, InOrderNotHeld DEF LWLockAcquireOrWait
    <2>. QED
      BY <1>6, <2>1, <2>2, <2>3 DEF LWLockAcquireOrWait
  <1>7. ASSUME NEW p \in Proc, NEW l \in Lock, NEW v \in Val, LWLockWaitForVar(p, l, v)
        PROVE  HoldStep
    <2>0. UNCHANGED <<exclusive, shared, holdVars>>
      BY <1>7 DEF LWLockWaitForVar, lockVars
    <2>1. CASE UNCHANGED <<pc, call>>
      BY <2>0, <2>1, QuietHold
    <2>2. CASE /\ pc' = [pc EXCEPT ![p] = "retry"]
               /\ call' = [call EXCEPT ![p] = [op |-> "WaitForVar", lock |-> l, val |-> v]]
      <3>1. /\ pc'[p] = "retry" /\ call'[p] = [op |-> "WaitForVar", lock |-> l, val |-> v]
            /\ \A q \in Proc \ {p} : pc'[q] = pc[q] /\ call'[q] = call[q]
        BY <2>2 DEF TypeOK
      <3>2. call'[p] \in WaitCall /\ call'[p].lock = l
        BY <3>1 DEF WaitCall
      <3>3. InOrder(p, l)
        BY <1>7 DEF LWLockWaitForVar
      <3>4. Waits(p)
        BY <2>0, <3>1, <3>2, <3>3 DEF Waits
      <3>. QED
        BY <3>4 DEF HoldStep
    <2>. QED
      BY <1>7, <2>1, <2>2 DEF LWLockWaitForVar
  <1>8. ASSUME NEW p \in Proc, NEW l \in Lock, NEW v \in Val, LWLockUpdateVar(p, l, v)
        PROVE  HoldStep
    BY <1>8, BusyHold DEF LWLockUpdateVar
  <1>9. ASSUME NEW p \in Proc, Retry(p)
        PROVE  HoldStep
    <2>1. call[p] \in AcquireCall \cup WaitCall /\ InOrder(p, call[p].lock) /\ pc[p] = "retry"
      BY <1>9 DEF CallOK, Ordered, Retry
    <2>2. CASE call[p] \in AcquireCall
      <3>1. call[p].op = "Acquire"
        BY <2>2, CallFacts
      <3>2. AcquireRound(p, call[p], TRUE)
        BY <1>9, <3>1 DEF Retry
      <3>. QED
        BY <2>1, <2>2, <3>2, AcquireRoundHold
    <2>3. CASE call[p] \in WaitCall
      <3>1. call[p].op = "WaitForVar"
        BY <2>3, CallFacts
      <3>2. WaitForVarRound(p, call[p].lock, call[p].val) /\ UNCHANGED holdVars
        BY <1>9, <3>1 DEF Retry
      <3>3. UNCHANGED <<exclusive, shared, holdVars>>
        BY <3>2 DEF WaitForVarRound, lockVars
      <3>4. CASE ReturnFromWait(p, sem[p])
        BY <3>3, <3>4, BusyHold DEF ReturnFromWait
      <3>5. CASE pc' = [pc EXCEPT ![p] = "sleep"] /\ UNCHANGED call
        <4>1. pc'[p] = "sleep" /\ \A q \in Proc \ {p} : pc'[q] = pc[q] /\ call'[q] = call[q]
          BY <3>5 DEF TypeOK
        <4>2. Waits(p)
          BY <2>1, <3>3, <3>5, <4>1 DEF Waits
        <4>. QED
          BY <4>2 DEF HoldStep
      <3>. QED
        BY <3>2, <3>4, <3>5 DEF WaitForVarRound
    <2>. QED
      BY <2>1, <2>2, <2>3
  <1>10. ASSUME NEW p \in Proc, SemaphoreWait(p)
         PROVE  HoldStep
    <2>0. UNCHANGED <<exclusive, shared, holdVars>> /\ pc[p] = "sleep"
      BY <1>10 DEF SemaphoreWait, lockVars
    <2>1. CASE UNCHANGED <<pc, call>>
      BY <2>0, <2>1, QuietHold
    <2>2. CASE call[p].op # "AcquireOrWait" /\ pc' = [pc EXCEPT ![p] = "retry"] /\ UNCHANGED call
      <3>1. pc'[p] = "retry" /\ \A q \in Proc \ {p} : pc'[q] = pc[q] /\ call'[q] = call[q]
        BY <2>2 DEF TypeOK
      <3>2. call[p] \in AcquireCall \cup WaitCall /\ InOrder(p, call[p].lock)
        BY <2>0, <2>2, CallFacts DEF CallOK, Ordered
      <3>3. Waits(p)
        BY <2>0, <2>2, <3>1, <3>2 DEF Waits
      <3>. QED
        BY <3>3 DEF HoldStep
    <2>3. CASE ReturnFromWait(p, sem[p] - 1)
      BY <2>0, <2>3, BusyHold DEF ReturnFromWait
    <2>. QED
      BY <1>10, <2>1, <2>2, <2>3 DEF SemaphoreWait
  <1>11. ASSUME NEW p \in Proc, AwakenWaiters(p)
         PROVE  HoldStep
    <2>0. UNCHANGED <<exclusive, shared, holdVars>>
      BY <1>11 DEF AwakenWaiters, lockVars
    <2>1. \/ pc' = [pc EXCEPT ![p] = "clear"] /\ UNCHANGED call
          \/ pc' = [pc EXCEPT ![p] = "post"] /\ UNCHANGED call
          \/ pc' = [pc EXCEPT ![p] = "awaken"] /\ UNCHANGED call
          \/ pc' = [pc EXCEPT ![p] = "idle"] /\ call' = [call EXCEPT ![p] = NULL]
      BY <1>11 DEF AwakenWaiters, UnlinkThenClear
    <2>. QED
      BY <2>0, <2>1, BusyHold
  <1>12. ASSUME NEW p \in Proc, NEW l \in Lock, LWLockRelease(p, l)
         PROVE  HoldStep
    <2>1. pc'[p] = "awaken" /\ \A q \in Proc \ {p} : pc'[q] = pc[q] /\ call'[q] = call[q]
      BY <1>12 DEF LWLockRelease, TypeOK
    <2>2. Released(p, l)
      BY <1>12, <2>1 DEF LWLockRelease, Released
    <2>. QED
      BY <2>2 DEF HoldStep
  <1>13. ASSUME NEW p \in Proc, Error(p) \/ ReleasedAll(p) \/ ProcSendSignal(p) \/ ProcWaitForSignal(p)
         PROVE  HoldStep
    <2>1. UNCHANGED <<exclusive, shared, holdVars, pc, call>>
      BY <1>13 DEF Error, RaiseError, ReleasedAll, ProcSendSignal, ProcWaitForSignal, lockVars
    <2>. QED
      BY <2>1, QuietHold
  <1>14. CASE UNCHANGED vars
    BY <1>14 DEF vars, lockVars
  <1>15. CASE Finished
    BY <1>15 DEF Finished, vars, lockVars
  <1>. QED
    BY <1>2, <1>3, <1>5, <1>6, <1>7, <1>8, <1>9, <1>10, <1>11, <1>12, <1>13, <1>14, <1>15
       DEF Next, LWLockCall, Progress

-----------------------------------------------------------------------------
\* The sets of holders are finite.
LEMMA HoldersFinite ==
  ASSUME NEW l, NEW m
  PROVE  IsFiniteSet(Holders(l, m))
  BY FS_Subset DEF Holders

\* Granting keeps mutual exclusion.
LEMMA GrantMutex ==
  ASSUME TypeOK, HeldMatch, MutualExclusion,
         NEW p \in Proc, NEW l \in Lock, NEW m \in {LW_EXCLUSIVE, LW_SHARED}, Granted(p, l, m)
  PROVE  MutualExclusion'
  <1>1. mode[p][l] = "none"
    BY DEF Granted
  <1>2. mode' = [mode EXCEPT ![p][l] = m]
    BY DEF Granted
  <1>3. ASSUME NEW k \in Lock
        PROVE  /\ exclusive'[k] = Cardinality(Holders(k, LW_EXCLUSIVE)')
               /\ shared'[k] = Cardinality(Holders(k, LW_SHARED)')
               /\ exclusive'[k] <= 1
               /\ exclusive'[k] = 1 => shared'[k] = 0
    <2>1. CASE k # l
      <3>1. \A q \in Proc : mode'[q][k] = mode[q][k]
        BY <1>2, <2>1 DEF TypeOK
      <3>2. Holders(k, LW_EXCLUSIVE)' = Holders(k, LW_EXCLUSIVE) /\ Holders(k, LW_SHARED)' = Holders(k, LW_SHARED)
        BY <3>1 DEF Holders
      <3>3. exclusive'[k] = exclusive[k] /\ shared'[k] = shared[k]
        BY <2>1 DEF TypeOK, Granted
      <3>. QED
        BY <3>2, <3>3 DEF MutualExclusion
    <2>2. CASE k = l
      <3>1. mode'[p][l] = m /\ \A q \in Proc \ {p} : mode'[q][l] = mode[q][l]
        BY <1>2 DEF TypeOK
      <3>2. \A n \in {LW_EXCLUSIVE, LW_SHARED} :
              Holders(l, n)' = IF n = m THEN Holders(l, n) \cup {p} ELSE Holders(l, n)
        BY <1>1, <3>1 DEF Holders
      <3>3. p \notin Holders(l, m)
        BY <1>1 DEF Holders
      <3>4. Cardinality(Holders(l, m) \cup {p}) = Cardinality(Holders(l, m)) + 1
        BY <3>3, HoldersFinite, FS_AddElement
      <3>5. /\ exclusive[l] = 0 /\ (m = LW_EXCLUSIVE => shared[l] = 0)
            /\ exclusive'[l] = exclusive[l] + (IF m = LW_EXCLUSIVE THEN 1 ELSE 0)
            /\ shared'[l] = shared[l] + (IF m = LW_EXCLUSIVE THEN 0 ELSE 1)
        BY DEF Granted, CanAcquire, TypeOK
      <3>6. exclusive[l] = Cardinality(Holders(l, LW_EXCLUSIVE)) /\ shared[l] = Cardinality(Holders(l, LW_SHARED))
        BY DEF MutualExclusion
      <3>7. shared[l] \in Int
        BY DEF TypeOK
      <3>8. CASE m = LW_EXCLUSIVE
        <4>1. Holders(l, LW_EXCLUSIVE)' = Holders(l, LW_EXCLUSIVE) \cup {p} /\ Holders(l, LW_SHARED)' = Holders(l, LW_SHARED)
          BY <3>2, <3>8
        <4>2. exclusive'[l] = 1 /\ shared'[l] = shared[l] /\ shared[l] = 0
          BY <3>5, <3>7, <3>8
        <4>3. Cardinality(Holders(l, LW_EXCLUSIVE)') = 1
          <5>1. Cardinality(Holders(l, LW_EXCLUSIVE)) = 0
            BY <3>5, <3>6
          <5>2. Cardinality(Holders(l, LW_EXCLUSIVE) \cup {p}) = Cardinality(Holders(l, LW_EXCLUSIVE)) + 1
            BY <3>4, <3>8
          <5>. QED
            BY <4>1, <5>1, <5>2
        <4>4. Cardinality(Holders(l, LW_SHARED)') = shared[l]
          BY <3>6, <4>1
        <4>. QED
          BY <2>2, <4>2, <4>3, <4>4
      <3>9. CASE m = LW_SHARED
        <4>1. Holders(l, LW_SHARED)' = Holders(l, LW_SHARED) \cup {p} /\ Holders(l, LW_EXCLUSIVE)' = Holders(l, LW_EXCLUSIVE)
          BY <3>2, <3>9
        <4>2. exclusive'[l] = 0 /\ shared'[l] = shared[l] + 1
          BY <3>5, <3>7, <3>9
        <4>3. Cardinality(Holders(l, LW_SHARED)') = shared[l] + 1
          BY <3>4, <3>6, <3>9, <4>1
        <4>4. Cardinality(Holders(l, LW_EXCLUSIVE)') = 0
          BY <3>5, <3>6, <4>1
        <4>. QED
          BY <2>2, <4>2, <4>3, <4>4
      <3>. QED
        BY <3>8, <3>9
    <2>. QED
      BY <2>1, <2>2
  <1>. QED
    BY <1>3 DEF MutualExclusion

\* Releasing keeps mutual exclusion: the mode read off the lock is the one held.
LEMMA ReleaseMutex ==
  ASSUME TypeOK, HeldMatch, MutualExclusion, NEW p \in Proc, NEW l \in Lock, Released(p, l)
  PROVE  MutualExclusion'
  <1>1. mode[p][l] \in {LW_EXCLUSIVE, LW_SHARED}
    BY DEF Released, HeldMatch, TypeOK
  <1>2. mode' = [mode EXCEPT ![p][l] = "none"] /\ DropHold(l)
    BY DEF Released
  <1>3. ASSUME NEW k \in Lock
        PROVE  /\ exclusive'[k] = Cardinality(Holders(k, LW_EXCLUSIVE)')
               /\ shared'[k] = Cardinality(Holders(k, LW_SHARED)')
               /\ exclusive'[k] <= 1
               /\ exclusive'[k] = 1 => shared'[k] = 0
    <2>1. CASE k # l
      <3>1. \A q \in Proc : mode'[q][k] = mode[q][k]
        BY <1>2, <2>1 DEF TypeOK
      <3>2. Holders(k, LW_EXCLUSIVE)' = Holders(k, LW_EXCLUSIVE) /\ Holders(k, LW_SHARED)' = Holders(k, LW_SHARED)
        BY <3>1 DEF Holders
      <3>3. exclusive'[k] = exclusive[k] /\ shared'[k] = shared[k]
        BY <1>2, <2>1 DEF TypeOK, DropHold
      <3>. QED
        BY <3>2, <3>3 DEF MutualExclusion
    <2>2. CASE k = l
      <3>1. mode'[p][l] = "none" /\ \A q \in Proc \ {p} : mode'[q][l] = mode[q][l]
        BY <1>2 DEF TypeOK
      <3>2. \A n \in {LW_EXCLUSIVE, LW_SHARED} : Holders(l, n)' = Holders(l, n) \ {p}
        BY <3>1 DEF Holders
      <3>3. /\ exclusive[l] = Cardinality(Holders(l, LW_EXCLUSIVE))
            /\ shared[l] = Cardinality(Holders(l, LW_SHARED))
            /\ exclusive[l] <= 1 /\ (exclusive[l] = 1 => shared[l] = 0)
        BY DEF MutualExclusion
      <3>4. exclusive[l] \in Nat /\ shared[l] \in Nat
        BY <3>3, HoldersFinite, FS_CardinalityType
      <3>5. CASE mode[p][l] = LW_EXCLUSIVE
        <4>1. p \in Holders(l, LW_EXCLUSIVE) /\ p \notin Holders(l, LW_SHARED)
          BY <3>5 DEF Holders
        <4>2. Cardinality(Holders(l, LW_EXCLUSIVE) \ {p}) = Cardinality(Holders(l, LW_EXCLUSIVE)) - 1
          BY <4>1, HoldersFinite, FS_RemoveElement
        <4>3. Holders(l, LW_EXCLUSIVE) # {}
          BY <4>1
        <4>4. exclusive[l] = 1
          BY <3>3, <3>4, <4>3, HoldersFinite, FS_EmptySet
        <4>5. exclusive'[l] = 0 /\ shared'[l] = shared[l]
          BY <1>2, <4>4 DEF DropHold, TypeOK
        <4>6. Holders(l, LW_SHARED)' = Holders(l, LW_SHARED)
          BY <3>2, <4>1
        <4>. QED
          BY <2>2, <3>2, <3>3, <4>2, <4>4, <4>5, <4>6
      <3>6. CASE mode[p][l] = LW_SHARED
        <4>1. p \in Holders(l, LW_SHARED) /\ p \notin Holders(l, LW_EXCLUSIVE)
          BY <3>6 DEF Holders
        <4>2. Cardinality(Holders(l, LW_SHARED) \ {p}) = Cardinality(Holders(l, LW_SHARED)) - 1
          BY <4>1, HoldersFinite, FS_RemoveElement
        <4>3. Holders(l, LW_SHARED) # {}
          BY <4>1
        <4>4. shared[l] # 0
          BY <3>3, <4>3, HoldersFinite, FS_EmptySet
        <4>5. exclusive[l] = 0
          BY <3>3, <3>4, <4>4
        <4>6. exclusive'[l] = 0 /\ shared'[l] = shared[l] - 1
          BY <1>2, <4>5 DEF DropHold, TypeOK
        <4>7. Holders(l, LW_EXCLUSIVE)' = Holders(l, LW_EXCLUSIVE)
          BY <3>2, <4>1
        <4>. QED
          BY <2>2, <3>2, <3>3, <4>2, <4>5, <4>6, <4>7
      <3>. QED
        BY <1>1, <3>5, <3>6
    <2>. QED
      BY <2>1, <2>2
  <1>. QED
    BY <1>3 DEF MutualExclusion

\* Granting appends a lock that was not held.
LEMMA GrantHeld ==
  ASSUME TypeOK, CallOK, Ordered, HeldMatch,
         NEW p \in Proc, NEW l \in Lock, NEW m \in {LW_EXCLUSIVE, LW_SHARED}, Granted(p, l, m)
  PROVE  CallOK' /\ Ordered' /\ HeldMatch'
  <1>1. /\ held_lwlocks' = [held_lwlocks EXCEPT ![p] = Append(@, l)]
        /\ mode' = [mode EXCEPT ![p][l] = m]
        /\ pc'[p] = "idle"
        /\ \A q \in Proc \ {p} : pc'[q] = pc[q] /\ call'[q] = call[q]
        /\ mode[p][l] = "none"
    BY DEF Granted
  <1>2. CallOK'
    BY <1>1 DEF CallOK
  <1>. DEFINE h == held_lwlocks[p]
  <1>3. h \in Seq(Lock) /\ held_lwlocks'[p] = Append(h, l)
        /\ \A q \in Proc \ {p} : held_lwlocks'[q] = held_lwlocks[q]
    BY <1>1 DEF TypeOK
  <1>4. /\ DOMAIN Append(h, l) = 1..(Len(h) + 1) /\ DOMAIN h = 1..Len(h) /\ Len(h) \in Nat
        /\ Append(h, l)[Len(h) + 1] = l
        /\ \A i \in 1..Len(h) : Append(h, l)[i] = h[i]
    BY <1>3
  <1>5. \A i \in 1..Len(h) : h[i] # l
    BY <1>1, <1>4 DEF HeldMatch
  <1>6. Ordered'
    <2>1. ASSUME NEW q \in Proc
          PROVE  \A i, j \in DOMAIN held_lwlocks'[q] : i < j => held_lwlocks'[q][i] # held_lwlocks'[q][j]
      <3>1. CASE q # p
        BY <1>3, <3>1 DEF Ordered
      <3>2. CASE q = p
        <4>1. \A i, j \in 1..Len(h) : i < j => h[i] # h[j]
          BY <1>4 DEF Ordered
        <4>2. ASSUME NEW i \in 1..(Len(h) + 1), NEW j \in 1..(Len(h) + 1), i < j
              PROVE  Append(h, l)[i] # Append(h, l)[j]
          <5>1. i \in 1..Len(h)
            BY <1>4, <4>2
          <5>2. CASE j = Len(h) + 1
            BY <1>4, <1>5, <5>1, <5>2
          <5>3. CASE j # Len(h) + 1
            <6>1. j \in 1..Len(h)
              BY <1>4, <5>3
            <6>. QED
              BY <1>4, <4>1, <4>2, <5>1, <6>1
          <5>. QED
            BY <5>2, <5>3
        <4>3. held_lwlocks'[q] = Append(h, l) /\ DOMAIN Append(h, l) = 1..(Len(h) + 1)
          BY <1>3, <1>4, <3>2
        <4>4. \A i, j \in 1..(Len(h) + 1) : i < j => Append(h, l)[i] # Append(h, l)[j]
          BY <4>2
        <4>. QED
          BY <4>3, <4>4, Zenon
      <3>. QED
        BY <3>1, <3>2
    <2>2. ASSUME NEW q \in Proc, pc'[q] \in {"sleep", "retry"}
          PROVE  InOrder(q, call[q].lock)'
      BY <1>1, <1>3, <2>2 DEF Ordered, InOrder
    <2>. QED
      BY <2>1, <2>2 DEF Ordered
  <1>7. HeldMatch'
    <2>1. ASSUME NEW q \in Proc, NEW k \in Lock
          PROVE  mode'[q][k] # "none" <=> \E i \in DOMAIN held_lwlocks'[q] : held_lwlocks'[q][i] = k
      <3>1. CASE q # p
        <4>1. mode'[q][k] = mode[q][k] /\ held_lwlocks'[q] = held_lwlocks[q]
          BY <1>1, <1>3, <3>1 DEF TypeOK
        <4>. QED
          BY <4>1 DEF HeldMatch
      <3>2. CASE q = p /\ k # l
        <4>1. mode'[p][k] = mode[p][k]
          BY <1>1, <3>2 DEF TypeOK
        <4>2. (\E i \in 1..(Len(h) + 1) : Append(h, l)[i] = k) <=> (\E i \in 1..Len(h) : h[i] = k)
          BY <1>4, <3>2
        <4>3. mode[p][k] # "none" <=> \E i \in 1..Len(h) : h[i] = k
          BY <1>4 DEF HeldMatch
        <4>. QED
          BY <1>3, <1>4, <3>2, <4>1, <4>2, <4>3
      <3>3. CASE q = p /\ k = l
        <4>1. mode'[p][l] = m
          BY <1>1 DEF TypeOK
        <4>2. Len(h) + 1 \in DOMAIN Append(h, l) /\ Append(h, l)[Len(h) + 1] = l
          BY <1>4
        <4>. QED
          BY <1>3, <3>3, <4>1, <4>2
      <3>. QED
        BY <3>1, <3>2, <3>3
    <2>. QED
      BY <2>1 DEF HeldMatch
  <1>. QED
    BY <1>2, <1>6, <1>7

\* Releasing drops the only entry of the lock.
LEMMA ReleaseHeld ==
  ASSUME TypeOK, CallOK, Ordered, HeldMatch, NEW p \in Proc, NEW l \in Lock, Released(p, l)
  PROVE  CallOK' /\ Ordered' /\ HeldMatch'
  <1>. DEFINE h == held_lwlocks[p]
  <1>0. PICK e \in DOMAIN h : h[e] = l /\ held_lwlocks' = [held_lwlocks EXCEPT ![p] = RemoveHeld(@, e)]
    BY DEF Released
  <1>1. /\ mode' = [mode EXCEPT ![p][l] = "none"]
        /\ pc'[p] = "awaken"
        /\ \A q \in Proc \ {p} : pc'[q] = pc[q] /\ call'[q] = call[q]
    BY DEF Released
  <1>2. CallOK'
    BY <1>1 DEF CallOK
  <1>. DEFINE r == RemoveHeld(h, e)
              n == Len(h) - 1
  <1>3. h \in Seq(Lock) /\ held_lwlocks'[p] = r /\ \A q \in Proc \ {p} : held_lwlocks'[q] = held_lwlocks[q]
    BY <1>0 DEF TypeOK
  <1>4. /\ DOMAIN h = 1..Len(h) /\ Len(h) \in Nat /\ e \in 1..Len(h)
        /\ DOMAIN r = 1..n
        /\ \A j \in 1..n : r[j] = IF j < e THEN h[j] ELSE h[j + 1]
    <2>1. r \in Seq(Lock) /\ Len(r) = n /\ \A j \in 1..n : r[j] = IF j < e THEN h[j] ELSE h[j + 1]
      BY <1>0, <1>3, RemoveHeldType
    <2>2. DOMAIN r = 1..n
      BY <2>1
    <2>. QED
      BY <1>0, <1>3, <2>1, <2>2
  <1>5. \A i, j \in 1..Len(h) : i < j => h[i] # h[j]
    BY <1>4 DEF Ordered
  <1>. DEFINE old(j) == IF j < e THEN j ELSE j + 1
  <1>6. \A j \in 1..n : old(j) \in 1..Len(h) /\ old(j) # e /\ r[j] = h[old(j)]
    BY <1>4
  <1>7. \A i, j \in 1..n : i < j => old(i) < old(j)
    BY <1>4
  <1>8. \A i \in 1..Len(h) : i # e => \E j \in 1..n : old(j) = i
    <2>1. ASSUME NEW i \in 1..Len(h), i # e
          PROVE  \E j \in 1..n : old(j) = i
      <3>1. CASE i < e
        BY <1>4, <3>1
      <3>2. CASE i > e
        <4>1. i - 1 \in 1..n /\ old(i - 1) = i
          BY <1>4, <3>2
        <4>. QED
          BY <4>1
      <3>. QED
        BY <1>4, <2>1, <3>1, <3>2
    <2>. QED
      BY <2>1
  <1>. HIDE DEF h, r, n, old
  <1>9. Ordered'
    <2>1. ASSUME NEW q \in Proc
          PROVE  \A i, j \in DOMAIN held_lwlocks'[q] : i < j => held_lwlocks'[q][i] # held_lwlocks'[q][j]
      <3>1. CASE q # p
        BY <1>3, <3>1 DEF Ordered
      <3>2. CASE q = p
        <4>1. ASSUME NEW i \in 1..n, NEW j \in 1..n, i < j
              PROVE  r[i] # r[j]
          BY <1>5, <1>6, <1>7, <4>1
        <4>2. held_lwlocks'[q] = r /\ DOMAIN r = 1..n
          BY <1>3, <1>4, <3>2
        <4>3. \A i, j \in 1..n : i < j => r[i] # r[j]
          BY <4>1
        <4>. QED
          BY <4>2, <4>3, Zenon
      <3>. QED
        BY <3>1, <3>2
    <2>2. ASSUME NEW q \in Proc, pc'[q] \in {"sleep", "retry"}
          PROVE  InOrder(q, call[q].lock)'
      BY <1>1, <1>3, <2>2 DEF Ordered, InOrder
    <2>. QED
      BY <2>1, <2>2 DEF Ordered
  <1>10. HeldMatch'
    <2>1. ASSUME NEW q \in Proc, NEW k \in Lock
          PROVE  mode'[q][k] # "none" <=> \E i \in DOMAIN held_lwlocks'[q] : held_lwlocks'[q][i] = k
      <3>1. CASE q # p
        <4>1. mode'[q][k] = mode[q][k] /\ held_lwlocks'[q] = held_lwlocks[q]
          BY <1>1, <1>3, <3>1 DEF TypeOK
        <4>. QED
          BY <4>1 DEF HeldMatch
      <3>2. CASE q = p /\ k # l
        <4>1. mode'[p][k] = mode[p][k]
          BY <1>1, <3>2 DEF TypeOK
        <4>2. (\E i \in 1..n : r[i] = k) <=> (\E i \in 1..Len(h) : h[i] = k)
          BY <1>0, <1>6, <1>8, <3>2
        <4>3. mode[p][k] # "none" <=> \E i \in 1..Len(h) : h[i] = k
          BY <1>4 DEF HeldMatch, h
        <4>. QED
          BY <1>3, <1>4, <3>2, <4>1, <4>2, <4>3
      <3>3. CASE q = p /\ k = l
        <4>1. mode'[p][l] = "none"
          BY <1>1 DEF TypeOK
        <4>2. ASSUME NEW i \in 1..n
              PROVE  r[i] # l
          <5>1. old(i) \in 1..Len(h) /\ old(i) # e /\ r[i] = h[old(i)]
            BY <1>6
          <5>2. h[old(i)] # h[e]
            <6>1. old(i) < e \/ e < old(i)
              BY <1>4, <5>1
            <6>. QED
              BY <1>4, <1>5, <5>1, <6>1
          <5>. QED
            BY <1>0, <5>1, <5>2
        <4>. QED
          BY <1>3, <1>4, <3>3, <4>1, <4>2
      <3>. QED
        BY <3>1, <3>2, <3>3
    <2>. QED
      BY <2>1 DEF HeldMatch
  <1>. QED
    BY <1>2, <1>9, <1>10

\* Every step keeps the holds, their order and their counts consistent.
LEMMA HoldStepInv ==
  ASSUME TypeOK, CallOK, Ordered, HeldMatch, MutualExclusion,
         HoldStep \/ UNCHANGED <<exclusive, shared, holdVars, pc, call>>
  PROVE  CallOK' /\ Ordered' /\ HeldMatch' /\ MutualExclusion'
  <1>1. ASSUME UNCHANGED <<exclusive, shared, holdVars>>
        PROVE  HeldMatch' /\ MutualExclusion'
    <2>1. HeldMatch'
      BY <1>1 DEF HeldMatch, holdVars
    <2>2. \A l \in Lock, m \in {LW_EXCLUSIVE, LW_SHARED} : Holders(l, m)' = Holders(l, m)
      BY <1>1 DEF Holders, holdVars
    <2>3. MutualExclusion'
      BY <1>1, <2>2 DEF MutualExclusion
    <2>. QED
      BY <2>1, <2>3
  <1>2. ASSUME NEW p \in Proc, Waits(p)
        PROVE  CallOK' /\ Ordered'
    <2>1. CallOK'
      BY <1>2 DEF Waits, CallOK
    <2>2. held_lwlocks' = held_lwlocks
      BY <1>2 DEF Waits, holdVars
    <2>3. ASSUME NEW q \in Proc, pc'[q] \in {"sleep", "retry"}
          PROVE  InOrder(q, call[q].lock)'
      BY <1>2, <2>2, <2>3 DEF Waits, Ordered, InOrder
    <2>4. Ordered'
      BY <2>2, <2>3 DEF Ordered
    <2>. QED
      BY <2>1, <2>4
  <1>3. CASE UNCHANGED <<exclusive, shared, holdVars, pc, call>>
    <2>1. CallOK' /\ Ordered'
      BY <1>3 DEF CallOK, Ordered, InOrder, holdVars
    <2>. QED
      BY <1>1, <1>3, <2>1
  <1>4. CASE HoldStep
    <2>1. PICK p \in Proc : Waits(p) \/ \E l \in Lock : Released(p, l) \/ \E m \in {LW_EXCLUSIVE, LW_SHARED} : Granted(p, l, m)
      BY <1>4 DEF HoldStep
    <2>2. CASE Waits(p)
      BY <1>1, <1>2, <2>2 DEF Waits
    <2>3. ASSUME NEW l \in Lock, Released(p, l)
          PROVE  CallOK' /\ Ordered' /\ HeldMatch' /\ MutualExclusion'
      BY <2>3, ReleaseHeld, ReleaseMutex
    <2>4. ASSUME NEW l \in Lock, NEW m \in {LW_EXCLUSIVE, LW_SHARED}, Granted(p, l, m)
          PROVE  CallOK' /\ Ordered' /\ HeldMatch' /\ MutualExclusion'
      BY <2>4, GrantHeld, GrantMutex
    <2>. QED
      BY <2>1, <2>2, <2>3, <2>4
  <1>. QED
    BY <1>3, <1>4

\* Every step keeps the types.
LEMMA NextType ==
  ASSUME TypeOK, CallOK, [Next]_vars
  PROVE  TypeOK'
  <1>1. ASSUME NEW p \in Proc, NEW l \in Lock, NEW m \in {LW_EXCLUSIVE, LW_SHARED}, LWLockAcquire(p, l, m)
        PROVE  TypeOK'
    <2>1. [op |-> "Acquire", lock |-> l, mode |-> m, val |-> NULL] \in AcquireCall
      BY DEF AcquireCall
    <2>. QED
      BY <1>1, <2>1, AcquireCommonType DEF LWLockAcquire
  <1>2. ASSUME NEW p \in Proc, NEW l \in Lock, NEW v \in Val, LWLockAcquireWithVar(p, l, v)
        PROVE  TypeOK'
    <2>1. [op |-> "Acquire", lock |-> l, mode |-> LW_EXCLUSIVE, val |-> v] \in AcquireCall
      BY DEF AcquireCall
    <2>. QED
      BY <1>2, <2>1, AcquireCommonType DEF LWLockAcquireWithVar
  <1>3. CASE UNCHANGED vars \/ Finished
    BY <1>3 DEF Finished, TypeOK, vars, lockVars, waitVars, wakeVars, holdVars, signalVars
  <1>. QED
    BY <1>1, <1>2, <1>3, ConditionalAcquireType, AcquireOrWaitType, WaitForVarType, UpdateVarType,
       RetryType, SemaphoreWaitType, ReleaseType, AwakenType, OtherType
       DEF Next, LWLockCall, Progress

\* Init establishes the invariant.
LEMMA InitLInv == Init => LInv
  <1>. SUFFICES ASSUME Init PROVE LInv
    OBVIOUS
  <1>2. CallOK /\ Ordered
    BY DEF Init, CallOK, Ordered
  <1>3. HeldMatch
    BY DEF Init, HeldMatch
  <1>4. \A l \in Lock, m \in {LW_EXCLUSIVE, LW_SHARED} : Holders(l, m) = {}
    BY DEF Init, Holders
  <1>5. \A l \in Lock : exclusive[l] = 0 /\ shared[l] = 0
    BY DEF Init
  <1>6. MutualExclusion
    BY <1>4, <1>5, FS_EmptySet DEF MutualExclusion
  <1>. QED
    BY <1>2, <1>3, <1>6, InitTypeOK DEF LInv

\* Every step keeps the invariant.
LEMMA NextLInv == LInv /\ [Next]_vars => LInv'
  BY NextType, NextHold, HoldStepInv DEF LInv

\* The invariant holds in every reachable state, whatever the backends, the locks
\* and the bounds are.
THEOREM Invariance == Spec => []LInv
  BY InitLInv, NextLInv, PTL DEF Spec

\* Every variable of the lock manager keeps its type.
THEOREM TypeCorrect == Spec => []TypeOK
  <1>1. LInv => TypeOK
    BY DEF LInv
  <1>. QED
    BY <1>1, Invariance, PTL

\* The counters of a lock are the number of its holders and an exclusive holder
\* is alone, for any number of backends and locks.
THEOREM MutualExclusionCorrect == Spec => []MutualExclusion
  <1>1. LInv => MutualExclusion
    BY DEF LInv
  <1>. QED
    BY <1>1, Invariance, PTL

-----------------------------------------------------------------------------
\* A grant is an Acquire of the abstract lock: the counters CanAcquire reads are
\* zero only if no other backend holds the lock in a conflicting mode.
LEMMA GrantImplements ==
  ASSUME LInv, NEW p \in Proc, NEW l \in Lock, NEW m \in {LW_EXCLUSIVE, LW_SHARED}, Granted(p, l, m)
  PROVE  RW!Acquire(p, l, m)
  <1>1. TypeOK /\ HeldMatch /\ MutualExclusion
    BY DEF LInv
  <1>2. mode[p][l] = "none"
    BY DEF Granted
  <1>3. exclusive[l] = 0 /\ (m = LW_EXCLUSIVE => shared[l] = 0)
    BY DEF Granted, CanAcquire
  <1>4. Cardinality(Holders(l, LW_EXCLUSIVE)) = 0 /\ (m = LW_EXCLUSIVE => Cardinality(Holders(l, LW_SHARED)) = 0)
    BY <1>1, <1>3 DEF MutualExclusion
  <1>5. Holders(l, LW_EXCLUSIVE) = {} /\ (m = LW_EXCLUSIVE => Holders(l, LW_SHARED) = {})
    BY <1>4, HoldersFinite, FS_EmptySet
  <1>6. ASSUME NEW q \in Proc
        PROVE  RW!Compatible(m, mode[q][l])
    <2>1. mode[q][l] \in {"none", LW_EXCLUSIVE, LW_SHARED}
      BY <1>1 DEF TypeOK
    <2>2. mode[q][l] # LW_EXCLUSIVE /\ (m = LW_EXCLUSIVE => mode[q][l] # LW_SHARED)
      BY <1>5 DEF Holders
    <2>. QED
      BY <2>1, <2>2 DEF RW!Compatible, RW!SHARED
  <1>7. mode' = [mode EXCEPT ![p][l] = m]
    BY DEF Granted
  <1>. QED
    BY <1>2, <1>6, <1>7 DEF RW!Acquire

\* Every step is a step of the abstract locks or leaves the holds alone.
LEMMA StepImplements == LInv /\ [Next]_vars => [RW!Next]_mode
  <1>. SUFFICES ASSUME LInv, [Next]_vars PROVE [RW!Next]_mode
    OBVIOUS
  <1>1. HoldStep \/ UNCHANGED mode
    BY NextHold DEF LInv, holdVars
  <1>2. ASSUME NEW p \in Proc, Waits(p)
        PROVE  UNCHANGED mode
    BY <1>2 DEF Waits, holdVars
  <1>3. ASSUME NEW p \in Proc, NEW l \in Lock, Released(p, l)
        PROVE  RW!Next
    <2>1. mode[p][l] # "none"
      BY <1>3 DEF LInv, HeldMatch, Released
    <2>2. RW!Release(p, l)
      BY <1>3, <2>1 DEF Released, RW!Release
    <2>. QED
      BY <2>2 DEF RW!Next
  <1>4. ASSUME NEW p \in Proc, NEW l \in Lock, NEW m \in {LW_EXCLUSIVE, LW_SHARED}, Granted(p, l, m)
        PROVE  RW!Next
    BY <1>4, GrantImplements DEF RW!Next, RW!EXCLUSIVE, RW!SHARED
  <1>. QED
    BY <1>1, <1>2, <1>3, <1>4 DEF HoldStep

\* The lightweight locks implement shared/exclusive locks: what a caller of
\* LWLockAcquire and its variants relies on, for any number of backends and locks.
THEOREM Refinement == Spec => RWSpec
  <1>1. Init => RW!Init
    BY DEF Init, RW!Init
  <1>2. LInv /\ [Next]_vars => [RW!Next]_mode
    BY StepImplements
  <1>. QED
    BY <1>1, <1>2, Invariance, PTL DEF Spec, RWSpec, RW!Spec

HIDE BoundAssumption
-----------------------------------------------------------------------------
(* Linked lists.                                                           *)

\* The links k lead from h through q.
IsList(k, h, q) ==
  /\ q \in Seq(Proc)
  /\ IF Len(q) = 0 THEN h = NULL ELSE q[1] = h
  /\ \A i \in 1..Len(q) : k[q[i]] = IF i < Len(q) THEN q[i + 1] ELSE NULL

LinkType == [Proc -> Proc \cup {NULL}]

\* The least of a set of natural numbers.
LEMMA Smallest ==
  ASSUME NEW S \in SUBSET Nat, S # {}
  PROVE  \E x \in S : \A y \in S : x <= y
  <1>1. PICK x \in S : \A y \in S : ~(<<y, x>> \in OpToRel(<, Nat))
    BY NatLessThanWellFounded, WFMin, Zenon
  <1>2. \A y \in S : ~(y < x)
    BY <1>1, Zenon DEF OpToRel
  <1>. QED
    BY <1>2

\* What a sequence of processes is.
LEMMA SeqFacts ==
  ASSUME NEW q \in Seq(Proc)
  PROVE  Len(q) \in Nat /\ DOMAIN q = 1..Len(q) /\ \A i \in 1..Len(q) : q[i] \in Proc
  OBVIOUS

\* A list passes nobody twice: from a second time on it would go on as from the first.
LEMMA ListDistinct ==
  ASSUME NEW k, NEW h, NEW q, IsList(k, h, q)
  PROVE  \A i, j \in 1..Len(q) : q[i] = q[j] => i = j
  <1>1. q \in Seq(Proc) /\ Len(q) \in Nat /\ \A i \in 1..Len(q) : q[i] \in Proc
    BY SeqFacts DEF IsList
  <1>. DEFINE Twice(d) == \E i, j \in 1..Len(q) : i < j /\ q[i] = q[j] /\ d = Len(q) - j
              S == {d \in Nat : Twice(d)}
  <1>2. SUFFICES S = {}
    <2>1. ASSUME NEW i \in 1..Len(q), NEW j \in 1..Len(q), i < j PROVE q[i] # q[j]
      <3>1. SUFFICES ASSUME q[i] = q[j] PROVE FALSE
        OBVIOUS
      <3>2. Len(q) - j \in Nat
        BY <1>1
      <3>3. Twice(Len(q) - j)
        BY <2>1, <3>1
      <3>. HIDE DEF Twice
      <3>. QED
        BY <1>2, <3>2, <3>3
    <2>. QED
      BY <1>1, <2>1
  <1>3. SUFFICES ASSUME S # {} PROVE FALSE
    OBVIOUS
  <1>4. PICK d \in S : \A e \in S : d <= e
    <2>1. S \in SUBSET Nat
      OBVIOUS
    <2>. HIDE DEF S
    <2>. QED
      BY <1>3, <2>1, Smallest
  <1>5. PICK i \in 1..Len(q), j \in 1..Len(q) : i < j /\ q[i] = q[j] /\ d = Len(q) - j /\ d \in Nat
    OBVIOUS
  <1>. HIDE DEF S
  <1>6. k[q[i]] = q[i + 1] /\ q[i + 1] \in Proc
    BY <1>1, <1>5 DEF IsList
  <1>7. CASE j = Len(q)
    <2>1. k[q[j]] = NULL
      BY <1>1, <1>7 DEF IsList
    <2>. QED
      BY <1>5, <1>6, <2>1
  <1>8. CASE j # Len(q)
    <2>1. k[q[j]] = q[j + 1] /\ j + 1 \in 1..Len(q) /\ i + 1 \in 1..Len(q) /\ i + 1 < j + 1
      BY <1>1, <1>5, <1>8 DEF IsList
    <2>2. q[i + 1] = q[j + 1]
      BY <1>5, <1>6, <2>1
    <2>3. d - 1 = Len(q) - (j + 1) /\ d - 1 \in Nat
      <3>1. j \in Nat /\ j < Len(q)
        BY <1>1, <1>8
      <3>. QED
        BY <1>1, <1>5, <3>1
    <2>4. Twice(d - 1)
      BY <2>1, <2>2, <2>3
    <2>. HIDE DEF Twice
    <2>5. d - 1 \in S
      BY <2>3, <2>4 DEF S
    <2>6. d <= d - 1
      BY <1>4, <2>5
    <2>. QED
      BY <1>5, <2>6
  <1>. QED
    BY <1>7, <1>8

\* So it is no longer than there are processes.
LEMMA ListLength ==
  ASSUME NEW k, NEW h, NEW q, IsList(k, h, q)
  PROVE  Len(q) <= Cardinality(Proc) /\ Cardinality(Proc) \in Nat
  <1>1. q \in Seq(Proc) /\ Len(q) \in Nat /\ q \in [1..Len(q) -> Proc]
    BY DEF IsList
  <1>2. q \in Injection(1..Len(q), Proc)
    BY <1>1, ListDistinct, Zenon DEF Injection, IsInjective
  <1>3. Cardinality(1..Len(q)) <= Cardinality(Proc)
    BY <1>2, FS_Injection
  <1>4. Cardinality(1..Len(q)) = Len(q)
    BY <1>1, FS_Interval
  <1>. QED
    BY <1>3, <1>4, FS_CardinalityType

\* There is only one list from where it starts.
LEMMA ListUnique ==
  ASSUME NEW k, NEW h, NEW q, NEW r, IsList(k, h, q), IsList(k, h, r)
  PROVE  q = r
  <1>1. /\ q \in Seq(Proc) /\ Len(q) \in Nat /\ \A i \in 1..Len(q) : q[i] \in Proc
        /\ r \in Seq(Proc) /\ Len(r) \in Nat /\ \A i \in 1..Len(r) : r[i] \in Proc
    BY SeqFacts DEF IsList
  <1>. DEFINE Differs(i) == i >= 1 /\ i <= Len(q) /\ ~(i <= Len(r) /\ q[i] = r[i])
              S == {i \in Nat : Differs(i)}
  <1>2. S = {}
    <2>1. SUFFICES ASSUME S # {} PROVE FALSE
      OBVIOUS
    <2>2. PICK i \in S : \A j \in S : i <= j
      <3>1. S \in SUBSET Nat
        OBVIOUS
      <3>. HIDE DEF S
      <3>. QED
        BY <2>1, <3>1, Smallest
    <2>3. CASE i = 1
      BY <1>1, <2>3 DEF IsList
    <2>4. CASE i # 1
      <3>1. i - 1 \in Nat /\ i - 1 >= 1 /\ i - 1 < Len(q)
        BY <1>1, <2>4
      <3>2. ~Differs(i - 1)
        BY <2>2, <3>1
      <3>3. i - 1 <= Len(r) /\ q[i - 1] = r[i - 1]
        BY <1>1, <3>1, <3>2
      <3>4. k[q[i - 1]] = q[i] /\ q[i] \in Proc
        BY <1>1, <3>1 DEF IsList
      <3>5. k[r[i - 1]] = IF i - 1 < Len(r) THEN r[i] ELSE NULL
        BY <1>1, <3>1, <3>3 DEF IsList
      <3>. QED
        BY <1>1, <3>1, <3>3, <3>4, <3>5
    <2>. QED
      BY <2>3, <2>4
  <1>3. \A i \in 1..Len(q) : i <= Len(r) /\ q[i] = r[i]
    BY <1>1, <1>2
  <1>4. Len(q) = Len(r)
    <2>1. Len(q) <= Len(r)
      BY <1>1, <1>3
    <2>2. CASE Len(q) < Len(r) /\ Len(q) = 0
      BY <1>1, <2>2 DEF IsList
    <2>3. CASE Len(q) < Len(r) /\ Len(q) # 0
      <3>1. k[q[Len(q)]] = NULL
        BY <1>1, <2>3 DEF IsList
      <3>2. k[r[Len(q)]] = r[Len(q) + 1] /\ r[Len(q) + 1] \in Proc
        BY <1>1, <2>3 DEF IsList
      <3>. QED
        BY <1>1, <1>3, <2>3, <3>1, <3>2
    <2>. QED
      BY <1>1, <2>1, <2>2, <2>3
  <1>. QED
    BY <1>1, <1>3, <1>4, SeqEqual

HasList(k, h) == \E q : IsList(k, h, q)
Members(k, h) == {x \in Proc : \E q : IsList(k, h, q) /\ \E i \in 1..Len(q) : q[i] = x}

\* The members of a list are those it leads through.
LEMMA ListMembers ==
  ASSUME NEW k, NEW h, NEW q, IsList(k, h, q)
  PROVE  \A x : x \in Members(k, h) <=> \E i \in 1..Len(q) : q[i] = x
  <1>1. \A i \in 1..Len(q) : q[i] \in Proc
    BY SeqFacts DEF IsList
  <1>. QED
    BY <1>1, ListUnique DEF Members

\* A list begins with its head; who is linked to nobody is its end.
LEMMA ListEnds ==
  ASSUME NEW k, NEW h, HasList(k, h)
  PROVE  /\ h = NULL => Members(k, h) = {}
         /\ h # NULL => h \in Members(k, h) /\ h \in Proc
         /\ \A x \in Members(k, h) : k[x] # NULL => k[x] \in Members(k, h) /\ k[x] \in Proc
         /\ \A x, y \in Members(k, h) : k[x] = k[y] => x = y
         /\ \A x \in Members(k, h) : k[x] # h
  <1>1. PICK q : IsList(k, h, q)
    BY DEF HasList
  <1>2. Len(q) \in Nat /\ \A i \in 1..Len(q) : q[i] \in Proc
    BY <1>1, SeqFacts DEF IsList
  <1>3. \A x : x \in Members(k, h) <=> \E i \in 1..Len(q) : q[i] = x
    BY <1>1, ListMembers
  <1>4. \A i, j \in 1..Len(q) : q[i] = q[j] => i = j
    BY <1>1, ListDistinct
  <1>5. h = NULL => Len(q) = 0
    BY <1>1, <1>2 DEF IsList
  <1>6. h # NULL => 1 \in 1..Len(q) /\ q[1] = h
    BY <1>1, <1>2 DEF IsList
  <1>7. \A i \in 1..Len(q) : k[q[i]] = IF i < Len(q) THEN q[i + 1] ELSE NULL
    BY <1>1 DEF IsList
  <1>8. ASSUME NEW i \in 1..Len(q), k[q[i]] # NULL
        PROVE  i < Len(q) /\ i + 1 \in 1..Len(q) /\ k[q[i]] = q[i + 1]
    BY <1>2, <1>7, <1>8
  <1>9. ASSUME NEW x \in Members(k, h), k[x] # NULL PROVE k[x] \in Members(k, h) /\ k[x] \in Proc
    <2>1. PICK i \in 1..Len(q) : q[i] = x
      BY <1>3
    <2>. QED
      BY <1>2, <1>3, <1>8, <1>9, <2>1
  <1>10. ASSUME NEW x \in Members(k, h), NEW y \in Members(k, h), k[x] = k[y] PROVE x = y
    <2>1. PICK i \in 1..Len(q), j \in 1..Len(q) : q[i] = x /\ q[j] = y
      BY <1>3
    <2>2. CASE k[x] = NULL
      <3>1. ASSUME NEW m \in 1..Len(q), k[q[m]] = NULL PROVE m = Len(q)
        <4>1. m < Len(q) => q[m + 1] \in Proc
          BY <1>2
        <4>. QED
          BY <1>2, <1>7, <3>1, <4>1
      <3>2. i = Len(q) /\ j = Len(q)
        BY <1>10, <2>1, <2>2, <3>1
      <3>. QED
        BY <2>1, <3>2
    <2>3. CASE k[x] # NULL
      <3>1. i + 1 = j + 1
        BY <1>4, <1>8, <1>10, <2>1, <2>3
      <3>. QED
        BY <2>1, <3>1
    <2>. QED
      BY <2>2, <2>3
  <1>11. ASSUME NEW x \in Members(k, h) PROVE k[x] # h
    <2>1. PICK i \in 1..Len(q) : q[i] = x
      BY <1>3
    <2>2. CASE k[x] = NULL
      BY <1>5, <2>1, <2>2
    <2>3. CASE k[x] # NULL
      <3>1. i + 1 # 1
        OBVIOUS
      <3>. QED
        BY <1>4, <1>6, <1>8, <2>1, <2>3, <3>1
    <2>. QED
      BY <2>2, <2>3
  <1>. QED
    BY <1>2, <1>3, <1>5, <1>6, <1>9, <1>10, <1>11

\* Who is not on a list may be linked elsewhere.
LEMMA ListFrame ==
  ASSUME NEW k, NEW k2, NEW h, HasList(k, h), \A x : x \in Members(k, h) => k2[x] = k[x]
  PROVE  HasList(k2, h) /\ Members(k2, h) = Members(k, h)
  <1>1. PICK q : IsList(k, h, q)
    BY DEF HasList
  <1>2. \A x : x \in Members(k, h) <=> \E i \in 1..Len(q) : q[i] = x
    BY <1>1, ListMembers
  <1>3. IsList(k2, h, q)
    BY <1>1, <1>2 DEF IsList
  <1>4. \A x : x \in Members(k2, h) <=> \E i \in 1..Len(q) : q[i] = x
    BY <1>3, ListMembers
  <1>. QED
    BY <1>2, <1>3, <1>4 DEF HasList

\* A step that links none of its members elsewhere leaves a list as it is.
LEMMA ListStays ==
  \A h : HasList(lwWaitLink, h) /\ (\A x : x \in Members(lwWaitLink, h) => lwWaitLink'[x] = lwWaitLink[x]) =>
    HasList(lwWaitLink', h) /\ Members(lwWaitLink', h) = Members(lwWaitLink, h)
  BY ListFrame

\* One more at the front.
LEMMA ListFront ==
  ASSUME NEW k, NEW k2, NEW h, HasList(k, h), NEW p \in Proc, p \notin Members(k, h),
         k2[p] = h, \A x : x \in Members(k, h) => k2[x] = k[x]
  PROVE  HasList(k2, p) /\ Members(k2, p) = Members(k, h) \cup {p}
  <1>1. k2[p] = h /\ \A x : x \in Members(k, h) => k2[x] = k[x]
    OBVIOUS
  <1>2. PICK q : IsList(k, h, q)
    BY DEF HasList
  <1>3. q \in Seq(Proc) /\ Len(q) \in Nat /\ \A i \in 1..Len(q) : q[i] \in Proc
    BY <1>2, SeqFacts DEF IsList
  <1>4. \A x : x \in Members(k, h) <=> \E i \in 1..Len(q) : q[i] = x
    BY <1>2, ListMembers
  <1>. DEFINE r == <<p>> \o q
  <1>5. r \in Seq(Proc) /\ Len(r) = 1 + Len(q) /\ \A i \in 1..(1 + Len(q)) : r[i] = IF i <= 1 THEN p ELSE q[i - 1]
    <2>1. <<p>> \in Seq(Proc) /\ Len(<<p>>) = 1 /\ <<p>>[1] = p
      OBVIOUS
    <2>. QED
      BY <1>3, <2>1, ConcatProperties
  <1>. HIDE DEF r
  <1>6. \A i \in 1..Len(q) : k2[q[i]] = IF i < Len(q) THEN q[i + 1] ELSE NULL
    BY <1>1, <1>2, <1>3, <1>4 DEF IsList
  <1>7. ASSUME NEW i \in 1..Len(r) PROVE k2[r[i]] = IF i < Len(r) THEN r[i + 1] ELSE NULL
    <2>1. CASE i = 1
      <3>1. r[i] = p /\ h = IF Len(q) = 0 THEN NULL ELSE q[1]
        BY <1>2, <1>3, <1>5, <2>1 DEF IsList
      <3>2. CASE Len(q) = 0
        BY <1>1, <1>5, <2>1, <3>1, <3>2
      <3>3. CASE Len(q) # 0
        <4>1. r[2] = q[1] /\ i + 1 = 2 /\ i < Len(r)
          BY <1>3, <1>5, <2>1, <3>3
        <4>. QED
          BY <1>1, <3>1, <3>3, <4>1
      <3>. QED
        BY <3>2, <3>3
    <2>2. CASE i # 1
      <3>1. i - 1 \in 1..Len(q) /\ r[i] = q[i - 1]
        BY <1>3, <1>5, <2>2
      <3>2. k2[q[i - 1]] = IF i - 1 < Len(q) THEN q[i] ELSE NULL
        BY <1>3, <1>6, <3>1
      <3>3. i < Len(r) => r[i + 1] = q[i]
        BY <1>3, <1>5, <3>1
      <3>. QED
        BY <1>3, <1>5, <3>1, <3>2, <3>3
    <2>. QED
      BY <2>1, <2>2
  <1>8. IsList(k2, p, r)
    BY <1>3, <1>5, <1>7 DEF IsList
  <1>9. \A x : x \in Members(k2, p) <=> \E i \in 1..Len(r) : r[i] = x
    BY <1>8, ListMembers
  <1>10. \A x : (\E i \in 1..Len(r) : r[i] = x) <=> (x = p \/ \E i \in 1..Len(q) : q[i] = x)
    <2>1. ASSUME NEW i \in 1..Len(q) PROVE \E j \in 1..Len(r) : r[j] = q[i]
      <3>1. i + 1 \in 1..Len(r) /\ r[i + 1] = q[i]
        BY <1>3, <1>5
      <3>. QED
        BY <3>1
    <2>2. 1 \in 1..Len(r) /\ r[1] = p
      BY <1>3, <1>5
    <2>3. ASSUME NEW i \in 1..Len(r) PROVE r[i] = p \/ \E j \in 1..Len(q) : r[i] = q[j]
      <3>1. i # 1 => i - 1 \in 1..Len(q) /\ r[i] = q[i - 1]
        BY <1>3, <1>5
      <3>. QED
        BY <2>2, <3>1
    <2>4. ASSUME NEW x, \E i \in 1..Len(r) : r[i] = x PROVE x = p \/ \E i \in 1..Len(q) : q[i] = x
      BY <2>3, <2>4
    <2>5. ASSUME NEW x, x = p \/ \E i \in 1..Len(q) : q[i] = x PROVE \E i \in 1..Len(r) : r[i] = x
      BY <2>1, <2>2, <2>5
    <2>. QED
      BY <2>4, <2>5
  <1>. QED
    BY <1>4, <1>8, <1>9, <1>10 DEF HasList

\* One more at the end.
LEMMA ListBack ==
  ASSUME NEW k, NEW k2, NEW h, HasList(k, h), NEW p \in Proc, p \notin Members(k, h),
         NEW t \in Members(k, h), k[t] = NULL,
         k2[p] = NULL, k2[t] = p, \A x : x \in Members(k, h) /\ x # t => k2[x] = k[x]
  PROVE  HasList(k2, h) /\ Members(k2, h) = Members(k, h) \cup {p}
  <1>0. t \in Proc /\ t # p
    BY DEF Members
  <1>1. k2[p] = NULL /\ k2[t] = p /\ \A x : x \in Members(k, h) /\ x # t => k2[x] = k[x]
    OBVIOUS
  <1>2. PICK q : IsList(k, h, q)
    BY DEF HasList
  <1>3. q \in Seq(Proc) /\ Len(q) \in Nat /\ \A i \in 1..Len(q) : q[i] \in Proc
    BY <1>2, SeqFacts DEF IsList
  <1>4. \A x : x \in Members(k, h) <=> \E i \in 1..Len(q) : q[i] = x
    BY <1>2, ListMembers
  <1>5. Len(q) # 0 /\ t = q[Len(q)]
    BY <1>0, <1>2, <1>3, <1>4 DEF IsList
  <1>6. \A i, j \in 1..Len(q) : q[i] = q[j] => i = j
    BY <1>2, ListDistinct
  <1>. DEFINE r == Append(q, p)
  <1>7. r \in Seq(Proc) /\ Len(r) = Len(q) + 1 /\ r[Len(q) + 1] = p /\ \A i \in 1..Len(q) : r[i] = q[i]
    BY <1>3, AppendProperties
  <1>. HIDE DEF r
  <1>8. ASSUME NEW i \in 1..Len(r) PROVE k2[r[i]] = IF i < Len(r) THEN r[i + 1] ELSE NULL
    <2>1. CASE i = Len(q) + 1
      BY <1>1, <1>3, <1>7, <2>1
    <2>2. CASE i = Len(q)
      BY <1>1, <1>3, <1>5, <1>7, <2>2
    <2>3. CASE i < Len(q)
      <3>1. r[i] = q[i] /\ r[i + 1] = q[i + 1] /\ q[i] # t /\ q[i] # p /\ i < Len(r)
        BY <1>3, <1>4, <1>5, <1>6, <1>7, <2>3
      <3>2. k[q[i]] = q[i + 1]
        BY <1>2, <1>3, <2>3 DEF IsList
      <3>3. k2[q[i]] = k[q[i]]
        BY <1>1, <1>3, <1>4, <2>3, <3>1
      <3>. QED
        BY <3>1, <3>2, <3>3
    <2>. QED
      BY <1>3, <1>7, <2>1, <2>2, <2>3
  <1>9. IsList(k2, h, r)
    BY <1>2, <1>3, <1>5, <1>7, <1>8 DEF IsList
  <1>10. \A x : x \in Members(k2, h) <=> \E i \in 1..Len(r) : r[i] = x
    BY <1>9, ListMembers
  <1>11. \A x : (\E i \in 1..Len(r) : r[i] = x) <=> (x = p \/ \E i \in 1..Len(q) : q[i] = x)
    <2>1. \A i \in 1..Len(r) : i = Len(q) + 1 \/ i \in 1..Len(q)
      BY <1>3, <1>7
    <2>2. Len(q) + 1 \in 1..Len(r) /\ \A i \in 1..Len(q) : i \in 1..Len(r)
      BY <1>3, <1>7
    <2>. QED
      BY <1>7, <2>1, <2>2
  <1>. QED
    BY <1>4, <1>9, <1>10, <1>11 DEF HasList

\* These for the links of the backends: one more at the front
LEMMA FrontLinks ==
  ASSUME NEW h, NEW p \in Proc, HasList(lwWaitLink, h), p \notin Members(lwWaitLink, h), lwWaitLink'[p] = h,
         \A x : x \in Members(lwWaitLink, h) => lwWaitLink'[x] = lwWaitLink[x]
  PROVE  HasList(lwWaitLink', p) /\ Members(lwWaitLink', p) = Members(lwWaitLink, h) \cup {p}
  BY ListFront

\* and one more at the end.
LEMMA BackLinks ==
  ASSUME NEW h, NEW p \in Proc, NEW t \in Members(lwWaitLink, h),
         HasList(lwWaitLink, h), p \notin Members(lwWaitLink, h), lwWaitLink[t] = NULL,
         lwWaitLink'[p] = NULL, lwWaitLink'[t] = p,
         \A x : x \in Members(lwWaitLink, h) /\ x # t => lwWaitLink'[x] = lwWaitLink[x]
  PROVE  HasList(lwWaitLink', h) /\ Members(lwWaitLink', h) = Members(lwWaitLink, h) \cup {p}
  BY ListBack

\* A step cuts the list q from h after its n-th member,
IsCut(h, q, n) ==
  /\ IsList(lwWaitLink, h, q) /\ n \in 1..Len(q) /\ lwWaitLink'[q[n]] = NULL
  /\ \A x : x \in Members(lwWaitLink, h) /\ x # q[n] => lwWaitLink'[x] = lwWaitLink[x]

\* which makes two of it.
InTwo(h, q, n) ==
  /\ HasList(lwWaitLink', h) /\ \A x : x \in Members(lwWaitLink', h) <=> \E i \in 1..n : q[i] = x
  /\ HasList(lwWaitLink', lwWaitLink[q[n]])
  /\ \A x : x \in Members(lwWaitLink', lwWaitLink[q[n]]) <=> \E i \in (n + 1)..Len(q) : q[i] = x

\* It does.
LEMMA ListCut ==
  ASSUME NEW h, NEW q, NEW n, IsCut(h, q, n)
  PROVE  InTwo(h, q, n)
  <1>. USE DEF IsCut
  <1>. DEFINE a == SubSeq(q, 1, n)
              b == SubSeq(q, n + 1, Len(q))
  <1>1. q \in Seq(Proc) /\ Len(q) \in Nat /\ \A i \in 1..Len(q) : q[i] \in Proc
    BY SeqFacts DEF IsList
  <1>2. lwWaitLink'[q[n]] = NULL /\ \A i \in 1..Len(q) : q[i] # q[n] => lwWaitLink'[q[i]] = lwWaitLink[q[i]]
    BY ListMembers
  <1>3. \A i, j \in 1..Len(q) : q[i] = q[j] => i = j
    BY ListDistinct
  <1>4. a \in Seq(Proc) /\ Len(a) = n /\ \A i \in 1..n : a[i] = q[i]
    <2>1. \A i \in 1..n : q[i] \in Proc
      BY <1>1
    <2>2. n \in Int /\ 1 \in Int /\ 1 <= n
      OBVIOUS
    <2>3. a \in Seq(Proc) /\ Len(a) = n - 1 + 1 /\ \A i \in 1..(n - 1 + 1) : a[i] = q[1 + i - 1]
      BY <2>1, <2>2, SubSeqProperties
    <2>. QED
      BY <2>2, <2>3
  <1>5. b \in Seq(Proc) /\ Len(b) = Len(q) - n /\ \A i \in 1..(Len(q) - n) : b[i] = q[n + i]
    <2>1. \A i \in (n + 1)..Len(q) : q[i] \in Proc
      BY <1>1
    <2>2. n + 1 \in Int /\ Len(q) \in Int /\ n \in Nat /\ n <= Len(q)
      BY <1>1
    <2>3. /\ b \in Seq(Proc) /\ Len(b) = IF n + 1 <= Len(q) THEN Len(q) - (n + 1) + 1 ELSE 0
          /\ \A i \in 1..(Len(q) - (n + 1) + 1) : b[i] = q[(n + 1) + i - 1]
      BY <2>1, <2>2, SubSeqProperties
    <2>4. \A i \in 1..(Len(q) - n) : i \in 1..(Len(q) - (n + 1) + 1) /\ (n + 1) + i - 1 = n + i
      BY <2>2
    <2>5. Len(b) = Len(q) - n
      BY <2>2, <2>3
    <2>. QED
      BY <2>3, <2>4, <2>5
  <1>. HIDE DEF a, b
  <1>6. \A i \in 1..Len(q) : lwWaitLink[q[i]] = IF i < Len(q) THEN q[i + 1] ELSE NULL
    BY DEF IsList
  <1>7. IsList(lwWaitLink', h, a)
    <2>1. ASSUME NEW i \in 1..Len(a) PROVE lwWaitLink'[a[i]] = IF i < Len(a) THEN a[i + 1] ELSE NULL
      <3>1. CASE i = n
        BY <1>1, <1>2, <1>4, <3>1
      <3>2. CASE i # n
        <4>1. i \in 1..Len(q) /\ i + 1 \in 1..n /\ i < Len(q) /\ a[i] = q[i] /\ a[i + 1] = q[i + 1]
          BY <1>1, <1>4, <3>2
        <4>2. q[i] # q[n]
          BY <1>3, <3>2, <4>1
        <4>. QED
          BY <1>1, <1>2, <1>4, <1>6, <4>1, <4>2
      <3>. QED
        BY <3>1, <3>2
    <2>. QED
      BY <1>1, <1>4, <2>1 DEF IsList
  <1>8. IsList(lwWaitLink', lwWaitLink[q[n]], b)
    <2>1. ASSUME NEW i \in 1..Len(b) PROVE lwWaitLink'[b[i]] = IF i < Len(b) THEN b[i + 1] ELSE NULL
      <3>1. n + i \in 1..Len(q) /\ n + i # n /\ b[i] = q[n + i]
        BY <1>1, <1>5
      <3>2. q[n + i] # q[n]
        BY <1>3, <3>1
      <3>3. lwWaitLink'[b[i]] = IF n + i < Len(q) THEN q[n + i + 1] ELSE NULL
        BY <1>1, <1>2, <1>6, <3>1, <3>2
      <3>4. i < Len(b) => b[i + 1] = q[n + (i + 1)]
        BY <1>1, <1>5
      <3>5. (i < Len(b) <=> n + i < Len(q)) /\ n + (i + 1) = n + i + 1
        BY <1>1, <1>5
      <3>. QED
        BY <3>3, <3>4, <3>5
    <2>2. IF Len(b) = 0 THEN lwWaitLink[q[n]] = NULL ELSE b[1] = lwWaitLink[q[n]]
      <3>1. CASE n = Len(q)
        BY <1>1, <1>5, <1>6, <3>1
      <3>2. CASE n # Len(q)
        <4>1. n < Len(q) /\ Len(b) # 0 /\ b[1] = q[n + 1]
          BY <1>1, <1>5, <3>2
        <4>. QED
          BY <1>6, <4>1
      <3>. QED
        BY <3>1, <3>2
    <2>. QED
      BY <1>5, <2>1, <2>2 DEF IsList
  <1>9. \A x : x \in Members(lwWaitLink', h) <=> \E i \in 1..Len(a) : a[i] = x
    BY <1>7, ListMembers
  <1>10. \A x : x \in Members(lwWaitLink', lwWaitLink[q[n]]) <=> \E i \in 1..Len(b) : b[i] = x
    BY <1>8, ListMembers
  <1>11. \A x : (\E i \in 1..Len(a) : a[i] = x) <=> \E i \in 1..n : q[i] = x
    BY <1>4
  <1>12. \A x : (\E i \in 1..Len(b) : b[i] = x) <=> \E i \in (n + 1)..Len(q) : q[i] = x
    <2>1. \A i \in 1..Len(b) : n + i \in (n + 1)..Len(q) /\ b[i] = q[n + i]
      BY <1>1, <1>5
    <2>2. \A i \in (n + 1)..Len(q) : i - n \in 1..Len(b) /\ b[i - n] = q[i]
      BY <1>1, <1>5
    <2>. QED
      BY <2>1, <2>2
  <1>. QED
    BY <1>7, <1>8, <1>9, <1>10, <1>11, <1>12 DEF HasList, InTwo
-----------------------------------------------------------------------------
(* The invariant.                                                          *)

\* The backends that w is about to awaken.
Awakens(w) == OnList(wakeHead[w]) \cup (IF pc[w] = "clear" THEN {wakeProc[w]} ELSE {})

\* Every wait queue, and what is left of those that releasers have cut off, is a list.
ListsRight ==
  /\ \A l \in Lock : Lists(head[l]) # {}
  /\ \A w \in Proc : Lists(wakeHead[w]) # {}

\* tail is the end of the queue, if there is one.
TailRight == \A l \in Lock : head[l] # NULL => tail[l] \in Queued(l) /\ lwWaitLink[tail[l]] = NULL

\* Who is on a list sleeps with lwWaiting set, and the other way round.
SleepersRight ==
  /\ \A l \in Lock : \A p \in Queued(l) : pc[p] = "sleep" /\ lwWaiting[p] /\ call[p].lock = l
  /\ \A w \in Proc : \A p \in Awakens(w) : pc[p] = "sleep" /\ lwWaiting[p]
  /\ \A p \in Proc : lwWaiting[p] =>
       pc[p] = "sleep" /\ ((\E l \in Lock : p \in Queued(l)) \/ \E w \in Proc : p \in Awakens(w))

\* Nobody is on two lists.
Apart ==
  /\ \A l \in Lock, w \in Proc : \A p \in Queued(l) : p \notin Awakens(w)
  /\ \A v, w \in Proc : v # w => \A p \in Awakens(v) : p \notin Awakens(w)

\* Who is not awakening others has nobody to awaken, and takes them one by one.
WakersRight ==
  \A w \in Proc :
    /\ pc[w] \notin {"awaken", "clear", "post"} => wakeHead[w] = NULL
    /\ pc[w] \in {"clear", "post"} => wakeProc[w] \in Proc
    /\ pc[w] = "clear" => wakeProc[w] \notin OnList(wakeHead[w])

\* lwWaitMode is what the call asks for.
ModesRight ==
  \A p \in Proc : pc[p] = "sleep" =>
    lwWaitMode[p] = IF call[p].op = "Acquire" THEN call[p].mode ELSE LW_WAIT_UNTIL_FREE

\* Those who wait for the variable are in front of the others.
VarWaitersFirst ==
  \A l \in Lock : \A p \in Queued(l) :
    lwWaitLink[p] # NULL /\ call[lwWaitLink[p]].op = "WaitForVar" => call[p].op = "WaitForVar"

\* All of it: the wait queues are right.
QueueInv ==
  /\ ListsRight /\ TailRight /\ SleepersRight /\ Apart /\ WakersRight /\ ModesRight
  /\ VarWaitersFirst

\* Lists finds the list.
LEMMA ListsAre ==
  \A h, q : /\ q \in Lists(h) <=> IsList(lwWaitLink, h, q)
            /\ q \in Lists(h)' <=> IsList(lwWaitLink', h, q)
  <1>1. ASSUME NEW k, NEW h, NEW q
        PROVE  IsList(k, h, q) <=>
                 /\ q \in ProcLists
                 /\ IF q = <<>> THEN h = NULL
                    ELSE q[1] = h /\ \A i \in DOMAIN q : k[q[i]] = IF i < Len(q) THEN q[i + 1] ELSE NULL
    <2>1. ASSUME q \in Seq(Proc) PROVE (q = <<>> <=> Len(q) = 0) /\ DOMAIN q = 1..Len(q) /\ Len(q) \in Nat
      BY <2>1, EmptySeq
    <2>2. q \in ProcLists => q \in Seq(Proc)
      BY FS_CardinalityType DEF ProcLists
    <2>3. ASSUME IsList(k, h, q) PROVE q \in ProcLists
      <3>1. q \in Seq(Proc) /\ Len(q) \in 0..Cardinality(Proc)
        BY <2>3, <2>1, ListLength DEF IsList
      <3>2. q \in [1..Len(q) -> Proc]
        BY <3>1
      <3>. QED
        BY <3>1, <3>2 DEF ProcLists
    <2>. QED
      BY <2>1, <2>2, <2>3 DEF IsList
  <1>. QED
    BY <1>1, Zenon DEF Lists

\* What the lists of a lock and of a releaser are, before and after a step.
LEMMA MembersAre ==
  /\ \A h : OnList(h) = Members(lwWaitLink, h)
  /\ \A h : (Lists(h) # {}) <=> HasList(lwWaitLink, h)
  /\ \A l : Queued(l) = Members(lwWaitLink, head[l]) /\ Queued(l)' = Members(lwWaitLink', head'[l])
  /\ \A w : OnList(wakeHead[w])' = Members(lwWaitLink', wakeHead'[w])
  /\ \A l : (Lists(head[l]) # {})' <=> HasList(lwWaitLink', head'[l])
  /\ \A w : (Lists(wakeHead[w]) # {})' <=> HasList(lwWaitLink', wakeHead'[w])
  <1>1. \A h : UNION {{q[i] : i \in DOMAIN q} : q \in Lists(h)} = Members(lwWaitLink, h)
    <2>1. ASSUME NEW h, NEW q, q \in Lists(h) PROVE IsList(lwWaitLink, h, q) /\ DOMAIN q = 1..Len(q)
      BY <2>1, ListsAre, SeqFacts DEF IsList
    <2>2. ASSUME NEW h, NEW x PROVE (\E q \in Lists(h) : \E i \in DOMAIN q : x = q[i]) <=> x \in Members(lwWaitLink, h)
      <3>1. ASSUME NEW q \in Lists(h), NEW i \in DOMAIN q, x = q[i] PROVE x \in Members(lwWaitLink, h)
        BY <2>1, <3>1, ListMembers
      <3>2. ASSUME x \in Members(lwWaitLink, h) PROVE \E q \in Lists(h) : \E i \in DOMAIN q : x = q[i]
        <4>1. PICK q : IsList(lwWaitLink, h, q) /\ \E i \in 1..Len(q) : q[i] = x
          BY <3>2 DEF Members
        <4>2. q \in Lists(h)
          BY <4>1, ListsAre
        <4>. QED
          BY <2>1, <4>1, <4>2
      <3>. QED
        BY <3>1, <3>2
    <2>. QED
      BY <2>2
  <1>2. \A h : UNION {{q[i] : i \in DOMAIN q} : q \in Lists(h)'} = Members(lwWaitLink', h)
    <2>1. ASSUME NEW h, NEW q, q \in Lists(h)' PROVE IsList(lwWaitLink', h, q) /\ DOMAIN q = 1..Len(q)
      BY <2>1, ListsAre, SeqFacts DEF IsList
    <2>2. ASSUME NEW h, NEW x PROVE (\E q \in Lists(h)' : \E i \in DOMAIN q : x = q[i]) <=> x \in Members(lwWaitLink', h)
      <3>1. ASSUME NEW q \in Lists(h)', NEW i \in DOMAIN q, x = q[i] PROVE x \in Members(lwWaitLink', h)
        BY <2>1, <3>1, ListMembers
      <3>2. ASSUME x \in Members(lwWaitLink', h) PROVE \E q \in Lists(h)' : \E i \in DOMAIN q : x = q[i]
        <4>1. PICK q : IsList(lwWaitLink', h, q) /\ \E i \in 1..Len(q) : q[i] = x
          BY <3>2 DEF Members
        <4>2. q \in Lists(h)'
          BY <4>1, ListsAre
        <4>. QED
          BY <2>1, <4>1, <4>2
      <3>. QED
        BY <3>1, <3>2
    <2>. QED
      BY <2>2
  <1>3. \A h : (Lists(h) # {} <=> HasList(lwWaitLink, h)) /\ (Lists(h)' # {} <=> HasList(lwWaitLink', h))
    BY ListsAre DEF HasList
  <1>4. \A h : OnList(h) = Members(lwWaitLink, h) /\ OnList(h)' = Members(lwWaitLink', h)
    BY <1>1, <1>2 DEF OnList
  <1>5. \A l : Queued(l) = Members(lwWaitLink, head[l]) /\ Queued(l)' = Members(lwWaitLink', head'[l])
    BY <1>1, <1>2 DEF Queued, OnList, Lists
  <1>6. \A w : OnList(wakeHead[w])' = Members(lwWaitLink', wakeHead'[w])
    BY <1>2 DEF OnList, Lists
  <1>7. \A l : (Lists(head[l]) # {})' <=> HasList(lwWaitLink', head'[l])
    BY <1>3 DEF Lists
  <1>8. \A w : (Lists(wakeHead[w]) # {})' <=> HasList(lwWaitLink', wakeHead'[w])
    BY <1>3 DEF Lists
  <1>. QED
    BY <1>3, <1>4, <1>5, <1>6, <1>7, <1>8

\* The same of those a releaser is about to awaken.
LEMMA AwakensAre ==
  \A w : \A x :
    /\ x \in Awakens(w) <=> x \in Members(lwWaitLink, wakeHead[w]) \/ (pc[w] = "clear" /\ x = wakeProc[w])
    /\ x \in Awakens(w)' <=> x \in Members(lwWaitLink', wakeHead'[w]) \/ (pc'[w] = "clear" /\ x = wakeProc'[w])
  <1>1. ASSUME NEW S, NEW T, NEW c \in BOOLEAN, NEW x, NEW y
        PROVE  x \in S \cup (IF c THEN {y} ELSE {}) <=> x \in S \/ (c /\ x = y)
    OBVIOUS
  <1>. QED
    BY <1>1, MembersAre DEF Awakens
-----------------------------------------------------------------------------
(* What steps do to the lists.                                             *)

\* Who is on a list, and who can be nowhere.
LEMMA ListedFacts ==
  ASSUME TypeOK, QueueInv
  PROVE  /\ lwWaitLink \in LinkType
         /\ \A l \in Lock : HasList(lwWaitLink, head[l])
         /\ \A w \in Proc : HasList(lwWaitLink, wakeHead[w])
         /\ \A l \in Lock : \A p : p \in Queued(l) =>
              p \in Proc /\ pc[p] = "sleep" /\ lwWaiting[p] /\ call[p].lock = l
         /\ \A w \in Proc : \A p : p \in Awakens(w) => p \in Proc /\ pc[p] = "sleep" /\ lwWaiting[p]
         /\ \A l, k \in Lock : \A p : p \in Queued(l) /\ p \in Queued(k) => l = k
         /\ \A l \in Lock, w \in Proc : \A p : p \in Queued(l) => p \notin Awakens(w)
         /\ \A v, w \in Proc : \A p : p \in Awakens(v) /\ p \in Awakens(w) => v = w
         /\ \A w \in Proc : \A p : p \in Members(lwWaitLink, wakeHead[w]) => p \in Awakens(w)
  <1>1. lwWaitLink \in LinkType
    BY DEF TypeOK, LinkType
  <1>2. \A l \in Lock : HasList(lwWaitLink, head[l])
    BY MembersAre DEF QueueInv, ListsRight
  <1>3. \A w \in Proc : HasList(lwWaitLink, wakeHead[w])
    BY MembersAre DEF QueueInv, ListsRight
  <1>4. \A l \in Lock : \A p : p \in Queued(l) => p \in Proc /\ pc[p] = "sleep" /\ lwWaiting[p] /\ call[p].lock = l
    BY MembersAre DEF QueueInv, SleepersRight, Members
  <1>5. \A w \in Proc : \A p : p \in Awakens(w) => p \in Proc /\ pc[p] = "sleep" /\ lwWaiting[p]
    BY AwakensAre DEF QueueInv, SleepersRight, WakersRight, Members
  <1>. QED
    BY <1>1, <1>2, <1>3, <1>4, <1>5, AwakensAre DEF QueueInv, Apart

Steady(q) == pc'[q] = pc[q] /\ call'[q] = call[q] /\ wakeProc'[q] = wakeProc[q]
Passes(q) ==
  /\ ~lwWaiting[q] /\ pc[q] # "clear" /\ pc'[q] \notin {"sleep", "clear", "post"}
  /\ pc'[q] = "awaken" \/ wakeHead[q] = NULL
SameLists ==
  /\ \A l \in Lock : Queued(l)' = Queued(l)
  /\ \A w \in Proc : Awakens(w)' = Awakens(w)

\* A step that leaves the links alone, of backends that wait for nobody.
LEMMA QuietQueues ==
  ASSUME TypeOK, QueueInv, UNCHANGED <<head, tail, lwWaitLink, wakeHead, lwWaiting, lwWaitMode>>,
         \A q \in Proc : Steady(q) \/ Passes(q)
  PROVE  QueueInv' /\ SameLists
  <1>1. \A l : Queued(l)' = Queued(l)
    BY MembersAre
  <1>2. \A w : OnList(wakeHead[w])' = OnList(wakeHead[w])
    BY MembersAre
  <1>3. \A w \in Proc : Awakens(w)' = Awakens(w)
    <2>1. ASSUME NEW w \in Proc PROVE (pc'[w] = "clear" <=> pc[w] = "clear") /\ (pc[w] = "clear" => wakeProc'[w] = wakeProc[w])
      BY DEF Steady, Passes
    <2>2. ASSUME NEW w \in Proc PROVE \A x : x \in Awakens(w)' <=> x \in Awakens(w)
      BY <2>1, AwakensAre
    <2>. QED
      BY <2>2
  <1>4. ListsRight'
    BY MembersAre DEF QueueInv, ListsRight
  <1>5. TailRight'
    BY <1>1 DEF QueueInv, TailRight
  <1>6. \A p \in Proc : lwWaiting[p] => pc'[p] = pc[p] /\ call'[p] = call[p]
    BY DEF Steady, Passes
  <1>7. SleepersRight'
    <2>1. \A l \in Lock : \A p \in Queued(l)' : pc'[p] = "sleep" /\ lwWaiting'[p] /\ call'[p].lock = l
      BY <1>1, <1>6, ListedFacts
    <2>2. \A w \in Proc : \A p \in Awakens(w)' : pc'[p] = "sleep" /\ lwWaiting'[p]
      BY <1>3, <1>6, ListedFacts
    <2>3. ASSUME NEW p \in Proc, lwWaiting'[p]
          PROVE  pc'[p] = "sleep" /\ ((\E l \in Lock : p \in Queued(l)') \/ \E w \in Proc : p \in Awakens(w)')
      BY <1>1, <1>3, <1>6, <2>3 DEF QueueInv, SleepersRight
    <2>. QED
      BY <2>1, <2>2, <2>3, Zenon DEF SleepersRight
  <1>8. Apart'
    BY <1>1, <1>3 DEF QueueInv, Apart
  <1>9. WakersRight'
    <2>1. ASSUME NEW w \in Proc
          PROVE  /\ pc'[w] \notin {"awaken", "clear", "post"} => wakeHead'[w] = NULL
                 /\ pc'[w] \in {"clear", "post"} => wakeProc'[w] \in Proc
                 /\ pc'[w] = "clear" => wakeProc'[w] \notin OnList(wakeHead[w])'
      BY <1>2 DEF QueueInv, WakersRight, Steady, Passes
    <2>. QED
      BY <2>1 DEF WakersRight
  <1>10. ModesRight'
    BY DEF QueueInv, ModesRight, Steady, Passes
  <1>11. VarWaitersFirst'
    <2>1. ASSUME NEW l \in Lock, NEW p \in Queued(l), lwWaitLink[p] # NULL
          PROVE  call'[p] = call[p] /\ call'[lwWaitLink[p]] = call[lwWaitLink[p]]
      <3>1. HasList(lwWaitLink, head[l])
        BY MembersAre DEF QueueInv, ListsRight
      <3>2. lwWaitLink[p] \in Queued(l) /\ p \in Proc /\ lwWaitLink[p] \in Proc
        BY <2>1, <3>1, ListEnds, MembersAre DEF Members
      <3>. QED
        BY <1>6, <3>2 DEF QueueInv, SleepersRight
    <2>. QED
      BY <1>1, <2>1 DEF QueueInv, VarWaitersFirst
  <1>. QED
    BY <1>1, <1>3, <1>4, <1>5, <1>7, <1>8, <1>9, <1>10, <1>11 DEF QueueInv, SameLists

\* p joins the queue of l, at the front or at the end.
Added(p, l) ==
  /\ pc[p] \in {"idle", "retry"} /\ pc' = [pc EXCEPT ![p] = "sleep"]
  /\ lwWaiting' = [lwWaiting EXCEPT ![p] = TRUE]
  /\ \A q \in Proc : q # p => call'[q] = call[q] /\ lwWaitMode'[q] = lwWaitMode[q]
  /\ call'[p].lock = l
  /\ lwWaitMode'[p] = IF call'[p].op = "Acquire" THEN call'[p].mode ELSE LW_WAIT_UNTIL_FREE
  /\ wakeHead' = wakeHead /\ wakeProc' = wakeProc
  /\ \A k \in Lock : k # l => head'[k] = head[k] /\ tail'[k] = tail[k]
  /\ HasList(lwWaitLink', head'[l]) /\ Members(lwWaitLink', head'[l]) = Queued(l) \cup {p}
  /\ tail'[l] \in Queued(l) \cup {p} /\ lwWaitLink'[tail'[l]] = NULL
  /\ \A x \in Proc : x \notin Queued(l) /\ x # p => lwWaitLink'[x] = lwWaitLink[x]
  /\ \A x : (x \in Queued(l) \/ x = p) /\ lwWaitLink'[x] # NULL /\ call'[lwWaitLink'[x]].op = "WaitForVar" =>
       call'[x].op = "WaitForVar"

\* What it does to the queue.
Longer(p, l) ==
  /\ Queued(l)' = Queued(l) \cup {p} /\ \A k \in Lock : k # l => Queued(k)' = Queued(k)
  /\ \A w \in Proc : Awakens(w)' = Awakens(w)

\* The lists are as right as they were.
LEMMA AddedQueues ==
  ASSUME TypeOK, QueueInv, NEW p \in Proc, NEW l \in Lock, Added(p, l)
  PROVE  QueueInv' /\ Longer(p, l)
  <1>. USE DEF Added
  <1>1. \A q \in Proc : (q # p => pc'[q] = pc[q] /\ lwWaiting'[q] = lwWaiting[q]) /\ pc'[p] = "sleep" /\ lwWaiting'[p]
    BY DEF TypeOK
  <1>2. \A k \in Lock : p \notin Queued(k)
    BY ListedFacts
  <1>3. \A w \in Proc : p \notin Awakens(w) /\ p \notin Members(lwWaitLink, wakeHead[w])
    BY ListedFacts
  <1>4. Queued(l)' = Queued(l) \cup {p}
    BY MembersAre
  <1>5. \A k \in Lock : k # l => HasList(lwWaitLink', head'[k]) /\ Queued(k)' = Queued(k)
    <2>1. ASSUME NEW k \in Lock, k # l PROVE HasList(lwWaitLink', head'[k]) /\ Queued(k)' = Queued(k)
      <3>1. HasList(lwWaitLink, head[k])
        BY ListedFacts
      <3>2. Queued(k) = Members(lwWaitLink, head[k])
        BY MembersAre
      <3>3. \A x : x \in Members(lwWaitLink, head[k]) => lwWaitLink'[x] = lwWaitLink[x]
        BY <1>2, <2>1, <3>2, ListedFacts
      <3>4. HasList(lwWaitLink', head[k]) /\ Members(lwWaitLink', head[k]) = Members(lwWaitLink, head[k])
        BY <3>1, <3>3, ListStays
      <3>. QED
        BY <2>1, <3>2, <3>4, MembersAre
    <2>. QED
      BY <2>1
  <1>6. \A w \in Proc : HasList(lwWaitLink', wakeHead'[w]) /\ Members(lwWaitLink', wakeHead'[w]) = Members(lwWaitLink, wakeHead[w])
    <2>1. ASSUME NEW w \in Proc
          PROVE  HasList(lwWaitLink', wakeHead[w]) /\ Members(lwWaitLink', wakeHead[w]) = Members(lwWaitLink, wakeHead[w])
      <3>1. HasList(lwWaitLink, wakeHead[w])
        BY ListedFacts
      <3>2. \A x : x \in Members(lwWaitLink, wakeHead[w]) => lwWaitLink'[x] = lwWaitLink[x]
        BY <1>3, ListedFacts
      <3>. QED
        BY <3>1, <3>2, ListStays
    <2>. QED
      BY <2>1 DEF wakeVars
  <1>7. \A w \in Proc : Awakens(w)' = Awakens(w)
    <2>1. \A w \in Proc : (pc'[w] = "clear" <=> pc[w] = "clear") /\ wakeProc' = wakeProc
      BY <1>1 DEF wakeVars
    <2>2. \A w \in Proc : \A x : x \in Awakens(w)' <=> x \in Awakens(w)
      BY <1>6, <2>1, AwakensAre
    <2>. QED
      BY <2>2
  <1>8. ListsRight'
    <2>1. \A k \in Lock : HasList(lwWaitLink', head'[k])
      BY <1>5
    <2>. QED
      BY <1>6, <2>1, MembersAre DEF ListsRight
  <1>9. TailRight'
    <2>1. ASSUME NEW k \in Lock, head'[k] # NULL PROVE tail'[k] \in Queued(k)' /\ lwWaitLink'[tail'[k]] = NULL
      <3>1. CASE k = l
        BY <1>4, <3>1
      <3>2. CASE k # l
        <4>1. tail[k] \in Queued(k) /\ lwWaitLink[tail[k]] = NULL
          BY <2>1, <3>2 DEF QueueInv, TailRight
        <4>2. tail[k] \in Proc /\ tail[k] \notin Queued(l) /\ tail[k] # p
          BY <1>2, <3>2, <4>1, ListedFacts
        <4>. QED
          BY <1>5, <3>2, <4>1, <4>2
      <3>. QED
        BY <3>1, <3>2
    <2>. QED
      BY <2>1 DEF TailRight
  <1>10. SleepersRight'
    <2>1. \A k \in Lock : \A q \in Queued(k)' : pc'[q] = "sleep" /\ lwWaiting'[q] /\ call'[q].lock = k
      <3>1. ASSUME NEW k \in Lock, NEW q \in Queued(k)' PROVE pc'[q] = "sleep" /\ lwWaiting'[q] /\ call'[q].lock = k
        <4>1. CASE q = p
          BY <1>1, <1>2, <1>5, <3>1, <4>1
        <4>2. CASE q # p
          BY <1>1, <1>4, <1>5, <3>1, <4>2, ListedFacts
        <4>. QED
          BY <4>1, <4>2
      <3>. QED
        BY <3>1
    <2>2. \A w \in Proc : \A q \in Awakens(w)' : pc'[q] = "sleep" /\ lwWaiting'[q]
      BY <1>1, <1>7, ListedFacts
    <2>3. ASSUME NEW q \in Proc, lwWaiting'[q]
          PROVE  pc'[q] = "sleep" /\ ((\E k \in Lock : q \in Queued(k)') \/ \E w \in Proc : q \in Awakens(w)')
      <3>1. CASE q = p
        BY <1>1, <1>4, <3>1
      <3>2. CASE q # p
        <4>1. pc[q] = "sleep" /\ ((\E k \in Lock : q \in Queued(k)) \/ \E w \in Proc : q \in Awakens(w))
          BY <1>1, <2>3, <3>2 DEF QueueInv, SleepersRight
        <4>2. \A k \in Lock : q \in Queued(k) => q \in Queued(k)'
          BY <1>4, <1>5
        <4>. QED
          BY <1>1, <1>7, <3>2, <4>1, <4>2
      <3>. QED
        BY <3>1, <3>2
    <2>. QED
      BY <2>1, <2>2, <2>3, Zenon DEF SleepersRight
  <1>11. Apart'
    <2>1. \A k \in Lock : \A q \in Queued(k)' : q \in Queued(k) \/ q = p
      BY <1>4, <1>5
    <2>2. \A k \in Lock, w \in Proc : \A q \in Queued(k)' : q \notin Awakens(w)'
      BY <1>3, <1>7, <2>1, ListedFacts
    <2>3. \A v, w \in Proc : v # w => \A q \in Awakens(v)' : q \notin Awakens(w)'
      BY <1>7, ListedFacts
    <2>. QED
      BY <2>2, <2>3, Zenon DEF Apart
  <1>12. WakersRight'
    <2>1. \A w \in Proc : OnList(wakeHead[w])' = OnList(wakeHead[w])
      BY <1>6, MembersAre
    <2>2. ASSUME NEW w \in Proc
          PROVE  /\ pc'[w] \notin {"awaken", "clear", "post"} => wakeHead'[w] = NULL
                 /\ pc'[w] \in {"clear", "post"} => wakeProc'[w] \in Proc
                 /\ pc'[w] = "clear" => wakeProc'[w] \notin OnList(wakeHead[w])'
      <3>1. wakeHead' = wakeHead /\ wakeProc' = wakeProc
        BY DEF wakeVars
      <3>. QED
        BY <1>1, <2>1, <3>1 DEF QueueInv, WakersRight
    <2>. QED
      BY <2>2 DEF WakersRight
  <1>13. ModesRight'
    BY <1>1 DEF QueueInv, ModesRight
  <1>14. VarWaitersFirst'
    <2>1. ASSUME NEW k \in Lock, NEW x \in Queued(k)', lwWaitLink'[x] # NULL, call'[lwWaitLink'[x]].op = "WaitForVar"
          PROVE  call'[x].op = "WaitForVar"
      <3>1. CASE k = l
        BY <1>4, <2>1, <3>1
      <3>2. CASE k # l
        <4>1. x \in Queued(k) /\ x \in Proc /\ x \notin Queued(l) /\ x # p
          BY <1>2, <1>5, <2>1, <3>2, ListedFacts
        <4>2. lwWaitLink'[x] = lwWaitLink[x]
          BY <4>1
        <4>3. lwWaitLink[x] \in Queued(k) /\ lwWaitLink[x] # p
          BY <1>2, <2>1, <4>1, <4>2, ListedFacts, ListEnds, MembersAre
        <4>4. call'[x] = call[x] /\ call'[lwWaitLink[x]] = call[lwWaitLink[x]]
          BY <4>1, <4>3, ListedFacts
        <4>. QED
          BY <2>1, <4>1, <4>2, <4>4 DEF QueueInv, VarWaitersFirst
      <3>. QED
        BY <3>1, <3>2
    <2>. QED
      BY <2>1 DEF VarWaitersFirst
  <1>. QED
    BY <1>4, <1>5, <1>7, <1>8, <1>9, <1>10, <1>11, <1>12, <1>13, <1>14 DEF QueueInv, Longer

\* LWLockAcquireCommon and LWLockAcquireOrWait queue at the end.
LEMMA EnqueueQueues ==
  ASSUME TypeOK, QueueInv, NEW p \in Proc, NEW l \in Lock, NEW m, EnqueueTail(p, l, m),
         pc[p] \in {"idle", "retry"}, pc' = [pc EXCEPT ![p] = "sleep"],
         \A q \in Proc : q # p => call'[q] = call[q],
         call'[p].lock = l, call'[p].op # "WaitForVar",
         m = IF call'[p].op = "Acquire" THEN call'[p].mode ELSE LW_WAIT_UNTIL_FREE,
         UNCHANGED <<wakeHead, wakeProc>>
  PROVE  QueueInv' /\ Longer(p, l)
  <1>1. /\ lwWaiting' = [lwWaiting EXCEPT ![p] = TRUE] /\ lwWaitMode' = [lwWaitMode EXCEPT ![p] = m]
        /\ tail' = [tail EXCEPT ![l] = p]
    BY DEF EnqueueTail
  <1>2. /\ \A q \in Proc : q # p => lwWaitMode'[q] = lwWaitMode[q]
        /\ lwWaitMode'[p] = m /\ tail'[l] = p /\ \A k \in Lock : k # l => tail'[k] = tail[k]
    BY <1>1 DEF TypeOK
  <1>3. lwWaitLink \in LinkType /\ HasList(lwWaitLink, head[l]) /\ p \notin Members(lwWaitLink, head[l])
        /\ Queued(l) = Members(lwWaitLink, head[l])
    BY ListedFacts, MembersAre
  <1>4. CASE head[l] = NULL
    <2>1. head' = [head EXCEPT ![l] = p] /\ lwWaitLink' = [lwWaitLink EXCEPT ![p] = NULL]
      BY <1>4 DEF EnqueueTail
    <2>2. head'[l] = p /\ (\A k \in Lock : k # l => head'[k] = head[k])
          /\ lwWaitLink'[p] = NULL /\ \A x \in Proc : x # p => lwWaitLink'[x] = lwWaitLink[x]
      BY <2>1 DEF TypeOK
    <2>3. Queued(l) = {}
      BY <1>3, <1>4, ListEnds
    <2>4. HasList(lwWaitLink', p) /\ Members(lwWaitLink', p) = Queued(l) \cup {p}
      BY <1>3, <1>4, <2>2, <2>3, FrontLinks
    <2>5. HasList(lwWaitLink', head'[l]) /\ Members(lwWaitLink', head'[l]) = Queued(l) \cup {p}
      BY <2>2, <2>4
    <2>6. \A x : (x \in Queued(l) \/ x = p) /\ lwWaitLink'[x] # NULL /\ call'[lwWaitLink'[x]].op = "WaitForVar" =>
            call'[x].op = "WaitForVar"
      BY <2>2, <2>3
    <2>7. tail'[l] \in Queued(l) \cup {p} /\ lwWaitLink'[tail'[l]] = NULL
      BY <1>2, <2>2
    <2>8. \A k \in Lock : k # l => head'[k] = head[k] /\ tail'[k] = tail[k]
      BY <1>2, <2>2
    <2>9. \A x \in Proc : x \notin Queued(l) /\ x # p => lwWaitLink'[x] = lwWaitLink[x]
      BY <2>2
    <2>10. \A q \in Proc : q # p => call'[q] = call[q] /\ lwWaitMode'[q] = lwWaitMode[q]
      BY <1>2
    <2>. QED
      BY <1>1, <1>2, <2>5, <2>6, <2>7, <2>8, <2>9, <2>10, AddedQueues DEF Added
  <1>5. CASE head[l] # NULL
    <2>. DEFINE t == tail[l]
    <2>1. head' = head /\ lwWaitLink' = [lwWaitLink EXCEPT ![p] = NULL, ![t] = p]
      BY <1>5 DEF EnqueueTail
    <2>2. t \in Queued(l) /\ lwWaitLink[t] = NULL /\ t \in Proc /\ t # p
      BY <1>3, <1>5, ListedFacts DEF QueueInv, TailRight
    <2>3. lwWaitLink'[p] = NULL /\ lwWaitLink'[t] = p /\ \A x \in Proc : x # p /\ x # t => lwWaitLink'[x] = lwWaitLink[x]
      <3>. DEFINE k1 == [lwWaitLink EXCEPT ![p] = NULL]
      <3>1. k1 \in LinkType /\ k1[p] = NULL /\ \A x \in Proc : x # p => k1[x] = lwWaitLink[x]
        BY <1>3 DEF LinkType
      <3>2. lwWaitLink' = [k1 EXCEPT ![t] = p]
        BY <2>1
      <3>. HIDE DEF k1, t
      <3>. QED
        BY <2>2, <3>1, <3>2 DEF LinkType
    <2>11. \A x : x \in Members(lwWaitLink, head[l]) => x \in Proc /\ x # p
      BY <1>3 DEF Members
    <2>4. HasList(lwWaitLink', head[l]) /\ Members(lwWaitLink', head[l]) = Queued(l) \cup {p}
      BY <1>3, <2>2, <2>3, <2>11, BackLinks
    <2>. HIDE DEF t
    <2>5. HasList(lwWaitLink', head'[l]) /\ Members(lwWaitLink', head'[l]) = Queued(l) \cup {p}
      BY <2>1, <2>4
    <2>6. ASSUME NEW x, x \in Queued(l) \/ x = p, lwWaitLink'[x] # NULL, call'[lwWaitLink'[x]].op = "WaitForVar"
          PROVE  call'[x].op = "WaitForVar"
      <3>1. x # p /\ x # t
        BY <2>3, <2>6
      <3>2. x \in Queued(l) /\ x \in Proc /\ lwWaitLink'[x] = lwWaitLink[x]
        BY <2>3, <2>6, <3>1, ListedFacts
      <3>3. lwWaitLink[x] \in Queued(l) /\ lwWaitLink[x] \in Proc
        BY <1>3, <2>6, <3>2, ListEnds
      <3>4. call'[lwWaitLink[x]] = call[lwWaitLink[x]] /\ call'[x] = call[x]
        BY <1>3, <3>1, <3>2, <3>3
      <3>. QED
        BY <2>6, <3>2, <3>4 DEF QueueInv, VarWaitersFirst
    <2>7. tail'[l] \in Queued(l) \cup {p} /\ lwWaitLink'[tail'[l]] = NULL
      BY <1>2, <2>3
    <2>8. \A k \in Lock : k # l => head'[k] = head[k] /\ tail'[k] = tail[k]
      BY <1>2, <2>1
    <2>9. \A x \in Proc : x \notin Queued(l) /\ x # p => lwWaitLink'[x] = lwWaitLink[x]
      BY <2>2, <2>3
    <2>10. \A q \in Proc : q # p => call'[q] = call[q] /\ lwWaitMode'[q] = lwWaitMode[q]
      BY <1>2
    <2>. QED
      BY <1>1, <1>2, <2>5, <2>6, <2>7, <2>8, <2>9, <2>10, AddedQueues DEF Added
  <1>. QED
    BY <1>4, <1>5

\* LWLockWaitForVar queues in front.
LEMMA FrontQueues ==
  ASSUME TypeOK, QueueInv, NEW p \in Proc, NEW l \in Lock, pc[p] = "retry", pc' = [pc EXCEPT ![p] = "sleep"],
         lwWaiting' = [lwWaiting EXCEPT ![p] = TRUE], lwWaitMode' = [lwWaitMode EXCEPT ![p] = LW_WAIT_UNTIL_FREE],
         lwWaitLink' = [lwWaitLink EXCEPT ![p] = head[l]],
         tail' = IF head[l] = NULL THEN [tail EXCEPT ![l] = p] ELSE tail,
         head' = [head EXCEPT ![l] = p], UNCHANGED <<call, wakeHead, wakeProc>>,
         call[p].lock = l, call[p].op = "WaitForVar"
  PROVE  QueueInv' /\ Longer(p, l)
  <1>1. /\ \A q \in Proc : q # p => call'[q] = call[q] /\ lwWaitMode'[q] = lwWaitMode[q]
        /\ lwWaitMode'[p] = LW_WAIT_UNTIL_FREE
        /\ head'[l] = p /\ \A k \in Lock : k # l => head'[k] = head[k] /\ tail'[k] = tail[k]
        /\ lwWaitLink'[p] = head[l] /\ \A x \in Proc : x # p => lwWaitLink'[x] = lwWaitLink[x]
    BY DEF TypeOK
  <1>2. lwWaitLink \in LinkType /\ HasList(lwWaitLink, head[l]) /\ p \notin Members(lwWaitLink, head[l])
        /\ Queued(l) = Members(lwWaitLink, head[l])
    BY ListedFacts, MembersAre
  <1>3. HasList(lwWaitLink', p) /\ Members(lwWaitLink', p) = Queued(l) \cup {p}
    <2>1. \A x : x \in Members(lwWaitLink, head[l]) => x \in Proc /\ x # p
      BY <1>2 DEF Members
    <2>2. HasList(lwWaitLink, head[l]) /\ p \notin Members(lwWaitLink, head[l])
          /\ lwWaitLink'[p] = head[l] /\ \A x : x \in Members(lwWaitLink, head[l]) => lwWaitLink'[x] = lwWaitLink[x]
      BY <1>1, <1>2, <2>1
    <2>3. HasList(lwWaitLink', p) /\ Members(lwWaitLink', p) = Members(lwWaitLink, head[l]) \cup {p}
      BY <2>2, FrontLinks
    <2>. QED
      BY <1>2, <2>3
  <1>4. HasList(lwWaitLink', head'[l]) /\ Members(lwWaitLink', head'[l]) = Queued(l) \cup {p}
    BY <1>1, <1>3
  <1>5. tail'[l] \in Queued(l) \cup {p} /\ lwWaitLink'[tail'[l]] = NULL
    <2>1. CASE head[l] = NULL
      <3>1. tail'[l] = p
        BY <2>1 DEF TypeOK
      <3>. QED
        BY <1>1, <2>1, <3>1
    <2>2. CASE head[l] # NULL
      <3>1. tail[l] \in Queued(l) /\ lwWaitLink[tail[l]] = NULL
        BY <2>2 DEF QueueInv, TailRight
      <3>2. tail[l] \in Proc /\ tail[l] # p
        BY <1>2, <3>1, ListedFacts
      <3>. QED
        BY <1>1, <2>2, <3>1, <3>2
    <2>. QED
      BY <2>1, <2>2
  <1>6. ASSUME NEW x, x \in Queued(l) \/ x = p, lwWaitLink'[x] # NULL, call'[lwWaitLink'[x]].op = "WaitForVar"
        PROVE  call'[x].op = "WaitForVar"
    <2>1. CASE x = p
      BY <2>1
    <2>2. CASE x # p
      <3>1. x \in Queued(l) /\ x \in Proc /\ lwWaitLink'[x] = lwWaitLink[x]
        BY <1>1, <1>6, <2>2, ListedFacts
      <3>. QED
        BY <1>6, <3>1 DEF QueueInv, VarWaitersFirst
    <2>. QED
      BY <2>1, <2>2
  <1>7. \A x \in Proc : x \notin Queued(l) /\ x # p => lwWaitLink'[x] = lwWaitLink[x]
    BY <1>1
  <1>8. lwWaitMode'[p] = IF call'[p].op = "Acquire" THEN call'[p].mode ELSE LW_WAIT_UNTIL_FREE
    BY <1>1
  <1>. QED
    BY <1>1, <1>4, <1>5, <1>6, <1>7, <1>8, AddedQueues DEF Added

\* What the release does to the queue: the first n waiters of q change hands.
Shorter(p, l, q, n) ==
  /\ \A x : x \in Queued(l) <=> \E i \in 1..Len(q) : q[i] = x
  /\ \A x : x \in Queued(l)' <=> \E i \in (n + 1)..Len(q) : q[i] = x
  /\ \A k \in Lock : k # l => Queued(k)' = Queued(k)
  /\ \A x : x \in Awakens(p)' <=> \E i \in 1..n : q[i] = x
  /\ \A w \in Proc : w # p => Awakens(w)' = Awakens(w)

\* A release or a new value of the variable cuts the queue.
LEMMA DetachQueues ==
  ASSUME TypeOK, QueueInv, NEW p \in Proc, NEW l \in Lock, NEW q \in Lists(head[l]), NEW n \in DOMAIN q,
         Detach(p, l, q, n), pc[p] = "idle", pc' = [pc EXCEPT ![p] = "awaken"],
         \A x \in Proc : x # p => call'[x] = call[x],
         UNCHANGED <<tail, lwWaiting, lwWaitMode, wakeProc>>
  PROVE  QueueInv' /\ Shorter(p, l, q, n)
  <1>1. IsList(lwWaitLink, head[l], q) /\ q \in Seq(Proc)
    BY ListsAre DEF IsList
  <1>2. Len(q) \in Nat /\ n \in 1..Len(q) /\ \A i \in 1..Len(q) : q[i] \in Proc
    BY <1>1, SeqFacts
  <1>3. q[1] = head[l] /\ \A i \in 1..Len(q) : lwWaitLink[q[i]] = IF i < Len(q) THEN q[i + 1] ELSE NULL
    BY <1>1, <1>2 DEF IsList
  <1>4. \A i, j \in 1..Len(q) : q[i] = q[j] => i = j
    BY <1>1, ListDistinct
  <1>5. \A x : x \in Queued(l) <=> \E i \in 1..Len(q) : q[i] = x
    BY <1>1, ListMembers, MembersAre
  <1>6. /\ head'[l] = lwWaitLink[q[n]] /\ \A k \in Lock : k # l => head'[k] = head[k]
        /\ lwWaitLink'[q[n]] = NULL /\ \A x \in Proc : x # q[n] => lwWaitLink'[x] = lwWaitLink[x]
        /\ wakeHead'[p] = head[l] /\ \A w \in Proc : w # p => wakeHead'[w] = wakeHead[w]
    BY <1>2, <1>3 DEF Detach, TypeOK
  <1>7. pc'[p] = "awaken" /\ \A w \in Proc : w # p => pc'[w] = pc[w]
    BY DEF TypeOK
  <1>8. q[n] \in Queued(l) /\ q[n] \in Proc
    BY <1>2, <1>5
  <1>9. /\ HasList(lwWaitLink', head[l]) /\ \A x : x \in Members(lwWaitLink', head[l]) <=> \E i \in 1..n : q[i] = x
        /\ HasList(lwWaitLink', lwWaitLink[q[n]])
        /\ \A x : x \in Members(lwWaitLink', lwWaitLink[q[n]]) <=> \E i \in (n + 1)..Len(q) : q[i] = x
    <2>1. \A x : x \in Members(lwWaitLink, head[l]) /\ x # q[n] => lwWaitLink'[x] = lwWaitLink[x]
      BY <1>6 DEF Members
    <2>2. IsCut(head[l], q, n)
      BY <1>1, <1>2, <1>6, <2>1 DEF IsCut
    <2>. QED
      <3>1. InTwo(head[l], q, n)
        BY <2>2, ListCut, Zenon
      <3>. QED
        BY <3>1 DEF InTwo
  <1>10. \A x : x \in Queued(l)' <=> \E i \in (n + 1)..Len(q) : q[i] = x
    BY <1>6, <1>9, MembersAre
  <1>11. \A k \in Lock : k # l => HasList(lwWaitLink', head'[k]) /\ Queued(k)' = Queued(k)
    <2>1. ASSUME NEW k \in Lock, k # l PROVE HasList(lwWaitLink', head'[k]) /\ Queued(k)' = Queued(k)
      <3>1. HasList(lwWaitLink, head[k])
        BY ListedFacts
      <3>2. Queued(k) = Members(lwWaitLink, head[k])
        BY MembersAre
      <3>3. \A x : x \in Members(lwWaitLink, head[k]) => lwWaitLink'[x] = lwWaitLink[x]
        BY <1>6, <1>8, <2>1, <3>2, ListedFacts
      <3>4. HasList(lwWaitLink', head[k]) /\ Members(lwWaitLink', head[k]) = Members(lwWaitLink, head[k])
        BY <3>1, <3>3, ListStays
      <3>. QED
        BY <1>6, <2>1, <3>2, <3>4, MembersAre
    <2>. QED
      BY <2>1
  <1>12. \A w \in Proc : w # p =>
           HasList(lwWaitLink', wakeHead'[w]) /\ Members(lwWaitLink', wakeHead'[w]) = Members(lwWaitLink, wakeHead[w])
    <2>1. ASSUME NEW w \in Proc
          PROVE  HasList(lwWaitLink', wakeHead[w]) /\ Members(lwWaitLink', wakeHead[w]) = Members(lwWaitLink, wakeHead[w])
      <3>1. HasList(lwWaitLink, wakeHead[w])
        BY ListedFacts
      <3>2. \A x : x \in Members(lwWaitLink, wakeHead[w]) => lwWaitLink'[x] = lwWaitLink[x]
        BY <1>6, <1>8, ListedFacts
      <3>. QED
        BY <3>1, <3>2, ListStays
    <2>. QED
      BY <1>6, <2>1
  <1>13. \A w \in Proc : w # p => Awakens(w)' = Awakens(w)
    <2>1. \A w \in Proc : w # p => \A x : x \in Awakens(w)' <=> x \in Awakens(w)
      BY <1>7, <1>12, AwakensAre
    <2>. QED
      BY <2>1
  <1>14. \A x : x \in Awakens(p)' <=> \E i \in 1..n : q[i] = x
    BY <1>6, <1>7, <1>9, AwakensAre
  <1>15. Shorter(p, l, q, n)
    BY <1>5, <1>10, <1>11, <1>13, <1>14 DEF Shorter
  <1>16. \A x : x \in Queued(l) <=> x \in Queued(l)' \/ x \in Awakens(p)'
    <2>1. \A i : i \in 1..Len(q) <=> i \in 1..n \/ i \in (n + 1)..Len(q)
      BY <1>2
    <2>. QED
      BY <1>5, <1>10, <1>14, <2>1
  <1>17. \A x : x \in Queued(l)' => x \notin Awakens(p)' /\ x # q[n]
    <2>1. \A i \in (n + 1)..Len(q), j \in 1..n : i \in 1..Len(q) /\ j \in 1..Len(q) /\ i # j
      BY <1>2
    <2>. QED
      BY <1>2, <1>4, <1>10, <1>14, <2>1
  <1>18. \A k \in Lock : \A x : x \in Queued(k)' => x \in Queued(k)
    BY <1>11, <1>16
  <1>19. ListsRight'
    <2>1. \A k \in Lock : HasList(lwWaitLink', head'[k])
      BY <1>6, <1>9, <1>11
    <2>2. \A w \in Proc : HasList(lwWaitLink', wakeHead'[w])
      BY <1>6, <1>9, <1>12
    <2>. QED
      BY <2>1, <2>2, MembersAre DEF ListsRight
  <1>20. TailRight'
    <2>1. ASSUME NEW k \in Lock, head'[k] # NULL PROVE tail'[k] \in Queued(k)' /\ lwWaitLink'[tail'[k]] = NULL
      <3>1. tail' = tail
        OBVIOUS
      <3>2. CASE k = l
        <4>1. n < Len(q) /\ head[l] # NULL
          <5>1. n = Len(q) => lwWaitLink[q[n]] = NULL
            BY <1>2, <1>3
          <5>2. q[1] \in Proc /\ q[1] = head[l]
            BY <1>2, <1>3
          <5>. QED
            BY <1>2, <1>6, <2>1, <3>2, <5>1, <5>2
        <4>2. tail[l] \in Queued(l) /\ lwWaitLink[tail[l]] = NULL
          BY <4>1 DEF QueueInv, TailRight
        <4>3. PICK j \in 1..Len(q) : q[j] = tail[l]
          BY <1>5, <4>2
        <4>4. j = Len(q)
          <5>1. j < Len(q) => q[j + 1] \in Proc /\ lwWaitLink[q[j]] = q[j + 1]
            <6>1. j < Len(q) => j + 1 \in 1..Len(q)
              BY <1>2
            <6>2. lwWaitLink[q[j]] = IF j < Len(q) THEN q[j + 1] ELSE NULL
              BY <1>3
            <6>. QED
              BY <1>2, <6>1, <6>2
          <5>. QED
            BY <1>2, <4>2, <4>3, <5>1
        <4>5. j \in (n + 1)..Len(q)
          BY <1>2, <4>1, <4>4
        <4>6. tail[l] \in Queued(l)'
          BY <1>10, <4>3, <4>5
        <4>. QED
          BY <1>6, <1>17, <3>1, <3>2, <4>2, <4>6, ListedFacts
      <3>3. CASE k # l
        <4>1. tail[k] \in Queued(k) /\ lwWaitLink[tail[k]] = NULL
          BY <1>6, <2>1, <3>3 DEF QueueInv, TailRight
        <4>2. tail[k] \in Proc /\ tail[k] # q[n]
          BY <1>8, <3>3, <4>1, ListedFacts
        <4>. QED
          BY <1>6, <1>11, <3>1, <3>3, <4>1, <4>2
      <3>. QED
        BY <3>2, <3>3
    <2>. QED
      BY <2>1 DEF TailRight
  <1>21. \A x \in Proc : lwWaiting[x] => pc'[x] = pc[x] /\ call'[x] = call[x]
    BY <1>7 DEF QueueInv, SleepersRight
  <1>22. SleepersRight'
    <2>1. \A k \in Lock : \A x \in Queued(k)' : pc'[x] = "sleep" /\ lwWaiting'[x] /\ call'[x].lock = k
      BY <1>18, <1>21, ListedFacts
    <2>2. \A w \in Proc : \A x \in Awakens(w)' : pc'[x] = "sleep" /\ lwWaiting'[x]
      BY <1>13, <1>16, <1>21, ListedFacts
    <2>3. ASSUME NEW x \in Proc, lwWaiting'[x]
          PROVE  pc'[x] = "sleep" /\ ((\E k \in Lock : x \in Queued(k)') \/ \E w \in Proc : x \in Awakens(w)')
      <3>1. pc[x] = "sleep" /\ lwWaiting[x] /\ ((\E k \in Lock : x \in Queued(k)) \/ \E w \in Proc : x \in Awakens(w))
        BY <2>3 DEF QueueInv, SleepersRight
      <3>2. \A x2 : x2 \notin Awakens(p)
        <4>1. wakeHead[p] = NULL /\ HasList(lwWaitLink, wakeHead[p])
          BY ListedFacts DEF QueueInv, WakersRight
        <4>. QED
          BY <4>1, ListEnds, AwakensAre
      <3>. QED
        BY <1>11, <1>13, <1>16, <1>21, <3>1, <3>2
    <2>. QED
      BY <2>1, <2>2, <2>3, Zenon DEF SleepersRight
  <1>23. Apart'
    <2>1. ASSUME NEW k \in Lock, NEW w \in Proc, NEW x, x \in Queued(k)' PROVE x \notin Awakens(w)'
      <3>1. CASE w = p
        BY <1>16, <1>17, <1>18, <2>1, <3>1, ListedFacts
      <3>2. CASE w # p
        BY <1>13, <1>18, <2>1, <3>2, ListedFacts
      <3>. QED
        BY <3>1, <3>2
    <2>2. ASSUME NEW v \in Proc, NEW w \in Proc, v # w, NEW x, x \in Awakens(v)' PROVE x \notin Awakens(w)'
      BY <1>13, <1>16, <2>2, ListedFacts
    <2>. QED
      BY <2>1, <2>2, Zenon DEF Apart
  <1>24. WakersRight'
    <2>1. \A w \in Proc : w # p => OnList(wakeHead[w])' = OnList(wakeHead[w])
      BY <1>12, MembersAre
    <2>2. ASSUME NEW w \in Proc
          PROVE  /\ pc'[w] \notin {"awaken", "clear", "post"} => wakeHead'[w] = NULL
                 /\ pc'[w] \in {"clear", "post"} => wakeProc'[w] \in Proc
                 /\ pc'[w] = "clear" => wakeProc'[w] \notin OnList(wakeHead[w])'
      <3>1. CASE w = p
        BY <1>7, <3>1
      <3>2. CASE w # p
        BY <1>6, <1>7, <2>1, <3>2 DEF QueueInv, WakersRight
      <3>. QED
        BY <3>1, <3>2
    <2>. QED
      BY <2>2 DEF WakersRight
  <1>25. ModesRight'
    <2>1. \A x \in Proc : pc'[x] = "sleep" => pc[x] = "sleep" /\ call'[x] = call[x]
      BY <1>7
    <2>. QED
      BY <2>1 DEF QueueInv, ModesRight
  <1>26. VarWaitersFirst'
    <2>1. ASSUME NEW k \in Lock, NEW x \in Queued(k)', lwWaitLink'[x] # NULL, call'[lwWaitLink'[x]].op = "WaitForVar"
          PROVE  call'[x].op = "WaitForVar"
      <3>1. x \in Queued(k) /\ x \in Proc /\ x # q[n]
        BY <1>8, <1>17, <1>18, <2>1, ListedFacts
      <3>2. lwWaitLink'[x] = lwWaitLink[x] /\ HasList(lwWaitLink, head[k]) /\ Queued(k) = Members(lwWaitLink, head[k])
        BY <1>6, <3>1, ListedFacts, MembersAre
      <3>3. lwWaitLink[x] \in Queued(k) /\ lwWaitLink[x] \in Proc
        BY <2>1, <3>1, <3>2, ListEnds
      <3>4. call'[x] = call[x] /\ call'[lwWaitLink[x]] = call[lwWaitLink[x]]
        BY <1>21, <3>1, <3>3, ListedFacts
      <3>. QED
        BY <2>1, <3>1, <3>2, <3>4 DEF QueueInv, VarWaitersFirst
    <2>. QED
      BY <2>1 DEF VarWaitersFirst
  <1>. QED
    BY <1>15, <1>19, <1>20, <1>22, <1>23, <1>24, <1>25, <1>26 DEF QueueInv

\* The releaser takes the first waiter off its list: it is still about to awaken it.
LEMMA UnlinkQueues ==
  ASSUME TypeOK, QueueInv, NEW p \in Proc, pc[p] = "awaken", wakeHead[p] # NULL,
         wakeProc' = [wakeProc EXCEPT ![p] = wakeHead[p]],
         wakeHead' = [wakeHead EXCEPT ![p] = lwWaitLink[wakeHead[p]]],
         lwWaitLink' = [lwWaitLink EXCEPT ![wakeHead[p]] = NULL],
         pc' = [pc EXCEPT ![p] = "clear"], UNCHANGED <<head, tail, lwWaiting, lwWaitMode, call>>
  PROVE  QueueInv' /\ SameLists
  <1>. DEFINE h == wakeHead[p]
  <1>0. HasList(lwWaitLink, h) /\ h # NULL
    BY ListedFacts
  <1>1. PICK q : IsList(lwWaitLink, h, q)
    BY <1>0 DEF HasList
  <1>2. q \in Seq(Proc) /\ Len(q) \in Nat /\ \A i \in 1..Len(q) : q[i] \in Proc
    BY <1>1, SeqFacts DEF IsList
  <1>3. 1 \in 1..Len(q) /\ q[1] = h /\ h \in Proc
    BY <1>0, <1>1, <1>2 DEF IsList
  <1>4. \A i, j \in 1..Len(q) : q[i] = q[j] => i = j
    BY <1>1, ListDistinct
  <1>5. \A x : x \in Members(lwWaitLink, h) <=> \E i \in 1..Len(q) : q[i] = x
    BY <1>1, ListMembers
  <1>6. /\ lwWaitLink'[h] = NULL /\ \A x \in Proc : x # h => lwWaitLink'[x] = lwWaitLink[x]
        /\ wakeHead'[p] = lwWaitLink[h] /\ \A w \in Proc : w # p => wakeHead'[w] = wakeHead[w]
        /\ wakeProc'[p] = h /\ \A w \in Proc : w # p => wakeProc'[w] = wakeProc[w]
    BY <1>3 DEF TypeOK
  <1>7. pc'[p] = "clear" /\ \A w \in Proc : w # p => pc'[w] = pc[w]
    BY DEF TypeOK
  <1>. HIDE DEF h
  <1>8. /\ HasList(lwWaitLink', lwWaitLink[h])
        /\ \A x : x \in Members(lwWaitLink', lwWaitLink[h]) <=> x \in Members(lwWaitLink, h) /\ x # h
    <2>1. \A x : x \in Members(lwWaitLink, h) /\ x # q[1] => lwWaitLink'[x] = lwWaitLink[x]
      BY <1>3, <1>6 DEF Members
    <2>2. IsCut(h, q, 1)
      BY <1>1, <1>3, <1>6, <2>1 DEF IsCut
    <2>3. InTwo(h, q, 1)
      BY <2>2, ListCut, Zenon
    <2>4. HasList(lwWaitLink', lwWaitLink[h])
      BY <1>3, <2>3 DEF InTwo
    <2>5. \A x : x \in Members(lwWaitLink', lwWaitLink[h]) <=> \E i \in 2..Len(q) : q[i] = x
      <3>1. 1 + 1 = 2
        OBVIOUS
      <3>2. \A x : x \in Members(lwWaitLink', lwWaitLink[q[1]]) <=> \E i \in (1 + 1)..Len(q) : q[i] = x
        BY <2>3, Zenon DEF InTwo
      <3>. QED
        BY <1>3, <3>1, <3>2, Zenon
    <2>6. \A i : i \in 2..Len(q) <=> i \in 1..Len(q) /\ i # 1
      BY <1>2
    <2>7. ASSUME NEW x PROVE (\E i \in 2..Len(q) : q[i] = x) <=> (\E i \in 1..Len(q) : q[i] = x) /\ x # h
      BY <1>3, <1>4, <2>6
    <2>. QED
      BY <1>5, <2>4, <2>5, <2>7
  <1>9. h \in Members(lwWaitLink, h) /\ h \in Awakens(p)
    <2>1. h \in Members(lwWaitLink, h)
      BY <1>3, <1>5
    <2>. QED
      BY <2>1, AwakensAre DEF h
  <1>10. \A l \in Lock : HasList(lwWaitLink', head'[l]) /\ Queued(l)' = Queued(l)
    <2>1. ASSUME NEW l \in Lock PROVE HasList(lwWaitLink', head'[l]) /\ Queued(l)' = Queued(l)
      <3>1. HasList(lwWaitLink, head[l]) /\ Queued(l) = Members(lwWaitLink, head[l])
        BY ListedFacts, MembersAre
      <3>2. \A x : x \in Members(lwWaitLink, head[l]) => lwWaitLink'[x] = lwWaitLink[x]
        BY <1>6, <1>9, <3>1, ListedFacts
      <3>3. HasList(lwWaitLink', head[l]) /\ Members(lwWaitLink', head[l]) = Members(lwWaitLink, head[l])
        BY <3>1, <3>2, ListStays
      <3>. QED
        BY <3>1, <3>3, MembersAre
    <2>. QED
      BY <2>1
  <1>11. \A w \in Proc : w # p =>
           HasList(lwWaitLink', wakeHead'[w]) /\ Members(lwWaitLink', wakeHead'[w]) = Members(lwWaitLink, wakeHead[w])
    <2>1. ASSUME NEW w \in Proc, w # p
          PROVE  HasList(lwWaitLink', wakeHead[w]) /\ Members(lwWaitLink', wakeHead[w]) = Members(lwWaitLink, wakeHead[w])
      <3>1. HasList(lwWaitLink, wakeHead[w])
        BY ListedFacts
      <3>2. \A x : x \in Members(lwWaitLink, wakeHead[w]) => lwWaitLink'[x] = lwWaitLink[x]
        BY <1>6, <1>9, <2>1, ListedFacts
      <3>. QED
        BY <3>1, <3>2, ListStays
    <2>. QED
      BY <1>6, <2>1
  <1>12. \A w \in Proc : Awakens(w)' = Awakens(w)
    <2>1. \A w \in Proc : w # p => \A x : x \in Awakens(w)' <=> x \in Awakens(w)
      BY <1>6, <1>7, <1>11, AwakensAre
    <2>2. \A x : x \in Awakens(p) <=> x \in Members(lwWaitLink, h)
      BY AwakensAre DEF h
    <2>3. \A x : x \in Awakens(p)' <=> x \in Members(lwWaitLink', lwWaitLink[h]) \/ x = h
      BY <1>6, <1>7, AwakensAre
    <2>4. \A x : x \in Awakens(p)' <=> x \in Awakens(p)
      BY <1>8, <1>9, <2>2, <2>3
    <2>5. \A w \in Proc : \A x : x \in Awakens(w)' <=> x \in Awakens(w)
      BY <2>1, <2>4, Zenon
    <2>. QED
      BY <2>5
  <1>13. ListsRight'
    <2>1. \A w \in Proc : HasList(lwWaitLink', wakeHead'[w])
      BY <1>6, <1>8, <1>11
    <2>. QED
      BY <1>10, <2>1, MembersAre DEF ListsRight
  <1>14. TailRight'
    <2>1. ASSUME NEW l \in Lock, head[l] # NULL PROVE tail[l] \in Queued(l) /\ lwWaitLink'[tail[l]] = NULL
      <3>1. tail[l] \in Queued(l) /\ lwWaitLink[tail[l]] = NULL
        BY <2>1 DEF QueueInv, TailRight
      <3>. QED
        BY <1>6, <1>9, <3>1, ListedFacts
    <2>. QED
      BY <1>10, <2>1 DEF TailRight
  <1>15. SleepersRight'
    <2>1. \A l \in Lock : \A x \in Queued(l)' : pc'[x] = "sleep" /\ lwWaiting'[x] /\ call'[x].lock = l
      BY <1>7, <1>10, ListedFacts
    <2>2. \A w \in Proc : \A x \in Awakens(w)' : pc'[x] = "sleep" /\ lwWaiting'[x]
      BY <1>7, <1>12, ListedFacts
    <2>3. ASSUME NEW x \in Proc, lwWaiting'[x]
          PROVE  pc'[x] = "sleep" /\ ((\E k \in Lock : x \in Queued(k)') \/ \E w \in Proc : x \in Awakens(w)')
      BY <1>7, <1>10, <1>12, <2>3 DEF QueueInv, SleepersRight
    <2>. QED
      BY <2>1, <2>2, <2>3, Zenon DEF SleepersRight
  <1>16. Apart'
    BY <1>10, <1>12 DEF QueueInv, Apart
  <1>17. WakersRight'
    <2>1. \A w \in Proc : OnList(wakeHead[w])' = Members(lwWaitLink', wakeHead'[w])
      BY MembersAre
    <2>2. \A w \in Proc : w # p => OnList(wakeHead[w])' = OnList(wakeHead[w])
      BY <1>11, <2>1, MembersAre
    <2>3. ASSUME NEW w \in Proc
          PROVE  /\ pc'[w] \notin {"awaken", "clear", "post"} => wakeHead'[w] = NULL
                 /\ pc'[w] \in {"clear", "post"} => wakeProc'[w] \in Proc
                 /\ pc'[w] = "clear" => wakeProc'[w] \notin OnList(wakeHead[w])'
      <3>1. CASE w = p
        <4>1. h \notin Members(lwWaitLink', wakeHead'[p])
          BY <1>6, <1>8
        <4>. QED
          BY <1>3, <1>6, <1>7, <2>1, <3>1, <4>1
      <3>2. CASE w # p
        BY <1>6, <1>7, <2>2, <3>2 DEF QueueInv, WakersRight
      <3>. QED
        BY <3>1, <3>2
    <2>. QED
      BY <2>3 DEF WakersRight
  <1>18. ModesRight'
    BY <1>7 DEF QueueInv, ModesRight
  <1>19. VarWaitersFirst'
    <2>1. ASSUME NEW l \in Lock, NEW x \in Queued(l) PROVE lwWaitLink'[x] = lwWaitLink[x]
      BY <1>6, <1>9, <2>1, ListedFacts
    <2>. QED
      BY <1>10, <2>1 DEF QueueInv, VarWaitersFirst
  <1>. QED
    BY <1>10, <1>12, <1>13, <1>14, <1>15, <1>16, <1>17, <1>18, <1>19 DEF QueueInv, SameLists

\* It resets lwWaiting, and is done with the lists.
LEMMA ClearQueues ==
  ASSUME TypeOK, QueueInv, NEW p \in Proc, pc[p] = "clear",
         lwWaiting' = [lwWaiting EXCEPT ![wakeProc[p]] = FALSE], pc' = [pc EXCEPT ![p] = "post"],
         UNCHANGED <<head, tail, lwWaitLink, lwWaitMode, wakeHead, wakeProc, call>>
  PROVE  /\ QueueInv'
         /\ wakeProc[p] \in Awakens(p) /\ \A x : x \in Awakens(p)' <=> x \in Awakens(p) /\ x # wakeProc[p]
         /\ \A w \in Proc : w # p => Awakens(w)' = Awakens(w)
         /\ \A l \in Lock : Queued(l)' = Queued(l)
  <1>. DEFINE b == wakeProc[p]
  <1>1. b \in Awakens(p) /\ b \in Proc /\ b \notin Members(lwWaitLink, wakeHead[p])
    BY AwakensAre, MembersAre DEF QueueInv, WakersRight
  <1>2. pc'[p] = "post" /\ (\A w \in Proc : w # p => pc'[w] = pc[w])
        /\ ~lwWaiting'[b] /\ \A x \in Proc : x # b => lwWaiting'[x] = lwWaiting[x]
    BY <1>1 DEF TypeOK
  <1>3. \A l : Queued(l)' = Queued(l)
    BY MembersAre
  <1>4. \A w : OnList(wakeHead[w])' = OnList(wakeHead[w])
    BY MembersAre
  <1>5. \A x : x \in Awakens(p)' <=> x \in Awakens(p) /\ x # b
    BY <1>1, <1>2, AwakensAre
  <1>6. \A w \in Proc : w # p => Awakens(w)' = Awakens(w)
    <2>1. \A w \in Proc : w # p => \A x : x \in Awakens(w)' <=> x \in Awakens(w)
      BY <1>2, AwakensAre
    <2>. QED
      BY <2>1
  <1>. HIDE DEF b
  <1>7. ListsRight'
    BY MembersAre DEF QueueInv, ListsRight
  <1>8. TailRight'
    BY <1>3 DEF QueueInv, TailRight
  <1>9. SleepersRight'
    <2>1. \A l \in Lock : \A x \in Queued(l)' : pc'[x] = "sleep" /\ lwWaiting'[x] /\ call'[x].lock = l
      BY <1>1, <1>2, <1>3, ListedFacts
    <2>2. \A w \in Proc : \A x \in Awakens(w)' : pc'[x] = "sleep" /\ lwWaiting'[x]
      <3>1. ASSUME NEW w \in Proc, NEW x, x \in Awakens(w)' PROVE x \in Awakens(w) /\ x # b
        BY <1>1, <1>5, <1>6, <3>1, ListedFacts
      <3>2. \A w \in Proc : \A x : x \in Awakens(w) => x \in Proc /\ pc[x] = "sleep" /\ lwWaiting[x]
        BY ListedFacts
      <3>3. \A x \in Proc : pc[x] = "sleep" => pc'[x] = "sleep"
        BY <1>2
      <3>. QED
        BY <1>2, <3>1, <3>2, <3>3
    <2>3. ASSUME NEW x \in Proc, lwWaiting'[x]
          PROVE  pc'[x] = "sleep" /\ ((\E k \in Lock : x \in Queued(k)') \/ \E w \in Proc : x \in Awakens(w)')
      <3>1. x # b /\ lwWaiting[x]
        BY <1>2, <2>3
      <3>2. pc[x] = "sleep" /\ ((\E k \in Lock : x \in Queued(k)) \/ \E w \in Proc : x \in Awakens(w))
        BY <3>1 DEF QueueInv, SleepersRight
      <3>. QED
        BY <1>2, <1>3, <1>5, <1>6, <3>1, <3>2
    <2>. QED
      BY <2>1, <2>2, <2>3, Zenon DEF SleepersRight
  <1>10. Apart'
    <2>1. \A w \in Proc : \A x \in Awakens(w)' : x \in Awakens(w)
      BY <1>5, <1>6
    <2>. QED
      BY <1>3, <2>1 DEF QueueInv, Apart
  <1>11. WakersRight'
    <2>1. ASSUME NEW w \in Proc
          PROVE  /\ pc'[w] \notin {"awaken", "clear", "post"} => wakeHead'[w] = NULL
                 /\ pc'[w] \in {"clear", "post"} => wakeProc'[w] \in Proc
                 /\ pc'[w] = "clear" => wakeProc'[w] \notin OnList(wakeHead[w])'
      BY <1>2, <1>4 DEF QueueInv, WakersRight
    <2>. QED
      BY <2>1 DEF WakersRight
  <1>12. ModesRight'
    BY <1>2 DEF QueueInv, ModesRight
  <1>13. VarWaitersFirst'
    BY <1>3 DEF QueueInv, VarWaitersFirst
  <1>. QED
    BY <1>1, <1>3, <1>5, <1>6, <1>7, <1>8, <1>9, <1>10, <1>11, <1>12, <1>13 DEF QueueInv, b
-----------------------------------------------------------------------------
(* Nobody queued is forgotten.                                             *)

\* Releases of l awaken waiters, and there is nobody to awaken while it is free.
Guarded(l) == releaseOK[l] /\ ~(head[l] # NULL /\ Free(l))

\* Where they do not, someone who was awakened is on the way to l and will see to it.
WakeupsKept == \A l \in Lock : Guarded(l) \/ \E p \in Proc : Retrying(p, l)

\* Whoever waits for the variable of l has something to wait for, and the next
\* release will awaken it.
VarWaitersRight ==
  \A l \in Lock : \A p \in Queued(l) :
    call[p].op = "WaitForVar" => exclusive[l] = 1 /\ releaseOK[l] /\ var[l] = call[p].val

\* The queues, the wakeups and the variables.
WaitInv == QueueInv /\ WakeupsKept /\ VarWaitersRight

\* Whom a releaser is about to awaken.
LEMMA AwakenedAre ==
  ASSUME NEW p
  PROVE  /\ ToBeAwakened(p) <=> \E w \in Proc : p \in Awakens(w)
         /\ ToBeAwakened(p)' <=> \E w \in Proc : p \in Awakens(w)'
  <1>1. /\ ToBeAwakened(p) <=> \E w \in Proc : p \in OnList(wakeHead[w]) \/ (pc[w] = "clear" /\ wakeProc[w] = p)
        /\ ToBeAwakened(p)' <=> \E w \in Proc : p \in OnList(wakeHead[w])' \/ (pc'[w] = "clear" /\ wakeProc'[w] = p)
    BY DEF ToBeAwakened
  <1>2. \A w : OnList(wakeHead[w]) = Members(lwWaitLink, wakeHead[w]) /\ OnList(wakeHead[w])' = Members(lwWaitLink', wakeHead'[w])
    BY MembersAre
  <1>. QED
    BY <1>1, <1>2, AwakensAre

\* The same of those on the way to a lock.
LEMMA RetryingAre ==
  ASSUME NEW p, NEW l
  PROVE  /\ Retrying(p, l) <=>
              /\ call[p] # NULL /\ call[p].op = "Acquire" /\ call[p].lock = l
              /\ pc[p] = "retry" \/ (pc[p] = "sleep" /\ (~lwWaiting[p] \/ \E w \in Proc : p \in Awakens(w)))
         /\ Retrying(p, l)' <=>
              /\ call'[p] # NULL /\ call'[p].op = "Acquire" /\ call'[p].lock = l
              /\ pc'[p] = "retry" \/ (pc'[p] = "sleep" /\ (~lwWaiting'[p] \/ \E w \in Proc : p \in Awakens(w)'))
  <1>1. Retrying(p, l) <=>
          /\ call[p] # NULL /\ call[p].op = "Acquire" /\ call[p].lock = l
          /\ pc[p] = "retry" \/ (pc[p] = "sleep" /\ (~lwWaiting[p] \/ ToBeAwakened(p)))
    BY DEF Retrying
  <1>2. Retrying(p, l)' <=>
          /\ call'[p] # NULL /\ call'[p].op = "Acquire" /\ call'[p].lock = l
          /\ pc'[p] = "retry" \/ (pc'[p] = "sleep" /\ (~lwWaiting'[p] \/ ToBeAwakened(p)'))
    BY DEF Retrying
  <1>3. ToBeAwakened(p) <=> \E w \in Proc : p \in Awakens(w)
    BY AwakenedAre
  <1>4. ToBeAwakened(p)' <=> \E w \in Proc : p \in Awakens(w)'
    BY AwakenedAre
  <1>. QED
    BY <1>1, <1>2, <1>3, <1>4

\* A step of another backend does not keep one from its way to the lock.
OnTheWay(q) ==
  /\ pc'[q] = pc[q] /\ call'[q] = call[q]
  /\ ~lwWaiting[q] => ~lwWaiting'[q]
  /\ (\E w \in Proc : q \in Awakens(w)) => ~lwWaiting'[q] \/ \E w \in Proc : q \in Awakens(w)'

\* A step of p that sees to the wakeups.
Minds(p) ==
  /\ \A q \in Proc : q # p => OnTheWay(q)
  /\ \A l \in Lock :
       \/ Guarded(l)'
       \/ \E q \in Proc : Retrying(q, l)'
       \/ (~Guarded(l) /\ (Retrying(p, l) => Retrying(p, l)'))

\* It keeps them.
LEMMA KeepWakeups ==
  ASSUME WakeupsKept, NEW p \in Proc, Minds(p)
  PROVE  WakeupsKept'
  <1>. USE DEF Minds
  <1>1. ASSUME NEW l \in Lock, NEW q \in Proc, q # p, Retrying(q, l) PROVE Retrying(q, l)'
    BY <1>1, RetryingAre DEF OnTheWay
  <1>2. ASSUME NEW l \in Lock PROVE Guarded(l)' \/ \E q \in Proc : Retrying(q, l)'
    BY <1>1 DEF WakeupsKept
  <1>. QED
    BY <1>2 DEF WakeupsKept

\* Those in front of one who waits for the variable do so too.
LEMMA VarPrefix ==
  ASSUME TypeOK, QueueInv, NEW l \in Lock, NEW q \in Lists(head[l]), NEW j \in 1..Len(q),
         call[q[j]].op = "WaitForVar"
  PROVE  \A i \in 1..j : call[q[i]].op = "WaitForVar" /\ OnlyUntilFree(q[i])
  <1>1. IsList(lwWaitLink, head[l], q) /\ Len(q) \in Nat /\ \A i \in 1..Len(q) : q[i] \in Proc
    BY ListsAre, SeqFacts DEF IsList
  <1>2. \A i \in 1..Len(q) : lwWaitLink[q[i]] = IF i < Len(q) THEN q[i + 1] ELSE NULL
    BY <1>1 DEF IsList
  <1>3. \A i \in 1..Len(q) : q[i] \in Queued(l)
    BY <1>1, ListMembers, MembersAre
  <1>. DEFINE Other(d) == d < j /\ call[q[j - d]].op # "WaitForVar"
              S == {d \in Nat : Other(d)}
  <1>4. S = {}
    <2>1. SUFFICES ASSUME S # {} PROVE FALSE
      OBVIOUS
    <2>2. PICK d \in S : \A e \in S : d <= e
      <3>1. S \in SUBSET Nat
        OBVIOUS
      <3>. HIDE DEF S
      <3>. QED
        BY <2>1, <3>1, Smallest
    <2>3. d \in Nat /\ d < j /\ call[q[j - d]].op # "WaitForVar"
      OBVIOUS
    <2>4. d # 0
      BY <2>3
    <2>5. d - 1 \in Nat /\ d - 1 < j /\ ~Other(d - 1)
      BY <2>2, <2>3, <2>4
    <2>6. j - d \in 1..Len(q) /\ j - d < Len(q) /\ j - (d - 1) = j - d + 1 /\ j - d + 1 \in 1..Len(q)
      BY <1>1, <2>3, <2>4
    <2>. DEFINE a == j - d
    <2>7. a \in 1..Len(q) /\ a < Len(q) /\ a + 1 \in 1..Len(q)
      BY <2>6
    <2>8. call[q[a + 1]].op = "WaitForVar"
      BY <2>5, <2>6
    <2>9. call[q[a]].op # "WaitForVar"
      BY <2>3
    <2>. HIDE DEF a
    <2>10. lwWaitLink[q[a]] = q[a + 1] /\ q[a + 1] # NULL
      BY <1>1, <1>2, <2>7
    <2>. QED
      BY <1>3, <2>7, <2>8, <2>9, <2>10 DEF QueueInv, VarWaitersFirst
  <1>5. \A i \in 1..j : call[q[i]].op = "WaitForVar"
    <2>1. ASSUME NEW i \in 1..j PROVE call[q[i]].op = "WaitForVar"
      <3>1. j - i \in Nat /\ j - i < j /\ j - (j - i) = i
        OBVIOUS
      <3>2. ~Other(j - i)
        BY <1>4, <3>1
      <3>. QED
        BY <3>1, <3>2
    <2>. QED
      BY <2>1
  <1>6. \A i \in 1..j : q[i] \in Proc /\ pc[q[i]] = "sleep"
    BY <1>1, <1>3, ListedFacts
  <1>. QED
    BY <1>5, <1>6 DEF QueueInv, ModesRight, OnlyUntilFree

\* Every step that neither shortens nor lengthens a queue: what is left to show.
Quiet(p) ==
  /\ UNCHANGED <<head, tail, lwWaitLink, wakeHead, lwWaiting, lwWaitMode>>
  /\ \A q \in Proc : q # p => Steady(q)
  /\ Steady(p) \/ Passes(p)

\* What l promises to the waiters for its variable, if there are any, stays true.
Promise(l) ==
  \/ \A x \in Queued(l) : call[x].op # "WaitForVar"
  \/ (exclusive'[l] = exclusive[l] /\ var'[l] = var[l] /\ (releaseOK[l] => releaseOK'[l]))

\* Such a step keeps the waiters right.
LEMMA QuietWaits ==
  ASSUME TypeOK, WaitInv, NEW p \in Proc, Quiet(p),
         \A l \in Lock : Promise(l),
         \A l \in Lock : Guarded(l)' \/ (~Guarded(l) /\ (Retrying(p, l) => Retrying(p, l)'))
  PROVE  WaitInv'
  <1>1. QueueInv' /\ SameLists
    BY QuietQueues DEF WaitInv, Quiet
  <1>2. \A q \in Proc : q # p => OnTheWay(q)
    BY <1>1 DEF Quiet, Steady, OnTheWay, SameLists
  <1>3. WakeupsKept'
    <2>1. Minds(p)
      BY <1>2 DEF Minds
    <2>. QED
      BY <2>1, KeepWakeups DEF WaitInv
  <1>4. ASSUME NEW l \in Lock, NEW x \in Queued(l)', call'[x].op = "WaitForVar"
        PROVE  exclusive'[l] = 1 /\ releaseOK'[l] /\ var'[l] = call'[x].val
    <2>1. x \in Queued(l) /\ x \in Proc /\ lwWaiting[x]
      BY <1>1, <1>4, ListedFacts DEF SameLists, WaitInv
    <2>2. call'[x] = call[x]
      BY <2>1 DEF Quiet, Steady, Passes
    <2>. QED
      BY <1>4, <2>1, <2>2 DEF WaitInv, VarWaitersRight, Promise
  <1>5. VarWaitersRight'
    BY <1>4 DEF VarWaitersRight
  <1>. QED
    BY <1>1, <1>3, <1>5 DEF WaitInv

\* What is left to show when p joins the queue of l, which is taken.
LEMMA LongerWaits ==
  ASSUME TypeOK, WaitInv, NEW p \in Proc, NEW l \in Lock, QueueInv', Longer(p, l),
         \A q \in Proc : q # p => pc'[q] = pc[q] /\ call'[q] = call[q] /\ lwWaiting'[q] = lwWaiting[q],
         \A k \in Lock : k # l => head'[k] = head[k] /\ releaseOK'[k] = releaseOK[k],
         UNCHANGED <<exclusive, shared, var>>, ~Free(l), releaseOK[l] => releaseOK'[l],
         \A k \in Lock : Retrying(p, k) => k = l /\ releaseOK'[l],
         call'[p].op = "WaitForVar" => exclusive[l] = 1 /\ releaseOK'[l] /\ var[l] = call'[p].val
  PROVE  WaitInv'
  <1>1. \A q \in Proc : q # p => OnTheWay(q)
    BY DEF OnTheWay, Longer
  <1>2. ASSUME NEW k \in Lock
        PROVE  Guarded(k)' \/ (~Guarded(k) /\ (Retrying(p, k) => Retrying(p, k)'))
    <2>1. CASE k = l
      BY <2>1 DEF Guarded, Free
    <2>2. CASE k # l
      BY <2>2 DEF Guarded, Free
    <2>. QED
      BY <2>1, <2>2
  <1>3. WakeupsKept'
    <2>1. Minds(p)
      BY <1>1, <1>2 DEF Minds
    <2>. QED
      BY <2>1, KeepWakeups DEF WaitInv
  <1>4. ASSUME NEW k \in Lock, NEW x \in Queued(k)', call'[x].op = "WaitForVar"
        PROVE  exclusive'[k] = 1 /\ releaseOK'[k] /\ var'[k] = call'[x].val
    <2>1. (k = l /\ x = p) \/ x \in Queued(k)
      BY <1>4 DEF Longer
    <2>2. CASE k = l /\ x = p
      BY <1>4, <2>2
    <2>3. CASE x \in Queued(k) /\ x # p
      <3>1. x \in Proc /\ call'[x] = call[x]
        BY <2>3, ListedFacts DEF WaitInv
      <3>2. exclusive[k] = 1 /\ releaseOK[k] /\ var[k] = call[x].val
        BY <1>4, <2>3, <3>1 DEF WaitInv, VarWaitersRight
      <3>. QED
        BY <3>1, <3>2
    <2>4. CASE x \in Queued(k) /\ x = p /\ k # l
      <3>1. x \in Queued(l)' /\ x \in Queued(k)'
        BY <1>4, <2>4 DEF Longer
      <3>2. \A j, m \in Lock : x \in Queued(j)' /\ x \in Queued(m)' => j = m
        BY DEF QueueInv, SleepersRight
      <3>. QED
        BY <2>4, <3>1, <3>2
    <2>. QED
      BY <2>1, <2>2, <2>3, <2>4
  <1>5. VarWaitersRight'
    BY <1>4 DEF VarWaitersRight
  <1>. QED
    BY <1>3, <1>5 DEF WaitInv

\* What is left to show when p takes the first n waiters off the queue of l.
LEMMA ShorterWaits ==
  ASSUME TypeOK, WaitInv, NEW p \in Proc, NEW l \in Lock, NEW q \in Lists(head[l]), NEW n \in DOMAIN q,
         QueueInv', Shorter(p, l, q, n), pc[p] = "idle",
         \A x \in Proc : x # p => pc'[x] = pc[x] /\ call'[x] = call[x], lwWaiting' = lwWaiting,
         \A k \in Lock : k # l => /\ head'[k] = head[k] /\ releaseOK'[k] = releaseOK[k] /\ var'[k] = var[k]
                               /\ exclusive'[k] = exclusive[k] /\ shared'[k] = shared[k],
         Guarded(l)' \/ ~Guarded(l) \/ \E x \in Proc : Retrying(x, l)',
         \A j \in (n + 1)..Len(q) : call[q[j]].op # "WaitForVar"
  PROVE  WaitInv'
  <1>0. \A k \in Lock : ~Retrying(p, k)
    BY RetryingAre
  <1>1. ASSUME NEW x \in Proc, x # p PROVE OnTheWay(x)
    <2>1. ASSUME NEW w \in Proc, x \in Awakens(w) PROVE \E v \in Proc : x \in Awakens(v)'
      <3>1. w # p
        <4>1. wakeHead[p] = NULL /\ HasList(lwWaitLink, wakeHead[p])
          BY ListedFacts DEF WaitInv, QueueInv, WakersRight
        <4>. QED
          BY <2>1, <4>1, ListEnds, AwakensAre
      <3>. QED
        BY <2>1, <3>1 DEF Shorter
    <2>. QED
      BY <1>1, <2>1 DEF OnTheWay
  <1>2. ASSUME NEW k \in Lock
        PROVE  \/ Guarded(k)'
               \/ \E x \in Proc : Retrying(x, k)'
               \/ (~Guarded(k) /\ (Retrying(p, k) => Retrying(p, k)'))
    <2>1. CASE k = l
      BY <1>0, <2>1
    <2>2. CASE k # l
      BY <1>0, <2>2 DEF Guarded, Free
    <2>. QED
      BY <2>1, <2>2
  <1>3. WakeupsKept'
    <2>1. Minds(p)
      BY <1>1, <1>2 DEF Minds
    <2>. QED
      BY <2>1, KeepWakeups DEF WaitInv
  <1>4. ASSUME NEW k \in Lock, NEW x \in Queued(k)', call'[x].op = "WaitForVar"
        PROVE  exclusive'[k] = 1 /\ releaseOK'[k] /\ var'[k] = call'[x].val
    <2>1. x \in Queued(k)
      <3>1. CASE k = l
        <4>1. Len(q) \in Nat /\ n \in 1..Len(q)
          BY ListsAre, SeqFacts DEF IsList
        <4>. QED
          BY <1>4, <3>1, <4>1 DEF Shorter
      <3>2. CASE k # l
        BY <1>4, <3>2 DEF Shorter
      <3>. QED
        BY <3>1, <3>2
    <2>2. x \in Proc /\ pc[x] = "sleep" /\ call'[x] = call[x]
      <3>1. x \in Proc /\ pc[x] = "sleep"
        BY <2>1, ListedFacts DEF WaitInv
      <3>. QED
        BY <3>1
    <2>3. k # l
      BY <1>4, <2>2 DEF Shorter
    <2>. QED
      BY <1>4, <2>1, <2>2, <2>3 DEF WaitInv, VarWaitersRight
  <1>5. VarWaitersRight'
    BY <1>4 DEF VarWaitersRight
  <1>. QED
    BY <1>3, <1>5 DEF WaitInv

\* Unlinking a waiter and clearing its lwWaiting.
LEMMA AwakenWaits ==
  ASSUME TypeOK, WaitInv, NEW p \in Proc, AwakenWaiters(p)
  PROVE  WaitInv'
  <1>0. QueueInv /\ WakeupsKept /\ VarWaitersRight /\ UNCHANGED <<lockVars, lwWaitMode>>
    BY DEF WaitInv, AwakenWaiters
  <1>1. UNCHANGED <<releaseOK, exclusive, shared, head, tail, var, lwWaitMode>>
    BY <1>0 DEF lockVars
  <1>2. pc[p] \in {"awaken", "clear", "post"} /\ \A k \in Lock : ~Retrying(p, k)
    <2>1. pc[p] \in {"awaken", "clear", "post"}
      BY DEF AwakenWaiters, UnlinkThenClear
    <2>. QED
      BY <2>1, RetryingAre
  <1>3. \A l \in Lock : Guarded(l)' <=> Guarded(l)
    BY <1>1 DEF Guarded, Free
  <1>4. ASSUME QueueInv', \A x \in Proc : x # p => OnTheWay(x), \A l \in Lock : Queued(l)' = Queued(l)
        PROVE  WaitInv'
    <2>1. WakeupsKept'
      <3>1. Minds(p)
        BY <1>2, <1>3, <1>4 DEF Minds
      <3>. QED
        BY <1>0, <3>1, KeepWakeups
    <2>2. \A l \in Lock : \A x \in Queued(l) : call'[x] = call[x]
      BY <1>0, <1>2, <1>4, ListedFacts DEF OnTheWay
    <2>3. VarWaitersRight'
      BY <1>0, <1>1, <1>4, <2>2 DEF VarWaitersRight
    <2>. QED
      BY <1>4, <2>1, <2>3 DEF WaitInv
  <1>5. CASE /\ pc[p] = "awaken" /\ wakeHead[p] # NULL
             /\ wakeProc' = [wakeProc EXCEPT ![p] = wakeHead[p]]
             /\ wakeHead' = [wakeHead EXCEPT ![p] = lwWaitLink[wakeHead[p]]]
             /\ lwWaitLink' = [lwWaitLink EXCEPT ![wakeHead[p]] = NULL]
             /\ pc' = [pc EXCEPT ![p] = "clear"] /\ UNCHANGED <<lwWaiting, call>>
    <2>1. QueueInv' /\ SameLists
      BY <1>0, <1>1, <1>5, UnlinkQueues
    <2>2. \A x \in Proc : x # p => pc'[x] = pc[x]
      BY <1>5 DEF TypeOK
    <2>3. \A x \in Proc : x # p => OnTheWay(x)
      BY <1>5, <2>1, <2>2 DEF OnTheWay, SameLists
    <2>. QED
      BY <1>4, <2>1, <2>3 DEF SameLists
  <1>6. CASE /\ pc[p] = "clear"
             /\ lwWaiting' = [lwWaiting EXCEPT ![wakeProc[p]] = FALSE]
             /\ pc' = [pc EXCEPT ![p] = "post"] /\ UNCHANGED <<lwWaitLink, wakeHead, wakeProc, call>>
    <2>1. /\ QueueInv'
          /\ wakeProc[p] \in Awakens(p) /\ \A x : x \in Awakens(p)' <=> x \in Awakens(p) /\ x # wakeProc[p]
          /\ \A w \in Proc : w # p => Awakens(w)' = Awakens(w)
          /\ \A l \in Lock : Queued(l)' = Queued(l)
      BY <1>0, <1>1, <1>6, ClearQueues
    <2>2. wakeProc[p] \in Proc
      BY <1>0, <2>1, ListedFacts
    <2>3. /\ \A x \in Proc : x # p => pc'[x] = pc[x]
          /\ ~lwWaiting'[wakeProc[p]] /\ \A x \in Proc : x # wakeProc[p] => lwWaiting'[x] = lwWaiting[x]
      BY <1>6, <2>2 DEF TypeOK
    <2>4. ASSUME NEW x \in Proc, x # p PROVE OnTheWay(x)
      <3>1. CASE x = wakeProc[p]
        BY <1>6, <2>3, <2>4, <3>1 DEF OnTheWay
      <3>2. CASE x # wakeProc[p]
        <4>1. \A w \in Proc : x \in Awakens(w) => x \in Awakens(w)'
          BY <2>1, <3>2
        <4>. QED
          BY <1>6, <2>3, <2>4, <3>2, <4>1 DEF OnTheWay
      <3>. QED
        BY <3>1, <3>2
    <2>. QED
      BY <1>4, <2>1, <2>4
  <1>7. CASE /\ pc[p] \in {"awaken", "post"} /\ UNCHANGED <<lwWaiting, lwWaitLink, wakeHead>>
             /\ \/ pc' = [pc EXCEPT ![p] = "awaken"] /\ wakeProc' = [wakeProc EXCEPT ![p] = NULL] /\ UNCHANGED call
                \/ /\ wakeHead[p] = NULL /\ pc' = [pc EXCEPT ![p] = "idle"] /\ UNCHANGED wakeProc
                   /\ call' = [call EXCEPT ![p] = NULL]
    <2>1. \A x \in Proc : x # p => Steady(x)
      BY <1>7 DEF Steady, TypeOK
    <2>2. pc'[p] = "awaken" \/ (pc'[p] = "idle" /\ wakeHead[p] = NULL)
      BY <1>7 DEF TypeOK
    <2>3. ~lwWaiting[p]
      BY <1>0, <1>7 DEF QueueInv, SleepersRight
    <2>4. Passes(p)
      BY <1>7, <2>2, <2>3 DEF Passes
    <2>5. QueueInv' /\ SameLists
      BY <1>0, <1>1, <1>7, <2>1, <2>4, QuietQueues
    <2>6. \A x \in Proc : x # p => OnTheWay(x)
      BY <1>7, <2>1, <2>5 DEF OnTheWay, Steady, SameLists
    <2>. QED
      BY <1>4, <2>5, <2>6 DEF SameLists
  <1>. QED
    BY <1>5, <1>6, <1>7 DEF AwakenWaiters, UnlinkThenClear, wakeVars
-----------------------------------------------------------------------------
(* The operations.                                                         *)

\* What the counters of a lock say.
LEMMA CounterFacts ==
  ASSUME LInv, NEW l \in Lock
  PROVE  /\ exclusive[l] \in {0, 1} /\ shared[l] \in Nat
         /\ exclusive[l] = 1 => shared[l] = 0
         /\ \A p \in Proc : mode[p][l] = LW_EXCLUSIVE => exclusive[l] = 1
  <1>1. /\ exclusive[l] = Cardinality(Holders(l, LW_EXCLUSIVE)) /\ shared[l] = Cardinality(Holders(l, LW_SHARED))
        /\ exclusive[l] <= 1 /\ (exclusive[l] = 1 => shared[l] = 0)
    BY DEF LInv, MutualExclusion
  <1>2. exclusive[l] \in Nat /\ shared[l] \in Nat
    BY <1>1, HoldersFinite, FS_CardinalityType
  <1>3. ASSUME NEW p \in Proc, mode[p][l] = LW_EXCLUSIVE PROVE exclusive[l] # 0
    <2>1. Holders(l, LW_EXCLUSIVE) # {}
      BY <1>3 DEF Holders
    <2>. QED
      BY <1>1, <2>1, HoldersFinite, FS_EmptySet
  <1>. QED
    BY <1>1, <1>2, <1>3

\* A backend that does not sleep is on no list, one outside any call awakens nobody.
LEMMA IdleFacts ==
  ASSUME LInv, WaitInv, NEW p \in Proc
  PROVE  /\ pc[p] # "sleep" => ~lwWaiting[p]
         /\ pc[p] \notin {"awaken", "clear", "post"} => wakeHead[p] = NULL
         /\ pc[p] \notin {"sleep", "retry"} => \A l \in Lock : ~Retrying(p, l)
         /\ \A l \in Lock : Retrying(p, l) => call[p].op = "Acquire" /\ l = call[p].lock
         /\ \A l \in Lock : exclusive[l] = 0 => \A x \in Queued(l) : call[x].op # "WaitForVar"
  BY RetryingAre DEF WaitInv, QueueInv, SleepersRight, WakersRight, VarWaitersRight

\* A round of the loop of LWLockAcquireCommon.
LEMMA AcquireRoundWaits ==
  ASSUME LInv, WaitInv, NEW p \in Proc, NEW c \in AcquireCall, NEW retry \in BOOLEAN,
         pc[p] = IF retry THEN "retry" ELSE "idle", retry => call[p] = c,
         AcquireRound(p, c, retry), UNCHANGED wakeVars
  PROVE  WaitInv'
  <1>. DEFINE l == c.lock
  <1>0. TypeOK /\ QueueInv /\ UNCHANGED <<wakeHead, wakeProc>>
    BY DEF LInv, WaitInv, wakeVars
  <1>1. l \in Lock /\ c.op = "Acquire" /\ c.mode \in {LW_EXCLUSIVE, LW_SHARED}
    BY CallFacts
  <1>2. /\ releaseOK'[l] = (releaseOK[l] \/ retry) /\ \A k \in Lock : k # l => releaseOK'[k] = releaseOK[k]
    BY <1>0, <1>1 DEF AcquireRound, AllowWakeups, TypeOK
  <1>3. \A k \in Lock : Retrying(p, k) => k = l /\ retry
    BY IdleFacts
  <1>4. CASE CanAcquire(l, c.mode)
    <2>1. Grant(p, c) /\ ReturnFromWait(p, sem[p])
          /\ var' = (IF c.val # NULL THEN [var EXCEPT ![l] = c.val] ELSE var)
      BY <1>4 DEF AcquireRound
    <2>2. Quiet(p)
      <3>1. UNCHANGED <<head, tail, lwWaitLink, wakeHead, lwWaiting, lwWaitMode>>
        BY <1>0, <2>1 DEF Grant, waitVars
      <3>2. pc'[p] = "idle" /\ \A q \in Proc : q # p => Steady(q)
        BY <1>0, <2>1 DEF ReturnFromWait, Steady, TypeOK
      <3>3. Passes(p)
        BY <3>2, IdleFacts DEF Passes
      <3>. QED
        BY <3>1, <3>2, <3>3 DEF Quiet
    <2>3. /\ \A k \in Lock : k # l => exclusive'[k] = exclusive[k] /\ shared'[k] = shared[k] /\ var'[k] = var[k]
          /\ exclusive[l] = 0 /\ (exclusive'[l] # 0 \/ shared'[l] # 0)
      BY <1>0, <1>1, <1>4, <2>1, CounterFacts DEF Grant, CanAcquire, TypeOK
    <2>4. \A k \in Lock : Promise(k)
      BY <1>2, <2>3, IdleFacts DEF Promise
    <2>5. ASSUME NEW k \in Lock PROVE Guarded(k)' \/ (~Guarded(k) /\ (Retrying(p, k) => Retrying(p, k)'))
      <3>1. head' = head
        BY <2>2 DEF Quiet
      <3>2. CASE k = l
        BY <1>2, <1>3, <2>3, <3>2 DEF Guarded, Free
      <3>3. CASE k # l
        BY <1>2, <1>3, <2>3, <3>1, <3>3 DEF Guarded, Free
      <3>. QED
        BY <3>2, <3>3
    <2>. QED
      BY <1>0, <2>2, <2>4, <2>5, QuietWaits
  <1>5. CASE ~CanAcquire(l, c.mode)
    <2>1. /\ EnqueueTail(p, l, c.mode) /\ pc' = [pc EXCEPT ![p] = "sleep"] /\ call' = [call EXCEPT ![p] = c]
          /\ UNCHANGED <<exclusive, shared, var>>
      BY <1>5 DEF AcquireRound
    <2>2. call'[p] = c /\ \A q \in Proc : q # p => pc'[q] = pc[q] /\ call'[q] = call[q]
      BY <1>0, <2>1 DEF TypeOK
    <2>3. QueueInv' /\ Longer(p, l)
      BY <1>0, <1>1, <2>1, <2>2, EnqueueQueues
    <2>4. /\ \A q \in Proc : q # p => lwWaiting'[q] = lwWaiting[q]
          /\ \A k \in Lock : k # l => head'[k] = head[k]
      BY <1>0, <2>1 DEF EnqueueTail, TypeOK
    <2>5. ~Free(l)
      BY <1>1, <1>5, CounterFacts DEF CanAcquire, Free
    <2>. HIDE DEF l
    <2>. QED
      BY <1>0, <1>1, <1>2, <1>3, <2>1, <2>2, <2>3, <2>4, <2>5, LongerWaits
  <1>. QED
    BY <1>4, <1>5

\* A step that changes neither the lists nor where the backends are in their calls.
LEMMA IdleWaits ==
  ASSUME LInv, WaitInv, NEW p \in Proc, UNCHANGED <<lockVars, waitVars, wakeVars, pc, call>>
  PROVE  WaitInv'
  <1>1. UNCHANGED <<releaseOK, exclusive, shared, head, tail, var, lwWaiting, lwWaitMode, lwWaitLink, wakeHead, wakeProc, pc, call>>
    BY DEF lockVars, waitVars, wakeVars
  <1>2. Quiet(p)
    BY <1>1 DEF Quiet, Steady
  <1>3. \A k \in Lock : Promise(k)
    BY <1>1 DEF Promise
  <1>4. \A q \in Proc : q # p => OnTheWay(q)
    <2>1. QueueInv' /\ SameLists
      BY <1>2, QuietQueues DEF Quiet, LInv, WaitInv
    <2>. QED
      BY <1>1, <2>1 DEF OnTheWay, SameLists
  <1>5. \A w \in Proc : Awakens(w)' = Awakens(w)
    BY <1>2, QuietQueues DEF Quiet, LInv, WaitInv, SameLists
  <1>6. ASSUME NEW k \in Lock PROVE Guarded(k)' \/ (~Guarded(k) /\ (Retrying(p, k) => Retrying(p, k)'))
    <2>1. Guarded(k)' = Guarded(k)
      BY <1>1 DEF Guarded, Free
    <2>2. Retrying(p, k) => Retrying(p, k)'
      BY <1>1, <1>5, RetryingAre
    <2>. QED
      BY <2>1, <2>2
  <1>. QED
    BY <1>2, <1>3, <1>6, QuietWaits DEF LInv

\* LWLockAcquire and LWLockAcquireWithVar.
LEMMA AcquireWaits ==
  ASSUME LInv, WaitInv, NEW p \in Proc, NEW c \in AcquireCall, LWLockAcquireCommon(p, c)
  PROVE  WaitInv'
  <1>1. CASE RaiseError(p)
    BY <1>1, IdleWaits DEF RaiseError
  <1>2. CASE AcquireRound(p, c, FALSE) /\ UNCHANGED wakeVars
    BY <1>2, AcquireRoundWaits DEF LWLockAcquireCommon, MayCall
  <1>. QED
    BY <1>1, <1>2 DEF LWLockAcquireCommon

\* A lock granted at once.
LEMMA GrantWaits ==
  ASSUME LInv, WaitInv, NEW p \in Proc, NEW l \in Lock, NEW m \in {LW_EXCLUSIVE, LW_SHARED},
         pc[p] = "idle", CanAcquire(l, m), Grant(p, [lock |-> l, mode |-> m]),
         UNCHANGED <<releaseOK, var, pc, call, wakeVars>>
  PROVE  WaitInv'
  <1>1. /\ UNCHANGED <<releaseOK, var, head, tail, lwWaiting, lwWaitMode, lwWaitLink, wakeHead, wakeProc, pc, call>>
        /\ \A k \in Lock : k # l => exclusive'[k] = exclusive[k] /\ shared'[k] = shared[k]
        /\ exclusive[l] = 0 /\ (exclusive'[l] # 0 \/ shared'[l] # 0)
    BY CounterFacts DEF Grant, CanAcquire, LInv, TypeOK, waitVars, wakeVars
  <1>2. Quiet(p)
    BY <1>1 DEF Quiet, Steady
  <1>3. \A k \in Lock : Promise(k)
    BY <1>1, IdleFacts DEF Promise
  <1>4. ASSUME NEW k \in Lock PROVE Guarded(k)' \/ (~Guarded(k) /\ (Retrying(p, k) => Retrying(p, k)'))
    BY <1>1, IdleFacts DEF Guarded, Free
  <1>. QED
    BY <1>2, <1>3, <1>4, QuietWaits DEF LInv

\* LWLockConditionalAcquire.
LEMMA ConditionalAcquireWaits ==
  ASSUME LInv, WaitInv, NEW p \in Proc, NEW l \in Lock, NEW m \in {LW_EXCLUSIVE, LW_SHARED},
         LWLockConditionalAcquire(p, l, m)
  PROVE  WaitInv'
  <1>1. CASE RaiseError(p)
    BY <1>1, IdleWaits DEF RaiseError
  <1>2. CASE UNCHANGED <<lockVars, waitVars, pc, call, wakeVars>>
    BY <1>2, IdleWaits
  <1>3. CASE /\ CanAcquire(l, m) /\ Grant(p, [lock |-> l, mode |-> m])
             /\ UNCHANGED <<releaseOK, var, pc, call, wakeVars>>
    BY <1>3, GrantWaits DEF LWLockConditionalAcquire, MayCall
  <1>. QED
    BY <1>1, <1>2, <1>3 DEF LWLockConditionalAcquire

\* LWLockAcquireOrWait.
LEMMA AcquireOrWaitWaits ==
  ASSUME LInv, WaitInv, NEW p \in Proc, NEW l \in Lock, NEW m \in {LW_EXCLUSIVE, LW_SHARED},
         LWLockAcquireOrWait(p, l, m)
  PROVE  WaitInv'
  <1>0. pc[p] = "idle" /\ TypeOK /\ QueueInv
    BY DEF LWLockAcquireOrWait, MayCall, LInv, WaitInv
  <1>1. CASE RaiseError(p)
    BY <1>1, IdleWaits DEF RaiseError
  <1>2. CASE /\ CanAcquire(l, m) /\ Grant(p, [lock |-> l, mode |-> m])
             /\ UNCHANGED <<releaseOK, var, pc, call, wakeVars>>
    BY <1>0, <1>2, GrantWaits
  <1>3. CASE /\ ~CanAcquire(l, m) /\ EnqueueTail(p, l, LW_WAIT_UNTIL_FREE) /\ pc' = [pc EXCEPT ![p] = "sleep"]
             /\ call' = [call EXCEPT ![p] = [op |-> "AcquireOrWait", lock |-> l]]
             /\ UNCHANGED <<releaseOK, exclusive, shared, var, wakeVars>>
    <2>1. /\ call'[p].op = "AcquireOrWait" /\ call'[p].lock = l
          /\ \A q \in Proc : q # p => pc'[q] = pc[q] /\ call'[q] = call[q]
      BY <1>0, <1>3 DEF TypeOK
    <2>2. UNCHANGED <<wakeHead, wakeProc>>
      BY <1>3 DEF wakeVars
    <2>3. QueueInv' /\ Longer(p, l)
      BY <1>0, <1>3, <2>1, <2>2, EnqueueQueues
    <2>4. /\ \A q \in Proc : q # p => lwWaiting'[q] = lwWaiting[q]
          /\ \A k \in Lock : k # l => head'[k] = head[k]
      BY <1>0, <1>3 DEF EnqueueTail, TypeOK
    <2>5. ~Free(l)
      BY <1>3, CounterFacts DEF CanAcquire, Free
    <2>6. \A k \in Lock : ~Retrying(p, k)
      BY <1>0, IdleFacts
    <2>. QED
      BY <1>0, <1>3, <2>1, <2>3, <2>4, <2>5, <2>6, LongerWaits
  <1>. QED
    BY <1>1, <1>2, <1>3 DEF LWLockAcquireOrWait

\* A backend that moves on inside its call, or out of it, without touching a lock.
LEMMA MoveWaits ==
  ASSUME LInv, WaitInv, NEW p \in Proc, UNCHANGED <<lockVars, waitVars, wakeVars>>,
         NEW t \in {"idle", "retry"}, pc' = [pc EXCEPT ![p] = t], \A q \in Proc : q # p => call'[q] = call[q],
         pc[p] \in {"idle", "sleep", "retry"}, ~lwWaiting[p],
         \A l \in Lock : Retrying(p, l) => Retrying(p, l)'
  PROVE  WaitInv'
  <1>1. UNCHANGED <<releaseOK, exclusive, shared, head, tail, var, lwWaiting, lwWaitMode, lwWaitLink, wakeHead, wakeProc>>
    BY DEF lockVars, waitVars, wakeVars
  <1>2. Quiet(p)
    <2>1. pc'[p] = t /\ \A q \in Proc : q # p => pc'[q] = pc[q]
      BY DEF LInv, TypeOK
    <2>2. Passes(p)
      BY <2>1, IdleFacts DEF Passes
    <2>. QED
      BY <1>1, <2>1, <2>2 DEF Quiet, Steady
  <1>3. \A k \in Lock : Promise(k)
    BY <1>1 DEF Promise
  <1>4. ASSUME NEW k \in Lock PROVE Guarded(k)' \/ (~Guarded(k) /\ (Retrying(p, k) => Retrying(p, k)'))
    BY <1>1 DEF Guarded, Free
  <1>. QED
    BY <1>2, <1>3, <1>4, QuietWaits DEF LInv

\* LWLockWaitForVar up to its loop.
LEMMA WaitForVarWaits ==
  ASSUME LInv, WaitInv, NEW p \in Proc, NEW l \in Lock, NEW v \in Val, LWLockWaitForVar(p, l, v)
  PROVE  WaitInv'
  <1>0. pc[p] = "idle" /\ UNCHANGED <<lockVars, waitVars, wakeVars>>
    BY DEF LWLockWaitForVar, MayCall
  <1>1. CASE UNCHANGED <<pc, call>>
    BY <1>0, <1>1, IdleWaits
  <1>2. CASE /\ pc' = [pc EXCEPT ![p] = "retry"]
             /\ call' = [call EXCEPT ![p] = [op |-> "WaitForVar", lock |-> l, val |-> v]]
    <2>1. \A q \in Proc : q # p => call'[q] = call[q]
      BY <1>2 DEF LInv, TypeOK
    <2>2. ~lwWaiting[p] /\ \A k \in Lock : ~Retrying(p, k)
      BY <1>0, IdleFacts
    <2>. QED
      BY <1>0, <1>2, <2>1, <2>2, MoveWaits
  <1>. QED
    BY <1>1, <1>2 DEF LWLockWaitForVar

\* The loop around the semaphore.
LEMMA SemaphoreWaitWaits ==
  ASSUME LInv, WaitInv, NEW p \in Proc, SemaphoreWait(p)
  PROVE  WaitInv'
  <1>0. pc[p] = "sleep" /\ UNCHANGED <<lockVars, waitVars, wakeVars>>
    BY DEF SemaphoreWait
  <1>1. CASE UNCHANGED <<pc, call>>
    BY <1>0, <1>1, IdleWaits
  <1>2. CASE ~lwWaiting[p] /\ pc' = [pc EXCEPT ![p] = "retry"] /\ UNCHANGED call
    <2>1. pc'[p] = "retry"
      BY <1>2 DEF LInv, TypeOK
    <2>2. \A l \in Lock : Retrying(p, l) => Retrying(p, l)'
      BY <1>2, <2>1, RetryingAre
    <2>. QED
      BY <1>0, <1>2, <2>2, MoveWaits
  <1>3. CASE ~lwWaiting[p] /\ call[p].op = "AcquireOrWait" /\ ReturnFromWait(p, sem[p] - 1)
    <2>1. /\ pc' = [pc EXCEPT ![p] = "idle"] /\ \A q \in Proc : q # p => call'[q] = call[q]
      BY <1>3 DEF ReturnFromWait, LInv, TypeOK
    <2>2. \A l \in Lock : ~Retrying(p, l)
      BY <1>3, IdleFacts
    <2>. QED
      BY <1>0, <1>3, <2>1, <2>2, MoveWaits
  <1>. QED
    BY <1>1, <1>2, <1>3 DEF SemaphoreWait

\* Looping back after having been awakened.
LEMMA RetryWaits ==
  ASSUME LInv, WaitInv, NEW p \in Proc, Retry(p)
  PROVE  WaitInv'
  <1>0. pc[p] = "retry" /\ UNCHANGED wakeVars /\ call[p] \in AcquireCall \cup WaitCall /\ TypeOK /\ QueueInv
    BY DEF Retry, LInv, CallOK, WaitInv
  <1>1. CASE call[p] \in AcquireCall
    <2>1. AcquireRound(p, call[p], TRUE)
      BY <1>1, CallFacts DEF Retry
    <2>. QED
      BY <1>0, <1>1, <2>1, AcquireRoundWaits
  <1>2. CASE call[p] \in WaitCall
    <2>. DEFINE l == call[p].lock
    <2>1. call[p].op = "WaitForVar" /\ l \in Lock
      BY <1>2, CallFacts
    <2>2. WaitForVarRound(p, l, call[p].val)
      BY <2>1 DEF Retry
    <2>3. ~lwWaiting[p] /\ \A k \in Lock : ~Retrying(p, k)
      BY <1>0, <2>1, IdleFacts
    <2>. HIDE DEF l
    <2>4. CASE ReturnFromWait(p, sem[p]) /\ UNCHANGED <<lockVars, waitVars>>
      <3>1. pc' = [pc EXCEPT ![p] = "idle"] /\ \A q \in Proc : q # p => call'[q] = call[q]
        BY <1>0, <2>4 DEF ReturnFromWait, TypeOK
      <3>. QED
        BY <1>0, <2>3, <2>4, <3>1, MoveWaits
    <2>5. CASE /\ exclusive[l] # 0 /\ var[l] = call[p].val
               /\ lwWaiting' = [lwWaiting EXCEPT ![p] = TRUE]
               /\ lwWaitMode' = [lwWaitMode EXCEPT ![p] = LW_WAIT_UNTIL_FREE]
               /\ lwWaitLink' = [lwWaitLink EXCEPT ![p] = head[l]]
               /\ tail' = (IF head[l] = NULL THEN [tail EXCEPT ![l] = p] ELSE tail)
               /\ head' = [head EXCEPT ![l] = p]
               /\ releaseOK' = [releaseOK EXCEPT ![l] = TRUE]
               /\ pc' = [pc EXCEPT ![p] = "sleep"]
               /\ UNCHANGED <<exclusive, shared, var, call>>
      <3>0. UNCHANGED <<wakeHead, wakeProc>> /\ call[p].lock = l
        BY <1>0 DEF wakeVars, l
      <3>1. QueueInv' /\ Longer(p, l)
        BY <1>0, <2>1, <2>5, <3>0, FrontQueues
      <3>2. /\ \A q \in Proc : q # p => pc'[q] = pc[q] /\ call'[q] = call[q] /\ lwWaiting'[q] = lwWaiting[q]
            /\ \A k \in Lock : k # l => head'[k] = head[k] /\ releaseOK'[k] = releaseOK[k]
            /\ releaseOK'[l]
        BY <1>0, <2>1, <2>5 DEF TypeOK
      <3>3. ~Free(l) /\ exclusive[l] = 1
        BY <2>1, <2>5, CounterFacts DEF Free
      <3>. QED
        BY <1>0, <2>1, <2>3, <2>5, <3>1, <3>2, <3>3, LongerWaits
    <2>. QED
      BY <2>2, <2>4, <2>5 DEF WaitForVarRound, WaiterSetsReleaseOK
  <1>. QED
    BY <1>0, <1>1, <1>2

\* A releaser that has nobody to awaken.
LEMMA NobodyWaits ==
  ASSUME LInv, WaitInv, NEW p \in Proc, NEW l \in Lock, pc[p] = "idle",
         UNCHANGED <<head, tail, lwWaitLink, wakeHead, wakeProc, lwWaiting, lwWaitMode, releaseOK>>,
         pc' = [pc EXCEPT ![p] = "awaken"], \A q \in Proc : q # p => call'[q] = call[q],
         \A k \in Lock : k # l => exclusive'[k] = exclusive[k] /\ shared'[k] = shared[k] /\ var'[k] = var[k],
         \A x \in Queued(l) : call[x].op # "WaitForVar",
         releaseOK[l] => Guarded(l)'
  PROVE  WaitInv'
  <1>1. pc'[p] = "awaken" /\ \A q \in Proc : q # p => pc'[q] = pc[q]
    BY DEF LInv, TypeOK
  <1>2. Quiet(p)
    <2>1. Passes(p)
      BY <1>1, IdleFacts DEF Passes
    <2>. QED
      BY <1>1, <2>1 DEF Quiet, Steady
  <1>3. \A k \in Lock : Promise(k)
    BY DEF Promise
  <1>4. ASSUME NEW k \in Lock PROVE Guarded(k)' \/ (~Guarded(k) /\ (Retrying(p, k) => Retrying(p, k)'))
    <2>1. CASE k = l
      <3>1. releaseOK[l] \/ ~Guarded(l)
        BY DEF Guarded
      <3>. QED
        BY <2>1, <3>1, IdleFacts
    <2>2. CASE k # l
      BY <2>2, IdleFacts DEF Guarded, Free
    <2>. QED
      BY <2>1, <2>2
  <1>. QED
    BY <1>2, <1>3, <1>4, QuietWaits DEF LInv

\* LWLockUpdateVar: those who wait for the variable are among the first that only
\* wait for the lock to be free.
LEMMA UpdateVarWaits ==
  ASSUME LInv, WaitInv, NEW p \in Proc, NEW l \in Lock, NEW v \in Val, LWLockUpdateVar(p, l, v)
  PROVE  WaitInv'
  <1>0. /\ TypeOK /\ QueueInv /\ pc[p] = "idle" /\ mode[p][l] = LW_EXCLUSIVE
        /\ var' = [var EXCEPT ![l] = v] /\ pc' = [pc EXCEPT ![p] = "awaken"]
        /\ call' = [call EXCEPT ![p] = [op |-> "UpdateVar", lock |-> l]]
        /\ UNCHANGED <<releaseOK, exclusive, shared, tail, lwWaiting, lwWaitMode, wakeProc>>
    BY DEF LInv, WaitInv, LWLockUpdateVar, MayCall
  <1>1. /\ \A q \in Proc : q # p => pc'[q] = pc[q] /\ call'[q] = call[q]
        /\ \A k \in Lock : k # l => var'[k] = var[k]
    BY <1>0 DEF TypeOK
  <1>2. exclusive[l] = 1
    BY <1>0, CounterFacts
  <1>3. CASE /\ ~(head[l] # NULL /\ OnlyUntilFree(head[l])) /\ UNCHANGED <<head, lwWaitLink, wakeHead>>
    <2>1. ASSUME NEW x \in Queued(l) PROVE call[x].op # "WaitForVar"
      <3>1. PICK q : IsList(lwWaitLink, head[l], q)
        BY <1>0, ListedFacts DEF HasList
      <3>2. q \in Lists(head[l]) /\ Len(q) \in Nat
        BY <3>1, ListsAre, SeqFacts DEF IsList
      <3>3. PICK j \in 1..Len(q) : q[j] = x
        BY <2>1, <3>1, ListMembers, MembersAre
      <3>4. q[1] = head[l] /\ head[l] # NULL /\ 1 \in 1..j
        <4>1. Len(q) # 0 /\ 1 \in 1..j /\ 1 \in 1..Len(q)
          BY <3>2, <3>3
        <4>2. q[1] \in Proc
          BY <3>1, <4>1, SeqFacts DEF IsList
        <4>. QED
          BY <3>1, <4>1, <4>2 DEF IsList
      <3>5. ~OnlyUntilFree(q[1])
        BY <1>3, <3>4
      <3>. QED
        BY <1>0, <3>2, <3>3, <3>4, <3>5, VarPrefix
    <2>2. releaseOK[l] => Guarded(l)'
      BY <1>0, <1>2 DEF Guarded, Free
    <2>. QED
      BY <1>0, <1>1, <1>3, <2>1, <2>2, NobodyWaits
  <1>4. ASSUME NEW q \in Lists(head[l]), NEW n \in DOMAIN q, n < Len(q) => ~OnlyUntilFree(q[n + 1]), Detach(p, l, q, n)
        PROVE  WaitInv'
    <2>1. QueueInv' /\ Shorter(p, l, q, n)
      BY <1>0, <1>1, <1>4, DetachQueues
    <2>2. Len(q) \in Nat /\ n \in 1..Len(q)
      BY ListsAre, SeqFacts DEF IsList
    <2>3. ASSUME NEW j \in (n + 1)..Len(q) PROVE call[q[j]].op # "WaitForVar"
      <3>1. j \in 1..Len(q) /\ n + 1 \in 1..j /\ n < Len(q)
        BY <2>2
      <3>2. ~OnlyUntilFree(q[n + 1])
        BY <1>4, <3>1
      <3>. QED
        BY <1>0, <3>1, <3>2, VarPrefix
    <2>4. Guarded(l)' \/ ~Guarded(l)
      BY <1>0, <1>2 DEF Guarded, Free
    <2>5. \A k \in Lock : k # l => head'[k] = head[k]
      BY <1>0, <1>4 DEF Detach, TypeOK
    <2>. QED
      BY <1>0, <1>1, <2>1, <2>3, <2>4, <2>5, ShorterWaits
  <1>. QED
    BY <1>3, <1>4 DEF LWLockUpdateVar

\* LWLockRelease: it awakens those who wait for the variable, and if it awakens
\* nobody who will release the lock again, it leaves nobody in the queue.
LEMMA ReleaseWaits ==
  ASSUME LInv, WaitInv, NEW p \in Proc, NEW l \in Lock, LWLockRelease(p, l)
  PROVE  WaitInv'
  <1>0. /\ TypeOK /\ QueueInv /\ pc[p] = "idle" /\ DropHold(l) /\ DetachWaiters(p, l)
        /\ pc' = [pc EXCEPT ![p] = "awaken"] /\ call' = [call EXCEPT ![p] = [op |-> "Release", lock |-> l]]
        /\ UNCHANGED <<tail, var, lwWaiting, lwWaitMode, wakeProc>>
    BY DEF LInv, WaitInv, LWLockRelease
  <1>1. \A q \in Proc : q # p => pc'[q] = pc[q] /\ call'[q] = call[q]
    BY <1>0 DEF TypeOK
  <1>2. /\ \A k \in Lock : k # l => exclusive'[k] = exclusive[k] /\ shared'[k] = shared[k]
        /\ exclusive[l] = 1 => exclusive'[l] = 0 /\ shared'[l] = 0
    <2>1. exclusive[l] \in {0, 1} /\ (exclusive[l] = 1 => shared[l] = 0)
      BY CounterFacts
    <2>2. exclusive \in [Lock -> Int] /\ shared \in [Lock -> Int]
      BY <1>0 DEF TypeOK
    <2>. QED
      BY <1>0, <2>1, <2>2 DEF DropHold
  <1>. DEFINE Detaches == head[l] # NULL /\ exclusive'[l] = 0 /\ shared'[l] = 0 /\ releaseOK[l]
  <1>3. CASE ~Detaches /\ UNCHANGED <<head, lwWaitLink, wakeHead, releaseOK>>
    <2>1. ASSUME NEW x \in Queued(l) PROVE call[x].op # "WaitForVar"
      <3>1. head[l] # NULL
        <4>1. HasList(lwWaitLink, head[l]) /\ x \in Members(lwWaitLink, head[l])
          BY <1>0, <2>1, ListedFacts, MembersAre
        <4>. QED
          BY <4>1, ListEnds
      <3>2. SUFFICES ASSUME call[x].op = "WaitForVar" PROVE FALSE
        OBVIOUS
      <3>3. exclusive[l] = 1 /\ releaseOK[l]
        BY <2>1, <3>2 DEF WaitInv, VarWaitersRight
      <3>. QED
        BY <1>2, <1>3, <3>1, <3>3
    <2>2. releaseOK[l] => Guarded(l)'
      BY <1>3 DEF Guarded, Free
    <2>. QED
      BY <1>0, <1>1, <1>2, <1>3, <2>1, <2>2, NobodyWaits
  <1>4. ASSUME NEW q \in Lists(head[l]), NEW n \in DOMAIN q, LastAwakened(q, n), Detach(p, l, q, n),
               releaseOK' = [releaseOK EXCEPT ![l] = NobodyRetries(q, n)]
        PROVE  WaitInv'
    <2>1. QueueInv' /\ Shorter(p, l, q, n)
      BY <1>0, <1>1, <1>4, DetachQueues
    <2>2. Len(q) \in Nat /\ n \in 1..Len(q) /\ IsList(lwWaitLink, head[l], q)
      BY ListsAre, SeqFacts DEF IsList
    <2>3. PICK f \in 1..n : ~OnlyUntilFree(q[f]) \/ f = Len(q)
      BY <1>4 DEF LastAwakened
    <2>4. ASSUME NEW j \in (n + 1)..Len(q) PROVE call[q[j]].op # "WaitForVar"
      <3>1. j \in 1..Len(q) /\ f \in 1..j /\ f # Len(q)
        BY <2>2
      <3>2. ~OnlyUntilFree(q[f])
        BY <2>3, <3>1
      <3>. QED
        BY <1>0, <3>1, <3>2, VarPrefix
    <2>5. /\ \A k \in Lock : k # l => head'[k] = head[k] /\ releaseOK'[k] = releaseOK[k]
          /\ head'[l] = lwWaitLink[q[n]] /\ releaseOK'[l] = NobodyRetries(q, n)
      BY <1>0, <1>4 DEF Detach, TypeOK
    <2>6. Guarded(l)' \/ \E x \in Proc : Retrying(x, l)'
      <3>1. CASE NobodyRetries(q, n)
        <4>1. n = Len(q)
          BY <2>2, <2>3, <3>1 DEF NobodyRetries
        <4>2. head'[l] = NULL
          BY <2>2, <2>5, <4>1 DEF IsList
        <4>. QED
          BY <2>5, <3>1, <4>2 DEF Guarded
      <3>2. CASE ~NobodyRetries(q, n)
        <4>1. PICK i \in 1..n : ~OnlyUntilFree(q[i])
          BY <3>2 DEF NobodyRetries
        <4>2. q[i] \in Queued(l) /\ q[i] \in Awakens(p)'
          BY <2>1, <2>2 DEF Shorter
        <4>3. q[i] \in Proc /\ pc[q[i]] = "sleep" /\ call[q[i]].lock = l
          BY <1>0, <4>2, ListedFacts
        <4>4. call[q[i]].op = "Acquire"
          BY <1>0, <4>1, <4>3 DEF OnlyUntilFree, QueueInv, ModesRight
        <4>5. call[q[i]] # NULL
          <5>1. call[q[i]] \in AcquireCall \cup WaitCall \cup OrWaitCall
            BY <4>3 DEF LInv, CallOK
          <5>. QED
            BY <5>1, CallAssumption, CallFacts
        <4>6. pc'[q[i]] = "sleep" /\ call'[q[i]] = call[q[i]]
          BY <1>0, <1>1, <4>3
        <4>7. Retrying(q[i], l)'
          BY <4>2, <4>3, <4>4, <4>5, <4>6, RetryingAre
        <4>. QED
          BY <4>3, <4>7
      <3>. QED
        BY <3>1, <3>2
    <2>. QED
      BY <1>0, <1>1, <1>2, <2>1, <2>4, <2>5, <2>6, ShorterWaits
  <1>. QED
    BY <1>0, <1>3, <1>4 DEF DetachWaiters

\* At the start the lists are empty.
LEMMA InitWaitInv == Init => WaitInv
  <1>. SUFFICES ASSUME Init PROVE WaitInv
    OBVIOUS
  <1>1. /\ \A l \in Lock : head[l] = NULL /\ releaseOK[l]
        /\ \A p \in Proc : wakeHead[p] = NULL /\ pc[p] = "idle" /\ ~lwWaiting[p]
    BY DEF Init
  <1>2. IsList(lwWaitLink, NULL, <<>>)
    BY DEF IsList
  <1>3. HasList(lwWaitLink, NULL) /\ Members(lwWaitLink, NULL) = {}
    <2>1. HasList(lwWaitLink, NULL)
      BY <1>2 DEF HasList
    <2>. QED
      BY <2>1, ListEnds
  <1>4. \A l \in Lock : Lists(head[l]) # {} /\ Queued(l) = {}
    BY <1>1, <1>3, MembersAre
  <1>5. \A w \in Proc : Lists(wakeHead[w]) # {} /\ OnList(wakeHead[w]) = {}
    BY <1>1, <1>3, MembersAre
  <1>6. \A w \in Proc : \A x : x \notin Awakens(w)
    BY <1>1, <1>3, AwakensAre
  <1>7. QueueInv
    BY <1>1, <1>4, <1>5, <1>6
       DEF QueueInv, ListsRight, TailRight, SleepersRight, Apart, WakersRight, ModesRight, VarWaitersFirst
  <1>. QED
    BY <1>1, <1>4, <1>7 DEF WaitInv, WakeupsKept, Guarded, VarWaitersRight

\* Every step keeps the queues and the waiters right.
LEMMA NextWaitInv == LInv /\ WaitInv /\ [Next]_vars => WaitInv'
  <1>. SUFFICES ASSUME LInv, WaitInv, [Next]_vars PROVE WaitInv'
    OBVIOUS
  <1>1. ASSUME NEW p \in Proc, NEW l \in Lock, NEW m \in {LW_EXCLUSIVE, LW_SHARED}, LWLockAcquire(p, l, m)
        PROVE  WaitInv'
    <2>1. [op |-> "Acquire", lock |-> l, mode |-> m, val |-> NULL] \in AcquireCall
      BY DEF AcquireCall
    <2>. QED
      BY <1>1, <2>1, AcquireWaits DEF LWLockAcquire
  <1>2. ASSUME NEW p \in Proc, NEW l \in Lock, NEW v \in Val, LWLockAcquireWithVar(p, l, v)
        PROVE  WaitInv'
    <2>1. [op |-> "Acquire", lock |-> l, mode |-> LW_EXCLUSIVE, val |-> v] \in AcquireCall
      BY DEF AcquireCall
    <2>. QED
      BY <1>2, <2>1, AcquireWaits DEF LWLockAcquireWithVar
  <1>3. ASSUME NEW p \in Proc, Error(p) \/ ReleasedAll(p) \/ ProcSendSignal(p) \/ ProcWaitForSignal(p)
        PROVE  WaitInv'
    <2>1. UNCHANGED <<lockVars, waitVars, wakeVars, pc, call>>
      BY <1>3 DEF Error, RaiseError, ReleasedAll, ProcSendSignal, ProcWaitForSignal
    <2>. QED
      BY <2>1, IdleWaits
  <1>4. ASSUME NEW p \in Proc, AwakenWaiters(p) PROVE WaitInv'
    BY <1>4, AwakenWaits DEF LInv
  <1>5. CASE UNCHANGED vars
    <2>1. UNCHANGED <<releaseOK, exclusive, shared, head, tail, var, lwWaiting, lwWaitMode, lwWaitLink, wakeHead,
                      wakeProc, pc, call>>
      BY <1>5 DEF vars, lockVars, waitVars, wakeVars
    <2>2. (\A l : Queued(l)' = Queued(l)) /\ (\A w : OnList(wakeHead[w])' = OnList(wakeHead[w]))
          /\ (\A h : OnList(h)' = OnList(h))
      BY <2>1, MembersAre DEF OnList, Lists
    <2>3. QueueInv'
      <3>1. \A w : Awakens(w)' = Awakens(w)
        BY <2>1, <2>2 DEF Awakens
      <3>2. ListsRight'
        BY <2>1 DEF WaitInv, QueueInv, ListsRight, Lists
      <3>3. TailRight'
        BY <2>1, <2>2 DEF WaitInv, QueueInv, TailRight
      <3>4. SleepersRight'
        BY <2>1, <2>2, <3>1 DEF WaitInv, QueueInv, SleepersRight
      <3>5. Apart'
        BY <2>2, <3>1 DEF WaitInv, QueueInv, Apart
      <3>6. WakersRight'
        BY <2>1, <2>2 DEF WaitInv, QueueInv, WakersRight
      <3>7. ModesRight' /\ VarWaitersFirst'
        BY <2>1, <2>2 DEF WaitInv, QueueInv, ModesRight, VarWaitersFirst
      <3>. QED
        BY <3>2, <3>3, <3>4, <3>5, <3>6, <3>7 DEF QueueInv
    <2>4. WakeupsKept'
      BY <2>1, <2>2 DEF WaitInv, WakeupsKept, Guarded, Free, Retrying, ToBeAwakened
    <2>5. VarWaitersRight'
      BY <2>1, <2>2 DEF WaitInv, VarWaitersRight
    <2>. QED
      BY <2>3, <2>4, <2>5 DEF WaitInv
  <1>6. CASE Finished
    BY <1>5, <1>6 DEF Finished
  <1>. QED
    BY <1>1, <1>2, <1>3, <1>4, <1>5, <1>6, ConditionalAcquireWaits, AcquireOrWaitWaits, WaitForVarWaits,
       UpdateVarWaits, RetryWaits, SemaphoreWaitWaits, ReleaseWaits DEF Next, LWLockCall, Progress

\* Queues and waiters are right in every reachable state.
THEOREM WaitersRight == Spec => [](LInv /\ WaitInv)
  <1>1. Init => LInv /\ WaitInv
    BY InitLInv, InitWaitInv
  <1>2. (LInv /\ WaitInv) /\ [Next]_vars => (LInv /\ WaitInv)'
    BY NextLInv, NextWaitInv
  <1>. QED
    BY <1>1, <1>2, PTL DEF Spec

\* A backend asleep with lwWaiting set is on the queue of its lock or on the list
\* of someone about to awaken it, never on both and never on none, for any number
\* of backends and locks.
THEOREM NobodyLost == Spec => []NoWaiterLost
  <1>1. LInv /\ WaitInv => NoWaiterLost
    <2>1. SUFFICES ASSUME LInv, WaitInv, NEW p \in Proc, pc[p] = "sleep", lwWaiting[p]
                   PROVE  (p \in Queued(call[p].lock)) # ToBeAwakened(p)
      BY DEF NoWaiterLost
    <2>2. TypeOK /\ QueueInv
      BY <2>1 DEF LInv, WaitInv
    <2>3. call[p].lock \in Lock
      BY <2>1, CallFacts DEF LInv, CallOK
    <2>4. ToBeAwakened(p) <=> \E w \in Proc : p \in Awakens(w)
      BY AwakenedAre
    <2>5. p \in Queued(call[p].lock) \/ \E w \in Proc : p \in Awakens(w)
      BY <2>1, <2>2, ListedFacts DEF QueueInv, SleepersRight
    <2>6. p \in Queued(call[p].lock) => \A w \in Proc : p \notin Awakens(w)
      BY <2>2, <2>3, ListedFacts
    <2>. QED
      BY <2>4, <2>5, <2>6
  <1>. QED
    BY <1>1, WaitersRight, PTL

\* Nobody sleeps on a lock that is free, or whose releases awaken no one, unless
\* some awakened backend is on its way to the lock, for any number of backends.
THEOREM WakeupsNotLost == Spec => []NoLostWakeup
  <1>1. LInv /\ WaitInv => NoLostWakeup
    BY DEF WaitInv, WakeupsKept, Guarded, NoLostWakeup
  <1>. QED
    BY <1>1, WaitersRight, PTL

\* Who waits for the variable of a lock is never left asleep once the lock was
\* released or the variable moved on, for any number of backends and values.
THEOREM VarWaitersAwakened == Spec => []VarWaiterNotStale
  <1>1. LInv /\ WaitInv => VarWaiterNotStale
    BY DEF WaitInv, VarWaitersRight, VarWaiterNotStale
  <1>. QED
    BY <1>1, WaitersRight, PTL
-----------------------------------------------------------------------------
(* The process semaphore.                                                  *)

\* The releasers about to post the semaphore of p, and the signal it waits for.
Posters(p) == {w \in Proc : pc[w] = "post" /\ wakeProc[w] = p}
Due(p) == IF pc[p] = "sleep" /\ ~lwWaiting[p] THEN 1 ELSE 0

\* SemaphoreConserved in these terms.
LEMMA SemaphoreIs ==
  /\ SemaphoreConserved <=> \A p \in Proc : sem[p] + extraWaits[p] + Cardinality(Posters(p)) = owed[p] + Due(p)
  /\ SemaphoreConserved' <=> \A p \in Proc : sem'[p] + extraWaits'[p] + Cardinality(Posters(p)') = owed'[p] + Due(p)'
  BY DEF SemaphoreConserved, Posters, Due

\* The releasers about to post are finitely many.
LEMMA PostersFinite ==
  \A p : IsFiniteSet(Posters(p)) /\ Cardinality(Posters(p)) \in Nat
  BY FS_Subset, FS_CardinalityType DEF Posters

\* A step of p that posts nothing.
LEMMA QuietSem ==
  ASSUME TypeOK, TypeOK', SemaphoreConserved, NEW p \in Proc,
         \A q \in Proc : q # p => /\ sem'[q] = sem[q] /\ extraWaits'[q] = extraWaits[q] /\ owed'[q] = owed[q]
                              /\ pc'[q] = pc[q] /\ lwWaiting'[q] = lwWaiting[q] /\ wakeProc'[q] = wakeProc[q],
         pc[p] = "post" <=> pc'[p] = "post", pc[p] = "post" => wakeProc'[p] = wakeProc[p],
         sem'[p] + extraWaits'[p] + owed[p] + Due(p) = sem[p] + extraWaits[p] + owed'[p] + Due(p)'
  PROVE  SemaphoreConserved'
  <1>1. \A q : Posters(q)' = Posters(q)
    BY DEF Posters
  <1>2. ASSUME NEW q \in Proc
        PROVE  sem'[q] + extraWaits'[q] + Cardinality(Posters(q)') = owed'[q] + Due(q)'
    <2>1. sem[q] + extraWaits[q] + Cardinality(Posters(q)) = owed[q] + Due(q)
      BY SemaphoreIs
    <2>2. /\ sem[q] \in Nat /\ extraWaits[q] \in Nat /\ owed[q] \in Int /\ Due(q) \in Int
          /\ sem'[q] \in Nat /\ extraWaits'[q] \in Nat /\ owed'[q] \in Int /\ Due(q)' \in Int
      BY DEF TypeOK, Due
    <2>3. Cardinality(Posters(q)') = Cardinality(Posters(q)) /\ Cardinality(Posters(q)) \in Nat
      BY <1>1, PostersFinite
    <2>4. CASE q = p
      BY <2>1, <2>2, <2>3, <2>4
    <2>5. CASE q # p
      <3>1. Due(q)' = Due(q)
        BY <2>5 DEF Due
      <3>. QED
        BY <2>1, <2>2, <2>3, <2>5, <3>1
    <2>. QED
      BY <2>4, <2>5
  <1>. QED
    BY <1>2, SemaphoreIs

\* A step that neither signals nor waits.
LEMMA IdleSem ==
  ASSUME SemaphoreConserved, UNCHANGED <<sem, extraWaits, owed, pc, lwWaiting, wakeProc>>
  PROVE  SemaphoreConserved'
  BY DEF SemaphoreConserved

\* Clearing lwWaiting makes a signal due, which the releaser is going to post; and
\* posting it.
LEMMA AwakenSem ==
  ASSUME LInv, LInv', QueueInv, SemaphoreConserved, NEW p \in Proc, AwakenWaiters(p)
  PROVE  SemaphoreConserved'
  <1>0. TypeOK /\ TypeOK' /\ UNCHANGED <<extraWaits, owed>>
    BY DEF LInv, AwakenWaiters, signalVars
  <1>1. /\ \A q \in Proc : sem[q] \in Nat /\ extraWaits[q] \in Nat /\ owed[q] \in Int
        /\ sem \in [Proc -> Nat] /\ pc \in [Proc -> PCs] /\ lwWaiting \in [Proc -> BOOLEAN]
        /\ wakeProc \in [Proc -> Proc \cup {NULL}]
    BY <1>0 DEF TypeOK
  <1>2. ASSUME NEW b \in Proc, wakeProc[p] = b, pc[p] = "clear", pc' = [pc EXCEPT ![p] = "post"],
               lwWaiting' = [lwWaiting EXCEPT ![b] = FALSE], UNCHANGED <<sem, wakeProc>>
        PROVE  SemaphoreConserved'
    <2>1. pc[b] = "sleep" /\ lwWaiting[b] /\ b # p
      <3>1. b \in Awakens(p)
        BY <1>2 DEF Awakens
      <3>. QED
        BY <1>0, <1>2, <3>1, ListedFacts
    <2>2. /\ pc'[p] = "post" /\ (\A q \in Proc : q # p => pc'[q] = pc[q])
          /\ ~lwWaiting'[b] /\ (\A q \in Proc : q # b => lwWaiting'[q] = lwWaiting[q])
      BY <1>1, <1>2
    <2>3. p \in Proc /\ p \notin Posters(b) /\ \A w : w \in Posters(b)' <=> w \in Posters(b) \/ w = p
      BY <1>2, <2>2 DEF Posters
    <2>4. Cardinality(Posters(b)') = Cardinality(Posters(b)) + 1
      <3>1. Posters(b)' = Posters(b) \cup {p}
        BY <2>3
      <3>. QED
        BY <2>3, <3>1, PostersFinite, FS_AddElement
    <2>5. sem'[b] + extraWaits'[b] + Cardinality(Posters(b)') = owed'[b] + Due(b)'
      <3>1. sem[b] + extraWaits[b] + Cardinality(Posters(b)) = owed[b] + Due(b) /\ Cardinality(Posters(b)) \in Nat
        BY SemaphoreIs, PostersFinite
      <3>2. Due(b) = 0
        BY <2>1 DEF Due
      <3>3. Due(b)' = 1
        BY <2>1, <2>2 DEF Due
      <3>. QED
        BY <1>0, <1>1, <1>2, <2>4, <3>1, <3>2, <3>3
    <2>6. ASSUME NEW q \in Proc, q # b
          PROVE  sem'[q] + extraWaits'[q] + Cardinality(Posters(q)') = owed'[q] + Due(q)'
      <3>1. sem[q] + extraWaits[q] + Cardinality(Posters(q)) = owed[q] + Due(q)
        BY SemaphoreIs
      <3>2. Posters(q)' = Posters(q)
        BY <1>2, <2>2, <2>6 DEF Posters
      <3>3. Due(q)' = Due(q)
        BY <1>2, <2>2, <2>6 DEF Due
      <3>. QED
        BY <1>0, <1>2, <3>1, <3>2, <3>3
    <2>7. \A q \in Proc : sem'[q] + extraWaits'[q] + Cardinality(Posters(q)') = owed'[q] + Due(q)'
      BY <2>5, <2>6
    <2>. QED
      BY <2>7, SemaphoreIs
  <1>3. ASSUME NEW b \in Proc, wakeProc[p] = b, pc[p] = "post", sem' = [sem EXCEPT ![b] = @ + 1],
               wakeProc' = [wakeProc EXCEPT ![p] = NULL], pc' = [pc EXCEPT ![p] = "awaken"], UNCHANGED lwWaiting
        PROVE  SemaphoreConserved'
    <2>1. /\ pc'[p] = "awaken" /\ (\A q \in Proc : q # p => pc'[q] = pc[q] /\ wakeProc'[q] = wakeProc[q])
          /\ sem'[b] = sem[b] + 1 /\ (\A q \in Proc : q # b => sem'[q] = sem[q])
      BY <1>1, <1>3
    <2>2. p \in Posters(b) /\ \A w : w \in Posters(b)' <=> w \in Posters(b) /\ w # p
      BY <1>3, <2>1 DEF Posters
    <2>3. Cardinality(Posters(b)') = Cardinality(Posters(b)) - 1
      <3>1. Posters(b)' = Posters(b) \ {p}
        BY <2>2
      <3>2. PICK S : S = Posters(b)
        OBVIOUS
      <3>3. IsFiniteSet(S) /\ p \in S
        BY <2>2, <3>2, PostersFinite
      <3>4. Cardinality(S \ {p}) = Cardinality(S) - 1
        BY <3>3, FS_RemoveElement
      <3>. QED
        BY <3>1, <3>2, <3>4
    <2>4. ASSUME NEW q \in Proc PROVE Due(q)' = Due(q)
      <3>1. CASE q = p
        BY <1>3, <2>1, <3>1 DEF Due
      <3>2. CASE q # p
        BY <1>3, <2>1, <3>2 DEF Due
      <3>. QED
        BY <3>1, <3>2
    <2>5. \A q \in Proc : Due(q) \in Int
      BY DEF Due
    <2>6. sem'[b] + extraWaits'[b] + Cardinality(Posters(b)') = owed'[b] + Due(b)'
      <3>1. sem[b] + extraWaits[b] + Cardinality(Posters(b)) = owed[b] + Due(b) /\ Cardinality(Posters(b)) \in Nat
        BY SemaphoreIs, PostersFinite
      <3>. QED
        BY <1>0, <1>1, <2>1, <2>3, <2>4, <2>5, <3>1
    <2>7. ASSUME NEW q \in Proc, q # b
          PROVE  sem'[q] + extraWaits'[q] + Cardinality(Posters(q)') = owed'[q] + Due(q)'
      <3>1. sem[q] + extraWaits[q] + Cardinality(Posters(q)) = owed[q] + Due(q)
        BY SemaphoreIs
      <3>2. ASSUME NEW w PROVE w \in Posters(q)' <=> w \in Posters(q)
        <4>1. CASE w = p
          BY <1>3, <2>1, <2>7, <4>1 DEF Posters
        <4>2. CASE w # p
          BY <2>1, <4>2 DEF Posters
        <4>. QED
          BY <4>1, <4>2
      <3>3. Posters(q)' = Posters(q)
        BY <3>2
      <3>. QED
        BY <1>0, <2>1, <2>4, <2>7, <3>1, <3>3
    <2>8. \A q \in Proc : sem'[q] + extraWaits'[q] + Cardinality(Posters(q)') = owed'[q] + Due(q)'
      BY <2>6, <2>7
    <2>. QED
      BY <2>8, SemaphoreIs
  <1>4. ASSUME pc[p] = "awaken", pc' = [pc EXCEPT ![p] = "clear"] \/ pc' = [pc EXCEPT ![p] = "idle"],
               \A q \in Proc : q # p => wakeProc'[q] = wakeProc[q], UNCHANGED <<sem, lwWaiting>>
        PROVE  SemaphoreConserved'
    <2>1. /\ pc'[p] \in {"clear", "idle"}
          /\ \A q \in Proc : q # p => pc'[q] = pc[q]
      BY <1>1, <1>4
    <2>2. Due(p) = 0
      BY <1>4 DEF Due
    <2>3. Due(p)' = 0
      BY <2>1 DEF Due
    <2>4. sem'[p] + extraWaits'[p] + owed[p] + Due(p) = sem[p] + extraWaits[p] + owed'[p] + Due(p)'
      BY <1>0, <1>1, <1>4, <2>2, <2>3
    <2>. QED
      BY <1>0, <1>4, <2>1, <2>4, QuietSem
  <1>5. pc[p] \in {"clear", "post"} => wakeProc[p] \in Proc
    BY DEF QueueInv, WakersRight
  <1>6. CASE pc[p] = "awaken" /\ wakeHead[p] # NULL /\ UnlinkThenClear(p) /\ UNCHANGED sem
    BY <1>1, <1>4, <1>6 DEF UnlinkThenClear
  <1>7. CASE pc[p] = "clear" /\ UnlinkThenClear(p) /\ UNCHANGED sem
    BY <1>2, <1>5, <1>7 DEF UnlinkThenClear, wakeVars
  <1>8. CASE /\ pc[p] = "post" /\ sem' = [sem EXCEPT ![wakeProc[p]] = @ + 1]
             /\ wakeProc' = [wakeProc EXCEPT ![p] = NULL] /\ pc' = [pc EXCEPT ![p] = "awaken"] /\ UNCHANGED lwWaiting
    BY <1>3, <1>5, <1>8
  <1>9. CASE /\ pc[p] = "awaken" /\ wakeHead[p] = NULL /\ pc' = [pc EXCEPT ![p] = "idle"]
             /\ UNCHANGED <<lwWaiting, sem, wakeVars>>
    BY <1>4, <1>9 DEF wakeVars
  <1>. QED
    BY <1>6, <1>7, <1>8, <1>9 DEF AwakenWaiters, UnlinkThenClear

\* One round of the acquire loop gives the absorbed signals back when it grants
\* the lock, and leaves none due when it does not.
LEMMA AcquireRoundSem ==
  ASSUME TypeOK, TypeOK', SemaphoreConserved, NEW p \in Proc, NEW c, pc[p] = "idle" \/ pc[p] = "retry",
         \/ Grant(p, c) /\ ReturnFromWait(p, sem[p])
         \/ /\ EnqueueTail(p, c.lock, c.mode) /\ pc' = [pc EXCEPT ![p] = "sleep"] /\ UNCHANGED <<sem, extraWaits>>,
         UNCHANGED <<wakeProc, owed>>
  PROVE  SemaphoreConserved'
  <1>1. /\ sem \in [Proc -> Nat] /\ extraWaits \in [Proc -> Nat] /\ owed \in [Proc -> Int]
        /\ pc \in [Proc -> PCs] /\ lwWaiting \in [Proc -> BOOLEAN]
    BY DEF TypeOK
  <1>2. /\ pc'[p] \in {"idle", "sleep"} /\ (pc'[p] = "sleep" => lwWaiting'[p])
        /\ sem'[p] + extraWaits'[p] = sem[p] + extraWaits[p]
        /\ \A q \in Proc : q # p => /\ sem'[q] = sem[q] /\ extraWaits'[q] = extraWaits[q]
                                  /\ pc'[q] = pc[q] /\ lwWaiting'[q] = lwWaiting[q]
    <2>1. CASE Grant(p, c) /\ ReturnFromWait(p, sem[p])
      BY <1>1, <2>1 DEF Grant, ReturnFromWait, waitVars
    <2>2. CASE EnqueueTail(p, c.lock, c.mode) /\ pc' = [pc EXCEPT ![p] = "sleep"] /\ UNCHANGED <<sem, extraWaits>>
      BY <1>1, <2>2 DEF EnqueueTail
    <2>. QED
      BY <2>1, <2>2
  <1>3. Due(p) = 0
    BY DEF Due
  <1>4. Due(p)' = 0
    BY <1>2 DEF Due
  <1>5. sem'[p] + extraWaits'[p] + owed[p] + Due(p) = sem[p] + extraWaits[p] + owed'[p] + Due(p)'
    BY <1>1, <1>2, <1>3, <1>4
  <1>. QED
    BY <1>2, <1>5, QuietSem

\* So does a step that begins or ends a call without the semaphore.
LEMMA CallSem ==
  ASSUME TypeOK, TypeOK', SemaphoreConserved, NEW p \in Proc, pc[p] \in {"idle", "retry"},
         NEW s \in {"idle", "sleep", "retry", "awaken"}, pc' = [pc EXCEPT ![p] = s],
         \A q \in Proc : q # p => lwWaiting'[q] = lwWaiting[q], s = "sleep" => lwWaiting'[p],
         UNCHANGED <<sem, extraWaits, owed, wakeProc>>
  PROVE  SemaphoreConserved'
  <1>1. pc \in [Proc -> PCs] /\ sem \in [Proc -> Nat] /\ extraWaits \in [Proc -> Nat] /\ owed \in [Proc -> Int]
    BY DEF TypeOK
  <1>2. pc'[p] = s /\ \A q \in Proc : q # p => pc'[q] = pc[q]
    BY <1>1
  <1>3. Due(p) = 0
    BY DEF Due
  <1>4. Due(p)' = 0
    BY <1>2 DEF Due
  <1>5. sem'[p] + extraWaits'[p] + owed[p] + Due(p) = sem[p] + extraWaits[p] + owed'[p] + Due(p)'
    BY <1>1, <1>3, <1>4
  <1>. QED
    BY <1>2, <1>5, QuietSem

\* The wait takes one signal off the semaphore: the one that was due, or one it
\* remembers.
LEMMA SemaphoreWaitSem ==
  ASSUME TypeOK, TypeOK', SemaphoreConserved, NEW p \in Proc, SemaphoreWait(p)
  PROVE  SemaphoreConserved'
  <1>1. /\ sem \in [Proc -> Nat] /\ extraWaits \in [Proc -> Nat] /\ owed \in [Proc -> Int]
        /\ pc \in [Proc -> PCs] /\ lwWaiting \in [Proc -> BOOLEAN]
    BY DEF TypeOK
  <1>2. pc[p] = "sleep" /\ sem[p] > 0 /\ UNCHANGED <<lwWaiting, wakeProc, owed>>
    BY DEF SemaphoreWait, Signalled, waitVars, wakeVars, signalVars
  <1>3. \A q \in Proc : q # p => sem'[q] = sem[q] /\ extraWaits'[q] = extraWaits[q] /\ pc'[q] = pc[q]
    BY <1>1 DEF SemaphoreWait, ReturnFromWait
  <1>4. CASE lwWaiting[p]
    <2>1. pc'[p] = "sleep" /\ sem'[p] = sem[p] - 1 /\ extraWaits'[p] = extraWaits[p] + 1
      BY <1>1, <1>2, <1>4 DEF SemaphoreWait
    <2>2. Due(p) = 0
      BY <1>4 DEF Due
    <2>3. Due(p)' = 0
      BY <1>2, <1>4 DEF Due
    <2>4. sem'[p] + extraWaits'[p] + owed[p] + Due(p) = sem[p] + extraWaits[p] + owed'[p] + Due(p)'
      BY <1>1, <1>2, <2>1, <2>2, <2>3
    <2>. QED
      BY <1>2, <1>3, <2>1, <2>4, QuietSem
  <1>5. CASE ~lwWaiting[p]
    <2>1. pc'[p] \in {"retry", "idle"} /\ sem'[p] + extraWaits'[p] = sem[p] + extraWaits[p] - 1
      BY <1>1, <1>2, <1>5 DEF SemaphoreWait, ReturnFromWait
    <2>2. Due(p) = 1
      BY <1>2, <1>5 DEF Due
    <2>3. Due(p)' = 0
      BY <2>1 DEF Due
    <2>4. /\ sem'[p] \in Nat /\ extraWaits'[p] \in Nat
      BY DEF TypeOK
    <2>5. sem'[p] + extraWaits'[p] + owed[p] + Due(p) = sem[p] + extraWaits[p] + owed'[p] + Due(p)'
      BY <1>1, <1>2, <2>1, <2>2, <2>3, <2>4
    <2>. QED
      BY <1>2, <1>3, <2>1, <2>5, QuietSem
  <1>. QED
    BY <1>4, <1>5

\* The other users of the semaphore keep their own account.
LEMMA OthersSem ==
  ASSUME TypeOK, TypeOK', SemaphoreConserved, NEW p \in Proc, ProcSendSignal(p) \/ ProcWaitForSignal(p)
  PROVE  SemaphoreConserved'
  <1>1. sem \in [Proc -> Nat] /\ extraWaits \in [Proc -> Nat] /\ owed \in [Proc -> Int]
    BY DEF TypeOK
  <1>2. UNCHANGED <<extraWaits, pc, lwWaiting, wakeProc>>
    BY DEF ProcSendSignal, ProcWaitForSignal, waitVars, wakeVars
  <1>3. /\ \A q \in Proc : q # p => sem'[q] = sem[q] /\ owed'[q] = owed[q]
        /\ \/ sem'[p] = sem[p] + 1 /\ owed'[p] = owed[p] + 1
           \/ sem'[p] = sem[p] - 1 /\ owed'[p] = owed[p] - 1
    BY <1>1 DEF ProcSendSignal, ProcWaitForSignal
  <1>4. Due(p)' = Due(p) /\ Due(p) \in Int
    BY <1>2 DEF Due
  <1>5. sem'[p] + extraWaits'[p] + owed[p] + Due(p) = sem[p] + extraWaits[p] + owed'[p] + Due(p)'
    BY <1>1, <1>2, <1>3, <1>4
  <1>. QED
    BY <1>2, <1>3, <1>5, QuietSem

\* Every step conserves the signals.
LEMMA NextSem ==
  ASSUME LInv, LInv', QueueInv, SemaphoreConserved, [Next]_vars
  PROVE  SemaphoreConserved'
  <1>0. TypeOK /\ TypeOK'
    BY DEF LInv
  <1>1. pc \in [Proc -> PCs]
    BY <1>0 DEF TypeOK
  <1>2. ASSUME NEW p \in Proc, RaiseError(p) PROVE SemaphoreConserved'
    BY <1>2, IdleSem DEF RaiseError, waitVars, wakeVars, signalVars
  <1>3. ASSUME NEW p \in Proc, NEW c, LWLockAcquireCommon(p, c) PROVE SemaphoreConserved'
    <2>1. CASE AcquireRound(p, c, FALSE) /\ UNCHANGED <<wakeVars, signalVars>>
      <3>1. pc[p] = "idle" /\ UNCHANGED <<wakeProc, owed>>
        BY <1>3, <2>1 DEF LWLockAcquireCommon, MayCall, wakeVars, signalVars
      <3>. QED
        BY <1>0, <2>1, <3>1, AcquireRoundSem DEF AcquireRound
    <2>. QED
      BY <1>2, <1>3, <2>1 DEF LWLockAcquireCommon
  <1>4. ASSUME NEW p \in Proc, NEW l \in Lock, NEW m, LWLockConditionalAcquire(p, l, m) PROVE SemaphoreConserved'
    <2>1. CASE RaiseError(p)
      BY <1>2, <2>1
    <2>2. CASE ~RaiseError(p)
      BY <1>4, <2>2, IdleSem DEF LWLockConditionalAcquire, Grant, waitVars, wakeVars, signalVars
    <2>. QED
      BY <2>1, <2>2
  <1>5. ASSUME NEW p \in Proc, NEW l \in Lock, NEW m, LWLockAcquireOrWait(p, l, m) PROVE SemaphoreConserved'
    <2>1. CASE RaiseError(p)
      BY <1>2, <2>1
    <2>2. CASE /\ EnqueueTail(p, l, LW_WAIT_UNTIL_FREE) /\ pc' = [pc EXCEPT ![p] = "sleep"]
               /\ UNCHANGED <<sem, wakeVars, extraWaits, signalVars>>
      <3>1. lwWaiting'[p] /\ \A q \in Proc : q # p => lwWaiting'[q] = lwWaiting[q]
        BY <1>0, <2>2 DEF EnqueueTail, TypeOK
      <3>2. pc[p] = "idle"
        BY <1>5 DEF LWLockAcquireOrWait, MayCall
      <3>. QED
        BY <1>0, <2>2, <3>1, <3>2, CallSem DEF wakeVars, signalVars
    <2>3. CASE Grant(p, [lock |-> l, mode |-> m]) /\ UNCHANGED <<sem, pc, wakeVars, extraWaits, signalVars>>
      BY <2>3, IdleSem DEF Grant, waitVars, wakeVars, signalVars
    <2>. QED
      BY <1>5, <2>1, <2>2, <2>3 DEF LWLockAcquireOrWait
  <1>6. ASSUME NEW p \in Proc, NEW l \in Lock, NEW v, LWLockWaitForVar(p, l, v) PROVE SemaphoreConserved'
    <2>1. pc[p] = "idle" /\ UNCHANGED <<sem, extraWaits, owed, wakeProc, lwWaiting>>
      BY <1>6 DEF LWLockWaitForVar, MayCall, waitVars, wakeVars, signalVars
    <2>2. CASE UNCHANGED pc
      BY <2>1, <2>2, IdleSem
    <2>3. CASE pc' = [pc EXCEPT ![p] = "retry"]
      BY <1>0, <2>1, <2>3, CallSem
    <2>. QED
      BY <1>6, <2>2, <2>3 DEF LWLockWaitForVar
  <1>7. ASSUME NEW p \in Proc, NEW l \in Lock, NEW v, LWLockUpdateVar(p, l, v) PROVE SemaphoreConserved'
    <2>1. pc[p] = "idle" /\ pc' = [pc EXCEPT ![p] = "awaken"] /\ UNCHANGED <<sem, extraWaits, owed, wakeProc, lwWaiting>>
      BY <1>7 DEF LWLockUpdateVar, MayCall, signalVars
    <2>. QED
      BY <1>0, <2>1, CallSem
  <1>8. ASSUME NEW p \in Proc, Retry(p) PROVE SemaphoreConserved'
    <2>1. pc[p] = "retry" /\ UNCHANGED <<wakeProc, owed>>
      BY <1>8 DEF Retry, wakeVars, signalVars
    <2>2. CASE AcquireRound(p, call[p], TRUE)
      BY <1>0, <2>1, <2>2, AcquireRoundSem DEF AcquireRound
    <2>3. CASE ReturnFromWait(p, sem[p]) /\ UNCHANGED waitVars
      <3>1. /\ sem \in [Proc -> Nat] /\ extraWaits \in [Proc -> Nat] /\ owed \in [Proc -> Int]
        BY <1>0 DEF TypeOK
      <3>2. /\ pc'[p] = "idle" /\ sem'[p] = sem[p] + extraWaits[p] /\ extraWaits'[p] = 0
            /\ \A q \in Proc : q # p => sem'[q] = sem[q] /\ extraWaits'[q] = extraWaits[q] /\ pc'[q] = pc[q]
        BY <1>1, <2>3, <3>1 DEF ReturnFromWait
      <3>3. Due(p) = 0
        BY <2>1 DEF Due
      <3>4. Due(p)' = 0
        BY <3>2 DEF Due
      <3>5. sem'[p] + extraWaits'[p] + owed[p] + Due(p) = sem[p] + extraWaits[p] + owed'[p] + Due(p)'
        BY <2>1, <3>1, <3>2, <3>3, <3>4
      <3>. QED
        BY <1>0, <2>1, <2>3, <3>2, <3>5, QuietSem DEF waitVars
    <2>4. CASE lwWaiting' = [lwWaiting EXCEPT ![p] = TRUE] /\ pc' = [pc EXCEPT ![p] = "sleep"] /\ UNCHANGED <<sem, extraWaits>>
      <3>1. lwWaiting'[p] /\ \A q \in Proc : q # p => lwWaiting'[q] = lwWaiting[q]
        BY <1>0, <2>4 DEF TypeOK
      <3>. QED
        BY <1>0, <2>1, <2>4, <3>1, CallSem
    <2>. QED
      BY <1>8, <2>2, <2>3, <2>4 DEF Retry, WaitForVarRound
  <1>9. ASSUME NEW p \in Proc, NEW l \in Lock, LWLockRelease(p, l) PROVE SemaphoreConserved'
    <2>1. pc[p] = "idle" /\ pc' = [pc EXCEPT ![p] = "awaken"] /\ UNCHANGED <<sem, extraWaits, owed, wakeProc, lwWaiting>>
      BY <1>9 DEF LWLockRelease, signalVars
    <2>. QED
      BY <1>0, <2>1, CallSem
  <1>10. ASSUME NEW p \in Proc, Error(p) \/ ReleasedAll(p) PROVE SemaphoreConserved'
    BY <1>2, <1>10, IdleSem DEF Error, ReleasedAll, waitVars, wakeVars, signalVars
  <1>11. CASE Finished \/ UNCHANGED vars
    BY <1>11, IdleSem DEF Finished, vars, waitVars, wakeVars, signalVars
  <1>12. ASSUME NEW p \in Proc, SemaphoreWait(p) \/ ProcSendSignal(p) \/ ProcWaitForSignal(p) PROVE SemaphoreConserved'
    BY <1>0, <1>12, SemaphoreWaitSem, OthersSem
  <1>. QED
    BY <1>3, <1>4, <1>5, <1>6, <1>7, <1>8, <1>9, <1>10, <1>11, <1>12, AwakenSem
       DEF Next, LWLockCall, Progress, LWLockAcquire, LWLockAcquireWithVar

\* No semaphore signal is lost or made up, for any number of backends, releasers
\* and signals of other subsystems.
THEOREM SignalsConserved == Spec => []SemaphoreConserved
  <1>1. Init => SemaphoreConserved
    <2>1. SUFFICES ASSUME Init PROVE SemaphoreConserved
      OBVIOUS
    <2>2. \A p \in Proc : {w \in Proc : pc[w] = "post" /\ wakeProc[w] = p} = {}
      BY <2>1 DEF Init
    <2>. QED
      <3>1. /\ \A p \in Proc : sem[p] = 0 /\ extraWaits[p] = 0 /\ owed[p] = 0 /\ pc[p] = "idle"
            /\ Cardinality({}) = 0
        BY <2>1, FS_EmptySet DEF Init
      <3>2. ASSUME NEW p \in Proc
            PROVE  Cardinality({w \in Proc : pc[w] = "post" /\ wakeProc[w] = p}) = 0
        BY <2>2, <3>1
      <3>. QED
        BY <3>1, <3>2 DEF SemaphoreConserved
  <1>2. (LInv /\ WaitInv) /\ (LInv /\ WaitInv)' /\ SemaphoreConserved /\ [Next]_vars => SemaphoreConserved'
    BY NextSem DEF WaitInv
  <1>. QED
    BY <1>1, <1>2, WaitersRight, PTL DEF Spec
-----------------------------------------------------------------------------
(* Interrupts.                                                             *)

\* HoldoffBalanced for one backend, with the calls it may be in: error recovery
\* does nothing but release, and only two calls awaken others.
HoldoffRight(p) ==
  /\ InterruptHoldoffCount[p] =
       (IF aborting[p] THEN 1 ELSE Len(held_lwlocks[p]))
       + (IF pc[p] # "idle" /\ call[p].op # "UpdateVar" THEN 1 ELSE 0)
  /\ aborting[p] => pc[p] # "sleep" /\ pc[p] # "retry" /\ (pc[p] = "idle" \/ call[p].op = "Release")
  /\ pc[p] = "awaken" \/ pc[p] = "clear" \/ pc[p] = "post" => call[p].op = "Release" \/ call[p].op = "UpdateVar"
HoldoffInv == \A p \in Proc : HoldoffRight(p)

\* What a step of p leaves alone of the others.
OthersHold(p) ==
  \A q \in Proc : q # p =>
    /\ InterruptHoldoffCount'[q] = InterruptHoldoffCount[q] /\ aborting'[q] = aborting[q]
    /\ held_lwlocks'[q] = held_lwlocks[q] /\ pc'[q] = pc[q] /\ call'[q] = call[q]

\* A step of p has to get the count of p right.
LEMMA HoldoffFrame ==
  ASSUME HoldoffInv, NEW p \in Proc, OthersHold(p), HoldoffRight(p)'
  PROVE  HoldoffInv'
  <1>1. ASSUME NEW q \in Proc, q # p PROVE HoldoffRight(q)'
    BY <1>1 DEF HoldoffInv, HoldoffRight, OthersHold
  <1>. QED
    BY <1>1 DEF HoldoffInv

\* A step that has nothing to do with interrupts.
LEMMA HoldoffIdle ==
  ASSUME HoldoffInv, UNCHANGED <<InterruptHoldoffCount, aborting, held_lwlocks, pc, call>>
  PROVE  HoldoffInv'
  BY DEF HoldoffInv, HoldoffRight

\* The types of what is counted.
LEMMA HoldoffTypes ==
  ASSUME TypeOK
  PROVE  /\ InterruptHoldoffCount \in [Proc -> Int] /\ aborting \in [Proc -> BOOLEAN]
         /\ held_lwlocks \in [Proc -> Seq(Lock)] /\ pc \in [Proc -> PCs] /\ call \in [Proc -> Call \cup {NULL}]
         /\ \A p \in Proc : InterruptHoldoffCount[p] \in Int /\ Len(held_lwlocks[p]) \in Nat
         /\ \A p \in Proc : Len(held_lwlocks[p]) \in Int
         /\ \A p \in Proc, l \in Lock : Len(Append(held_lwlocks[p], l)) = Len(held_lwlocks[p]) + 1
  <1>1. held_lwlocks \in [Proc -> Seq(Lock)]
    BY DEF TypeOK
  <1>2. \A p \in Proc : held_lwlocks[p] \in Seq(Lock)
    BY <1>1
  <1>3. \A h \in Seq(Lock), l \in Lock : Len(h) \in Nat /\ Len(Append(h, l)) = Len(h) + 1
    OBVIOUS
  <1>4. \A p \in Proc : Len(held_lwlocks[p]) \in Nat /\ Len(held_lwlocks[p]) \in Int
    BY <1>2, <1>3
  <1>. QED
    BY <1>1, <1>2, <1>3, <1>4 DEF TypeOK

\* Outside calls the count is the number of locks held.
LEMMA IdleHoldoff ==
  ASSUME TypeOK, HoldoffInv, NEW p \in Proc, pc[p] = "idle"
  PROVE  InterruptHoldoffCount[p] = IF aborting[p] THEN 1 ELSE Len(held_lwlocks[p])
  <1>1. HoldoffRight(p)
    BY DEF HoldoffInv
  <1>2. InterruptHoldoffCount[p] = (IF aborting[p] THEN 1 ELSE Len(held_lwlocks[p])) + 0
    BY <1>1 DEF HoldoffRight
  <1>. QED
    BY <1>2, HoldoffTypes

\* An error sets the count to one, whatever was held.
LEMMA ErrorHoldoff ==
  ASSUME TypeOK, HoldoffInv, NEW p \in Proc, pc[p] = "idle", RaiseError(p)
  PROVE  HoldoffInv'
  <1>1. OthersHold(p)
    BY HoldoffTypes DEF RaiseError, OthersHold, holdVars
  <1>2. InterruptHoldoffCount'[p] = 1 /\ aborting'[p] /\ pc'[p] = "idle"
    BY HoldoffTypes DEF RaiseError
  <1>3. HoldoffRight(p)'
    BY <1>2 DEF HoldoffRight
  <1>. QED
    BY <1>1, <1>3, HoldoffFrame

\* One lock more, without having waited.
LEMMA GrantHoldoff ==
  ASSUME TypeOK, HoldoffInv, NEW p \in Proc, NEW c, c.lock \in Lock, pc[p] = "idle", ~aborting[p], Grant(p, c),
         OthersHold(p), pc'[p] = "idle", HoldInterrupts(p), UNCHANGED aborting
  PROVE  HoldoffInv'
  <1>1. /\ InterruptHoldoffCount'[p] = InterruptHoldoffCount[p] + 1
        /\ Len(held_lwlocks'[p]) = Len(held_lwlocks[p]) + 1
    BY HoldoffTypes DEF HoldInterrupts, Grant
  <1>2. InterruptHoldoffCount[p] = Len(held_lwlocks[p])
    BY IdleHoldoff
  <1>3. HoldoffRight(p)'
    BY <1>1, <1>2, HoldoffTypes DEF HoldoffRight
  <1>. QED
    BY <1>3, HoldoffFrame

\* The calls a backend may wait in count once more.
LEMMA WaitHoldoff ==
  ASSUME TypeOK, CallOK', HoldoffInv, NEW p \in Proc, pc[p] = "idle", ~aborting[p], OthersHold(p),
         pc'[p] = "sleep" \/ pc'[p] = "retry", HoldInterrupts(p), UNCHANGED <<aborting, held_lwlocks>>
  PROVE  HoldoffInv'
  <1>1. call'[p].op # "UpdateVar"
    BY CallFacts DEF CallOK
  <1>2. InterruptHoldoffCount'[p] = InterruptHoldoffCount[p] + 1
    BY HoldoffTypes DEF HoldInterrupts
  <1>3. InterruptHoldoffCount[p] = Len(held_lwlocks[p])
    BY IdleHoldoff
  <1>4. HoldoffRight(p)'
    BY <1>1, <1>2, <1>3, HoldoffTypes DEF HoldoffRight
  <1>. QED
    BY <1>4, HoldoffFrame

\* Who waits holds interrupts off once more than it has locks.
LEMMA WaiterHoldoff ==
  ASSUME TypeOK, CallOK, HoldoffInv, NEW p \in Proc, pc[p] = "sleep" \/ pc[p] = "retry"
  PROVE  ~aborting[p] /\ InterruptHoldoffCount[p] = Len(held_lwlocks[p]) + 1
  <1>1. call[p].op # "UpdateVar"
    BY CallFacts DEF CallOK
  <1>. QED
    BY <1>1, HoldoffTypes DEF HoldoffInv, HoldoffRight

\* It may go on waiting.
LEMMA WaitsOnHoldoff ==
  ASSUME TypeOK, CallOK, CallOK', HoldoffInv, NEW p \in Proc, pc[p] = "sleep" \/ pc[p] = "retry", OthersHold(p),
         pc'[p] = "sleep" \/ pc'[p] = "retry", UNCHANGED <<InterruptHoldoffCount, aborting, held_lwlocks>>
  PROVE  HoldoffInv'
  <1>1. call'[p].op # "UpdateVar"
    BY CallFacts DEF CallOK
  <1>2. ~aborting[p] /\ InterruptHoldoffCount[p] = Len(held_lwlocks[p]) + 1
    BY WaiterHoldoff
  <1>3. HoldoffRight(p)'
    BY <1>1, <1>2, HoldoffTypes DEF HoldoffRight
  <1>. QED
    BY <1>3, HoldoffFrame

\* Or it leaves without the lock.
LEMMA LeaveHoldoff ==
  ASSUME TypeOK, CallOK, HoldoffInv, NEW p \in Proc, pc[p] = "sleep" \/ pc[p] = "retry", OthersHold(p),
         pc'[p] = "idle", ResumeInterrupts(p), UNCHANGED <<aborting, held_lwlocks>>
  PROVE  HoldoffInv'
  <1>1. InterruptHoldoffCount'[p] = InterruptHoldoffCount[p] - 1
    BY HoldoffTypes DEF ResumeInterrupts
  <1>2. ~aborting[p] /\ InterruptHoldoffCount[p] = Len(held_lwlocks[p]) + 1
    BY WaiterHoldoff
  <1>3. HoldoffRight(p)'
    BY <1>1, <1>2, HoldoffTypes DEF HoldoffRight
  <1>. QED
    BY <1>3, HoldoffFrame

\* LWLockUpdateVar neither takes a lock nor holds interrupts off.
LEMMA UpdateVarHoldoff ==
  ASSUME TypeOK, HoldoffInv, NEW p \in Proc, NEW l \in Lock, NEW v, LWLockUpdateVar(p, l, v)
  PROVE  HoldoffInv'
  <1>1. /\ pc[p] = "idle" /\ ~aborting[p] /\ UNCHANGED <<InterruptHoldoffCount, aborting, held_lwlocks>>
        /\ pc' = [pc EXCEPT ![p] = "awaken"] /\ call' = [call EXCEPT ![p] = [op |-> "UpdateVar", lock |-> l]]
    BY DEF LWLockUpdateVar, MayCall, holdVars
  <1>2. pc'[p] = "awaken" /\ call'[p].op = "UpdateVar" /\ OthersHold(p)
    BY <1>1, HoldoffTypes DEF OthersHold
  <1>3. InterruptHoldoffCount[p] = Len(held_lwlocks[p])
    BY <1>1, IdleHoldoff
  <1>4. HoldoffRight(p)'
    BY <1>1, <1>2, <1>3, HoldoffTypes DEF HoldoffRight
  <1>. QED
    BY <1>2, <1>4, HoldoffFrame

\* A release gives a lock back and holds interrupts off until it has awakened the
\* waiters; error recovery, which holds them off for all its locks once, asks for
\* that itself.
LEMMA ReleaseHoldoff ==
  ASSUME TypeOK, HoldoffInv, NEW p \in Proc, NEW l \in Lock, LWLockRelease(p, l)
  PROVE  HoldoffInv'
  <1>1. /\ pc[p] = "idle" /\ EnterRelease(p) /\ UNCHANGED aborting
        /\ pc' = [pc EXCEPT ![p] = "awaken"] /\ call' = [call EXCEPT ![p] = [op |-> "Release", lock |-> l]]
        /\ \E i \in DOMAIN held_lwlocks[p] : held_lwlocks' = [held_lwlocks EXCEPT ![p] = RemoveHeld(@, i)]
    BY DEF LWLockRelease
  <1>2. /\ pc'[p] = "awaken" /\ call'[p].op = "Release" /\ OthersHold(p)
        /\ InterruptHoldoffCount'[p] = InterruptHoldoffCount[p] + (IF aborting[p] THEN 1 ELSE 0)
    BY <1>1, HoldoffTypes DEF OthersHold, EnterRelease, HoldInterrupts
  <1>3. Len(held_lwlocks'[p]) = Len(held_lwlocks[p]) - 1
    <2>1. PICK i \in DOMAIN held_lwlocks[p] : held_lwlocks' = [held_lwlocks EXCEPT ![p] = RemoveHeld(@, i)]
      BY <1>1
    <2>2. held_lwlocks[p] \in Seq(Lock) /\ held_lwlocks'[p] = RemoveHeld(held_lwlocks[p], i)
      BY <2>1, HoldoffTypes
    <2>. QED
      BY <2>2, RemoveHeldType
  <1>4. InterruptHoldoffCount[p] = IF aborting[p] THEN 1 ELSE Len(held_lwlocks[p])
    BY <1>1, IdleHoldoff
  <1>5. HoldoffRight(p)'
    <2>1. aborting'[p] = aborting[p]
      BY <1>1
    <2>2. CASE aborting[p]
      BY <1>2, <1>4, <2>1, <2>2, HoldoffTypes DEF HoldoffRight
    <2>3. CASE ~aborting[p]
      BY <1>2, <1>3, <1>4, <2>1, <2>3, HoldoffTypes DEF HoldoffRight
    <2>. QED
      BY <2>2, <2>3
  <1>. QED
    BY <1>2, <1>5, HoldoffFrame

\* The release allows interrupts again when all its waiters are awakened.
LEMMA AwakenHoldoff ==
  ASSUME TypeOK, HoldoffInv, NEW p \in Proc, AwakenWaiters(p)
  PROVE  HoldoffInv'
  <1>1. HoldoffRight(p) /\ UNCHANGED <<aborting, held_lwlocks>>
    BY DEF HoldoffInv, AwakenWaiters, holdVars
  <1>2. ASSUME pc[p] = "awaken" \/ pc[p] = "clear" \/ pc[p] = "post",
               NEW s \in {"awaken", "clear", "post"}, pc' = [pc EXCEPT ![p] = s],
               UNCHANGED <<call, InterruptHoldoffCount>>
        PROVE  HoldoffInv'
    <2>1. pc'[p] = s /\ OthersHold(p)
      BY <1>1, <1>2, HoldoffTypes DEF OthersHold
    <2>2. HoldoffRight(p)'
      BY <1>1, <1>2, <2>1, HoldoffTypes DEF HoldoffRight
    <2>. QED
      BY <2>1, <2>2, HoldoffFrame
  <1>3. CASE pc[p] = "awaken" /\ UnlinkThenClear(p) /\ UNCHANGED <<call, InterruptHoldoffCount>>
    BY <1>2, <1>3 DEF UnlinkThenClear
  <1>4. CASE pc[p] = "clear" /\ UnlinkThenClear(p) /\ UNCHANGED <<call, InterruptHoldoffCount>>
    BY <1>2, <1>4 DEF UnlinkThenClear
  <1>5. CASE pc[p] = "post" /\ pc' = [pc EXCEPT ![p] = "awaken"] /\ UNCHANGED <<call, InterruptHoldoffCount>>
    BY <1>2, <1>5
  <1>6. CASE /\ pc[p] = "awaken" /\ pc' = [pc EXCEPT ![p] = "idle"] /\ call' = [call EXCEPT ![p] = NULL]
             /\ IF call[p].op = "Release" THEN ResumeInterrupts(p) ELSE UNCHANGED InterruptHoldoffCount
    <2>1. pc'[p] = "idle" /\ OthersHold(p)
      BY <1>1, <1>6, HoldoffTypes DEF OthersHold, ResumeInterrupts
    <2>2. CASE call[p].op = "Release"
      <3>1. InterruptHoldoffCount'[p] = InterruptHoldoffCount[p] - 1
        BY <1>6, <2>2, HoldoffTypes DEF ResumeInterrupts
      <3>2. InterruptHoldoffCount[p] = (IF aborting[p] THEN 1 ELSE Len(held_lwlocks[p])) + 1
        BY <1>1, <1>6, <2>2 DEF HoldoffRight
      <3>3. InterruptHoldoffCount'[p] = IF aborting'[p] THEN 1 ELSE Len(held_lwlocks'[p])
        BY <1>1, <3>1, <3>2, HoldoffTypes
      <3>4. HoldoffRight(p)'
        BY <1>1, <2>1, <3>3, HoldoffTypes DEF HoldoffRight
      <3>. QED
        BY <2>1, <3>4, HoldoffFrame
    <2>3. CASE call[p].op # "Release"
      <3>1. ~aborting[p] /\ call[p].op = "UpdateVar" /\ InterruptHoldoffCount[p] = Len(held_lwlocks[p]) + 0
        BY <1>1, <1>6, <2>3 DEF HoldoffRight
      <3>2. InterruptHoldoffCount'[p] = Len(held_lwlocks'[p]) + 0 /\ ~aborting'[p]
        BY <1>1, <1>6, <2>3, <3>1
      <3>3. HoldoffRight(p)'
        BY <1>1, <2>1, <3>2, HoldoffTypes DEF HoldoffRight
      <3>. QED
        BY <2>1, <3>3, HoldoffFrame
    <2>. QED
      BY <2>2, <2>3
  <1>. QED
    BY <1>3, <1>4, <1>5, <1>6 DEF AwakenWaiters, UnlinkThenClear

\* Error recovery ends when it has given back every lock.
LEMMA ReleasedAllHoldoff ==
  ASSUME TypeOK, HoldoffInv, NEW p \in Proc, ReleasedAll(p)
  PROVE  HoldoffInv'
  <1>1. pc[p] = "idle" /\ aborting[p] /\ held_lwlocks[p] = <<>> /\ UNCHANGED <<held_lwlocks, pc, call>>
    BY DEF ReleasedAll, holdVars
  <1>2. /\ ~aborting'[p] /\ InterruptHoldoffCount'[p] = InterruptHoldoffCount[p] - 1 /\ OthersHold(p)
    BY <1>1, HoldoffTypes DEF ReleasedAll, ResumeInterrupts, OthersHold
  <1>3. InterruptHoldoffCount[p] = 1
    BY <1>1, IdleHoldoff
  <1>4. Len(held_lwlocks'[p]) = 0
    BY <1>1
  <1>5. HoldoffRight(p)'
    <2>1. pc'[p] = "idle" /\ ~aborting'[p] /\ InterruptHoldoffCount'[p] = Len(held_lwlocks'[p]) + 0
      BY <1>1, <1>2, <1>3, <1>4
    <2>. QED
      BY <2>1 DEF HoldoffRight
  <1>. QED
    BY <1>2, <1>5, HoldoffFrame

\* One round of the acquire loop, on entry or after having been awakened.
LEMMA AcquireRoundHoldoff ==
  ASSUME TypeOK, CallOK, CallOK', HoldoffInv, NEW p \in Proc, NEW c, c.lock \in Lock,
         \/ Grant(p, c) /\ ReturnFromWait(p, sem[p])
         \/ /\ pc' = [pc EXCEPT ![p] = "sleep"] /\ call' = [call EXCEPT ![p] = c] /\ UNCHANGED holdVars,
         \/ pc[p] = "idle" /\ ~aborting[p] /\ HoldInterrupts(p)
         \/ pc[p] = "retry" /\ UNCHANGED InterruptHoldoffCount,
         UNCHANGED aborting
  PROVE  HoldoffInv'
  <1>1. OthersHold(p)
    BY HoldoffTypes DEF OthersHold, Grant, ReturnFromWait, HoldInterrupts, holdVars
  <1>2. CASE Grant(p, c) /\ ReturnFromWait(p, sem[p]) /\ pc[p] = "idle" /\ ~aborting[p] /\ HoldInterrupts(p)
    <2>1. pc'[p] = "idle"
      BY <1>2, HoldoffTypes DEF ReturnFromWait
    <2>. QED
      BY <1>1, <1>2, <2>1, GrantHoldoff
  <1>3. CASE Grant(p, c) /\ ReturnFromWait(p, sem[p]) /\ pc[p] = "retry" /\ UNCHANGED InterruptHoldoffCount
    <2>1. pc'[p] = "idle" /\ Len(held_lwlocks'[p]) = Len(held_lwlocks[p]) + 1
      BY <1>3, HoldoffTypes DEF ReturnFromWait, Grant
    <2>2. ~aborting[p] /\ InterruptHoldoffCount[p] = Len(held_lwlocks[p]) + 1
      BY <1>3, WaiterHoldoff
    <2>3. InterruptHoldoffCount'[p] = Len(held_lwlocks'[p]) + 0 /\ ~aborting'[p]
      BY <1>3, <2>1, <2>2, HoldoffTypes
    <2>4. HoldoffRight(p)'
      BY <2>1, <2>3 DEF HoldoffRight
    <2>. QED
      BY <1>1, <2>4, HoldoffFrame
  <1>4. CASE pc' = [pc EXCEPT ![p] = "sleep"] /\ UNCHANGED holdVars
    <2>1. pc'[p] = "sleep" /\ UNCHANGED held_lwlocks
      BY <1>4, HoldoffTypes DEF holdVars
    <2>2. CASE pc[p] = "idle" /\ ~aborting[p] /\ HoldInterrupts(p)
      BY <1>1, <2>1, <2>2, WaitHoldoff
    <2>3. CASE pc[p] = "retry" /\ UNCHANGED InterruptHoldoffCount
      BY <1>1, <2>1, <2>3, WaitsOnHoldoff
    <2>. QED
      BY <2>2, <2>3
  <1>. QED
    BY <1>2, <1>3, <1>4

\* Every step balances the count.
LEMMA NextHoldoff ==
  ASSUME LInv, LInv', HoldoffInv, [Next]_vars
  PROVE  HoldoffInv'
  <1>0. TypeOK /\ CallOK /\ CallOK'
    BY DEF LInv
  <1>1. /\ pc \in [Proc -> PCs] /\ call \in [Proc -> Call \cup {NULL}]
        /\ InterruptHoldoffCount \in [Proc -> Int] /\ held_lwlocks \in [Proc -> Seq(Lock)]
    BY <1>0, HoldoffTypes
  <1>2. ASSUME NEW p \in Proc, NEW c, c.lock \in Lock, LWLockAcquireCommon(p, c) PROVE HoldoffInv'
    <2>1. pc[p] = "idle" /\ ~aborting[p]
      BY <1>2 DEF LWLockAcquireCommon, MayCall
    <2>2. CASE RaiseError(p)
      BY <1>0, <2>1, <2>2, ErrorHoldoff
    <2>3. CASE AcquireRound(p, c, FALSE) /\ HoldInterrupts(p) /\ UNCHANGED aborting
      BY <1>0, <1>2, <2>1, <2>3, AcquireRoundHoldoff DEF AcquireRound
    <2>. QED
      BY <1>2, <2>2, <2>3 DEF LWLockAcquireCommon
  <1>3. ASSUME NEW p \in Proc, NEW l \in Lock, NEW m \in {LW_EXCLUSIVE, LW_SHARED}, LWLockAcquire(p, l, m)
        PROVE  HoldoffInv'
    BY <1>2, <1>3 DEF LWLockAcquire
  <1>4. ASSUME NEW p \in Proc, NEW l \in Lock, NEW v \in Val, LWLockAcquireWithVar(p, l, v)
        PROVE  HoldoffInv'
    BY <1>2, <1>4 DEF LWLockAcquireWithVar
  <1>5. ASSUME NEW p \in Proc, NEW l \in Lock, NEW m, pc[p] = "idle", ~aborting[p], Grant(p, [lock |-> l, mode |-> m]),
               HoldInterrupts(p), UNCHANGED <<pc, call, aborting>>
        PROVE  HoldoffInv'
    <2>1. OthersHold(p) /\ pc'[p] = "idle"
      BY <1>1, <1>5 DEF OthersHold, Grant, HoldInterrupts
    <2>. QED
      BY <1>0, <1>5, <2>1, GrantHoldoff
  <1>6. ASSUME NEW p \in Proc, NEW l \in Lock, NEW m, LWLockConditionalAcquire(p, l, m)
        PROVE  HoldoffInv'
    <2>1. pc[p] = "idle" /\ ~aborting[p]
      BY <1>6 DEF LWLockConditionalAcquire, MayCall
    <2>2. CASE RaiseError(p)
      BY <1>0, <2>1, <2>2, ErrorHoldoff
    <2>3. CASE Grant(p, [lock |-> l, mode |-> m]) /\ HoldInterrupts(p) /\ UNCHANGED <<pc, call, aborting>>
      BY <1>5, <2>1, <2>3
    <2>4. CASE UNCHANGED <<pc, call, holdVars, InterruptHoldoffCount, aborting>>
      BY <2>4, HoldoffIdle DEF holdVars
    <2>. QED
      BY <1>6, <2>2, <2>3, <2>4 DEF LWLockConditionalAcquire
  <1>7. ASSUME NEW p \in Proc, NEW l \in Lock, NEW m, LWLockAcquireOrWait(p, l, m)
        PROVE  HoldoffInv'
    <2>1. pc[p] = "idle" /\ ~aborting[p]
      BY <1>7 DEF LWLockAcquireOrWait, MayCall
    <2>2. CASE RaiseError(p)
      BY <1>0, <2>1, <2>2, ErrorHoldoff
    <2>3. CASE Grant(p, [lock |-> l, mode |-> m]) /\ HoldInterrupts(p) /\ UNCHANGED <<pc, call, aborting>>
      BY <1>5, <2>1, <2>3
    <2>4. CASE /\ pc' = [pc EXCEPT ![p] = "sleep"] /\ call' = [call EXCEPT ![p] = [op |-> "AcquireOrWait", lock |-> l]]
               /\ HoldInterrupts(p) /\ UNCHANGED <<holdVars, aborting>>
      <3>1. OthersHold(p) /\ pc'[p] = "sleep" /\ UNCHANGED held_lwlocks
        BY <1>1, <2>4 DEF OthersHold, HoldInterrupts, holdVars
      <3>. QED
        BY <1>0, <2>1, <2>4, <3>1, WaitHoldoff
    <2>. QED
      BY <1>7, <2>2, <2>3, <2>4 DEF LWLockAcquireOrWait
  <1>8. ASSUME NEW p \in Proc, NEW l \in Lock, NEW v, LWLockWaitForVar(p, l, v)
        PROVE  HoldoffInv'
    <2>1. pc[p] = "idle" /\ ~aborting[p] /\ UNCHANGED <<aborting, held_lwlocks>>
      BY <1>8 DEF LWLockWaitForVar, MayCall, holdVars
    <2>2. CASE UNCHANGED <<pc, call, InterruptHoldoffCount>>
      BY <2>1, <2>2, HoldoffIdle
    <2>3. CASE /\ pc' = [pc EXCEPT ![p] = "retry"] /\ HoldInterrupts(p)
               /\ call' = [call EXCEPT ![p] = [op |-> "WaitForVar", lock |-> l, val |-> v]]
      <3>1. OthersHold(p) /\ pc'[p] = "retry"
        BY <1>1, <2>1, <2>3 DEF OthersHold, HoldInterrupts
      <3>. QED
        BY <1>0, <2>1, <2>3, <3>1, WaitHoldoff
    <2>. QED
      BY <1>8, <2>2, <2>3 DEF LWLockWaitForVar
  <1>9. ASSUME NEW p \in Proc, Retry(p) PROVE HoldoffInv'
    <2>1. pc[p] = "retry" /\ UNCHANGED aborting
      BY <1>9 DEF Retry
    <2>2. CASE AcquireRound(p, call[p], TRUE) /\ UNCHANGED InterruptHoldoffCount
      <3>1. call[p].lock \in Lock
        BY <1>0, <2>1, CallFacts DEF CallOK
      <3>. QED
        BY <1>0, <2>1, <2>2, <3>1, AcquireRoundHoldoff DEF AcquireRound
    <2>3. CASE ReturnFromWait(p, sem[p]) /\ ResumeInterrupts(p) /\ UNCHANGED holdVars
      <3>1. OthersHold(p) /\ pc'[p] = "idle" /\ UNCHANGED held_lwlocks
        BY <1>1, <2>1, <2>3 DEF OthersHold, ResumeInterrupts, ReturnFromWait, holdVars
      <3>. QED
        BY <1>0, <2>1, <2>3, <3>1, LeaveHoldoff
    <2>4. CASE pc' = [pc EXCEPT ![p] = "sleep"] /\ UNCHANGED <<call, InterruptHoldoffCount, holdVars>>
      <3>1. OthersHold(p) /\ pc'[p] = "sleep" /\ UNCHANGED held_lwlocks
        BY <1>1, <2>1, <2>4 DEF OthersHold, holdVars
      <3>. QED
        BY <1>0, <2>1, <2>4, <3>1, WaitsOnHoldoff
    <2>. QED
      BY <1>9, <2>2, <2>3, <2>4 DEF Retry, WaitForVarRound
  <1>10. ASSUME NEW p \in Proc, SemaphoreWait(p) PROVE HoldoffInv'
    <2>1. pc[p] = "sleep" /\ UNCHANGED <<aborting, held_lwlocks>>
      BY <1>10 DEF SemaphoreWait, holdVars
    <2>2. CASE UNCHANGED <<pc, call, InterruptHoldoffCount>>
      BY <2>1, <2>2, HoldoffIdle
    <2>3. CASE pc' = [pc EXCEPT ![p] = "retry"] /\ UNCHANGED <<call, InterruptHoldoffCount>>
      <3>1. OthersHold(p) /\ pc'[p] = "retry"
        BY <1>1, <2>1, <2>3 DEF OthersHold
      <3>. QED
        BY <1>0, <2>1, <2>3, <3>1, WaitsOnHoldoff
    <2>4. CASE ReturnFromWait(p, sem[p] - 1) /\ ResumeInterrupts(p)
      <3>1. OthersHold(p) /\ pc'[p] = "idle"
        BY <1>1, <2>1, <2>4 DEF OthersHold, ResumeInterrupts, ReturnFromWait
      <3>. QED
        BY <1>0, <2>1, <2>4, <3>1, LeaveHoldoff
    <2>. QED
      BY <1>10, <2>2, <2>3, <2>4 DEF SemaphoreWait
  <1>11. ASSUME NEW p \in Proc, Error(p) PROVE HoldoffInv'
    BY <1>0, <1>11, ErrorHoldoff DEF Error
  <1>12. ASSUME NEW p \in Proc, ProcSendSignal(p) \/ ProcWaitForSignal(p) PROVE HoldoffInv'
    BY <1>12, HoldoffIdle DEF ProcSendSignal, ProcWaitForSignal, holdVars
  <1>13. CASE Finished \/ UNCHANGED vars
    BY <1>13, HoldoffIdle DEF Finished, vars, holdVars
  <1>. QED
    BY <1>0, <1>3, <1>4, <1>6, <1>7, <1>8, <1>9, <1>10, <1>11, <1>12, <1>13,
       UpdateVarHoldoff, ReleaseHoldoff, AwakenHoldoff, ReleasedAllHoldoff DEF Next, LWLockCall, Progress

\* Interrupts are held off once per lock held and once more inside a call that
\* waits or releases, and error recovery gets back to where it began, for any
\* number of backends and locks.
THEOREM HoldoffsBalanced == Spec => []HoldoffBalanced
  <1>1. Init => HoldoffInv
    <2>1. SUFFICES ASSUME Init, NEW p \in Proc PROVE HoldoffRight(p)
      BY DEF HoldoffInv
    <2>2. InterruptHoldoffCount[p] = 0 /\ ~aborting[p] /\ pc[p] = "idle" /\ held_lwlocks[p] = <<>>
      BY <2>1 DEF Init
    <2>3. Len(held_lwlocks[p]) = 0
      BY <2>2
    <2>. QED
      BY <2>2, <2>3 DEF HoldoffRight
  <1>2. LInv /\ LInv' /\ HoldoffInv /\ [Next]_vars => HoldoffInv'
    BY NextHoldoff
  <1>3. HoldoffInv => HoldoffBalanced
    BY DEF HoldoffInv, HoldoffRight, HoldoffBalanced
  <1>. QED
    BY <1>1, <1>2, <1>3, Invariance, PTL DEF Spec
=============================================================================

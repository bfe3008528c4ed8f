---------------------------- MODULE SInvalProofs ----------------------------
(***************************************************************************)
(* Proofs about SInval: every step keeps the parts of the invariant about  *)
(* the queue and what the backends make of it, and the theorems.           *)
(***************************************************************************)
EXTENDS SInvalSteps

USE SizeAssumption DEF Slot, EX, SH

\* What NoGap and FlagTells say of one backend.
GapOK(p) ==
  LET s == MyBackendId[p] IN
  s # 0 /\ ~procState[s].sendOnly =>
    /\ \A i \in DOMAIN pending[p] : pending[p][i] = seen[p] + i - 1
    /\ ~procState[s].resetState => base + procState[s].nextMsgNum = seen[p] + Len(pending[p])
FlagOK(p) ==
  LET s == MyBackendId[p] IN
  s # 0 /\ ~procState[s].sendOnly /\ ~procState[s].hasMessages /\ ~Reader(p) =>
    base + procState[s].nextMsgNum >= queued /\ ~procState[s].resetState

\* What the invariant says of the messages of one backend.
DataOK(p) == FetchOK(p) /\ PendingOK(p) /\ GapOK(p) /\ FlagOK(p) /\ EntriesOK(p)

\* The invariant says it of every backend.
LEMMA DataRight ==
  FetchRight /\ PendingRight /\ NoGap /\ FlagTells /\ EntriesRight <=> \A p \in Backend : DataOK(p)
  <1>1. NoGap <=> \A p \in Backend : GapOK(p)
    BY DEF NoGap, GapOK
  <1>2. FlagTells <=> \A p \in Backend : FlagOK(p)
    BY DEF FlagTells, FlagOK, Reader
  <1>. QED
    BY <1>1, <1>2 DEF DataOK, FetchRight, PendingRight, EntriesRight
-----------------------------------------------------------------------------
(* Steps that leave the messages of a backend alone.                       *)

\* Its slot is not reset if the flag is down, and keeps its place in the sequence
\* of messages; a kick shows in the flag; while it reads nothing is discarded.
SlotUndisturbed(q) ==
  LET s == MyBackendId[q] IN
  /\ procState'[s].sendOnly = procState[s].sendOnly
  /\ base' + procState'[s].nextMsgNum = base + procState[s].nextMsgNum
  /\ procState[s].resetState => procState'[s].resetState
  /\ ~procState'[s].hasMessages => /\ ~procState[s].hasMessages /\ queued' = queued
                                   /\ procState'[s].resetState = procState[s].resetState
  /\ Reader(q) => /\ base' = base /\ minMsgNum' = minMsgNum /\ maxMsgNum <= maxMsgNum'
                  /\ procState'[s].resetState = procState[s].resetState

\* It stays where it is, or moves clear of SIGetDataEntries without a call coming
\* to its end.
MovesClear(q) ==
  \/ at'[q] = at[q] /\ frames'[q] = frames[q]
  \/ /\ ~Getting(q) /\ ~Getting(q)' /\ at'[q] # "start"
     /\ \A i \in 1..Len(frames'[q]) :
          /\ frames'[q][i].entry <= queued
          /\ frames'[q][i].at \in {"end", "process"} =>
               /\ i \in 1..Len(frames[q]) /\ frames'[q][i].at = frames[q][i].at
               /\ frames'[q][i].entry = frames[q][i].entry

LocalsKept(q) ==
  /\ MyBackendId'[q] = MyBackendId[q] /\ pending'[q] = pending[q] /\ seen'[q] = seen[q]
  /\ nummsgs'[q] = nummsgs[q] /\ max'[q] = max[q]

\* Then what the invariant says of its messages stays true.
LEMMA DataKept ==
  ASSUME TypeOK, SlotsRight, FramesRight, NEW q \in Backend, DataOK(q), LocalsKept(q), MovesClear(q),
         queued' \in Int, base' \in Int, minMsgNum' \in Int, maxMsgNum' \in Int,
         procState' \in [Slot -> ProcStates],
         frames' \in [Backend -> Seq(Frame)],
         queued <= queued', MyBackendId[q] # 0 => SlotUndisturbed(q)
  PROVE  DataOK(q)'
  <1>. DEFINE s == MyBackendId[q]
  <1>0. /\ queued \in Nat /\ base \in Nat /\ minMsgNum \in Int /\ maxMsgNum \in Int
        /\ max[q] \in Int /\ seen[q] \in Int /\ frames[q] \in Seq(Frame) /\ frames'[q] \in Seq(Frame)
        /\ procState \in [Slot -> ProcStates] /\ s \in 0..MaxBackends /\ Len(pending[q]) \in Nat
    <2>1. /\ queued \in Nat /\ base \in Nat /\ minMsgNum \in Int /\ maxMsgNum \in Int
          /\ max[q] \in Int /\ seen[q] \in Int
      BY DEF TypeOK
    <2>2. frames[q] \in Seq(Frame) /\ procState \in [Slot -> ProcStates] /\ s \in 0..MaxBackends
      BY DEF TypeOK
    <2>3. pending[q] \in Seq(Int)
      BY DEF TypeOK
    <2>4. Len(pending[q]) \in Nat /\ frames'[q] \in Seq(Frame)
      BY <2>3
    <2>. QED
      BY <2>1, <2>2, <2>4
  <1>1. s # 0 => /\ s \in Slot /\ procState[s] \in ProcStates /\ procState'[s] \in ProcStates
                 /\ procState[s].nextMsgNum \in Int /\ procState'[s].nextMsgNum \in Int
    <2>. SUFFICES ASSUME s # 0 PROVE /\ s \in Slot /\ procState[s] \in ProcStates /\ procState'[s] \in ProcStates
                                     /\ procState[s].nextMsgNum \in Int /\ procState'[s].nextMsgNum \in Int
      OBVIOUS
    <2>. HIDE DEF s
    <2>1. s \in Slot
      BY <1>0
    <2>2. procState[s] \in ProcStates /\ procState'[s] \in ProcStates
      BY <1>0, <2>1
    <2>. QED
      BY <2>1, <2>2 DEF ProcStates
  <1>2. Reader(q) => Getting(q)
    BY DEF Reader, Getting
  <1>3. Reader(q)' => Getting(q)'
    BY DEF Reader, Getting
  <1>4. (Reader(q)' <=> Reader(q)) /\ (Getting(q)' <=> Getting(q))
    BY <1>2, <1>3 DEF MovesClear, Reader, Getting, Top
  <1>5. GapOK(q)'
    BY <1>0, <1>1 DEF DataOK, GapOK, LocalsKept, SlotUndisturbed
  <1>6. FlagOK(q)'
    BY <1>0, <1>1, <1>4 DEF DataOK, FlagOK, LocalsKept, SlotUndisturbed
  <1>7. PendingOK(q)'
    BY <1>4 DEF DataOK, PendingOK, LocalsKept, MovesClear
  <1>8. EntriesOK(q)'
    <2>. SUFFICES ASSUME NEW i \in 1..Len(frames'[q])
                  PROVE  /\ frames'[q][i].entry <= queued'
                         /\ frames'[q][i].at = "end" => seen'[q] >= frames'[q][i].entry
                         /\ ~Getting(q)' /\ nummsgs'[q] # MAXINVALMSGS /\ frames'[q][i].at = "process"
                              => seen'[q] + Len(pending'[q]) >= frames'[q][i].entry
      BY DEF EntriesOK
    <2>1. frames'[q][i] \in Frame /\ frames'[q][i].entry \in Nat
      <3>1. frames'[q][i] \in Frame
        BY <1>0, ElementOfSeq
      <3>. QED
        BY <3>1 DEF Frame
    <2>2. frames'[q][i].entry <= queued
      BY DEF DataOK, EntriesOK, MovesClear
    <2>3. frames'[q][i].at \in {"end", "process"} =>
            /\ i \in 1..Len(frames[q]) /\ frames'[q][i].at = frames[q][i].at
            /\ frames'[q][i].entry = frames[q][i].entry
      BY DEF MovesClear
    <2>4. frames'[q][i].entry <= queued'
      BY <1>0, <2>1, <2>2
    <2>5. frames'[q][i].at = "end" => seen[q] >= frames'[q][i].entry
      BY <2>3 DEF DataOK, EntriesOK
    <2>6. ~Getting(q) /\ nummsgs[q] # MAXINVALMSGS /\ frames'[q][i].at = "process"
            => seen[q] + Len(pending[q]) >= frames'[q][i].entry
      BY <2>3 DEF DataOK, EntriesOK
    <2>. QED
      BY <1>4, <2>4, <2>5, <2>6 DEF LocalsKept
  <1>9. FetchOK(q)'
    <2>. SUFFICES ASSUME at'[q] = "receive", Top(q)'.at = "read" PROVE FetchOK(q)'
      BY DEF FetchOK
    <2>1. Getting(q)' /\ Reader(q)'
      BY DEF Getting, Reader
    <2>2. at'[q] = at[q] /\ frames'[q] = frames[q] /\ Reader(q)
      BY <1>4, <2>1 DEF MovesClear
    <2>3. at[q] = "receive" /\ Top(q).at = "read"
      BY <2>2 DEF Top
    <2>4. s # 0 /\ s \in Slot /\ Mine(q) = procState[s] /\ Mine(q)' = procState'[s]
      BY <1>1, <2>3, MineFacts DEF Mine, LocalsKept
    <2>5. /\ minMsgNum <= max[q] /\ max[q] <= maxMsgNum
          /\ ~procState[s].resetState => procState[s].nextMsgNum <= max[q]
          /\ ~procState[s].hasMessages => base + max[q] >= queued
          /\ \A i \in 1..Len(frames[q]) : frames[q][i].entry <= base + max[q]
      BY <2>3, <2>4 DEF DataOK, FetchOK
    <2>6. SlotUndisturbed(q) /\ max'[q] = max[q]
      BY <2>4 DEF LocalsKept
    <2>. HIDE DEF s
    <2>7. minMsgNum' <= max'[q] /\ max'[q] <= maxMsgNum' /\ base' = base
      BY <1>0, <2>2, <2>5, <2>6 DEF SlotUndisturbed
    <2>8. ~procState'[s].resetState => procState'[s].nextMsgNum <= max'[q]
      <3>1. /\ base' + procState'[s].nextMsgNum = base + procState[s].nextMsgNum
            /\ procState'[s].resetState = procState[s].resetState
        BY <2>2, <2>6 DEF SlotUndisturbed, s
      <3>2. procState[s].nextMsgNum \in Int /\ procState'[s].nextMsgNum \in Int /\ base \in Int
        BY <1>0, <1>1, <2>4 DEF s
      <3>3. procState'[s].nextMsgNum = procState[s].nextMsgNum
        BY <2>7, <3>1, <3>2
      <3>. QED
        BY <2>5, <2>6, <3>1, <3>3
    <2>9. ~procState'[s].hasMessages => base' + max'[q] >= queued'
      BY <1>0, <2>2, <2>5, <2>6 DEF SlotUndisturbed, s
    <2>. QED
      BY <2>2, <2>4, <2>5, <2>6, <2>7, <2>8, <2>9 DEF FetchOK
  <1>. QED
    BY <1>5, <1>6, <1>7, <1>8, <1>9 DEF DataOK
-----------------------------------------------------------------------------
(* Types.                                                                  *)

\* The types of what is not about control.
QueueTypes ==
  /\ minMsgNum \in Int /\ maxMsgNum \in Int /\ nextThreshold \in Nat
  /\ lastBackend \in 0..MaxBackends
  /\ buffer \in [0..(MAXNUMMESSAGES - 1) -> Int]
  /\ procState \in [Slot -> ProcStates]
  /\ MyBackendId \in [Backend -> 0..MaxBackends]
  /\ nextLocalTransactionId \in [Backend -> Nat] /\ lxids \subseteq Slot \X Nat \X Backend
  /\ base \in Nat /\ queued \in Nat
LocalTypes ==
  /\ lwlocks \in [Backend -> [{"SInvalWriteLock", "SInvalReadLock"} -> {"none", EX, SH}]]
  /\ n \in [Backend -> Nat] /\ nthistime \in [Backend -> 0..WRITE_QUANTUM]
  /\ pending \in [Backend -> Seq(Int)] /\ nummsgs \in [Backend -> 0..MAXINVALMSGS]
  /\ max \in [Backend -> Int] /\ sig \in [Backend -> Backend \cup {NULL}]
  /\ sigusr1 \in [Backend -> BOOLEAN] /\ interrupted \in [Backend -> {NULL, "test", "disable", "wait"}]
  /\ catchupInterruptEnabled \in [Backend -> BOOLEAN] /\ catchupInterruptOccurred \in [Backend -> BOOLEAN]
  /\ seen \in [Backend -> Int] /\ receives \in Nat

\* They are all of TypeOK but the places and the frames.
LEMMA TypeParts ==
  /\ TypeOK => QueueTypes /\ LocalTypes
  /\ QueueTypes' /\ LocalTypes' /\ at' \in [Backend -> Place] /\ frames' \in [Backend -> Seq(Frame)] => TypeOK'
  BY DEF TypeOK, QueueTypes, LocalTypes

\* A lock changes hands.
LEMMA LockTypes ==
  ASSUME TypeOK, NEW p \in Backend, NEW l \in {"SInvalWriteLock", "SInvalReadLock"}, NEW m \in {EX, SH},
         LW!Acquire(p, l, m) \/ LW!Release(p, l)
  PROVE  lwlocks' \in [Backend -> [{"SInvalWriteLock", "SInvalReadLock"} -> {"none", EX, SH}]]
  <1>1. PICK x \in {"none", EX, SH} : lwlocks' = [lwlocks EXCEPT ![p] = [lwlocks[p] EXCEPT ![l] = x]]
    BY DEF LW!Acquire, LW!Release
  <1>2. lwlocks \in [Backend -> [{"SInvalWriteLock", "SInvalReadLock"} -> {"none", EX, SH}]]
    BY DEF TypeOK
  <1>3. [lwlocks[p] EXCEPT ![l] = x] \in [{"SInvalWriteLock", "SInvalReadLock"} -> {"none", EX, SH}]
    BY <1>2
  <1>. QED
    BY <1>1, <1>2, <1>3

\* The messages of a round fit in what is left, and in a round.
LEMMA RoundTypes ==
  ASSUME TypeOK, NEW p \in Backend, StartRound(p)
  PROVE  nthistime' \in [Backend -> 0..WRITE_QUANTUM] /\ n' \in [Backend -> Nat]
  <1>1. n[p] \in Nat /\ WRITE_QUANTUM \in Nat /\ n \in [Backend -> Nat] /\ nthistime \in [Backend -> 0..WRITE_QUANTUM]
    BY DEF TypeOK
  <1>2. Quantum(n[p]) \in 0..WRITE_QUANTUM /\ Quantum(n[p]) <= n[p]
    BY <1>1 DEF Quantum
  <1>3. nthistime' = [nthistime EXCEPT ![p] = Quantum(n[p])] /\ nthistime'[p] = Quantum(n[p])
    BY <1>1 DEF StartRound
  <1>4. n' = [n EXCEPT ![p] = n[p] - Quantum(n[p])] /\ n[p] - Quantum(n[p]) \in Nat
    BY <1>1, <1>2, <1>3 DEF StartRound
  <1>. QED
    BY <1>1, <1>2, <1>3, <1>4

\* What is written is a message.
LEMMA WriteTypes ==
  ASSUME TypeOK, NEW p \in Backend, WriteEntries(p)
  PROVE  /\ buffer' \in [0..(MAXNUMMESSAGES - 1) -> Int]
         /\ \A i \in 0..(MAXNUMMESSAGES - 1) :
              \/ /\ ~\E m \in maxMsgNum..(maxMsgNum + nthistime[p] - 1) : m % MAXNUMMESSAGES = i
                 /\ buffer'[i] = buffer[i]
              \/ \E m \in maxMsgNum..(maxMsgNum + nthistime[p] - 1) :
                   m % MAXNUMMESSAGES = i /\ buffer'[i] = base + m
  <1>. DEFINE k == nthistime[p]
              A == (base + maxMsgNum)..(base + maxMsgNum + k - 1)
              Hit(i) == \E m \in maxMsgNum..(maxMsgNum + k - 1) : m % MAXNUMMESSAGES = i
              c(i) == CHOOSE a \in A : (a - base) % MAXNUMMESSAGES = i
  <1>1. base \in Nat /\ maxMsgNum \in Int /\ k \in Int /\ buffer \in [0..(MAXNUMMESSAGES - 1) -> Int]
    BY DEF TypeOK
  <1>2. buffer' = [i \in 0..(MAXNUMMESSAGES - 1) |-> IF Hit(i) THEN c(i) ELSE buffer[i]]
    BY <1>1 DEF WriteEntries
  <1>3. ASSUME NEW i \in 0..(MAXNUMMESSAGES - 1), Hit(i)
        PROVE  /\ c(i) \in Int /\ c(i) - base \in maxMsgNum..(maxMsgNum + k - 1)
               /\ (c(i) - base) % MAXNUMMESSAGES = i
    <2>1. PICK m \in maxMsgNum..(maxMsgNum + k - 1) : m % MAXNUMMESSAGES = i
      BY <1>3
    <2>2. base + m \in A /\ (base + m) - base = m
      BY <1>1
    <2>3. \E a \in A : (a - base) % MAXNUMMESSAGES = i
      BY <2>1, <2>2
    <2>. HIDE DEF A
    <2>4. c(i) \in A /\ (c(i) - base) % MAXNUMMESSAGES = i
      BY <2>3
    <2>5. \A a \in A : a \in Int /\ a - base \in maxMsgNum..(maxMsgNum + k - 1)
      BY <1>1 DEF A
    <2>. HIDE DEF c
    <2>. QED
      BY <2>4, <2>5, Zenon
  <1>. HIDE DEF k, A, Hit, c
  <1>4. buffer' \in [0..(MAXNUMMESSAGES - 1) -> Int]
    BY <1>1, <1>2, <1>3
  <1>5. ASSUME NEW i \in 0..(MAXNUMMESSAGES - 1), Hit(i)
        PROVE  \E m \in maxMsgNum..(maxMsgNum + k - 1) : m % MAXNUMMESSAGES = i /\ buffer'[i] = base + m
    <2>1. buffer'[i] = c(i)
      BY <1>2, <1>5
    <2>2. c(i) = base + (c(i) - base)
      BY <1>1, <1>3, <1>5
    <2>3. c(i) - base \in maxMsgNum..(maxMsgNum + k - 1) /\ (c(i) - base) % MAXNUMMESSAGES = i
      BY <1>3, <1>5
    <2>. QED
      BY <2>1, <2>2, <2>3, Zenon
  <1>6. ASSUME NEW i \in 0..(MAXNUMMESSAGES - 1), ~Hit(i) PROVE buffer'[i] = buffer[i]
    BY <1>2, <1>6
  <1>. QED
    BY <1>4, <1>5, <1>6 DEF k, Hit

\* What is read is a message.
LEMMA ReadTypes ==
  ASSUME TypeOK, SlotsRight, FetchRight, NEW p \in Backend, ReadEntries(p)
  PROVE  /\ pending' \in [Backend -> Seq(Int)] /\ nummsgs' \in [Backend -> 0..MAXINVALMSGS]
         /\ Len(pending'[p]) = ReadCount(p) /\ nummsgs'[p] = ReadCount(p)
         /\ \A i \in 1..ReadCount(p) : pending'[p][i] = buffer[(ReadNext(p) + i - 1) % MAXNUMMESSAGES]
  <1>. DEFINE k == ReadCount(p)
              n0 == ReadNext(p)
              t == [i \in 1..k |-> buffer[(n0 + i - 1) % MAXNUMMESSAGES]]
  <1>1. n0 \in Int /\ k \in 0..MAXINVALMSGS /\ k \in Nat
    BY ReadFacts
  <1>2. pending' = [pending EXCEPT ![p] = t] /\ nummsgs' = [nummsgs EXCEPT ![p] = k]
    BY ReadFacts
  <1>. HIDE DEF k, n0
  <1>3. \A i \in 1..k : buffer[(n0 + i - 1) % MAXNUMMESSAGES] \in Int
    <2>. SUFFICES ASSUME NEW i \in 1..k PROVE buffer[(n0 + i - 1) % MAXNUMMESSAGES] \in Int
      OBVIOUS
    <2>1. (n0 + i - 1) % MAXNUMMESSAGES \in 0..(MAXNUMMESSAGES - 1)
      BY <1>1, PlaceType
    <2>. QED
      BY <2>1 DEF TypeOK
  <1>4. t \in Seq(Int) /\ Len(t) = k
    BY <1>1, <1>3
  <1>5. \A i \in 1..k : t[i] = buffer[(n0 + i - 1) % MAXNUMMESSAGES]
    OBVIOUS
  <1>. HIDE DEF t
  <1>6. pending \in [Backend -> Seq(Int)] /\ nummsgs \in [Backend -> 0..MAXINVALMSGS]
    BY DEF TypeOK
  <1>7. pending'[p] = t /\ nummsgs'[p] = k
    BY <1>2, <1>6
  <1>. QED
    BY <1>1, <1>2, <1>4, <1>5, <1>6, <1>7 DEF k, n0

\* The counters after a cleanup.
LEMMA CleanedTypes ==
  ASSUME TypeOK, NEW p \in Backend, NEW minFree, NEW shift \in {0, MSGNUMWRAPAROUND}, Cleaned(p, minFree, shift)
  PROVE  maxMsgNum' \in Int /\ base' \in Nat /\ minMsgNum' \in Int /\ procState' \in [Slot -> ProcStates]
  <1>1. /\ maxMsgNum' = maxMsgNum - shift /\ base' = base + shift /\ minMsgNum' \in Int
        /\ procState' \in [Slot -> ProcStates]
    BY DEF Cleaned
  <1>2. shift \in Nat /\ base \in Nat /\ maxMsgNum \in Int
    BY DEF TypeOK
  <1>3. \A a, b \in Nat : \A c \in Int : a + b \in Nat /\ c - b \in Int
    OBVIOUS
  <1>. QED
    BY <1>1, <1>2, <1>3, Zenon

\* Every step keeps the types.
LEMMA TypeStep ==
  ASSUME TypeOK, FramesRight, InterruptsRight, SlotsRight, CountersOrdered, QueueRight, FetchRight, LxidsRight,
         NEW p \in Backend, Step(p)
  PROVE  TypeOK'
  <1>. SUFFICES QueueTypes' /\ LocalTypes'
    BY ControlStep, TypeParts DEF ControlOK
  <1>a. QueueTypes /\ LocalTypes
    BY TypeParts
  <1>. USE DEF segVars, insertVars, receiveVars, interruptVars, lxidVars, historyVars,
               outsideReceive, outsideInterrupt, QueueTypes, LocalTypes
  <1>1. CASE \E b \in BOOLEAN : SharedInvalBackendInit(p, b)
    <2>1. PICK b \in BOOLEAN : SharedInvalBackendInit(p, b)
      BY <1>1
    <2>3. CASE \E s \in Slot : Joins(p, b, s)
      <3>1. PICK s \in Slot : Joins(p, b, s)
        BY <2>3
      <3>2. procState[s].nextLXID \in Nat /\ s \in 0..MaxBackends /\ base + maxMsgNum \in Int
        <4>1. procState[s] \in ProcStates
          BY <1>a
        <4>. QED
          BY <1>a, <4>1 DEF ProcStates
      <3>3. seen' \in [Backend -> Int] /\ nextLocalTransactionId' \in [Backend -> Nat]
        BY <1>a, <3>1, <3>2 DEF Joins
      <3>4. MyBackendId' \in [Backend -> 0..MaxBackends] /\ lastBackend' \in 0..MaxBackends
        BY <1>a, <3>1, <3>2 DEF Joins
      <3>5. QueueTypes'
        BY <1>a, <2>1, <3>1, <3>3, <3>4 DEF SharedInvalBackendInit, Joins
      <3>6. LocalTypes'
        BY <1>a, <2>1, <3>3 DEF SharedInvalBackendInit
      <3>. QED
        BY <3>5, <3>6
    <2>4. CASE UNCHANGED <<lastBackend, procState, MyBackendId, nextLocalTransactionId, seen>>
      BY <1>a, <2>1, <2>4 DEF SharedInvalBackendInit
    <2>. QED
      BY <2>1, <2>3, <2>4, JoinFacts
  <1>2. CASE CleanupInvalidationState(p)
    <2>1. procState' \in [Slot -> ProcStates] /\ lastBackend' \in 0..lastBackend
          /\ MyBackendId' = [MyBackendId EXCEPT ![p] = 0]
      BY <1>2, LeaveFacts
    <2>2. lastBackend' \in 0..MaxBackends
      BY <1>a, <2>1
    <2>3. MyBackendId' \in [Backend -> 0..MaxBackends]
      BY <1>a, <2>1
    <2>. QED
      BY <1>a, <1>2, <2>1, <2>2, <2>3 DEF CleanupInvalidationState
  <1>3. CASE GetNextLocalTransactionId(p)
    BY <1>a, <1>3, LxidTaken DEF GetNextLocalTransactionId
  <1>4. CASE \E k \in 1..MaxBatch : SIInsertDataEntries(p, k)
    <2>1. PICK k \in 1..MaxBatch : SIInsertDataEntries(p, k)
      BY <1>4
    <2>2. k \in Nat
      BY BoundAssumption
    <2>. QED
      BY <1>a, <2>1, <2>2 DEF SIInsertDataEntries
  <1>5. CASE StartRound(p)
    BY <1>a, <1>5, RoundTypes, LockTypes DEF StartRound
  <1>6. CASE CleanInRound(p)
    <2>1. lwlocks' \in [Backend -> [{"SInvalWriteLock", "SInvalReadLock"} -> {"none", EX, SH}]]
      BY <1>a, <1>6, LockTypes DEF CleanInRound
    <2>2. PICK shift \in {0, MSGNUMWRAPAROUND} : Cleaned(p, nthistime[p], shift)
      BY <1>6, CleanupFacts DEF CleanInRound
    <2>3. maxMsgNum' \in Int /\ base' \in Nat /\ minMsgNum' \in Int /\ procState' \in [Slot -> ProcStates]
      BY <2>2, CleanedTypes
    <2>4. nextThreshold' \in Nat /\ sig' \in [Backend -> Backend \cup {NULL}]
      BY <1>6, CleanupFacts DEF CleanInRound
    <2>. QED
      BY <1>a, <1>6, <2>1, <2>3, <2>4 DEF CleanInRound
  <1>7. CASE SignalInRound(p)
    BY <1>a, <1>7 DEF SignalInRound, SendProcSignal
  <1>8. CASE RelockInRound(p)
    BY <1>a, <1>8, LockTypes DEF RelockInRound
  <1>9. CASE WriteEntries(p)
    BY <1>a, <1>9, WriteTypes DEF WriteEntries
  <1>10. CASE PublishMax(p)
    <2>1. maxMsgNum' \in Int
      BY <1>a, <1>10 DEF PublishMax
    <2>. QED
      BY <1>a, <1>10, <2>1 DEF PublishMax
  <1>11. CASE Kick(p)
    <2>1. base + maxMsgNum \in Nat
      <3>1. base \in Nat /\ minMsgNum \in Int /\ maxMsgNum \in Int
        BY <1>a
      <3>2. 0 <= minMsgNum /\ minMsgNum <= maxMsgNum
        BY DEF CountersOrdered, QueueRight
      <3>. QED
        BY <3>1, <3>2
    <2>2. nthistime' \in [Backend -> 0..WRITE_QUANTUM]
      <3>1. 0 \in 0..WRITE_QUANTUM
        OBVIOUS
      <3>. QED
        BY <1>a, <1>11, <3>1 DEF Kick
    <2>3. LocalTypes'
      BY <1>a, <1>11, <2>2, LockTypes DEF Kick
    <2>. QED
      BY <1>a, <1>11, <2>1, <2>3, KickFacts DEF Kick
  <1>12. CASE ReceiveSharedInvalidMessages(p)
    <2>1. receives' \in Nat
      BY <1>a, <1>12 DEF ReceiveSharedInvalidMessages
    <2>. QED
      BY <1>a, <1>12, <2>1 DEF ReceiveSharedInvalidMessages
  <1>13. CASE Recurse(p) \/ InvalFunctionFails(p) \/ InvalFunctionReturns(p)
    BY <1>a, <1>13 DEF Recurse, InvalFunctionFails, InvalFunctionReturns
  <1>14. CASE TakeMessage(p)
    <2>1. pending[p] \in Seq(Int) /\ pending[p] # <<>>
      BY <1>a, <1>14 DEF TakeMessage
    <2>2. Tail(pending[p]) \in Seq(Int) /\ Head(pending[p]) \in Int
      BY <2>1, HeadTailProperties
    <2>3. pending' \in [Backend -> Seq(Int)] /\ seen' \in [Backend -> Int]
      <3>1. Head(pending[p]) + 1 \in Int
        BY <2>2
      <3>2. /\ pending' = [pending EXCEPT ![p] = Tail(pending[p])]
            /\ seen' = [seen EXCEPT ![p] = Head(pending[p]) + 1]
        BY <1>14 DEF TakeMessage
      <3>. DEFINE t == Tail(pending[p])
                  h == Head(pending[p]) + 1
      <3>. HIDE DEF t, h
      <3>3. t \in Seq(Int) /\ h \in Int /\ pending' = [pending EXCEPT ![p] = t] /\ seen' = [seen EXCEPT ![p] = h]
        BY <2>2, <3>1, <3>2 DEF t, h
      <3>. QED
        BY <1>a, <3>3
    <2>. QED
      BY <1>a, <1>14, <2>3 DEF TakeMessage
  <1>15. CASE LoopEnd(p)
    <2>1. nummsgs' \in [Backend -> 0..MAXINVALMSGS]
      <3>1. 0 \in 0..MAXINVALMSGS
        OBVIOUS
      <3>. QED
        BY <1>a, <1>15, <3>1 DEF LoopEnd
    <2>. QED
      BY <1>a, <1>15, <2>1 DEF LoopEnd
  <1>16. CASE SIGetDataEntries(p)
    <2>1. CASE ~Mine(p).hasMessages
      BY <1>a, <1>16, <2>1 DEF SIGetDataEntries
    <2>2. CASE Mine(p).hasMessages
      BY <1>a, <1>16, <2>2, GetFacts, LockTypes DEF SIGetDataEntries
    <2>. QED
      BY <2>1, <2>2
  <1>17. CASE FetchMax(p)
    BY <1>a, <1>17 DEF FetchMax
  <1>18. CASE ReadEntries(p)
    <2>1. lwlocks' \in [Backend -> [{"SInvalWriteLock", "SInvalReadLock"} -> {"none", EX, SH}]]
      BY <1>18, LockTypes DEF ReadEntries
    <2>2. procState' \in [Slot -> ProcStates]
      BY <1>18, ReadFacts
    <2>3. pending' \in [Backend -> Seq(Int)] /\ nummsgs' \in [Backend -> 0..MAXINVALMSGS]
      BY <1>18, ReadTypes
    <2>4. max' \in [Backend -> Int]
      BY <1>a, <1>18 DEF ReadEntries
    <2>. QED
      BY <1>a, <1>18, <2>1, <2>2, <2>3, <2>4 DEF ReadEntries
  <1>19. CASE ReadReset(p)
    <2>1. lwlocks' \in [Backend -> [{"SInvalWriteLock", "SInvalReadLock"} -> {"none", EX, SH}]]
      BY <1>19, LockTypes DEF ReadReset
    <2>2. procState' \in [Slot -> ProcStates]
      BY <1>19, ResetFacts
    <2>3. base + max[p] \in Int
      BY <1>a
    <2>4. max' \in [Backend -> Int] /\ seen' \in [Backend -> Int]
      <3>1. max' = [max EXCEPT ![p] = 0] /\ seen' = [seen EXCEPT ![p] = base + max[p]]
        BY <1>19 DEF ReadReset
      <3>. QED
        BY <1>a, <2>3, <3>1
    <2>. QED
      BY <1>a, <1>19, <2>1, <2>2, <2>4 DEF ReadReset
  <1>20. CASE ReceiveEnds(p)
    BY <1>a, <1>20 DEF ReceiveEnds, NoteCleared
  <1>21. CASE LockAfterReceive(p)
    BY <1>a, <1>21, LockTypes DEF LockAfterReceive
  <1>22. CASE CleanAfterReceive(p)
    <2>1. lwlocks' \in [Backend -> [{"SInvalWriteLock", "SInvalReadLock"} -> {"none", EX, SH}]]
      BY <1>a, <1>22, LockTypes DEF CleanAfterReceive
    <2>2. PICK shift \in {0, MSGNUMWRAPAROUND} : Cleaned(p, 0, shift)
      BY <1>22, CleanupFacts DEF CleanAfterReceive
    <2>3. maxMsgNum' \in Int /\ base' \in Nat /\ minMsgNum' \in Int /\ procState' \in [Slot -> ProcStates]
      BY <2>2, CleanedTypes
    <2>4. nextThreshold' \in Nat /\ sig' \in [Backend -> Backend \cup {NULL}]
      BY <1>22, CleanupFacts DEF CleanAfterReceive
    <2>. QED
      BY <1>a, <1>22, <2>1, <2>3, <2>4 DEF CleanAfterReceive
  <1>23. CASE SignalAfterReceive(p)
    BY <1>a, <1>23 DEF SignalAfterReceive, SendProcSignal
  <1>24. CASE PrepareForClientRead(p)
    BY <1>a, <1>24 DEF PrepareForClientRead
  <1>25. CASE EnableLoop(p)
    <2>1. interrupted' \in [Backend -> {NULL, "test", "disable", "wait"}]
      BY <1>a, <1>25 DEF EnableLoop
    <2>2. catchupInterruptEnabled' \in [Backend -> BOOLEAN]
      BY <1>a, <1>25 DEF EnableLoop, SetEnabled, Disabled
    <2>. QED
      BY <1>a, <1>25, <2>1, <2>2 DEF EnableLoop
  <1>26. CASE HandleCatchupInterrupt(p)
    <2>1. interrupted' \in [Backend -> {NULL, "test", "disable", "wait"}]
      <3>1. catchupInterruptEnabled[p] => at[p] \in {"test", "disable", "wait"}
        BY DEF InterruptsRight
      <3>2. CASE catchupInterruptEnabled[p]
        BY <1>a, <1>26, <3>1, <3>2 DEF HandleCatchupInterrupt
      <3>3. CASE ~catchupInterruptEnabled[p]
        BY <1>a, <1>26, <3>3 DEF HandleCatchupInterrupt
      <3>. QED
        BY <3>2, <3>3
    <2>2. catchupInterruptEnabled' \in [Backend -> BOOLEAN]
      BY <1>a, <1>26 DEF HandleCatchupInterrupt, SetEnabled
    <2>. QED
      BY <1>a, <1>26, <2>1, <2>2 DEF HandleCatchupInterrupt
  <1>27. CASE ClientReadEnded(p)
    BY <1>a, <1>27 DEF ClientReadEnded, SetEnabled
  <1>. QED
    BY <1>1, <1>2, <1>3, <1>4, <1>5, <1>6, <1>7, <1>8, <1>9, <1>10, <1>11, <1>12, <1>13, <1>14, <1>15,
       <1>16, <1>17, <1>18, <1>19, <1>20, <1>21, <1>22, <1>23, <1>24, <1>25, <1>26, <1>27 DEF Step
-----------------------------------------------------------------------------
(* Which steps touch the counters, the slots and the buffer.               *)

\* The steps that touch none of them, but for the buffer.
Quiet(p) ==
  \/ GetNextLocalTransactionId(p) \/ \E k \in 1..MaxBatch : SIInsertDataEntries(p, k)
  \/ StartRound(p) \/ SignalInRound(p) \/ RelockInRound(p) \/ WriteEntries(p)
  \/ ReceiveSharedInvalidMessages(p) \/ Recurse(p) \/ InvalFunctionFails(p)
  \/ TakeMessage(p) \/ InvalFunctionReturns(p) \/ LoopEnd(p)
  \/ (SIGetDataEntries(p) /\ ~Mine(p).hasMessages) \/ FetchMax(p)
  \/ ReceiveEnds(p) \/ LockAfterReceive(p) \/ SignalAfterReceive(p)
  \/ PrepareForClientRead(p) \/ EnableLoop(p) \/ HandleCatchupInterrupt(p) \/ ClientReadEnded(p)

\* The others.
LEMMA QuietOrNot ==
  ASSUME NEW p \in Backend, Step(p)
  PROVE  \/ Quiet(p)
         \/ \E b \in BOOLEAN : SharedInvalBackendInit(p, b)
         \/ CleanupInvalidationState(p) \/ CleanInRound(p) \/ PublishMax(p) \/ Kick(p)
         \/ (SIGetDataEntries(p) /\ Mine(p).hasMessages) \/ ReadEntries(p) \/ ReadReset(p) \/ CleanAfterReceive(p)
  BY DEF Step, Quiet

\* A quiet step leaves the counters and the slots alone.
LEMMA QuietKeeps ==
  ASSUME NEW p \in Backend, Quiet(p)
  PROVE  UNCHANGED <<minMsgNum, maxMsgNum, base, queued, procState, lastBackend, MyBackendId>>
  <1>. USE DEF segVars, historyVars, outsideReceive, outsideInterrupt
  <1>1. CASE \/ GetNextLocalTransactionId(p) \/ \E k \in 1..MaxBatch : SIInsertDataEntries(p, k)
             \/ StartRound(p) \/ SignalInRound(p) \/ RelockInRound(p) \/ WriteEntries(p)
    BY <1>1 DEF GetNextLocalTransactionId, SIInsertDataEntries, StartRound, SignalInRound, RelockInRound,
                WriteEntries
  <1>2. CASE \/ ReceiveSharedInvalidMessages(p) \/ Recurse(p) \/ InvalFunctionFails(p)
             \/ TakeMessage(p) \/ InvalFunctionReturns(p) \/ LoopEnd(p)
             \/ (SIGetDataEntries(p) /\ ~Mine(p).hasMessages) \/ FetchMax(p)
    BY <1>2 DEF ReceiveSharedInvalidMessages, Recurse, InvalFunctionFails, TakeMessage, InvalFunctionReturns,
                LoopEnd, SIGetDataEntries, FetchMax
  <1>3. CASE ReceiveEnds(p) \/ LockAfterReceive(p) \/ SignalAfterReceive(p)
    BY <1>3 DEF ReceiveEnds, LockAfterReceive, SignalAfterReceive
  <1>4. CASE PrepareForClientRead(p) \/ EnableLoop(p) \/ HandleCatchupInterrupt(p) \/ ClientReadEnded(p)
    BY <1>4 DEF PrepareForClientRead, EnableLoop, HandleCatchupInterrupt, ClientReadEnded
  <1>. QED
    BY <1>1, <1>2, <1>3, <1>4 DEF Quiet

\* Only WriteEntries writes into the buffer, and only the writer changes its round.
LEMMA BufferKept ==
  ASSUME TypeOK, NEW p \in Backend, Step(p)
  PROVE  /\ ~WriteEntries(p) => UNCHANGED buffer
         /\ ~StartRound(p) /\ ~Kick(p) => UNCHANGED nthistime
         /\ \A q \in Backend \ {p} : nthistime'[q] = nthistime[q]
  <1>. USE DEF segVars, insertVars, outsideReceive, outsideInterrupt
  <1>1. CASE \E b \in BOOLEAN : SharedInvalBackendInit(p, b)
    BY <1>1 DEF SharedInvalBackendInit
  <1>2. CASE \/ CleanupInvalidationState(p) \/ GetNextLocalTransactionId(p)
             \/ \E k \in 1..MaxBatch : SIInsertDataEntries(p, k)
    BY <1>2 DEF CleanupInvalidationState, GetNextLocalTransactionId, SIInsertDataEntries
  <1>3. CASE CleanInRound(p) \/ SignalInRound(p) \/ RelockInRound(p) \/ PublishMax(p)
    BY <1>3 DEF CleanInRound, SignalInRound, RelockInRound, PublishMax
  <1>4. CASE StartRound(p) \/ Kick(p) \/ WriteEntries(p)
    BY <1>4 DEF StartRound, Kick, WriteEntries, TypeOK
  <1>5. CASE ReceiveSharedInvalidMessages(p) \/ Recurse(p) \/ InvalFunctionFails(p)
    BY <1>5 DEF ReceiveSharedInvalidMessages, Recurse, InvalFunctionFails
  <1>6. CASE TakeMessage(p) \/ InvalFunctionReturns(p) \/ LoopEnd(p) \/ SIGetDataEntries(p) \/ FetchMax(p)
    BY <1>6 DEF TakeMessage, InvalFunctionReturns, LoopEnd, SIGetDataEntries, FetchMax
  <1>7. CASE ReadEntries(p) \/ ReadReset(p)
    BY <1>7 DEF ReadEntries, ReadReset
  <1>8. CASE ReceiveEnds(p) \/ LockAfterReceive(p) \/ CleanAfterReceive(p) \/ SignalAfterReceive(p)
    BY <1>8 DEF ReceiveEnds, LockAfterReceive, CleanAfterReceive, SignalAfterReceive
  <1>9. CASE PrepareForClientRead(p) \/ EnableLoop(p) \/ HandleCatchupInterrupt(p) \/ ClientReadEnded(p)
    BY <1>9 DEF PrepareForClientRead, EnableLoop, HandleCatchupInterrupt, ClientReadEnded
  <1>. QED
    BY <1>1, <1>2, <1>3, <1>4, <1>5, <1>6, <1>7, <1>8, <1>9 DEF Step

\* What is local to a backend no other backend changes.
LEMMA OthersLocals ==
  ASSUME TypeOK, NEW p \in Backend, Step(p), NEW q \in Backend \ {p}
  PROVE  LocalsKept(q)
  <1>. USE DEF receiveVars, outsideReceive, outsideInterrupt
  <1>0. /\ MyBackendId \in [Backend -> 0..MaxBackends] /\ pending \in [Backend -> Seq(Int)]
        /\ seen \in [Backend -> Int] /\ nummsgs \in [Backend -> 0..MAXINVALMSGS] /\ max \in [Backend -> Int]
    BY DEF TypeOK
  <1>1. CASE \E b \in BOOLEAN : SharedInvalBackendInit(p, b)
    BY <1>0, <1>1 DEF SharedInvalBackendInit, LocalsKept
  <1>2. CASE CleanupInvalidationState(p) \/ GetNextLocalTransactionId(p)
    BY <1>0, <1>2 DEF CleanupInvalidationState, GetNextLocalTransactionId, LocalsKept
  <1>3. CASE \/ \E k \in 1..MaxBatch : SIInsertDataEntries(p, k)
             \/ StartRound(p) \/ CleanInRound(p) \/ SignalInRound(p) \/ RelockInRound(p)
    BY <1>3 DEF SIInsertDataEntries, StartRound, CleanInRound, SignalInRound, RelockInRound, LocalsKept
  <1>4. CASE WriteEntries(p) \/ PublishMax(p) \/ Kick(p)
    BY <1>4 DEF WriteEntries, PublishMax, Kick, LocalsKept
  <1>5. CASE ReceiveSharedInvalidMessages(p) \/ Recurse(p) \/ InvalFunctionFails(p)
    BY <1>5 DEF ReceiveSharedInvalidMessages, Recurse, InvalFunctionFails, LocalsKept
  <1>6. CASE TakeMessage(p) \/ InvalFunctionReturns(p)
    BY <1>0, <1>6 DEF TakeMessage, InvalFunctionReturns, LocalsKept
  <1>7. CASE LoopEnd(p) \/ SIGetDataEntries(p) \/ FetchMax(p)
    BY <1>0, <1>7 DEF LoopEnd, SIGetDataEntries, FetchMax, LocalsKept
  <1>8. CASE ReadEntries(p)
    BY <1>0, <1>8 DEF ReadEntries, LocalsKept
  <1>9. CASE ReadReset(p)
    BY <1>0, <1>9 DEF ReadReset, LocalsKept
  <1>10. CASE ReceiveEnds(p) \/ LockAfterReceive(p) \/ CleanAfterReceive(p) \/ SignalAfterReceive(p)
    BY <1>10 DEF ReceiveEnds, LockAfterReceive, CleanAfterReceive, SignalAfterReceive, LocalsKept
  <1>11. CASE PrepareForClientRead(p) \/ EnableLoop(p) \/ HandleCatchupInterrupt(p) \/ ClientReadEnded(p)
    BY <1>11 DEF PrepareForClientRead, EnableLoop, HandleCatchupInterrupt, ClientReadEnded, LocalsKept
  <1>. QED
    BY <1>1, <1>2, <1>3, <1>4, <1>5, <1>6, <1>7, <1>8, <1>9, <1>10, <1>11 DEF Step

\* Only Kick gets a backend away from there, and only WriteEntries leads to the
\* update of maxMsgNum.
LEMMA WriterPlaces ==
  ASSUME TypeOK, FramesRight, InterruptsRight, SlotsRight, NEW p \in Backend, Step(p)
  PROVE  /\ at[p] = "kick" => Kick(p) \/ at'[p] = "kick"
         /\ at'[p] = "publish" => WriteEntries(p) \/ (HandleCatchupInterrupt(p) /\ at[p] = "publish")
  <1>1. CASE (\E b \in BOOLEAN : SharedInvalBackendInit(p, b)) \/ CleanupInvalidationState(p)
    BY <1>1, OutsideControl DEF Outside
  <1>2. CASE GetNextLocalTransactionId(p) \/ \E k \in 1..MaxBatch : SIInsertDataEntries(p, k)
    BY <1>2, OutsideControl DEF Outside
  <1>3. CASE StartRound(p) \/ CleanInRound(p) \/ SignalInRound(p) \/ RelockInRound(p)
    BY <1>3, OutsideControl DEF Outside
  <1>4. CASE WriteEntries(p) \/ PublishMax(p) \/ Kick(p) \/ PrepareForClientRead(p) \/ ClientReadEnded(p)
    BY <1>4, OutsideControl DEF Outside
  <1>5. CASE ReceiveSharedInvalidMessages(p) \/ InvalFunctionFails(p)
    BY <1>5, ReceiveControl, FailControl DEF InvalFunctionFails
  <1>6. CASE Recurse(p) \/ TakeMessage(p) \/ InvalFunctionReturns(p) \/ LoopEnd(p) \/ SIGetDataEntries(p)
    BY <1>6 DEF Recurse, TakeMessage, InvalFunctionReturns, LoopEnd, SIGetDataEntries, InReceive
  <1>7. CASE FetchMax(p) \/ ReadEntries(p) \/ ReadReset(p) \/ LockAfterReceive(p)
    BY <1>7 DEF FetchMax, ReadEntries, ReadReset, LockAfterReceive, InReceive
  <1>8. CASE ReceiveEnds(p) \/ CleanAfterReceive(p) \/ SignalAfterReceive(p)
    <2>1. at[p] = "receive"
      BY <1>8 DEF ReceiveEnds, CleanAfterReceive, SignalAfterReceive, InReceive
    <2>. QED
      BY <1>8, <2>1, EndControl, CleanControl, SignalControl, TopFacts DEF Leaves, Inside, Frame
  <1>9. CASE EnableLoop(p)
    BY <1>9, EnableControl DEF Open
  <1>10. CASE HandleCatchupInterrupt(p)
    BY <1>10, HandleControl DEF Open
  <1>. QED
    BY <1>1, <1>2, <1>3, <1>4, <1>5, <1>6, <1>7, <1>8, <1>9, <1>10 DEF Step

\* A cleanup is done by the backend that holds SInvalWriteLock, while none reads.
LEMMA CleanSteps ==
  ASSUME TypeOK, LocksRight, CountersOrdered, QueueRight, NEW p \in Backend,
         CleanInRound(p) \/ CleanAfterReceive(p)
  PROVE  /\ Writer(p) /\ UNCHANGED <<buffer, lastBackend, MyBackendId, nthistime, queued>>
         /\ \A q \in Backend \ {p} : ~Reader(q)
         /\ \E minFree \in 0..WRITE_QUANTUM, shift \in {0, MSGNUMWRAPAROUND} : Cleaned(p, minFree, shift)
  <1>1. PICK minFree \in 0..WRITE_QUANTUM : SICleanupQueue(p, minFree)
    <2>1. nthistime[p] \in 0..WRITE_QUANTUM /\ 0 \in 0..WRITE_QUANTUM
      BY DEF TypeOK
    <2>. QED
      BY <2>1 DEF CleanInRound, CleanAfterReceive
  <1>2. Writer(p) /\ UNCHANGED <<buffer, lastBackend, MyBackendId, nthistime, queued>>
    BY DEF CleanInRound, CleanAfterReceive, InReceive, Writer, insertVars
  <1>3. \A q \in Backend \ {p} : ~Reader(q)
    BY <1>1 DEF SICleanupQueue, Available, LW!Compatible, LW!SHARED, LocksRight
  <1>4. \E shift \in {0, MSGNUMWRAPAROUND} : Cleaned(p, minFree, shift)
    BY <1>1, CleanupFacts
  <1>. QED
    BY <1>2, <1>3, <1>4

\* A cleanup keeps the counters in order.
LEMMA CleanCounters ==
  ASSUME TypeOK, SlotsRight, CountersOrdered, NEW p \in Backend,
         NEW minFree \in 0..WRITE_QUANTUM, NEW shift \in {0, MSGNUMWRAPAROUND}, Cleaned(p, minFree, shift)
  PROVE  CountersOrdered'
  <1>0. /\ minMsgNum \in Int /\ maxMsgNum \in Int /\ shift \in Int /\ minMsgNum' \in Int /\ maxMsgNum' \in Int
        /\ procState \in [Slot -> ProcStates] /\ procState' \in [Slot -> ProcStates]
    BY DEF TypeOK, Cleaned
  <1>1. minMsgNum' <= maxMsgNum' /\ maxMsgNum' - minMsgNum' <= MAXNUMMESSAGES
    <2>1. minMsgNum <= minMsgNum' + shift /\ minMsgNum' <= maxMsgNum' /\ maxMsgNum' = maxMsgNum - shift
      BY DEF Cleaned
    <2>2. maxMsgNum - minMsgNum <= MAXNUMMESSAGES
      BY DEF CountersOrdered
    <2>3. \A a, b, c, d, w \in Int :
            a <= c + w /\ d = b - w /\ b - a <= MAXNUMMESSAGES => d - c <= MAXNUMMESSAGES
      OBVIOUS
    <2>. QED
      BY <1>0, <2>1, <2>2, <2>3, Zenon
  <1>2. ASSUME NEW s \in Slot, Reading(s)'
        PROVE  minMsgNum' <= procState'[s].nextMsgNum /\ procState'[s].nextMsgNum <= maxMsgNum'
    <2>1. /\ Reading(s) /\ s <= lastBackend /\ ~TooFarBehind(s, minFree) /\ Kept(s, minFree)
      BY <1>2 DEF Cleaned, Reading, Active, Kept, SlotsRight
    <2>2. procState[s].nextMsgNum \in Int /\ procState'[s].nextMsgNum \in Int
      BY <1>0 DEF ProcStates
    <2>. QED
      BY <1>0, <2>1, <2>2 DEF Cleaned, CountersOrdered
  <1>. QED
    BY <1>1, <1>2 DEF CountersOrdered

\* The counters are in order after every step.
LEMMA CountersStep ==
  ASSUME TypeOK, FramesRight, InterruptsRight, SlotsRight, LocksRight, CountersOrdered, QueueRight, FetchRight,
         NEW p \in Backend, Step(p)
  PROVE  CountersOrdered'
  <1>0. minMsgNum \in Int /\ maxMsgNum \in Int /\ procState \in [Slot -> ProcStates] /\ max[p] \in Int
    BY DEF TypeOK
  <1>a. ASSUME UNCHANGED <<minMsgNum, maxMsgNum>>,
               \A s \in Slot : Reading(s)' =>
                 \/ Reading(s) /\ procState'[s].nextMsgNum = procState[s].nextMsgNum
                 \/ minMsgNum <= procState'[s].nextMsgNum /\ procState'[s].nextMsgNum <= maxMsgNum
        PROVE  CountersOrdered'
    BY <1>a DEF CountersOrdered
  <1>1. CASE Quiet(p)
    BY <1>1, QuietKeeps DEF CountersOrdered, Reading, Active
  <1>2. CASE \E b \in BOOLEAN : SharedInvalBackendInit(p, b)
    <2>1. PICK b \in BOOLEAN : SharedInvalBackendInit(p, b)
      BY <1>2
    <2>2. UNCHANGED <<minMsgNum, maxMsgNum>>
      BY <2>1 DEF SharedInvalBackendInit
    <2>3. CASE \E s \in Slot : Joins(p, b, s)
      <3>1. PICK s \in Slot : Joins(p, b, s)
        BY <2>3
      <3>2. procState'[s].nextMsgNum = maxMsgNum /\ \A t \in Slot \ {s} : procState'[t] = procState[t]
        BY <3>1 DEF Joins
      <3>. QED
        BY <1>0, <1>a, <2>2, <3>2 DEF Reading, Active, CountersOrdered
    <2>4. CASE UNCHANGED procState
      BY <1>a, <2>2, <2>4 DEF Reading, Active
    <2>. QED
      BY <2>1, <2>3, <2>4, JoinFacts
  <1>3. CASE CleanupInvalidationState(p)
    <2>1. UNCHANGED <<minMsgNum, maxMsgNum>>
      BY <1>3 DEF CleanupInvalidationState
    <2>2. \A s \in Slot : Reading(s)' => procState'[s] = procState[s]
      BY <1>3, LeaveFacts DEF Reading, Active
    <2>. QED
      BY <1>a, <2>1, <2>2 DEF Reading, Active
  <1>4. CASE CleanInRound(p) \/ CleanAfterReceive(p)
    BY <1>4, CleanSteps, CleanCounters
  <1>5. CASE PublishMax(p)
    <2>1. nthistime[p] \in Nat /\ maxMsgNum - minMsgNum + nthistime[p] <= MAXNUMMESSAGES
      BY <1>5 DEF PublishMax, QueueRight, TypeOK
    <2>2. maxMsgNum' = maxMsgNum + nthistime[p] /\ UNCHANGED <<minMsgNum, procState>>
      BY <1>5 DEF PublishMax
    <2>3. \A s \in Slot : procState[s].nextMsgNum \in Int
      BY <1>0 DEF ProcStates
    <2>. QED
      BY <1>0, <2>1, <2>2, <2>3 DEF CountersOrdered, Reading, Active
  <1>6. CASE Kick(p)
    <2>1. UNCHANGED <<minMsgNum, maxMsgNum>>
      BY <1>6 DEF Kick, segVars
    <2>. QED
      BY <1>6, <1>a, <2>1, KickFacts DEF Reading, Active
  <1>7. CASE SIGetDataEntries(p) /\ Mine(p).hasMessages
    <2>1. UNCHANGED <<minMsgNum, maxMsgNum>>
      BY <1>7 DEF SIGetDataEntries, outsideReceive, segVars
    <2>. QED
      BY <1>7, <1>a, <2>1, GetFacts DEF Reading, Active
  <1>8. CASE ReadEntries(p)
    <2>. DEFINE s == MyBackendId[p]
    <2>1. UNCHANGED <<minMsgNum, maxMsgNum>> /\ at[p] = "receive" /\ Top(p).at = "read" /\ ~Mine(p).resetState
      BY <1>8 DEF ReadEntries, outsideReceive, segVars, InReceive
    <2>2. s \in Slot /\ Reading(s) /\ Mine(p) = procState[s] /\ procState[s].nextMsgNum \in Int
      BY <2>1, MineFacts DEF SlotsRight, Reading, ProcStates
    <2>3. max[p] <= maxMsgNum /\ minMsgNum <= procState[s].nextMsgNum
      BY <2>1, <2>2 DEF FetchRight, FetchOK, CountersOrdered
    <2>4. /\ ReadCount(p) \in Nat /\ ReadNext(p) = procState[s].nextMsgNum
          /\ ReadNext(p) + ReadCount(p) <= max[p]
          /\ procState'[s].nextMsgNum = ReadNext(p) + ReadCount(p)
          /\ \A t \in Slot \ {s} : procState'[t] = procState[t]
      BY <1>8, <2>2, ReadFacts DEF ReadNext
    <2>5. minMsgNum <= procState'[s].nextMsgNum /\ procState'[s].nextMsgNum <= maxMsgNum
      BY <1>0, <2>2, <2>3, <2>4
    <2>. QED
      BY <1>a, <2>1, <2>4, <2>5 DEF Reading, Active
  <1>9. CASE ReadReset(p)
    <2>1. UNCHANGED <<minMsgNum, maxMsgNum>> /\ at[p] = "receive" /\ Top(p).at = "read"
      BY <1>9 DEF ReadReset, outsideReceive, segVars, InReceive
    <2>2. max[p] <= maxMsgNum /\ minMsgNum <= max[p]
      BY <2>1 DEF FetchRight, FetchOK
    <2>. QED
      BY <1>9, <1>a, <2>1, <2>2, ResetFacts DEF Reading, Active
  <1>. QED
    BY <1>1, <1>2, <1>3, <1>4, <1>5, <1>6, <1>7, <1>8, <1>9, QuietOrNot
-----------------------------------------------------------------------------
(* The buffer.                                                             *)

\* Discarding read messages and wraparound leave the others where they are found.
LEMMA CleanQueue ==
  ASSUME TypeOK, QueueRight, NEW p \in Backend, UNCHANGED buffer,
         NEW minFree \in 0..WRITE_QUANTUM, NEW shift \in {0, MSGNUMWRAPAROUND}, Cleaned(p, minFree, shift)
  PROVE  \A m \in minMsgNum'..(maxMsgNum' - 1) : buffer'[m % MAXNUMMESSAGES] = base' + m
  <1>. SUFFICES ASSUME NEW m \in minMsgNum'..(maxMsgNum' - 1) PROVE buffer[m % MAXNUMMESSAGES] = base' + m
    OBVIOUS
  <1>0. /\ minMsgNum \in Int /\ maxMsgNum \in Int /\ shift \in Int /\ minMsgNum' \in Int /\ maxMsgNum' \in Int
        /\ base \in Nat
    BY DEF TypeOK, Cleaned
  <1>1. minMsgNum <= minMsgNum' + shift /\ maxMsgNum' = maxMsgNum - shift /\ base' = base + shift
    BY DEF Cleaned
  <1>2. m \in Int /\ m + shift \in minMsgNum..(maxMsgNum - 1) /\ m + shift \in Int
    <2>1. \A a, b, c, d, w \in Int : \A x \in c..(d - 1) :
            a <= c + w /\ d = b - w => x \in Int /\ x + w \in a..(b - 1) /\ x + w \in Int
      OBVIOUS
    <2>. QED
      BY <1>0, <1>1, <2>1, Zenon
  <1>3. shift % MAXNUMMESSAGES = 0
    OBVIOUS
  <1>4. ((m + shift) - shift) % MAXNUMMESSAGES = (m + shift) % MAXNUMMESSAGES
    BY <1>0, <1>2, <1>3, PlaceKept
  <1>5. (m + shift) - shift = m
    BY <1>0, <1>2
  <1>6. buffer[(m + shift) % MAXNUMMESSAGES] = base + (m + shift)
    BY <1>2 DEF QueueRight
  <1>7. base + (m + shift) = base' + m
    BY <1>0, <1>1, <1>2
  <1>. QED
    BY <1>4, <1>5, <1>6, <1>7

\* New messages go where no message is that may still be read.
LEMMA WriteQueue ==
  ASSUME TypeOK, CountersOrdered, QueueRight, NEW p \in Backend, WriteEntries(p)
  PROVE  /\ maxMsgNum - minMsgNum + nthistime[p] <= MAXNUMMESSAGES
         /\ \A m \in minMsgNum..(maxMsgNum + nthistime[p] - 1) : buffer'[m % MAXNUMMESSAGES] = base + m
  <1>. DEFINE k == nthistime[p]
  <1>0. minMsgNum \in Int /\ maxMsgNum \in Int /\ base \in Nat /\ k \in Nat
    BY DEF TypeOK
  <1>1. maxMsgNum - minMsgNum + k <= MAXNUMMESSAGES
    <2>1. ~(maxMsgNum - minMsgNum + k > MAXNUMMESSAGES)
      BY DEF WriteEntries, MustClean
    <2>. QED
      BY <1>0, <2>1
  <1>2. minMsgNum <= maxMsgNum
    BY DEF CountersOrdered
  <1>. HIDE DEF k
  <1>3. ASSUME NEW m \in minMsgNum..(maxMsgNum + k - 1) PROVE buffer'[m % MAXNUMMESSAGES] = base + m
    <2>. DEFINE i == m % MAXNUMMESSAGES
    <2>0. m \in Int /\ i \in 0..(MAXNUMMESSAGES - 1)
      BY <1>0, PlaceType
    <2>a. ASSUME NEW x \in minMsgNum..(maxMsgNum + k - 1), x # m PROVE x % MAXNUMMESSAGES # i
      <3>1. x \in Int /\ m \in Int /\ x - m < MAXNUMMESSAGES /\ m - x < MAXNUMMESSAGES
        BY <1>0, <1>1
      <3>2. CASE x < m
        BY <3>1, <3>2, PlacesDiffer
      <3>3. CASE m < x
        BY <3>1, <3>3, PlacesDiffer
      <3>. QED
        BY <2>a, <3>1, <3>2, <3>3
    <2>. HIDE DEF i
    <2>1. \/ /\ ~\E x \in maxMsgNum..(maxMsgNum + k - 1) : x % MAXNUMMESSAGES = i
             /\ buffer'[i] = buffer[i]
          \/ \E x \in maxMsgNum..(maxMsgNum + k - 1) : x % MAXNUMMESSAGES = i /\ buffer'[i] = base + x
      BY <2>0, WriteTypes DEF k
    <2>2. CASE \E x \in maxMsgNum..(maxMsgNum + k - 1) : x % MAXNUMMESSAGES = i /\ buffer'[i] = base + x
      <3>1. PICK x \in maxMsgNum..(maxMsgNum + k - 1) : x % MAXNUMMESSAGES = i /\ buffer'[i] = base + x
        BY <2>2
      <3>2. x \in minMsgNum..(maxMsgNum + k - 1)
        BY <1>0, <1>2
      <3>3. x = m
        BY <2>a, <3>1, <3>2
      <3>. QED
        BY <3>1, <3>3 DEF i
    <2>3. CASE /\ ~\E x \in maxMsgNum..(maxMsgNum + k - 1) : x % MAXNUMMESSAGES = i
               /\ buffer'[i] = buffer[i]
      <3>1. ~(m \in maxMsgNum..(maxMsgNum + k - 1))
        BY <2>3 DEF i
      <3>2. m \in minMsgNum..(maxMsgNum - 1)
        BY <1>0, <2>0, <3>1
      <3>3. buffer[m % MAXNUMMESSAGES] = base + m
        BY <3>2 DEF QueueRight
      <3>. QED
        BY <2>3, <3>3 DEF i
    <2>. QED
      BY <2>1, <2>2, <2>3
  <1>. QED
    BY <1>1, <1>3 DEF k

\* The buffer holds the queue after every step.
LEMMA QueueStep ==
  ASSUME TypeOK, FramesRight, InterruptsRight, SlotsRight, LocksRight, CountersOrdered, QueueRight,
         NEW p \in Backend, Step(p)
  PROVE  QueueRight'
  <1>0. minMsgNum \in Int /\ maxMsgNum \in Int /\ base \in Nat /\ nthistime[p] \in Nat
    BY DEF TypeOK
  <1>a. \A q \in Backend \ {p} : at'[q] = at[q] /\ nthistime'[q] = nthistime[q]
    BY ControlStep, BufferKept DEF ControlOK
  <1>1. CASE CleanInRound(p) \/ CleanAfterReceive(p)
    <2>1. Writer(p) /\ UNCHANGED <<buffer, nthistime>>
      BY <1>1, CleanSteps
    <2>2. PICK minFree \in 0..WRITE_QUANTUM, shift \in {0, MSGNUMWRAPAROUND} : Cleaned(p, minFree, shift)
      BY <1>1, CleanSteps
    <2>3. \A m \in minMsgNum'..(maxMsgNum' - 1) : buffer'[m % MAXNUMMESSAGES] = base' + m
      BY <2>1, <2>2, CleanQueue
    <2>4. \A q \in Backend : at'[q] # "publish"
      <3>1. at'[p] # "publish"
        BY <1>1, WriterPlaces DEF WriteEntries, CleanInRound, CleanAfterReceive, InReceive
      <3>2. \A q \in Backend \ {p} : ~Writer(q)
        BY <2>1 DEF LocksRight
      <3>. QED
        BY <1>a, <3>1, <3>2 DEF Writer
    <2>. QED
      BY <2>2, <2>3, <2>4 DEF QueueRight, Cleaned
  <1>2. CASE PublishMax(p)
    <2>1. at[p] = "publish" /\ maxMsgNum' = maxMsgNum + nthistime[p] /\ UNCHANGED <<minMsgNum, buffer, base>>
      BY <1>2 DEF PublishMax, historyVars
    <2>2. \A q \in Backend : at'[q] # "publish"
      <3>1. at'[p] # "publish"
        BY <1>2, OutsideControl DEF Outside
      <3>2. \A q \in Backend \ {p} : ~Writer(q)
        BY <2>1 DEF LocksRight, Writer
      <3>. QED
        BY <1>a, <3>1, <3>2 DEF Writer
    <2>3. /\ \A m \in minMsgNum..(maxMsgNum - 1) : buffer[m % MAXNUMMESSAGES] = base + m
          /\ \A m \in maxMsgNum..(maxMsgNum + nthistime[p] - 1) : buffer[m % MAXNUMMESSAGES] = base + m
      BY <2>1 DEF QueueRight
    <2>4. ASSUME NEW m \in minMsgNum'..(maxMsgNum' - 1) PROVE buffer'[m % MAXNUMMESSAGES] = base' + m
      <3>1. m \in minMsgNum..(maxMsgNum - 1) \/ m \in maxMsgNum..(maxMsgNum + nthistime[p] - 1)
        BY <1>0, <2>1
      <3>. QED
        BY <2>1, <2>3, <3>1
    <2>. QED
      BY <2>1, <2>2, <2>4 DEF QueueRight
  <1>3. CASE WriteEntries(p)
    <2>1. at[p] = "check" /\ UNCHANGED <<minMsgNum, maxMsgNum, base, nthistime>>
      BY <1>3 DEF WriteEntries, insertVars, historyVars
    <2>2. /\ maxMsgNum - minMsgNum + nthistime[p] <= MAXNUMMESSAGES
          /\ \A m \in minMsgNum..(maxMsgNum + nthistime[p] - 1) : buffer'[m % MAXNUMMESSAGES] = base + m
      BY <1>3, WriteQueue
    <2>3. minMsgNum <= maxMsgNum
      BY DEF CountersOrdered
    <2>4. \A q \in Backend \ {p} : at'[q] # "publish"
      BY <1>a, <2>1 DEF LocksRight, Writer
    <2>5. \A m \in minMsgNum..(maxMsgNum - 1) : m \in minMsgNum..(maxMsgNum + nthistime[p] - 1)
      BY <1>0
    <2>6. \A m \in maxMsgNum..(maxMsgNum + nthistime[p] - 1) : m \in minMsgNum..(maxMsgNum + nthistime[p] - 1)
      BY <1>0, <2>3
    <2>7. \A m \in minMsgNum..(maxMsgNum - 1) : buffer'[m % MAXNUMMESSAGES] = base + m
      BY <2>2, <2>5
    <2>8. \A m \in maxMsgNum..(maxMsgNum + nthistime[p] - 1) : buffer'[m % MAXNUMMESSAGES] = base + m
      BY <2>2, <2>6
    <2>. QED
      BY <2>1, <2>2, <2>4, <2>7, <2>8 DEF QueueRight
  <1>4. CASE ~CleanInRound(p) /\ ~CleanAfterReceive(p) /\ ~PublishMax(p) /\ ~WriteEntries(p)
    <2>1. UNCHANGED <<minMsgNum, maxMsgNum, base>>
      BY <1>4, QuietOrNot, QuietKeeps DEF SharedInvalBackendInit, CleanupInvalidationState, Kick, SIGetDataEntries,
         ReadEntries, ReadReset, outsideReceive, segVars, historyVars
    <2>2. UNCHANGED buffer
      BY <1>4, BufferKept
    <2>3. \A q \in Backend : at'[q] = "publish" => at[q] = "publish" /\ nthistime'[q] = nthistime[q]
      BY <1>4, <1>a, WriterPlaces, BufferKept DEF StartRound, Kick
    <2>. QED
      BY <2>1, <2>2, <2>3 DEF QueueRight
  <1>. QED
    BY <1>1, <1>2, <1>3, <1>4

\* So is what is queued.
LEMMA QueuedStep ==
  ASSUME TypeOK, FramesRight, InterruptsRight, SlotsRight, LocksRight, CountersOrdered, QueueRight, QueuedRight,
         NEW p \in Backend, Step(p)
  PROVE  QueuedRight' /\ queued <= queued'
  <1>0. minMsgNum \in Int /\ maxMsgNum \in Int /\ base \in Nat /\ queued \in Nat /\ nthistime[p] \in Nat
    BY DEF TypeOK
  <1>a. ~Kick(p) => \A q \in Backend : at[q] = "kick" => at'[q] = "kick"
    BY ControlStep, WriterPlaces DEF ControlOK
  <1>1. CASE CleanInRound(p) \/ CleanAfterReceive(p)
    <2>1. PICK minFree \in 0..WRITE_QUANTUM, shift \in {0, MSGNUMWRAPAROUND} : Cleaned(p, minFree, shift)
      BY <1>1, CleanSteps
    <2>2. base' = base + shift /\ maxMsgNum' = maxMsgNum - shift /\ shift \in Int
      BY <2>1 DEF Cleaned
    <2>3. base' + maxMsgNum' = base + maxMsgNum /\ UNCHANGED queued
      BY <1>0, <1>1, <2>2, CleanSteps
    <2>4. ~Kick(p)
      BY <1>1 DEF CleanInRound, CleanAfterReceive, InReceive, Kick
    <2>. QED
      BY <1>0, <1>a, <2>3, <2>4 DEF QueuedRight
  <1>2. CASE PublishMax(p)
    <2>1. maxMsgNum' = maxMsgNum + nthistime[p] /\ UNCHANGED <<base, queued>> /\ at'[p] = "kick"
      BY <1>2, OutsideControl DEF PublishMax, historyVars, Outside
    <2>. QED
      BY <1>0, <2>1 DEF QueuedRight
  <1>3. CASE Kick(p)
    <2>1. queued' = base + maxMsgNum /\ UNCHANGED <<base, maxMsgNum>>
      BY <1>3 DEF Kick, segVars
    <2>. QED
      BY <1>0, <2>1 DEF QueuedRight
  <1>4. CASE ~CleanInRound(p) /\ ~CleanAfterReceive(p) /\ ~PublishMax(p) /\ ~Kick(p)
    <2>1. UNCHANGED <<base, maxMsgNum, queued>>
      BY <1>4, QuietOrNot, QuietKeeps DEF SharedInvalBackendInit, CleanupInvalidationState, SIGetDataEntries,
         ReadEntries, ReadReset, outsideReceive, segVars, historyVars
    <2>. QED
      BY <1>0, <1>4, <1>a, <2>1 DEF QueuedRight
  <1>. QED
    BY <1>1, <1>2, <1>3, <1>4
-----------------------------------------------------------------------------
(* The messages of the backends that a step does not deal with.            *)

\* A cleanup resets no backend that has its flag down: it has read everything.
LEMMA CleanUndisturbed ==
  ASSUME TypeOK, SlotsRight, LocksRight, CountersOrdered, QueueRight, QueuedRight, FlagTells,
         NEW p \in Backend, CleanInRound(p) \/ CleanAfterReceive(p),
         NEW q \in Backend, MyBackendId[q] # 0
  PROVE  SlotUndisturbed(q)
  <1>. DEFINE s == MyBackendId[q]
  <1>0. /\ Writer(p) /\ UNCHANGED <<lastBackend, queued>>
        /\ \A r \in Backend \ {p} : ~Reader(r)
    BY CleanSteps
  <1>1. PICK minFree \in 0..WRITE_QUANTUM, shift \in {0, MSGNUMWRAPAROUND} : Cleaned(p, minFree, shift)
    BY CleanSteps
  <1>2. /\ s \in Slot /\ s <= lastBackend /\ procState[s].nextMsgNum \in Int
        /\ procState'[s].nextMsgNum = procState[s].nextMsgNum - shift
        /\ base \in Nat /\ maxMsgNum \in Int /\ queued \in Nat /\ shift \in Int /\ base' = base + shift
    <2>1. s \in Slot /\ s <= lastBackend /\ procState[s] \in ProcStates
      BY MineFacts DEF SlotsRight
    <2>2. procState[s].nextMsgNum \in Int
      BY <2>1 DEF ProcStates
    <2>3. base \in Nat /\ maxMsgNum \in Int /\ queued \in Nat /\ shift \in Int
      BY DEF TypeOK
    <2>4. procState'[s].nextMsgNum = procState[s].nextMsgNum - shift /\ base' = base + shift
      BY <1>1, <2>1 DEF Cleaned
    <2>. QED
      BY <2>1, <2>2, <2>3, <2>4
  <1>3. ~Reader(q)
    BY <1>0 DEF Reader, Writer
  <1>. HIDE DEF s
  <1>4. base' + procState'[s].nextMsgNum = base + procState[s].nextMsgNum
    BY <1>2
  <1>5. queued = base + maxMsgNum
    <2>1. \A r \in Backend : at[r] # "kick"
      <3>1. at[p] # "kick"
        BY DEF CleanInRound, CleanAfterReceive, InReceive
      <3>. QED
        BY <1>0, <3>1 DEF LocksRight, Writer
    <2>. QED
      BY <2>1 DEF QueuedRight
  <1>6. ASSUME ~procState[s].hasMessages PROVE ~(Reading(s) /\ TooFarBehind(s, minFree))
    <2>. SUFFICES ASSUME Reading(s) PROVE ~TooFarBehind(s, minFree)
      OBVIOUS
    <2>1. base + procState[s].nextMsgNum >= queued
      BY <1>3, <1>6 DEF FlagTells, Reading, Reader, s
    <2>2. minFree \in Int /\ minFree <= MAXNUMMESSAGES
      OBVIOUS
    <2>. QED
      BY <1>2, <1>5, <2>1, <2>2 DEF TooFarBehind
  <1>7. /\ procState'[s].sendOnly = procState[s].sendOnly
        /\ procState'[s].hasMessages = procState[s].hasMessages
        /\ procState[s].resetState => procState'[s].resetState
        /\ ~procState[s].hasMessages => (procState'[s].resetState <=> procState[s].resetState)
    BY <1>1, <1>2, <1>6 DEF Cleaned
  <1>8. procState[s].resetState \in BOOLEAN /\ procState'[s].resetState \in BOOLEAN
    BY <1>1, <1>2 DEF Cleaned, TypeOK, ProcStates
  <1>. QED
    BY <1>0, <1>3, <1>4, <1>7, <1>8 DEF SlotUndisturbed, s

\* A step disturbs no slot but the one of the backend that makes it, and that only
\* when it joins, leaves or reads.
LEMMA Undisturbed ==
  ASSUME TypeOK, SlotsRight, LocksRight, CountersOrdered, QueueRight, QueuedRight, FetchRight, FlagTells,
         NEW p \in Backend, Step(p), NEW q \in Backend, MyBackendId[q] # 0,
         \/ q # p
         \/ Quiet(p) \/ CleanInRound(p) \/ CleanAfterReceive(p) \/ PublishMax(p) \/ Kick(p)
  PROVE  SlotUndisturbed(q)
  <1>. DEFINE s == MyBackendId[q]
  <1>0. s \in Slot /\ s <= lastBackend /\ Active(s) /\ procState[s].proc = q /\ procState[s] \in ProcStates
    BY MineFacts DEF SlotsRight
  <1>a. ASSUME procState'[s] = procState[s], UNCHANGED <<base, queued, minMsgNum>>, maxMsgNum <= maxMsgNum'
        PROVE  SlotUndisturbed(q)
    BY <1>a DEF SlotUndisturbed
  <1>b. maxMsgNum \in Int /\ nthistime[p] \in Nat /\ maxMsgNum <= maxMsgNum
    BY DEF TypeOK
  <1>c. ASSUME q # p, at[p] \notin {"start", "gone"},
               \A t \in Slot \ {MyBackendId[p]} : procState'[t] = procState[t]
        PROVE  procState'[s] = procState[s]
    <2>1. procState[MyBackendId[p]].proc = p
      BY <1>c, MineFacts
    <2>. QED
      BY <1>0, <1>c, <2>1
  <1>1. CASE Quiet(p)
    BY <1>1, <1>a, <1>b, QuietKeeps
  <1>2. CASE q # p /\ \E b \in BOOLEAN : SharedInvalBackendInit(p, b)
    <2>1. PICK b \in BOOLEAN : SharedInvalBackendInit(p, b)
      BY <1>2
    <2>2. UNCHANGED <<base, queued, minMsgNum, maxMsgNum>>
      BY <2>1 DEF SharedInvalBackendInit, historyVars
    <2>3. procState'[s] = procState[s]
      BY <1>0, <2>1, JoinFacts DEF Joins
    <2>. QED
      BY <1>a, <1>b, <2>2, <2>3
  <1>3. CASE q # p /\ CleanupInvalidationState(p)
    <2>1. UNCHANGED <<base, queued, minMsgNum, maxMsgNum>> /\ at[p] = "idle"
      BY <1>3 DEF CleanupInvalidationState, historyVars
    <2>2. \A t \in Slot \ {MyBackendId[p]} : procState'[t] = procState[t]
      BY <1>3, LeaveFacts
    <2>. QED
      BY <1>3, <1>a, <1>b, <1>c, <2>1, <2>2
  <1>4. CASE CleanInRound(p) \/ CleanAfterReceive(p)
    BY <1>4, CleanUndisturbed
  <1>5. CASE PublishMax(p)
    <2>1. UNCHANGED <<base, queued, minMsgNum, procState>> /\ maxMsgNum' = maxMsgNum + nthistime[p]
      BY <1>5 DEF PublishMax, historyVars
    <2>2. maxMsgNum <= maxMsgNum'
      BY <1>b, <2>1
    <2>. QED
      BY <1>a, <2>1, <2>2
  <1>6. CASE Kick(p)
    <2>1. UNCHANGED <<base, minMsgNum, maxMsgNum>>
      BY <1>6 DEF Kick, segVars
    <2>2. /\ procState'[s].sendOnly = procState[s].sendOnly /\ procState'[s].nextMsgNum = procState[s].nextMsgNum
          /\ procState'[s].resetState = procState[s].resetState /\ procState'[s].hasMessages
      BY <1>0, <1>6, KickFacts
    <2>. QED
      BY <1>b, <2>1, <2>2 DEF SlotUndisturbed
  <1>7. CASE q # p /\ SIGetDataEntries(p) /\ Mine(p).hasMessages
    <2>1. UNCHANGED <<base, queued, minMsgNum, maxMsgNum>> /\ at[p] = "receive"
      BY <1>7 DEF SIGetDataEntries, outsideReceive, segVars, historyVars, InReceive
    <2>2. \A t \in Slot \ {MyBackendId[p]} : procState'[t] = procState[t]
      BY <1>7, GetFacts
    <2>. QED
      BY <1>7, <1>a, <1>b, <1>c, <2>1, <2>2
  <1>8. CASE q # p /\ ReadEntries(p)
    <2>1. UNCHANGED <<base, queued, minMsgNum, maxMsgNum>> /\ at[p] = "receive"
      BY <1>8 DEF ReadEntries, outsideReceive, segVars, historyVars, InReceive
    <2>2. \A t \in Slot \ {MyBackendId[p]} : procState'[t] = procState[t]
      BY <1>8, ReadFacts
    <2>. QED
      BY <1>8, <1>a, <1>b, <1>c, <2>1, <2>2
  <1>9. CASE q # p /\ ReadReset(p)
    <2>1. UNCHANGED <<base, queued, minMsgNum, maxMsgNum>> /\ at[p] = "receive"
      BY <1>9 DEF ReadReset, outsideReceive, segVars, historyVars, InReceive
    <2>2. \A t \in Slot \ {MyBackendId[p]} : procState'[t] = procState[t]
      BY <1>9, ResetFacts
    <2>. QED
      BY <1>9, <1>a, <1>b, <1>c, <2>1, <2>2
  <1>. QED
    BY <1>1, <1>2, <1>3, <1>4, <1>5, <1>6, <1>7, <1>8, <1>9, QuietOrNot

\* What DataKept needs of the types.
LEMMA TypesAfter ==
  ASSUME TypeOK'
  PROVE  /\ queued' \in Int /\ base' \in Int /\ minMsgNum' \in Int /\ maxMsgNum' \in Int
         /\ procState' \in [Slot -> ProcStates] /\ frames' \in [Backend -> Seq(Frame)]
  BY DEF TypeOK

\* Hence the messages of every other backend stay right.
LEMMA OthersData ==
  ASSUME Inv, NEW p \in Backend, Step(p), NEW q \in Backend \ {p}
  PROVE  DataOK(q)'
  <1>. USE DEF Inv
  <1>1. DataOK(q)
    BY DataRight
  <1>2. TypeOK'
    BY TypeStep
  <1>3. LocalsKept(q) /\ MovesClear(q)
    BY ControlStep, OthersLocals DEF ControlOK, MovesClear
  <1>4. MyBackendId[q] # 0 => SlotUndisturbed(q)
    BY Undisturbed
  <1>5. queued <= queued'
    BY QueuedStep
  <1>6. /\ queued' \in Int /\ base' \in Int /\ minMsgNum' \in Int /\ maxMsgNum' \in Int
        /\ procState' \in [Slot -> ProcStates] /\ frames' \in [Backend -> Seq(Frame)]
    BY <1>2, TypesAfter
  <1>. QED
    BY <1>1, <1>3, <1>4, <1>5, <1>6, DataKept
-----------------------------------------------------------------------------
(* The messages of the backend that makes the step.                        *)

\* A backend with a call of invalFunction under way is not getting messages.
LEMMA CallingClear ==
  ASSUME TypeOK, FramesRight, NEW p \in Backend, at[p] = "receive", Top(p).calling
  PROVE  ~Getting(p)
  BY TopFacts DEF FramesRight, Getting

\* The moves that are clear of SIGetDataEntries: outside of the call, ...
LEMMA OutsideClear ==
  ASSUME TypeOK, NEW p \in Backend, EntriesOK(p), NEW A, NEW B, Outside(p, A, B), "start" \notin B
  PROVE  MovesClear(p)
  <1>1. ~Getting(p) /\ ~Getting(p)' /\ at'[p] # "start" /\ frames'[p] = frames[p]
    BY DEF Outside, Getting
  <1>. QED
    BY <1>1 DEF MovesClear, EntriesOK

\* ... into it, ...
LEMMA EnterClear ==
  ASSUME TypeOK, NEW p \in Backend, at[p] # "receive", at'[p] = "receive", NEW w,
         frames'[p] = <<NewFrame(w)>>, Len(frames'[p]) = 1, Top(p)' = NewFrame(w)
  PROVE  MovesClear(p)
  <1>1. ~Getting(p) /\ ~Getting(p)' /\ at'[p] # "start"
    BY DEF Getting, NewFrame
  <1>2. \A i \in 1..Len(frames'[p]) : frames'[p][i] = NewFrame(w)
    OBVIOUS
  <1>3. NewFrame(w).entry <= queued /\ NewFrame(w).at = "drain"
    BY DEF NewFrame, TypeOK
  <1>. QED
    BY <1>1, <1>2, <1>3 DEF MovesClear

\* ... within it ...
LEMMA InsideClear ==
  ASSUME TypeOK, FramesRight, NEW p \in Backend, EntriesOK(p), NEW f, Inside(p, f), ~Getting(p),
         f.entry = Top(p).entry, f.at \notin {"get", "fetch", "read"},
         f.at \in {"end", "process"} => f.at = Top(p).at
  PROVE  MovesClear(p)
  <1>1. at'[p] = "receive" /\ ~Getting(p)'
    BY DEF Inside, Getting
  <1>2. Len(frames[p]) \in Nat \ {0} /\ Top(p) = frames[p][Len(frames[p])]
    BY TopFacts DEF Inside
  <1>3. ASSUME NEW i \in 1..Len(frames'[p])
        PROVE  /\ frames'[p][i].entry <= queued
               /\ frames'[p][i].at \in {"end", "process"} =>
                    /\ i \in 1..Len(frames[p]) /\ frames'[p][i].at = frames[p][i].at
                    /\ frames'[p][i].entry = frames[p][i].entry
    BY <1>2 DEF Inside, TopBecomes, EntriesOK
  <1>. QED
    BY <1>1, <1>3 DEF MovesClear

\* ... and out of it.
LEMMA LeavesClear ==
  ASSUME TypeOK, FramesRight, NEW p \in Backend, EntriesOK(p), Leaves(p), ~Getting(p)
  PROVE  MovesClear(p)
  <1>1. Len(frames[p]) \in Nat \ {0} /\ Top(p).where \in {"idle", "receive", "enable"}
    BY TopFacts DEF Leaves, Frame
  <1>2. ~Getting(p)'
    <2>1. ASSUME at'[p] = "receive" PROVE Top(p)'.at \in {"drain", "process", "end"}
      <3>1. frames'[p] # <<>> /\ frames'[p] \in Seq(Frame) /\ Top(p)'.calling
        BY <2>1 DEF Leaves, ControlOK, FramesRight
      <3>2. Len(frames'[p]) \in 1..Len(frames'[p])
        BY <3>1, EmptySeq
      <3>. QED
        BY <3>1, <3>2 DEF Leaves, ControlOK, FramesRight, Top
    <2>. QED
      BY <2>1 DEF Getting
  <1>3. ASSUME NEW i \in 1..Len(frames'[p])
        PROVE  i \in 1..Len(frames[p]) /\ frames'[p][i] = frames[p][i]
    BY <1>1 DEF Leaves, TopDropped
  <1>. QED
    BY <1>1, <1>2, <1>3 DEF MovesClear, EntriesOK, Leaves

\* The steps in which a backend does not deal with messages.
Idles(p) ==
  \/ GetNextLocalTransactionId(p) \/ \E k \in 1..MaxBatch : SIInsertDataEntries(p, k)
  \/ StartRound(p) \/ CleanInRound(p) \/ SignalInRound(p) \/ RelockInRound(p)
  \/ WriteEntries(p) \/ PublishMax(p) \/ Kick(p)
  \/ ReceiveSharedInvalidMessages(p) \/ Recurse(p) \/ InvalFunctionFails(p) \/ InvalFunctionReturns(p)
  \/ ReceiveEnds(p) \/ LockAfterReceive(p) \/ CleanAfterReceive(p) \/ SignalAfterReceive(p)
  \/ PrepareForClientRead(p) \/ EnableLoop(p) \/ HandleCatchupInterrupt(p) \/ ClientReadEnded(p)

\* Its moves in them are clear of SIGetDataEntries.
LEMMA IdlesClear ==
  ASSUME TypeOK, FramesRight, InterruptsRight, NEW p \in Backend, EntriesOK(p), Idles(p)
  PROVE  MovesClear(p)
  <1>1. CASE GetNextLocalTransactionId(p) \/ \E k \in 1..MaxBatch : SIInsertDataEntries(p, k)
    <2>1. Outside(p, {"idle"}, {"idle"}) \/ Outside(p, {"idle"}, {"round"})
      BY <1>1, OutsideControl
    <2>. QED
      BY <2>1, OutsideClear
  <1>2. CASE StartRound(p) \/ CleanInRound(p) \/ SignalInRound(p) \/ RelockInRound(p)
    <2>1. \/ Outside(p, {"round"}, {"check"}) \/ Outside(p, {"check"}, {"check", "signal"})
          \/ Outside(p, {"signal"}, {"relock"}) \/ Outside(p, {"relock"}, {"check"})
      BY <1>2, OutsideControl
    <2>. QED
      BY <2>1, OutsideClear
  <1>3. CASE WriteEntries(p) \/ PublishMax(p) \/ Kick(p)
    <2>1. \/ Outside(p, {"check"}, {"publish"}) \/ Outside(p, {"publish"}, {"kick"})
          \/ Outside(p, {"kick"}, {"round", "idle"})
      BY <1>3, OutsideControl
    <2>. QED
      BY <2>1, OutsideClear
  <1>4. CASE PrepareForClientRead(p) \/ ClientReadEnded(p)
    <2>1. Outside(p, {"idle"}, {"enable"}) \/ Outside(p, {"wait"}, {"idle"})
      BY <1>4, OutsideControl
    <2>. QED
      BY <2>1, OutsideClear
  <1>5. CASE ReceiveSharedInvalidMessages(p)
    <2>1. /\ at[p] = "idle" /\ at'[p] = "receive"
          /\ frames'[p] = <<NewFrame("idle")>> /\ Len(frames'[p]) = 1 /\ Top(p)' = NewFrame("idle")
      BY <1>5, ReceiveControl
    <2>. QED
      BY <2>1, EnterClear
  <1>6. CASE Recurse(p)
    <2>1. /\ at[p] = "receive" /\ UNCHANGED at
          /\ TopAdded(p, NewFrame("receive")) /\ Top(p)' = NewFrame("receive")
      BY <1>6, RecurseControl
    <2>2. ~Getting(p)
      BY <1>6, <2>1, CallingClear DEF Recurse
    <2>3. ~Getting(p)' /\ at'[p] # "start"
      BY <2>1 DEF Getting, NewFrame
    <2>4. NewFrame("receive").entry <= queued /\ NewFrame("receive").at = "drain" /\ Len(frames[p]) \in Nat
      <3>1. queued \in Int /\ NewFrame("receive").entry = queued /\ NewFrame("receive").at = "drain"
        BY DEF NewFrame, TypeOK
      <3>2. Len(frames[p]) \in Nat
        BY <2>1, TopFacts
      <3>. QED
        BY <3>1, <3>2
    <2>5. \A i \in 1..Len(frames'[p]) :
            \/ frames'[p][i] = NewFrame("receive")
            \/ i \in 1..Len(frames[p]) /\ frames'[p][i] = frames[p][i]
      BY <2>1, <2>4 DEF TopAdded
    <2>. QED
      BY <2>2, <2>3, <2>4, <2>5 DEF MovesClear, EntriesOK
  <1>7. CASE InvalFunctionFails(p)
    <2>1. at'[p] = "idle" /\ frames'[p] = <<>>
      BY <1>7, FailControl
    <2>2. ~Getting(p) /\ ~Getting(p)'
      BY <1>7, <2>1, CallingClear DEF InvalFunctionFails, Getting
    <2>3. ASSUME NEW i \in 1..Len(frames'[p]) PROVE FALSE
      BY <2>1
    <2>. QED
      BY <2>1, <2>2, <2>3 DEF MovesClear
  <1>8. CASE InvalFunctionReturns(p)
    <2>1. Inside(p, [Top(p) EXCEPT !.calling = FALSE])
      BY <1>8, ReturnControl
    <2>2. ~Getting(p)
      BY <1>8, CallingClear DEF InvalFunctionReturns
    <2>3. Top(p) \in Frame
      BY <2>1, TopFacts DEF Inside
    <2>4. Top(p).at \notin {"get", "fetch", "read"}
      BY <2>1, <2>2 DEF Getting, Inside
    <2>. QED
      BY <2>1, <2>2, <2>3, <2>4, InsideClear DEF Frame
  <1>9. CASE ReceiveEnds(p) \/ LockAfterReceive(p) \/ CleanAfterReceive(p) \/ SignalAfterReceive(p)
    <2>1. at[p] = "receive" /\ Top(p).at \in {"end", "lock", "clean", "signal"} /\ ~Getting(p)
      BY <1>9 DEF ReceiveEnds, LockAfterReceive, CleanAfterReceive, SignalAfterReceive, InReceive, Getting
    <2>2. Top(p) \in Frame
      BY <2>1, TopFacts
    <2>3. \/ Leaves(p)
          \/ \E x \in {"lock", "clean", "signal"} : Inside(p, [Top(p) EXCEPT !.at = x])
      BY <1>9, EndControl, LockControl, CleanControl, SignalControl
    <2>4. ASSUME NEW x \in {"lock", "clean", "signal"}, Inside(p, [Top(p) EXCEPT !.at = x])
          PROVE  MovesClear(p)
      <3>1. [Top(p) EXCEPT !.at = x].entry = Top(p).entry /\ [Top(p) EXCEPT !.at = x].at = x
        BY <2>2 DEF Frame
      <3>. QED
        BY <2>1, <2>4, <3>1, InsideClear
    <2>. QED
      BY <2>1, <2>3, <2>4, LeavesClear
  <1>10. CASE EnableLoop(p)
    <2>1. at[p] \in {"enable", "test", "disable", "retest"}
      BY <1>10, EnableControl
    <2>2. CASE UNCHANGED frames /\ at'[p] \in {"enable", "retest"} \cup Open
      BY <2>1, <2>2 DEF MovesClear, EntriesOK, Open, Getting
    <2>3. CASE /\ at'[p] = "receive"
               /\ frames'[p] = <<NewFrame("enable")>> /\ Len(frames'[p]) = 1 /\ Top(p)' = NewFrame("enable")
      BY <2>1, <2>3, EnterClear
    <2>. QED
      BY <1>10, <2>2, <2>3, EnableControl
  <1>11. CASE HandleCatchupInterrupt(p)
    <2>1. UNCHANGED frames /\ (IF at[p] \in Open THEN at'[p] = "enable" ELSE UNCHANGED at)
      BY <1>11, HandleControl
    <2>. QED
      BY <2>1 DEF MovesClear, EntriesOK, Open, Getting
  <1>. QED
    BY <1>1, <1>2, <1>3, <1>4, <1>5, <1>6, <1>7, <1>8, <1>9, <1>10, <1>11 DEF Idles

\* And it keeps what it has of messages.
LEMMA IdlesLocals ==
  ASSUME NEW p \in Backend, Idles(p)
  PROVE  LocalsKept(p)
  <1>. USE DEF receiveVars, outsideReceive, outsideInterrupt, LocalsKept
  <1>1. CASE \/ GetNextLocalTransactionId(p) \/ \E k \in 1..MaxBatch : SIInsertDataEntries(p, k)
             \/ StartRound(p) \/ CleanInRound(p) \/ SignalInRound(p) \/ RelockInRound(p)
    BY <1>1 DEF GetNextLocalTransactionId, SIInsertDataEntries, StartRound, CleanInRound, SignalInRound,
                RelockInRound
  <1>2. CASE WriteEntries(p) \/ PublishMax(p) \/ Kick(p)
    BY <1>2 DEF WriteEntries, PublishMax, Kick
  <1>3. CASE ReceiveSharedInvalidMessages(p) \/ Recurse(p) \/ InvalFunctionFails(p) \/ InvalFunctionReturns(p)
    BY <1>3 DEF ReceiveSharedInvalidMessages, Recurse, InvalFunctionFails, InvalFunctionReturns
  <1>4. CASE ReceiveEnds(p) \/ LockAfterReceive(p) \/ CleanAfterReceive(p) \/ SignalAfterReceive(p)
    BY <1>4 DEF ReceiveEnds, LockAfterReceive, CleanAfterReceive, SignalAfterReceive
  <1>5. CASE PrepareForClientRead(p) \/ EnableLoop(p) \/ HandleCatchupInterrupt(p) \/ ClientReadEnded(p)
    BY <1>5 DEF PrepareForClientRead, EnableLoop, HandleCatchupInterrupt, ClientReadEnded
  <1>. QED
    BY <1>1, <1>2, <1>3, <1>4, <1>5 DEF Idles

\* A backend that receives has a slot that reads; the types of what it deals with.
LEMMA ReceiverFacts ==
  ASSUME Inv, NEW p \in Backend, at[p] = "receive"
  PROVE  /\ MyBackendId[p] # 0 /\ MyBackendId[p] \in Slot /\ Mine(p) = procState[MyBackendId[p]]
         /\ ~procState[MyBackendId[p]].sendOnly /\ Active(MyBackendId[p])
         /\ procState[MyBackendId[p]] \in ProcStates
         /\ procState[MyBackendId[p]].nextMsgNum \in Int
         /\ base \in Nat /\ queued \in Nat /\ minMsgNum \in Int /\ maxMsgNum \in Int
         /\ seen[p] \in Int /\ max[p] \in Int /\ pending[p] \in Seq(Int) /\ Len(pending[p]) \in Nat
         /\ Len(frames[p]) \in Nat \ {0} /\ Top(p) = frames[p][Len(frames[p])] /\ Top(p) \in Frame
         /\ frames[p] \in Seq(Frame) /\ \A i \in 1..Len(frames[p]) : frames[p][i].entry \in Nat
         /\ DataOK(p)
  <1>0. TypeOK /\ SlotsRight /\ FramesRight
    BY DEF Inv
  <1>1. /\ MyBackendId[p] # 0 /\ MyBackendId[p] \in Slot /\ Mine(p) = procState[MyBackendId[p]]
        /\ Mine(p) \in ProcStates /\ Active(MyBackendId[p])
    BY <1>0, MineFacts
  <1>2. ~procState[MyBackendId[p]].sendOnly
    BY <1>0, <1>1 DEF SlotsRight
  <1>3. procState[MyBackendId[p]].nextMsgNum \in Int
    BY <1>1 DEF ProcStates
  <1>4. /\ base \in Nat /\ queued \in Nat /\ minMsgNum \in Int /\ maxMsgNum \in Int
        /\ seen[p] \in Int /\ max[p] \in Int /\ pending[p] \in Seq(Int) /\ Len(pending[p]) \in Nat
    BY <1>0 DEF TypeOK
  <1>5. /\ Len(frames[p]) \in Nat \ {0} /\ Top(p) = frames[p][Len(frames[p])] /\ Top(p) \in Frame
        /\ frames[p] \in Seq(Frame)
    BY <1>0, TopFacts
  <1>6. ASSUME NEW i \in 1..Len(frames[p]) PROVE frames[p][i].entry \in Nat
    <2>1. frames[p][i] \in Frame
      BY <1>5, ElementOfSeq
    <2>. QED
      BY <2>1 DEF Frame
  <1>7. DataOK(p)
    BY DataRight DEF Inv
  <1>. QED
    BY <1>1, <1>2, <1>3, <1>4, <1>5, <1>6, <1>7

\* The frames after a step within the call.
LEMMA InsideFrames ==
  ASSUME TypeOK, FramesRight, NEW p \in Backend, NEW f, Inside(p, f), f.entry = Top(p).entry
  PROVE  /\ at'[p] = "receive" /\ Top(p)' = f
         /\ \A i \in 1..Len(frames'[p]) :
              /\ i \in 1..Len(frames[p]) /\ frames'[p][i].entry = frames[p][i].entry
              /\ \/ frames'[p][i].at = frames[p][i].at /\ i # Len(frames[p])
                 \/ frames'[p][i].at = f.at /\ i = Len(frames[p])
  <1>1. Len(frames[p]) \in Nat \ {0} /\ Top(p) = frames[p][Len(frames[p])]
    BY TopFacts DEF Inside
  <1>. QED
    BY <1>1 DEF Inside, TopBecomes

\* Taking a message moves it from messages[] to those dealt with.
LEMMA TakeData ==
  ASSUME Inv, NEW p \in Backend, TakeMessage(p)
  PROVE  DataOK(p)'
  <1>. DEFINE s == MyBackendId[p]
              f == [Top(p) EXCEPT !.calling = TRUE]
  <1>0. TypeOK /\ FramesRight /\ at[p] = "receive"
    BY DEF Inv, TakeMessage, InReceive
  <1>a. /\ UNCHANGED <<base, queued, procState, MyBackendId>>
        /\ nummsgs' = nummsgs /\ pending[p] # <<>>
        /\ pending'[p] = Tail(pending[p]) /\ seen'[p] = Head(pending[p]) + 1
    BY <1>0 DEF TakeMessage, outsideReceive, historyVars, TypeOK
  <1>b. /\ s # 0 /\ s \in Slot /\ ~procState[s].sendOnly /\ procState[s].nextMsgNum \in Int
        /\ base \in Nat /\ queued \in Nat /\ seen[p] \in Int /\ pending[p] \in Seq(Int) /\ Len(pending[p]) \in Nat
        /\ Top(p) \in Frame /\ \A i \in 1..Len(frames[p]) : frames[p][i].entry \in Nat
        /\ GapOK(p) /\ FlagOK(p) /\ EntriesOK(p)
    BY <1>0, ReceiverFacts DEF DataOK
  <1>1. Inside(p, f) /\ Top(p).at \in {"drain", "process"} /\ f.entry = Top(p).entry /\ f.at = Top(p).at
    BY <1>0, <1>b, TakeControl DEF Frame
  <1>2. /\ at'[p] = "receive" /\ Top(p)' = f
        /\ \A i \in 1..Len(frames'[p]) :
             /\ i \in 1..Len(frames[p]) /\ frames'[p][i].entry = frames[p][i].entry
             /\ frames'[p][i].at = frames[p][i].at
    <2>. HIDE DEF f
    <2>1. /\ at'[p] = "receive" /\ Top(p)' = f
          /\ \A i \in 1..Len(frames'[p]) :
               /\ i \in 1..Len(frames[p]) /\ frames'[p][i].entry = frames[p][i].entry
               /\ \/ frames'[p][i].at = frames[p][i].at /\ i # Len(frames[p])
                  \/ frames'[p][i].at = f.at /\ i = Len(frames[p])
      BY <1>0, <1>1, InsideFrames
    <2>2. f.at = frames[p][Len(frames[p])].at
      BY <1>0, <1>1, TopFacts
    <2>. QED
      BY <2>1, <2>2
  <1>3. ~Getting(p) /\ ~Getting(p)' /\ ~Reader(p) /\ ~Reader(p)'
    BY <1>1, <1>2 DEF Getting, Reader
  <1>4. /\ Head(pending[p]) = pending[p][1] /\ Len(pending[p]) # 0 /\ Len(pending'[p]) = Len(pending[p]) - 1
        /\ pending'[p] \in Seq(Int)
        /\ \A i \in 1..Len(pending'[p]) : pending'[p][i] = pending[p][i + 1]
    BY <1>a, <1>b, HeadTailProperties, EmptySeq
  <1>5. \A i \in 1..Len(pending[p]) : pending[p][i] = seen[p] + i - 1
    BY <1>b DEF GapOK
  <1>6. seen'[p] = seen[p] + 1
    <2>1. 1 \in 1..Len(pending[p])
      BY <1>b, <1>4
    <2>2. pending[p][1] = seen[p] + 1 - 1
      BY <1>5, <2>1
    <2>. QED
      BY <1>a, <1>b, <1>4, <2>2
  <1>. HIDE DEF f, s
  <1>7. GapOK(p)'
    <2>1. ASSUME NEW i \in DOMAIN pending'[p] PROVE pending'[p][i] = seen'[p] + i - 1
      <3>0. i \in 1..Len(pending'[p])
        BY <1>4
      <3>1. i \in 1..Len(pending'[p]) /\ i + 1 \in 1..Len(pending[p]) /\ i \in Int
        <4>1. \A a \in Nat : \A x \in 1..(a - 1) : x + 1 \in 1..a /\ x \in Int
          OBVIOUS
        <4>2. i \in 1..(Len(pending[p]) - 1)
          BY <1>4, <3>0, Zenon
        <4>. QED
          BY <1>b, <3>0, <4>1, <4>2, Zenon
      <3>2. pending'[p][i] = seen[p] + (i + 1) - 1
        BY <1>4, <1>5, <3>1
      <3>3. \A a, x \in Int : a + (x + 1) - 1 = (a + 1) + x - 1
        OBVIOUS
      <3>. QED
        <4>1. seen[p] + (i + 1) - 1 = (seen[p] + 1) + i - 1
          BY <1>b, <3>1, <3>3
        <4>. QED
          BY <1>6, <3>2, <4>1
    <2>2. ~procState[s].resetState => base + procState[s].nextMsgNum = seen'[p] + Len(pending'[p])
      BY <1>b, <1>4, <1>6 DEF GapOK, s
    <2>. QED
      BY <1>a, <2>1, <2>2 DEF GapOK, s
  <1>8. FlagOK(p)'
    BY <1>a, <1>b, <1>3 DEF FlagOK, s
  <1>9. EntriesOK(p)'
    <2>. SUFFICES ASSUME NEW i \in 1..Len(frames'[p])
                  PROVE  /\ frames'[p][i].entry <= queued'
                         /\ frames'[p][i].at = "end" => seen'[p] >= frames'[p][i].entry
                         /\ ~Getting(p)' /\ nummsgs'[p] # MAXINVALMSGS /\ frames'[p][i].at = "process"
                              => seen'[p] + Len(pending'[p]) >= frames'[p][i].entry
      BY DEF EntriesOK
    <2>1. /\ i \in 1..Len(frames[p]) /\ frames'[p][i].entry = frames[p][i].entry
          /\ frames'[p][i].at = frames[p][i].at /\ frames[p][i].entry \in Nat
      BY <1>b, <1>2
    <2>2. /\ frames[p][i].entry <= queued
          /\ frames[p][i].at = "end" => seen[p] >= frames[p][i].entry
          /\ nummsgs[p] # MAXINVALMSGS /\ frames[p][i].at = "process"
               => seen[p] + Len(pending[p]) >= frames[p][i].entry
      BY <1>b, <1>3, <2>1 DEF EntriesOK
    <2>. QED
      BY <1>a, <1>b, <1>4, <1>6, <2>1, <2>2
  <1>10. FetchOK(p)' /\ PendingOK(p)'
    BY <1>2, <1>3 DEF FetchOK, PendingOK, Getting
  <1>. QED
    BY <1>7, <1>8, <1>9, <1>10 DEF DataOK

\* messages[] is empty: what came back not full was all there was.
LEMMA LoopEndData ==
  ASSUME Inv, NEW p \in Backend, LoopEnd(p)
  PROVE  DataOK(p)'
  <1>. DEFINE s == MyBackendId[p]
              more == Top(p).at = "drain" \/ FullBuffer(nummsgs[p])
              f == [Top(p) EXCEPT !.at = IF more THEN "get" ELSE "end"]
  <1>0. TypeOK /\ FramesRight /\ at[p] = "receive"
    BY DEF Inv, LoopEnd, InReceive
  <1>a. UNCHANGED <<base, queued, procState, MyBackendId, pending, seen>> /\ pending[p] = <<>>
    BY DEF LoopEnd, outsideReceive, historyVars
  <1>b. /\ s # 0 /\ s \in Slot /\ base \in Nat /\ queued \in Nat /\ seen[p] \in Int
        /\ Top(p) \in Frame /\ \A i \in 1..Len(frames[p]) : frames[p][i].entry \in Nat
        /\ GapOK(p) /\ FlagOK(p) /\ EntriesOK(p) /\ Len(frames[p]) \in 1..Len(frames[p])
        /\ Top(p) = frames[p][Len(frames[p])]
    BY <1>0, ReceiverFacts DEF DataOK
  <1>1. /\ Inside(p, f) /\ Top(p).at \in {"drain", "process"} /\ f.entry = Top(p).entry
        /\ f.at = IF more THEN "get" ELSE "end"
    BY <1>0, <1>b, LoopEndControl DEF Frame
  <1>2. /\ at'[p] = "receive" /\ Top(p)' = f
        /\ \A i \in 1..Len(frames'[p]) :
             /\ i \in 1..Len(frames[p]) /\ frames'[p][i].entry = frames[p][i].entry
             /\ \/ frames'[p][i].at = frames[p][i].at /\ i # Len(frames[p])
                \/ frames'[p][i].at = f.at /\ i = Len(frames[p])
    <2>. HIDE DEF f
    <2>. QED
      BY <1>0, <1>1, InsideFrames
  <1>3. ~Getting(p) /\ ~Reader(p) /\ ~Reader(p)' /\ (Getting(p)' <=> more)
    BY <1>1, <1>2 DEF Getting, Reader
  <1>4. ~more => Top(p).at = "process" /\ nummsgs[p] # MAXINVALMSGS /\ UNCHANGED nummsgs
    BY <1>1 DEF LoopEnd, FullBuffer
  <1>5. ~more => seen[p] >= Top(p).entry
    BY <1>a, <1>b, <1>3, <1>4 DEF EntriesOK
  <1>. HIDE DEF f, s, more
  <1>6. GapOK(p)'
    BY <1>a, <1>b DEF GapOK, s
  <1>7. FlagOK(p)'
    BY <1>a, <1>b, <1>3 DEF FlagOK, s
  <1>8. EntriesOK(p)'
    <2>. SUFFICES ASSUME NEW i \in 1..Len(frames'[p])
                  PROVE  /\ frames'[p][i].entry <= queued
                         /\ frames'[p][i].at = "end" => seen[p] >= frames'[p][i].entry
                         /\ ~Getting(p)' /\ nummsgs'[p] # MAXINVALMSGS /\ frames'[p][i].at = "process"
                              => seen[p] + Len(pending[p]) >= frames'[p][i].entry
      BY <1>a DEF EntriesOK
    <2>1. i \in 1..Len(frames[p]) /\ frames'[p][i].entry = frames[p][i].entry
      BY <1>2
    <2>2. CASE frames'[p][i].at = frames[p][i].at /\ i # Len(frames[p])
      BY <1>b, <1>3, <1>4, <2>1, <2>2 DEF EntriesOK
    <2>3. CASE frames'[p][i].at = f.at /\ i = Len(frames[p])
      BY <1>1, <1>b, <1>5, <2>1, <2>3 DEF EntriesOK
    <2>. QED
      BY <1>2, <2>2, <2>3
  <1>9. FetchOK(p)' /\ PendingOK(p)'
    BY <1>1, <1>2, <1>a DEF FetchOK, PendingOK
  <1>. QED
    BY <1>6, <1>7, <1>8, <1>9 DEF DataOK

\* No flag, no messages: what the calls have to reach is behind.
LEMMA GetNoneData ==
  ASSUME Inv, NEW p \in Backend, SIGetDataEntries(p), ~Mine(p).hasMessages
  PROVE  DataOK(p)'
  <1>. DEFINE s == MyBackendId[p]
              f == [Top(p) EXCEPT !.at = "process"]
  <1>0. TypeOK /\ FramesRight /\ at[p] = "receive" /\ Top(p).at = "get"
    BY DEF Inv, SIGetDataEntries, InReceive
  <1>a. UNCHANGED <<base, queued, procState, MyBackendId, pending, seen, nummsgs>>
    BY DEF SIGetDataEntries, outsideReceive, historyVars
  <1>b. /\ s # 0 /\ s \in Slot /\ ~procState[s].sendOnly /\ Mine(p) = procState[s]
        /\ base \in Nat /\ queued \in Nat /\ seen[p] \in Int /\ procState[s].nextMsgNum \in Int
        /\ Top(p) \in Frame /\ \A i \in 1..Len(frames[p]) : frames[p][i].entry \in Nat
        /\ GapOK(p) /\ FlagOK(p) /\ EntriesOK(p) /\ PendingOK(p)
    BY <1>0, ReceiverFacts DEF DataOK
  <1>1. Inside(p, f) /\ f.entry = Top(p).entry /\ f.at = "process"
    BY <1>0, <1>b, GetNoneControl DEF Frame
  <1>. HIDE DEF f
  <1>2. /\ at'[p] = "receive" /\ Top(p)' = f
        /\ \A i \in 1..Len(frames'[p]) :
             /\ i \in 1..Len(frames[p]) /\ frames'[p][i].entry = frames[p][i].entry
             /\ \/ frames'[p][i].at = frames[p][i].at /\ i # Len(frames[p])
                \/ frames'[p][i].at = f.at /\ i = Len(frames[p])
    BY <1>0, <1>1, InsideFrames
  <1>3. Getting(p) /\ ~Getting(p)' /\ ~Reader(p) /\ ~Reader(p)'
    BY <1>0, <1>1, <1>2 DEF Getting, Reader
  <1>4. pending[p] = <<>> /\ Len(pending[p]) = 0
    BY <1>b, <1>3 DEF PendingOK
  <1>5. seen[p] >= queued
    <2>1. base + procState[s].nextMsgNum >= queued /\ ~procState[s].resetState
      BY <1>b, <1>3 DEF FlagOK
    <2>2. base + procState[s].nextMsgNum = seen[p] + Len(pending[p])
      BY <1>b, <2>1 DEF GapOK
    <2>. QED
      BY <1>b, <1>4, <2>1, <2>2
  <1>. HIDE DEF s
  <1>6. GapOK(p)'
    BY <1>a, <1>b DEF GapOK, s
  <1>7. FlagOK(p)'
    BY <1>a, <1>b, <1>3 DEF FlagOK, s
  <1>8. EntriesOK(p)'
    <2>. SUFFICES ASSUME NEW i \in 1..Len(frames'[p])
                  PROVE  frames'[p][i].entry <= queued /\ seen[p] >= frames'[p][i].entry
      BY <1>a, <1>b, <1>4 DEF EntriesOK
    <2>1. /\ frames'[p][i].entry = frames[p][i].entry
          /\ frames[p][i].entry \in Nat /\ frames[p][i].entry <= queued
      BY <1>b, <1>2 DEF EntriesOK
    <2>. QED
      BY <1>b, <1>5, <2>1
  <1>9. FetchOK(p)' /\ PendingOK(p)'
    BY <1>1, <1>2, <1>3 DEF FetchOK, PendingOK
  <1>. QED
    BY <1>6, <1>7, <1>8, <1>9 DEF DataOK

\* While it gets messages a backend has no more than before.
LEMMA GettingEntries ==
  ASSUME TypeOK, NEW p \in Backend, EntriesOK(p), UNCHANGED queued, seen'[p] = seen[p], Getting(p)',
         NEW f, f.at \notin {"end", "process"},
         \A i \in 1..Len(frames'[p]) :
           /\ i \in 1..Len(frames[p]) /\ frames'[p][i].entry = frames[p][i].entry
           /\ \/ frames'[p][i].at = frames[p][i].at /\ i # Len(frames[p])
              \/ frames'[p][i].at = f.at /\ i = Len(frames[p])
  PROVE  EntriesOK(p)'
  <1>. SUFFICES ASSUME NEW i \in 1..Len(frames'[p])
                PROVE  /\ frames'[p][i].entry <= queued
                       /\ frames'[p][i].at = "end" => seen[p] >= frames'[p][i].entry
    BY DEF EntriesOK
  <1>1. i \in 1..Len(frames[p]) /\ frames'[p][i].entry = frames[p][i].entry
    OBVIOUS
  <1>2. frames'[p][i].at = "end" => frames[p][i].at = "end"
    OBVIOUS
  <1>. QED
    BY <1>1, <1>2 DEF EntriesOK

\* The flag is down, and SInvalReadLock held.
LEMMA GetData ==
  ASSUME Inv, NEW p \in Backend, SIGetDataEntries(p), Mine(p).hasMessages
  PROVE  DataOK(p)'
  <1>. DEFINE s == MyBackendId[p]
              f == [Top(p) EXCEPT !.at = "fetch"]
  <1>0. TypeOK /\ FramesRight /\ SlotsRight /\ at[p] = "receive" /\ Top(p).at = "get"
    BY DEF Inv, SIGetDataEntries, InReceive
  <1>a. UNCHANGED <<base, queued, MyBackendId, pending, seen, nummsgs>>
    BY DEF SIGetDataEntries, outsideReceive, historyVars
  <1>b. /\ s # 0 /\ s \in Slot /\ Top(p) \in Frame /\ GapOK(p) /\ EntriesOK(p) /\ PendingOK(p)
    BY <1>0, ReceiverFacts DEF DataOK
  <1>c. /\ procState'[s].sendOnly = procState[s].sendOnly /\ procState'[s].resetState = procState[s].resetState
        /\ procState'[s].nextMsgNum = procState[s].nextMsgNum
    BY <1>0, GetFacts
  <1>1. Inside(p, f) /\ f.entry = Top(p).entry /\ f.at = "fetch"
    BY <1>0, <1>b, GetControl DEF Frame
  <1>. HIDE DEF f
  <1>2. /\ at'[p] = "receive" /\ Top(p)' = f
        /\ \A i \in 1..Len(frames'[p]) :
             /\ i \in 1..Len(frames[p]) /\ frames'[p][i].entry = frames[p][i].entry
             /\ \/ frames'[p][i].at = frames[p][i].at /\ i # Len(frames[p])
                \/ frames'[p][i].at = f.at /\ i = Len(frames[p])
    BY <1>0, <1>1, InsideFrames
  <1>3. Getting(p) /\ Getting(p)' /\ Reader(p)'
    BY <1>0, <1>1, <1>2 DEF Getting, Reader
  <1>. HIDE DEF s
  <1>6. GapOK(p)'
    BY <1>a, <1>b, <1>c DEF GapOK, s
  <1>7. FlagOK(p)'
    BY <1>3 DEF FlagOK
  <1>8. EntriesOK(p)'
    BY <1>0, <1>a, <1>b, <1>1, <1>2, <1>3, GettingEntries
  <1>9. FetchOK(p)' /\ PendingOK(p)'
    BY <1>a, <1>b, <1>1, <1>2, <1>3 DEF FetchOK, PendingOK
  <1>. QED
    BY <1>6, <1>7, <1>8, <1>9 DEF DataOK

\* maxMsgNum as fetched covers what is queued.
LEMMA FetchData ==
  ASSUME Inv, NEW p \in Backend, FetchMax(p)
  PROVE  DataOK(p)'
  <1>. DEFINE s == MyBackendId[p]
              f == [Top(p) EXCEPT !.at = "read"]
  <1>0. TypeOK /\ FramesRight /\ at[p] = "receive" /\ Top(p).at = "fetch"
    BY DEF Inv, FetchMax, InReceive
  <1>a. /\ UNCHANGED <<base, queued, minMsgNum, maxMsgNum, procState, MyBackendId, pending, seen, nummsgs>>
        /\ max'[p] = maxMsgNum
    BY <1>0 DEF FetchMax, outsideReceive, segVars, historyVars, TypeOK
  <1>b. /\ s # 0 /\ s \in Slot /\ ~procState[s].sendOnly /\ Mine(p) = procState[s] /\ Active(s)
        /\ base \in Nat /\ queued \in Nat /\ maxMsgNum \in Int /\ minMsgNum \in Int
        /\ Top(p) \in Frame /\ \A i \in 1..Len(frames[p]) : frames[p][i].entry \in Nat
        /\ GapOK(p) /\ EntriesOK(p) /\ PendingOK(p)
    BY <1>0, ReceiverFacts DEF DataOK
  <1>1. Inside(p, f) /\ f.entry = Top(p).entry /\ f.at = "read"
    BY <1>0, <1>b, FetchControl DEF Frame
  <1>. HIDE DEF f
  <1>2. /\ at'[p] = "receive" /\ Top(p)' = f
        /\ \A i \in 1..Len(frames'[p]) :
             /\ i \in 1..Len(frames[p]) /\ frames'[p][i].entry = frames[p][i].entry
             /\ \/ frames'[p][i].at = frames[p][i].at /\ i # Len(frames[p])
                \/ frames'[p][i].at = f.at /\ i = Len(frames[p])
    BY <1>0, <1>1, InsideFrames
  <1>3. Getting(p) /\ Getting(p)' /\ Reader(p)'
    BY <1>0, <1>1, <1>2 DEF Getting, Reader
  <1>4. /\ minMsgNum <= maxMsgNum /\ queued <= base + maxMsgNum
        /\ ~procState[s].resetState => procState[s].nextMsgNum <= maxMsgNum
    BY <1>b DEF Inv, CountersOrdered, QueuedRight, Reading
  <1>5. ASSUME NEW i \in 1..Len(frames'[p]) PROVE frames'[p][i].entry <= base + maxMsgNum
    <2>1. /\ frames'[p][i].entry = frames[p][i].entry
          /\ frames[p][i].entry \in Nat /\ frames[p][i].entry <= queued
      BY <1>b, <1>2 DEF EntriesOK
    <2>. QED
      BY <1>b, <1>4, <2>1
  <1>. HIDE DEF s
  <1>6. GapOK(p)'
    BY <1>a, <1>b DEF GapOK, s
  <1>7. FlagOK(p)'
    BY <1>3 DEF FlagOK
  <1>8. EntriesOK(p)'
    BY <1>0, <1>a, <1>b, <1>1, <1>2, <1>3, GettingEntries
  <1>9. FetchOK(p)'
    <2>1. Mine(p)' = procState[s]
      BY <1>a DEF Mine, s
    <2>2. maxMsgNum <= maxMsgNum /\ base + maxMsgNum >= queued
      BY <1>b, <1>4
    <2>. QED
      BY <1>a, <1>4, <1>5, <2>1, <2>2 DEF FetchOK
  <1>10. PendingOK(p)'
    BY <1>a, <1>b, <1>2, <1>3 DEF PendingOK
  <1>. QED
    BY <1>6, <1>7, <1>8, <1>9, <1>10 DEF DataOK

\* What is read follows what was dealt with, and is as the senders wrote it; when
\* messages[] is not full it reaches maxMsgNum as fetched.
LEMMA ReadData ==
  ASSUME Inv, NEW p \in Backend, ReadEntries(p)
  PROVE  DataOK(p)'
  <1>. DEFINE s == MyBackendId[p]
              f == [Top(p) EXCEPT !.at = "process"]
              k == ReadCount(p)
              n0 == ReadNext(p)
  <1>0. /\ TypeOK /\ FramesRight /\ SlotsRight /\ FetchRight /\ QueueRight /\ CountersOrdered
        /\ at[p] = "receive" /\ Top(p).at = "read" /\ ~Mine(p).resetState
    BY DEF Inv, ReadEntries, InReceive
  <1>a. UNCHANGED <<base, queued, minMsgNum, maxMsgNum, MyBackendId, seen>>
    BY DEF ReadEntries, outsideReceive, segVars, historyVars
  <1>b. /\ s # 0 /\ s \in Slot /\ ~procState[s].sendOnly /\ Mine(p) = procState[s] /\ Active(s)
        /\ base \in Nat /\ queued \in Nat /\ maxMsgNum \in Int /\ minMsgNum \in Int
        /\ max[p] \in Int /\ seen[p] \in Int
        /\ Top(p) \in Frame /\ \A i \in 1..Len(frames[p]) : frames[p][i].entry \in Nat
        /\ FetchOK(p) /\ GapOK(p) /\ EntriesOK(p) /\ PendingOK(p)
    BY <1>0, ReceiverFacts DEF DataOK
  <1>c. /\ n0 \in Int /\ k \in Nat /\ n0 + k <= max[p] /\ (k # MAXINVALMSGS => n0 + k = max[p])
        /\ n0 = procState[s].nextMsgNum
        /\ procState'[s].nextMsgNum = n0 + k
        /\ procState'[s].sendOnly = procState[s].sendOnly
        /\ ~procState[s].resetState /\ ~procState'[s].resetState
        /\ ~procState'[s].hasMessages => n0 + k = max[p] /\ ~procState[s].hasMessages
    BY <1>0, <1>b, ReadFacts DEF ReadNext
  <1>d. /\ pending'[p] \in Seq(Int) /\ Len(pending'[p]) = k /\ nummsgs'[p] = k
        /\ \A i \in 1..k : pending'[p][i] = buffer[(n0 + i - 1) % MAXNUMMESSAGES]
    BY <1>0, ReadTypes
  <1>1. Inside(p, f) /\ f.entry = Top(p).entry /\ f.at = "process"
    BY <1>0, <1>b, ReadControl DEF Frame
  <1>. HIDE DEF f, k, n0
  <1>2. /\ at'[p] = "receive" /\ Top(p)' = f
        /\ \A i \in 1..Len(frames'[p]) :
             /\ i \in 1..Len(frames[p]) /\ frames'[p][i].entry = frames[p][i].entry
             /\ \/ frames'[p][i].at = frames[p][i].at /\ i # Len(frames[p])
                \/ frames'[p][i].at = f.at /\ i = Len(frames[p])
    BY <1>0, <1>1, InsideFrames
  <1>3. Getting(p) /\ ~Getting(p)' /\ ~Reader(p)'
    BY <1>0, <1>1, <1>2 DEF Getting, Reader
  <1>4. /\ minMsgNum <= n0 /\ max[p] <= maxMsgNum
        /\ ~procState[s].hasMessages => base + max[p] >= queued
        /\ \A i \in 1..Len(frames[p]) : frames[p][i].entry <= base + max[p]
    BY <1>0, <1>b, <1>c DEF FetchOK, CountersOrdered, Reading
  <1>5. base + n0 = seen[p]
    <2>1. pending[p] = <<>> /\ Len(pending[p]) = 0
      BY <1>b, <1>3 DEF PendingOK
    <2>2. base + n0 = seen[p] + Len(pending[p])
      BY <1>b, <1>c DEF GapOK
    <2>. QED
      BY <1>b, <2>1, <2>2
  <1>. HIDE DEF s
  <1>6. GapOK(p)'
    <2>1. ASSUME NEW i \in DOMAIN pending'[p] PROVE pending'[p][i] = seen[p] + i - 1
      <3>1. i \in 1..k /\ i \in Int
        <4>1. \A j \in Nat : \A q \in Seq(Int) : Len(q) = j => DOMAIN q = 1..j /\ 1..j \subseteq Int
          OBVIOUS
        <4>2. DOMAIN pending'[p] = 1..k /\ 1..k \subseteq Int
          BY <1>c, <1>d, <4>1, Zenon
        <4>. QED
          BY <4>2, Zenon
      <3>2. n0 + i - 1 \in minMsgNum..(maxMsgNum - 1)
        <4>1. /\ minMsgNum \in Int /\ maxMsgNum \in Int /\ max[p] \in Int /\ n0 \in Int /\ k \in Int
              /\ minMsgNum <= n0 /\ max[p] <= maxMsgNum /\ n0 + k <= max[p] /\ 1 <= i /\ i <= k
          BY <1>b, <1>c, <1>4, <3>1
        <4>2. \A a, b, c, d, e \in Int : a <= d /\ c <= b /\ d + e <= c =>
                \A x \in 1..e : d + x - 1 \in a..(b - 1)
          OBVIOUS
        <4>. QED
          BY <3>1, <4>1, <4>2, Zenon
      <3>3. buffer[(n0 + i - 1) % MAXNUMMESSAGES] = base + (n0 + i - 1)
        BY <1>0, <3>2 DEF QueueRight
      <3>4. base + (n0 + i - 1) = seen[p] + i - 1
        BY <1>b, <1>c, <1>5, <3>1
      <3>. QED
        BY <1>d, <3>1, <3>3, <3>4
    <2>2. base + procState'[s].nextMsgNum = seen[p] + Len(pending'[p])
      BY <1>b, <1>c, <1>d, <1>5
    <2>. QED
      BY <1>a, <2>1, <2>2 DEF GapOK, s
  <1>7. FlagOK(p)'
    <2>1. ~procState'[s].hasMessages => base + procState'[s].nextMsgNum >= queued
      BY <1>c, <1>4
    <2>. QED
      BY <1>a, <1>c, <2>1 DEF FlagOK, s
  <1>8. EntriesOK(p)'
    <2>. SUFFICES ASSUME NEW i \in 1..Len(frames'[p])
                  PROVE  /\ frames'[p][i].entry <= queued
                         /\ frames'[p][i].at = "end" => seen[p] >= frames'[p][i].entry
                         /\ nummsgs'[p] # MAXINVALMSGS => seen[p] + Len(pending'[p]) >= frames'[p][i].entry
      BY <1>a DEF EntriesOK
    <2>1. /\ i \in 1..Len(frames[p]) /\ frames'[p][i].entry = frames[p][i].entry /\ frames[p][i].entry \in Nat
          /\ frames'[p][i].at = "end" => frames[p][i].at = "end"
      BY <1>b, <1>1, <1>2
    <2>2. frames[p][i].entry <= queued /\ (frames[p][i].at = "end" => seen[p] >= frames[p][i].entry)
      BY <1>b, <2>1 DEF EntriesOK
    <2>3. k # MAXINVALMSGS => seen[p] + k >= frames[p][i].entry
      <3>1. frames[p][i].entry <= base + max[p]
        BY <1>4, <2>1
      <3>2. \A a, b, c, d, e, g \in Int : a <= b + c /\ d + e = c /\ b + d = g => g + e >= a
        OBVIOUS
      <3>. QED
        <4>1. /\ frames[p][i].entry \in Int /\ base \in Int /\ max[p] \in Int /\ n0 \in Int /\ k \in Int
              /\ seen[p] \in Int
          BY <1>b, <1>c, <2>1
        <4>2. k # MAXINVALMSGS => n0 + k = max[p]
          BY <1>c
        <4>. QED
          BY <1>5, <3>1, <3>2, <4>1, <4>2, Zenon
    <2>. QED
      BY <1>d, <2>1, <2>2, <2>3
  <1>9. FetchOK(p)' /\ PendingOK(p)'
    BY <1>1, <1>2, <1>3 DEF FetchOK, PendingOK
  <1>. QED
    BY <1>6, <1>7, <1>8, <1>9 DEF DataOK

\* A reset stands for everything up to maxMsgNum as fetched.
LEMMA ResetData ==
  ASSUME Inv, NEW p \in Backend, ReadReset(p)
  PROVE  DataOK(p)'
  <1>. DEFINE s == MyBackendId[p]
              f == [Top(p) EXCEPT !.at = "end", !.calling = TRUE]
  <1>0. TypeOK /\ FramesRight /\ SlotsRight /\ at[p] = "receive" /\ Top(p).at = "read"
    BY DEF Inv, ReadReset, InReceive
  <1>a. UNCHANGED <<base, queued, MyBackendId, pending, nummsgs>> /\ seen'[p] = base + max[p]
    <2>1. seen' = [seen EXCEPT ![p] = base + max[p]] /\ UNCHANGED <<base, queued, MyBackendId, pending, nummsgs>>
      BY DEF ReadReset, outsideReceive, historyVars
    <2>. QED
      BY <1>0, <2>1 DEF TypeOK
  <1>b. /\ s # 0 /\ s \in Slot /\ ~procState[s].sendOnly /\ Mine(p) = procState[s]
        /\ base \in Nat /\ queued \in Nat /\ max[p] \in Int
        /\ Top(p) \in Frame /\ \A i \in 1..Len(frames[p]) : frames[p][i].entry \in Nat
        /\ FetchOK(p) /\ EntriesOK(p) /\ PendingOK(p)
    BY <1>0, ReceiverFacts DEF DataOK
  <1>c. /\ procState'[s].nextMsgNum = max[p] /\ ~procState'[s].resetState
        /\ procState'[s].hasMessages = procState[s].hasMessages
    BY <1>0, ResetFacts
  <1>1. Inside(p, f) /\ f.entry = Top(p).entry /\ f.at = "end"
    BY <1>0, <1>b, ResetControl DEF Frame
  <1>. HIDE DEF f
  <1>2. /\ at'[p] = "receive" /\ Top(p)' = f
        /\ \A i \in 1..Len(frames'[p]) : i \in 1..Len(frames[p]) /\ frames'[p][i].entry = frames[p][i].entry
    BY <1>0, <1>1, InsideFrames
  <1>3. Getting(p) /\ ~Getting(p)' /\ ~Reader(p)'
    BY <1>0, <1>1, <1>2 DEF Getting, Reader
  <1>4. pending[p] = <<>> /\ Len(pending[p]) = 0
    BY <1>b, <1>3 DEF PendingOK
  <1>5. /\ ~procState[s].hasMessages => base + max[p] >= queued
        /\ \A i \in 1..Len(frames[p]) : frames[p][i].entry <= base + max[p] /\ frames[p][i].entry <= queued
    BY <1>0, <1>b DEF FetchOK, EntriesOK
  <1>. HIDE DEF s
  <1>6. GapOK(p)'
    <2>1. base + procState'[s].nextMsgNum = seen'[p] + Len(pending[p])
      BY <1>a, <1>b, <1>c, <1>4
    <2>2. ASSUME NEW i \in DOMAIN pending[p] PROVE FALSE
      BY <1>4
    <2>. QED
      BY <1>a, <2>1, <2>2 DEF GapOK, s
  <1>7. FlagOK(p)'
    BY <1>a, <1>c, <1>5 DEF FlagOK, s
  <1>8. EntriesOK(p)'
    <2>. SUFFICES ASSUME NEW i \in 1..Len(frames'[p])
                  PROVE  /\ frames'[p][i].entry <= queued
                         /\ seen'[p] >= frames'[p][i].entry
                         /\ seen'[p] + Len(pending[p]) >= frames'[p][i].entry
      BY <1>a DEF EntriesOK
    <2>1. /\ frames'[p][i].entry = frames[p][i].entry /\ frames[p][i].entry \in Nat
          /\ frames[p][i].entry <= base + max[p] /\ frames[p][i].entry <= queued
      BY <1>b, <1>2, <1>5
    <2>. QED
      BY <1>a, <1>b, <1>4, <2>1
  <1>9. FetchOK(p)' /\ PendingOK(p)'
    BY <1>1, <1>2, <1>3 DEF FetchOK, PendingOK
  <1>. QED
    BY <1>6, <1>7, <1>8, <1>9 DEF DataOK

\* A backend that is gone has no messages to deal with.
LEMMA GoneData ==
  ASSUME Inv, NEW p \in Backend, ControlOK(p), at'[p] = "gone", MyBackendId'[p] = 0
  PROVE  DataOK(p)'
  <1>1. frames'[p] = <<>>
    BY DEF ControlOK, FramesRight
  <1>2. EntriesOK(p)'
    BY <1>1 DEF EntriesOK
  <1>. QED
    BY <1>2 DEF DataOK, FetchOK, PendingOK, GapOK, FlagOK, Getting

\* A backend that joins has read everything there is.
LEMMA JoinData ==
  ASSUME Inv, NEW p \in Backend, NEW b \in BOOLEAN, SharedInvalBackendInit(p, b)
  PROVE  DataOK(p)'
  <1>0. TypeOK /\ FramesRight /\ InterruptsRight /\ SlotsRight /\ DataOK(p)
    BY DataRight DEF Inv
  <1>a. Outside(p, {"start"}, {"idle", "gone"})
    BY <1>0, OutsideControl
  <1>b. UNCHANGED <<base, queued, maxMsgNum, pending>> /\ at[p] = "start"
    BY DEF SharedInvalBackendInit, historyVars
  <1>1. CASE at'[p] = "gone" /\ UNCHANGED MyBackendId
    BY <1>0, <1>a, <1>b, <1>1, GoneData DEF Outside, SlotsRight
  <1>2. CASE \E s \in Slot : Joins(p, b, s)
    <2>1. PICK s \in Slot : Joins(p, b, s)
      BY <1>2
    <2>2. /\ MyBackendId'[p] = s /\ seen'[p] = base + maxMsgNum /\ at'[p] = "idle"
          /\ procState'[s].nextMsgNum = maxMsgNum /\ ~procState'[s].resetState
      BY <1>0, <2>1 DEF Joins, TypeOK
    <2>3. pending[p] = <<>> /\ Len(pending[p]) = 0
      BY <1>0, <1>b DEF DataOK, PendingOK
    <2>4. base \in Nat /\ maxMsgNum \in Int /\ queued \in Nat /\ base + maxMsgNum >= queued
      BY <1>0 DEF TypeOK, Inv, QueuedRight
    <2>5. frames'[p] = <<>>
      BY <1>a, <2>2 DEF Outside, ControlOK, FramesRight
    <2>6. EntriesOK(p)'
      BY <2>5 DEF EntriesOK
    <2>7. GapOK(p)'
      <3>1. ASSUME NEW i \in DOMAIN pending[p] PROVE FALSE
        BY <2>3
      <3>2. base + procState'[s].nextMsgNum = seen'[p] + Len(pending[p])
        BY <2>2, <2>3, <2>4
      <3>. QED
        BY <1>b, <2>2, <3>1, <3>2 DEF GapOK
    <2>8. FlagOK(p)'
      BY <1>b, <2>2, <2>4 DEF FlagOK
    <2>. QED
      BY <2>2, <2>6, <2>7, <2>8 DEF DataOK, FetchOK, PendingOK, Getting
  <1>. QED
    BY <1>0, <1>1, <1>2, JoinFacts

\* The messages of the backend that makes the step stay right.
LEMMA OwnData ==
  ASSUME Inv, NEW p \in Backend, Step(p)
  PROVE  DataOK(p)'
  <1>0. TypeOK /\ FramesRight /\ InterruptsRight /\ SlotsRight /\ DataOK(p)
    BY DataRight DEF Inv
  <1>1. CASE \E b \in BOOLEAN : SharedInvalBackendInit(p, b)
    BY <1>1, JoinData
  <1>2. CASE CleanupInvalidationState(p)
    <2>1. Outside(p, {"idle"}, {"gone"})
      BY <1>0, <1>2, OutsideControl
    <2>2. MyBackendId'[p] = 0
      BY <1>0, <1>2 DEF CleanupInvalidationState, TypeOK
    <2>. QED
      BY <2>1, <2>2, GoneData DEF Outside
  <1>3. CASE Idles(p)
    <2>1. LocalsKept(p) /\ MovesClear(p)
      BY <1>0, <1>3, IdlesLocals, IdlesClear DEF DataOK
    <2>2. TypeOK'
      BY TypeStep DEF Inv
    <2>3. queued <= queued'
      BY QueuedStep DEF Inv
    <2>4. Quiet(p) \/ CleanInRound(p) \/ CleanAfterReceive(p) \/ PublishMax(p) \/ Kick(p)
      BY <1>3 DEF Idles, Quiet
    <2>5. MyBackendId[p] # 0 => SlotUndisturbed(p)
      BY <2>4, Undisturbed DEF Inv
    <2>6. /\ queued' \in Int /\ base' \in Int /\ minMsgNum' \in Int /\ maxMsgNum' \in Int
          /\ procState' \in [Slot -> ProcStates] /\ frames' \in [Backend -> Seq(Frame)]
      BY <2>2, TypesAfter
    <2>. QED
      BY <1>0, <2>1, <2>3, <2>5, <2>6, DataKept
  <1>4. CASE TakeMessage(p)
    BY <1>4, TakeData
  <1>5. CASE LoopEnd(p)
    BY <1>5, LoopEndData
  <1>6. CASE SIGetDataEntries(p)
    BY <1>6, GetData, GetNoneData
  <1>7. CASE FetchMax(p)
    BY <1>7, FetchData
  <1>8. CASE ReadEntries(p)
    BY <1>8, ReadData
  <1>9. CASE ReadReset(p)
    BY <1>9, ResetData
  <1>. QED
    BY <1>1, <1>2, <1>3, <1>4, <1>5, <1>6, <1>7, <1>8, <1>9 DEF Step, Idles
-----------------------------------------------------------------------------
(* The invariant, and what it implies.                                     *)

\* CreateSharedInvalidationState establishes the invariant.
LEMMA InitInv ==
  ASSUME Init
  PROVE  Inv /\ VirtualXidUnique
  <1>0. /\ \A p \in Backend : /\ at[p] = "start" /\ frames[p] = <<>> /\ MyBackendId[p] = 0 /\ pending[p] = <<>>
                              /\ ~catchupInterruptEnabled[p]
        /\ \A s \in Slot : procState[s] = FreeProcState
        /\ minMsgNum = 0 /\ maxMsgNum = 0 /\ base = 0 /\ queued = 0 /\ lxids = {}
    BY DEF Init
  <1>1. FreeProcState \in ProcStates
    BY DEF FreeProcState, ProcStates
  <1>2. TypeOK
    <2>1. /\ lwlocks \in [Backend -> [{"SInvalWriteLock", "SInvalReadLock"} -> {"none", EX, SH}]]
      BY DEF Init, LW!Init
    <2>2. at \in [Backend -> Place] /\ frames \in [Backend -> Seq(Frame)] /\ pending \in [Backend -> Seq(Int)]
      BY EmptySeq DEF Init, Place
    <2>3. procState \in [Slot -> ProcStates]
      BY <1>1 DEF Init
    <2>4. buffer \in [0..(MAXNUMMESSAGES - 1) -> Int]
      BY DEF Init
    <2>5. /\ minMsgNum \in Int /\ maxMsgNum \in Int /\ nextThreshold \in Nat
          /\ lastBackend \in 0..MaxBackends /\ MyBackendId \in [Backend -> 0..MaxBackends]
          /\ n \in [Backend -> Nat] /\ nthistime \in [Backend -> 0..WRITE_QUANTUM]
          /\ nummsgs \in [Backend -> 0..MAXINVALMSGS]
          /\ max \in [Backend -> Int] /\ seen \in [Backend -> Int] /\ nextLocalTransactionId \in [Backend -> Nat]
          /\ base \in Nat /\ queued \in Nat /\ receives \in Nat
      BY DEF Init
    <2>6. /\ sig \in [Backend -> Backend \cup {NULL}]
          /\ sigusr1 \in [Backend -> BOOLEAN] /\ interrupted \in [Backend -> {NULL, "test", "disable", "wait"}]
          /\ catchupInterruptEnabled \in [Backend -> BOOLEAN] /\ catchupInterruptOccurred \in [Backend -> BOOLEAN]
          /\ lxids \subseteq Slot \X Nat \X Backend
      BY DEF Init
    <2>. QED
      BY <2>1, <2>2, <2>3, <2>4, <2>5, <2>6 DEF TypeOK
  <1>3. \A s \in Slot : ~Active(s)
    BY <1>0 DEF Active, FreeProcState
  <1>4. SlotsRight
    BY <1>0, <1>3 DEF SlotsRight
  <1>5. FramesRight /\ InterruptsRight /\ NoSleepOnInterrupt
    BY <1>0 DEF FramesRight, InterruptsRight, NoSleepOnInterrupt
  <1>6. LocksRight
    BY <1>0 DEF LocksRight, Writer, Reader, Init, LW!Init
  <1>7. CountersOrdered
    BY <1>0, <1>3 DEF CountersOrdered, Reading
  <1>8. QueueRight /\ QueuedRight
    BY <1>0 DEF QueueRight, QueuedRight
  <1>9. ASSUME NEW p \in Backend PROVE DataOK(p)
    BY <1>0 DEF DataOK, FetchOK, PendingOK, GapOK, FlagOK, EntriesOK, Getting
  <1>10. LxidsRight /\ VirtualXidUnique
    BY <1>0 DEF LxidsRight, VirtualXidUnique
  <1>. QED
    BY <1>2, <1>4, <1>5, <1>6, <1>7, <1>8, <1>9, <1>10, DataRight DEF Inv

\* Every step keeps it.
LEMMA StepInv ==
  ASSUME Inv, NEW p \in Backend, Step(p)
  PROVE  Inv'
  <1>. USE DEF Inv
  <1>1. TypeOK'
    BY TypeStep
  <1>2. FramesRight'
    BY ControlStep DEF ControlOK
  <1>3. SlotsRight' /\ LxidsRight'
    BY SlotStep
  <1>4. LocksRight'
    BY LockStep
  <1>5. InterruptsRight' /\ NoSleepOnInterrupt'
    BY InterruptStep
  <1>6. CountersOrdered' /\ QueueRight' /\ QueuedRight'
    BY CountersStep, QueueStep, QueuedStep
  <1>7. \A q \in Backend : DataOK(q)'
    BY OthersData, OwnData
  <1>8. FetchRight' /\ PendingRight' /\ NoGap' /\ FlagTells' /\ EntriesRight'
    <2>1. NoGap' <=> \A q \in Backend : GapOK(q)'
      BY DEF NoGap, GapOK
    <2>2. FlagTells' <=> \A q \in Backend : FlagOK(q)'
      BY DEF FlagTells, FlagOK, Reader
    <2>. QED
      BY <1>7, <2>1, <2>2 DEF DataOK, FetchRight, PendingRight, EntriesRight
  <1>. QED
    BY <1>1, <1>2, <1>3, <1>4, <1>5, <1>6, <1>8

\* A step that changes nothing does too.
LEMMA StutterInv ==
  ASSUME Inv, UNCHANGED vars
  PROVE  Inv'
  <1>. USE DEF vars, segVars, insertVars, receiveVars, interruptVars, lxidVars, historyVars
  <1>1. TypeOK'
    BY DEF Inv, TypeOK
  <1>2. \A p \in Backend : Top(p)' = Top(p) /\ Mine(p)' = Mine(p)
    BY DEF Top, Mine
  <1>3. /\ \A p \in Backend : /\ Writer(p)' <=> Writer(p)
                              /\ Reader(p)' <=> Reader(p)
                              /\ Getting(p)' <=> Getting(p)
        /\ \A s : (Active(s)' <=> Active(s)) /\ (Reading(s)' <=> Reading(s))
    BY DEF Writer, Reader, Getting, Top, Active, Reading
  <1>4. SlotsRight' /\ FramesRight' /\ LocksRight' /\ InterruptsRight'
    BY <1>2, <1>3 DEF Inv, SlotsRight, FramesRight, LocksRight, InterruptsRight
  <1>5. NoSleepOnInterrupt' /\ CountersOrdered' /\ QueueRight' /\ QueuedRight'
    BY <1>3 DEF Inv, NoSleepOnInterrupt, CountersOrdered, QueueRight, QueuedRight
  <1>6. FetchRight' /\ PendingRight' /\ EntriesRight'
    BY <1>2, <1>3 DEF Inv, FetchRight, FetchOK, PendingRight, PendingOK, EntriesRight, EntriesOK
  <1>7. NoGap' /\ FlagTells'
    BY <1>2 DEF Inv, NoGap, FlagTells
  <1>8. LxidsRight'
    BY <1>3 DEF Inv, LxidsRight
  <1>. QED
    BY <1>1, <1>4, <1>5, <1>6, <1>7, <1>8 DEF Inv

\* A local id that is handed out is new for the slot.
LEMMA UniqueStep ==
  ASSUME Inv, VirtualXidUnique, [Next]_vars
  PROVE  VirtualXidUnique'
  <1>1. CASE UNCHANGED lxids
    BY <1>1 DEF VirtualXidUnique
  <1>2. ASSUME NEW p \in Backend, Step(p) PROVE VirtualXidUnique'
    <2>1. CASE GetNextLocalTransactionId(p)
      <3>1. PICK result \in Nat : /\ lxids' = lxids \cup {<<MyBackendId[p], result, p>>}
                                  /\ \A x \in lxids : x[1] = MyBackendId[p] => x[2] # result
        BY <2>1, LxidTaken DEF Inv
      <3>. QED
        BY <3>1 DEF VirtualXidUnique
    <2>2. CASE ~GetNextLocalTransactionId(p)
      <3>1. UNCHANGED lxids
        BY <1>2, <2>2, HoldersStep DEF Inv, SharedInvalBackendInit, CleanupInvalidationState, lxidVars
      <3>. QED
        BY <1>1, <3>1
    <2>. QED
      BY <2>1, <2>2
  <1>3. CASE UNCHANGED vars
    BY <1>1, <1>3 DEF vars, lxidVars
  <1>. QED
    BY <1>2, <1>3, NextSteps

\* The inductive invariant holds in every reachable state.
THEOREM Invariance == Spec => [](Inv /\ VirtualXidUnique)
  <1>1. Init => Inv /\ VirtualXidUnique
    BY InitInv
  <1>2. Inv /\ VirtualXidUnique /\ [Next]_vars => (Inv /\ VirtualXidUnique)'
    <2>1. Inv /\ [Next]_vars => Inv'
      BY NextSteps, StepInv, StutterInv
    <2>2. Inv /\ VirtualXidUnique /\ [Next]_vars => VirtualXidUnique'
      BY UniqueStep
    <2>. QED
      BY <2>1, <2>2
  <1>. QED
    BY <1>1, <1>2, PTL DEF Spec

\* The variables of the queue and of the backends keep their types.
THEOREM TypeCorrect == Spec => []TypeOK
  BY Invariance, PTL DEF Inv

\* SICleanupQueue, SIInsertDataEntries and SIGetDataEntries keep the counters in
\* order: minMsgNum <= nextMsgNum <= maxMsgNum <= minMsgNum + MAXNUMMESSAGES.
THEOREM CountersCorrect == Spec => []CountersOrdered
  BY Invariance, PTL DEF Inv

\* SIInsertDataEntries overwrites no message that a backend still has to read.
THEOREM UnreadIntactCorrect == Spec => []UnreadIntact
  <1>1. Inv => UnreadIntact
    <2>. SUFFICES ASSUME Inv, NEW s \in Slot, Reading(s),
                         NEW m \in procState[s].nextMsgNum..(maxMsgNum - 1)
                  PROVE  buffer[m % MAXNUMMESSAGES] = base + m
      BY DEF UnreadIntact
    <2>1. minMsgNum \in Int /\ maxMsgNum \in Int /\ procState[s] \in ProcStates
      BY DEF Inv, TypeOK
    <2>2. procState[s].nextMsgNum \in Int
      BY <2>1 DEF ProcStates
    <2>3. minMsgNum <= procState[s].nextMsgNum
      BY DEF Inv, CountersOrdered
    <2>4. m \in minMsgNum..(maxMsgNum - 1)
      BY <2>1, <2>2, <2>3
    <2>. QED
      BY <2>4 DEF Inv, QueueRight
  <1>. QED
    BY <1>1, Invariance, PTL

\* A backend deals with the messages in the order they were sent, without a gap,
\* unless a reset covers them.
THEOREM NoGapCorrect == Spec => []NoGap
  BY Invariance, PTL DEF Inv

\* When ReceiveSharedInvalidMessages is done, every message queued before the call
\* has been dealt with, in recursive calls too.
THEOREM ReceiveCompleteCorrect == Spec => []ReceiveComplete
  <1>1. Inv => ReceiveComplete
    <2>. SUFFICES ASSUME Inv, NEW p \in Backend, at[p] = "receive", Top(p).at = "end"
                  PROVE  seen[p] >= Top(p).entry
      BY DEF ReceiveComplete
    <2>1. Len(frames[p]) \in 1..Len(frames[p]) /\ Top(p) = frames[p][Len(frames[p])] /\ EntriesOK(p)
      BY ReceiverFacts DEF DataOK
    <2>. QED
      BY <2>1 DEF EntriesOK
  <1>. QED
    BY <1>1, Invariance, PTL

\* The unlocked test of hasMessages in SIGetDataEntries is safe: a backend whose flag
\* is down has read what is queued, and is not to be reset.
THEOREM FlagTellsCorrect == Spec => []FlagTells
  BY Invariance, PTL DEF Inv

\* No virtual transaction id is handed out twice, also not by successive holders of
\* a slot.
THEOREM VirtualXidUniqueCorrect == Spec => []VirtualXidUnique
  BY Invariance, PTL

\* While the catchup handler is enabled, the backend neither receives nor inserts
\* and holds no lock of the queue.
THEOREM NoReentranceCorrect == Spec => []NoReentrance
  <1>1. Inv => NoReentrance
    <2>. SUFFICES ASSUME Inv, NEW p \in Backend, catchupInterruptEnabled[p]
                  PROVE  /\ frames[p] = <<>> /\ at[p] \in {"test", "disable", "wait"}
                         /\ \A l \in DOMAIN lwlocks[p] : lwlocks[p][l] = "none"
      BY DEF NoReentrance
    <2>1. at[p] \in {"test", "disable", "wait"}
      BY DEF Inv, InterruptsRight
    <2>2. frames[p] = <<>>
      BY <2>1 DEF Inv, FramesRight
    <2>3. lwlocks[p]["SInvalWriteLock"] = "none" /\ lwlocks[p]["SInvalReadLock"] = "none"
      BY <2>1 DEF Inv, LocksRight, Writer, Reader
    <2>4. DOMAIN lwlocks[p] = {"SInvalWriteLock", "SInvalReadLock"}
      BY DEF Inv, TypeOK
    <2>. QED
      BY <2>1, <2>2, <2>3, <2>4
  <1>. QED
    BY <1>1, Invariance, PTL

\* A backend does not wait for its client with an event noted and not processed.
THEOREM NoSleepCorrect == Spec => []NoSleepOnInterrupt
  BY Invariance, PTL DEF Inv
=============================================================================

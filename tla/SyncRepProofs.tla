--------------------------- MODULE SyncRepProofs ---------------------------
(***************************************************************************)
(* Theorems about SyncRep.  The inductive invariant Inv follows a backend  *)
(* from its commit through the queue to its answer: what its place says    *)
(* about its PGPROC, why it may be marked complete, and what the holder of *)
(* SyncRepLock still owes to the queues it has to wake.                    *)
(***************************************************************************)
EXTENDS SyncRep, WellFoundedInduction, TLAPS

WaitLoop == {"reset", "test", "interrupts", "wait", "cancel"}
BackendPlace == WaitLoop \cup {"idle", "commit", "leave", "exit", "gone", "crashed"}
LockedPlace == {"wake", "delete", "latch"}

\* Every process is at a place of its own program.
PlacesRight ==
  /\ \A p \in Backend : at[p] \in BackendPlace
  /\ \A s \in Standby : at[s] \in LockedPlace \cup {"down", "startup", "loop", "release"}
  /\ at[Checkpointer] \in LockedPlace \cup {"update", "loop"}

\* Who holds the lock, and what it has in hand.
LockRight ==
  \A w \in Waker :
    /\ SyncRepLock = w <=> at[w] \in LockedPlace
    /\ thisproc[w] # NULL <=> at[w] \in {"delete", "latch"}
    /\ todo[w] # <<>> => at[w] \in LockedPlace
    /\ at[w] \in {"delete", "latch"} => todo[w] # <<>>

\* A connected walsender has a slot, in it a priority from its configuration, and
\* when it is about to release waiters the positions of its standby.
SlotRight(s) ==
  /\ MyWalSnd[s] = 0 <=> at[s] = "down"
  /\ MyWalSnd[s] # 0 => MyWal(s).pid = s
  /\ at[s] \notin {"down", "startup"} =>
       MyWal(s).sync_standby_priority = SyncRepGetStandbyPriority(s, conf[s])
  /\ at[s] = "release" => MyWal(s).write <= written[s] /\ MyWal(s).flush <= flushed[s]
SlotsRight == \A s \in Standby : SlotRight(s)

\* A standby flushes what it has, and has had what it has.
StandbysRight == \A s \in Standby : flushed[s] <= received[s] /\ received[s] <= written[s]

\* What has been confirmed is on a synchronous standby.
LsnReplicated == \A m \in Mode : lsn[m] > 0 => Replicated(lsn[m], m)

\* Commit records have positions of their own.
CommitsRight ==
  \A p \in Backend :
    /\ XactCommitLSN[p] <= flushedUpto
    /\ at[p] \in WaitLoop \cup {"commit", "leave"} => XactCommitLSN[p] > 0
    /\ \A q \in Backend : p # q /\ XactCommitLSN[p] > 0 => XactCommitLSN[p] # XactCommitLSN[q]

\* What the place of a backend says about its PGPROC and its answer.
StateRight(p) ==
  /\ at[p] \in {"idle", "commit", "exit", "gone", "crashed"} => syncRepState[p] = "NOT_WAITING"
  /\ at[p] \in WaitLoop =>
       /\ syncRepState[p] \in {"WAITING", "WAIT_COMPLETE"}
       /\ waitLSN[p] = XactCommitLSN[p] /\ mode[p] \in Mode
  /\ at[p] = "cancel" => outcome[p] # "none"
  /\ at[p] = "leave" =>
       /\ mode[p] \in Mode
       /\ outcome[p] = "none" => syncRepState[p] = "WAIT_COMPLETE"
StatesRight == \A p \in Backend : StateRight(p)

\* A wait is complete because the position was confirmed, or nobody is to be
\* waited for any more.
CompleteRight(p) ==
  syncRepState[p] = "WAIT_COMPLETE" => excused[p] \/ XactCommitLSN[p] <= lsn[mode[p]]
CompletesRight == \A p \in Backend : CompleteRight(p)

\* AckReplicated for one backend.
AckRight(p) == outcome[p] = "acked" /\ ~excused[p] => Replicated(XactCommitLSN[p], mode[p])

\* The backend is marked, and not yet off its queue.
Marked(p) == \E w \in Waker : at[w] = "delete" /\ thisproc[w] = p

\* Whoever is queued waits, in the queue of its mode, unless it has been marked.
QueuedRight ==
  \A m \in Mode : \A i \in DOMAIN SyncRepQueue[m] :
    LET p == SyncRepQueue[m][i] IN
    ~Marked(p) => at[p] \in WaitLoop /\ syncRepState[p] = "WAITING" /\ mode[p] = m

\* The marked backend is the first of the queue that is being woken.
MarkedRight ==
  \A w \in Waker : at[w] = "delete" =>
    /\ SyncRepQueue[Head(todo[w])] # <<>>
    /\ thisproc[w] = SyncRepQueue[Head(todo[w])][1]

\* Nobody is queued twice.
QueuedOnce ==
  \A m, n \in Mode : \A i \in DOMAIN SyncRepQueue[m], j \in DOMAIN SyncRepQueue[n] :
    SyncRepQueue[m][i] = SyncRepQueue[n][j] => m = n /\ i = j

\* The queues are sorted, whoever holds the lock.
Sorted ==
  \A m \in Mode : \A i, j \in DOMAIN SyncRepQueue[m] :
    i < j => waitLSN[SyncRepQueue[m][i]] < waitLSN[SyncRepQueue[m][j]]

\* A process has still to wake the queue of a mode.
Owes(w, m) == \E i \in DOMAIN todo[w] : todo[w][i] = m

\* Confirmed waiters are on a queue that is to be woken ...
NoneForgotten ==
  \A m \in Mode : \A i \in DOMAIN SyncRepQueue[m] :
    waitLSN[SyncRepQueue[m][i]] > lsn[m] \/ \E w \in Waker : Owes(w, m)

\* ... and all waiters are, as soon as no standby is asked for; each has its excuse.
NoneFutile ==
  \A m \in Mode : SyncRepQueue[m] # <<>> => sync_standbys_defined \/ Owes(Checkpointer, m)
AllExcused ==
  at[Checkpointer] \in LockedPlace =>
    \A m \in Mode : \A i \in DOMAIN SyncRepQueue[m] :
      Marked(SyncRepQueue[m][i]) \/ excused[SyncRepQueue[m][i]]

\* From the test of its state on, a backend is told of a change by its latch.
LatchRight(p) ==
  /\ at[p] \in {"interrupts", "wait"} /\ ~procLatch[p] /\ syncRepState[p] = "WAIT_COMPLETE" =>
       \E w \in Waker : thisproc[w] = p
  /\ at[p] = "wait" /\ ~procLatch[p] => ~ProcDiePending[p] /\ ~QueryCancelPending[p]
LatchTells == \A p \in Backend : LatchRight(p)

Inv ==
  /\ TypeOK /\ PlacesRight /\ LockRight /\ SlotsRight /\ StandbysRight /\ LsnReplicated
  /\ CommitsRight /\ StatesRight /\ CompletesRight /\ QueuedRight /\ MarkedRight /\ QueuedOnce
  /\ Sorted /\ NoneForgotten /\ NoneFutile /\ AllExcused /\ LatchTells /\ AckReplicated
-----------------------------------------------------------------------------
(* Facts about queues and lists of names.                                  *)

\* A set of naturals that is not empty has a least element.
LEMMA NatMin ==
  ASSUME NEW S \in SUBSET Nat, S # {}
  PROVE  \E x \in S : \A y \in S : x <= y
  <1>1. PICK x \in S : \A y \in S : ~(<<y, x>> \in OpToRel(<, Nat))
    BY NatLessThanWellFounded, WFMin, Zenon
  <1>2. \A y \in S : ~(y < x)
    BY <1>1, Zenon DEF OpToRel
  <1>. QED
    BY <1>2

\* A bounded set of naturals that is not empty has a greatest element.
LEMMA NatMax ==
  ASSUME NEW n \in Nat, NEW S \in SUBSET (0..n), S # {}
  PROVE  \E x \in S : \A y \in S : y <= x
  <1>. DEFINE T == {n - x : x \in S}
  <1>1. T \in SUBSET Nat /\ T # {}
    OBVIOUS
  <1>2. PICK t \in T : \A u \in T : t <= u
    BY <1>1, NatMin, Zenon
  <1>3. PICK x \in S : t = n - x
    BY <1>2, Zenon
  <1>4. \A y \in S : n - x <= n - y
    BY <1>2, <1>3
  <1>. QED
    BY <1>4

LEMMA ConcatLen ==
  ASSUME NEW S
  PROVE  \A a, b \in Seq(S) : a \o b \in Seq(S) /\ Len(a \o b) = Len(a) + Len(b)
  OBVIOUS

LEMMA ConcatLeft ==
  ASSUME NEW S
  PROVE  \A a, b \in Seq(S) : \A j \in 1..Len(a) : (a \o b)[j] = a[j]
  OBVIOUS

LEMMA ConcatRight ==
  ASSUME NEW S
  PROVE  \A a, b \in Seq(S) : \A j \in 1..Len(b) : (a \o b)[Len(a) + j] = b[j]
  OBVIOUS

\* SHMQueueDelete leaves the others in their order, and if the backend is queued
\* only once, without it.
LEMMA WithoutFacts ==
  ASSUME NEW S, NEW q \in Seq(S), NEW p
  PROVE  /\ Without(q, p) \in Seq(S)
         /\ \E g \in [DOMAIN Without(q, p) -> DOMAIN q] :
              /\ \A j \in DOMAIN Without(q, p) : Without(q, p)[j] = q[g[j]]
              /\ \A i, j \in DOMAIN Without(q, p) : i < j => g[i] < g[j]
              /\ (\A i, j \in DOMAIN q : q[i] = q[j] => i = j) =>
                   \A j \in DOMAIN Without(q, p) : q[g[j]] # p
  <1>1. CASE \A i \in DOMAIN q : q[i] # p
    <2>1. Without(q, p) = q
      BY <1>1 DEF Without
    <2>2. [j \in DOMAIN q |-> j] \in [DOMAIN q -> DOMAIN q]
      OBVIOUS
    <2>. QED
      BY <1>1, <2>1, <2>2
  <1>2. CASE \E i \in DOMAIN q : q[i] = p
    <2>. DEFINE k == CHOOSE i \in DOMAIN q : q[i] = p
                w == SubSeq(q, 1, k - 1) \o SubSeq(q, k + 1, Len(q))
                g == [j \in 1..(Len(q) - 1) |-> IF j < k THEN j ELSE j + 1]
    <2>1. k \in 1..Len(q) /\ q[k] = p
      BY <1>2
    <2>2. Without(q, p) = w
      BY <1>2 DEF Without
    <2>. HIDE DEF k
    <2>3. /\ SubSeq(q, 1, k - 1) \in Seq(S) /\ Len(SubSeq(q, 1, k - 1)) = k - 1
          /\ \A j \in 1..(k - 1) : SubSeq(q, 1, k - 1)[j] = q[j]
      BY <2>1
    <2>4. /\ SubSeq(q, k + 1, Len(q)) \in Seq(S) /\ Len(SubSeq(q, k + 1, Len(q))) = Len(q) - k
          /\ \A j \in 1..(Len(q) - k) : SubSeq(q, k + 1, Len(q))[j] = q[k + j]
      BY <2>1
    <2>a. /\ w \in Seq(S) /\ Len(w) = Len(q) - 1
          /\ \A j \in 1..(k - 1) : w[j] = q[j]
          /\ \A j \in 1..(Len(q) - k) : w[k - 1 + j] = q[k + j]
      <3>. DEFINE a == SubSeq(q, 1, k - 1)
                  b == SubSeq(q, k + 1, Len(q))
      <3>1. w = a \o b
        OBVIOUS
      <3>2. /\ a \in Seq(S) /\ b \in Seq(S) /\ Len(a) = k - 1 /\ Len(b) = Len(q) - k
            /\ \A j \in 1..(k - 1) : a[j] = q[j]
            /\ \A j \in 1..(Len(q) - k) : b[j] = q[k + j]
        BY <2>3, <2>4
      <3>. HIDE DEF w, a, b
      <3>3. a \o b \in Seq(S) /\ Len(a \o b) = Len(a) + Len(b)
        BY <3>2, ConcatLen, Zenon
      <3>4. \A j \in 1..Len(a) : (a \o b)[j] = a[j]
        BY <3>2, ConcatLeft, Zenon
      <3>5. \A j \in 1..Len(b) : (a \o b)[Len(a) + j] = b[j]
        BY <3>2, ConcatRight
      <3>6. w \in Seq(S) /\ Len(w) = Len(q) - 1
        BY <2>1, <3>1, <3>2, <3>3
      <3>7. \A j \in 1..(k - 1) : w[j] = q[j]
        BY <3>1, <3>2, <3>4, Zenon
      <3>8. \A j \in 1..(Len(q) - k) : w[k - 1 + j] = q[k + j]
        BY <3>1, <3>2, <3>5, Zenon
      <3>. QED
        BY <3>6, <3>7, <3>8
    <2>5. /\ w \in Seq(S) /\ Len(w) = Len(q) - 1
          /\ \A j \in 1..(Len(q) - 1) : w[j] = IF j < k THEN q[j] ELSE q[j + 1]
      <3>. HIDE DEF w
      <3>1. \A j \in 1..(Len(q) - 1) : ~(j < k) => w[j] = q[j + 1]
        <4>1. SUFFICES ASSUME NEW j \in 1..(Len(q) - 1), ~(j < k) PROVE w[j] = q[j + 1]
          OBVIOUS
        <4>2. j - k + 1 \in 1..(Len(q) - k) /\ k - 1 + (j - k + 1) = j /\ k + (j - k + 1) = j + 1
          BY <2>1, <4>1
        <4>. QED
          BY <2>a, <4>2
      <3>2. \A j \in 1..(Len(q) - 1) : j < k => j \in 1..(k - 1)
        BY <2>1
      <3>3. \A j \in 1..(Len(q) - 1) : j < k => w[j] = q[j]
        BY <2>a, <3>2, Zenon
      <3>4. \A j \in 1..(Len(q) - 1) : w[j] = IF j < k THEN q[j] ELSE q[j + 1]
        BY <3>1, <3>3, Zenon
      <3>. QED
        BY <2>a, <3>4, Zenon
    <2>. HIDE DEF w
    <2>6. DOMAIN w = 1..(Len(q) - 1)
      BY <2>5
    <2>7. g \in [DOMAIN w -> DOMAIN q]
      BY <2>1, <2>6
    <2>8. \A j \in DOMAIN w : w[j] = q[g[j]] /\ g[j] # k /\ g[j] \in DOMAIN q
      BY <2>1, <2>5, <2>6
    <2>9. \A i, j \in DOMAIN w : i < j => g[i] < g[j]
      BY <2>1, <2>6
    <2>. HIDE DEF g
    <2>. QED
      BY <2>1, <2>2, <2>5, <2>7, <2>8, <2>9
  <1>. QED
    BY <1>1, <1>2

Inserted(q, k, p) == SubSeq(q, 1, k) \o <<p>> \o SubSeq(q, k + 1, Len(q))

LEMMA InsertedFacts ==
  ASSUME NEW S, NEW q \in Seq(S), NEW k \in 0..Len(q), NEW p \in S
  PROVE  /\ Inserted(q, k, p) \in Seq(S) /\ Len(Inserted(q, k, p)) = Len(q) + 1
         /\ \A j \in 1..(Len(q) + 1) :
              Inserted(q, k, p)[j] = IF j <= k THEN q[j] ELSE IF j = k + 1 THEN p ELSE q[j - 1]
  <1>1. /\ SubSeq(q, 1, k) \in Seq(S) /\ Len(SubSeq(q, 1, k)) = k
        /\ \A j \in 1..k : SubSeq(q, 1, k)[j] = q[j]
    OBVIOUS
  <1>2. /\ SubSeq(q, k + 1, Len(q)) \in Seq(S) /\ Len(SubSeq(q, k + 1, Len(q))) = Len(q) - k
        /\ \A j \in 1..(Len(q) - k) : SubSeq(q, k + 1, Len(q))[j] = q[k + j]
    OBVIOUS
  <1>3. /\ <<p>> \in Seq(S) /\ Len(<<p>>) = 1 /\ <<p>>[1] = p
    OBVIOUS
  <1>. DEFINE a == SubSeq(q, 1, k)
              b == <<p>>
              c == SubSeq(q, k + 1, Len(q))
  <1>. HIDE DEF a, b, c
  <1>4. /\ a \o b \in Seq(S) /\ Len(a \o b) = k + 1
        /\ \A j \in 1..(k + 1) : (a \o b)[j] = IF j <= k THEN q[j] ELSE p
    BY <1>1, <1>3 DEF a, b
  <1>. DEFINE d == a \o b
  <1>. HIDE DEF d
  <1>5. /\ d \o c \in Seq(S) /\ Len(d \o c) = Len(q) + 1
        /\ \A j \in 1..(Len(q) + 1) :
             (d \o c)[j] = IF j <= k THEN q[j] ELSE IF j = k + 1 THEN p ELSE q[j - 1]
    <2>1. d \in Seq(S) /\ c \in Seq(S) /\ Len(d) = k + 1 /\ Len(c) = Len(q) - k
      BY <1>2, <1>4 DEF c, d
    <2>a. d \o c \in Seq(S) /\ Len(d \o c) = Len(d) + Len(c)
      BY <2>1, ConcatLen, Zenon
    <2>b. \A j \in 1..Len(d) : (d \o c)[j] = d[j]
      BY <2>1, ConcatLeft, Zenon
    <2>c. \A j \in 1..Len(c) : (d \o c)[Len(d) + j] = c[j]
      BY <2>1, ConcatRight, Zenon
    <2>3. \A j \in 1..(k + 1) : d[j] = IF j <= k THEN q[j] ELSE p
      BY <1>4 DEF d
    <2>4. \A j \in 1..(Len(q) - k) : c[j] = q[k + j]
      BY <1>2 DEF c
    <2>5. \A j \in 1..(Len(q) + 1) : j > k + 1 => (d \o c)[j] = q[j - 1]
      <3>1. SUFFICES ASSUME NEW j \in 1..(Len(q) + 1), j > k + 1 PROVE (d \o c)[j] = q[j - 1]
        OBVIOUS
      <3>2. j - k - 1 \in 1..(Len(q) - k) /\ k + 1 + (j - k - 1) = j /\ k + (j - k - 1) = j - 1
        BY <3>1
      <3>. QED
        <4>1. (d \o c)[Len(d) + (j - k - 1)] = c[j - k - 1]
          BY <2>1, <2>c, <3>2, Zenon
        <4>2. c[j - k - 1] = q[k + (j - k - 1)]
          BY <2>4, <3>2, Zenon
        <4>. QED
          BY <2>1, <3>2, <4>1, <4>2, Zenon
    <2>. QED
      BY <2>1, <2>a, <2>b, <2>3, <2>5
  <1>. QED
    BY <1>5 DEF a, b, c, d, Inserted

\* The priority of a standby is a natural number, and positive only for one that
\* some configuration names.
LEMMA PriorityFacts ==
  ASSUME NEW s \in Standby, NEW c \in Configs
  PROVE  /\ SyncRepGetStandbyPriority(s, c) \in Nat
         /\ SyncRepGetStandbyPriority(s, c) > 0 => s \in Named
  <1>1. Fits(s, c) \in SUBSET Nat
    BY ConfigAssumption DEF Fits
  <1>2. SyncRepGetStandbyPriority(s, c) \in Nat
    <2>1. CASE Fits(s, c) # {}
      <3>1. \E i \in Fits(s, c) : \A j \in Fits(s, c) : i <= j
        BY <1>1, <2>1, NatMin, Zenon
      <3>2. SyncRepGetStandbyPriority(s, c) \in Fits(s, c)
        BY <2>1, <3>1, Zenon DEF SyncRepGetStandbyPriority
      <3>. QED
        BY <1>1, <3>2
    <2>. QED
      BY <2>1 DEF SyncRepGetStandbyPriority
  <1>. QED
    BY <1>2, Zenon DEF Named

\* In a sorted queue there is a waiter to go after.
LEMMA InsertionPointFacts ==
  ASSUME NEW q \in Seq(Backend), waitLSN \in [Backend -> Nat], NEW l \in Nat,
         \A i, j \in DOMAIN q : i < j => waitLSN[q[i]] < waitLSN[q[j]]
  PROVE  /\ InsertionPoint(q, l) \in 0..Len(q)
         /\ \A j \in 1..InsertionPoint(q, l) : waitLSN[q[j]] < l
         /\ \A j \in (InsertionPoint(q, l) + 1)..Len(q) : waitLSN[q[j]] >= l
  <1>. DEFINE S == {k \in 0..Len(q) : k > 0 => waitLSN[q[k]] < l}
              P(k) == /\ k > 0 => waitLSN[q[k]] < l
                      /\ \A j \in (k + 1)..Len(q) : waitLSN[q[j]] >= l
  <1>1. Len(q) \in Nat /\ S \in SUBSET (0..Len(q)) /\ 0 \in S
    OBVIOUS
  <1>2. PICK k \in S : \A j \in S : j <= k
    <2>. HIDE DEF S
    <2>. QED
      BY <1>1, NatMax
  <1>3. k \in 0..Len(q) /\ P(k)
    <2>1. \A j \in (k + 1)..Len(q) : waitLSN[q[j]] >= l
      <3>1. SUFFICES ASSUME NEW j \in (k + 1)..Len(q), ~(waitLSN[q[j]] >= l) PROVE FALSE
        OBVIOUS
      <3>2. j \in 1..Len(q) /\ waitLSN[q[j]] \in Nat /\ j > k
        BY <1>2
      <3>3. j \in S
        BY <3>1, <3>2
      <3>. QED
        BY <1>2, <3>2, <3>3
    <2>. QED
      BY <1>2, <2>1
  <1>4. InsertionPoint(q, l) = CHOOSE i \in 0..Len(q) : P(i)
    BY DEF InsertionPoint
  <1>5. InsertionPoint(q, l) \in 0..Len(q) /\ P(InsertionPoint(q, l))
    <2>. HIDE DEF P
    <2>. QED
      BY <1>3, <1>4, Zenon
  <1>. DEFINE n == InsertionPoint(q, l)
  <1>6. n \in 0..Len(q) /\ P(n)
    BY <1>5
  <1>. HIDE DEF n
  <1>7. \A j \in 1..n : waitLSN[q[j]] < l
    <2>1. SUFFICES ASSUME NEW j \in 1..n PROVE waitLSN[q[j]] < l
      OBVIOUS
    <2>2. j \in DOMAIN q /\ n \in DOMAIN q /\ n > 0 /\ waitLSN[q[j]] \in Nat /\ waitLSN[q[n]] \in Nat
      BY <1>6
    <2>3. j = n \/ waitLSN[q[j]] < waitLSN[q[n]]
      BY <2>2
    <2>. QED
      BY <1>6, <2>2, <2>3
  <1>. QED
    BY <1>6, <1>7 DEF n
-----------------------------------------------------------------------------
(* Types.                                                                  *)

USE DEF shmemVars, procVars, configVars, xactVars, interruptVars, wakeVars, standbyVars,
        boundVars, ackVars, backendLoopUnchanged, walUnchanged, wakeUnchanged

WalSnd ==
  [pid : Standby \cup {NULL}, state : {"STARTUP", "CATCHUP", "STREAMING"},
   sync_standby_priority : Nat, sentPtr : Nat, write : Nat, flush : Nat]

\* A walsender that is connected has a slot.
LEMMA OwnSlot ==
  ASSUME TypeOK, SlotsRight, NEW s \in Standby, at[s] # "down"
  PROVE  MyWalSnd[s] \in Slot /\ MyWal(s) = walsnds[MyWalSnd[s]] /\ MyWal(s) \in WalSnd /\ MyWal(s).pid = s
  BY DEF TypeOK, SlotsRight, SlotRight, MyWal, WalSnd

\* A walsender's update of its slot.
LEMMA SetMyWalType ==
  ASSUME TypeOK, SlotsRight, NEW s \in Standby, at[s] # "down", NEW r \in WalSnd, SetMyWal(s, r)
  PROVE  walsnds' \in [Slot -> WalSnd]
  BY OwnSlot DEF TypeOK, SetMyWal, WalSnd

LEMMA DeleteType ==
  ASSUME TypeOK, NEW p
  PROVE  Delete(p) \in [Mode -> Seq(Backend)]
  <1>1. \A m \in Mode : Without(SyncRepQueue[m], p) \in Seq(Backend)
    BY WithoutFacts DEF TypeOK
  <1>. QED
    BY <1>1 DEF Delete

\* The two ways through SyncRepWaitForLSN up to the wait loop: back to the client,
\* or into a queue.
waitUnchanged ==
  <<sync_standbys_defined, lsn, walsnds, procLatch, SyncRepLock, configVars, xactVars,
    interruptVars, MyWalSnd, wakeVars, flushedUpto, standbyVars, PostmasterIsAlive, boundVars>>

Answer(p) ==
  /\ at[p] = "commit" /\ Goto(p, "idle") /\ outcome' = [outcome EXCEPT ![p] = "acked"]
  /\ excused' \in [Backend -> BOOLEAN] /\ \A b \in Backend : b # p => excused'[b] = excused[b]
  /\ excused'[p] \/ (mode[p] \in Mode /\ XactCommitLSN[p] <= lsn[mode[p]])
  /\ UNCHANGED <<SyncRepQueue, waitLSN, syncRepState, waitUnchanged>>

Enqueue(p) ==
  /\ at[p] = "commit" /\ Goto(p, "reset") /\ mode[p] \in Mode
  /\ Free /\ sync_standbys_defined /\ ~(XactCommitLSN[p] <= lsn[mode[p]])
  /\ waitLSN' = [waitLSN EXCEPT ![p] = XactCommitLSN[p]]
  /\ syncRepState' = [syncRepState EXCEPT ![p] = "WAITING"]
  /\ SyncRepQueueInsert(p, mode[p])
  /\ UNCHANGED <<outcome, excused, waitUnchanged>>

USE DEF waitUnchanged

LEMMA WaitCases ==
  ASSUME TypeOK, NEW p \in Backend, SyncRepWaitForLSN(p)
  PROVE  Answer(p) \/ Enqueue(p)
  <1>0. excused \in [Backend -> BOOLEAN] /\ excused[p] \in BOOLEAN /\ sync_standbys_defined \in BOOLEAN
    BY DEF TypeOK
  <1>1. CASE /\ mode[p] = SYNC_REP_NO_WAIT \/ conf[p] = <<>>
             /\ excused' = [excused EXCEPT ![p] = TRUE] /\ Acknowledge(p, "acked")
             /\ Goto(p, "idle") /\ UNCHANGED <<SyncRepQueue, waitLSN, syncRepState>>
    <2>1. /\ excused' \in [Backend -> BOOLEAN] /\ excused'[p]
          /\ \A b \in Backend : b # p => excused'[b] = excused[b]
      BY <1>0, <1>1
    <2>. QED
      <3>1. at[p] = "commit" /\ UNCHANGED waitUnchanged
        BY DEF SyncRepWaitForLSN
      <3>2. outcome' = [outcome EXCEPT ![p] = "acked"] /\ UNCHANGED <<SyncRepQueue, waitLSN, syncRepState, waitUnchanged>>
        BY <1>1, <3>1 DEF Acknowledge
      <3>. QED
        BY <1>1, <2>1, <3>1, <3>2, Zenon DEF Answer
  <1>2. CASE /\ mode[p] # SYNC_REP_NO_WAIT /\ Free
             /\ excused' = [excused EXCEPT ![p] = @ \/ ~sync_standbys_defined]
             /\ NoNeedToWait(p) /\ Acknowledge(p, "acked")
             /\ Goto(p, "idle") /\ UNCHANGED <<SyncRepQueue, waitLSN, syncRepState>>
    <2>1. /\ excused' \in [Backend -> BOOLEAN]
          /\ \A b \in Backend : b # p => excused'[b] = excused[b]
          /\ ~sync_standbys_defined => excused'[p]
      BY <1>0, <1>2
    <2>2. mode[p] \in Mode
      BY <1>2 DEF TypeOK
    <2>3. excused'[p] \/ XactCommitLSN[p] <= lsn[mode[p]]
      BY <1>2, <2>1, Zenon DEF NoNeedToWait
    <2>. QED
      <3>1. at[p] = "commit" /\ UNCHANGED waitUnchanged
        BY DEF SyncRepWaitForLSN
      <3>2. outcome' = [outcome EXCEPT ![p] = "acked"] /\ UNCHANGED <<SyncRepQueue, waitLSN, syncRepState, waitUnchanged>>
        BY <1>2, <3>1 DEF Acknowledge
      <3>. QED
        BY <1>2, <2>1, <2>2, <2>3, <3>1, <3>2, Zenon DEF Answer
  <1>3. CASE /\ mode[p] # SYNC_REP_NO_WAIT /\ Free
             /\ excused' = [excused EXCEPT ![p] = @ \/ ~sync_standbys_defined]
             /\ ~NoNeedToWait(p)
             /\ waitLSN' = [waitLSN EXCEPT ![p] = XactCommitLSN[p]]
             /\ syncRepState' = [syncRepState EXCEPT ![p] = "WAITING"]
             /\ SyncRepQueueInsert(p, mode[p])
             /\ Goto(p, "reset") /\ UNCHANGED outcome
    <2>1. sync_standbys_defined /\ ~(XactCommitLSN[p] <= lsn[mode[p]])
      BY <1>3, Zenon DEF NoNeedToWait
    <2>2. excused' = excused
      BY <1>0, <1>3, <2>1
    <2>3. mode[p] \in Mode
      BY <1>3 DEF TypeOK
    <2>. QED
      BY <1>3, <2>1, <2>2, <2>3 DEF Enqueue, SyncRepWaitForLSN
  <1>. QED
    BY <1>1, <1>2, <1>3, Zenon DEF SyncRepWaitForLSN

LEMMA TypeBackend ==
  ASSUME Inv, NEW p \in Backend,
         \/ \E m \in CommitModes : Commit(p, m)
         \/ SyncRepWaitForLSN(p) \/ LookAtState(p) \/ CheckInterrupts(p) \/ WaitLatch(p)
         \/ SyncRepCancelWait(p) \/ Leave(p) \/ DeleteAtProcExit(p)
         \/ Interrupt(p) \/ SyncRepCleanupAtProcExit(p)
  PROVE  TypeOK'
  <1>0. TypeOK /\ p \in Process
    BY DEF Inv, Process
  <1>. USE <1>0 DEF Goto
  <1>1. ASSUME NEW m \in CommitModes, Commit(p, m) PROVE TypeOK'
    BY <1>1, ConfigAssumption DEF TypeOK, Commit
  <1>2. CASE SyncRepWaitForLSN(p)
    <2>1. CASE Answer(p)
      <3>1. outcome' \in [Backend -> {"none", "acked", "warned", "terminated"}]
        BY <2>1 DEF Answer, TypeOK
      <3>. QED
        BY <2>1, <3>1 DEF TypeOK, Answer
    <2>2. CASE Enqueue(p)
      <3>. DEFINE m == mode[p]
                  q == SyncRepQueue[m]
                  k == InsertionPoint(q, XactCommitLSN[p])
      <3>1. m \in Mode /\ q \in Seq(Backend) /\ XactCommitLSN[p] \in Nat
        BY <2>2 DEF TypeOK, Enqueue
      <3>2. k \in 0..Len(q)
        BY <3>1, InsertionPointFacts DEF Inv, TypeOK, Sorted
      <3>3. Inserted(q, k, p) \in Seq(Backend)
        <4>. HIDE DEF q, k
        <4>. QED
          BY <3>1, <3>2, InsertedFacts
      <3>4. SyncRepQueue' = [SyncRepQueue EXCEPT ![m] = Inserted(q, k, p)]
        BY <2>2 DEF Enqueue, SyncRepQueueInsert, Inserted
      <3>. HIDE DEF m, q, k
      <3>5. SyncRepQueue' \in [Mode -> Seq(Backend)]
        BY <3>1, <3>3, <3>4 DEF TypeOK
      <3>. QED
        BY <2>2, <3>5 DEF TypeOK, Enqueue
    <2>. QED
      BY <1>2, <2>1, <2>2, WaitCases
  <1>3. CASE LookAtState(p)
    BY <1>3 DEF TypeOK, LookAtState, ResetThenTest
  <1>4. CASE CheckInterrupts(p)
    BY <1>4 DEF TypeOK, CheckInterrupts, Acknowledge
  <1>5. CASE WaitLatch(p)
    BY <1>5 DEF TypeOK, WaitLatch
  <1>6. CASE SyncRepCancelWait(p)
    BY <1>6, DeleteType DEF TypeOK, SyncRepCancelWait, CancelDelete
  <1>7. CASE Leave(p)
    BY <1>7 DEF TypeOK, Leave
  <1>8. CASE DeleteAtProcExit(p)
    BY <1>8, DeleteType DEF TypeOK, DeleteAtProcExit
  <1>9. CASE Interrupt(p)
    <2>1. /\ ProcDiePending' \in [Backend -> BOOLEAN] /\ QueryCancelPending' \in [Backend -> BOOLEAN]
          /\ procLatch' \in [Backend -> BOOLEAN]
      BY <1>9 DEF TypeOK, Interrupt
    <2>. QED
      BY <1>9, <2>1 DEF TypeOK, Interrupt
  <1>10. CASE SyncRepCleanupAtProcExit(p)
    BY <1>10 DEF TypeOK, SyncRepCleanupAtProcExit
  <1>. QED
    BY <1>1, <1>2, <1>3, <1>4, <1>5, <1>6, <1>7, <1>8, <1>9, <1>10

LEMMA TypeStandby ==
  ASSUME Inv, NEW s \in Standby, Stream(s) \/ Receive(s) \/ Flush(s) \/ WalSndKill(s)
  PROVE  TypeOK'
  <1>0. TypeOK /\ SlotsRight /\ s \in Process /\ s \in Waker
    BY DEF Inv, Process, Waker
  <1>. USE <1>0 DEF Goto
  <1>1. CASE InitWalSenderSlot(s)
    <2>1. PICK i \in Slot : /\ walsnds' = [walsnds EXCEPT ![i].pid = s, ![i].sentPtr = 0, ![i].state = "STARTUP"]
                            /\ MyWalSnd' = [MyWalSnd EXCEPT ![s] = i]
      BY <1>1 DEF InitWalSenderSlot
    <2>2. walsnds' \in [Slot -> WalSnd]
      <3>1. walsnds \in [Slot -> WalSnd]
        BY DEF TypeOK, WalSnd
      <3>2. [walsnds[i] EXCEPT !.pid = s, !.sentPtr = 0, !.state = "STARTUP"] \in WalSnd
        BY <3>1 DEF WalSnd
      <3>3. walsnds' = [walsnds EXCEPT ![i] = [walsnds[i] EXCEPT !.pid = s, !.sentPtr = 0, !.state = "STARTUP"]]
        BY <2>1, <3>1
      <3>. QED
        BY <3>1, <3>2, <3>3
    <2>. QED
      BY <1>1, <2>1, <2>2 DEF TypeOK, InitWalSenderSlot, WalSnd
  <1>2. CASE StartReplication(s)
    <2>. DEFINE r == [MyWal(s) EXCEPT !.state = "CATCHUP", !.sentPtr = received[s],
                        !.sync_standby_priority = SyncRepGetStandbyPriority(s, conf[s])]
    <2>1. at[s] # "down" /\ SetMyWal(s, r)
      BY <1>2 DEF StartReplication
    <2>2. SyncRepGetStandbyPriority(s, conf[s]) \in Nat
      BY PriorityFacts DEF TypeOK
    <2>3. r \in WalSnd
      <3>1. MyWal(s) \in WalSnd /\ received[s] \in Nat
        BY <2>1, OwnSlot DEF TypeOK
      <3>. QED
        BY <2>2, <3>1 DEF WalSnd
    <2>. HIDE DEF r
    <2>4. walsnds' \in [Slot -> WalSnd]
      BY <2>1, <2>3, SetMyWalType
    <2>. QED
      BY <1>2, <2>4 DEF TypeOK, StartReplication, WalSnd
  <1>3. CASE SyncRepInitConfig(s)
    <2>. DEFINE r == [MyWal(s) EXCEPT !.sync_standby_priority = SyncRepGetStandbyPriority(s, names)]
    <2>1. at[s] # "down" /\ SetMyWal(s, r)
      BY <1>3 DEF SyncRepInitConfig
    <2>2. SyncRepGetStandbyPriority(s, names) \in Nat
      BY PriorityFacts DEF TypeOK
    <2>3. r \in WalSnd
      <3>1. MyWal(s) \in WalSnd /\ received[s] \in Nat
        BY <2>1, OwnSlot DEF TypeOK
      <3>. QED
        BY <2>2, <3>1 DEF WalSnd
    <2>. HIDE DEF r
    <2>4. walsnds' \in [Slot -> WalSnd]
      BY <2>1, <2>3, SetMyWalType
    <2>. QED
      BY <1>3, <2>4 DEF TypeOK, SyncRepInitConfig, WalSnd
  <1>4. CASE XLogSendPhysical(s)
    <2>0. at[s] # "down"
      BY <1>4 DEF XLogSendPhysical
    <2>1. MyWal(s) \in WalSnd
      BY <2>0, OwnSlot
    <2>2. PICK k \in MyWal(s).sentPtr..flushedUpto :
            SetMyWal(s, [MyWal(s) EXCEPT !.sentPtr = k,
                           !.state = IF @ = "CATCHUP" /\ k = flushedUpto THEN "STREAMING" ELSE @])
      BY <1>4 DEF XLogSendPhysical
    <2>. DEFINE r == [MyWal(s) EXCEPT !.sentPtr = k,
                        !.state = IF @ = "CATCHUP" /\ k = flushedUpto THEN "STREAMING" ELSE @]
    <2>3. k \in Nat
      BY <2>1 DEF WalSnd, TypeOK
    <2>4. r \in WalSnd /\ SetMyWal(s, r)
      BY <2>1, <2>2, <2>3 DEF WalSnd
    <2>. HIDE DEF r
    <2>5. walsnds' \in [Slot -> WalSnd]
      BY <2>0, <2>4, SetMyWalType
    <2>. QED
      BY <1>4, <2>5 DEF TypeOK, XLogSendPhysical, WalSnd
  <1>5. CASE ProcessStandbyReplyMessage(s)
    <2>. DEFINE r == [MyWal(s) EXCEPT !.write = received[s], !.flush = flushed[s]]
    <2>1. at[s] # "down" /\ SetMyWal(s, r)
      BY <1>5 DEF ProcessStandbyReplyMessage
    <2>2. r \in WalSnd
      <3>1. MyWal(s) \in WalSnd /\ received[s] \in Nat /\ flushed[s] \in Nat
        BY <2>1, OwnSlot DEF TypeOK
      <3>. QED
        BY <3>1 DEF WalSnd
    <2>. HIDE DEF r
    <2>3. walsnds' \in [Slot -> WalSnd]
      BY <2>1, <2>2, SetMyWalType
    <2>. QED
      BY <1>5, <2>3 DEF TypeOK, ProcessStandbyReplyMessage, WalSnd
  <1>6. CASE SyncRepReleaseWaiters(s)
    <2>0. at[s] # "down"
      BY <1>6 DEF SyncRepReleaseWaiters
    <2>1. \A m \in Mode : Position(s, m) \in Nat
      BY <2>0, OwnSlot DEF Position, WalSnd, Mode
    <2>2. \A m \in Mode : Advanced(s, m) \in Seq(Mode)
      BY DEF Advanced
    <2>3. Advanced(s, SYNC_REP_WAIT_WRITE) \o Advanced(s, SYNC_REP_WAIT_FLUSH) \in Seq(Mode)
      BY <2>2 DEF Mode
    <2>4. lsn' \in [Mode -> Nat]
      BY <1>6, <2>1 DEF TypeOK, SyncRepReleaseWaiters
    <2>5. todo' \in [Waker -> Seq(Mode)]
      BY <1>6, <2>3 DEF TypeOK, SyncRepReleaseWaiters
    <2>. QED
      BY <1>6, <2>4, <2>5 DEF TypeOK, SyncRepReleaseWaiters, StartWaking
  <1>7. CASE Receive(s)
    BY <1>7 DEF TypeOK, Receive
  <1>8. CASE Flush(s)
    BY <1>8 DEF TypeOK, Flush
  <1>9. CASE WalSndKill(s)
    <2>. DEFINE r == [MyWal(s) EXCEPT !.pid = NULL]
    <2>1. at[s] # "down" /\ SetMyWal(s, r)
      BY <1>9 DEF WalSndKill
    <2>2. r \in WalSnd
      BY <2>1, OwnSlot DEF WalSnd
    <2>. HIDE DEF r
    <2>3. walsnds' \in [Slot -> WalSnd]
      BY <2>1, <2>2, SetMyWalType
    <2>4. received' \in [Standby -> Nat]
      BY <1>9 DEF TypeOK, WalSndKill
    <2>. QED
      BY <1>9, <2>3, <2>4 DEF TypeOK, WalSndKill, WalSnd
  <1>. QED
    BY <1>1, <1>2, <1>3, <1>4, <1>5, <1>6, <1>7, <1>8, <1>9 DEF Stream

\* The three ways through SyncRepUpdateSyncStandbysDefined.
definedUnchanged ==
  <<lsn, SyncRepQueue, walsnds, procVars, configVars, xactVars, interruptVars, MyWalSnd,
    thisproc, flushedUpto, standbyVars, PostmasterIsAlive, boundVars, outcome>>

KeepDefined ==
  /\ at[Checkpointer] = "update" /\ Goto(Checkpointer, "loop")
  /\ UNCHANGED <<sync_standbys_defined, todo, SyncRepLock, excused, definedUnchanged>>

TurnOn ==
  /\ at[Checkpointer] = "update" /\ Free /\ Goto(Checkpointer, "loop")
  /\ sync_standbys_defined' = TRUE
  /\ todo' = [todo EXCEPT ![Checkpointer] = <<>>]
  /\ UNCHANGED <<SyncRepLock, excused, definedUnchanged>>

TurnOff ==
  /\ at[Checkpointer] = "update" /\ Free /\ Goto(Checkpointer, "wake")
  /\ sync_standbys_defined' = FALSE /\ SyncRepLock' = Checkpointer
  /\ todo' = [todo EXCEPT ![Checkpointer] = <<SYNC_REP_WAIT_WRITE, SYNC_REP_WAIT_FLUSH>>]
  /\ excused' \in [Backend -> BOOLEAN]
  /\ \A p \in Backend : excused[p] \/ Committing(p) => excused'[p]
  /\ UNCHANGED definedUnchanged

USE DEF definedUnchanged

LEMMA DefinedCases ==
  ASSUME TypeOK, SyncRepUpdateSyncStandbysDefined
  PROVE  KeepDefined \/ TurnOn \/ TurnOff
  <1>. DEFINE defined == conf[Checkpointer] # <<>>
  <1>0. /\ excused \in [Backend -> BOOLEAN] /\ sync_standbys_defined \in BOOLEAN
        /\ todo \in [Waker -> Seq(Mode)] /\ Checkpointer \in Waker
    BY DEF TypeOK, Waker
  <1>1. CASE defined = sync_standbys_defined
    BY <1>0, <1>1 DEF SyncRepUpdateSyncStandbysDefined, KeepDefined
  <1>2. CASE defined # sync_standbys_defined /\ defined
    <2>1. /\ excused' = [p \in Backend |-> excused[p] \/ (Committing(p) /\ ~defined)]
          /\ todo' = [todo EXCEPT ![Checkpointer] = QueuesToWake(defined)]
          /\ sync_standbys_defined' = defined /\ StartWaking(Checkpointer) /\ Free
          /\ at[Checkpointer] = "update" /\ UNCHANGED definedUnchanged
      BY <1>2, Zenon DEF SyncRepUpdateSyncStandbysDefined
    <2>2. excused' = excused
      BY <1>0, <1>2, <2>1
    <2>3. QueuesToWake(defined) = <<>> /\ defined = TRUE
      BY <1>2 DEF QueuesToWake
    <2>4. todo'[Checkpointer] = <<>>
      BY <1>0, <2>1, <2>3
    <2>. QED
      BY <2>1, <2>2, <2>3, <2>4 DEF TurnOn, StartWaking
  <1>3. CASE defined # sync_standbys_defined /\ ~defined
    <2>1. /\ excused' = [p \in Backend |-> excused[p] \/ (Committing(p) /\ ~defined)]
          /\ todo' = [todo EXCEPT ![Checkpointer] = QueuesToWake(defined)]
          /\ sync_standbys_defined' = defined /\ StartWaking(Checkpointer) /\ Free
          /\ at[Checkpointer] = "update" /\ UNCHANGED definedUnchanged
      BY <1>3, Zenon DEF SyncRepUpdateSyncStandbysDefined
    <2>2. /\ excused' \in [Backend -> BOOLEAN]
          /\ \A p \in Backend : excused[p] \/ Committing(p) => excused'[p]
      BY <1>0, <1>3, <2>1
    <2>3. QueuesToWake(defined) = <<SYNC_REP_WAIT_WRITE, SYNC_REP_WAIT_FLUSH>> /\ defined = FALSE
      BY <1>3 DEF QueuesToWake
    <2>4. todo'[Checkpointer] # <<>>
      <3>1. <<SYNC_REP_WAIT_WRITE, SYNC_REP_WAIT_FLUSH>> # <<>>
        OBVIOUS
      <3>. QED
        BY <1>0, <2>1, <2>3, <3>1, Zenon
    <2>. QED
      BY <2>1, <2>2, <2>3, <2>4 DEF TurnOff, StartWaking
  <1>. QED
    BY <1>1, <1>2, <1>3

\* The ways through SyncRepReleaseWaiters: with nothing to do, or to the queues.
releaseUnchanged ==
  <<sync_standbys_defined, SyncRepQueue, walsnds, procVars, configVars, xactVars,
    interruptVars, MyWalSnd, thisproc, flushedUpto, standbyVars, PostmasterIsAlive,
    boundVars, ackVars>>

NothingToRelease(s) ==
  /\ at[s] = "release" /\ Goto(s, "loop")
  /\ UNCHANGED <<lsn, SyncRepLock, todo, releaseUnchanged>>

Release(s) ==
  /\ at[s] = "release" /\ Free /\ Candidate(MyWalSnd[s])
  /\ lsn' = [m \in Mode |-> IF lsn[m] < Position(s, m) THEN Position(s, m) ELSE lsn[m]]
  /\ todo' = [todo EXCEPT ![s] =
       Advanced(s, SYNC_REP_WAIT_WRITE) \o Advanced(s, SYNC_REP_WAIT_FLUSH)]
  /\ StartWaking(s)
  /\ UNCHANGED releaseUnchanged

USE DEF releaseUnchanged

LEMMA ReleaseCases ==
  ASSUME NEW s \in Standby, SyncRepReleaseWaiters(s)
  PROVE  NothingToRelease(s) \/ Release(s)
  BY DEF SyncRepReleaseWaiters, NothingToRelease, Release

\* The three steps of SyncRepWakeQueue's loop: done, the next backend, the next queue.
Unlock(w) ==
  /\ at[w] = "wake" /\ todo[w] = <<>> /\ SyncRepLock' = NULL /\ Goto(w, "loop")
  /\ UNCHANGED <<wakeUnchanged, SyncRepQueue, procLatch, syncRepState, wakeVars>>

Mark(w, p) ==
  /\ at[w] = "wake" /\ todo[w] # <<>> /\ Goto(w, "delete")
  /\ SyncRepQueue[Head(todo[w])] # <<>> /\ p = SyncRepQueue[Head(todo[w])][1]
  /\ w = Checkpointer \/ lsn[Head(todo[w])] >= waitLSN[p]
  /\ syncRepState' = [syncRepState EXCEPT ![p] = "WAIT_COMPLETE"]
  /\ thisproc' = [thisproc EXCEPT ![w] = p]
  /\ UNCHANGED <<wakeUnchanged, SyncRepQueue, procLatch, SyncRepLock, todo>>

NextQueue(w) ==
  /\ at[w] = "wake" /\ todo[w] # <<>>
  /\ \/ SyncRepQueue[Head(todo[w])] = <<>>
     \/ /\ w # Checkpointer
        /\ ~(lsn[Head(todo[w])] >= waitLSN[SyncRepQueue[Head(todo[w])][1]])
  /\ todo' = [todo EXCEPT ![w] = Tail(@)]
  /\ UNCHANGED <<wakeUnchanged, SyncRepQueue, procLatch, SyncRepLock, syncRepState, thisproc, at>>

LEMMA WakeCases ==
  ASSUME TypeOK, NEW w \in Waker, SyncRepWakeQueue(w)
  PROVE  Unlock(w) \/ (\E p \in Backend : Mark(w, p)) \/ NextQueue(w)
  <1>. DEFINE q == SyncRepQueue[Head(todo[w])]
  <1>1. CASE todo[w] = <<>>
    BY <1>1 DEF SyncRepWakeQueue, Unlock
  <1>2. CASE todo[w] # <<>> /\ q # <<>> /\ Wakes(w = Checkpointer, Head(todo[w]), q[1])
    <2>1. q[1] \in Backend
      BY <1>2 DEF TypeOK
    <2>2. Mark(w, q[1])
      BY <1>2 DEF SyncRepWakeQueue, Mark, Wakes
    <2>. QED
      BY <2>1, <2>2
  <1>3. CASE todo[w] # <<>> /\ ~(q # <<>> /\ Wakes(w = Checkpointer, Head(todo[w]), q[1]))
    BY <1>3 DEF SyncRepWakeQueue, NextQueue, Wakes
  <1>. QED
    BY <1>1, <1>2, <1>3

LEMMA TypeOthers ==
  ASSUME Inv,
         \/ \E w \in Waker : Wake(w)
         \/ \E c \in Configs : Reconfigure(c)
         \/ \E x \in Process : ProcessConfigFile(x)
         \/ SyncRepUpdateSyncStandbysDefined \/ PostmasterDeath
  PROVE  TypeOK'
  <1>0. TypeOK /\ Waker \subseteq Process /\ Checkpointer \in Waker
    BY DEF Inv, Process, Waker
  <1>. USE <1>0 DEF Goto
  <1>1. ASSUME NEW w \in Waker, SyncRepWakeQueue(w) PROVE TypeOK'
    <2>1. CASE Unlock(w)
      BY <2>1 DEF TypeOK, Unlock
    <2>2. ASSUME NEW p \in Backend, Mark(w, p) PROVE TypeOK'
      BY <2>2 DEF TypeOK, Mark
    <2>3. CASE NextQueue(w)
      <3>1. Tail(todo[w]) \in Seq(Mode)
        BY <2>3 DEF TypeOK, NextQueue
      <3>2. todo' \in [Waker -> Seq(Mode)]
        BY <2>3, <3>1 DEF TypeOK, NextQueue
      <3>. QED
        BY <2>3, <3>2 DEF TypeOK, NextQueue
    <2>. QED
      BY <1>1, <2>1, <2>2, <2>3, WakeCases
  <1>2. ASSUME NEW w \in Waker, WakeDelete(w) PROVE TypeOK'
    BY <1>2, DeleteType DEF TypeOK, WakeDelete
  <1>3. ASSUME NEW w \in Waker, WakeSetLatch(w) PROVE TypeOK'
    BY <1>3 DEF TypeOK, WakeSetLatch
  <1>4. ASSUME NEW c \in Configs, Reconfigure(c) PROVE TypeOK'
    BY <1>4 DEF TypeOK, Reconfigure
  <1>5. ASSUME NEW x \in Process, ProcessConfigFile(x) PROVE TypeOK'
    BY <1>5 DEF TypeOK, ProcessConfigFile
  <1>6. CASE SyncRepUpdateSyncStandbysDefined
    <2>1. CASE KeepDefined
      BY <2>1 DEF TypeOK, KeepDefined
    <2>2. CASE TurnOn
      BY <2>2 DEF TypeOK, TurnOn
    <2>3. CASE TurnOff
      <3>1. <<SYNC_REP_WAIT_WRITE, SYNC_REP_WAIT_FLUSH>> \in Seq(Mode)
        BY DEF Mode
      <3>. QED
        BY <2>3, <3>1 DEF TypeOK, TurnOff
    <2>. QED
      BY <1>6, <2>1, <2>2, <2>3, DefinedCases
  <1>7. CASE PostmasterDeath
    BY <1>7 DEF TypeOK, PostmasterDeath
  <1>. QED
    BY <1>1, <1>2, <1>3, <1>4, <1>5, <1>6, <1>7 DEF Wake
-----------------------------------------------------------------------------
(* Places, the lock, the slots and what has been confirmed.                *)

BackendAction(p) ==
  \/ \E m \in CommitModes : Commit(p, m)
  \/ Answer(p) \/ Enqueue(p) \/ LookAtState(p) \/ CheckInterrupts(p) \/ WaitLatch(p)
  \/ SyncRepCancelWait(p) \/ Leave(p) \/ DeleteAtProcExit(p)
  \/ Interrupt(p) \/ SyncRepCleanupAtProcExit(p)

\* A backend moves itself only, and leaves the walsenders' state alone.
LEMMA BackendMoves ==
  ASSUME Inv, NEW p \in Backend, BackendAction(p)
  PROVE  /\ \E x \in BackendPlace : at' = [at EXCEPT ![p] = x]
         /\ UNCHANGED <<SyncRepLock, todo, thisproc, lsn, sync_standbys_defined, walsnds,
                        MyWalSnd, conf, names, received, flushed, written>>
  <1>0. at = [at EXCEPT ![p] = at[p]] /\ p \in Process /\ at[p] \in BackendPlace
    BY DEF Inv, TypeOK, Process, PlacesRight
  <1>1. at' = [at EXCEPT ![p] = at[p]] \/ \E x \in BackendPlace : Goto(p, x)
    <2>1. CASE \E m \in CommitModes : Commit(p, m)
      BY <2>1 DEF Commit, BackendPlace
    <2>2. CASE Answer(p) \/ Enqueue(p)
      BY <2>2 DEF Answer, Enqueue, BackendPlace, WaitLoop
    <2>3. CASE LookAtState(p)
      BY <2>3 DEF LookAtState, ResetThenTest, BackendPlace, WaitLoop
    <2>4. CASE CheckInterrupts(p)
      BY <2>4 DEF CheckInterrupts, BackendPlace, WaitLoop
    <2>5. CASE WaitLatch(p)
      BY <2>5 DEF WaitLatch, BackendPlace, WaitLoop
    <2>6. CASE SyncRepCancelWait(p)
      BY <2>6 DEF SyncRepCancelWait, BackendPlace
    <2>7. CASE Leave(p)
      BY <2>7 DEF Leave, BackendPlace
    <2>8. CASE DeleteAtProcExit(p)
      BY <2>8 DEF DeleteAtProcExit, BackendPlace
    <2>9. CASE Interrupt(p)
      BY <1>0, <2>9 DEF Interrupt
    <2>10. CASE SyncRepCleanupAtProcExit(p)
      BY <2>10 DEF SyncRepCleanupAtProcExit, BackendPlace
    <2>. QED
      BY <2>1, <2>2, <2>3, <2>4, <2>5, <2>6, <2>7, <2>8, <2>9, <2>10 DEF BackendAction
  <1>2. UNCHANGED <<SyncRepLock, todo, thisproc, lsn, sync_standbys_defined, walsnds,
                    MyWalSnd, conf, names, received, flushed, written>>
    BY DEF BackendAction, Commit, Answer, Enqueue, LookAtState, CheckInterrupts, WaitLatch,
           SyncRepCancelWait, Leave, DeleteAtProcExit, Interrupt, SyncRepCleanupAtProcExit
  <1>. QED
    BY <1>0, <1>1, <1>2 DEF Goto

LEMMA ControlBackend ==
  ASSUME Inv, NEW p \in Backend, BackendAction(p)
  PROVE  /\ \A x \in Process : x # p => at'[x] = at[x]
         /\ \A w \in Waker : at'[w] = at[w] /\ w # p /\ w \in Process
         /\ at'[p] \in BackendPlace
         /\ PlacesRight' /\ LockRight' /\ SlotsRight' /\ StandbysRight' /\ LsnReplicated'
  <1>1. PICK x \in BackendPlace : at' = [at EXCEPT ![p] = x]
    BY BackendMoves, Zenon
  <1>2. UNCHANGED <<SyncRepLock, todo, thisproc, lsn, sync_standbys_defined, walsnds,
                    MyWalSnd, conf, names, received, flushed, written>>
    BY BackendMoves, Zenon
  <1>3. /\ \A y \in Process : y # p => at'[y] = at[y]
        /\ at'[p] = x
    BY <1>1 DEF Inv, TypeOK, Process
  <1>4. \A w \in Waker : w \in Process /\ w # p
    BY ConfigAssumption DEF Waker, Process
  <1>5. \A w \in Waker : at'[w] = at[w]
    BY <1>3, <1>4
  <1>6. Checkpointer \in Waker /\ Standby \subseteq Waker /\ Backend \subseteq Process
    BY DEF Waker, Process
  <1>7. PlacesRight'
    BY <1>3, <1>5, <1>6 DEF Inv, PlacesRight
  <1>8. LockRight'
    BY <1>2, <1>5 DEF Inv, LockRight
  <1>9. SlotsRight'
    BY <1>2, <1>5, <1>6 DEF Inv, SlotsRight, SlotRight, MyWal
  <1>10. StandbysRight' /\ LsnReplicated'
    BY <1>2 DEF Inv, StandbysRight, LsnReplicated, Replicated
  <1>. QED
    BY <1>1, <1>3, <1>4, <1>5, <1>7, <1>8, <1>9, <1>10

\* A walsender's step leaves the slots of the others alone.
LEMMA OtherSlots ==
  ASSUME Inv, NEW s \in Standby, NEW t \in Standby, s # t,
         at'[t] = at[t], conf'[t] = conf[t], MyWalSnd'[t] = MyWalSnd[t],
         written'[t] >= written[t], flushed'[t] >= flushed[t],
         written'[t] \in Nat, flushed'[t] \in Nat,
         \A i \in Slot : i # MyWalSnd[s] => walsnds'[i] = walsnds[i],
         MyWalSnd[s] \in Slot /\ walsnds[MyWalSnd[s]].pid = s
  PROVE  SlotRight(t)'
  <1>1. CASE MyWalSnd[t] = 0
    <2>1. at[t] = "down"
      BY <1>1 DEF Inv, SlotsRight, SlotRight
    <2>. QED
      BY <1>1, <2>1 DEF SlotRight
  <1>2. CASE MyWalSnd[t] # 0
    <2>1. at[t] # "down" /\ MyWalSnd[t] \in Slot /\ walsnds[MyWalSnd[t]].pid = t
      BY <1>2 DEF Inv, TypeOK, SlotsRight, SlotRight, MyWal
    <2>2. MyWal(t)' = MyWal(t)
      BY <2>1 DEF MyWal
    <2>3. MyWal(t).write \in Nat /\ MyWal(t).flush \in Nat /\ written[t] \in Nat /\ flushed[t] \in Nat
      BY <2>1, OwnSlot DEF WalSnd, Inv, TypeOK
    <2>. QED
      BY <1>2, <2>1, <2>2, <2>3 DEF Inv, SlotsRight, SlotRight
  <1>. QED
    BY <1>1, <1>2

\* A standby only gets further, but for what it loses unflushed.
LEMMA StandbysMove ==
  ASSUME Inv, NEW s \in Standby,
         \/ Receive(s) \/ Flush(s) \/ WalSndKill(s) \/ UNCHANGED standbyVars
  PROVE  /\ StandbysRight'
         /\ \A t \in Standby : written'[t] >= written[t] /\ flushed'[t] >= flushed[t]
         /\ \A t \in Standby : written[t] \in Nat /\ flushed[t] \in Nat /\ received[t] \in Nat
         /\ \A t \in Standby : written'[t] \in Nat /\ flushed'[t] \in Nat
  <1>1. /\ received \in [Standby -> Nat] /\ flushed \in [Standby -> Nat] /\ written \in [Standby -> Nat]
        /\ \A t \in Standby : flushed[t] <= received[t] /\ received[t] <= written[t]
    BY DEF Inv, TypeOK, StandbysRight
  <1>2. CASE Receive(s)
    BY <1>1, <1>2 DEF Receive, StandbysRight
  <1>3. CASE Flush(s)
    BY <1>1, <1>3 DEF Flush, StandbysRight
  <1>4. CASE WalSndKill(s)
    <2>1. PICK k \in {received[s], flushed[s]} : received' = [received EXCEPT ![s] = k]
      BY <1>4 DEF WalSndKill
    <2>2. UNCHANGED <<flushed, written>>
      BY <1>4 DEF WalSndKill
    <2>. QED
      BY <1>1, <2>1, <2>2 DEF StandbysRight
  <1>5. CASE UNCHANGED standbyVars
    BY <1>1, <1>5 DEF StandbysRight
  <1>. QED
    BY <1>2, <1>3, <1>4, <1>5

\* What has been confirmed stays on a standby.
LEMMA ReplicatedStays ==
  ASSUME Inv, \A t \in Standby : /\ written'[t] >= written[t] /\ flushed'[t] >= flushed[t]
                                 /\ written'[t] \in Nat /\ flushed'[t] \in Nat,
         NEW l \in Nat, NEW m, Replicated(l, m)
  PROVE  Replicated(l, m)'
  <1>1. PICK s \in Named : IF m = SYNC_REP_WAIT_WRITE THEN written[s] >= l ELSE flushed[s] >= l
    BY DEF Replicated
  <1>2. s \in Standby /\ written[s] \in Nat /\ flushed[s] \in Nat
    BY DEF Named, Inv, TypeOK
  <1>3. IF m = SYNC_REP_WAIT_WRITE THEN written'[s] >= l ELSE flushed'[s] >= l
    BY <1>1, <1>2
  <1>. QED
    BY <1>3, Zenon DEF Replicated

\* The steps of a walsender outside SyncRepReleaseWaiters.
LEMMA ControlStream ==
  ASSUME Inv, TypeOK', NEW s \in Standby,
         \/ InitWalSenderSlot(s) \/ StartReplication(s) \/ SyncRepInitConfig(s)
         \/ XLogSendPhysical(s) \/ ProcessStandbyReplyMessage(s)
         \/ Receive(s) \/ Flush(s) \/ WalSndKill(s)
  PROVE  /\ PlacesRight' /\ LockRight' /\ SlotsRight' /\ StandbysRight' /\ LsnReplicated'
  <1>0. s \in Waker /\ s \in Process /\ s # Checkpointer /\ s \notin Backend
    BY ConfigAssumption DEF Waker, Process
  <1>a. at = [x \in Process |-> at[x]] /\ conf = [x \in Process |-> conf[x]]
    BY DEF Inv, TypeOK
  <1>1. StandbysRight' /\ \A t \in Standby : /\ written'[t] >= written[t] /\ flushed'[t] >= flushed[t]
                                             /\ written'[t] \in Nat /\ flushed'[t] \in Nat
                                             /\ written[t] \in Nat /\ flushed[t] \in Nat /\ received[t] \in Nat
    <2>1. Receive(s) \/ Flush(s) \/ WalSndKill(s) \/ UNCHANGED standbyVars
      BY DEF InitWalSenderSlot, StartReplication, SyncRepInitConfig, XLogSendPhysical, ProcessStandbyReplyMessage
    <2>. QED
      BY <2>1, StandbysMove
  <1>2. UNCHANGED <<SyncRepLock, todo, thisproc, lsn>>
    BY DEF InitWalSenderSlot, StartReplication, SyncRepInitConfig, XLogSendPhysical,
           ProcessStandbyReplyMessage, Receive, Flush, WalSndKill
  <1>3. LsnReplicated'
    <2>1. SUFFICES ASSUME NEW m \in Mode, lsn[m] > 0 PROVE Replicated(lsn[m], m)'
      BY <1>2 DEF LsnReplicated, Replicated
    <2>2. PICK l \in Nat : l = lsn[m]
      BY DEF Inv, TypeOK
    <2>3. Replicated(l, m)
      BY <2>1, <2>2 DEF Inv, LsnReplicated
    <2>4. Replicated(l, m)'
      BY <1>1, <2>3, ReplicatedStays
    <2>. QED
      BY <1>2, <2>2, <2>4 DEF Replicated
  <1>4. /\ \A x \in Process : x # s => at'[x] = at[x] /\ conf'[x] = conf[x]
        /\ \/ at'[s] = at[s]
           \/ /\ at[s] \in {"down", "startup", "loop"}
              /\ at'[s] \in {"down", "startup", "loop", "release"}
    <2>0. at = [x \in Process |-> at[x]] /\ conf = [x \in Process |-> conf[x]]
      BY <1>a
    <2>1. CASE InitWalSenderSlot(s)
      BY <1>0, <2>0, <2>1 DEF Goto, InitWalSenderSlot
    <2>2. CASE StartReplication(s)
      BY <1>0, <2>0, <2>2 DEF Goto, StartReplication
    <2>3. CASE SyncRepInitConfig(s)
      BY <1>0, <2>0, <2>3 DEF Goto, SyncRepInitConfig
    <2>4. CASE XLogSendPhysical(s)
      BY <1>0, <2>0, <2>4 DEF Goto, XLogSendPhysical
    <2>5. CASE ProcessStandbyReplyMessage(s)
      BY <1>0, <2>0, <2>5 DEF Goto, ProcessStandbyReplyMessage
    <2>6. CASE Receive(s) \/ Flush(s)
      BY <1>0, <2>0, <2>6 DEF Goto, Receive, Flush
    <2>7. CASE WalSndKill(s)
      BY <1>0, <2>0, <2>7 DEF Goto, WalSndKill
    <2>. QED
      BY <2>1, <2>2, <2>3, <2>4, <2>5, <2>6, <2>7
  <1>5. PlacesRight'
    BY <1>0, <1>4 DEF Inv, PlacesRight, Process, Waker
  <1>6. LockRight'
    BY <1>0, <1>2, <1>4 DEF Inv, LockRight, LockedPlace, Process
  <1>7. SlotsRight'
    <2>0. /\ MyWalSnd \in [Standby -> {0} \cup Slot] /\ \A t \in Standby : t \in Process
      BY DEF Inv, TypeOK, Process, Waker
    <2>1. CASE Receive(s) \/ Flush(s)
      <3>1. UNCHANGED <<walsnds, MyWalSnd, at, conf>>
        BY <2>1 DEF Receive, Flush
      <3>2. SUFFICES ASSUME NEW t \in Standby PROVE SlotRight(t)'
        BY DEF SlotsRight
      <3>3. CASE at[t] = "down"
        BY <3>1, <3>3 DEF Inv, SlotsRight, SlotRight
      <3>4. CASE at[t] # "down"
        <4>1. MyWal(t)' = MyWal(t) /\ MyWal(t).write \in Nat /\ MyWal(t).flush \in Nat
          BY <3>1, <3>4, OwnSlot DEF Inv, MyWal, WalSnd
        <4>. QED
          BY <1>1, <3>1, <4>1 DEF Inv, SlotsRight, SlotRight
      <3>. QED
        BY <3>3, <3>4
    <2>2. CASE InitWalSenderSlot(s)
      <3>1. PICK i \in Slot :
              /\ walsnds[i].pid = NULL
              /\ walsnds' = [walsnds EXCEPT ![i].pid = s, ![i].sentPtr = 0, ![i].state = "STARTUP"]
              /\ MyWalSnd' = [MyWalSnd EXCEPT ![s] = i]
        BY <2>2 DEF InitWalSenderSlot
      <3>2. at'[s] = "startup" /\ UNCHANGED standbyVars
        BY <1>0, <1>a, <2>2 DEF InitWalSenderSlot, Goto
      <3>3. i # 0 /\ walsnds'[i].pid = s /\ \A j \in Slot : j # i => walsnds'[j] = walsnds[j]
        <4>1. walsnds = [j \in Slot |-> walsnds[j]] /\ walsnds[i] \in WalSnd
          BY DEF Inv, TypeOK, WalSnd
        <4>2. walsnds' = [walsnds EXCEPT ![i] = [walsnds[i] EXCEPT !.pid = s, !.sentPtr = 0, !.state = "STARTUP"]]
          BY <3>1, <4>1
        <4>3. [walsnds[i] EXCEPT !.pid = s, !.sentPtr = 0, !.state = "STARTUP"].pid = s
          BY <4>1 DEF WalSnd
        <4>. QED
          <5>1. i # 0
            BY DEF Slot
          <5>2. walsnds'[i].pid = s
            BY <4>1, <4>2, <4>3
          <5>3. \A j \in Slot : j # i => walsnds'[j] = walsnds[j]
            BY <4>1, <4>2
          <5>. QED
            BY <5>1, <5>2, <5>3
      <3>4. SlotRight(s)'
        BY <2>0, <3>1, <3>2, <3>3 DEF SlotRight, MyWal
      <3>5. ASSUME NEW t \in Standby, t # s PROVE SlotRight(t)'
        <4>1. at'[t] = at[t] /\ conf'[t] = conf[t] /\ MyWalSnd'[t] = MyWalSnd[t]
          BY <1>4, <2>0, <3>1, <3>5
        <4>2. CASE at[t] = "down"
          BY <4>1, <4>2 DEF Inv, SlotsRight, SlotRight
        <4>3. CASE at[t] # "down"
          <5>1. MyWalSnd[t] \in Slot /\ walsnds[MyWalSnd[t]].pid = t /\ t # NULL
            BY <4>3, OwnSlot, ConfigAssumption DEF Inv, Process, Waker
          <5>2. MyWal(t)' = MyWal(t)
            BY <3>1, <3>3, <4>1, <5>1 DEF MyWal
          <5>. QED
            BY <3>2, <4>1, <5>2 DEF Inv, SlotsRight, SlotRight
        <4>. QED
          BY <4>2, <4>3
      <3>. QED
        BY <3>4, <3>5 DEF SlotsRight
    <2>3. CASE StartReplication(s) \/ SyncRepInitConfig(s) \/ XLogSendPhysical(s)
               \/ ProcessStandbyReplyMessage(s) \/ WalSndKill(s)
      <3>0. at[s] # "down"
        BY <2>3 DEF StartReplication, SyncRepInitConfig, XLogSendPhysical, ProcessStandbyReplyMessage, WalSndKill
      <3>1. /\ MyWalSnd[s] \in Slot /\ MyWal(s) = walsnds[MyWalSnd[s]] /\ MyWal(s).pid = s
            /\ MyWal(s) \in WalSnd /\ MyWalSnd[s] # 0
        BY <3>0, OwnSlot DEF Inv, Slot
      <3>2. \E r : walsnds' = [walsnds EXCEPT ![MyWalSnd[s]] = r]
        BY <2>3 DEF StartReplication, SyncRepInitConfig, XLogSendPhysical, ProcessStandbyReplyMessage,
                    WalSndKill, SetMyWal
      <3>3. \A i \in Slot : i # MyWalSnd[s] => walsnds'[i] = walsnds[i]
        BY <3>2 DEF Inv, TypeOK
      <3>4. \A t \in Standby : t # s => MyWalSnd'[t] = MyWalSnd[t]
        BY <2>0, <2>3 DEF StartReplication, SyncRepInitConfig, XLogSendPhysical,
                          ProcessStandbyReplyMessage, WalSndKill
      <3>5. \A t \in Standby : t # s => SlotRight(t)'
        BY <1>1, <1>4, <2>0, <3>1, <3>3, <3>4, OtherSlots
      <3>6. SlotRight(s)'
        <4>. DEFINE i == MyWalSnd[s]
        <4>0. /\ walsnds = [j \in Slot |-> walsnds[j]] /\ i \in Slot /\ i # 0
              /\ walsnds[i] \in WalSnd /\ walsnds[i].pid = s
          BY <3>1 DEF Inv, TypeOK
        <4>1. CASE StartReplication(s)
          <5>1. /\ walsnds'[i] = [walsnds[i] EXCEPT !.state = "CATCHUP", !.sentPtr = received[s],
                                   !.sync_standby_priority = SyncRepGetStandbyPriority(s, conf[s])]
                /\ UNCHANGED <<MyWalSnd, conf>>
            BY <4>0, <4>1 DEF StartReplication, SetMyWal, MyWal
          <5>2. at'[s] = "loop"
            BY <1>0, <1>a, <4>1 DEF StartReplication, Goto
          <5>3. /\ walsnds'[i].pid = s
                /\ walsnds'[i].sync_standby_priority = SyncRepGetStandbyPriority(s, conf[s])
            BY <4>0, <5>1 DEF WalSnd
          <5>. QED
            BY <4>0, <5>1, <5>2, <5>3 DEF SlotRight, MyWal
        <4>2. CASE SyncRepInitConfig(s)
          <5>1. /\ walsnds'[i] = [walsnds[i] EXCEPT !.sync_standby_priority = SyncRepGetStandbyPriority(s, names)]
                /\ UNCHANGED MyWalSnd /\ at'[s] = "loop"
            BY <4>0, <4>2 DEF SyncRepInitConfig, SetMyWal, MyWal
          <5>2. conf'[s] = names
            BY <1>0, <1>a, <4>2 DEF SyncRepInitConfig
          <5>3. /\ walsnds'[i].pid = s
                /\ walsnds'[i].sync_standby_priority = SyncRepGetStandbyPriority(s, names)
            BY <4>0, <5>1 DEF WalSnd
          <5>. QED
            BY <4>0, <5>1, <5>2, <5>3 DEF SlotRight, MyWal, SyncRepGetStandbyPriority, Fits
        <4>3. CASE XLogSendPhysical(s)
          <5>1. PICK k : walsnds' = [walsnds EXCEPT ![i] =
                                       [walsnds[i] EXCEPT !.sentPtr = k,
                                          !.state = IF @ = "CATCHUP" /\ k = flushedUpto THEN "STREAMING" ELSE @]]
            BY <4>3 DEF XLogSendPhysical, SetMyWal, MyWal
          <5>2. at'[s] = "loop" /\ at[s] = "loop" /\ UNCHANGED <<MyWalSnd, conf>>
            BY <4>3 DEF XLogSendPhysical
          <5>3. /\ walsnds'[i].pid = s
                /\ walsnds'[i].sync_standby_priority = walsnds[i].sync_standby_priority
            BY <4>0, <5>1 DEF WalSnd
          <5>4. walsnds[i].sync_standby_priority = SyncRepGetStandbyPriority(s, conf[s])
            BY <5>2 DEF Inv, SlotsRight, SlotRight, MyWal
          <5>. QED
            BY <4>0, <5>2, <5>3, <5>4 DEF SlotRight, MyWal
        <4>4. CASE ProcessStandbyReplyMessage(s)
          <5>1. /\ walsnds'[i] = [walsnds[i] EXCEPT !.write = received[s], !.flush = flushed[s]]
                /\ UNCHANGED <<MyWalSnd, conf, standbyVars>> /\ at[s] = "loop"
            BY <4>0, <4>4 DEF ProcessStandbyReplyMessage, SetMyWal, MyWal
          <5>2. at'[s] = "release"
            BY <1>0, <1>a, <4>4 DEF ProcessStandbyReplyMessage, Goto
          <5>3. /\ walsnds'[i].pid = s /\ walsnds'[i].write = received[s] /\ walsnds'[i].flush = flushed[s]
                /\ walsnds'[i].sync_standby_priority = walsnds[i].sync_standby_priority
            BY <4>0, <5>1 DEF WalSnd
          <5>4. walsnds[i].sync_standby_priority = SyncRepGetStandbyPriority(s, conf[s])
            BY <5>1 DEF Inv, SlotsRight, SlotRight, MyWal
          <5>5. received[s] <= written[s] /\ flushed[s] <= flushed[s]
            BY <1>1 DEF Inv, StandbysRight
          <5>. QED
            BY <4>0, <5>1, <5>2, <5>3, <5>4, <5>5 DEF SlotRight, MyWal
        <4>5. CASE WalSndKill(s)
          <5>1. at'[s] = "down" /\ MyWalSnd'[s] = 0
            BY <1>0, <1>a, <2>0, <4>5 DEF WalSndKill, Goto
          <5>. QED
            BY <5>1 DEF SlotRight
        <4>. QED
          BY <2>3, <4>1, <4>2, <4>3, <4>4, <4>5
      <3>. QED
        BY <3>5, <3>6 DEF SlotsRight
    <2>. QED
      BY <2>1, <2>2, <2>3
  <1>. QED
    BY <1>1, <1>3, <1>5, <1>6, <1>7

\* Steps that leave the slots alone.
LEMMA SlotsKept ==
  ASSUME Inv, UNCHANGED <<walsnds, MyWalSnd, standbyVars>>,
         \A s \in Standby : /\ conf'[s] = conf[s]
                            /\ \/ at'[s] = at[s]
                               \/ at[s] \notin {"down", "startup"} /\ at'[s] \notin {"down", "startup", "release"}
  PROVE  SlotsRight' /\ StandbysRight'
  BY DEF Inv, SlotsRight, SlotRight, StandbysRight, MyWal

LEMMA LsnKept ==
  ASSUME Inv, UNCHANGED <<lsn, standbyVars>>
  PROVE  LsnReplicated'
  BY DEF Inv, LsnReplicated, Replicated

\* The lock is free, or one process has it.
LEMMA LockHolder ==
  ASSUME Inv
  PROVE  /\ \A w, x \in Waker : at[w] \in LockedPlace /\ at[x] \in LockedPlace => w = x
         /\ Free => \A w \in Waker : at[w] \notin LockedPlace /\ todo[w] = <<>> /\ thisproc[w] = NULL
         /\ NULL \notin Waker /\ NULL \notin Backend
  <1>1. NULL \notin Waker /\ NULL \notin Backend
    BY ConfigAssumption DEF Process
  <1>. QED
    BY <1>1 DEF Inv, LockRight, Free, LockedPlace

LEMMA ControlRelease ==
  ASSUME Inv, NEW s \in Standby, NothingToRelease(s) \/ Release(s)
  PROVE  /\ PlacesRight' /\ LockRight' /\ SlotsRight' /\ StandbysRight' /\ LsnReplicated'
         /\ \A x \in Process : x # s => at'[x] = at[x]
         /\ at'[s] \in {"loop", "wake"}
         /\ \A p \in Backend : p # s /\ p \in Process
  <1>0. s \in Waker /\ s \in Process /\ s # Checkpointer /\ s \notin Backend /\ Waker \subseteq Process /\ Backend \subseteq Process
    BY ConfigAssumption DEF Waker, Process
  <1>a. at = [x \in Process |-> at[x]] /\ todo = [w \in Waker |-> todo[w]]
    BY DEF Inv, TypeOK
  <1>1. /\ \A x \in Process : x # s => at'[x] = at[x]
        /\ at[s] = "release" /\ at'[s] \in {"loop", "wake"}
        /\ UNCHANGED releaseUnchanged
    BY <1>0, <1>a DEF NothingToRelease, Release, StartWaking, Goto
  <1>2. PlacesRight'
    BY <1>0, <1>1 DEF Inv, PlacesRight, LockedPlace, Process, Waker
  <1>3. SlotsRight' /\ StandbysRight'
    <2>1. \A t \in Standby : t \in Process
      BY DEF Process, Waker
    <2>. QED
      BY <1>1, <2>1, SlotsKept
  <1>4. CASE NothingToRelease(s)
    <2>1. at'[s] = "loop" /\ UNCHANGED <<lsn, SyncRepLock, todo, thisproc>>
      BY <1>0, <1>a, <1>4 DEF NothingToRelease, Goto
    <2>2. LockRight'
      BY <1>0, <1>1, <2>1 DEF Inv, LockRight, LockedPlace
    <2>. QED
      BY <1>0, <1>1, <1>2, <1>3, <2>1, <2>2, LsnKept
  <1>5. CASE Release(s)
    <2>1. LockRight'
      <3>0. \A w \in Waker : w # s => todo'[w] = todo[w] /\ at'[w] = at[w]
        BY <1>0, <1>1, <1>a, <1>5 DEF Release
      <3>1. /\ SyncRepLock = NULL /\ NULL \notin Waker /\ thisproc' = thisproc
            /\ \A w \in Waker : at[w] \notin LockedPlace /\ todo[w] = <<>> /\ thisproc[w] = NULL
        BY <1>5, LockHolder DEF Release, Free
      <3>2. CASE todo'[s] = <<>>
        <4>1. at'[s] = "loop" /\ SyncRepLock' = NULL
          BY <1>0, <1>a, <1>5, <3>1, <3>2 DEF Release, StartWaking, Goto
        <4>. QED
          BY <3>0, <3>1, <3>2, <4>1 DEF LockRight, LockedPlace
      <3>3. CASE todo'[s] # <<>>
        <4>1. at'[s] = "wake" /\ SyncRepLock' = s
          BY <1>0, <1>a, <1>5, <3>1, <3>3 DEF Release, StartWaking, Goto
        <4>. QED
          BY <1>0, <3>0, <3>1, <3>3, <4>1 DEF LockRight, LockedPlace
      <3>. QED
        BY <3>2, <3>3
    <2>2. LsnReplicated'
      <3>1. at[s] # "down"
        BY <1>1
      <3>2. /\ MyWal(s) \in WalSnd /\ MyWal(s).write <= written[s] /\ MyWal(s).flush <= flushed[s]
            /\ MyWal(s).sync_standby_priority = SyncRepGetStandbyPriority(s, conf[s])
        BY <1>1, <3>1, OwnSlot DEF Inv, SlotsRight, SlotRight
      <3>3. MyWal(s).sync_standby_priority > 0 /\ conf[s] \in Configs
        BY <1>0, <1>5 DEF Release, Candidate, MyWal, Inv, TypeOK
      <3>4. s \in Named
        BY <3>2, <3>3, PriorityFacts
      <3>5. SUFFICES ASSUME NEW m \in Mode, lsn'[m] > 0 PROVE Replicated(lsn[m], m)'
        BY DEF LsnReplicated
      <3>6. CASE lsn'[m] = Position(s, m)
        <4>1. IF m = SYNC_REP_WAIT_WRITE THEN written[s] >= lsn'[m] ELSE flushed[s] >= lsn'[m]
          BY <3>2, <3>6 DEF Position, WalSnd, Inv, TypeOK
        <4>. QED
          BY <1>1, <3>4, <4>1 DEF Replicated
      <3>7. CASE lsn'[m] = lsn[m]
        BY <1>1, <3>5, <3>7 DEF Inv, LsnReplicated, Replicated
      <3>. QED
        BY <1>5, <3>6, <3>7 DEF Release
    <2>. QED
      BY <1>0, <1>1, <1>2, <1>3, <2>1, <2>2
  <1>. QED
    BY <1>4, <1>5

WakeAction(w) ==
  Unlock(w) \/ (\E p \in Backend : Mark(w, p)) \/ NextQueue(w) \/ WakeDelete(w) \/ WakeSetLatch(w)

LEMMA ControlWake ==
  ASSUME Inv, TypeOK', NEW w \in Waker, WakeAction(w)
  PROVE  /\ PlacesRight' /\ LockRight' /\ SlotsRight' /\ StandbysRight' /\ LsnReplicated'
         /\ at[w] \in LockedPlace /\ at'[w] \in LockedPlace \cup {"loop"}
         /\ \A x \in Process : x # w => at'[x] = at[x]
         /\ \A x \in Waker : x # w =>
              /\ at[x] \notin LockedPlace /\ thisproc[x] = NULL /\ thisproc'[x] = NULL
              /\ todo[x] = <<>> /\ todo'[x] = <<>>
         /\ \A p \in Backend : p # w /\ p \in Process
  <1>0. w \in Process /\ w \notin Backend /\ Waker \subseteq Process /\ Backend \subseteq Process
    BY ConfigAssumption DEF Waker, Process
  <1>a. at = [x \in Process |-> at[x]] /\ thisproc = [x \in Waker |-> thisproc[x]]
        /\ todo = [x \in Waker |-> todo[x]]
    BY DEF Inv, TypeOK
  <1>1. at[w] \in LockedPlace /\ UNCHANGED wakeUnchanged
    BY DEF WakeAction, Unlock, Mark, NextQueue, WakeDelete, WakeSetLatch, LockedPlace
  <1>2. /\ \A x \in Process : x # w => at'[x] = at[x]
        /\ \A x \in Waker : x # w => thisproc'[x] = thisproc[x] /\ todo'[x] = todo[x]
    BY <1>0, <1>a DEF WakeAction, Unlock, Mark, NextQueue, WakeDelete, WakeSetLatch, Goto
  <1>3. SyncRepLock = w
    BY <1>1 DEF Inv, LockRight
  <1>4. \A x \in Waker : x # w => at[x] \notin LockedPlace /\ thisproc[x] = NULL /\ todo[x] = <<>>
    BY <1>3 DEF Inv, LockRight, LockedPlace
  <1>5. \A x \in Waker : x # w => at'[x] = at[x] /\ x \in Process
    BY <1>0, <1>2
  <1>6. /\ at'[w] \in LockedPlace \cup {"loop"}
        /\ at'[w] \in LockedPlace => SyncRepLock' = w
        /\ at'[w] = "loop" => SyncRepLock' = NULL
        /\ thisproc'[w] # NULL <=> at'[w] \in {"delete", "latch"}
        /\ todo'[w] # <<>> => at'[w] \in LockedPlace
        /\ at'[w] \in {"delete", "latch"} => todo'[w] # <<>>
    <2>0. /\ at[w] = "wake" => thisproc[w] = NULL
          /\ at[w] \in {"delete", "latch"} => thisproc[w] # NULL /\ todo[w] # <<>>
      BY DEF Inv, LockRight
    <2>1. CASE Unlock(w)
      BY <1>0, <1>a, <2>0, <2>1 DEF Unlock, Goto, LockedPlace
    <2>2. CASE \E p \in Backend : Mark(w, p)
      BY <1>0, <1>a, <1>3, <2>0, <2>2, LockHolder DEF Mark, Goto, LockedPlace
    <2>3. CASE NextQueue(w)
      BY <1>0, <1>a, <1>3, <2>0, <2>3 DEF NextQueue, LockedPlace
    <2>4. CASE WakeDelete(w)
      BY <1>0, <1>a, <1>3, <2>0, <2>4 DEF WakeDelete, Goto, LockedPlace
    <2>5. CASE WakeSetLatch(w)
      BY <1>0, <1>a, <1>3, <2>0, <2>5 DEF WakeSetLatch, Goto, LockedPlace
    <2>. QED
      BY <2>1, <2>2, <2>3, <2>4, <2>5 DEF WakeAction
  <1>7. NULL \notin Waker
    BY LockHolder
  <1>8. LockRight'
    <2>1. SUFFICES ASSUME NEW x \in Waker
                   PROVE  /\ SyncRepLock' = x <=> at'[x] \in LockedPlace
                          /\ thisproc'[x] # NULL <=> at'[x] \in {"delete", "latch"}
                          /\ todo'[x] # <<>> => at'[x] \in LockedPlace
                          /\ at'[x] \in {"delete", "latch"} => todo'[x] # <<>>
      BY DEF LockRight
    <2>2. CASE x = w
      BY <1>6, <1>7, <2>2 DEF LockedPlace
    <2>3. CASE x # w
      BY <1>2, <1>4, <1>5, <1>6, <1>7, <2>3 DEF LockedPlace
    <2>. QED
      BY <2>2, <2>3
  <1>9. PlacesRight'
    BY <1>0, <1>2, <1>5, <1>6 DEF Inv, PlacesRight, Process, Waker
  <1>10. SlotsRight' /\ StandbysRight'
    <2>1. \A s \in Standby : s \in Waker
      BY DEF Waker
    <2>2. \A s \in Standby : at'[s] = at[s] \/ (at[s] \notin {"down", "startup"} /\ at'[s] \notin {"down", "startup", "release"})
      BY <1>1, <1>5, <1>6, <2>1 DEF LockedPlace
    <2>. QED
      BY <1>1, <2>2, SlotsKept
  <1>11. LsnReplicated'
    BY <1>1, LsnKept
  <1>. QED
    BY <1>0, <1>1, <1>2, <1>4, <1>6, <1>8, <1>9, <1>10, <1>11

ConfigAction ==
  \/ \E c \in Configs : Reconfigure(c)
  \/ \E x \in Process : ProcessConfigFile(x)
  \/ KeepDefined \/ TurnOn \/ TurnOff \/ PostmasterDeath

LEMMA ControlConfig ==
  ASSUME Inv, ConfigAction
  PROVE  /\ PlacesRight' /\ LockRight' /\ SlotsRight' /\ StandbysRight' /\ LsnReplicated'
         /\ \A x \in Process : x # Checkpointer => at'[x] = at[x]
         /\ at'[Checkpointer] = at[Checkpointer] \/ at'[Checkpointer] \in {"update", "loop", "wake"}
         /\ \A p \in Backend : p # Checkpointer /\ p \in Process
  <1>0. /\ Checkpointer \in Waker /\ Checkpointer \in Process /\ Checkpointer \notin Standby
        /\ Checkpointer \notin Backend /\ Waker \subseteq Process /\ Backend \subseteq Process
        /\ Standby \subseteq Waker /\ Standby \cap Backend = {}
    BY ConfigAssumption DEF Waker, Process
  <1>a. at = [x \in Process |-> at[x]] /\ todo = [x \in Waker |-> todo[x]]
        /\ conf = [x \in Process |-> conf[x]]
    BY DEF Inv, TypeOK
  <1>1. /\ \A x \in Process : x # Checkpointer => at'[x] = at[x]
        /\ \/ at'[Checkpointer] = at[Checkpointer]
           \/ /\ at[Checkpointer] \notin LockedPlace
              /\ at'[Checkpointer] \in {"update", "loop", "wake"}
        /\ \A s \in Standby : conf'[s] = conf[s]
    BY <1>0, <1>a DEF ConfigAction, Reconfigure, ProcessConfigFile, KeepDefined, TurnOn, TurnOff,
                      PostmasterDeath, Goto, LockedPlace
  <1>2. UNCHANGED <<lsn, standbyVars, walsnds, MyWalSnd, thisproc>>
    BY DEF ConfigAction, Reconfigure, ProcessConfigFile, KeepDefined, TurnOn, TurnOff, PostmasterDeath
  <1>3. SlotsRight' /\ StandbysRight'
    BY <1>0, <1>1, <1>2, SlotsKept
  <1>4. PlacesRight'
    BY <1>0, <1>1 DEF Inv, PlacesRight, LockedPlace
  <1>5. LockRight'
    <2>1. CASE UNCHANGED <<todo, SyncRepLock>> /\ at'[Checkpointer] # "wake"
      BY <1>0, <1>1, <1>2, <2>1 DEF Inv, LockRight, LockedPlace
    <2>2. CASE UNCHANGED <<todo, SyncRepLock, at>>
      BY <1>2, <2>2 DEF Inv, LockRight
    <2>3. CASE TurnOn
      <3>1. /\ \A w \in Waker : at'[w] \notin LockedPlace /\ todo'[w] = <<>> /\ thisproc'[w] = NULL
            /\ SyncRepLock' = NULL
        BY <1>0, <1>a, <1>2, <2>3, LockHolder DEF TurnOn, Free, Goto, LockedPlace
      <3>. QED
        BY <3>1, LockHolder DEF LockRight, LockedPlace
    <2>4. CASE TurnOff
      <3>1. /\ \A w \in Waker : w # Checkpointer => at'[w] \notin LockedPlace /\ todo'[w] = <<>>
            /\ \A w \in Waker : thisproc'[w] = NULL
            /\ SyncRepLock' = Checkpointer /\ at'[Checkpointer] = "wake"
        BY <1>0, <1>a, <1>2, <2>4, LockHolder DEF TurnOff, Free, Goto, LockedPlace
      <3>. QED
        BY <3>1 DEF LockRight, LockedPlace
    <2>5. UNCHANGED <<todo, SyncRepLock, at>> \/ (UNCHANGED <<todo, SyncRepLock>> /\ at'[Checkpointer] # "wake") \/ TurnOn \/ TurnOff
      BY <1>0, <1>a DEF ConfigAction, Reconfigure, ProcessConfigFile, KeepDefined, PostmasterDeath, Goto
    <2>. QED
      BY <2>1, <2>2, <2>3, <2>4, <2>5
  <1>. QED
    BY <1>0, <1>1, <1>2, <1>3, <1>4, <1>5, LsnKept
-----------------------------------------------------------------------------
(* The backends: their positions, states and answers.                      *)

\* Nothing happens to a backend that its answer depends on.
Untouched(b) ==
  /\ at'[b] = at[b] /\ syncRepState'[b] = syncRepState[b] /\ waitLSN'[b] = waitLSN[b]
  /\ XactCommitLSN'[b] = XactCommitLSN[b] /\ mode'[b] = mode[b] /\ outcome'[b] = outcome[b]
  /\ excused[b] => excused'[b]

\* Positions are confirmed, and standbys get further.
Grows ==
  /\ \A m \in Mode : lsn'[m] >= lsn[m]
  /\ \A t \in Standby : written'[t] >= written[t] /\ flushed'[t] >= flushed[t]

LEMMA GrowsFacts ==
  ASSUME TypeOK', UNCHANGED <<lsn, standbyVars>>, TypeOK
  PROVE  Grows
  BY DEF TypeOK, Grows

LEMMA CompleteKept ==
  ASSUME Inv, TypeOK', Grows, NEW b \in Backend, excused[b] => excused'[b],
         syncRepState[b] = "WAIT_COMPLETE",
         XactCommitLSN'[b] = XactCommitLSN[b], mode'[b] = mode[b]
  PROVE  excused'[b] \/ XactCommitLSN'[b] <= lsn'[mode'[b]]
  <1>1. at[b] \in WaitLoop \cup {"leave"}
    BY DEF Inv, PlacesRight, BackendPlace, StatesRight, StateRight
  <1>2. mode[b] \in Mode
    BY <1>1 DEF Inv, StatesRight, StateRight
  <1>3. lsn[mode[b]] \in Nat /\ lsn'[mode[b]] \in Nat /\ XactCommitLSN[b] \in Nat
    BY <1>2 DEF Inv, TypeOK
  <1>4. lsn'[mode[b]] >= lsn[mode[b]]
    BY <1>2 DEF Grows
  <1>5. excused[b] \/ XactCommitLSN[b] <= lsn[mode[b]]
    BY Zenon DEF Inv, CompletesRight, CompleteRight
  <1>6. CASE excused[b]
    BY <1>6
  <1>7. CASE XactCommitLSN[b] <= lsn[mode[b]]
    BY <1>3, <1>4, <1>7
  <1>. QED
    BY <1>5, <1>6, <1>7

LEMMA AckKept ==
  ASSUME Inv, TypeOK', Grows, NEW b \in Backend, excused[b] => excused'[b],
         outcome'[b] = "acked" => outcome[b] = "acked",
         XactCommitLSN'[b] = XactCommitLSN[b], mode'[b] = mode[b]
  PROVE  AckRight(b)'
  <1>1. SUFFICES ASSUME outcome'[b] = "acked", ~excused'[b]
                 PROVE  Replicated(XactCommitLSN[b], mode[b])'
    BY DEF AckRight
  <1>2. PICK l \in Nat : l = XactCommitLSN[b]
    BY DEF Inv, TypeOK
  <1>3. PICK m : m = mode[b]
    OBVIOUS
  <1>4. Replicated(l, m)
    BY <1>1, <1>2, <1>3 DEF Inv, AckReplicated
  <1>5. Replicated(l, m)'
    BY <1>4, ReplicatedStays DEF Grows, TypeOK
  <1>. QED
    BY <1>2, <1>3, <1>5 DEF Replicated

LEMMA UntouchedKept ==
  ASSUME Inv, TypeOK', Grows, NEW b \in Backend, Untouched(b)
  PROVE  StateRight(b)' /\ CompleteRight(b)' /\ AckRight(b)'
  <1>1. StateRight(b)'
    BY DEF Untouched, Inv, StatesRight, StateRight
  <1>2. CompleteRight(b)'
    BY CompleteKept DEF CompleteRight, Untouched
  <1>3. AckRight(b)'
    BY AckKept DEF Untouched
  <1>. QED
    BY <1>1, <1>2, <1>3

LEMMA OthersUntouched ==
  ASSUME Inv, NEW p \in Backend, BackendAction(p), NEW b \in Backend, b # p
  PROVE  Untouched(b)
  <1>0. /\ p \in Process /\ b \in Process /\ at = [x \in Process |-> at[x]]
        /\ syncRepState = [x \in Backend |-> syncRepState[x]]
        /\ waitLSN = [x \in Backend |-> waitLSN[x]]
        /\ XactCommitLSN = [x \in Backend |-> XactCommitLSN[x]]
        /\ mode = [x \in Backend |-> mode[x]]
        /\ outcome = [x \in Backend |-> outcome[x]]
        /\ excused = [x \in Backend |-> excused[x]]
    BY DEF Inv, TypeOK, Process
  <1>. USE <1>0 DEF Goto, Untouched, Acknowledge
  <1>1. CASE \E m \in CommitModes : Commit(p, m)
    BY <1>1 DEF Commit
  <1>2. CASE Answer(p)
    BY <1>2 DEF Answer
  <1>3. CASE Enqueue(p)
    BY <1>3 DEF Enqueue
  <1>4. CASE LookAtState(p)
    BY <1>4 DEF LookAtState, ResetThenTest
  <1>5. CASE CheckInterrupts(p)
    BY <1>5 DEF CheckInterrupts
  <1>6. CASE WaitLatch(p)
    BY <1>6 DEF WaitLatch
  <1>7. CASE SyncRepCancelWait(p)
    BY <1>7 DEF SyncRepCancelWait
  <1>8. CASE Leave(p)
    BY <1>8 DEF Leave
  <1>9. CASE DeleteAtProcExit(p)
    BY <1>9 DEF DeleteAtProcExit
  <1>10. CASE Interrupt(p)
    BY <1>10 DEF Interrupt
  <1>11. CASE SyncRepCleanupAtProcExit(p)
    BY <1>11 DEF SyncRepCleanupAtProcExit
  <1>. QED
    BY <1>1, <1>2, <1>3, <1>4, <1>5, <1>6, <1>7, <1>8, <1>9, <1>10, <1>11 DEF BackendAction

\* Positions are given out once.
LEMMA CommitsKept ==
  ASSUME Inv, UNCHANGED <<XactCommitLSN, flushedUpto>>,
         \A p \in Backend : at'[p] \in WaitLoop \cup {"commit", "leave"} =>
                            at[p] \in WaitLoop \cup {"commit", "leave"}
  PROVE  CommitsRight'
  BY DEF Inv, CommitsRight

LEMMA CommitsBackend ==
  ASSUME Inv, NEW p \in Backend, BackendAction(p)
  PROVE  CommitsRight'
  <1>0. p \in Process /\ Backend \subseteq Process /\ at = [x \in Process |-> at[x]]
        /\ XactCommitLSN \in [Backend -> Nat] /\ flushedUpto \in Nat
    BY DEF Inv, TypeOK, Process
  <1>1. CASE \E m \in CommitModes : Commit(p, m)
    <2>1. /\ flushedUpto' = flushedUpto + 1 /\ XactCommitLSN' = [XactCommitLSN EXCEPT ![p] = flushedUpto + 1]
          /\ at' = [at EXCEPT ![p] = "commit"]
      BY <1>1 DEF Commit, Goto
    <2>2. \A b \in Backend : XactCommitLSN[b] <= flushedUpto
      BY DEF Inv, CommitsRight
    <2>3. /\ XactCommitLSN'[p] = flushedUpto + 1
          /\ \A b \in Backend : b # p => XactCommitLSN'[b] = XactCommitLSN[b] /\ at'[b] = at[b]
      BY <1>0, <2>1
    <2>4. \A b \in Backend : XactCommitLSN'[b] <= flushedUpto'
      BY <1>0, <2>1, <2>2, <2>3
    <2>5. \A b \in Backend : at'[b] \in WaitLoop \cup {"commit", "leave"} => XactCommitLSN'[b] > 0
      BY <1>0, <2>1, <2>3 DEF Inv, CommitsRight
    <2>6. \A b, c \in Backend : b # c /\ XactCommitLSN'[b] > 0 => XactCommitLSN'[b] # XactCommitLSN'[c]
      <3>1. SUFFICES ASSUME NEW b \in Backend, NEW c \in Backend, b # c, XactCommitLSN'[b] > 0
                     PROVE  XactCommitLSN'[b] # XactCommitLSN'[c]
        OBVIOUS
      <3>2. CASE b = p
        BY <1>0, <2>2, <2>3, <3>1, <3>2
      <3>3. CASE c = p
        BY <1>0, <2>2, <2>3, <3>1, <3>3
      <3>4. CASE b # p /\ c # p
        BY <2>3, <3>1, <3>4 DEF Inv, CommitsRight
      <3>. QED
        BY <3>2, <3>3, <3>4
    <2>. QED
      BY <2>4, <2>5, <2>6 DEF CommitsRight
  <1>2. CASE ~\E m \in CommitModes : Commit(p, m)
    <2>1. UNCHANGED <<XactCommitLSN, flushedUpto>>
      BY <1>2 DEF BackendAction, Answer, Enqueue, LookAtState, CheckInterrupts, WaitLatch,
             SyncRepCancelWait, Leave, DeleteAtProcExit, Interrupt, SyncRepCleanupAtProcExit
    <2>2. at'[p] \in WaitLoop \cup {"commit", "leave"} => at[p] \in WaitLoop \cup {"commit", "leave"}
      BY <1>0, <1>2 DEF BackendAction, Answer, Enqueue, LookAtState, ResetThenTest, CheckInterrupts, WaitLatch,
             SyncRepCancelWait, Leave, DeleteAtProcExit, Interrupt, SyncRepCleanupAtProcExit, Goto, WaitLoop
    <2>3. \A b \in Backend : b # p => at'[b] = at[b]
      BY OthersUntouched DEF Untouched
    <2>. QED
      BY <2>1, <2>2, <2>3, CommitsKept
  <1>. QED
    BY <1>1, <1>2

LEMMA AnswersBackend ==
  ASSUME Inv, TypeOK', NEW p \in Backend, BackendAction(p)
  PROVE  StatesRight' /\ CompletesRight' /\ AckReplicated'
  <1>0. /\ p \in Process /\ at = [x \in Process |-> at[x]]
        /\ syncRepState = [x \in Backend |-> syncRepState[x]]
        /\ waitLSN = [x \in Backend |-> waitLSN[x]]
        /\ XactCommitLSN = [x \in Backend |-> XactCommitLSN[x]]
        /\ mode = [x \in Backend |-> mode[x]]
        /\ outcome = [x \in Backend |-> outcome[x]]
        /\ excused = [x \in Backend |-> excused[x]]
    BY DEF Inv, TypeOK, Process
  <1>a. /\ at[p] \in {"idle", "commit", "exit", "gone", "crashed"} => syncRepState[p] = "NOT_WAITING"
        /\ at[p] \in WaitLoop =>
             /\ syncRepState[p] \in {"WAITING", "WAIT_COMPLETE"}
             /\ waitLSN[p] = XactCommitLSN[p] /\ mode[p] \in Mode
        /\ at[p] = "cancel" => outcome[p] # "none"
        /\ at[p] = "leave" =>
             /\ mode[p] \in Mode
             /\ outcome[p] = "none" => syncRepState[p] = "WAIT_COMPLETE"
    BY DEF Inv, StatesRight, StateRight
  <1>b. Grows
    BY BackendMoves, GrowsFacts DEF Inv
  <1>1. \A b \in Backend : b # p => StateRight(b)' /\ CompleteRight(b)' /\ AckRight(b)'
    BY <1>b, OthersUntouched, UntouchedKept
  <1>2. StateRight(p)'
    <2>. USE <1>0, <1>a DEF Goto, Acknowledge, StateRight, WaitLoop
    <2>1. CASE \E m \in CommitModes : Commit(p, m)
      BY <2>1 DEF Commit
    <2>2. CASE Answer(p)
      BY <2>2 DEF Answer
    <2>3. CASE Enqueue(p)
      BY <2>3 DEF Enqueue
    <2>4. CASE LookAtState(p)
      BY <2>4 DEF LookAtState, ResetThenTest
    <2>5. CASE CheckInterrupts(p)
      BY <2>5 DEF CheckInterrupts
    <2>6. CASE WaitLatch(p)
      BY <2>6 DEF WaitLatch
    <2>7. CASE SyncRepCancelWait(p)
      BY <2>7 DEF SyncRepCancelWait
    <2>8. CASE Leave(p)
      BY <2>8 DEF Leave
    <2>9. CASE DeleteAtProcExit(p)
      BY <2>9 DEF DeleteAtProcExit
    <2>10. CASE Interrupt(p)
      BY <2>10 DEF Interrupt
    <2>11. CASE SyncRepCleanupAtProcExit(p)
      BY <2>11 DEF SyncRepCleanupAtProcExit
    <2>. QED
      BY <2>1, <2>2, <2>3, <2>4, <2>5, <2>6, <2>7, <2>8, <2>9, <2>10, <2>11 DEF BackendAction
  <1>3. CompleteRight(p)'
    <2>1. CASE syncRepState'[p] # "WAIT_COMPLETE"
      BY <2>1 DEF CompleteRight
    <2>2. CASE syncRepState'[p] = "WAIT_COMPLETE"
      <3>1. /\ syncRepState[p] = "WAIT_COMPLETE" /\ XactCommitLSN'[p] = XactCommitLSN[p]
            /\ mode'[p] = mode[p]
        BY <1>0, <1>a, <2>2 DEF BackendAction, Commit, Answer, Enqueue, LookAtState, CheckInterrupts,
             WaitLatch, SyncRepCancelWait, Leave, DeleteAtProcExit, Interrupt, SyncRepCleanupAtProcExit
      <3>2. ~(\E m \in CommitModes : Commit(p, m)) /\ ~Answer(p)
        BY <1>a, <3>1 DEF Commit, Answer
      <3>3. excused' = excused
        BY <3>2 DEF BackendAction, Enqueue, LookAtState, CheckInterrupts, WaitLatch,
             SyncRepCancelWait, Leave, DeleteAtProcExit, Interrupt, SyncRepCleanupAtProcExit
      <3>. QED
        BY <1>b, <3>1, <3>3, CompleteKept DEF CompleteRight
    <2>. QED
      BY <2>1, <2>2
  <1>4. AckRight(p)'
    <2>1. CASE \E m \in CommitModes : Commit(p, m)
      <3>1. outcome'[p] = "none"
        BY <1>0, <2>1 DEF Commit
      <3>. QED
        BY <3>1 DEF AckRight
    <2>2. ASSUME UNCHANGED <<lsn, XactCommitLSN, mode, standbyVars>>, mode[p] \in Mode,
                 XactCommitLSN[p] <= lsn[mode[p]], XactCommitLSN[p] > 0
          PROVE  AckRight(p)'
      <3>1. lsn[mode[p]] \in Nat /\ XactCommitLSN[p] \in Nat
        BY <2>2 DEF Inv, TypeOK
      <3>2. Replicated(lsn[mode[p]], mode[p])
        BY <2>2, <3>1 DEF Inv, LsnReplicated
      <3>3. Replicated(XactCommitLSN[p], mode[p])
        <4>1. PICK s \in Named : IF mode[p] = SYNC_REP_WAIT_WRITE THEN written[s] >= lsn[mode[p]] ELSE flushed[s] >= lsn[mode[p]]
          BY <3>2 DEF Replicated
        <4>2. written[s] \in Nat /\ flushed[s] \in Nat
          BY DEF Named, Inv, TypeOK
        <4>3. IF mode[p] = SYNC_REP_WAIT_WRITE THEN written[s] >= XactCommitLSN[p] ELSE flushed[s] >= XactCommitLSN[p]
          BY <2>2, <3>1, <4>1, <4>2
        <4>. QED
          BY <4>3, Zenon DEF Replicated
      <3>. QED
        BY <2>2, <3>3 DEF AckRight, Replicated
    <2>3. CASE Answer(p)
      <3>1. CASE excused'[p]
        BY <3>1 DEF AckRight
      <3>2. CASE ~excused'[p]
        <4>1. mode[p] \in Mode /\ XactCommitLSN[p] <= lsn[mode[p]]
          BY <2>3, <3>2, Zenon DEF Answer
        <4>2. UNCHANGED <<lsn, XactCommitLSN, mode, standbyVars>> /\ at[p] = "commit"
          BY <2>3 DEF Answer
        <4>3. XactCommitLSN[p] > 0
          BY <4>2 DEF Inv, CommitsRight
        <4>. QED
          BY <2>2, <4>1, <4>2, <4>3
      <3>. QED
        BY <3>1, <3>2
    <2>4. CASE Leave(p)
      <3>0. /\ UNCHANGED <<lsn, XactCommitLSN, mode, standbyVars, excused>> /\ at[p] = "leave"
            /\ outcome' = [outcome EXCEPT ![p] = IF @ = "none" THEN "acked" ELSE @]
        BY <2>4 DEF Leave
      <3>1. CASE outcome[p] = "none" /\ ~excused[p]
        <4>1. mode[p] \in Mode /\ syncRepState[p] = "WAIT_COMPLETE"
          BY <1>a, <3>0, <3>1
        <4>2. XactCommitLSN[p] <= lsn[mode[p]]
          BY <3>1, <4>1, Zenon DEF Inv, CompletesRight, CompleteRight
        <4>3. XactCommitLSN[p] > 0
          BY <3>0 DEF Inv, CommitsRight
        <4>. QED
          BY <2>2, <3>0, <4>1, <4>2, <4>3
      <3>2. CASE excused[p]
        BY <3>0, <3>2 DEF AckRight
      <3>3. CASE outcome[p] # "none"
        <4>1. outcome'[p] = outcome[p]
          BY <1>0, <3>0, <3>3
        <4>. QED
          BY <1>b, <3>0, <4>1, AckKept
      <3>. QED
        BY <3>1, <3>2, <3>3
    <2>5. CASE ~(\E m \in CommitModes : Commit(p, m)) /\ ~Answer(p) /\ ~Leave(p)
      <3>1. UNCHANGED <<XactCommitLSN, mode, excused>> /\ (outcome'[p] = "acked" => outcome[p] = "acked")
        BY <1>0, <2>5 DEF BackendAction, Enqueue, LookAtState, CheckInterrupts, WaitLatch, Acknowledge,
             SyncRepCancelWait, DeleteAtProcExit, Interrupt, SyncRepCleanupAtProcExit
      <3>. QED
        BY <1>b, <3>1, AckKept
    <2>. QED
      BY <2>1, <2>3, <2>4, <2>5
  <1>5. StatesRight' /\ CompletesRight'
    BY <1>1, <1>2, <1>3 DEF StatesRight, CompletesRight
  <1>6. AckReplicated'
    <2>1. \A b \in Backend : AckRight(b)'
      BY <1>1, <1>4
    <2>. QED
      BY <2>1, Zenon DEF AckReplicated, AckRight
  <1>. QED
    BY <1>5, <1>6

LEMMA AnswersUntouched ==
  ASSUME Inv, TypeOK', Grows, UNCHANGED <<XactCommitLSN, flushedUpto>>,
         \A b \in Backend : Untouched(b)
  PROVE  CommitsRight' /\ StatesRight' /\ CompletesRight' /\ AckReplicated'
  <1>1. \A b \in Backend : StateRight(b)' /\ CompleteRight(b)' /\ AckRight(b)'
    BY UntouchedKept
  <1>2. StatesRight' /\ CompletesRight'
    BY <1>1 DEF StatesRight, CompletesRight
  <1>3. AckReplicated'
    BY <1>1, Zenon DEF AckReplicated, AckRight
  <1>4. CommitsRight'
    BY CommitsKept DEF Untouched
  <1>. QED
    BY <1>2, <1>3, <1>4
-----------------------------------------------------------------------------
(* The queues.                                                             *)

\* Only the process that has the lock marks a backend.
LEMMA MarkedFacts ==
  ASSUME Inv
  PROVE  /\ Free => \A p \in Backend : ~Marked(p)
         /\ \A w \in Waker : at[w] \in {"wake", "latch"} => \A p \in Backend : ~Marked(p)
         /\ \A w \in Waker : at[w] = "delete" => \A p \in Backend : Marked(p) => p = thisproc[w]
  BY LockHolder DEF Marked, LockedPlace

\* A backend that waits is where the queues suppose it to be.
Steady(b) ==
  at[b] \in WaitLoop /\ syncRepState[b] = "WAITING" =>
    /\ at'[b] \in WaitLoop /\ syncRepState'[b] = "WAITING" /\ mode'[b] = mode[b]
    /\ excused[b] => excused'[b]

LEMMA QueuedIsBackend ==
  ASSUME TypeOK, NEW m \in Mode, NEW i \in DOMAIN SyncRepQueue[m]
  PROVE  SyncRepQueue[m][i] \in Backend
  BY DEF TypeOK

LEMMA QueuesKept ==
  ASSUME Inv, UNCHANGED SyncRepQueue, \A b \in Backend : Steady(b),
         \A w \in Waker : /\ at'[w] = "delete" <=> at[w] = "delete"
                          /\ at[w] = "delete" => todo'[w] = todo[w] /\ thisproc'[w] = thisproc[w]
  PROVE  /\ QueuedRight' /\ MarkedRight' /\ QueuedOnce'
         /\ (at'[Checkpointer] \in LockedPlace => at[Checkpointer] \in LockedPlace) => AllExcused'
  <1>0. \A b : Marked(b)' = Marked(b)
    BY DEF Marked
  <1>1. QueuedRight'
    <2>1. SUFFICES ASSUME NEW m \in Mode, NEW i \in DOMAIN SyncRepQueue[m], ~Marked(SyncRepQueue[m][i])
                   PROVE  /\ at'[SyncRepQueue[m][i]] \in WaitLoop /\ syncRepState'[SyncRepQueue[m][i]] = "WAITING"
                          /\ mode'[SyncRepQueue[m][i]] = m
      BY <1>0 DEF QueuedRight
    <2>2. SyncRepQueue[m][i] \in Backend
      BY QueuedIsBackend DEF Inv
    <2>. QED
      BY <2>1, <2>2 DEF Inv, QueuedRight, Steady
  <1>2. MarkedRight'
    BY DEF Inv, MarkedRight
  <1>3. QueuedOnce'
    BY DEF Inv, QueuedOnce
  <1>4. ASSUME at'[Checkpointer] \in LockedPlace => at[Checkpointer] \in LockedPlace PROVE AllExcused'
    <2>1. SUFFICES ASSUME at[Checkpointer] \in LockedPlace, NEW m \in Mode, NEW i \in DOMAIN SyncRepQueue[m],
                          ~Marked(SyncRepQueue[m][i])
                   PROVE  excused'[SyncRepQueue[m][i]]
      BY <1>0, <1>4 DEF AllExcused
    <2>2. SyncRepQueue[m][i] \in Backend
      BY QueuedIsBackend DEF Inv
    <2>3. excused[SyncRepQueue[m][i]]
      BY <2>1, Zenon DEF Inv, AllExcused
    <2>. QED
      BY <2>1, <2>2, <2>3 DEF Inv, QueuedRight, Steady
  <1>. QED
    BY <1>1, <1>2, <1>3, <1>4

LEMMA FutileKept ==
  ASSUME Inv, UNCHANGED <<SyncRepQueue, sync_standbys_defined>>, todo'[Checkpointer] = todo[Checkpointer]
  PROVE  NoneFutile'
  BY DEF Inv, NoneFutile, Owes

LEMMA OrderKept ==
  ASSUME Inv, UNCHANGED <<SyncRepQueue, waitLSN, lsn, todo>>
  PROVE  Sorted' /\ NoneForgotten'
  BY DEF Inv, Sorted, NoneForgotten, Owes

\* Who is left after SHMQueueDelete was there before, and in the same order.
LEMMA DeleteFacts ==
  ASSUME Inv, NEW p, SyncRepQueue' = Delete(p)
  PROVE  /\ \A m \in Mode : \A j \in DOMAIN SyncRepQueue'[m] : \E i \in DOMAIN SyncRepQueue[m] :
              SyncRepQueue'[m][j] = SyncRepQueue[m][i] /\ SyncRepQueue[m][i] # p
         /\ QueuedOnce'
         /\ \A m \in Mode : \A i, j \in DOMAIN SyncRepQueue'[m] :
              i < j => waitLSN[SyncRepQueue'[m][i]] < waitLSN[SyncRepQueue'[m][j]]
  <1>. DEFINE G(m) == {g \in [DOMAIN SyncRepQueue'[m] -> DOMAIN SyncRepQueue[m]] :
                         /\ \A j \in DOMAIN SyncRepQueue'[m] :
                              SyncRepQueue'[m][j] = SyncRepQueue[m][g[j]] /\ SyncRepQueue[m][g[j]] # p
                         /\ \A i, j \in DOMAIN SyncRepQueue'[m] : i < j => g[i] < g[j]}
  <1>1. \A m \in Mode : \E g : g \in G(m)
    <2>1. SUFFICES ASSUME NEW m \in Mode PROVE \E g : g \in G(m)
      OBVIOUS
    <2>2. SyncRepQueue'[m] = Without(SyncRepQueue[m], p) /\ SyncRepQueue[m] \in Seq(Backend)
      BY DEF Delete, Inv, TypeOK
    <2>3. \A i, j \in DOMAIN SyncRepQueue[m] : SyncRepQueue[m][i] = SyncRepQueue[m][j] => i = j
      BY DEF Inv, QueuedOnce
    <2>. QED
      BY <2>2, <2>3, WithoutFacts
  <1>2. ASSUME NEW m \in Mode, NEW j \in DOMAIN SyncRepQueue'[m]
        PROVE  \E i \in DOMAIN SyncRepQueue[m] : SyncRepQueue'[m][j] = SyncRepQueue[m][i] /\ SyncRepQueue[m][i] # p
    BY <1>1
  <1>3. QueuedOnce'
    <2>1. SUFFICES ASSUME NEW m \in Mode, NEW n \in Mode, NEW i \in DOMAIN SyncRepQueue'[m],
                          NEW j \in DOMAIN SyncRepQueue'[n], SyncRepQueue'[m][i] = SyncRepQueue'[n][j]
                   PROVE  m = n /\ i = j
      BY DEF QueuedOnce
    <2>2. m = n
      BY <1>2, <2>1 DEF Inv, QueuedOnce
    <2>3. PICK g : g \in G(m)
      BY <1>1
    <2>4. g[i] = g[j]
      BY <2>1, <2>2, <2>3 DEF Inv, QueuedOnce
    <2>5. i \in Int /\ j \in Int /\ (i < j => g[i] < g[j]) /\ (j < i => g[j] < g[i]) /\ g[i] \in Int
      <3>1. SyncRepQueue'[m] = Without(SyncRepQueue[m], p) /\ SyncRepQueue[m] \in Seq(Backend)
        BY DEF Delete, Inv, TypeOK
      <3>2. SyncRepQueue'[m] \in Seq(Backend)
        BY <3>1, WithoutFacts
      <3>. QED
        BY <2>2, <2>3, <3>1, <3>2
    <2>. QED
      BY <2>2, <2>4, <2>5
  <1>4. ASSUME NEW m \in Mode, NEW i \in DOMAIN SyncRepQueue'[m], NEW j \in DOMAIN SyncRepQueue'[m], i < j
        PROVE  waitLSN[SyncRepQueue'[m][i]] < waitLSN[SyncRepQueue'[m][j]]
    <2>1. PICK g : g \in G(m)
      BY <1>1
    <2>2. g[i] < g[j] /\ g[i] \in DOMAIN SyncRepQueue[m] /\ g[j] \in DOMAIN SyncRepQueue[m]
      BY <1>4, <2>1
    <2>3. SyncRepQueue'[m][i] = SyncRepQueue[m][g[i]] /\ SyncRepQueue'[m][j] = SyncRepQueue[m][g[j]]
      BY <2>1
    <2>. QED
      BY <2>2, <2>3 DEF Inv, Sorted
  <1>. QED
    BY <1>2, <1>3, <1>4

QueueInv ==
  /\ QueuedRight /\ MarkedRight /\ QueuedOnce /\ Sorted /\ NoneForgotten /\ NoneFutile /\ AllExcused

\* Whoever is queued while the lock is free waits.
LEMMA QueuedWaits ==
  ASSUME Inv, Free, NEW m \in Mode, NEW i \in DOMAIN SyncRepQueue[m]
  PROVE  /\ SyncRepQueue[m][i] \in Backend
         /\ at[SyncRepQueue[m][i]] \in WaitLoop /\ syncRepState[SyncRepQueue[m][i]] = "WAITING"
         /\ mode[SyncRepQueue[m][i]] = m
         /\ waitLSN[SyncRepQueue[m][i]] = XactCommitLSN[SyncRepQueue[m][i]]
  <1>1. SyncRepQueue[m][i] \in Backend
    BY QueuedIsBackend DEF Inv
  <1>2. ~Marked(SyncRepQueue[m][i])
    BY <1>1, MarkedFacts
  <1>. QED
    BY <1>1, <1>2 DEF Inv, QueuedRight, StatesRight, StateRight

LEMMA QueuesDelete ==
  ASSUME Inv, TypeOK', NEW p \in Backend, SyncRepCancelWait(p) \/ DeleteAtProcExit(p)
  PROVE  QueueInv'
  <1>1. /\ Free /\ SyncRepQueue' = Delete(p)
        /\ UNCHANGED <<waitLSN, lsn, todo, thisproc, sync_standbys_defined, excused>>
    BY DEF SyncRepCancelWait, DeleteAtProcExit, CancelDelete
  <1>2. BackendAction(p)
    BY DEF BackendAction
  <1>3. \A w \in Waker : at'[w] = at[w]
    BY <1>2, ControlBackend
  <1>4. \A b \in Backend : b # p => Untouched(b)
    BY <1>2, OthersUntouched
  <1>5. \A m \in Mode : \A j \in DOMAIN SyncRepQueue'[m] : \E i \in DOMAIN SyncRepQueue[m] :
          SyncRepQueue'[m][j] = SyncRepQueue[m][i] /\ SyncRepQueue[m][i] # p
    BY <1>1, DeleteFacts
  <1>6. QueuedRight'
    <2>1. SUFFICES ASSUME NEW m \in Mode, NEW j \in DOMAIN SyncRepQueue'[m]
                   PROVE  /\ at'[SyncRepQueue'[m][j]] \in WaitLoop
                          /\ syncRepState'[SyncRepQueue'[m][j]] = "WAITING"
                          /\ mode'[SyncRepQueue'[m][j]] = m
      BY DEF QueuedRight
    <2>2. PICK i \in DOMAIN SyncRepQueue[m] : SyncRepQueue'[m][j] = SyncRepQueue[m][i] /\ SyncRepQueue[m][i] # p
      BY <1>5
    <2>. QED
      BY <1>1, <1>4, <2>2, QueuedWaits DEF Untouched
  <1>7. MarkedRight' /\ AllExcused'
    <2>1. \A w \in Waker : at'[w] \notin LockedPlace
      BY <1>1, <1>3, LockHolder
    <2>. QED
      BY <2>1 DEF MarkedRight, AllExcused, LockedPlace, Waker
  <1>8. QueuedOnce' /\ Sorted'
    <2>1. \A m \in Mode : \A i, j \in DOMAIN SyncRepQueue'[m] :
            i < j => waitLSN[SyncRepQueue'[m][i]] < waitLSN[SyncRepQueue'[m][j]]
      BY <1>1, DeleteFacts
    <2>2. QueuedOnce'
      BY <1>1, DeleteFacts
    <2>. QED
      BY <1>1, <2>1, <2>2 DEF Sorted
  <1>9. NoneForgotten'
    BY <1>1, <1>5 DEF Inv, NoneForgotten, Owes
  <1>10. NoneFutile'
    <2>1. SUFFICES ASSUME NEW m \in Mode, SyncRepQueue'[m] # <<>>
                   PROVE  sync_standbys_defined \/ Owes(Checkpointer, m)
      BY <1>1 DEF NoneFutile, Owes
    <2>2. 1 \in DOMAIN SyncRepQueue'[m]
      BY <2>1 DEF TypeOK
    <2>3. SyncRepQueue[m] # <<>>
      BY <1>5, <2>2
    <2>. QED
      BY <2>3 DEF Inv, NoneFutile
  <1>. QED
    BY <1>6, <1>7, <1>8, <1>9, <1>10 DEF QueueInv

LEMMA QueuesLeave ==
  ASSUME Inv, TypeOK', NEW p \in Backend, Leave(p)
  PROVE  QueueInv'
  <1>0. /\ at[p] = "leave" /\ waitLSN' = [waitLSN EXCEPT ![p] = 0] /\ waitLSN \in [Backend -> Nat]
        /\ UNCHANGED <<SyncRepQueue, lsn, todo, thisproc, sync_standbys_defined, excused>>
    BY DEF Leave, Inv, TypeOK
  <1>1. BackendAction(p)
    BY DEF BackendAction
  <1>2. \A w \in Waker : at'[w] = at[w]
    BY <1>1, ControlBackend
  <1>3. \A b \in Backend : Steady(b)
    <2>1. ASSUME NEW b \in Backend, b # p PROVE Steady(b)
      BY <1>1, <2>1, OthersUntouched DEF Untouched, Steady
    <2>2. Steady(p)
      BY <1>0 DEF Steady, WaitLoop
    <2>. QED
      BY <2>1, <2>2
  <1>4. QueuedRight' /\ MarkedRight' /\ QueuedOnce' /\ NoneFutile' /\ AllExcused'
    <2>1. Checkpointer \in Waker
      BY DEF Waker
    <2>. QED
      BY <1>0, <1>2, <1>3, <2>1, QueuesKept, FutileKept
  <1>5. ASSUME NEW m \in Mode, NEW i \in DOMAIN SyncRepQueue[m], SyncRepQueue[m][i] = p
        PROVE  \E w \in Waker : at[w] = "delete" /\ m = Head(todo[w]) /\ i = 1 /\ todo[w] # <<>>
    <2>1. Marked(p)
      BY <1>0, <1>5 DEF Inv, QueuedRight, WaitLoop
    <2>2. PICK w \in Waker : at[w] = "delete" /\ thisproc[w] = p
      BY <2>1 DEF Marked
    <2>3. todo[w] # <<>> /\ Head(todo[w]) \in Mode
      <3>1. todo[w] # <<>>
        BY <2>2 DEF Inv, LockRight
      <3>2. todo[w] \in Seq(Mode)
        BY DEF Inv, TypeOK
      <3>. QED
        BY <3>1, <3>2
    <2>4. 1 \in DOMAIN SyncRepQueue[Head(todo[w])] /\ SyncRepQueue[Head(todo[w])][1] = p
      <3>1. SyncRepQueue[Head(todo[w])] \in Seq(Backend)
        BY <2>3 DEF Inv, TypeOK
      <3>2. SyncRepQueue[Head(todo[w])] # <<>> /\ SyncRepQueue[Head(todo[w])][1] = p
        BY <2>2 DEF Inv, MarkedRight
      <3>. QED
        BY <3>1, <3>2
    <2>5. m = Head(todo[w]) /\ i = 1
      BY <1>5, <2>3, <2>4 DEF Inv, QueuedOnce
    <2>. QED
      BY <2>2, <2>3, <2>5
  <1>6. Sorted'
    <2>1. SUFFICES ASSUME NEW m \in Mode, NEW i \in DOMAIN SyncRepQueue[m], NEW j \in DOMAIN SyncRepQueue[m], i < j
                   PROVE  waitLSN'[SyncRepQueue[m][i]] < waitLSN'[SyncRepQueue[m][j]]
      BY <1>0 DEF Sorted
    <2>2. SyncRepQueue[m][i] \in Backend /\ SyncRepQueue[m][j] \in Backend
          /\ waitLSN[SyncRepQueue[m][i]] < waitLSN[SyncRepQueue[m][j]]
      BY <2>1, QueuedIsBackend DEF Inv, Sorted
    <2>3. SyncRepQueue[m][j] # p
      <3>1. i \in Nat /\ i >= 1
        <4>1. SyncRepQueue[m] \in Seq(Backend)
          BY DEF Inv, TypeOK
        <4>. QED
          BY <4>1
      <3>. QED
        BY <1>5, <2>1, <3>1
    <2>4. CASE SyncRepQueue[m][i] = p
      BY <1>0, <2>2, <2>3, <2>4
    <2>5. CASE SyncRepQueue[m][i] # p
      BY <1>0, <2>2, <2>3, <2>5
    <2>. QED
      BY <2>4, <2>5
  <1>7. NoneForgotten'
    <2>1. SUFFICES ASSUME NEW m \in Mode, NEW i \in DOMAIN SyncRepQueue[m]
                   PROVE  waitLSN'[SyncRepQueue[m][i]] > lsn[m] \/ \E w \in Waker : Owes(w, m)
      BY <1>0 DEF NoneForgotten, Owes
    <2>2. SyncRepQueue[m][i] \in Backend
      BY QueuedIsBackend DEF Inv
    <2>3. CASE SyncRepQueue[m][i] # p
      BY <1>0, <2>2, <2>3 DEF Inv, NoneForgotten
    <2>4. CASE SyncRepQueue[m][i] = p
      <3>1. PICK w \in Waker : m = Head(todo[w]) /\ todo[w] # <<>>
        BY <1>5, <2>4
      <3>2. 1 \in DOMAIN todo[w] /\ todo[w][1] = m
        BY <3>1 DEF Inv, TypeOK
      <3>. QED
        BY <3>2 DEF Owes
    <2>. QED
      BY <2>3, <2>4
  <1>. QED
    BY <1>4, <1>6, <1>7 DEF QueueInv

LEMMA QueuesSteady ==
  ASSUME Inv, NEW p \in Backend,
         \/ \E m \in CommitModes : Commit(p, m)
         \/ Answer(p) \/ LookAtState(p) \/ CheckInterrupts(p) \/ WaitLatch(p)
         \/ Interrupt(p) \/ SyncRepCleanupAtProcExit(p)
  PROVE  QueueInv'
  <1>1. BackendAction(p)
    BY DEF BackendAction
  <1>2. UNCHANGED <<SyncRepQueue, waitLSN, lsn, todo, thisproc, sync_standbys_defined>>
    BY DEF Commit, Answer, LookAtState, CheckInterrupts, WaitLatch, Interrupt, SyncRepCleanupAtProcExit
  <1>3. \A w \in Waker : at'[w] = at[w]
    BY <1>1, ControlBackend
  <1>4. Steady(p)
    <2>0. at = [x \in Process |-> at[x]] /\ p \in Process
      BY DEF Inv, TypeOK, Process
    <2>1. CASE (\E m \in CommitModes : Commit(p, m)) \/ Answer(p) \/ SyncRepCleanupAtProcExit(p)
      BY <2>1 DEF Commit, Answer, SyncRepCleanupAtProcExit, Steady, WaitLoop
    <2>2. CASE LookAtState(p)
      BY <2>0, <2>2 DEF LookAtState, ResetThenTest, Goto, Steady, WaitLoop
    <2>3. CASE CheckInterrupts(p)
      BY <2>0, <2>3 DEF CheckInterrupts, Goto, Steady, WaitLoop
    <2>4. CASE WaitLatch(p)
      BY <2>0, <2>4 DEF WaitLatch, Goto, Steady, WaitLoop
    <2>5. CASE Interrupt(p)
      BY <2>5 DEF Interrupt, Steady
    <2>. QED
      BY <2>1, <2>2, <2>3, <2>4, <2>5
  <1>5. \A b \in Backend : Steady(b)
    <2>1. ASSUME NEW b \in Backend, b # p PROVE Steady(b)
      BY <1>1, <2>1, OthersUntouched DEF Untouched, Steady
    <2>. QED
      BY <1>4, <2>1
  <1>. QED
    <2>1. Checkpointer \in Waker
      BY DEF Waker
    <2>. QED
      BY <1>2, <1>3, <1>5, <2>1, QueuesKept, FutileKept, OrderKept DEF QueueInv

LEMMA QueuesEnqueue ==
  ASSUME Inv, TypeOK', NEW p \in Backend, Enqueue(p)
  PROVE  QueueInv'
  <1>. DEFINE m0 == mode[p]
              q == SyncRepQueue[m0]
              l == XactCommitLSN[p]
              k == InsertionPoint(q, l)
  <1>0. /\ at[p] = "commit" /\ m0 \in Mode /\ Free /\ sync_standbys_defined /\ ~(l <= lsn[m0])
        /\ waitLSN' = [waitLSN EXCEPT ![p] = l] /\ waitLSN \in [Backend -> Nat]
        /\ SyncRepQueue' = [SyncRepQueue EXCEPT ![m0] = Inserted(q, k, p)]
        /\ UNCHANGED <<lsn, todo, thisproc, sync_standbys_defined, excused, mode>>
    BY DEF Enqueue, SyncRepQueueInsert, Inserted, Inv, TypeOK
  <1>1. q \in Seq(Backend) /\ l \in Nat /\ lsn[m0] \in Nat /\ SyncRepQueue \in [Mode -> Seq(Backend)]
    BY <1>0 DEF Inv, TypeOK
  <1>2. /\ k \in 0..Len(q)
        /\ \A j \in 1..k : waitLSN[q[j]] < l
        /\ \A j \in (k + 1)..Len(q) : waitLSN[q[j]] >= l
    BY <1>0, <1>1, InsertionPointFacts DEF Inv, Sorted
  <1>3. BackendAction(p)
    BY DEF BackendAction
  <1>4. \A w \in Waker : at'[w] = at[w]
    BY <1>3, ControlBackend
  <1>5. \A b \in Backend : b # p => Untouched(b)
    BY <1>3, OthersUntouched
  <1>6. at'[p] = "reset" /\ syncRepState'[p] = "WAITING" /\ waitLSN'[p] = l /\ mode'[p] = m0
    BY DEF Enqueue, Goto, Inv, TypeOK, Process
  <1>7. \A m \in Mode : \A i \in DOMAIN SyncRepQueue[m] : SyncRepQueue[m][i] \in Backend /\ SyncRepQueue[m][i] # p
    BY <1>0, QueuedWaits DEF WaitLoop
  <1>8. ASSUME NEW b \in Backend, b # p PROVE waitLSN'[b] = waitLSN[b]
    BY <1>0, <1>8
  <1>9. ASSUME NEW i \in DOMAIN q PROVE waitLSN[q[i]] # l
    <2>1. q[i] \in Backend /\ q[i] # p /\ waitLSN[q[i]] = XactCommitLSN[q[i]]
      BY <1>0, <1>7, QueuedWaits
    <2>2. l > 0
      BY <1>0 DEF Inv, CommitsRight
    <2>. QED
      BY <2>1, <2>2 DEF Inv, CommitsRight
  <1>. DEFINE r == Inserted(q, k, p)
  <1>10. /\ r \in Seq(Backend) /\ Len(r) = Len(q) + 1
         /\ \A j \in 1..(Len(q) + 1) : r[j] = IF j <= k THEN q[j] ELSE IF j = k + 1 THEN p ELSE q[j - 1]
    <2>. HIDE DEF q, k
    <2>. QED
      BY <1>1, <1>2, InsertedFacts
  <1>11. SyncRepQueue'[m0] = r /\ \A m \in Mode : m # m0 => SyncRepQueue'[m] = SyncRepQueue[m]
    BY <1>0, <1>1
  <1>. HIDE DEF r, k, l, q, m0
  <1>. DEFINE h(j) == IF j <= k THEN j ELSE j - 1
  <1>12. DOMAIN r = 1..(Len(q) + 1) /\ DOMAIN q = 1..Len(q) /\ Len(q) \in Nat /\ k \in Nat /\ k <= Len(q)
    BY <1>1, <1>2, <1>10
  <1>13. ASSUME NEW j \in DOMAIN r, j # k + 1
         PROVE  h(j) \in DOMAIN q /\ r[j] = q[h(j)] /\ r[j] # p /\ r[j] \in Backend
    <2>1. h(j) \in DOMAIN q /\ r[j] = q[h(j)]
      BY <1>10, <1>12, <1>13
    <2>. HIDE DEF h
    <2>. QED
      BY <1>0, <1>7, <2>1 DEF q
  <1>14. k + 1 \in DOMAIN r /\ r[k + 1] = p
    BY <1>10, <1>12
  <1>15. ASSUME NEW m \in Mode, NEW j \in DOMAIN SyncRepQueue'[m]
         PROVE  \/ SyncRepQueue'[m][j] = p /\ m = m0 /\ j = k + 1
                \/ SyncRepQueue'[m][j] # p /\ \E i \in DOMAIN SyncRepQueue[m] : SyncRepQueue'[m][j] = SyncRepQueue[m][i]
    <2>1. CASE m = m0
      BY <1>11, <1>13, <1>14, <1>15, <2>1 DEF q
    <2>2. CASE m # m0
      BY <1>7, <1>11, <1>15, <2>2
    <2>. QED
      BY <2>1, <2>2
  <1>16. QueuedRight'
    <2>1. SUFFICES ASSUME NEW m \in Mode, NEW j \in DOMAIN SyncRepQueue'[m]
                   PROVE  /\ at'[SyncRepQueue'[m][j]] \in WaitLoop
                          /\ syncRepState'[SyncRepQueue'[m][j]] = "WAITING"
                          /\ mode'[SyncRepQueue'[m][j]] = m
      BY DEF QueuedRight
    <2>2. CASE SyncRepQueue'[m][j] = p
      BY <1>6, <1>15, <2>2 DEF WaitLoop
    <2>3. CASE SyncRepQueue'[m][j] # p
      <3>1. PICK i \in DOMAIN SyncRepQueue[m] : SyncRepQueue'[m][j] = SyncRepQueue[m][i]
        BY <1>15, <2>3
      <3>. QED
        BY <1>0, <1>5, <2>3, <3>1, QueuedWaits DEF Untouched
    <2>. QED
      BY <2>2, <2>3
  <1>17. MarkedRight' /\ AllExcused'
    <2>1. \A w \in Waker : at'[w] \notin LockedPlace
      BY <1>0, <1>4, LockHolder
    <2>. QED
      BY <2>1 DEF MarkedRight, AllExcused, LockedPlace, Waker
  <1>18. \A i, j \in DOMAIN r : r[i] = r[j] => i = j
    <2>1. SUFFICES ASSUME NEW i \in DOMAIN r, NEW j \in DOMAIN r, r[i] = r[j] PROVE i = j
      OBVIOUS
    <2>2. CASE i = k + 1 \/ j = k + 1
      BY <1>13, <1>14, <2>1, <2>2
    <2>3. CASE i # k + 1 /\ j # k + 1
      <3>1. h(i) \in DOMAIN q /\ h(j) \in DOMAIN q /\ q[h(i)] = q[h(j)]
        BY <1>13, <2>1, <2>3
      <3>2. h(i) = h(j)
        <4>. HIDE DEF h
        <4>. QED
          BY <1>0, <3>1 DEF Inv, QueuedOnce, q
      <3>. QED
        BY <1>12, <2>3, <3>2
    <2>. QED
      BY <2>2, <2>3
  <1>19. QueuedOnce'
    <2>1. SUFFICES ASSUME NEW m \in Mode, NEW n \in Mode, NEW i \in DOMAIN SyncRepQueue'[m],
                          NEW j \in DOMAIN SyncRepQueue'[n], SyncRepQueue'[m][i] = SyncRepQueue'[n][j]
                   PROVE  m = n /\ i = j
      BY DEF QueuedOnce
    <2>2. m = n
      <3>1. CASE SyncRepQueue'[m][i] = p
        BY <1>15, <2>1, <3>1
      <3>2. CASE SyncRepQueue'[m][i] # p
        BY <1>15, <2>1, <3>2 DEF Inv, QueuedOnce
      <3>. QED
        BY <3>1, <3>2
    <2>3. CASE m = m0
      BY <1>11, <1>18, <2>1, <2>2, <2>3
    <2>4. CASE m # m0
      BY <1>11, <2>1, <2>2, <2>4 DEF Inv, QueuedOnce
    <2>. QED
      BY <2>2, <2>3, <2>4
  <1>20. \A i, j \in DOMAIN r : i < j => waitLSN'[r[i]] < waitLSN'[r[j]]
    <2>1. SUFFICES ASSUME NEW i \in DOMAIN r, NEW j \in DOMAIN r, i < j PROVE waitLSN'[r[i]] < waitLSN'[r[j]]
      OBVIOUS
    <2>2. CASE i = k + 1
      <3>1. j # k + 1 /\ h(j) \in (k + 1)..Len(q) /\ h(j) \in DOMAIN q
        BY <1>12, <2>1, <2>2
      <3>2. waitLSN[q[h(j)]] >= l /\ waitLSN[q[h(j)]] # l
        BY <1>2, <1>9, <3>1
      <3>3. r[j] = q[h(j)] /\ r[j] # p /\ r[j] \in Backend
        BY <1>13, <3>1
      <3>4. waitLSN'[r[j]] = waitLSN[q[h(j)]] /\ waitLSN[q[h(j)]] \in Nat
        BY <1>0, <1>8, <3>3
      <3>5. waitLSN'[r[i]] = l
        BY <1>6, <1>14, <2>2
      <3>. HIDE DEF h
      <3>. QED
        BY <1>1, <3>2, <3>4, <3>5 DEF l
    <2>3. CASE i # k + 1
      <3>1. h(i) \in DOMAIN q /\ r[i] = q[h(i)] /\ r[i] # p /\ r[i] \in Backend
        BY <1>13, <2>3
      <3>2. waitLSN'[r[i]] = waitLSN[q[h(i)]]
        BY <1>8, <3>1
      <3>3. CASE j = k + 1
        <4>1. h(i) \in 1..k
          BY <1>12, <2>1, <3>3
        <4>2. waitLSN[q[h(i)]] < l /\ waitLSN'[r[j]] = l
          BY <1>2, <1>6, <1>14, <3>3, <4>1
        <4>. QED
          BY <3>2, <4>2
      <3>4. CASE j # k + 1
        <4>1. h(j) \in DOMAIN q /\ r[j] = q[h(j)] /\ r[j] # p /\ r[j] \in Backend
          BY <1>13, <3>4
        <4>2. waitLSN'[r[j]] = waitLSN[q[h(j)]]
          BY <1>8, <4>1
        <4>3. h(i) < h(j)
          BY <1>12, <2>1, <2>3, <3>4
        <4>. HIDE DEF h
        <4>4. waitLSN[q[h(i)]] < waitLSN[q[h(j)]]
          BY <1>0, <3>1, <4>1, <4>3 DEF Inv, Sorted, q
        <4>. QED
          BY <3>2, <4>2, <4>4
      <3>. QED
        BY <3>3, <3>4
    <2>. QED
      BY <2>2, <2>3
  <1>21. Sorted'
    <2>1. SUFFICES ASSUME NEW m \in Mode, NEW i \in DOMAIN SyncRepQueue'[m], NEW j \in DOMAIN SyncRepQueue'[m], i < j
                   PROVE  waitLSN'[SyncRepQueue'[m][i]] < waitLSN'[SyncRepQueue'[m][j]]
      BY DEF Sorted
    <2>2. CASE m = m0
      BY <1>11, <1>20, <2>1, <2>2
    <2>3. CASE m # m0
      BY <1>7, <1>8, <1>11, <2>1, <2>3 DEF Inv, Sorted
    <2>. QED
      BY <2>2, <2>3
  <1>22. NoneForgotten'
    <2>1. SUFFICES ASSUME NEW m \in Mode, NEW j \in DOMAIN SyncRepQueue'[m]
                   PROVE  waitLSN'[SyncRepQueue'[m][j]] > lsn[m] \/ \E w \in Waker : Owes(w, m)
      BY <1>0 DEF NoneForgotten, Owes
    <2>2. CASE SyncRepQueue'[m][j] = p
      BY <1>0, <1>1, <1>6, <1>15, <2>2 DEF l, m0
    <2>3. CASE SyncRepQueue'[m][j] # p
      <3>1. PICK i \in DOMAIN SyncRepQueue[m] : SyncRepQueue'[m][j] = SyncRepQueue[m][i]
        BY <1>15, <2>3
      <3>2. waitLSN'[SyncRepQueue'[m][j]] = waitLSN[SyncRepQueue[m][i]]
        BY <1>7, <1>8, <3>1
      <3>. QED
        BY <3>1, <3>2 DEF Inv, NoneForgotten
    <2>. QED
      BY <2>2, <2>3
  <1>23. NoneFutile'
    BY <1>0 DEF NoneFutile
  <1>. QED
    BY <1>16, <1>17, <1>19, <1>21, <1>22, <1>23 DEF QueueInv

\* Nothing happens to the queues and the backends.
LEMMA QueuesAlone ==
  ASSUME Inv, \A b \in Backend : Untouched(b),
         UNCHANGED <<SyncRepQueue, waitLSN, lsn, todo, sync_standbys_defined>>,
         \A w \in Waker : /\ at'[w] = "delete" <=> at[w] = "delete"
                          /\ at[w] = "delete" => thisproc'[w] = thisproc[w]
                          /\ at'[w] \in LockedPlace => at[w] \in LockedPlace
  PROVE  QueueInv'
  <1>1. Checkpointer \in Waker
    BY DEF Waker
  <1>2. \A b \in Backend : Steady(b)
    BY DEF Untouched, Steady
  <1>. QED
    BY <1>1, <1>2, QueuesKept, FutileKept, OrderKept DEF QueueInv

LEMMA OwesTail ==
  ASSUME Inv, NEW w \in Waker, todo[w] # <<>>, todo' = [todo EXCEPT ![w] = Tail(@)]
  PROVE  /\ \A m \in Mode : Owes(w, m) /\ m # Head(todo[w]) => Owes(w, m)'
         /\ \A x \in Waker : x # w => todo'[x] = todo[x]
  <1>1. /\ todo[w] \in Seq(Mode) /\ todo'[w] = Tail(todo[w])
        /\ \A x \in Waker : x # w => todo'[x] = todo[x]
    BY DEF Inv, TypeOK
  <1>2. ASSUME NEW m \in Mode, NEW i \in DOMAIN todo[w], todo[w][i] = m, m # Head(todo[w])
        PROVE  Owes(w, m)'
    <2>1. i \in 2..Len(todo[w])
      BY <1>1, <1>2
    <2>2. i - 1 \in DOMAIN Tail(todo[w]) /\ Tail(todo[w])[i - 1] = todo[w][i]
      BY <1>1, <2>1
    <2>. QED
      BY <1>1, <1>2, <2>2 DEF Owes
  <1>. QED
    BY <1>1, <1>2 DEF Owes

LEMMA QueuesWake ==
  ASSUME Inv, TypeOK', NEW w \in Waker, WakeAction(w)
  PROVE  QueueInv'
  <1>0. /\ UNCHANGED <<lsn, sync_standbys_defined, waitLSN, mode, XactCommitLSN, outcome, excused>>
        /\ at = [x \in Process |-> at[x]] /\ todo = [x \in Waker |-> todo[x]]
        /\ thisproc = [x \in Waker |-> thisproc[x]] /\ w \in Process
    BY DEF WakeAction, Unlock, Mark, NextQueue, WakeDelete, WakeSetLatch, Inv, TypeOK, Process
  <1>1. /\ \A b \in Backend : at'[b] = at[b]
        /\ \A x \in Waker : x # w => /\ at[x] \notin LockedPlace /\ at'[x] = at[x]
                                     /\ todo[x] = <<>> /\ todo'[x] = <<>>
    BY ControlWake DEF Process
  <1>2. Checkpointer \in Waker /\ at[w] \in LockedPlace
    BY ControlWake DEF Waker
  <1>3. ASSUME UNCHANGED syncRepState PROVE \A b \in Backend : Untouched(b)
    BY <1>0, <1>1, <1>3 DEF Untouched
  <1>4. CASE Unlock(w)
    <2>1. UNCHANGED <<syncRepState, SyncRepQueue, todo, thisproc>> /\ at[w] = "wake" /\ at'[w] = "loop"
      BY <1>0, <1>4 DEF Unlock, Goto
    <2>. QED
      BY <1>0, <1>1, <1>2, <1>3, <2>1, QueuesAlone DEF LockedPlace
  <1>5. CASE WakeSetLatch(w)
    <2>1. UNCHANGED <<syncRepState, SyncRepQueue, todo>> /\ at[w] = "latch" /\ at'[w] = "wake"
      BY <1>0, <1>5 DEF WakeSetLatch, Goto
    <2>. QED
      BY <1>0, <1>1, <1>2, <1>3, <2>1, QueuesAlone DEF LockedPlace
  <1>6. CASE NextQueue(w)
    <2>0. /\ UNCHANGED <<syncRepState, SyncRepQueue, thisproc, at>> /\ at[w] = "wake" /\ todo[w] # <<>>
          /\ todo' = [todo EXCEPT ![w] = Tail(@)]
          /\ \/ SyncRepQueue[Head(todo[w])] = <<>>
             \/ /\ w # Checkpointer
                /\ ~(lsn[Head(todo[w])] >= waitLSN[SyncRepQueue[Head(todo[w])][1]])
      BY <1>6 DEF NextQueue
    <2>1. \A b \in Backend : Steady(b)
      BY <1>3, <2>0 DEF Untouched, Steady
    <2>2. QueuedRight' /\ MarkedRight' /\ QueuedOnce' /\ AllExcused'
      BY <1>1, <2>0, <2>1, QueuesKept DEF LockedPlace
    <2>3. Sorted'
      BY <1>0, <2>0 DEF Inv, Sorted
    <2>4. NoneForgotten'
      <3>1. SUFFICES ASSUME NEW m \in Mode, NEW i \in DOMAIN SyncRepQueue[m]
                     PROVE  waitLSN[SyncRepQueue[m][i]] > lsn[m] \/ (\E x \in Waker : Owes(x, m))'
        BY <1>0, <2>0 DEF NoneForgotten
      <3>2. CASE m = Head(todo[w])
        <4>1. SyncRepQueue[m] \in Seq(Backend) /\ waitLSN \in [Backend -> Nat] /\ lsn[m] \in Nat
          BY DEF Inv, TypeOK
        <4>2. i \in 1..Len(SyncRepQueue[m]) /\ 1 \in DOMAIN SyncRepQueue[m] /\ SyncRepQueue[m] # <<>>
          BY <4>1
        <4>3. ~(lsn[m] >= waitLSN[SyncRepQueue[m][1]])
          BY <2>0, <3>2, <4>2
        <4>4. i = 1 \/ waitLSN[SyncRepQueue[m][1]] < waitLSN[SyncRepQueue[m][i]]
          BY <4>2 DEF Inv, Sorted
        <4>5. waitLSN[SyncRepQueue[m][1]] \in Nat /\ waitLSN[SyncRepQueue[m][i]] \in Nat
          BY <4>1, <4>2
        <4>. QED
          BY <4>1, <4>3, <4>4, <4>5
      <3>3. CASE m # Head(todo[w])
        <4>1. CASE waitLSN[SyncRepQueue[m][i]] > lsn[m]
          BY <4>1
        <4>2. CASE \E x \in Waker : Owes(x, m)
          <5>1. Owes(w, m)
            BY <1>1, <4>2 DEF Owes
          <5>2. Owes(w, m)'
            BY <2>0, <3>3, <5>1, OwesTail
          <5>. QED
            BY <5>2
        <4>. QED
          BY <4>1, <4>2 DEF Inv, NoneForgotten
      <3>. QED
        BY <3>2, <3>3
    <2>5. NoneFutile'
      <3>1. CASE w # Checkpointer
        BY <1>0, <1>1, <1>2, <2>0, <3>1, FutileKept
      <3>2. CASE w = Checkpointer
        <4>1. SUFFICES ASSUME NEW m \in Mode, SyncRepQueue[m] # <<>>
                       PROVE  sync_standbys_defined \/ Owes(Checkpointer, m)'
          BY <1>0, <2>0 DEF NoneFutile
        <4>2. m # Head(todo[w])
          BY <2>0, <3>2, <4>1
        <4>3. sync_standbys_defined \/ Owes(w, m)
          BY <3>2, <4>1, Zenon DEF Inv, NoneFutile
        <4>4. CASE sync_standbys_defined
          BY <4>4
        <4>5. CASE Owes(w, m)
          BY <2>0, <3>2, <4>2, <4>5, OwesTail
        <4>. QED
          BY <4>3, <4>4, <4>5
      <3>. QED
        BY <3>1, <3>2
    <2>. QED
      BY <2>2, <2>3, <2>4, <2>5 DEF QueueInv
  <1>7. ASSUME NEW p \in Backend, Mark(w, p) PROVE QueueInv'
    <2>0. /\ UNCHANGED <<SyncRepQueue, todo>> /\ at[w] = "wake" /\ at'[w] = "delete" /\ thisproc'[w] = p
          /\ SyncRepQueue[Head(todo[w])] # <<>> /\ p = SyncRepQueue[Head(todo[w])][1]
          /\ syncRepState' = [syncRepState EXCEPT ![p] = "WAIT_COMPLETE"]
      BY <1>0, <1>7 DEF Mark, Goto
    <2>1. Marked(p)' /\ \A b \in Backend : ~Marked(b)
      BY <2>0, MarkedFacts DEF Marked
    <2>2. \A b \in Backend : b # p => syncRepState'[b] = syncRepState[b]
      BY <2>0 DEF Inv, TypeOK
    <2>3. QueuedRight'
      <3>1. SUFFICES ASSUME NEW m \in Mode, NEW i \in DOMAIN SyncRepQueue[m], SyncRepQueue[m][i] # p
                     PROVE  /\ at'[SyncRepQueue[m][i]] \in WaitLoop /\ syncRepState'[SyncRepQueue[m][i]] = "WAITING"
                            /\ mode'[SyncRepQueue[m][i]] = m
        BY <2>0, <2>1 DEF QueuedRight
      <3>2. SyncRepQueue[m][i] \in Backend
        BY QueuedIsBackend DEF Inv
      <3>. QED
        BY <1>0, <1>1, <2>1, <2>2, <3>1, <3>2 DEF Inv, QueuedRight
    <2>4. MarkedRight'
      BY <1>1, <2>0 DEF MarkedRight, LockedPlace
    <2>5. QueuedOnce' /\ NoneFutile' /\ Sorted' /\ NoneForgotten'
      BY <1>0, <2>0, FutileKept, OrderKept DEF Inv, QueuedOnce
    <2>6. AllExcused'
      <3>1. SUFFICES ASSUME at'[Checkpointer] \in LockedPlace, NEW m \in Mode, NEW i \in DOMAIN SyncRepQueue[m],
                            SyncRepQueue[m][i] # p
                     PROVE  excused[SyncRepQueue[m][i]]
        BY <1>0, <2>0, <2>1 DEF AllExcused
      <3>2. at[Checkpointer] \in LockedPlace
        BY <1>1, <1>2, <3>1
      <3>3. SyncRepQueue[m][i] \in Backend
        BY QueuedIsBackend DEF Inv
      <3>. QED
        BY <2>1, <3>2, <3>3 DEF Inv, AllExcused
    <2>. QED
      BY <2>3, <2>4, <2>5, <2>6 DEF QueueInv
  <1>8. CASE WakeDelete(w)
    <2>. DEFINE p == thisproc[w]
    <2>0. /\ UNCHANGED <<syncRepState, todo, thisproc>> /\ at[w] = "delete" /\ at'[w] = "latch"
          /\ SyncRepQueue' = Delete(p)
      BY <1>0, <1>8 DEF WakeDelete, Goto
    <2>1. \A b \in Backend : Marked(b) => b = p
      BY <2>0, MarkedFacts
    <2>2. \A m \in Mode : \A j \in DOMAIN SyncRepQueue'[m] : \E i \in DOMAIN SyncRepQueue[m] :
            SyncRepQueue'[m][j] = SyncRepQueue[m][i] /\ SyncRepQueue[m][i] # p
      BY <2>0, DeleteFacts
    <2>3. \A m \in Mode : \A i, j \in DOMAIN SyncRepQueue'[m] :
            i < j => waitLSN[SyncRepQueue'[m][i]] < waitLSN[SyncRepQueue'[m][j]]
      BY <2>0, DeleteFacts
    <2>4. QueuedOnce'
      BY <2>0, DeleteFacts
    <2>. HIDE DEF p
    <2>5. QueuedRight'
      <3>1. SUFFICES ASSUME NEW m \in Mode, NEW j \in DOMAIN SyncRepQueue'[m]
                     PROVE  /\ at'[SyncRepQueue'[m][j]] \in WaitLoop
                            /\ syncRepState'[SyncRepQueue'[m][j]] = "WAITING"
                            /\ mode'[SyncRepQueue'[m][j]] = m
        BY DEF QueuedRight
      <3>2. PICK i \in DOMAIN SyncRepQueue[m] : SyncRepQueue'[m][j] = SyncRepQueue[m][i] /\ SyncRepQueue[m][i] # p
        BY <2>2
      <3>3. SyncRepQueue[m][i] \in Backend
        BY QueuedIsBackend DEF Inv
      <3>. QED
        BY <1>0, <1>1, <2>0, <2>1, <3>2, <3>3 DEF Inv, QueuedRight
    <2>6. MarkedRight'
      BY <1>1, <2>0 DEF MarkedRight, LockedPlace
    <2>7. Sorted'
      BY <1>0, <2>3 DEF Sorted
    <2>8. NoneForgotten'
      BY <1>0, <2>0, <2>2 DEF Inv, NoneForgotten, Owes
    <2>9. NoneFutile'
      <3>1. SUFFICES ASSUME NEW m \in Mode, SyncRepQueue'[m] # <<>>
                     PROVE  sync_standbys_defined \/ Owes(Checkpointer, m)
        BY <1>0, <2>0 DEF NoneFutile, Owes
      <3>2. 1 \in DOMAIN SyncRepQueue'[m]
        BY <3>1 DEF TypeOK
      <3>3. SyncRepQueue[m] # <<>>
        BY <2>2, <3>2
      <3>. QED
        BY <3>3 DEF Inv, NoneFutile
    <2>10. AllExcused'
      <3>1. SUFFICES ASSUME at'[Checkpointer] \in LockedPlace, NEW m \in Mode, NEW j \in DOMAIN SyncRepQueue'[m]
                     PROVE  excused[SyncRepQueue'[m][j]]
        BY <1>0 DEF AllExcused
      <3>2. at[Checkpointer] \in LockedPlace
        BY <1>1, <1>2, <3>1
      <3>3. PICK i \in DOMAIN SyncRepQueue[m] : SyncRepQueue'[m][j] = SyncRepQueue[m][i] /\ SyncRepQueue[m][i] # p
        BY <2>2
      <3>4. SyncRepQueue[m][i] \in Backend
        BY QueuedIsBackend DEF Inv
      <3>. QED
        BY <2>1, <3>2, <3>3, <3>4 DEF Inv, AllExcused
    <2>. QED
      BY <2>4, <2>5, <2>6, <2>7, <2>8, <2>9, <2>10 DEF QueueInv
  <1>. QED
    BY <1>4, <1>5, <1>6, <1>7, <1>8 DEF WakeAction

LEMMA QueuesRelease ==
  ASSUME Inv, NEW s \in Standby, Release(s)
  PROVE  QueueInv'
  <1>0. /\ UNCHANGED <<sync_standbys_defined, SyncRepQueue, waitLSN, syncRepState, mode, excused, thisproc>>
        /\ Free
        /\ lsn' = [m \in Mode |-> IF lsn[m] < Position(s, m) THEN Position(s, m) ELSE lsn[m]]
        /\ todo' = [todo EXCEPT ![s] = Advanced(s, SYNC_REP_WAIT_WRITE) \o Advanced(s, SYNC_REP_WAIT_FLUSH)]
    BY DEF Release
  <1>1. /\ \A b \in Backend : at'[b] = at[b]
        /\ \A w \in Waker : w # s => at'[w] = at[w]
        /\ at'[s] \in {"loop", "wake"}
    BY ControlRelease DEF Process
  <1>2. \A w \in Waker : at[w] \notin LockedPlace /\ todo[w] = <<>>
    BY <1>0, LockHolder
  <1>3. Checkpointer \in Waker /\ Checkpointer # s /\ s \in Waker /\ todo = [w \in Waker |-> todo[w]]
    BY ConfigAssumption DEF Waker, Inv, TypeOK
  <1>4. \A b \in Backend : Steady(b)
    BY <1>0, <1>1 DEF Steady
  <1>5. QueuedRight' /\ MarkedRight' /\ QueuedOnce' /\ AllExcused'
    BY <1>0, <1>1, <1>2, <1>3, <1>4, QueuesKept DEF LockedPlace
  <1>6. NoneFutile'
    BY <1>0, <1>3, FutileKept
  <1>7. Sorted'
    BY <1>0 DEF Inv, Sorted
  <1>8. NoneForgotten'
    <2>1. SUFFICES ASSUME NEW m \in Mode, NEW i \in DOMAIN SyncRepQueue[m]
                   PROVE  waitLSN[SyncRepQueue[m][i]] > lsn'[m] \/ (\E w \in Waker : Owes(w, m))'
      BY <1>0 DEF NoneForgotten
    <2>2. CASE lsn[m] < Position(s, m)
      <3>1. Advanced(s, m) = <<m>>
        BY <2>2 DEF Advanced
      <3>2. todo'[s] = Advanced(s, SYNC_REP_WAIT_WRITE) \o Advanced(s, SYNC_REP_WAIT_FLUSH)
        BY <1>0, <1>3
      <3>3. \A n \in Mode : Advanced(s, n) = <<n>> \/ Advanced(s, n) = <<>>
        BY DEF Advanced
      <3>4. \E j \in DOMAIN todo'[s] : todo'[s][j] = m
        <4>. DEFINE a == Advanced(s, SYNC_REP_WAIT_WRITE)
                    b == Advanced(s, SYNC_REP_WAIT_FLUSH)
        <4>0. a \in Seq(Mode) /\ b \in Seq(Mode) /\ todo'[s] = a \o b
          BY <3>2 DEF Advanced, Mode
        <4>1. a = <<m>> \/ b = <<m>>
          BY <3>1 DEF Mode
        <4>2. Len(<<m>>) = 1 /\ <<m>>[1] = m
          OBVIOUS
        <4>. HIDE DEF a, b
        <4>3. a \o b \in Seq(Mode) /\ Len(a \o b) = Len(a) + Len(b)
          BY <4>0, ConcatLen, Zenon
        <4>4. Len(a) \in Nat /\ Len(b) \in Nat /\ DOMAIN (a \o b) = 1..(Len(a) + Len(b))
          BY <4>0, <4>3
        <4>5. CASE a = <<m>>
          <5>1. (a \o b)[1] = a[1]
            BY <4>0, <4>2, <4>5, ConcatLeft
          <5>2. 1 \in DOMAIN (a \o b)
            BY <4>2, <4>4, <4>5
          <5>. QED
            BY <4>0, <4>2, <4>5, <5>1, <5>2, Zenon
        <4>6. CASE b = <<m>>
          <5>1. (a \o b)[Len(a) + 1] = b[1]
            BY <4>0, <4>2, <4>6, ConcatRight
          <5>2. Len(a) + 1 \in DOMAIN (a \o b)
            BY <4>2, <4>4, <4>6
          <5>. QED
            BY <4>0, <4>2, <4>6, <5>1, <5>2, Zenon
        <4>. QED
          BY <4>1, <4>5, <4>6, Zenon
      <3>. QED
        BY <1>3, <3>4 DEF Owes
    <2>3. CASE ~(lsn[m] < Position(s, m))
      <3>1. lsn'[m] = lsn[m]
        BY <1>0, <2>3
      <3>2. ~\E w \in Waker : Owes(w, m)
        BY <1>2 DEF Owes
      <3>. QED
        BY <3>1, <3>2 DEF Inv, NoneForgotten
    <2>. QED
      BY <2>2, <2>3
  <1>. QED
    BY <1>5, <1>6, <1>7, <1>8 DEF QueueInv

LEMMA QueuesConfig ==
  ASSUME Inv, ConfigAction
  PROVE  QueueInv' /\ \A b \in Backend : Untouched(b)
  <1>0. UNCHANGED <<lsn, SyncRepQueue, procVars, xactVars, outcome, thisproc>>
    BY DEF ConfigAction, Reconfigure, ProcessConfigFile, KeepDefined, TurnOn, TurnOff, PostmasterDeath
  <1>1. /\ \A b \in Backend : at'[b] = at[b]
        /\ \A w \in Waker : w # Checkpointer => at'[w] = at[w]
        /\ Checkpointer \in Waker /\ at = [x \in Process |-> at[x]] /\ Checkpointer \in Process
        /\ todo = [w \in Waker |-> todo[w]]
    BY ControlConfig DEF Process, Waker, Inv, TypeOK
  <1>2. \A b \in Backend : excused[b] => excused'[b]
    BY DEF ConfigAction, Reconfigure, ProcessConfigFile, KeepDefined, TurnOn, TurnOff, PostmasterDeath
  <1>3. \A b \in Backend : Untouched(b)
    BY <1>0, <1>1, <1>2 DEF Untouched
  <1>4. \A b \in Backend : Steady(b)
    BY <1>3 DEF Untouched, Steady
  <1>5. CASE (\E c \in Configs : Reconfigure(c)) \/ (\E x \in Process : ProcessConfigFile(x)) \/ KeepDefined \/ PostmasterDeath
    <2>1. UNCHANGED <<todo, sync_standbys_defined>>
      BY <1>5 DEF Reconfigure, ProcessConfigFile, KeepDefined, PostmasterDeath
    <2>2. \/ at'[Checkpointer] = at[Checkpointer]
          \/ at[Checkpointer] \in {"loop", "update"} /\ at'[Checkpointer] \in {"loop", "update"}
      BY <1>1, <1>5 DEF Reconfigure, ProcessConfigFile, KeepDefined, PostmasterDeath, Goto
    <2>. QED
      BY <1>0, <1>1, <1>3, <2>1, <2>2, QueuesAlone DEF LockedPlace
  <1>6. CASE TurnOn \/ TurnOff
    <2>0. Free /\ at'[Checkpointer] \in {"loop", "wake"}
      BY <1>1, <1>6 DEF TurnOn, TurnOff, Goto
    <2>1. \A w \in Waker : at[w] \notin LockedPlace /\ todo[w] = <<>>
      BY <2>0, LockHolder
    <2>2. /\ QueuedRight' /\ MarkedRight' /\ QueuedOnce'
          /\ (at'[Checkpointer] \in LockedPlace => at[Checkpointer] \in LockedPlace) => AllExcused'
      BY <1>0, <1>1, <1>4, <2>0, <2>1, QueuesKept DEF LockedPlace
    <2>3. Sorted'
      BY <1>0 DEF Inv, Sorted
    <2>4. NoneForgotten'
      BY <1>0, <2>1 DEF Inv, NoneForgotten, Owes
    <2>5. CASE TurnOn
      <3>1. sync_standbys_defined' /\ at'[Checkpointer] = "loop"
        BY <1>1, <2>5 DEF TurnOn, Goto
      <3>2. NoneFutile'
        BY <3>1 DEF NoneFutile
      <3>. QED
        BY <1>3, <2>2, <2>3, <2>4, <3>1, <3>2 DEF QueueInv, LockedPlace
    <2>6. CASE TurnOff
      <3>1. NoneFutile'
        <4>1. todo'[Checkpointer] = <<SYNC_REP_WAIT_WRITE, SYNC_REP_WAIT_FLUSH>>
          BY <1>1, <2>6 DEF TurnOff
        <4>2. \A m \in Mode : Owes(Checkpointer, m)'
          BY <4>1 DEF Owes, Mode
        <4>. QED
          BY <4>2 DEF NoneFutile
      <3>2. AllExcused'
        <4>1. SUFFICES ASSUME NEW m \in Mode, NEW i \in DOMAIN SyncRepQueue[m]
                       PROVE  excused'[SyncRepQueue[m][i]]
          BY <1>0 DEF AllExcused
        <4>2. SyncRepQueue[m][i] \in Backend /\ Committing(SyncRepQueue[m][i])
          BY <2>0, QueuedWaits DEF Committing, WaitLoop
        <4>. QED
          BY <2>6, <4>2 DEF TurnOff
      <3>. QED
        BY <1>3, <2>2, <2>3, <2>4, <3>1, <3>2 DEF QueueInv
    <2>. QED
      BY <1>6, <2>5, <2>6
  <1>. QED
    BY <1>3, <1>5, <1>6 DEF ConfigAction

\* The backend that is marked has a reason to stop waiting.
LEMMA AnswersWake ==
  ASSUME Inv, TypeOK', NEW w \in Waker, WakeAction(w)
  PROVE  CommitsRight' /\ StatesRight' /\ CompletesRight' /\ AckReplicated'
  <1>0. UNCHANGED <<lsn, standbyVars, waitLSN, mode, XactCommitLSN, flushedUpto, outcome, excused>>
    BY DEF WakeAction, Unlock, Mark, NextQueue, WakeDelete, WakeSetLatch
  <1>1. \A b \in Backend : at'[b] = at[b]
    BY ControlWake DEF Process
  <1>2. Grows
    BY <1>0, GrowsFacts DEF Inv
  <1>3. CASE UNCHANGED syncRepState
    BY <1>0, <1>1, <1>2, <1>3, AnswersUntouched DEF Untouched
  <1>4. ASSUME NEW p \in Backend, Mark(w, p)
        PROVE  CommitsRight' /\ StatesRight' /\ CompletesRight' /\ AckReplicated'
    <2>. DEFINE m == Head(todo[w])
    <2>0. /\ at[w] = "wake" /\ syncRepState' = [syncRepState EXCEPT ![p] = "WAIT_COMPLETE"]
          /\ SyncRepQueue[m] # <<>> /\ p = SyncRepQueue[m][1] /\ todo[w] # <<>>
          /\ w = Checkpointer \/ lsn[m] >= waitLSN[p]
      BY <1>4 DEF Mark
    <2>1. syncRepState'[p] = "WAIT_COMPLETE" /\ \A b \in Backend : b # p => syncRepState'[b] = syncRepState[b]
      BY <2>0 DEF Inv, TypeOK
    <2>2. m \in Mode
      <3>1. todo[w] \in Seq(Mode)
        BY DEF Inv, TypeOK
      <3>. QED
        BY <2>0, <3>1
    <2>. HIDE DEF m
    <2>3. 1 \in DOMAIN SyncRepQueue[m]
      <3>1. SyncRepQueue[m] \in Seq(Backend)
        BY <2>2 DEF Inv, TypeOK
      <3>. QED
        BY <2>0, <3>1
    <2>4. \A b \in Backend : ~Marked(b)
      BY <2>0, MarkedFacts
    <2>5. at[p] \in WaitLoop /\ mode[p] = m
      BY <2>0, <2>2, <2>3, <2>4 DEF Inv, QueuedRight
    <2>6. waitLSN[p] = XactCommitLSN[p]
      BY <2>5 DEF Inv, StatesRight, StateRight
    <2>7. StateRight(p)'
      BY <1>0, <1>1, <2>1, <2>5 DEF StateRight, Inv, StatesRight, WaitLoop
    <2>8. CompleteRight(p)'
      <3>1. CASE w = Checkpointer
        <4>1. excused[p]
          BY <2>0, <2>2, <2>3, <2>4, <3>1 DEF Inv, AllExcused, LockedPlace
        <4>. QED
          BY <1>0, <4>1 DEF CompleteRight
      <3>2. CASE lsn[m] >= waitLSN[p]
        <4>1. lsn[m] \in Nat /\ waitLSN[p] \in Nat
          BY <2>2 DEF Inv, TypeOK
        <4>2. XactCommitLSN[p] <= lsn[mode[p]]
          BY <2>5, <2>6, <3>2, <4>1
        <4>. QED
          BY <1>0, <4>2 DEF CompleteRight
      <3>. QED
        BY <2>0, <3>1, <3>2
    <2>9. \A b \in Backend : b # p => StateRight(b)' /\ CompleteRight(b)'
      <3>1. \A b \in Backend : b # p => Untouched(b)
        BY <1>0, <1>1, <2>1 DEF Untouched
      <3>. QED
        BY <1>2, <3>1, UntouchedKept
    <2>10. \A b \in Backend : AckRight(b)'
      BY <1>0, <1>2, AckKept
    <2>11. AckReplicated'
      BY <2>10, Zenon DEF AckReplicated, AckRight
    <2>12. CommitsRight'
      BY <1>0, <1>1, CommitsKept
    <2>. QED
      BY <2>7, <2>8, <2>9, <2>11, <2>12 DEF StatesRight, CompletesRight
  <1>. QED
    BY <1>3, <1>4 DEF WakeAction, Unlock, NextQueue, WakeDelete, WakeSetLatch
-----------------------------------------------------------------------------
(* The latch.                                                              *)

\* Nobody has taken notice of the backend, and it has not moved.
LatchAlone(b) ==
  /\ at'[b] = at[b] /\ syncRepState'[b] = syncRepState[b] /\ procLatch'[b] = procLatch[b]
  /\ ProcDiePending'[b] = ProcDiePending[b] /\ QueryCancelPending'[b] = QueryCancelPending[b]
  /\ (\E w \in Waker : thisproc[w] = b) => \E w \in Waker : thisproc'[w] = b

LEMMA LatchKept ==
  ASSUME Inv, NEW b \in Backend, LatchAlone(b)
  PROVE  LatchRight(b)'
  BY DEF Inv, LatchTells, LatchRight, LatchAlone

\* A backend elsewhere than between the test and the sleep need not be told.
LEMMA LatchElsewhere ==
  ASSUME NEW b, at'[b] \notin {"interrupts", "wait"} \/ procLatch'[b]
  PROVE  LatchRight(b)'
  BY DEF LatchRight

LEMMA LatchBackend ==
  ASSUME Inv, NEW p \in Backend, BackendAction(p)
  PROVE  LatchTells'
  <1>0. /\ p \in Process /\ at = [x \in Process |-> at[x]]
        /\ procLatch = [x \in Backend |-> procLatch[x]]
        /\ ProcDiePending = [x \in Backend |-> ProcDiePending[x]]
        /\ QueryCancelPending = [x \in Backend |-> QueryCancelPending[x]]
    BY DEF Inv, TypeOK, Process
  <1>a. UNCHANGED thisproc
    BY BackendMoves
  <1>1. ASSUME NEW b \in Backend, b # p
        PROVE  LatchRight(b)'
    <2>1. at'[b] = at[b] /\ syncRepState'[b] = syncRepState[b]
      BY <1>1, OthersUntouched DEF Untouched
    <2>2. procLatch'[b] = procLatch[b]
      BY <1>0, <1>1 DEF BackendAction, Commit, Answer, Enqueue, LookAtState, ResetThenTest,
           CheckInterrupts, WaitLatch, SyncRepCancelWait, Leave, DeleteAtProcExit, Interrupt,
           SyncRepCleanupAtProcExit
    <2>3. ProcDiePending'[b] = ProcDiePending[b] /\ QueryCancelPending'[b] = QueryCancelPending[b]
      BY <1>0, <1>1 DEF BackendAction, Commit, Answer, Enqueue, LookAtState,
           CheckInterrupts, WaitLatch, SyncRepCancelWait, Leave, DeleteAtProcExit, Interrupt,
           SyncRepCleanupAtProcExit
    <2>. QED
      BY <1>a, <2>1, <2>2, <2>3, LatchKept DEF LatchAlone
  <1>2. LatchRight(p)'
    <2>1. CASE (\E m \in CommitModes : Commit(p, m)) \/ Answer(p) \/ Enqueue(p) \/ WaitLatch(p)
               \/ SyncRepCancelWait(p) \/ Leave(p) \/ DeleteAtProcExit(p) \/ SyncRepCleanupAtProcExit(p)
      <3>1. at'[p] \notin {"interrupts", "wait"}
        BY <1>0, <2>1 DEF Commit, Answer, Enqueue, WaitLatch, SyncRepCancelWait, Leave,
             DeleteAtProcExit, SyncRepCleanupAtProcExit, Goto
      <3>. QED
        BY <3>1, LatchElsewhere
    <2>2. CASE Interrupt(p)
      <3>1. procLatch'[p]
        BY <1>0, <2>2 DEF Interrupt
      <3>. QED
        BY <3>1, LatchElsewhere
    <2>3. CASE LookAtState(p)
      <3>1. CASE at[p] = "reset"
        <4>1. at'[p] = "test"
          BY <1>0, <2>3, <3>1 DEF LookAtState, ResetThenTest, Goto
        <4>. QED
          BY <4>1, LatchElsewhere
      <3>2. CASE at[p] # "reset"
        <4>1. /\ at[p] = "test" /\ syncRepState' = syncRepState
              /\ at'[p] = IF syncRepState[p] = "WAIT_COMPLETE" THEN "leave" ELSE "interrupts"
          BY <1>0, <2>3, <3>2 DEF LookAtState, ResetThenTest, Goto
        <4>. QED
          BY <4>1 DEF LatchRight
      <3>. QED
        BY <3>1, <3>2
    <2>4. CASE CheckInterrupts(p)
      <3>1. /\ at[p] = "interrupts" /\ UNCHANGED <<syncRepState, procLatch>>
            /\ \/ at'[p] = "cancel"
               \/ at'[p] = "wait" /\ ~ProcDiePending'[p] /\ ~QueryCancelPending'[p]
        BY <1>0, <2>4 DEF CheckInterrupts, Goto
      <3>. QED
        BY <1>a, <3>1 DEF LatchRight, Inv, LatchTells
    <2>. QED
      BY <2>1, <2>2, <2>3, <2>4 DEF BackendAction
  <1>. QED
    BY <1>1, <1>2 DEF LatchTells

LEMMA LatchWake ==
  ASSUME Inv, TypeOK', NEW w \in Waker, WakeAction(w)
  PROVE  LatchTells'
  <1>0. UNCHANGED <<ProcDiePending, QueryCancelPending>>
    BY DEF WakeAction, Unlock, Mark, NextQueue, WakeDelete, WakeSetLatch
  <1>1. \A b \in Backend : at'[b] = at[b]
    BY ControlWake
  <1>2. CASE Unlock(w) \/ NextQueue(w) \/ WakeDelete(w)
    <2>1. UNCHANGED <<procLatch, syncRepState, thisproc>>
      BY <1>2 DEF Unlock, NextQueue, WakeDelete
    <2>. QED
      BY <1>0, <1>1, <2>1, LatchKept DEF LatchAlone, LatchTells
  <1>3. ASSUME NEW p \in Backend, Mark(w, p)
        PROVE  LatchTells'
    <2>1. /\ UNCHANGED procLatch /\ at[w] = "wake"
          /\ syncRepState' = [syncRepState EXCEPT ![p] = "WAIT_COMPLETE"]
          /\ thisproc' = [thisproc EXCEPT ![w] = p]
      BY <1>3 DEF Mark
    <2>2. thisproc[w] = NULL /\ NULL \notin Backend
      BY <2>1, LockHolder DEF Inv, LockRight
    <2>3. thisproc'[w] = p /\ \A x \in Waker : x # w => thisproc'[x] = thisproc[x]
      BY <2>1 DEF Inv, TypeOK
    <2>4. \A b \in Backend : b # p => syncRepState'[b] = syncRepState[b]
      BY <2>1 DEF Inv, TypeOK
    <2>5. \A b \in Backend : b # p => LatchRight(b)'
      BY <1>0, <1>1, <2>1, <2>2, <2>3, <2>4, LatchKept DEF LatchAlone
    <2>6. LatchRight(p)'
      BY <1>0, <1>1, <2>1, <2>3 DEF LatchRight, Inv, LatchTells
    <2>. QED
      BY <2>5, <2>6 DEF LatchTells
  <1>4. CASE WakeSetLatch(w)
    <2>1. /\ UNCHANGED syncRepState /\ at[w] = "latch"
          /\ procLatch' = [procLatch EXCEPT ![thisproc[w]] = TRUE]
          /\ thisproc' = [thisproc EXCEPT ![w] = NULL]
      BY <1>4 DEF WakeSetLatch
    <2>. DEFINE p == thisproc[w]
    <2>2. \A x \in Waker : x # w => thisproc'[x] = thisproc[x]
      BY <2>1 DEF Inv, TypeOK
    <2>3. /\ \A b \in Backend : b # p => procLatch'[b] = procLatch[b]
          /\ p \in Backend => procLatch'[p]
      BY <2>1 DEF Inv, TypeOK
    <2>. HIDE DEF p
    <2>4. \A b \in Backend : b # p => LatchRight(b)'
      BY <1>0, <1>1, <2>1, <2>2, <2>3, LatchKept DEF LatchAlone, p
    <2>5. \A b \in Backend : b = p => LatchRight(b)'
      BY <2>3, LatchElsewhere
    <2>. QED
      BY <2>4, <2>5 DEF LatchTells
  <1>. QED
    BY <1>2, <1>3, <1>4 DEF WakeAction
-----------------------------------------------------------------------------
(* Steps that leave the backends and the queues alone.                     *)

StandbyAction(s) ==
  \/ InitWalSenderSlot(s) \/ StartReplication(s) \/ SyncRepInitConfig(s)
  \/ XLogSendPhysical(s) \/ ProcessStandbyReplyMessage(s)
  \/ Receive(s) \/ Flush(s) \/ WalSndKill(s)

\* A walsender moves between places outside the lock.
LEMMA StandbyMoves ==
  ASSUME Inv, NEW s \in Standby, StandbyAction(s) \/ NothingToRelease(s)
  PROVE  /\ UNCHANGED <<sync_standbys_defined, lsn, SyncRepQueue, procVars, xactVars, interruptVars,
                        todo, thisproc, flushedUpto, ackVars>>
         /\ \A x \in Process : x # s => at'[x] = at[x]
         /\ at[s] = at'[s] \/ (at'[s] \notin LockedPlace /\ at[s] \notin LockedPlace)
  <1>0. s \in Process /\ at = [x \in Process |-> at[x]]
    BY DEF Inv, TypeOK, Process, Waker
  <1>1. /\ UNCHANGED <<sync_standbys_defined, lsn, SyncRepQueue, waitLSN, syncRepState, procLatch>>
        /\ UNCHANGED <<xactVars, interruptVars, todo, thisproc, flushedUpto, ackVars>>
    BY DEF StandbyAction, InitWalSenderSlot, StartReplication, SyncRepInitConfig, XLogSendPhysical,
         ProcessStandbyReplyMessage, Receive, Flush, WalSndKill, NothingToRelease
  <1>2. /\ \A x \in Process : x # s => at'[x] = at[x]
        /\ at[s] = at'[s] \/ (at'[s] \notin LockedPlace /\ at[s] \notin LockedPlace)
    BY <1>0 DEF StandbyAction, InitWalSenderSlot, StartReplication, SyncRepInitConfig, XLogSendPhysical,
         ProcessStandbyReplyMessage, Receive, Flush, WalSndKill, NothingToRelease, Goto, LockedPlace
  <1>. QED
    BY <1>1, <1>2

LEMMA StandbyKeeps ==
  ASSUME Inv, TypeOK', NEW s \in Standby, StandbyAction(s) \/ NothingToRelease(s)
  PROVE  /\ CommitsRight' /\ StatesRight' /\ CompletesRight' /\ AckReplicated'
         /\ QueueInv' /\ LatchTells'
  <1>0. \A b \in Backend : b # s /\ b \in Process
    BY ConfigAssumption DEF Process
  <1>a. \A w \in Waker : w \in Process
    BY DEF Process
  <1>1. \A b \in Backend : at'[b] = at[b]
    BY <1>0, StandbyMoves
  <1>2. UNCHANGED <<sync_standbys_defined, lsn, SyncRepQueue, procVars, xactVars, interruptVars,
                    todo, thisproc, flushedUpto, ackVars>>
    BY StandbyMoves, Zenon
  <1>3. \A b \in Backend : Untouched(b) /\ LatchAlone(b)
    BY <1>1, <1>2 DEF Untouched, LatchAlone
  <1>4. Grows
    <2>1. \/ Receive(s) \/ Flush(s) \/ WalSndKill(s) \/ UNCHANGED standbyVars
      BY DEF StandbyAction, InitWalSenderSlot, StartReplication, SyncRepInitConfig,
           XLogSendPhysical, ProcessStandbyReplyMessage, NothingToRelease
    <2>2. \A t \in Standby : written'[t] >= written[t] /\ flushed'[t] >= flushed[t]
      BY <2>1, StandbysMove
    <2>3. \A m \in Mode : lsn[m] \in Nat
      BY DEF Inv, TypeOK
    <2>. QED
      BY <1>2, <2>2, <2>3 DEF Grows
  <1>5. \A w \in Waker : /\ at'[w] = "delete" <=> at[w] = "delete"
                         /\ at'[w] \in LockedPlace => at[w] \in LockedPlace
    BY <1>a, StandbyMoves DEF LockedPlace
  <1>6. QueueInv'
    BY <1>2, <1>3, <1>5, QueuesAlone
  <1>7. LatchTells'
    BY <1>3, LatchKept DEF LatchTells
  <1>. QED
    BY <1>2, <1>3, <1>4, <1>6, <1>7, AnswersUntouched

LEMMA ReleaseKeeps ==
  ASSUME Inv, TypeOK', NEW s \in Standby, Release(s)
  PROVE  /\ CommitsRight' /\ StatesRight' /\ CompletesRight' /\ AckReplicated'
         /\ QueueInv' /\ LatchTells'
  <1>1. \A b \in Backend : at'[b] = at[b]
    BY ControlRelease
  <1>2. /\ UNCHANGED <<SyncRepQueue, procVars, xactVars, interruptVars, thisproc, flushedUpto,
                       standbyVars, ackVars>>
        /\ lsn' = [m \in Mode |-> IF lsn[m] < Position(s, m) THEN Position(s, m) ELSE lsn[m]]
    BY DEF Release
  <1>3. \A b \in Backend : Untouched(b) /\ LatchAlone(b)
    BY <1>1, <1>2 DEF Untouched, LatchAlone
  <1>4. Grows
    <2>1. /\ \A m \in Mode : lsn[m] \in Nat /\ lsn'[m] \in Nat
          /\ \A t \in Standby : written[t] \in Nat /\ flushed[t] \in Nat
      BY DEF Inv, TypeOK
    <2>2. \A m \in Mode : lsn'[m] = lsn[m] \/ lsn[m] < lsn'[m]
      BY <1>2
    <2>. QED
      BY <1>2, <2>1, <2>2 DEF Grows
  <1>5. LatchTells'
    BY <1>3, LatchKept DEF LatchTells
  <1>. QED
    BY <1>2, <1>3, <1>4, <1>5, QueuesRelease, AnswersUntouched

LEMMA ConfigKeeps ==
  ASSUME Inv, TypeOK', ConfigAction
  PROVE  /\ CommitsRight' /\ StatesRight' /\ CompletesRight' /\ AckReplicated'
         /\ QueueInv' /\ LatchTells'
  <1>1. QueueInv' /\ \A b \in Backend : Untouched(b)
    BY QueuesConfig
  <1>2. UNCHANGED <<lsn, standbyVars, XactCommitLSN, flushedUpto, procLatch, thisproc, interruptVars>>
    BY DEF ConfigAction, Reconfigure, ProcessConfigFile, KeepDefined, TurnOn, TurnOff, PostmasterDeath
  <1>3. Grows
    BY <1>2, GrowsFacts DEF Inv
  <1>4. LatchTells'
    BY <1>1, <1>2, LatchKept DEF LatchTells, LatchAlone, Untouched
  <1>. QED
    BY <1>1, <1>2, <1>3, <1>4, AnswersUntouched
-----------------------------------------------------------------------------
(* The theorems.                                                           *)

\* WalSndShmemInit leaves empty queues, nobody waits and nothing is confirmed.
LEMMA InitInv ==
  ASSUME Init
  PROVE  Inv
  <1>. USE DEF Init
  <1>1. TypeOK
    <2>1. Checkpointer \notin Backend /\ Checkpointer \notin Standby
      BY ConfigAssumption
    <2>2. /\ lsn \in [Mode -> Nat] /\ SyncRepQueue \in [Mode -> Seq(Backend)]
          /\ waitLSN \in [Backend -> Nat] /\ procLatch \in [Backend -> BOOLEAN]
          /\ syncRepState \in [Backend -> {"NOT_WAITING", "WAITING", "WAIT_COMPLETE"}]
      OBVIOUS
    <2>3. walsnds \in [Slot -> WalSnd]
      BY DEF WalSnd
    <2>4. /\ at \in [Process -> {"idle", "down", "update"}]
          /\ names \in Configs /\ conf \in [Process -> Configs]
      OBVIOUS
    <2>5. /\ mode \in [Backend -> Mode \cup {SYNC_REP_NO_WAIT}]
          /\ XactCommitLSN \in [Backend -> Nat]
          /\ ProcDiePending \in [Backend -> BOOLEAN] /\ QueryCancelPending \in [Backend -> BOOLEAN]
          /\ MyWalSnd \in [Standby -> {0} \cup Slot]
          /\ todo \in [Waker -> Seq(Mode)] /\ thisproc \in [Waker -> Backend \cup {NULL}]
      OBVIOUS
    <2>6. /\ received \in [Standby -> Nat] /\ flushed \in [Standby -> Nat] /\ written \in [Standby -> Nat]
          /\ outcome \in [Backend -> {"none", "acked", "warned", "terminated"}]
          /\ excused \in [Backend -> BOOLEAN]
      OBVIOUS
    <2>7. /\ sync_standbys_defined \in BOOLEAN /\ SyncRepLock \in Waker \cup {NULL}
          /\ flushedUpto \in Nat /\ PostmasterIsAlive \in BOOLEAN
          /\ reloads \in Nat /\ outages \in Nat /\ signals \in Nat
      OBVIOUS
    <2>. QED
      BY <2>2, <2>3, <2>4, <2>5, <2>6, <2>7 DEF TypeOK, WalSnd
  <1>2. /\ \A p \in Backend : at[p] = "idle"
        /\ \A s \in Standby : at[s] = "down"
        /\ at[Checkpointer] = "update"
    BY ConfigAssumption DEF Process, Waker
  <1>3. \A w \in Waker : /\ at[w] \in {"down", "update"} /\ todo[w] = <<>> /\ thisproc[w] = NULL
                         /\ SyncRepLock = NULL /\ w # NULL
    BY <1>2, ConfigAssumption DEF Waker, Process
  <1>4. PlacesRight
    BY <1>2 DEF PlacesRight, BackendPlace
  <1>5. LockRight
    BY <1>3 DEF LockRight, LockedPlace
  <1>6. SlotsRight
    BY <1>2 DEF SlotsRight, SlotRight
  <1>7. StandbysRight /\ LsnReplicated
    BY DEF StandbysRight, LsnReplicated
  <1>8. CommitsRight
    <2>1. (\A p \in Backend : XactCommitLSN[p] = 0) /\ flushedUpto = 0 /\ 0 <= 0 /\ ~(0 > 0)
      OBVIOUS
    <2>. QED
      BY <1>2, <2>1 DEF CommitsRight, WaitLoop
  <1>9. StatesRight /\ CompletesRight
    BY <1>2 DEF StatesRight, StateRight, CompletesRight, CompleteRight, WaitLoop
  <1>10. \A m \in Mode : SyncRepQueue[m] = <<>> /\ DOMAIN SyncRepQueue[m] = {}
    OBVIOUS
  <1>11. QueuedRight /\ QueuedOnce /\ Sorted /\ NoneForgotten /\ NoneFutile /\ AllExcused
    BY <1>10 DEF QueuedRight, QueuedOnce, Sorted, NoneForgotten, NoneFutile, AllExcused
  <1>12. MarkedRight
    BY <1>3 DEF MarkedRight
  <1>13. LatchTells
    BY <1>2 DEF LatchTells, LatchRight
  <1>14. AckReplicated
    BY DEF AckReplicated
  <1>. QED
    BY <1>1, <1>4, <1>5, <1>6, <1>7, <1>8, <1>9, <1>11, <1>12, <1>13, <1>14, Zenon DEF Inv

\* The parts of Inv together.
LEMMA InvParts ==
  ASSUME TypeOK', PlacesRight', LockRight', SlotsRight', StandbysRight', LsnReplicated',
         CommitsRight', StatesRight', CompletesRight', AckReplicated', QueueInv', LatchTells'
  PROVE  Inv'
  BY Zenon DEF Inv, QueueInv

LEMMA BackendStep ==
  ASSUME Inv, NEW p \in Backend,
         \/ \E m \in CommitModes : Commit(p, m)
         \/ Wait(p) \/ Interrupt(p) \/ SyncRepCleanupAtProcExit(p)
  PROVE  Inv'
  <1>1. TypeOK'
    BY TypeBackend, Zenon DEF Wait
  <1>2. BackendAction(p)
    <2>1. SyncRepWaitForLSN(p) => Answer(p) \/ Enqueue(p)
      BY WaitCases, Zenon DEF Inv
    <2>. QED
      BY <2>1, Zenon DEF Wait, BackendAction
  <1>3. PlacesRight' /\ LockRight' /\ SlotsRight' /\ StandbysRight' /\ LsnReplicated'
    BY <1>2, ControlBackend, Zenon
  <1>4. CommitsRight' /\ StatesRight' /\ CompletesRight' /\ AckReplicated'
    BY <1>1, <1>2, CommitsBackend, AnswersBackend, Zenon
  <1>5. QueueInv'
    BY <1>1, <1>2, QueuesDelete, QueuesLeave, QueuesSteady, QueuesEnqueue, Zenon DEF BackendAction
  <1>6. LatchTells'
    BY <1>2, LatchBackend, Zenon
  <1>. QED
    BY <1>1, <1>3, <1>4, <1>5, <1>6, InvParts, Zenon

LEMMA StandbyStep ==
  ASSUME Inv, NEW s \in Standby, Stream(s) \/ Receive(s) \/ Flush(s) \/ WalSndKill(s)
  PROVE  Inv'
  <1>1. TypeOK'
    BY TypeStandby, Zenon
  <1>2. StandbyAction(s) \/ NothingToRelease(s) \/ Release(s)
    BY ReleaseCases, Zenon DEF Stream, StandbyAction
  <1>3. PlacesRight' /\ LockRight' /\ SlotsRight' /\ StandbysRight' /\ LsnReplicated'
    BY <1>1, <1>2, ControlStream, ControlRelease, Zenon DEF StandbyAction
  <1>4. /\ CommitsRight' /\ StatesRight' /\ CompletesRight' /\ AckReplicated'
        /\ QueueInv' /\ LatchTells'
    <2>1. CASE StandbyAction(s) \/ NothingToRelease(s)
      BY <1>1, <2>1, StandbyKeeps, Zenon
    <2>2. CASE Release(s)
      BY <1>1, <2>2, ReleaseKeeps, Zenon
    <2>. QED
      BY <1>2, <2>1, <2>2, Zenon
  <1>. QED
    BY <1>1, <1>3, <1>4, InvParts, Zenon

LEMMA WakeStep ==
  ASSUME Inv, NEW w \in Waker, Wake(w)
  PROVE  Inv'
  <1>1. TypeOK'
    BY TypeOthers, Zenon
  <1>2. WakeAction(w)
    BY WakeCases, Zenon DEF Wake, WakeAction, Inv
  <1>3. PlacesRight' /\ LockRight' /\ SlotsRight' /\ StandbysRight' /\ LsnReplicated'
    BY <1>1, <1>2, ControlWake, Zenon
  <1>4. CommitsRight' /\ StatesRight' /\ CompletesRight' /\ AckReplicated'
    BY <1>1, <1>2, AnswersWake, Zenon
  <1>5. QueueInv' /\ LatchTells'
    BY <1>1, <1>2, QueuesWake, LatchWake, Zenon
  <1>. QED
    BY <1>1, <1>3, <1>4, <1>5, InvParts, Zenon

LEMMA ConfigStep ==
  ASSUME Inv,
         \/ \E c \in Configs : Reconfigure(c)
         \/ \E x \in Process : ProcessConfigFile(x)
         \/ SyncRepUpdateSyncStandbysDefined \/ PostmasterDeath
  PROVE  Inv'
  <1>1. TypeOK'
    BY TypeOthers, Zenon
  <1>2. ConfigAction
    BY DefinedCases, Zenon DEF ConfigAction, Inv
  <1>3. PlacesRight' /\ LockRight' /\ SlotsRight' /\ StandbysRight' /\ LsnReplicated'
    BY <1>2, ControlConfig, Zenon
  <1>4. /\ CommitsRight' /\ StatesRight' /\ CompletesRight' /\ AckReplicated'
        /\ QueueInv' /\ LatchTells'
    BY <1>1, <1>2, ConfigKeeps, Zenon
  <1>. QED
    BY <1>1, <1>3, <1>4, InvParts, Zenon

\* A step that changes nothing.
LEMMA StutterStep ==
  ASSUME Inv, UNCHANGED vars
  PROVE  Inv'
  <1>. USE DEF vars
  <1>1. TypeOK' /\ PlacesRight' /\ LockRight' /\ SlotsRight' /\ StandbysRight'
    BY DEF Inv, TypeOK, PlacesRight, LockRight, SlotsRight, SlotRight, MyWal, StandbysRight
  <1>2. LsnReplicated' /\ CommitsRight' /\ AckReplicated'
    BY DEF Inv, LsnReplicated, Replicated, CommitsRight, AckReplicated
  <1>3. StatesRight' /\ CompletesRight'
    BY DEF Inv, StatesRight, StateRight, CompletesRight, CompleteRight
  <1>4. QueuedRight' /\ MarkedRight' /\ QueuedOnce' /\ Sorted'
    BY DEF Inv, QueuedRight, Marked, MarkedRight, QueuedOnce, Sorted
  <1>5. NoneForgotten' /\ NoneFutile' /\ AllExcused' /\ LatchTells'
    BY DEF Inv, NoneForgotten, NoneFutile, Owes, AllExcused, Marked, LatchTells, LatchRight
  <1>. QED
    BY <1>1, <1>2, <1>3, <1>4, <1>5, Zenon DEF Inv

\* The inductive invariant: a backend's place, its PGPROC, the queues and what the
\* holder of SyncRepLock has still to do agree in every reachable state.
THEOREM Invariance == Spec => []Inv
  <1>1. Init => Inv
    BY InitInv
  <1>2. Inv /\ [Next]_vars => Inv'
    <2>1. SUFFICES ASSUME Inv, [Next]_vars PROVE Inv'
      OBVIOUS
    <2>2. ASSUME NEW p \in Backend,
                 \/ \E m \in CommitModes : Commit(p, m)
                 \/ Wait(p) \/ Interrupt(p) \/ SyncRepCleanupAtProcExit(p)
          PROVE  Inv'
      BY <2>1, <2>2, BackendStep, Zenon
    <2>3. ASSUME NEW s \in Standby, Stream(s) \/ Receive(s) \/ Flush(s) \/ WalSndKill(s)
          PROVE  Inv'
      BY <2>1, <2>3, StandbyStep, Zenon
    <2>4. ASSUME NEW w \in Waker, Wake(w)
          PROVE  Inv'
      BY <2>1, <2>4, WakeStep, Zenon
    <2>5. CASE \/ \E c \in Configs : Reconfigure(c)
               \/ \E x \in Process : ProcessConfigFile(x)
               \/ SyncRepUpdateSyncStandbysDefined \/ PostmasterDeath
      BY <2>1, <2>5, ConfigStep, Zenon
    <2>6. CASE Orphaned \/ UNCHANGED vars
      BY <2>1, <2>6, StutterStep, Zenon DEF Orphaned
    <2>. QED
      BY <2>1, <2>2, <2>3, <2>4, <2>5, <2>6, Zenon DEF Next
  <1>. QED
    BY <1>1, <1>2, PTL DEF Spec

\* Every variable has its type, for any number of backends, standbys, slots and
\* configurations, whatever the bounds.
THEOREM TypeCorrect == Spec => []TypeOK
  <1>1. Inv => TypeOK
    BY Zenon DEF Inv
  <1>. QED
    BY <1>1, Invariance, PTL

\* Whoever is told "committed" without a warning has its commit record on a
\* standby that some configuration names, written or flushed as it asked, unless
\* no standby was asked for during its commit.
THEOREM AckReplicatedCorrect == Spec => []AckReplicated
  <1>1. Inv => AckReplicated
    BY Zenon DEF Inv
  <1>. QED
    BY <1>1, Invariance, PTL

\* Whenever SyncRepLock is free the queues are ordered by LSN and hold only
\* backends that still have something to wait for.
THEOREM QueuesRightCorrect == Spec => []QueuesRight
  <1>1. Inv => QueuesRight
    <2>1. SUFFICES ASSUME Inv, Free, NEW m \in Mode
                   PROVE  /\ \A i \in DOMAIN SyncRepQueue[m] : waitLSN[SyncRepQueue[m][i]] > lsn[m]
                          /\ \A i, j \in DOMAIN SyncRepQueue[m] :
                               i < j => waitLSN[SyncRepQueue[m][i]] < waitLSN[SyncRepQueue[m][j]]
                          /\ SyncRepQueue[m] # <<>> => sync_standbys_defined
      BY DEF QueuesRight
    <2>2. \A w \in Waker : ~Owes(w, m)
      BY <2>1, LockHolder DEF Owes
    <2>3. Checkpointer \in Waker
      BY DEF Waker
    <2>. QED
      BY <2>1, <2>2, <2>3 DEF Inv, NoneForgotten, Sorted, NoneFutile
  <1>. QED
    BY <1>1, Invariance, PTL

\* A backend that is not waiting is on no queue whenever SyncRepLock is free,
\* however its last wait ended.
THEOREM NoStrayEntryCorrect == Spec => []NoStrayEntry
  <1>1. Inv => NoStrayEntry
    <2>1. SUFFICES ASSUME Inv, Free, NEW p \in Backend, at[p] \in {"idle", "commit", "gone"}
                   PROVE  Detached(p) /\ syncRepState[p] = "NOT_WAITING"
      BY DEF NoStrayEntry
    <2>2. Detached(p)
      BY <2>1, QueuedWaits DEF Detached, WaitLoop
    <2>. QED
      BY <2>1, <2>2 DEF Inv, StatesRight, StateRight
  <1>. QED
    BY <1>1, Invariance, PTL

\* No wake-up is missed: a backend asleep on its latch has no interrupt pending,
\* and is not marked complete unless its waker has still to set the latch.
THEOREM NoMissedWakeupCorrect == Spec => []NoMissedWakeup
  <1>1. Inv => NoMissedWakeup
    BY DEF Inv, LatchTells, LatchRight, NoMissedWakeup
  <1>. QED
    BY <1>1, Invariance, PTL
=============================================================================

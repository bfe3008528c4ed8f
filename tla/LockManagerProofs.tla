------------------------- MODULE LockManagerProofs -------------------------
(***************************************************************************)
(* The safety invariants of LockManager, proved for all values of the      *)
(* constants.  What the steps do to a LOCK is in LockTableProofs.          *)
(***************************************************************************)
EXTENDS LockManager, LockTableProofs

-----------------------------------------------------------------------------
(* The inductive invariant.                                                *)

ENTRY == [nLocks : Nat, strong : BOOLEAN, fast : BOOLEAN, exists : BOOLEAN]
LOCALS == [Proc -> [Lock -> [LockMode -> ENTRY]]]
PROC == [waitLock : Lock \cup {NULL}, waitLockMode : LockMode \cup {0},
         waitStatus : {"OK", "WAITING", "ERROR"}, heldLocks : SUBSET LockMode]
CALL == [lock : Lock \cup {NULL}, mode : LockMode \cup {0}, dontWait : BOOLEAN]
PLACE == {"run", "transfer", "table", "sleep", "cleanup", "forget", "abort", "release", "releaseAll"}

\* In the table, and in the table or the fast-path array.
Hold(p, l) == lock[l].holdMask[p]
Marked(p, l) == lock[l].releaseMask[p]
Held(p, l) == lock[l].holdMask[p] \cup fpLockBits[p][l]

\* Where a backend is, what it acquires or releases and what it knows of that lock.
CallRight(p) ==
  /\ at[p] \in {"transfer", "table", "sleep", "cleanup", "forget"} =>
       /\ call[p].lock \in Lock /\ call[p].mode \in LockMode
       /\ locallock[p][call[p].lock][call[p].mode].nLocks = 0
       /\ locallock[p][call[p].lock][call[p].mode].exists
  /\ at[p] \in {"transfer", "table", "sleep"} =>
       /\ locallock[p][call[p].lock][call[p].mode].strong <=> StrongLockInProgress[p]
       /\ StrongLockInProgress[p] <=> Strong(call[p].lock, call[p].mode)
  /\ StrongLockInProgress[p] =>
       /\ at[p] \in {"transfer", "table", "sleep", "abort"}
       /\ call[p].lock \in Lock /\ call[p].mode \in LockMode
       /\ locallock[p][call[p].lock][call[p].mode].strong
  /\ at[p] = "transfer" => StrongLockInProgress[p] /\ nextProc[p] \in 1..NProcs
  /\ at[p] = "cleanup" => ~locallock[p][call[p].lock][call[p].mode].strong
  /\ at[p] # "run" => calls[p] > 0
  /\ at[p] = "run" /\ calls[p] = 0 => \A l \in Lock, m \in LockMode : ~locallock[p][l][m].exists

\* An entry of the local table: that of a lock in use, or of the one being acquired.
EntryRight(p) == \A l \in Lock, m \in LockMode :
  /\ locallock[p][l][m].strong => locallock[p][l][m].exists
  /\ locallock[p][l][m].nLocks > 0 => locallock[p][l][m].exists
  /\ at[p] \in {"run", "transfer", "table", "sleep", "forget"} /\ locallock[p][l][m].exists /\ locallock[p][l][m].nLocks = 0 =>
       at[p] # "run" /\ call[p].lock = l /\ call[p].mode = m
  /\ locallock[p][l][m].nLocks > 0 /\ Strong(l, m) /\ Active(p) => locallock[p][l][m].strong

\* Who is in a queue sleeps, or did when it was interrupted; who was granted what it
\* waited for holds it.
WaitRight(p) ==
  /\ \A l \in Lock : proc[p].waitLock = l <=> Waits(lock[l], p)
  /\ proc[p].waitStatus = "WAITING" <=> proc[p].waitLock # NULL
  /\ proc[p].waitLock # NULL =>
       /\ at[p] \in {"sleep", "cleanup"}
       /\ proc[p].waitLock = call[p].lock /\ proc[p].waitLockMode = call[p].mode
  /\ at[p] \in {"sleep", "cleanup"} /\ proc[p].waitStatus = "OK" => call[p].mode \in Hold(p, call[p].lock)

\* The fast-path array has weak locks that the backend knows of and that are not in
\* the table.
FastRight(p) ==
  /\ \A l \in Lock, m \in LockMode : m \in fpLockBits[p][l] =>
        Eligible(l, m) /\ locallock[p][l][m].nLocks > 0 /\ locallock[p][l][m].fast /\ m \notin Hold(p, l)
  /\ UsedSlots(fpLockBits[p]) <= FastPathLocalUseCount[p]

\* What a backend knows of and what it holds is the same, but for a lock granted that
\* it has yet to hear of, and for those that LockReleaseAll has yet to give back.
BeliefRight(p) == \A l \in Lock, m \in LockMode :
  /\ locallock[p][l][m].nLocks > 0 => m \in Held(p, l)
  /\ m \in Held(p, l) =>
       \/ locallock[p][l][m].nLocks > 0
       \/ at[p] \in {"sleep", "cleanup"} /\ call[p].lock = l /\ call[p].mode = m /\ proc[p].waitStatus = "OK"
       \/ Releasing(p) /\ m \in Hold(p, l) /\ (at[p] = "release" => m \in Marked(p, l))
  /\ m \in Marked(p, l) => Releasing(p) /\ ~locallock[p][l][m].exists

\* No fast-path array has a lock that p holds or acquires in a strong mode, or has
\* transferred already.
Closed(p) == \A q \in Proc :
  /\ \A l \in Lock, m \in LockMode :
       locallock[p][l][m].strong /\ locallock[p][l][m].nLocks > 0 => fpLockBits[q][l] = {}
  /\ at[p] \in {"table", "sleep"} /\ StrongLockInProgress[p] => fpLockBits[q][call[p].lock] = {}
  /\ at[p] = "transfer" /\ q < nextProc[p] => fpLockBits[q][call[p].lock] = {}

\* Two transactions that go on hold no locks that conflict.
HoldSafe == \A p, q \in Proc : p # q /\ Active(p) /\ Active(q) =>
   \A l \in Lock : \A m \in Held(p, l), m2 \in Held(q, l) : m2 \notin conflictTab(m)

\* strongCount counts the strong entries of the local tables.
StrongEntries(i) == {e \in Proc \X Lock \X LockMode : HashPartition[e[2]] = i /\ locallock[e[1]][e[2]][e[3]].strong}
CountRight ==
  /\ strongCount = [i \in DOMAIN strongCount |-> strongCount[i]]
  /\ DOMAIN strongCount = {HashPartition[l] : l \in Lock}
  /\ \A i \in DOMAIN strongCount : strongCount[i] = Cardinality(StrongEntries(i))

LocksRight == \A l \in Lock : LockRight(lock[l], WaitMode) /\ AllBlocked(lock[l], WaitMode)
ProcRight(p) == CallRight(p) /\ EntryRight(p) /\ WaitRight(p) /\ FastRight(p) /\ BeliefRight(p)

IInv ==
  /\ TypeOK /\ LocksRight /\ CountRight /\ HoldSafe
  /\ \A p \in Proc : ProcRight(p) /\ Closed(p)

-----------------------------------------------------------------------------
(* Facts about the parts of the state.                                     *)

\* What the types say of one backend.
LEMMA TypeFacts ==
  ASSUME TypeOK, NEW p \in Proc
  PROVE  /\ proc[p] \in PROC /\ call[p] \in CALL /\ at[p] \in PLACE
         /\ fpLockBits[p] \in [Lock -> SUBSET LockMode] /\ FastPathLocalUseCount[p] \in 0..FP_LOCK_SLOTS_PER_BACKEND
         /\ locallock[p] \in [Lock -> [LockMode -> ENTRY]]
         /\ \A l \in Lock, m \in LockMode : locallock[p][l][m] \in ENTRY
         /\ StrongLockInProgress[p] \in BOOLEAN /\ nextProc[p] \in 0..NProcs /\ calls[p] \in Nat
  BY DEF TypeOK, PROC, CALL, PLACE, ENTRY

\* The fields of an entry.
LEMMA EntryFacts ==
  ASSUME NEW e \in ENTRY
  PROVE  e.nLocks \in Nat /\ e.strong \in BOOLEAN /\ e.fast \in BOOLEAN /\ e.exists \in BOOLEAN
  BY DEF ENTRY

\* A weak mode conflicts with strong ones only.
LEMMA WeakConflicts ==
  ASSUME NEW l \in Lock, NEW m \in LockMode, NEW m2 \in LockMode, Eligible(l, m), m \in conflictTab(m2)
  PROVE  Strong(l, m2)
  <1>1. m \in 1..8 /\ m2 \in 1..8
    BY LockTableAssumption
  <1>2. l \in Relation /\ m < 4
    BY DEF Eligible, ShareUpdateExclusiveLock
  <1>3. m \in LockConflicts[m2]
    BY DEF conflictTab
  <1>4. m2 > 4
    <2>1. CASE m2 = 1
      BY <1>2, <1>3, <2>1 DEF LockConflicts
    <2>2. CASE m2 = 2
      BY <1>2, <1>3, <2>2 DEF LockConflicts
    <2>3. CASE m2 = 3
      BY <1>2, <1>3, <2>3 DEF LockConflicts
    <2>4. CASE m2 = 4
      BY <1>2, <1>3, <2>4 DEF LockConflicts
    <2>. QED
      BY <1>1, <2>1, <2>2, <2>3, <2>4
  <1>. QED
    BY <1>2, <1>4 DEF Strong, ShareUpdateExclusiveLock

\* Slots of a smaller array, of a larger one, and of one that has something.
LEMMA SlotsFacts ==
  ASSUME NEW a \in [Lock -> SUBSET LockMode], NEW b \in [Lock -> SUBSET LockMode]
  PROVE  /\ UsedSlots(a) \in Nat
         /\ (\A l \in Lock : b[l] \subseteq a[l]) => UsedSlots(b) <= UsedSlots(a)
         /\ \A l \in Lock : (a[l] # {} => UsedSlots(a) > 0)
         /\ \A l \in Lock : (\A l2 \in Lock : l2 # l => b[l2] = a[l2]) /\ a[l] = {} => UsedSlots(b) <= UsedSlots(a) + 1
         /\ \A l \in Lock : (\A l2 \in Lock : l2 # l => b[l2] = a[l2]) /\ a[l] # {} => UsedSlots(b) <= UsedSlots(a)
  <1>. DEFINE S(f) == {l \in Lock : f[l] # {}}
  <1>1. \A f : UsedSlots(f) = Cardinality(S(f))
    BY DEF UsedSlots
  <1>2. \A f : S(f) \subseteq Lock
    OBVIOUS
  <1>. HIDE DEF S
  <1>3. IsFiniteSet(Lock)
    BY LockTableAssumption
  <1>4. \A f : IsFiniteSet(S(f))
    BY <1>2, <1>3, FS_Subset
  <1>5. \A f : Cardinality(S(f)) \in Nat
    BY <1>4, FS_CardinalityType
  <1>6. ASSUME \A l \in Lock : b[l] \subseteq a[l]
        PROVE  UsedSlots(b) <= UsedSlots(a)
    <2>1. S(b) \subseteq S(a)
      BY <1>6 DEF S
    <2>. QED
      BY <1>1, <1>4, <2>1, FS_Subset
  <1>7. ASSUME NEW l \in Lock, a[l] # {}
        PROVE  UsedSlots(a) > 0
    <2>1. S(a) # {}
      BY <1>7 DEF S
    <2>2. Cardinality(S(a)) # 0
      BY <1>4, <2>1, FS_EmptySet
    <2>. QED
      BY <1>1, <1>5, <2>2
  <1>8. ASSUME NEW l \in Lock, \A l2 \in Lock : l2 # l => b[l2] = a[l2], a[l] = {}
        PROVE  UsedSlots(b) <= UsedSlots(a) + 1
    <2>1. S(b) \subseteq S(a) \cup {l}
      BY <1>8 DEF S
    <2>2. l \notin S(a)
      BY <1>8 DEF S
    <2>3. IsFiniteSet(S(a) \cup {l}) /\ Cardinality(S(a) \cup {l}) = Cardinality(S(a)) + 1
      BY <1>4, <2>2, FS_AddElement
    <2>4. Cardinality(S(b)) <= Cardinality(S(a) \cup {l})
      BY <2>1, <2>3, FS_Subset
    <2>. QED
      BY <1>1, <2>3, <2>4
  <1>9. ASSUME NEW l \in Lock, \A l2 \in Lock : l2 # l => b[l2] = a[l2], a[l] # {}
        PROVE  UsedSlots(b) <= UsedSlots(a)
    <2>1. S(b) \subseteq S(a)
      BY <1>9 DEF S
    <2>. QED
      BY <1>1, <1>4, <2>1, FS_Subset
  <1>. QED
    BY <1>1, <1>5, <1>6, <1>7, <1>8, <1>9

-----------------------------------------------------------------------------
(* Those who do not take the step.                                         *)

\* The step changes no other backend's own state.
Mine(p) == \A q \in Proc : q # p =>
  /\ at'[q] = at[q] /\ call'[q] = call[q] /\ nextProc'[q] = nextProc[q] /\ calls'[q] = calls[q]
  /\ locallock'[q] = locallock[q] /\ StrongLockInProgress'[q] = StrongLockInProgress[q]
  /\ FastPathLocalUseCount'[q] = FastPathLocalUseCount[q]

\* q's locks are the same.
Unmoved(q) ==
  /\ proc'[q] = proc[q] /\ fpLockBits'[q] = fpLockBits[q]
  /\ \A l \in Lock : /\ \A k : k \in lock'[l].holdMask[q] <=> k \in lock[l].holdMask[q]
                     /\ \A k : k \in lock'[l].releaseMask[q] <=> k \in lock[l].releaseMask[q]
                     /\ Waits(lock'[l], q) <=> Waits(lock[l], q)

\* q has been granted what it waited for.
WokenNow(q) ==
  /\ proc'[q] = OffQueue("OK") /\ fpLockBits'[q] = fpLockBits[q] /\ proc[q].waitLock \in Lock
  /\ \A l \in Lock : /\ \A k : k \in lock'[l].holdMask[q] <=>
                             k \in lock[l].holdMask[q] \/ (l = proc[q].waitLock /\ k = proc[q].waitLockMode)
                     /\ \A k : k \in lock'[l].releaseMask[q] <=> k \in lock[l].releaseMask[q]
                     /\ ~Waits(lock'[l], q)

\* Some of q's fast-path locks on l have been transferred to the table.
MovedToTable(q, l, modes) ==
  /\ proc'[q] = proc[q] /\ modes \subseteq fpLockBits[q][l] /\ fpLockBits'[q] \in [Lock -> SUBSET LockMode]
  /\ \A l2 \in Lock : /\ \A k : k \in fpLockBits'[q][l2] <=> k \in fpLockBits[q][l2] /\ ~(l2 = l /\ k \in modes)
                      /\ \A k : k \in lock'[l2].holdMask[q] <=> k \in lock[l2].holdMask[q] \/ (l2 = l /\ k \in modes)
                      /\ \A k : k \in lock'[l2].releaseMask[q] <=> k \in lock[l2].releaseMask[q]
                      /\ Waits(lock'[l2], q) <=> Waits(lock[l2], q)

\* Nothing that concerns q changes.
LEMMA UnmovedRight ==
  ASSUME NEW p, NEW q \in Proc, q # p, Mine(p), Unmoved(q), ProcRight(q)
  PROVE  ProcRight(q)'
  <1>1. /\ at'[q] = at[q] /\ call'[q] = call[q] /\ nextProc'[q] = nextProc[q] /\ calls'[q] = calls[q]
        /\ locallock'[q] = locallock[q] /\ StrongLockInProgress'[q] = StrongLockInProgress[q]
        /\ FastPathLocalUseCount'[q] = FastPathLocalUseCount[q]
    BY DEF Mine
  <1>2. CallRight(q)'
    BY <1>1 DEF ProcRight, CallRight
  <1>3. EntryRight(q)'
    BY <1>1 DEF ProcRight, EntryRight, Active, Releasing
  <1>4. WaitRight(q)'
    <2>1. WaitRight(q)
      BY DEF ProcRight
    <2>2. CallRight(q)
      BY DEF ProcRight
    <2>. QED
      BY <1>1, <2>1, <2>2 DEF WaitRight, Unmoved, Hold, CallRight
  <1>5. FastRight(q)'
    <2>1. FastRight(q)
      BY DEF ProcRight
    <2>. QED
      BY <1>1, <2>1 DEF FastRight, Unmoved, Hold
  <1>6. BeliefRight(q)'
    <2>1. BeliefRight(q)
      BY DEF ProcRight
    <2>. QED
      BY <1>1, <2>1 DEF BeliefRight, Unmoved, Hold, Held, Marked, Releasing
  <1>. QED
    BY <1>2, <1>3, <1>4, <1>5, <1>6 DEF ProcRight

\* A backend that is woken holds what it waited for.
LEMMA WokenRight ==
  ASSUME TypeOK, NEW p, NEW q \in Proc, q # p, Mine(p), WokenNow(q), ProcRight(q)
  PROVE  ProcRight(q)'
  <1>1. /\ at'[q] = at[q] /\ call'[q] = call[q] /\ nextProc'[q] = nextProc[q] /\ calls'[q] = calls[q]
        /\ locallock'[q] = locallock[q] /\ StrongLockInProgress'[q] = StrongLockInProgress[q]
        /\ FastPathLocalUseCount'[q] = FastPathLocalUseCount[q]
    BY DEF Mine
  <1>2. CallRight(q)'
    BY <1>1 DEF ProcRight, CallRight
  <1>3. EntryRight(q)'
    BY <1>1 DEF ProcRight, EntryRight, Active, Releasing
  <1>4. PICK l : l = proc[q].waitLock
    OBVIOUS
  <1>5. PICK m : m = proc[q].waitLockMode
    OBVIOUS
  <1>6. l \in Lock /\ l # NULL
    BY <1>4, LockTableAssumption DEF WokenNow
  <1>7. at[q] \in {"sleep", "cleanup"} /\ l = call[q].lock /\ m = call[q].mode
    BY <1>4, <1>5, <1>6 DEF ProcRight, WaitRight
  <1>8. m \in LockMode /\ locallock[q][l][m].nLocks = 0
    BY <1>7 DEF ProcRight, CallRight
  <1>9. /\ proc'[q].waitLock = NULL /\ proc'[q].waitStatus = "OK" /\ fpLockBits'[q] = fpLockBits[q]
    BY DEF WokenNow, OffQueue
  <1>10. \A l2 \in Lock : /\ \A k : k \in lock'[l2].holdMask[q] <=> k \in lock[l2].holdMask[q] \/ (l2 = l /\ k = m)
                          /\ \A k : k \in lock'[l2].releaseMask[q] <=> k \in lock[l2].releaseMask[q]
                          /\ ~Waits(lock'[l2], q)
    BY <1>4, <1>5 DEF WokenNow
  <1>11. WaitRight(q)'
    <2>1. \A l2 \in Lock : proc'[q].waitLock = l2 <=> Waits(lock'[l2], q)
      BY <1>9, <1>10, LockTableAssumption
    <2>2. call'[q].mode \in lock'[call'[q].lock].holdMask[q]
      BY <1>1, <1>6, <1>7, <1>10
    <2>. QED
      BY <1>9, <2>1, <2>2 DEF WaitRight, Hold
  <1>12. FastRight(q)'
    <2>1. FastRight(q)
      BY DEF ProcRight
    <2>2. \A l2 \in Lock, k \in LockMode : k \in fpLockBits[q][l2] => ~(l2 = l /\ k = m)
      BY <1>8, <2>1 DEF FastRight
    <2>3. \A l2 \in Lock, k \in LockMode : k \in fpLockBits[q][l2] =>
             Eligible(l2, k) /\ locallock[q][l2][k].nLocks > 0 /\ locallock[q][l2][k].fast /\ k \notin lock'[l2].holdMask[q]
      BY <1>10, <2>1, <2>2 DEF FastRight, Hold
    <2>. QED
      BY <1>1, <1>9, <2>1, <2>3 DEF FastRight, Hold
  <1>13. BeliefRight(q)'
    <2>1. BeliefRight(q)
      BY DEF ProcRight
    <2>2. ~Releasing(q)
      BY <1>7 DEF Releasing
    <2>. SUFFICES ASSUME NEW l2 \in Lock, NEW k \in LockMode
                  PROVE  /\ locallock'[q][l2][k].nLocks > 0 => k \in Held(q, l2)'
                         /\ k \in Held(q, l2)' =>
                              \/ locallock'[q][l2][k].nLocks > 0
                              \/ at'[q] \in {"sleep", "cleanup"} /\ call'[q].lock = l2 /\ call'[q].mode = k /\ proc'[q].waitStatus = "OK"
                         /\ k \notin Marked(q, l2)'
      <3>. QED
        BY DEF BeliefRight
    <2>3. locallock'[q][l2][k].nLocks > 0 => k \in Held(q, l2)'
      BY <1>1, <1>9, <1>10, <2>1 DEF BeliefRight, Held
    <2>4. k \notin Marked(q, l2)'
      BY <1>10, <2>1, <2>2 DEF BeliefRight, Marked
    <2>5. k \in Held(q, l2)' => k \in Held(q, l2) \/ (l2 = l /\ k = m)
      BY <1>9, <1>10 DEF Held
    <2>. QED
      BY <1>1, <1>7, <1>9, <2>1, <2>2, <2>3, <2>4, <2>5 DEF BeliefRight
  <1>. QED
    BY <1>2, <1>3, <1>11, <1>12, <1>13 DEF ProcRight

\* A backend whose fast-path locks are transferred has the same locks.
LEMMA TransferredRight ==
  ASSUME TypeOK, NEW p, NEW q \in Proc, q # p, Mine(p), NEW l \in Lock, NEW modes, MovedToTable(q, l, modes), ProcRight(q)
  PROVE  ProcRight(q)'
  <1>1. /\ at'[q] = at[q] /\ call'[q] = call[q] /\ nextProc'[q] = nextProc[q] /\ calls'[q] = calls[q]
        /\ locallock'[q] = locallock[q] /\ StrongLockInProgress'[q] = StrongLockInProgress[q]
        /\ FastPathLocalUseCount'[q] = FastPathLocalUseCount[q]
    BY DEF Mine
  <1>2. CallRight(q)'
    BY <1>1 DEF ProcRight, CallRight
  <1>3. EntryRight(q)'
    BY <1>1 DEF ProcRight, EntryRight, Active, Releasing
  <1>4. /\ proc'[q] = proc[q] /\ modes \subseteq fpLockBits[q][l] /\ fpLockBits'[q] \in [Lock -> SUBSET LockMode]
        /\ \A l2 \in Lock : /\ \A k : k \in fpLockBits'[q][l2] <=> k \in fpLockBits[q][l2] /\ ~(l2 = l /\ k \in modes)
                            /\ \A k : k \in lock'[l2].holdMask[q] <=> k \in lock[l2].holdMask[q] \/ (l2 = l /\ k \in modes)
                            /\ \A k : k \in lock'[l2].releaseMask[q] <=> k \in lock[l2].releaseMask[q]
                            /\ Waits(lock'[l2], q) <=> Waits(lock[l2], q)
    BY DEF MovedToTable
  <1>5. WaitRight(q)'
    <2>1. WaitRight(q)
      BY DEF ProcRight
    <2>2. at[q] \in {"sleep", "cleanup"} => call[q].lock \in Lock
      BY DEF ProcRight, CallRight
    <2>. QED
      BY <1>1, <1>4, <2>1, <2>2 DEF WaitRight, Hold
  <1>6. FastRight(q)'
    <2>1. FastRight(q)
      BY DEF ProcRight
    <2>2. \A l2 \in Lock, k \in LockMode : k \in fpLockBits'[q][l2] =>
             Eligible(l2, k) /\ locallock[q][l2][k].nLocks > 0 /\ locallock[q][l2][k].fast /\ k \notin lock'[l2].holdMask[q]
      BY <1>4, <2>1 DEF FastRight, Hold
    <2>3. UsedSlots(fpLockBits'[q]) <= UsedSlots(fpLockBits[q])
      <3>1. fpLockBits[q] \in [Lock -> SUBSET LockMode] /\ \A l2 \in Lock : fpLockBits'[q][l2] \subseteq fpLockBits[q][l2]
        BY <1>4, TypeFacts
      <3>. QED
        BY <1>4, <3>1, SlotsFacts
    <2>4. UsedSlots(fpLockBits'[q]) \in Nat /\ UsedSlots(fpLockBits[q]) \in Nat /\ FastPathLocalUseCount[q] \in Nat
      BY <1>4, TypeFacts, SlotsFacts
    <2>5. UsedSlots(fpLockBits[q]) <= FastPathLocalUseCount[q]
      BY <2>1 DEF FastRight
    <2>6. UsedSlots(fpLockBits'[q]) <= FastPathLocalUseCount'[q]
      BY <1>1, <2>3, <2>4, <2>5
    <2>. QED
      BY <1>1, <2>2, <2>6 DEF FastRight, Hold
  <1>7. BeliefRight(q)'
    <2>1. BeliefRight(q)
      BY DEF ProcRight
    <2>2. \A l2 \in Lock : \A k : k \in Held(q, l2)' <=> k \in Held(q, l2)
      BY <1>4 DEF Held
    <2>3. \A l2 \in Lock : \A k : k \in Hold(q, l2) => k \in Hold(q, l2)'
      BY <1>4 DEF Hold
    <2>. QED
      BY <1>1, <1>4, <2>1, <2>2, <2>3 DEF BeliefRight, Marked, Releasing
  <1>. QED
    BY <1>2, <1>3, <1>5, <1>6, <1>7 DEF ProcRight

\* Some of q's fast-path locks have been transferred.
Moved(q) == \E l \in Lock, modes \in SUBSET LockMode : MovedToTable(q, l, modes)

\* The step is p's; others have the same locks, or one that they waited for.
OthersFine(p) == Mine(p) /\ \A q \in Proc : q # p => Unmoved(q) \/ WokenNow(q) \/ Moved(q)

\* Nothing comes into a fast-path array.
FastShrinks == \A q \in Proc, l \in Lock : fpLockBits'[q][l] \subseteq fpLockBits[q][l]

\* What q gets in the step is in nobody's way who goes on.
NewSafe(q) == \A l \in Lock : \A k \in LockMode : k \in Held(q, l)' /\ k \notin Held(q, l) =>
  \A h \in Proc : h # q /\ Active(h)' => Held(h, l)' \cap conflictTab(k) = {}

\* The others are as they should be.
LEMMA OthersRight ==
  ASSUME IInv, NEW p \in Proc, OthersFine(p)
  PROVE  \A q \in Proc : q # p => ProcRight(q)'
  <1>. SUFFICES ASSUME NEW q \in Proc, q # p
                PROVE  ProcRight(q)'
    OBVIOUS
  <1>1. TypeOK /\ ProcRight(q)
    BY DEF IInv
  <1>2. Mine(p)
    BY DEF OthersFine
  <1>3. CASE Unmoved(q)
    BY <1>1, <1>2, <1>3, UnmovedRight
  <1>4. CASE WokenNow(q)
    BY <1>1, <1>2, <1>4, WokenRight
  <1>5. CASE Moved(q)
    <2>1. PICK l \in Lock, modes \in SUBSET LockMode : MovedToTable(q, l, modes)
      BY <1>5 DEF Moved
    <2>. QED
      BY <1>1, <1>2, <2>1, TransferredRight
  <1>. QED
    BY <1>3, <1>4, <1>5 DEF OthersFine

\* Who has the same locks gets nothing.
LEMMA OldSafe ==
  ASSUME NEW q \in Proc, Unmoved(q) \/ Moved(q)
  PROVE  NewSafe(q)
  <1>1. \A l \in Lock : \A k : k \in Held(q, l)' => k \in Held(q, l)
    <2>1. CASE Unmoved(q)
      BY <2>1 DEF Unmoved, Held
    <2>2. CASE Moved(q)
      <3>1. PICK l \in Lock, modes \in SUBSET LockMode : MovedToTable(q, l, modes)
        BY <2>2 DEF Moved
      <3>. QED
        BY <3>1 DEF MovedToTable, Held
    <2>. QED
      BY <2>1, <2>2
  <1>. QED
    BY <1>1 DEF NewSafe

\* Nobody who goes on gets what is in the way of another who goes on.
LEMMA HoldSafeKept ==
  ASSUME TypeOK', HoldSafe,
         \A q \in Proc : Active(q)' => Active(q) \/ \A l \in Lock : Held(q, l)' = {},
         \A q \in Proc : Active(q)' => NewSafe(q)
  PROVE  HoldSafe'
  <1>. SUFFICES ASSUME NEW p \in Proc, NEW q \in Proc, p # q, Active(p)', Active(q)', NEW l \in Lock,
                       NEW m \in Held(p, l)', NEW m2 \in Held(q, l)', m2 \in conflictTab(m)
                PROVE  FALSE
    BY DEF HoldSafe
  <1>1. m \in LockMode /\ m2 \in LockMode
    <2>1. lock'[l] \in LOCK /\ fpLockBits'[p][l] \subseteq LockMode /\ fpLockBits'[q][l] \subseteq LockMode
      BY DEF TypeOK
    <2>2. lock'[l].holdMask[p] \subseteq LockMode /\ lock'[l].holdMask[q] \subseteq LockMode
      BY <2>1, LockFacts
    <2>. QED
      BY <2>1, <2>2 DEF Held
  <1>2. m \in Held(p, l)
    BY <1>1 DEF NewSafe
  <1>3. m \in conflictTab(m2)
    BY <1>1, ConflictsSymmetric
  <1>4. m2 \in Held(q, l)
    BY <1>1, <1>3 DEF NewSafe
  <1>5. Active(p) /\ Active(q)
    OBVIOUS
  <1>. QED
    BY <1>2, <1>4, <1>5 DEF HoldSafe

\* What a step of p has to keep.
LEMMA FinishAll ==
  ASSUME IInv, NEW p \in Proc, OthersFine(p), TypeOK', LocksRight', CountRight', ProcRight(p)',
         \A q \in Proc : Closed(q)',
         Active(p)' => Active(p) \/ \A l \in Lock : Held(p, l)' = {},
         \A q \in Proc : Active(q)' => NewSafe(q)
  PROVE  IInv'
  <1>1. \A q \in Proc : ProcRight(q)'
    BY OthersRight
  <1>2. \A q \in Proc : q # p => (Active(q)' <=> Active(q))
    BY DEF OthersFine, Mine, Active, Releasing
  <1>3. HoldSafe'
    <2>1. HoldSafe
      BY DEF IInv
    <2>. QED
      BY <1>2, <2>1, HoldSafeKept
  <1>. QED
    BY <1>1, <1>3 DEF IInv

\* What a step of p that puts nothing into the fast-path arrays has to keep.
LEMMA Finish ==
  ASSUME IInv, NEW p \in Proc, OthersFine(p), FastShrinks, TypeOK', LocksRight', CountRight', ProcRight(p)', Closed(p)',
         Active(p)' => Active(p) \/ \A l \in Lock : Held(p, l)' = {},
         \A q \in Proc : Active(q)' => NewSafe(q)
  PROVE  IInv'
  <1>1. \A q \in Proc : Closed(q)'
    <2>. SUFFICES ASSUME NEW q \in Proc, q # p
                  PROVE  Closed(q)'
      OBVIOUS
    <2>1. /\ at'[q] = at[q] /\ call'[q] = call[q] /\ nextProc'[q] = nextProc[q]
          /\ locallock'[q] = locallock[q] /\ StrongLockInProgress'[q] = StrongLockInProgress[q]
      BY DEF OthersFine, Mine
    <2>2. Closed(q) /\ CallRight(q)
      BY DEF IInv, ProcRight
    <2>3. \A h \in Proc, l \in Lock : fpLockBits[h][l] = {} => fpLockBits'[h][l] = {}
      BY DEF FastShrinks
    <2>. QED
      BY <2>1, <2>2, <2>3 DEF Closed, CallRight
  <1>. QED
    BY <1>1, FinishAll

-----------------------------------------------------------------------------
(* What a step does to the lock table.                                     *)

\* The waiters are the same, and in the same modes.
LEMMA SameBlocked ==
  ASSUME NEW lk \in LOCK, NEW w, NEW w2, AllBlocked(lk, w), \A q \in Proc : Waits(lk, q) => w2[q] = w[q]
  PROVE  AllBlocked(lk, w2)
  <1>. SUFFICES ASSUME NEW q \in Proc, Waits(lk, q)
                PROVE  Blocked(lk, w2, q)
    BY DEF AllBlocked
  <1>1. Blocked(lk, w, q) /\ w2[q] = w[q]
    BY DEF AllBlocked
  <1>2. \A r \in Proc : IsBefore(r, q, lk.waitProcs) => Waits(lk, r)
    <2>1. lk.waitProcs \in Seq(Proc)
      BY LockFacts
    <2>2. DOMAIN lk.waitProcs = 1..Len(lk.waitProcs)
      BY <2>1, ListFacts
    <2>. QED
      BY <2>1, <2>2, ListFacts DEF IsBefore, Waits
  <1>. QED
    BY <1>1, <1>2 DEF Blocked

\* Every lock is settled, perhaps after x gave up something; those who left a queue were
\* woken.
SettleStep(x, freed) ==
  /\ \A l \in Lock : Settled(lock[l], lock'[l], x, freed[l]) /\ ~Waits(lock'[l], x)
  /\ \A q \in Proc : q # x =>
       /\ fpLockBits'[q] = fpLockBits[q]
       /\ \A l \in Lock : lock'[l].releaseMask[q] = lock[l].releaseMask[q]
       /\ (\E l \in Lock : Waits(lock[l], q) /\ ~Waits(lock'[l], q)) => proc'[q] = OffQueue("OK")
       /\ (\A l \in Lock : Waits(lock[l], q) => Waits(lock'[l], q)) => proc'[q] = proc[q]

\* The lock table is in order after such a step.
LEMMA SettledLocks ==
  ASSUME IInv, NEW x, NEW freed, SettleStep(x, freed)
  PROVE  LocksRight'
  <1>1. PICK w : w = WaitMode'
    OBVIOUS
  <1>. SUFFICES ASSUME NEW l \in Lock
                PROVE  LockRight(lock'[l], w) /\ AllBlocked(lock'[l], w)
    BY <1>1 DEF LocksRight
  <1>2. PICK lk : lk = lock'[l]
    OBVIOUS
  <1>3. LockRight(lk, WaitMode) /\ AllBlocked(lk, WaitMode) /\ ~Waits(lk, x) /\ \A q \in Proc : Waits(lk, q) => Waits(lock[l], q)
    BY <1>2 DEF SettleStep, Settled
  <1>4. \A q \in Proc : Waits(lk, q) => w[q] = WaitMode[q]
    <2>. SUFFICES ASSUME NEW q \in Proc, Waits(lk, q)
                  PROVE  w[q] = WaitMode[q]
      OBVIOUS
    <2>1. q # x /\ Waits(lock[l], q)
      BY <1>3
    <2>2. proc[q].waitLock = l
      BY <2>1 DEF IInv, ProcRight, WaitRight
    <2>3. \A l2 \in Lock : Waits(lock[l2], q) => l2 = l
      BY <2>2 DEF IInv, ProcRight, WaitRight
    <2>4. proc'[q] = proc[q]
      BY <1>2, <2>1, <2>3 DEF SettleStep
    <2>. QED
      BY <1>1, <2>4 DEF WaitMode
  <1>5. lk \in LOCK
    BY <1>3 DEF LockRight, CountsRight
  <1>. QED
    BY <1>2, <1>3, <1>4, <1>5, SameModes, SameBlocked

\* And so are all but x.
LEMMA SettledOthers ==
  ASSUME IInv, NEW x, NEW freed, SettleStep(x, freed), NEW q \in Proc, q # x
  PROVE  Unmoved(q) \/ WokenNow(q)
  <1>1. \A l \in Lock : proc[q].waitLock = l <=> Waits(lock[l], q)
    BY DEF IInv, ProcRight, WaitRight
  <1>2. /\ fpLockBits'[q] = fpLockBits[q]
        /\ \A l \in Lock : lock'[l].releaseMask[q] = lock[l].releaseMask[q]
    BY DEF SettleStep
  <1>3. \A l \in Lock : Waits(lock'[l], q) => Waits(lock[l], q)
    BY DEF SettleStep, Settled
  <1>4. \A l \in Lock : \A k : k \in lock'[l].holdMask[q] <=>
            k \in lock[l].holdMask[q] \/ (Waits(lock[l], q) /\ ~Waits(lock'[l], q) /\ k = WaitMode[q])
    BY DEF SettleStep, Settled
  <1>5. WaitMode[q] = proc[q].waitLockMode
    BY DEF WaitMode
  <1>6. CASE \E l \in Lock : Waits(lock[l], q) /\ ~Waits(lock'[l], q)
    <2>1. PICK l \in Lock : Waits(lock[l], q) /\ ~Waits(lock'[l], q)
      BY <1>6
    <2>2. proc'[q] = OffQueue("OK")
      BY <1>6 DEF SettleStep
    <2>3. proc[q].waitLock = l
      BY <1>1, <2>1
    <2>4. \A l2 \in Lock : ~Waits(lock'[l2], q)
      BY <1>1, <1>3, <2>1, <2>3
    <2>5. \A l2 \in Lock : \A k : k \in lock'[l2].holdMask[q] <=>
             k \in lock[l2].holdMask[q] \/ (l2 = proc[q].waitLock /\ k = proc[q].waitLockMode)
      BY <1>1, <1>4, <1>5, <2>3, <2>4
    <2>. QED
      BY <1>2, <2>2, <2>3, <2>4, <2>5 DEF WokenNow
  <1>7. CASE ~\E l \in Lock : Waits(lock[l], q) /\ ~Waits(lock'[l], q)
    <2>1. proc'[q] = proc[q]
      BY <1>7 DEF SettleStep
    <2>2. \A l \in Lock : Waits(lock'[l], q) <=> Waits(lock[l], q)
      BY <1>3, <1>7
    <2>3. \A l \in Lock : \A k : k \in lock'[l].holdMask[q] <=> k \in lock[l].holdMask[q]
      BY <1>4, <1>7
    <2>. QED
      BY <1>2, <2>1, <2>2, <2>3 DEF Unmoved
  <1>. QED
    BY <1>6, <1>7

\* What those who are woken get is in nobody's way: if it is a strong lock, no
\* fast-path array has it.
LEMMA SettledSafe ==
  ASSUME IInv, NEW x, NEW freed, SettleStep(x, freed), FastShrinks, NEW q \in Proc, q # x,
         at'[q] = at[q], Active(q)'
  PROVE  NewSafe(q)
  <1>1. CASE Unmoved(q)
    BY <1>1, OldSafe
  <1>2. CASE ~Unmoved(q)
    <2>1. WokenNow(q)
      BY <1>2, SettledOthers
    <2>2. PICK l : l = proc[q].waitLock
      OBVIOUS
    <2>3. PICK m : m = proc[q].waitLockMode
      OBVIOUS
    <2>4. l \in Lock /\ l # NULL
      BY <2>1, <2>2, LockTableAssumption DEF WokenNow
    <2>5. at[q] = "sleep" /\ l = call[q].lock /\ m = call[q].mode
      <3>1. at[q] \in {"sleep", "cleanup"} /\ l = call[q].lock /\ m = call[q].mode
        BY <2>2, <2>3, <2>4 DEF IInv, ProcRight, WaitRight
      <3>. QED
        BY <3>1 DEF Active
    <2>6. m \in LockMode
      BY <2>5 DEF IInv, ProcRight, CallRight
    <2>7. Waits(lock[l], q) /\ ~Waits(lock'[l], q) /\ m = WaitMode[q]
      BY <2>1, <2>2, <2>3, <2>4 DEF IInv, ProcRight, WaitRight, WokenNow, WaitMode
    <2>8. \A h \in Proc : h # q => lock'[l].holdMask[h] \cap conflictTab(m) = {}
      BY <2>4, <2>7 DEF SettleStep, Settled
    <2>9. \A h \in Proc : fpLockBits'[h][l] \cap conflictTab(m) = {}
      <3>. SUFFICES ASSUME NEW h \in Proc, NEW k, k \in fpLockBits'[h][l], k \in conflictTab(m)
                    PROVE  FALSE
        OBVIOUS
      <3>1. k \in fpLockBits[h][l]
        BY <2>4 DEF FastShrinks
      <3>2. k \in LockMode
        BY <2>4, <3>1, TypeFacts DEF IInv
      <3>3. Eligible(l, k)
        BY <2>4, <3>1, <3>2 DEF IInv, ProcRight, FastRight
      <3>4. Strong(l, m)
        BY <2>4, <2>6, <3>2, <3>3, WeakConflicts
      <3>5. StrongLockInProgress[q]
        BY <2>5, <3>4 DEF IInv, ProcRight, CallRight
      <3>6. fpLockBits[h][l] = {}
        BY <2>5, <3>5 DEF IInv, Closed
      <3>. QED
        BY <3>1, <3>6
    <2>10. \A l2 \in Lock : \A k : k \in Held(q, l2)' /\ k \notin Held(q, l2) => l2 = l /\ k = m
      BY <2>1, <2>2, <2>3 DEF WokenNow, Held
    <2>11. \A h \in Proc : h # q => Held(h, l)' \cap conflictTab(m) = {}
      BY <2>8, <2>9 DEF Held
    <2>. QED
      BY <2>10, <2>11 DEF NewSafe
  <1>. QED
    BY <1>1, <1>2

\* A step that leaves the table alone.
LEMMA SameLocks ==
  ASSUME IInv, lock' = lock, proc' = proc
  PROVE  /\ LocksRight'
         /\ \A q \in Proc : fpLockBits'[q] = fpLockBits[q] => Unmoved(q)
  <1>1. LocksRight
    BY DEF IInv
  <1>2. WaitMode' = WaitMode
    BY DEF WaitMode
  <1>3. LocksRight'
    BY <1>1, <1>2 DEF LocksRight
  <1>. QED
    BY <1>3 DEF Unmoved

\* x gets the modes of l, and nobody else anything.
GainStep(x, l, modes) ==
  /\ proc' = proc /\ Gained(lock[l], lock'[l], x, modes)
  /\ \A l2 \in Lock : l2 # l => lock'[l2] = lock[l2]

\* The lock table is in order after such a step, and others have the same locks.
LEMMA GainLocks ==
  ASSUME IInv, NEW x \in Proc, NEW l \in Lock, NEW modes, GainStep(x, l, modes)
  PROVE  /\ LocksRight'
         /\ \A q \in Proc : q # x /\ fpLockBits'[q] = fpLockBits[q] => Unmoved(q)
         /\ \A q \in Proc : \A l2 \in Lock : Waits(lock'[l2], q) <=> Waits(lock[l2], q)
         /\ \A q \in Proc : \A l2 \in Lock : \A k : k \in lock'[l2].releaseMask[q] <=> k \in lock[l2].releaseMask[q]
         /\ \A q \in Proc : \A l2 \in Lock : \A k : k \in lock'[l2].holdMask[q] <=>
              k \in lock[l2].holdMask[q] \/ (q = x /\ l2 = l /\ k \in modes)
  <1>1. LocksRight
    BY DEF IInv
  <1>2. WaitMode' = WaitMode
    BY DEF WaitMode, GainStep
  <1>3. LocksRight'
    <2>. SUFFICES ASSUME NEW l2 \in Lock
                  PROVE  LockRight(lock'[l2], WaitMode) /\ AllBlocked(lock'[l2], WaitMode)
      BY <1>2 DEF LocksRight
    <2>. QED
      BY <1>1 DEF LocksRight, GainStep, Gained
  <1>4. \A q \in Proc : \A l2 \in Lock : Waits(lock'[l2], q) <=> Waits(lock[l2], q)
    BY DEF GainStep, Gained, Waits
  <1>5. \A q \in Proc : \A l2 \in Lock : \A k : k \in lock'[l2].releaseMask[q] <=> k \in lock[l2].releaseMask[q]
    BY DEF GainStep, Gained
  <1>6. \A q \in Proc : \A l2 \in Lock : \A k : k \in lock'[l2].holdMask[q] <=>
              k \in lock[l2].holdMask[q] \/ (q = x /\ l2 = l /\ k \in modes)
    BY DEF GainStep, Gained
  <1>7. \A q \in Proc : q # x /\ fpLockBits'[q] = fpLockBits[q] => Unmoved(q)
    BY <1>4, <1>5, <1>6 DEF Unmoved, GainStep
  <1>. QED
    BY <1>3, <1>4, <1>5, <1>6, <1>7

-----------------------------------------------------------------------------
(* What a step does to the local table and to the count of strong locks.   *)

\* p's entry for a lock is the only one that changes.
EntryBecomes(p, l, m, n, s, f, x) ==
  /\ locallock' \in LOCALS
  /\ \A q \in Proc : q # p => locallock'[q] = locallock[q]
  /\ \A l2 \in Lock, m2 \in LockMode : ~(l2 = l /\ m2 = m) => locallock'[p][l2][m2] = locallock[p][l2][m2]
  /\ locallock'[p][l][m].nLocks = n /\ locallock'[p][l][m].strong = s
  /\ locallock'[p][l][m].fast = f /\ locallock'[p][l][m].exists = x

\* A count changes by d.
CountMoved(i, d) ==
  /\ strongCount' = [j \in DOMAIN strongCount |-> strongCount'[j]]
  /\ \A j \in DOMAIN strongCount : strongCount'[j] = strongCount[j] + (IF j = i THEN d ELSE 0)

One(b) == IF b THEN 1 ELSE 0

\* The strong entries can be counted.
LEMMA StrongFinite ==
  ASSUME NEW i
  PROVE  IsFiniteSet(StrongEntries(i)) /\ Cardinality(StrongEntries(i)) \in Nat
  <1>1. IsFiniteSet(Lock) /\ IsFiniteSet(Proc) /\ IsFiniteSet(LockMode)
    <2>1. 0 \in Int /\ 1 \in Int /\ 8 \in Int /\ NProcs \in Int
      BY LockTableAssumption
    <2>2. IsFiniteSet(1..NProcs) /\ IsFiniteSet(1..8)
      BY <2>1, FS_Interval
    <2>. QED
      BY <2>2, LockTableAssumption, FS_Subset DEF Proc
  <1>2. IsFiniteSet(Lock \X LockMode)
    BY <1>1, FS_Product
  <1>3. IsFiniteSet(Proc \X (Lock \X LockMode))
    BY <1>1, <1>2, FS_Product
  <1>. DEFINE A == Proc \X (Lock \X LockMode)
              B == Proc \X Lock \X LockMode
              f == [a \in A |-> <<a[1], a[2][1], a[2][2]>>]
  <1>4. f \in Surjection(A, B)
    <2>1. f \in [A -> B]
      OBVIOUS
    <2>2. ASSUME NEW e \in B
          PROVE  \E a \in A : f[a] = e
      <3>1. <<e[1], <<e[2], e[3]>>>> \in A
        OBVIOUS
      <3>2. f[<<e[1], <<e[2], e[3]>>>>] = e
        BY <3>1
      <3>. QED
        BY <3>1, <3>2
    <2>. QED
      BY <2>1, <2>2 DEF Surjection
  <1>5. IsFiniteSet(B)
    <2>. HIDE DEF A, B, f
    <2>1. IsFiniteSet(A)
      BY <1>3 DEF A
    <2>. QED
      BY <1>4, <2>1, FS_Surjection
  <1>6. StrongEntries(i) \subseteq B
    BY DEF StrongEntries
  <1>7. IsFiniteSet(StrongEntries(i))
    BY <1>5, <1>6, FS_Subset
  <1>. QED
    BY <1>7, FS_CardinalityType

\* One entry changes, and the count of its partition as much.
LEMMA CountKept ==
  ASSUME IInv, NEW p \in Proc, NEW l \in Lock, NEW m \in LockMode, NEW n, NEW s \in BOOLEAN, NEW f, NEW x,
         EntryBecomes(p, l, m, n, s, f, x), NEW was \in BOOLEAN, was = locallock[p][l][m].strong,
         NEW d, d = One(s) - One(was), CountMoved(HashPartition[l], d)
  PROVE  CountRight' /\ strongCount' \in [DOMAIN strongCount' -> Nat]
  <1>1. CountRight
    BY DEF IInv
  <1>2. DOMAIN strongCount' = DOMAIN strongCount
    BY DEF CountMoved
  <1>3. ASSUME NEW i \in DOMAIN strongCount
        PROVE  strongCount'[i] = Cardinality(StrongEntries(i)') /\ strongCount'[i] \in Nat
    <2>. DEFINE a == StrongEntries(i)
                b == StrongEntries(i)'
                e0 == <<p, l, m>>
    <2>1. strongCount[i] = Cardinality(a) /\ Cardinality(a) \in Nat /\ IsFiniteSet(a)
      BY <1>1, <1>3, StrongFinite DEF CountRight
    <2>2. strongCount'[i] = strongCount[i] + (IF i = HashPartition[l] THEN d ELSE 0)
      BY <1>3 DEF CountMoved
    <2>3. \A e \in Proc \X Lock \X LockMode : e # e0 => (e \in a <=> e \in b)
      <3>. SUFFICES ASSUME NEW q \in Proc, NEW l2 \in Lock, NEW m2 \in LockMode, <<q, l2, m2>> # e0
                    PROVE  <<q, l2, m2>> \in a <=> <<q, l2, m2>> \in b
        OBVIOUS
      <3>1. locallock'[q][l2][m2] = locallock[q][l2][m2]
        <4>1. CASE q = p
          BY <4>1 DEF EntryBecomes
        <4>2. CASE q # p
          BY <4>2 DEF EntryBecomes
        <4>. QED
          BY <4>1, <4>2
      <3>. QED
        BY <3>1 DEF StrongEntries
    <2>4. e0 \in a <=> i = HashPartition[l] /\ was
      BY DEF StrongEntries
    <2>5. e0 \in b <=> i = HashPartition[l] /\ s
      BY DEF StrongEntries, EntryBecomes
    <2>6. a \subseteq Proc \X Lock \X LockMode /\ b \subseteq Proc \X Lock \X LockMode
      BY DEF StrongEntries
    <2>. HIDE DEF a, b, e0
    <2>7. CASE i = HashPartition[l] /\ was /\ ~s
      <3>1. b = a \ {e0} /\ e0 \in a
        BY <2>3, <2>4, <2>5, <2>6, <2>7
      <3>2. Cardinality(b) = Cardinality(a) - 1 /\ Cardinality(b) \in Nat
        BY <2>1, <3>1, FS_RemoveElement, FS_CardinalityType
      <3>3. d = -1
        BY <2>7 DEF One
      <3>. QED
        BY <2>1, <2>2, <2>7, <3>2, <3>3 DEF b
    <2>8. CASE i = HashPartition[l] /\ ~was /\ s
      <3>1. b = a \cup {e0} /\ e0 \notin a
        BY <2>3, <2>4, <2>5, <2>6, <2>8
      <3>2. Cardinality(b) = Cardinality(a) + 1
        BY <2>1, <3>1, FS_AddElement
      <3>3. d = 1
        BY <2>8 DEF One
      <3>4. strongCount'[i] = strongCount[i] + 1
        BY <2>2, <2>8, <3>3
      <3>5. strongCount'[i] = Cardinality(b) /\ Cardinality(b) \in Nat
        BY <2>1, <3>2, <3>4
      <3>. QED
        BY <3>5 DEF b
    <2>9. CASE i # HashPartition[l] \/ (was <=> s)
      <3>1. b = a
        BY <2>3, <2>4, <2>5, <2>6, <2>9
      <3>2. strongCount'[i] = strongCount[i]
        <4>1. CASE i # HashPartition[l]
          BY <2>1, <2>2, <4>1
        <4>2. CASE was <=> s
          <5>1. d = 0
            BY <4>2 DEF One
          <5>. QED
            BY <2>1, <2>2, <5>1
        <4>. QED
          BY <2>9, <4>1, <4>2
      <3>. QED
        BY <2>1, <3>1, <3>2 DEF b
    <2>. QED
      BY <2>7, <2>8, <2>9
  <1>4. strongCount' = [j \in DOMAIN strongCount' |-> strongCount'[j]]
    BY <1>2 DEF CountMoved
  <1>5. CountRight'
    BY <1>1, <1>2, <1>3, <1>4 DEF CountRight
  <1>6. strongCount' \in [DOMAIN strongCount' -> Nat]
    BY <1>2, <1>3, <1>4
  <1>. QED
    BY <1>5, <1>6

\* Counts and the table change in nothing that is counted.
LEMMA CountSame ==
  ASSUME IInv, strongCount' = strongCount, locallock' = locallock
  PROVE  CountRight' /\ strongCount' \in [DOMAIN strongCount' -> Nat]
  <1>1. CountRight /\ TypeOK
    BY DEF IInv
  <1>2. \A i : StrongEntries(i)' = StrongEntries(i)
    BY DEF StrongEntries
  <1>. QED
    BY <1>1, <1>2 DEF CountRight, TypeOK

SetEntry(p, l, m, e) == locallock' = [locallock EXCEPT ![p][l][m] = e]

\* p's entry is set to e.
LEMMA EntrySet ==
  ASSUME locallock \in LOCALS, NEW p \in Proc, NEW l \in Lock, NEW m \in LockMode, NEW e \in ENTRY, SetEntry(p, l, m, e)
  PROVE  EntryBecomes(p, l, m, e.nLocks, e.strong, e.fast, e.exists)
  <1>1. \A q \in Proc : q # p => locallock'[q] = locallock[q]
    BY DEF LOCALS, SetEntry
  <1>2. locallock'[p] = [locallock[p] EXCEPT ![l][m] = e]
    BY DEF LOCALS, SetEntry
  <1>3. locallock'[p][l] = [locallock[p][l] EXCEPT ![m] = e]
    BY <1>2 DEF LOCALS
  <1>4. locallock'[p][l][m] = e
    BY <1>3 DEF LOCALS
  <1>5. \A l2 \in Lock, m2 \in LockMode : ~(l2 = l /\ m2 = m) => locallock'[p][l2][m2] = locallock[p][l2][m2]
    BY <1>2, <1>3 DEF LOCALS
  <1>6. locallock'[p][l] \in [LockMode -> ENTRY]
    BY <1>3 DEF LOCALS
  <1>7. locallock'[p] \in [Lock -> [LockMode -> ENTRY]]
    BY <1>2, <1>6 DEF LOCALS
  <1>8. locallock' \in LOCALS
    BY <1>7 DEF LOCALS, SetEntry
  <1>. QED
    BY <1>1, <1>4, <1>5, <1>8 DEF EntryBecomes

\* The parts of the invariant that are about p.
LEMMA Parts ==
  ASSUME IInv, NEW p \in Proc
  PROVE  /\ TypeOK /\ LocksRight /\ CountRight /\ HoldSafe /\ locallock \in LOCALS
         /\ CallRight(p) /\ EntryRight(p) /\ WaitRight(p) /\ FastRight(p) /\ BeliefRight(p) /\ Closed(p)
  <1>1. TypeOK
    BY DEF IInv
  <1>2. locallock \in LOCALS
    BY <1>1 DEF TypeOK, LOCALS, ENTRY
  <1>. QED
    BY <1>1, <1>2 DEF IInv, ProcRight

\* An entry of the table.
LEMMA EntryTyped ==
  ASSUME IInv, NEW p \in Proc, NEW l \in Lock, NEW m \in LockMode, NEW e, e = locallock[p][l][m]
  PROVE  e \in ENTRY /\ e.nLocks \in Nat /\ e.strong \in BOOLEAN /\ e.fast \in BOOLEAN /\ e.exists \in BOOLEAN
  <1>1. TypeOK
    BY DEF IInv
  <1>2. e \in ENTRY
    BY <1>1, TypeFacts
  <1>. QED
    BY <1>2, EntryFacts

CountUpOne(i) == strongCount' = [strongCount EXCEPT ![i] = @ + 1]
CountDownOne(i) == strongCount' = [strongCount EXCEPT ![i] = @ - 1]

\* A count goes up or down by one.
LEMMA CountSteps ==
  ASSUME strongCount \in [DOMAIN strongCount -> Nat], NEW i
  PROVE  (CountUpOne(i) => CountMoved(i, 1)) /\ (CountDownOne(i) => CountMoved(i, -1))
  <1>1. ASSUME CountUpOne(i)
        PROVE  CountMoved(i, 1)
    <2>1. \A j \in DOMAIN strongCount : strongCount[j] \in Nat /\ strongCount'[j] = IF j = i THEN strongCount[j] + 1 ELSE strongCount[j]
      BY <1>1 DEF CountUpOne
    <2>2. ASSUME NEW j \in DOMAIN strongCount
          PROVE  strongCount'[j] = strongCount[j] + (IF j = i THEN 1 ELSE 0)
      <3>1. CASE j = i
        BY <2>1, <3>1
      <3>2. CASE j # i
        BY <2>1, <3>2
      <3>. QED
        BY <3>1, <3>2
    <2>. QED
      BY <1>1, <2>2 DEF CountMoved, CountUpOne
  <1>2. ASSUME CountDownOne(i)
        PROVE  CountMoved(i, -1)
    <2>1. \A j \in DOMAIN strongCount : strongCount[j] \in Nat /\ strongCount'[j] = IF j = i THEN strongCount[j] - 1 ELSE strongCount[j]
      BY <1>2 DEF CountDownOne
    <2>2. ASSUME NEW j \in DOMAIN strongCount
          PROVE  strongCount'[j] = strongCount[j] + (IF j = i THEN -1 ELSE 0)
      <3>1. CASE j = i
        BY <2>1, <3>1
      <3>2. CASE j # i
        BY <2>1, <3>2
      <3>. QED
        BY <3>1, <3>2
    <2>. QED
      BY <1>2, <2>2 DEF CountMoved, CountDownOne
  <1>. QED
    BY <1>1, <1>2

\* A count that stays.
LEMMA CountStays ==
  ASSUME IInv, strongCount' = strongCount, NEW i
  PROVE  CountMoved(i, 0)
  <1>1. strongCount \in [DOMAIN strongCount -> Nat]
    BY DEF IInv, TypeOK
  <1>. QED
    BY <1>1 DEF CountMoved

-----------------------------------------------------------------------------
(* LockAcquire.                                                            *)

\* A table in order is a table of LOCKs.
LEMMA LocksTyped ==
  ASSUME LocksRight', lock' = [l \in Lock |-> lock'[l]]
  PROVE  lock' \in [Lock -> LOCK]
  <1>1. \A l \in Lock : lock'[l] \in LOCK
    BY DEF LocksRight, LockRight, CountsRight
  <1>. QED
    BY <1>1

\* A backend that does not wait.
LEMMA NotWaiting ==
  ASSUME IInv, NEW p \in Proc, at[p] \notin {"sleep", "cleanup"}
  PROVE  proc[p].waitLock = NULL /\ proc[p].waitStatus # "WAITING" /\ \A l \in Lock : ~Waits(lock[l], p)
  <1>1. WaitRight(p)
    BY DEF IInv, ProcRight
  <1>. QED
    BY <1>1, LockTableAssumption DEF WaitRight

\* One more use of a lock that the transaction has.
AcquireAgain(p, l, m) ==
  /\ at[p] = "run" /\ locallock[p][l][m].nLocks > 0
  /\ locallock' = [locallock EXCEPT ![p][l][m].nLocks = @ + 1]
  /\ calls' = [calls EXCEPT ![p] = @ + 1]
  /\ UNCHANGED <<lock, proc, fastVars, StrongLockInProgress, deadlockTimer, at, call, nextProc>>

\* The first branch of LockAcquire.
LEMMA AcquireAgainRight ==
  ASSUME IInv, NEW p \in Proc, NEW l \in Lock, NEW m \in LockMode, AcquireAgain(p, l, m)
  PROVE  IInv'
  <1>1. /\ lock' = lock /\ proc' = proc /\ strongCount' = strongCount /\ fpLockBits' = fpLockBits
        /\ FastPathLocalUseCount' = FastPathLocalUseCount /\ StrongLockInProgress' = StrongLockInProgress
        /\ deadlockTimer' = deadlockTimer /\ at' = at /\ call' = call /\ nextProc' = nextProc
        /\ calls' = [calls EXCEPT ![p] = @ + 1] /\ at[p] = "run" /\ locallock[p][l][m].nLocks > 0
    BY DEF AcquireAgain, fastVars
  <1>2. PICK e : e = locallock[p][l][m]
    OBVIOUS
  <1>3. TypeOK /\ e \in ENTRY /\ e.nLocks \in Nat /\ e.strong \in BOOLEAN /\ e.fast \in BOOLEAN /\ e.exists \in BOOLEAN
    BY <1>2, EntryTyped, Parts
  <1>4. locallock \in LOCALS
    BY Parts
  <1>5. EntryBecomes(p, l, m, e.nLocks + 1, e.strong, e.fast, e.exists)
    <2>1. locallock' = [locallock EXCEPT ![p][l][m].nLocks = @ + 1]
      BY DEF AcquireAgain
    <2>2. PICK new : new = [e EXCEPT !.nLocks = @ + 1]
      OBVIOUS
    <2>3. SetEntry(p, l, m, new)
      BY <1>2, <1>4, <2>1, <2>2 DEF SetEntry, LOCALS
    <2>4. /\ new \in ENTRY /\ new.nLocks = e.nLocks + 1 /\ new.strong = e.strong /\ new.fast = e.fast
          /\ new.exists = e.exists
      BY <1>3, <2>2 DEF ENTRY
    <2>. QED
      BY <1>4, <2>3, <2>4, EntrySet
  <1>6. Mine(p) /\ (calls'[p] > 0 /\ calls' \in [Proc -> Nat])
    BY <1>1, <1>3, <1>5 DEF Mine, EntryBecomes, TypeOK
  <1>7. LocksRight' /\ \A q \in Proc : Unmoved(q)
    BY <1>1, SameLocks
  <1>8. CountRight' /\ strongCount' \in [DOMAIN strongCount' -> Nat]
    <2>1. One(e.strong) - One(e.strong) = 0
      BY <1>3 DEF One
    <2>2. CountMoved(HashPartition[l], 0)
      BY <1>1, <1>3 DEF CountMoved, TypeOK
    <2>. QED
      BY <1>2, <1>3, <1>5, <2>1, <2>2, CountKept
  <1>9. TypeOK'
    BY <1>1, <1>3, <1>5, <1>6, <1>8 DEF TypeOK, EntryBecomes, LOCALS, ENTRY
  <1>10. CallRight(p) /\ EntryRight(p) /\ WaitRight(p) /\ FastRight(p) /\ BeliefRight(p) /\ Closed(p)
    BY Parts
  <1>11. /\ locallock'[p][l][m].nLocks = e.nLocks + 1 /\ locallock'[p][l][m].strong = e.strong
         /\ locallock'[p][l][m].fast = e.fast /\ locallock'[p][l][m].exists = e.exists
         /\ \A l2 \in Lock, m2 \in LockMode : ~(l2 = l /\ m2 = m) => locallock'[p][l2][m2] = locallock[p][l2][m2]
    BY <1>5 DEF EntryBecomes
  <1>12. CallRight(p)'
    BY <1>1, <1>6, <1>10 DEF CallRight
  <1>13. EntryRight(p)'
    BY <1>1, <1>2, <1>3, <1>10, <1>11 DEF EntryRight, Active, Releasing
  <1>14. WaitRight(p)'
    BY <1>1, <1>10 DEF WaitRight, Hold
  <1>15. FastRight(p)'
    BY <1>1, <1>2, <1>3, <1>10, <1>11 DEF FastRight, Hold
  <1>16. BeliefRight(p)'
    BY <1>1, <1>2, <1>3, <1>10, <1>11 DEF BeliefRight, Hold, Held, Marked, Releasing
  <1>17. Closed(p)'
    BY <1>1, <1>2, <1>3, <1>10, <1>11 DEF Closed
  <1>18. ProcRight(p)'
    BY <1>12, <1>13, <1>14, <1>15, <1>16 DEF ProcRight
  <1>19. OthersFine(p) /\ FastShrinks
    BY <1>1, <1>6, <1>7 DEF OthersFine, FastShrinks
  <1>20. \A q \in Proc : NewSafe(q)
    BY <1>7, OldSafe
  <1>21. Active(p)' => Active(p)
    BY <1>1 DEF Active, Releasing
  <1>. QED
    BY <1>7, <1>8, <1>9, <1>17, <1>18, <1>19, <1>20, <1>21, Finish

\* The lock is not among those that the transaction has, nor the one it acquires.
LEMMA NoEntry ==
  ASSUME IInv, NEW p \in Proc, at[p] = "run", NEW l \in Lock, NEW m \in LockMode, locallock[p][l][m].nLocks = 0
  PROVE  /\ ~locallock[p][l][m].exists /\ ~locallock[p][l][m].strong /\ m \notin Held(p, l)
         /\ \A l2 \in Lock, m2 \in LockMode : locallock[p][l2][m2].exists => locallock[p][l2][m2].nLocks > 0
         /\ ~StrongLockInProgress[p] /\ \A l2 \in Lock : Marked(p, l2) = {}
  <1>1. CallRight(p) /\ EntryRight(p) /\ BeliefRight(p) /\ TypeOK
    BY Parts
  <1>2. \A l2 \in Lock, m2 \in LockMode : locallock[p][l2][m2].nLocks \in Nat
    BY EntryTyped
  <1>3. \A l2 \in Lock, m2 \in LockMode : locallock[p][l2][m2].exists => locallock[p][l2][m2].nLocks # 0
    BY <1>1 DEF EntryRight
  <1>4. m \notin Held(p, l)
    BY <1>1 DEF BeliefRight, Releasing
  <1>5. \A l2 \in Lock : Marked(p, l2) = {}
    <2>. SUFFICES ASSUME NEW l2 \in Lock
                  PROVE  Marked(p, l2) = {}
      OBVIOUS
    <2>1. Marked(p, l2) \subseteq LockMode
      <3>1. lock[l2] \in LOCK
        BY <1>1 DEF TypeOK
      <3>. QED
        BY <3>1, LockFacts DEF Marked
    <2>. QED
      BY <1>1, <2>1 DEF BeliefRight, Releasing
  <1>6. ~StrongLockInProgress[p]
    BY <1>1 DEF CallRight
  <1>. QED
    BY <1>1, <1>2, <1>3, <1>4, <1>5, <1>6 DEF EntryRight

\* SlowAcquire, as a step.
AcquireSlowly(p, l, m, dontWait) ==
  /\ at[p] = "run" /\ locallock[p][l][m].nLocks = 0
  /\ SlowAcquire(p, l, m, dontWait)
  /\ calls' = [calls EXCEPT ![p] = @ + 1]
  /\ UNCHANGED <<lock, proc, deadlockTimer>>

\* The last branch of LockAcquire.
LEMMA AcquireSlowlyRight ==
  ASSUME IInv, NEW p \in Proc, NEW l \in Lock, NEW m \in LockMode, NEW dontWait \in BOOLEAN,
         AcquireSlowly(p, l, m, dontWait)
  PROVE  IInv'
  <1>. DEFINE s == Strong(l, m)
  <1>1. /\ lock' = lock /\ proc' = proc /\ fpLockBits' = fpLockBits
        /\ FastPathLocalUseCount' = FastPathLocalUseCount
        /\ deadlockTimer' = deadlockTimer /\ at[p] = "run" /\ locallock[p][l][m].nLocks = 0
        /\ calls' = [calls EXCEPT ![p] = @ + 1]
        /\ call' = [call EXCEPT ![p] = [lock |-> l, mode |-> m, dontWait |-> dontWait]]
        /\ StrongLockInProgress' = [StrongLockInProgress EXCEPT ![p] = s]
        /\ nextProc' = [nextProc EXCEPT ![p] = IF s THEN 1 ELSE 0]
        /\ at' = [at EXCEPT ![p] = IF s THEN "transfer" ELSE "table"]
    BY DEF AcquireSlowly, SlowAcquire, Goto
  <1>2. PICK e : e = locallock[p][l][m]
    OBVIOUS
  <1>3. TypeOK /\ e \in ENTRY /\ e.nLocks \in Nat /\ e.strong \in BOOLEAN /\ e.fast \in BOOLEAN /\ e.exists \in BOOLEAN
    BY <1>2, EntryTyped, Parts
  <1>4. /\ e.nLocks = 0 /\ ~e.exists /\ ~e.strong /\ m \notin Held(p, l)
        /\ \A l2 \in Lock, m2 \in LockMode : locallock[p][l2][m2].exists => locallock[p][l2][m2].nLocks > 0
        /\ ~StrongLockInProgress[p] /\ \A l2 \in Lock : Marked(p, l2) = {}
    BY <1>1, <1>2, NoEntry
  <1>5. s \in BOOLEAN
    BY DEF Strong
  <1>6. EntryBecomes(p, l, m, 0, s, e.fast, TRUE)
    <2>1. locallock' = [locallock EXCEPT ![p][l][m].exists = TRUE, ![p][l][m].strong = s]
      BY DEF AcquireSlowly, SlowAcquire
    <2>. HIDE DEF s
    <2>2. PICK new : new = [e EXCEPT !.exists = TRUE, !.strong = s]
      OBVIOUS
    <2>3. locallock \in LOCALS
      BY Parts
    <2>6. PICK e1 : e1 = [e EXCEPT !.exists = TRUE]
      OBVIOUS
    <2>7. PICK g : g = [locallock EXCEPT ![p][l][m] = e1]
      OBVIOUS
    <2>8. locallock' = [g EXCEPT ![p][l][m].strong = s]
      BY <1>2, <2>1, <2>6, <2>7
    <2>9. g[p][l][m] = e1 /\ new = [e1 EXCEPT !.strong = s]
      BY <2>2, <2>3, <2>6, <2>7 DEF LOCALS
    <2>10. locallock' = [g EXCEPT ![p][l][m] = new]
      BY <2>8, <2>9
    <2>11. [g EXCEPT ![p][l][m] = new] = [locallock EXCEPT ![p][l][m] = new]
      BY <2>3, <2>7 DEF LOCALS
    <2>4. SetEntry(p, l, m, new)
      BY <2>10, <2>11 DEF SetEntry
    <2>5. new \in ENTRY /\ new.nLocks = 0 /\ new.strong = s /\ new.fast = e.fast /\ new.exists = TRUE
      BY <1>3, <1>4, <1>5, <2>2 DEF ENTRY
    <2>. QED
      BY <2>3, <2>4, <2>5, EntrySet
  <1>7. /\ at'[p] = (IF s THEN "transfer" ELSE "table") /\ StrongLockInProgress'[p] = s
        /\ call'[p].lock = l /\ call'[p].mode = m /\ (s => nextProc'[p] = 1) /\ calls'[p] > 0
    BY <1>1, <1>3 DEF TypeOK
  <1>8. Mine(p)
    BY <1>1, <1>3, <1>6 DEF Mine, EntryBecomes, TypeOK
  <1>9. LocksRight' /\ \A q \in Proc : Unmoved(q)
    BY <1>1, SameLocks
  <1>10. CountRight' /\ strongCount' \in [DOMAIN strongCount' -> Nat]
    <2>1. strongCount' = [strongCount EXCEPT ![HashPartition[l]] = IF s THEN @ + 1 ELSE @]
      BY DEF AcquireSlowly, SlowAcquire
    <2>2. PICK d : d = One(s) - One(e.strong)
      OBVIOUS
    <2>3. d = IF s THEN 1 ELSE 0
      BY <1>4, <2>2 DEF One
    <2>. HIDE DEF s
    <2>4. CountMoved(HashPartition[l], d)
      <3>1. strongCount \in [DOMAIN strongCount -> Nat]
        BY <1>3 DEF TypeOK
      <3>2. CASE s
        <4>1. d = 1 /\ CountUpOne(HashPartition[l])
          BY <2>1, <2>3, <3>2 DEF CountUpOne
        <4>. QED
          BY <3>1, <4>1, CountSteps
      <3>3. CASE ~s
        <4>1. d = 0 /\ strongCount' = strongCount
          BY <2>1, <2>3, <3>1, <3>3
        <4>. QED
          BY <3>1, <4>1 DEF CountMoved
      <3>. QED
        BY <3>2, <3>3
    <2>. QED
      BY <1>2, <1>3, <1>5, <1>6, <2>2, <2>4, CountKept
  <1>11. /\ locallock'[p][l][m].nLocks = 0 /\ locallock'[p][l][m].strong = s
         /\ locallock'[p][l][m].exists
         /\ \A l2 \in Lock, m2 \in LockMode : ~(l2 = l /\ m2 = m) => locallock'[p][l2][m2] = locallock[p][l2][m2]
    BY <1>6 DEF EntryBecomes
  <1>. HIDE DEF s
  <1>12. TypeOK'
    <2>1. nextProc' \in [Proc -> 0..NProcs]
      BY <1>1, <1>3, LockTableAssumption DEF TypeOK
    <2>2. /\ call' \in [Proc -> [lock : Lock \cup {NULL}, mode : LockMode \cup {0}, dontWait : BOOLEAN]]
          /\ calls' \in [Proc -> Nat] /\ StrongLockInProgress' \in [Proc -> BOOLEAN]
      BY <1>1, <1>3, <1>5 DEF TypeOK
    <2>3. at' \in [Proc -> PLACE]
      BY <1>1, <1>3 DEF TypeOK, PLACE
    <2>. QED
      BY <1>1, <1>3, <1>6, <1>10, <2>1, <2>2, <2>3 DEF TypeOK, EntryBecomes, LOCALS, ENTRY, PLACE
  <1>13. CallRight(p) /\ EntryRight(p) /\ WaitRight(p) /\ FastRight(p) /\ BeliefRight(p) /\ Closed(p)
    BY Parts
  <1>14. CallRight(p)'
    BY <1>5, <1>7, <1>11, LockTableAssumption DEF CallRight, s
  <1>15. EntryRight(p)'
    BY <1>1, <1>4, <1>7, <1>11, <1>13 DEF EntryRight, Active, Releasing
  <1>16. WaitRight(p)'
    <2>1. proc[p].waitLock = NULL
      BY <1>1, NotWaiting
    <2>. QED
      BY <1>1, <1>7, <1>13, <2>1 DEF WaitRight, Hold
  <1>17. FastRight(p)'
    BY <1>1, <1>2, <1>4, <1>11, <1>13 DEF FastRight, Hold, Held
  <1>18. BeliefRight(p)'
    <2>1. \A l2 \in Lock, m2 \in LockMode : locallock'[p][l2][m2].nLocks = locallock[p][l2][m2].nLocks
      BY <1>2, <1>4, <1>11
    <2>2. \A l2 \in Lock : Held(p, l2)' = Held(p, l2) /\ Marked(p, l2)' = {}
      BY <1>1, <1>4 DEF Held, Marked
    <2>. QED
      BY <1>1, <1>13, <2>1, <2>2 DEF BeliefRight, Releasing
  <1>19. Closed(p)'
    BY <1>1, <1>7, <1>11, <1>13 DEF Closed, Proc
  <1>20. ProcRight(p)'
    BY <1>14, <1>15, <1>16, <1>17, <1>18 DEF ProcRight
  <1>21. OthersFine(p) /\ FastShrinks
    BY <1>1, <1>8, <1>9 DEF OthersFine, FastShrinks
  <1>22. \A q \in Proc : NewSafe(q)
    BY <1>9, OldSafe
  <1>23. Active(p)' => Active(p)
    BY <1>1 DEF Active, Releasing
  <1>. QED
    BY <1>9, <1>10, <1>12, <1>19, <1>20, <1>21, <1>22, <1>23, Finish

\* FastPathAcquire, as a step.
AcquireFast(p, l, m) ==
  /\ at[p] = "run" /\ locallock[p][l][m].nLocks = 0
  /\ FastPathAcquire(p, l, m)
  /\ calls' = [calls EXCEPT ![p] = @ + 1]
  /\ UNCHANGED <<lock, proc, deadlockTimer>>

\* While the count of l's partition is zero, nobody has l in a strong mode or acquires
\* it in one.
LEMMA NobodyStrong ==
  ASSUME IInv, NEW l \in Lock, strongCount[HashPartition[l]] = 0, NEW q \in Proc
  PROVE  /\ \A m \in LockMode : ~locallock[q][l][m].strong
         /\ at[q] \in {"transfer", "table", "sleep"} /\ call[q].lock = l => ~StrongLockInProgress[q] /\ ~Strong(l, call[q].mode)
         /\ \A m \in LockMode : m \in Held(q, l) /\ Active(q) => ~Strong(l, m)
  <1>1. StrongEntries(HashPartition[l]) = {}
    <2>1. CountRight
      BY Parts DEF IInv
    <2>2. Cardinality(StrongEntries(HashPartition[l])) = 0
      BY <2>1 DEF CountRight
    <2>. QED
      BY <2>2, StrongFinite, FS_EmptySet
  <1>2. \A m \in LockMode : ~locallock[q][l][m].strong
    <2>. SUFFICES ASSUME NEW m \in LockMode, locallock[q][l][m].strong
                  PROVE  FALSE
      OBVIOUS
    <2>1. <<q, l, m>> \in StrongEntries(HashPartition[l])
      BY DEF StrongEntries
    <2>. QED
      BY <1>1, <2>1
  <1>3. CallRight(q) /\ EntryRight(q) /\ BeliefRight(q)
    BY Parts
  <1>4. at[q] \in {"transfer", "table", "sleep"} /\ call[q].lock = l => ~StrongLockInProgress[q] /\ ~Strong(l, call[q].mode)
    BY <1>2, <1>3 DEF CallRight
  <1>5. ASSUME NEW m \in LockMode, m \in Held(q, l), Active(q), Strong(l, m)
        PROVE  FALSE
    <2>1. ~(locallock[q][l][m].nLocks > 0)
      BY <1>2, <1>3, <1>5 DEF EntryRight
    <2>2. at[q] = "sleep" /\ call[q].lock = l /\ call[q].mode = m
      BY <1>3, <1>5, <2>1 DEF BeliefRight, Active
    <2>. QED
      BY <1>4, <1>5, <2>2
  <1>. QED
    BY <1>2, <1>4, <1>5

\* The second branch of LockAcquire: no transaction has l in a mode that conflicts.
LEMMA AcquireFastRight ==
  ASSUME IInv, NEW p \in Proc, NEW l \in Lock, NEW m \in LockMode, AcquireFast(p, l, m)
  PROVE  IInv'
  <1>1. /\ lock' = lock /\ proc' = proc /\ strongCount' = strongCount /\ StrongLockInProgress' = StrongLockInProgress
        /\ deadlockTimer' = deadlockTimer /\ at' = at /\ call' = call /\ nextProc' = nextProc
        /\ calls' = [calls EXCEPT ![p] = @ + 1] /\ at[p] = "run" /\ locallock[p][l][m].nLocks = 0
        /\ Eligible(l, m) /\ strongCount[HashPartition[l]] = 0 /\ FastPathLocalUseCount[p] < FP_LOCK_SLOTS_PER_BACKEND
        /\ fpLockBits' = [fpLockBits EXCEPT ![p][l] = @ \cup {m}]
        /\ FastPathLocalUseCount' = [FastPathLocalUseCount EXCEPT ![p] = IF fpLockBits[p][l] = {} THEN @ + 1 ELSE @]
    BY DEF AcquireFast, FastPathAcquire, FastPathOpen
  <1>2. PICK e : e = locallock[p][l][m]
    OBVIOUS
  <1>3. TypeOK /\ e \in ENTRY /\ e.nLocks \in Nat /\ e.strong \in BOOLEAN /\ e.fast \in BOOLEAN /\ e.exists \in BOOLEAN
    BY <1>2, EntryTyped, Parts
  <1>4. /\ e.nLocks = 0 /\ ~e.exists /\ ~e.strong /\ m \notin Held(p, l)
        /\ \A l2 \in Lock, m2 \in LockMode : locallock[p][l2][m2].exists => locallock[p][l2][m2].nLocks > 0
        /\ ~StrongLockInProgress[p] /\ \A l2 \in Lock : Marked(p, l2) = {}
    BY <1>1, <1>2, NoEntry
  <1>5. EntryBecomes(p, l, m, 1, FALSE, TRUE, TRUE)
    <2>1. PICK new : new = [nLocks |-> e.nLocks + 1, strong |-> e.strong, fast |-> TRUE, exists |-> TRUE]
      OBVIOUS
    <2>2. locallock' = [locallock EXCEPT ![p][l][m] =
                  [nLocks |-> @.nLocks + 1, strong |-> @.strong, fast |-> TRUE, exists |-> TRUE]]
      BY DEF AcquireFast, FastPathAcquire, GrantLockLocal
    <2>3. locallock \in LOCALS
      BY Parts
    <2>4. SetEntry(p, l, m, new)
      BY <1>2, <2>1, <2>2, <2>3 DEF SetEntry, LOCALS
    <2>5. new \in ENTRY /\ new.nLocks = 1 /\ new.strong = FALSE /\ new.fast = TRUE /\ new.exists = TRUE
      BY <1>3, <1>4, <2>1 DEF ENTRY
    <2>. QED
      BY <2>3, <2>4, <2>5, EntrySet
  <1>6. Mine(p) /\ calls'[p] > 0 /\ calls' \in [Proc -> Nat]
    BY <1>1, <1>3, <1>5 DEF Mine, EntryBecomes, TypeOK
  <1>7. LocksRight' /\ \A q \in Proc : q # p => Unmoved(q)
    <2>1. \A q \in Proc : q # p => fpLockBits'[q] = fpLockBits[q]
      BY <1>1, <1>3 DEF TypeOK
    <2>. QED
      BY <1>1, <2>1, SameLocks
  <1>8. CountRight' /\ strongCount' \in [DOMAIN strongCount' -> Nat]
    <2>1. e.strong = FALSE /\ One(FALSE) - One(FALSE) = 0
      BY <1>3, <1>4 DEF One
    <2>2. CountMoved(HashPartition[l], 0)
      BY <1>1, CountStays
    <2>. QED
      BY <1>2, <1>3, <1>5, <2>1, <2>2, CountKept
  <1>9. /\ fpLockBits' \in [Proc -> [Lock -> SUBSET LockMode]]
        /\ \A l2 \in Lock : \A k : k \in fpLockBits'[p][l2] <=> k \in fpLockBits[p][l2] \/ (l2 = l /\ k = m)
        /\ \A q \in Proc : q # p => fpLockBits'[q] = fpLockBits[q]
    <2>1. fpLockBits \in [Proc -> [Lock -> SUBSET LockMode]]
      BY <1>3 DEF TypeOK
    <2>. QED
      BY <1>1, <2>1
  <1>10. /\ FastPathLocalUseCount' \in [Proc -> 0..FP_LOCK_SLOTS_PER_BACKEND]
         /\ UsedSlots(fpLockBits'[p]) <= FastPathLocalUseCount'[p]
    <2>1. PICK a : a = fpLockBits[p]
      OBVIOUS
    <2>2. PICK b : b = fpLockBits'[p]
      OBVIOUS
    <2>3. PICK n : n = FastPathLocalUseCount[p]
      OBVIOUS
    <2>4. a \in [Lock -> SUBSET LockMode] /\ b \in [Lock -> SUBSET LockMode]
      BY <1>3, <1>9, <2>1, <2>2 DEF TypeOK
    <2>5. UsedSlots(a) <= n /\ n \in 0..FP_LOCK_SLOTS_PER_BACKEND /\ UsedSlots(a) \in Nat /\ UsedSlots(b) \in Nat
      <3>1. FastRight(p)
        BY Parts
      <3>. QED
        BY <1>3, <2>1, <2>3, <2>4, <3>1, SlotsFacts DEF FastRight, TypeOK
    <2>6. \A l2 \in Lock : l2 # l => b[l2] = a[l2]
      BY <1>1, <1>3, <2>1, <2>2 DEF TypeOK
    <2>7. FastPathLocalUseCount'[p] = IF a[l] = {} THEN n + 1 ELSE n
      BY <1>1, <1>3, <2>1, <2>3 DEF TypeOK
    <2>8. UsedSlots(b) <= (IF a[l] = {} THEN n + 1 ELSE n)
      <3>1. CASE a[l] = {}
        <4>1. UsedSlots(b) <= UsedSlots(a) + 1
          BY <2>4, <2>6, <3>1, SlotsFacts
        <4>. QED
          BY <2>5, <3>1, <4>1
      <3>2. CASE a[l] # {}
        <4>1. UsedSlots(b) <= UsedSlots(a)
          BY <2>4, <2>6, <3>2, SlotsFacts
        <4>. QED
          BY <2>5, <3>2, <4>1
      <3>. QED
        BY <3>1, <3>2
    <2>9. FP_LOCK_SLOTS_PER_BACKEND \in Nat
      BY LockManagerAssumption
    <2>10. n < FP_LOCK_SLOTS_PER_BACKEND
      BY <1>1, <2>3
    <2>11. FastPathLocalUseCount'[p] \in 0..FP_LOCK_SLOTS_PER_BACKEND
      BY <2>5, <2>7, <2>9, <2>10
    <2>12. FastPathLocalUseCount' \in [Proc -> 0..FP_LOCK_SLOTS_PER_BACKEND]
      BY <1>1, <1>3, <2>11 DEF TypeOK
    <2>. QED
      BY <2>2, <2>7, <2>8, <2>12
  <1>11. TypeOK'
    BY <1>1, <1>3, <1>5, <1>6, <1>8, <1>9, <1>10 DEF TypeOK, EntryBecomes, LOCALS, ENTRY
  <1>12. CallRight(p) /\ EntryRight(p) /\ WaitRight(p) /\ FastRight(p) /\ BeliefRight(p) /\ Closed(p)
    BY Parts
  <1>13. /\ locallock'[p][l][m].nLocks = 1 /\ ~locallock'[p][l][m].strong
         /\ locallock'[p][l][m].fast /\ locallock'[p][l][m].exists
         /\ \A l2 \in Lock, m2 \in LockMode : ~(l2 = l /\ m2 = m) => locallock'[p][l2][m2] = locallock[p][l2][m2]
    BY <1>5 DEF EntryBecomes
  <1>14. CallRight(p)'
    BY <1>1, <1>4, <1>6 DEF CallRight
  <1>15. ~Strong(l, m)
    BY <1>1, LockTableAssumption DEF Strong, Eligible, ShareUpdateExclusiveLock
  <1>16. EntryRight(p)'
    BY <1>1, <1>12, <1>13, <1>15 DEF EntryRight, Active, Releasing
  <1>17. WaitRight(p)'
    BY <1>1, <1>12 DEF WaitRight, Hold
  <1>18. FastRight(p)'
    <2>1. \A l2 \in Lock, k \in LockMode : k \in fpLockBits'[p][l2] =>
             Eligible(l2, k) /\ locallock'[p][l2][k].nLocks > 0 /\ locallock'[p][l2][k].fast /\ k \notin lock[l2].holdMask[p]
      BY <1>1, <1>4, <1>9, <1>12, <1>13 DEF FastRight, Hold, Held
    <2>. QED
      BY <1>1, <1>10, <2>1 DEF FastRight, Hold
  <1>19. BeliefRight(p)'
    <2>1. \A l2 \in Lock, k \in LockMode : ~(l2 = l /\ k = m) => (k \in Held(p, l2)' <=> k \in Held(p, l2))
      BY <1>1, <1>9 DEF Held
    <2>2. m \in Held(p, l)'
      BY <1>9 DEF Held
    <2>3. \A l2 \in Lock : Marked(p, l2)' = {}
      BY <1>1, <1>4 DEF Marked
    <2>. QED
      BY <1>1, <1>12, <1>13, <2>1, <2>2, <2>3 DEF BeliefRight, Releasing
  <1>20. ProcRight(p)'
    BY <1>14, <1>16, <1>17, <1>18, <1>19 DEF ProcRight
  <1>21. \A q \in Proc : Closed(q)'
    <2>. SUFFICES ASSUME NEW q \in Proc, NEW h \in Proc
                  PROVE  /\ \A l2 \in Lock, k \in LockMode :
                              locallock'[q][l2][k].strong /\ locallock'[q][l2][k].nLocks > 0 => fpLockBits'[h][l2] = {}
                         /\ at[q] \in {"table", "sleep"} /\ StrongLockInProgress[q] => fpLockBits'[h][call[q].lock] = {}
                         /\ at[q] = "transfer" /\ h < nextProc[q] => fpLockBits'[h][call[q].lock] = {}
      BY <1>1 DEF Closed
    <2>1. Closed(q) /\ CallRight(q)
      BY Parts
    <2>2. /\ \A k \in LockMode : ~locallock[q][l][k].strong
          /\ at[q] \in {"transfer", "table", "sleep"} /\ call[q].lock = l => ~StrongLockInProgress[q]
      BY <1>1, NobodyStrong
    <2>3. \A l2 \in Lock : l2 # l => fpLockBits'[h][l2] = fpLockBits[h][l2]
      BY <1>1, <1>3 DEF TypeOK
    <2>4. \A l2 \in Lock, k \in LockMode : locallock'[q][l2][k].strong => locallock[q][l2][k].strong /\ locallock'[q][l2][k] = locallock[q][l2][k]
      <3>1. CASE q = p
        BY <1>13, <3>1
      <3>2. CASE q # p
        BY <1>5, <3>2 DEF EntryBecomes
      <3>. QED
        BY <3>1, <3>2
    <2>5. \A l2 \in Lock, k \in LockMode :
              locallock'[q][l2][k].strong /\ locallock'[q][l2][k].nLocks > 0 => fpLockBits'[h][l2] = {}
      BY <2>1, <2>2, <2>3, <2>4 DEF Closed
    <2>6. at[q] \in {"table", "sleep"} /\ StrongLockInProgress[q] => fpLockBits'[h][call[q].lock] = {}
      BY <2>1, <2>2, <2>3 DEF Closed, CallRight
    <2>7. at[q] = "transfer" /\ h < nextProc[q] => fpLockBits'[h][call[q].lock] = {}
      BY <2>1, <2>2, <2>3 DEF Closed, CallRight
    <2>. QED
      BY <2>5, <2>6, <2>7
  <1>22. OthersFine(p)
    BY <1>6, <1>7 DEF OthersFine
  <1>23. NewSafe(p)
    <2>. SUFFICES ASSUME NEW l2 \in Lock, NEW k \in LockMode, k \in Held(p, l2)', k \notin Held(p, l2),
                         NEW h \in Proc, h # p, Active(h)', NEW k2, k2 \in Held(h, l2)', k2 \in conflictTab(k)
                  PROVE  FALSE
      BY DEF NewSafe
    <2>1. l2 = l /\ k = m
      BY <1>1, <1>9 DEF Held
    <2>2. k2 \in Held(h, l) /\ Active(h)
      BY <1>1, <1>9, <2>1 DEF Held, Active, Releasing
    <2>3. k2 \in LockMode /\ m \in conflictTab(k2)
      <3>1. k2 \in LockMode
        BY DEF conflictTab
      <3>. QED
        BY <2>1, <3>1, ConflictsSymmetric
    <2>4. Strong(l, k2)
      BY <1>1, <2>3, WeakConflicts
    <2>. QED
      BY <1>1, <2>2, <2>3, <2>4, NobodyStrong
  <1>24. \A q \in Proc : NewSafe(q)
    BY <1>7, <1>23, OldSafe
  <1>25. Active(p)' => Active(p)
    BY <1>1 DEF Active, Releasing
  <1>. QED
    BY <1>7, <1>8, <1>11, <1>20, <1>21, <1>22, <1>24, <1>25, FinishAll

\* LockAcquire keeps the invariant.
LEMMA LockAcquireRight ==
  ASSUME IInv, NEW p \in Proc, NEW r \in Requests[p], NEW dontWait \in BOOLEAN, LockAcquire(p, r[1], r[2], dontWait)
  PROVE  IInv'
  <1>1. PICK l : l = r[1]
    OBVIOUS
  <1>2. PICK m : m = r[2]
    OBVIOUS
  <1>3. l \in Lock /\ m \in LockMode
    BY <1>1, <1>2, LockManagerAssumption
  <1>4. LockAcquire(p, l, m, dontWait)
    BY <1>1, <1>2
  <1>5. \/ AcquireAgain(p, l, m) \/ AcquireFast(p, l, m) \/ AcquireSlowly(p, l, m, dontWait)
    BY <1>4 DEF LockAcquire, AcquireAgain, AcquireFast, AcquireSlowly
  <1>. QED
    BY <1>3, <1>5, AcquireAgainRight, AcquireFastRight, AcquireSlowlyRight

-----------------------------------------------------------------------------
(* The fast-path locks of others are transferred.                          *)

\* What q holds is the same, but where it holds it may be another place.
SameHeld(q) ==
  /\ proc'[q] = proc[q]
  /\ \A l \in Lock : /\ \A k : k \in Held(q, l)' <=> k \in Held(q, l)
                     /\ \A k : k \in Hold(q, l) => k \in Hold(q, l)'
                     /\ \A k : k \in Marked(q, l)' <=> k \in Marked(q, l)
                     /\ \A k : k \in fpLockBits'[q][l] => k \in fpLockBits[q][l] /\ (k \in Hold(q, l)' => k \in Hold(q, l))
                     /\ Waits(lock'[l], q) <=> Waits(lock[l], q)

\* Who is left alone or has its fast-path locks transferred holds the same.
LEMMA SameHeldFacts ==
  ASSUME NEW q \in Proc, Unmoved(q) \/ Moved(q)
  PROVE  SameHeld(q)
  <1>1. CASE Unmoved(q)
    BY <1>1 DEF Unmoved, SameHeld, Held, Hold, Marked
  <1>2. CASE Moved(q)
    <2>1. PICK l \in Lock, modes \in SUBSET LockMode : MovedToTable(q, l, modes)
      BY <1>2 DEF Moved
    <2>. QED
      BY <2>1 DEF MovedToTable, SameHeld, Held, Hold, Marked
  <1>. QED
    BY <1>1, <1>2

\* Its fast-path array is in order if its local table has not changed in that.
LEMMA SameFast ==
  ASSUME TypeOK, TypeOK', NEW q \in Proc, SameHeld(q), FastRight(q), FastPathLocalUseCount'[q] = FastPathLocalUseCount[q],
         \A l \in Lock, m \in LockMode : /\ locallock'[q][l][m].nLocks = locallock[q][l][m].nLocks
                                         /\ locallock'[q][l][m].fast = locallock[q][l][m].fast
  PROVE  FastRight(q)'
  <1>1. PICK a : a = fpLockBits[q]
    OBVIOUS
  <1>2. PICK b : b = fpLockBits'[q]
    OBVIOUS
  <1>3. a \in [Lock -> SUBSET LockMode] /\ b \in [Lock -> SUBSET LockMode] /\ \A l \in Lock : b[l] \subseteq a[l]
    <2>1. \A l \in Lock : b[l] \subseteq a[l]
      BY <1>1, <1>2 DEF SameHeld
    <2>. QED
      BY <1>1, <1>2, <2>1 DEF TypeOK
  <1>4. UsedSlots(b) <= UsedSlots(a) /\ UsedSlots(a) \in Nat /\ UsedSlots(b) \in Nat
    BY <1>3, SlotsFacts
  <1>5. UsedSlots(a) <= FastPathLocalUseCount[q] /\ FastPathLocalUseCount[q] \in Nat
    BY <1>1 DEF FastRight, TypeOK
  <1>6. UsedSlots(b) <= FastPathLocalUseCount'[q]
    BY <1>4, <1>5
  <1>7. \A l \in Lock, m \in LockMode : m \in fpLockBits'[q][l] =>
          Eligible(l, m) /\ locallock'[q][l][m].nLocks > 0 /\ locallock'[q][l][m].fast /\ m \notin Hold(q, l)'
    BY DEF SameHeld, FastRight
  <1>. QED
    BY <1>2, <1>6, <1>7 DEF FastRight

\* Transfer of some of q's modes.
LEMMA TransferRight ==
  ASSUME IInv, NEW q \in Proc, NEW l \in Lock, NEW modes, modes \subseteq fpLockBits[q][l], Transfer(q, l, modes), proc' = proc
  PROVE  /\ LocksRight' /\ lock' \in [Lock -> LOCK] /\ FastShrinks /\ fpLockBits' \in [Proc -> [Lock -> SUBSET LockMode]]
         /\ \A h \in Proc : h # q => Unmoved(h)
         /\ Moved(q) /\ fpLockBits'[q][l] = fpLockBits[q][l] \ modes
         /\ \A h \in Proc : h # q => fpLockBits'[h] = fpLockBits[h]
  <1>1. TypeOK /\ LocksRight /\ CallRight(q) /\ WaitRight(q) /\ FastRight(q)
    BY Parts
  <1>2. PICK lk : lk = lock[l]
    OBVIOUS
  <1>3. PICK r : r = SetupAndGrant(lk, q, modes)
    OBVIOUS
  <1>4. lock' = [lock EXCEPT ![l] = r] /\ fpLockBits' = [fpLockBits EXCEPT ![q][l] = @ \ modes]
    BY <1>2, <1>3 DEF Transfer, SetLock
  <1>5. modes \in SUBSET LockMode
    BY <1>1 DEF TypeOK
  <1>6. modes \cap lk.holdMask[q] = {}
    BY <1>1, <1>2, <1>5 DEF FastRight, Hold
  <1>7. Waits(lk, q) => WaitMode[q] \notin modes
    <2>. SUFFICES ASSUME Waits(lk, q), WaitMode[q] \in modes
                  PROVE  FALSE
      OBVIOUS
    <2>1. proc[q].waitLock = l /\ l # NULL
      BY <1>1, <1>2, LockTableAssumption DEF WaitRight
    <2>2. at[q] \in {"sleep", "cleanup"} /\ call[q].lock = l /\ call[q].mode = WaitMode[q]
      BY <1>1, <2>1 DEF WaitRight, WaitMode
    <2>3. locallock[q][l][WaitMode[q]].nLocks = 0
      BY <1>1, <2>2 DEF CallRight
    <2>. QED
      BY <1>1, <1>5, <2>3 DEF FastRight
  <1>8. Gained(lk, r, q, modes)
    <2>1. LockRight(lk, WaitMode) /\ AllBlocked(lk, WaitMode)
      BY <1>1, <1>2 DEF LocksRight
    <2>. QED
      BY <1>3, <1>5, <1>6, <1>7, <2>1, GainRight
  <1>9. lock'[l] = r /\ \A l2 \in Lock : l2 # l => lock'[l2] = lock[l2]
    BY <1>1, <1>4 DEF TypeOK
  <1>10. GainStep(q, l, modes)
    BY <1>2, <1>8, <1>9 DEF GainStep
  <1>11. /\ LocksRight'
         /\ \A h \in Proc : h # q /\ fpLockBits'[h] = fpLockBits[h] => Unmoved(h)
         /\ \A h \in Proc : \A l2 \in Lock : Waits(lock'[l2], h) <=> Waits(lock[l2], h)
         /\ \A h \in Proc : \A l2 \in Lock : \A k : k \in lock'[l2].releaseMask[h] <=> k \in lock[l2].releaseMask[h]
         /\ \A h \in Proc : \A l2 \in Lock : \A k : k \in lock'[l2].holdMask[h] <=>
              k \in lock[l2].holdMask[h] \/ (h = q /\ l2 = l /\ k \in modes)
    BY <1>10, GainLocks
  <1>12. /\ fpLockBits' \in [Proc -> [Lock -> SUBSET LockMode]]
         /\ \A l2 \in Lock : \A k : k \in fpLockBits'[q][l2] <=> k \in fpLockBits[q][l2] /\ ~(l2 = l /\ k \in modes)
         /\ \A h \in Proc : h # q => fpLockBits'[h] = fpLockBits[h]
    <2>1. fpLockBits \in [Proc -> [Lock -> SUBSET LockMode]]
      BY <1>1 DEF TypeOK
    <2>. QED
      BY <1>4, <2>1
  <1>13. MovedToTable(q, l, modes)
    BY <1>11, <1>12 DEF MovedToTable
  <1>14. lock' \in [Lock -> LOCK]
    <2>1. lock' = [l2 \in Lock |-> lock'[l2]]
      BY <1>1, <1>4 DEF TypeOK
    <2>. QED
      BY <1>11, <2>1, LocksTyped
  <1>15. FastShrinks
    <2>. SUFFICES ASSUME NEW h \in Proc, NEW l2 \in Lock
                  PROVE  fpLockBits'[h][l2] \subseteq fpLockBits[h][l2]
      BY DEF FastShrinks
    <2>1. CASE h = q
      BY <1>12, <2>1
    <2>2. CASE h # q
      BY <1>12, <2>2
    <2>. QED
      BY <2>1, <2>2
  <1>16. fpLockBits'[q][l] = fpLockBits[q][l] \ modes
    BY <1>12
  <1>. QED
    BY <1>5, <1>11, <1>12, <1>13, <1>14, <1>15, <1>16 DEF Moved

\* FastPathTransferRelationLocks keeps the invariant.
LEMMA FastPathTransferRight ==
  ASSUME IInv, NEW p \in Proc, FastPathTransferRelationLocks(p)
  PROVE  IInv'
  <1>1. PICK q : q = nextProc[p]
    OBVIOUS
  <1>2. PICK l : l = call[p].lock
    OBVIOUS
  <1>3. /\ proc' = proc /\ strongCount' = strongCount /\ locallock' = locallock
        /\ FastPathLocalUseCount' = FastPathLocalUseCount /\ StrongLockInProgress' = StrongLockInProgress
        /\ deadlockTimer' = deadlockTimer /\ call' = call /\ calls' = calls
        /\ at[p] = "transfer" /\ Transfer(q, l, fpLockBits[q][l])
        /\ nextProc' = [nextProc EXCEPT ![p] = IF q = NProcs THEN 0 ELSE q + 1]
        /\ at' = [at EXCEPT ![p] = IF q = NProcs THEN "table" ELSE "transfer"]
    BY <1>1, <1>2 DEF FastPathTransferRelationLocks, localVars, Goto, LastProc
  <1>4. /\ TypeOK /\ locallock \in LOCALS /\ CallRight(p) /\ EntryRight(p) /\ WaitRight(p) /\ FastRight(p) /\ BeliefRight(p)
        /\ Closed(p)
    BY Parts
  <1>5. q \in Proc /\ l \in Lock /\ NProcs \in Nat /\ StrongLockInProgress[p]
    BY <1>1, <1>2, <1>3, <1>4, LockTableAssumption DEF CallRight, Proc
  <1>6. /\ LocksRight' /\ lock' \in [Lock -> LOCK] /\ FastShrinks /\ fpLockBits' \in [Proc -> [Lock -> SUBSET LockMode]]
        /\ \A h \in Proc : h # q => Unmoved(h)
        /\ Moved(q) /\ fpLockBits'[q][l] = {}
    BY <1>3, <1>5, TransferRight
  <1>7. CountRight' /\ strongCount' \in [DOMAIN strongCount' -> Nat]
    BY <1>3, CountSame
  <1>8. /\ at'[p] = (IF q = NProcs THEN "table" ELSE "transfer")
        /\ nextProc'[p] = (IF q = NProcs THEN 0 ELSE q + 1)
    BY <1>3, <1>4 DEF TypeOK
  <1>9. TypeOK'
    <2>1. nextProc'[p] \in 0..NProcs
      BY <1>5, <1>8 DEF Proc
    <2>2. nextProc' \in [Proc -> 0..NProcs]
      BY <1>3, <1>4, <2>1 DEF TypeOK
    <2>3. at' \in [Proc -> PLACE]
      BY <1>3, <1>4 DEF TypeOK, PLACE
    <2>. QED
      BY <1>3, <1>4, <1>6, <1>7, <2>2, <2>3 DEF TypeOK, PLACE
  <1>10. \A h \in Proc : SameHeld(h)
    BY <1>6, SameHeldFacts
  <1>11. CallRight(p)'
    <2>1. at'[p] = "transfer" => nextProc'[p] \in 1..NProcs
      BY <1>5, <1>8 DEF Proc
    <2>. QED
      BY <1>3, <1>4, <1>5, <1>8, <2>1 DEF CallRight
  <1>12. EntryRight(p)'
    BY <1>3, <1>4, <1>8 DEF EntryRight, Active, Releasing
  <1>13. WaitRight(p)'
    <2>1. proc[p].waitLock = NULL
      BY <1>3, NotWaiting
    <2>. QED
      BY <1>3, <1>4, <1>8, <1>10, <2>1 DEF WaitRight, SameHeld
  <1>14. FastRight(p)'
    BY <1>3, <1>4, <1>9, <1>10, SameFast
  <1>15. BeliefRight(p)'
    BY <1>3, <1>4, <1>8, <1>10 DEF BeliefRight, SameHeld, Releasing
  <1>16. ProcRight(p)'
    BY <1>11, <1>12, <1>13, <1>14, <1>15 DEF ProcRight
  <1>17. Closed(p)'
    <2>. SUFFICES ASSUME NEW h \in Proc
                  PROVE  /\ \A l2 \in Lock, k \in LockMode :
                              locallock[p][l2][k].strong /\ locallock[p][l2][k].nLocks > 0 => fpLockBits'[h][l2] = {}
                         /\ at'[p] \in {"table", "sleep"} => fpLockBits'[h][l] = {}
                         /\ at'[p] = "transfer" /\ h < nextProc'[p] => fpLockBits'[h][l] = {}
      BY <1>2, <1>3 DEF Closed
    <2>1. \A l2 \in Lock : fpLockBits[h][l2] = {} => fpLockBits'[h][l2] = {}
      BY <1>6 DEF FastShrinks
    <2>2. h < q => fpLockBits'[h][l] = {}
      BY <1>1, <1>2, <1>3, <1>4, <1>5, <2>1 DEF Closed
    <2>3. h = q => fpLockBits'[h][l] = {}
      BY <1>6
    <2>4. at'[p] \in {"table", "sleep"} => h <= q
      BY <1>5, <1>8 DEF Proc
    <2>5. at'[p] = "transfer" /\ h < nextProc'[p] => h <= q
      BY <1>5, <1>8 DEF Proc
    <2>6. h <= q => h < q \/ h = q
      BY <1>5 DEF Proc
    <2>. QED
      BY <1>4, <2>1, <2>2, <2>3, <2>4, <2>5, <2>6 DEF Closed
  <1>18. OthersFine(p)
    <2>1. Mine(p)
      BY <1>3, <1>4 DEF Mine, TypeOK
    <2>. QED
      BY <1>6, <2>1 DEF OthersFine
  <1>19. \A h \in Proc : NewSafe(h)
    BY <1>6, OldSafe
  <1>20. Active(p)' => Active(p)
    BY <1>3 DEF Active, Releasing
  <1>. QED
    BY <1>6, <1>7, <1>9, <1>16, <1>17, <1>18, <1>19, <1>20, Finish

\* What AbortStrongLockAcquire does: the lock that p acquires is counted no more.
StrongGone(p) ==
  /\ locallock' \in LOCALS /\ StrongLockInProgress' \in [Proc -> BOOLEAN] /\ ~StrongLockInProgress'[p]
  /\ \A q \in Proc : q # p => locallock'[q] = locallock[q] /\ StrongLockInProgress'[q] = StrongLockInProgress[q]
  /\ \A l \in Lock, m \in LockMode : /\ locallock'[p][l][m].nLocks = locallock[p][l][m].nLocks
                                     /\ locallock'[p][l][m].fast = locallock[p][l][m].fast
                                     /\ locallock'[p][l][m].exists = locallock[p][l][m].exists
                                     /\ locallock'[p][l][m].strong => locallock[p][l][m].strong
  /\ StrongLockInProgress[p] => ~locallock'[p][call[p].lock][call[p].mode].strong
  /\ CountRight' /\ strongCount' \in [DOMAIN strongCount' -> Nat]

\* AbortStrongLockAcquire, whether there is something to abort or not.
LEMMA AbortRight ==
  ASSUME IInv, NEW p \in Proc, AbortStrongLockAcquire(p)
  PROVE  StrongGone(p)
  <1>1. TypeOK /\ locallock \in LOCALS /\ CallRight(p)
    BY Parts
  <1>2. CASE ~StrongLockInProgress[p]
    <2>1. StrongLockInProgress' = StrongLockInProgress /\ strongCount' = strongCount /\ locallock' = locallock
      BY <1>2 DEF AbortStrongLockAcquire
    <2>2. CountRight' /\ strongCount' \in [DOMAIN strongCount' -> Nat]
      BY <2>1, CountSame
    <2>. QED
      BY <1>1, <1>2, <2>1, <2>2 DEF StrongGone, TypeOK
  <1>3. CASE StrongLockInProgress[p]
    <2>1. PICK l : l = call[p].lock
      OBVIOUS
    <2>2. PICK m : m = call[p].mode
      OBVIOUS
    <2>3. PICK e : e = locallock[p][l][m]
      OBVIOUS
    <2>4. l \in Lock /\ m \in LockMode /\ e.strong
      BY <1>1, <1>3, <2>1, <2>2, <2>3 DEF CallRight
    <2>5. e \in ENTRY /\ e.nLocks \in Nat /\ e.strong \in BOOLEAN /\ e.fast \in BOOLEAN /\ e.exists \in BOOLEAN
      BY <2>3, <2>4, EntryTyped
    <2>6. /\ StrongLockInProgress' = [StrongLockInProgress EXCEPT ![p] = FALSE]
          /\ strongCount' = [strongCount EXCEPT ![HashPartition[l]] = @ - 1]
          /\ locallock' = [locallock EXCEPT ![p][l][m].strong = FALSE]
      BY <1>3, <2>1, <2>2 DEF AbortStrongLockAcquire
    <2>7. EntryBecomes(p, l, m, e.nLocks, FALSE, e.fast, e.exists)
      <3>1. PICK new : new = [e EXCEPT !.strong = FALSE]
        OBVIOUS
      <3>2. SetEntry(p, l, m, new)
        BY <1>1, <2>3, <2>6, <3>1 DEF SetEntry, LOCALS
      <3>3. new \in ENTRY /\ new.nLocks = e.nLocks /\ new.strong = FALSE /\ new.fast = e.fast /\ new.exists = e.exists
        BY <2>5, <3>1 DEF ENTRY
      <3>. QED
        BY <1>1, <2>4, <3>2, <3>3, EntrySet
    <2>8. CountMoved(HashPartition[l], -1)
      <3>1. CountDownOne(HashPartition[l]) /\ strongCount \in [DOMAIN strongCount -> Nat]
        BY <1>1, <2>6 DEF CountDownOne, TypeOK
      <3>. QED
        BY <3>1, CountSteps
    <2>9. CountRight' /\ strongCount' \in [DOMAIN strongCount' -> Nat]
      <3>1. e.strong = TRUE /\ One(FALSE) - One(TRUE) = -1
        BY <2>4, <2>5 DEF One
      <3>. QED
        BY <2>3, <2>4, <2>7, <2>8, <3>1, CountKept
    <2>10. /\ StrongLockInProgress' \in [Proc -> BOOLEAN] /\ ~StrongLockInProgress'[p]
           /\ \A q \in Proc : q # p => StrongLockInProgress'[q] = StrongLockInProgress[q]
      BY <1>1, <2>6 DEF TypeOK
    <2>11. \A l2 \in Lock, m2 \in LockMode : /\ locallock'[p][l2][m2].nLocks = locallock[p][l2][m2].nLocks
                                             /\ locallock'[p][l2][m2].fast = locallock[p][l2][m2].fast
                                             /\ locallock'[p][l2][m2].exists = locallock[p][l2][m2].exists
                                             /\ locallock'[p][l2][m2].strong => locallock[p][l2][m2].strong
      BY <2>3, <2>7 DEF EntryBecomes
    <2>12. ~locallock'[p][call[p].lock][call[p].mode].strong
      BY <2>1, <2>2, <2>7 DEF EntryBecomes
    <2>. QED
      BY <2>7, <2>9, <2>10, <2>11, <2>12 DEF StrongGone, EntryBecomes
  <1>. QED
    BY <1>2, <1>3

\* No memory for the lock, or for one of the modes to transfer.
LEMMA OutOfSharedMemoryRight ==
  ASSUME IInv, NEW p \in Proc, OutOfSharedMemory(p)
  PROVE  IInv'
  <1>1. /\ proc' = proc /\ FastPathLocalUseCount' = FastPathLocalUseCount
        /\ deadlockTimer' = deadlockTimer /\ call' = call /\ calls' = calls
        /\ nextProc' = [nextProc EXCEPT ![p] = 0] /\ at' = [at EXCEPT ![p] = "abort"]
        /\ AbortStrongLockAcquire(p) /\ at[p] \in {"transfer", "table"}
    BY DEF OutOfSharedMemory, Goto
  <1>2. /\ TypeOK /\ locallock \in LOCALS /\ CallRight(p) /\ EntryRight(p) /\ WaitRight(p) /\ FastRight(p) /\ BeliefRight(p)
        /\ Closed(p)
    BY Parts
  <1>3. /\ LocksRight' /\ lock' \in [Lock -> LOCK] /\ FastShrinks /\ fpLockBits' \in [Proc -> [Lock -> SUBSET LockMode]]
        /\ \A h \in Proc : Unmoved(h) \/ Moved(h)
    <2>1. CASE at[p] = "transfer"
      <3>1. PICK q : q = nextProc[p]
        OBVIOUS
      <3>2. PICK l : l = call[p].lock
        OBVIOUS
      <3>3. q \in Proc /\ l \in Lock
        BY <1>2, <2>1, <3>1, <3>2 DEF CallRight, Proc
      <3>4. PICK m : Transfer(q, l, {m2 \in fpLockBits[q][l] : m2 < m})
        BY <2>1, <3>1, <3>2 DEF OutOfSharedMemory
      <3>5. PICK modes : modes = {m2 \in fpLockBits[q][l] : m2 < m}
        OBVIOUS
      <3>6. modes \subseteq fpLockBits[q][l] /\ Transfer(q, l, modes)
        BY <3>4, <3>5
      <3>. QED
        BY <1>1, <3>3, <3>6, TransferRight
    <2>2. CASE at[p] = "table"
      <3>1. lock' = lock /\ fpLockBits' = fpLockBits
        BY <2>2 DEF OutOfSharedMemory
      <3>. QED
        BY <1>1, <1>2, <3>1, SameLocks DEF TypeOK, FastShrinks
    <2>. QED
      BY <1>1, <2>1, <2>2
  <1>4. StrongGone(p)
    BY <1>1, AbortRight
  <1>5. /\ locallock' \in LOCALS /\ StrongLockInProgress' \in [Proc -> BOOLEAN] /\ ~StrongLockInProgress'[p]
        /\ \A l \in Lock, m \in LockMode : /\ locallock'[p][l][m].nLocks = locallock[p][l][m].nLocks
                                           /\ locallock'[p][l][m].fast = locallock[p][l][m].fast
                                           /\ locallock'[p][l][m].exists = locallock[p][l][m].exists
                                           /\ locallock'[p][l][m].strong => locallock[p][l][m].strong
        /\ CountRight' /\ strongCount' \in [DOMAIN strongCount' -> Nat]
    BY <1>4 DEF StrongGone
  <1>6. at'[p] = "abort"
    BY <1>1, <1>2 DEF TypeOK
  <1>7. TypeOK'
    <2>1. nextProc' \in [Proc -> 0..NProcs]
      BY <1>1, <1>2, LockTableAssumption DEF TypeOK
    <2>2. at' \in [Proc -> PLACE]
      BY <1>1, <1>2 DEF TypeOK, PLACE
    <2>. QED
      BY <1>1, <1>2, <1>3, <1>5, <2>1, <2>2 DEF TypeOK, PLACE, LOCALS, ENTRY
  <1>8. \A h \in Proc : SameHeld(h)
    BY <1>3, SameHeldFacts
  <1>9. CallRight(p)'
    BY <1>1, <1>2, <1>5, <1>6 DEF CallRight
  <1>10. EntryRight(p)'
    BY <1>2, <1>5, <1>6 DEF EntryRight, Active, Releasing
  <1>11. WaitRight(p)'
    <2>1. proc[p].waitLock = NULL
      BY <1>1, NotWaiting
    <2>. QED
      BY <1>1, <1>2, <1>6, <1>8, <2>1 DEF WaitRight, SameHeld
  <1>12. FastRight(p)'
    BY <1>1, <1>2, <1>5, <1>7, <1>8, SameFast
  <1>13. BeliefRight(p)'
    BY <1>1, <1>2, <1>5, <1>6, <1>8 DEF BeliefRight, SameHeld, Releasing
  <1>14. ProcRight(p)'
    BY <1>9, <1>10, <1>11, <1>12, <1>13 DEF ProcRight
  <1>15. Closed(p)'
    <2>1. \A h \in Proc, l2 \in Lock : fpLockBits[h][l2] = {} => fpLockBits'[h][l2] = {}
      BY <1>3 DEF FastShrinks
    <2>. QED
      BY <1>2, <1>5, <1>6, <2>1 DEF Closed
  <1>16. OthersFine(p)
    <2>1. Mine(p)
      BY <1>1, <1>2, <1>4 DEF Mine, TypeOK, StrongGone
    <2>. QED
      BY <1>3, <2>1 DEF OthersFine
  <1>17. \A h \in Proc : NewSafe(h)
    BY <1>3, OldSafe
  <1>18. Active(p)' => Active(p)
    BY <1>6 DEF Active
  <1>. QED
    BY <1>3, <1>5, <1>7, <1>14, <1>15, <1>16, <1>17, <1>18, Finish

-----------------------------------------------------------------------------
(* Steps that leave the shared structures alone.                           *)

\* Interrupted keeps the invariant.
LEMMA InterruptedRight ==
  ASSUME IInv, NEW p \in Proc, Interrupted(p)
  PROVE  IInv'
  <1>1. /\ lock' = lock /\ proc' = proc /\ fpLockBits' = fpLockBits /\ FastPathLocalUseCount' = FastPathLocalUseCount
        /\ deadlockTimer' = [deadlockTimer EXCEPT ![p] = FALSE] /\ call' = call /\ calls' = calls
        /\ nextProc' = nextProc /\ at' = [at EXCEPT ![p] = "cleanup"]
        /\ AbortStrongLockAcquire(p) /\ at[p] = "sleep"
    BY DEF Interrupted, Goto, stackVars
  <1>2. /\ TypeOK /\ locallock \in LOCALS /\ CallRight(p) /\ EntryRight(p) /\ WaitRight(p) /\ FastRight(p) /\ BeliefRight(p)
        /\ Closed(p)
    BY Parts
  <1>3. LocksRight' /\ \A h \in Proc : Unmoved(h)
    BY <1>1, SameLocks
  <1>4. StrongGone(p)
    BY <1>1, AbortRight
  <1>5. /\ locallock' \in LOCALS /\ StrongLockInProgress' \in [Proc -> BOOLEAN] /\ ~StrongLockInProgress'[p]
        /\ \A l \in Lock, m \in LockMode : /\ locallock'[p][l][m].nLocks = locallock[p][l][m].nLocks
                                           /\ locallock'[p][l][m].fast = locallock[p][l][m].fast
                                           /\ locallock'[p][l][m].exists = locallock[p][l][m].exists
                                           /\ locallock'[p][l][m].strong => locallock[p][l][m].strong
        /\ StrongLockInProgress[p] => ~locallock'[p][call[p].lock][call[p].mode].strong
        /\ CountRight' /\ strongCount' \in [DOMAIN strongCount' -> Nat]
    BY <1>4 DEF StrongGone
  <1>6. at'[p] = "cleanup"
    BY <1>1, <1>2 DEF TypeOK
  <1>7. TypeOK'
    <2>1. at' \in [Proc -> PLACE] /\ deadlockTimer' \in [Proc -> BOOLEAN]
      BY <1>1, <1>2 DEF TypeOK, PLACE
    <2>. QED
      BY <1>1, <1>2, <1>5, <2>1 DEF TypeOK, PLACE, LOCALS, ENTRY
  <1>8. CallRight(p)'
    <2>1. ~locallock'[p][call[p].lock][call[p].mode].strong
      BY <1>1, <1>2, <1>5 DEF CallRight
    <2>. QED
      BY <1>1, <1>2, <1>5, <1>6, <2>1 DEF CallRight
  <1>9. EntryRight(p)'
    BY <1>2, <1>5, <1>6 DEF EntryRight, Active, Releasing
  <1>10. WaitRight(p)'
    BY <1>1, <1>2, <1>6 DEF WaitRight, Hold
  <1>11. FastRight(p)'
    BY <1>1, <1>2, <1>5 DEF FastRight, Hold
  <1>12. BeliefRight(p)'
    BY <1>1, <1>2, <1>5, <1>6 DEF BeliefRight, Held, Hold, Marked, Releasing
  <1>13. ProcRight(p)'
    BY <1>8, <1>9, <1>10, <1>11, <1>12 DEF ProcRight
  <1>14. Closed(p)'
    BY <1>1, <1>2, <1>5, <1>6 DEF Closed
  <1>15. OthersFine(p) /\ FastShrinks
    <2>1. Mine(p)
      BY <1>1, <1>2, <1>4 DEF Mine, TypeOK, StrongGone
    <2>. QED
      BY <1>1, <1>3, <2>1 DEF OthersFine, FastShrinks
  <1>16. \A h \in Proc : NewSafe(h)
    BY <1>3, OldSafe
  <1>17. Active(p)' => Active(p)
    BY <1>6 DEF Active
  <1>. QED
    BY <1>3, <1>5, <1>7, <1>13, <1>14, <1>15, <1>16, <1>17, Finish

\* ProcReleaseLocks keeps the invariant.
LEMMA ProcReleaseLocksRight ==
  ASSUME IInv, NEW p \in Proc, NEW isCommit \in BOOLEAN, ProcReleaseLocks(p, isCommit)
  PROVE  IInv'
  <1>1. /\ lock' = lock /\ proc' = proc /\ fpLockBits' = fpLockBits /\ FastPathLocalUseCount' = FastPathLocalUseCount
        /\ deadlockTimer' = deadlockTimer /\ calls' = calls
        /\ nextProc' = nextProc /\ at' = [at EXCEPT ![p] = IF isCommit THEN "release" ELSE "releaseAll"]
        /\ call' = [call EXCEPT ![p] = Nothing]
        /\ AbortStrongLockAcquire(p) /\ at[p] \in {"run", "abort"} /\ (at[p] = "run" => calls[p] > 0)
    BY DEF ProcReleaseLocks, Goto
  <1>2. /\ TypeOK /\ locallock \in LOCALS /\ CallRight(p) /\ EntryRight(p) /\ WaitRight(p) /\ FastRight(p) /\ BeliefRight(p)
        /\ Closed(p)
    BY Parts
  <1>3. LocksRight' /\ \A h \in Proc : Unmoved(h)
    BY <1>1, SameLocks
  <1>4. StrongGone(p)
    BY <1>1, AbortRight
  <1>5. /\ locallock' \in LOCALS /\ StrongLockInProgress' \in [Proc -> BOOLEAN] /\ ~StrongLockInProgress'[p]
        /\ \A l \in Lock, m \in LockMode : /\ locallock'[p][l][m].nLocks = locallock[p][l][m].nLocks
                                           /\ locallock'[p][l][m].fast = locallock[p][l][m].fast
                                           /\ locallock'[p][l][m].exists = locallock[p][l][m].exists
                                           /\ locallock'[p][l][m].strong => locallock[p][l][m].strong
        /\ CountRight' /\ strongCount' \in [DOMAIN strongCount' -> Nat]
    BY <1>4 DEF StrongGone
  <1>6. at'[p] \in {"release", "releaseAll"} /\ call'[p] = Nothing
    BY <1>1, <1>2 DEF TypeOK
  <1>7. TypeOK'
    <2>1. at' \in [Proc -> PLACE]
      BY <1>1, <1>2 DEF TypeOK, PLACE
    <2>2. call' \in [Proc -> CALL]
      BY <1>1, <1>2 DEF TypeOK, CALL, Nothing
    <2>. QED
      BY <1>1, <1>2, <1>5, <2>1, <2>2 DEF TypeOK, PLACE, CALL, LOCALS, ENTRY
  <1>8. CallRight(p)'
    BY <1>1, <1>2, <1>5, <1>6 DEF CallRight
  <1>9. EntryRight(p)'
    BY <1>2, <1>5, <1>6 DEF EntryRight, Active, Releasing
  <1>10. WaitRight(p)'
    <2>1. proc[p].waitLock = NULL
      BY <1>1, NotWaiting
    <2>. QED
      BY <1>1, <1>2, <1>6, <2>1 DEF WaitRight, Hold
  <1>11. FastRight(p)'
    BY <1>1, <1>2, <1>5 DEF FastRight, Hold
  <1>12. BeliefRight(p)'
    BY <1>1, <1>2, <1>5, <1>6 DEF BeliefRight, Held, Hold, Marked, Releasing
  <1>13. ProcRight(p)'
    BY <1>8, <1>9, <1>10, <1>11, <1>12 DEF ProcRight
  <1>14. Closed(p)'
    BY <1>1, <1>2, <1>5, <1>6 DEF Closed
  <1>15. OthersFine(p) /\ FastShrinks
    <2>1. Mine(p)
      BY <1>1, <1>2, <1>4 DEF Mine, TypeOK, StrongGone
    <2>. QED
      BY <1>1, <1>3, <2>1 DEF OthersFine, FastShrinks
  <1>16. \A h \in Proc : NewSafe(h)
    BY <1>3, OldSafe
  <1>17. ~Active(p)'
    BY <1>6 DEF Active, Releasing
  <1>. QED
    BY <1>3, <1>5, <1>7, <1>13, <1>14, <1>15, <1>16, <1>17, Finish

\* One entry's strong lock is counted no more.
LEMMA CountWithoutOne ==
  ASSUME IInv, NEW p \in Proc, NEW l \in Lock, NEW m \in LockMode, NEW was \in BOOLEAN, was = locallock[p][l][m].strong,
         strongCount' = CountWithout(p, {<<l, m>>}), NEW d, d = One(FALSE) - One(was)
  PROVE  CountMoved(HashPartition[l], d)
  <1>. DEFINE E(i) == {e \in {<<l, m>>} : HashPartition[e[1]] = i /\ locallock[p][e[1]][e[2]].strong}
  <1>1. strongCount \in [DOMAIN strongCount -> Nat]
    BY DEF IInv, TypeOK
  <1>2. strongCount' = [i \in DOMAIN strongCount |-> strongCount[i] - Cardinality(E(i))]
    BY DEF CountWithout
  <1>3. ASSUME NEW i
        PROVE  Cardinality(E(i)) = IF i = HashPartition[l] /\ was THEN 1 ELSE 0
    <2>1. CASE i = HashPartition[l] /\ was
      <3>1. PICK e0 : e0 = <<l, m>>
        OBVIOUS
      <3>2. e0[1] = l /\ e0[2] = m
        BY <3>1
      <3>3. HashPartition[e0[1]] = i /\ locallock[p][e0[1]][e0[2]].strong
        BY <2>1, <3>2
      <3>4. E(i) = {e0}
        BY <3>1, <3>3
      <3>. HIDE DEF E
      <3>. QED
        BY <2>1, <3>4, FS_Singleton
    <2>2. CASE ~(i = HashPartition[l] /\ was)
      <3>1. E(i) = {}
        BY <2>2
      <3>. HIDE DEF E
      <3>. QED
        BY <2>2, <3>1, FS_EmptySet
    <2>. QED
      BY <2>1, <2>2
  <1>. HIDE DEF E
  <1>4. ASSUME NEW j \in DOMAIN strongCount
        PROVE  strongCount'[j] = strongCount[j] + (IF j = HashPartition[l] THEN d ELSE 0)
    <2>1. strongCount'[j] = strongCount[j] - Cardinality(E(j)) /\ strongCount[j] \in Nat
      BY <1>1, <1>2
    <2>2. PICK c : c = Cardinality(E(j))
      OBVIOUS
    <2>3. PICK x : x = strongCount[j]
      OBVIOUS
    <2>4. x \in Nat /\ strongCount'[j] = x - c
      BY <2>1, <2>2, <2>3
    <2>5. CASE j = HashPartition[l] /\ was
      <3>1. c = 1 /\ d = -1
        BY <1>3, <2>2, <2>5 DEF One
      <3>. QED
        BY <2>3, <2>4, <2>5, <3>1
    <2>6. CASE j = HashPartition[l] /\ ~was
      <3>1. c = 0
        BY <1>3, <2>2, <2>6
      <3>2. was = FALSE
        BY <2>6
      <3>3. d = One(FALSE) - One(FALSE)
        BY <3>2
      <3>4. d = 0
        BY <3>3 DEF One
      <3>5. strongCount'[j] = x /\ x + 0 = x
        BY <2>4, <3>1
      <3>6. (IF j = HashPartition[l] THEN d ELSE 0) = 0
        BY <3>4
      <3>. QED
        BY <2>3, <3>5, <3>6
    <2>7. CASE j # HashPartition[l]
      <3>1. c = 0
        BY <1>3, <2>2, <2>7
      <3>. QED
        BY <2>3, <2>4, <2>7, <3>1
    <2>. QED
      BY <2>5, <2>6, <2>7
  <1>5. DOMAIN strongCount' = DOMAIN strongCount
    BY <1>2
  <1>. QED
    BY <1>2, <1>4, <1>5 DEF CountMoved

\* p's entry goes.
EntryGone(p, l, m) ==
  /\ EntryBecomes(p, l, m, 0, FALSE, FALSE, FALSE)
  /\ CountRight' /\ strongCount' \in [DOMAIN strongCount' -> Nat]

SetNoLocal(p, l, m) == locallock' = [locallock EXCEPT ![p][l][m] = NoLocal]

\* RemoveLocalLock of one entry.
LEMMA EntryGoes ==
  ASSUME IInv, NEW p \in Proc, NEW l \in Lock, NEW m \in LockMode, SetNoLocal(p, l, m)
  PROVE  /\ EntryBecomes(p, l, m, 0, FALSE, FALSE, FALSE)
         /\ strongCount' = CountWithout(p, {<<l, m>>}) => EntryGone(p, l, m)
         /\ strongCount' = strongCount /\ ~locallock[p][l][m].strong => EntryGone(p, l, m)
  <1>1. PICK e : e = locallock[p][l][m]
    OBVIOUS
  <1>2. e \in ENTRY /\ e.strong \in BOOLEAN
    BY <1>1, EntryTyped
  <1>3. EntryBecomes(p, l, m, 0, FALSE, FALSE, FALSE)
    <2>1. locallock \in LOCALS
      BY Parts
    <2>2. SetEntry(p, l, m, NoLocal)
      BY DEF SetNoLocal, SetEntry
    <2>3. NoLocal \in ENTRY /\ NoLocal.nLocks = 0 /\ NoLocal.strong = FALSE /\ NoLocal.fast = FALSE /\ NoLocal.exists = FALSE
      BY DEF NoLocal, ENTRY
    <2>. QED
      BY <2>1, <2>2, <2>3, EntrySet
  <1>4. PICK d : d = One(FALSE) - One(e.strong)
    OBVIOUS
  <1>5. ASSUME CountMoved(HashPartition[l], d)
        PROVE  EntryGone(p, l, m)
    <2>1. CountRight' /\ strongCount' \in [DOMAIN strongCount' -> Nat]
      BY <1>1, <1>2, <1>3, <1>4, <1>5, CountKept
    <2>. QED
      BY <1>3, <2>1 DEF EntryGone
  <1>6. ASSUME strongCount' = CountWithout(p, {<<l, m>>})
        PROVE  EntryGone(p, l, m)
    <2>1. CountMoved(HashPartition[l], d)
      BY <1>1, <1>2, <1>4, <1>6, CountWithoutOne
    <2>. QED
      BY <1>5, <2>1
  <1>7. ASSUME strongCount' = strongCount, ~e.strong
        PROVE  EntryGone(p, l, m)
    <2>1. e.strong = FALSE
      BY <1>2, <1>7
    <2>2. d = One(FALSE) - One(FALSE)
      BY <1>4, <2>1
    <2>3. d = 0
      BY <2>2 DEF One
    <2>4. CountMoved(HashPartition[l], 0)
      BY <1>7, CountStays
    <2>. QED
      BY <1>5, <2>3, <2>4
  <1>. QED
    BY <1>1, <1>3, <1>6, <1>7

\* RemoveLocalLock at the end of LockRelease keeps the invariant.
LEMMA RemoveLocalLockRight ==
  ASSUME IInv, NEW p \in Proc, RemoveLocalLock(p)
  PROVE  IInv'
  <1>1. PICK l : l = call[p].lock
    OBVIOUS
  <1>2. PICK m : m = call[p].mode
    OBVIOUS
  <1>3. /\ lock' = lock /\ proc' = proc /\ fpLockBits' = fpLockBits /\ FastPathLocalUseCount' = FastPathLocalUseCount
        /\ StrongLockInProgress' = StrongLockInProgress
        /\ deadlockTimer' = deadlockTimer /\ calls' = calls
        /\ nextProc' = nextProc /\ at' = [at EXCEPT ![p] = "run"] /\ call' = [call EXCEPT ![p] = Nothing]
        /\ at[p] = "forget" /\ strongCount' = CountWithout(p, {<<l, m>>})
        /\ SetNoLocal(p, l, m)
    BY <1>1, <1>2 DEF RemoveLocalLock, Goto, SetNoLocal
  <1>4. /\ TypeOK /\ CallRight(p) /\ EntryRight(p) /\ WaitRight(p) /\ FastRight(p) /\ BeliefRight(p)
        /\ Closed(p)
    BY Parts
  <1>5. l \in Lock /\ m \in LockMode /\ locallock[p][l][m].nLocks = 0 /\ calls[p] > 0 /\ ~StrongLockInProgress[p]
    BY <1>1, <1>2, <1>3, <1>4 DEF CallRight
  <1>6. EntryGone(p, l, m)
    BY <1>3, <1>5, EntryGoes
  <1>7. /\ locallock' \in LOCALS /\ CountRight' /\ strongCount' \in [DOMAIN strongCount' -> Nat]
        /\ locallock'[p][l][m].nLocks = 0 /\ locallock'[p][l][m].strong = FALSE /\ locallock'[p][l][m].exists = FALSE
        /\ \A l2 \in Lock, m2 \in LockMode : ~(l2 = l /\ m2 = m) => locallock'[p][l2][m2] = locallock[p][l2][m2]
    BY <1>6 DEF EntryGone, EntryBecomes
  <1>8. LocksRight' /\ \A h \in Proc : Unmoved(h)
    BY <1>3, SameLocks
  <1>9. at'[p] = "run"
    BY <1>3, <1>4 DEF TypeOK
  <1>10. TypeOK'
    <2>1. at' \in [Proc -> PLACE]
      BY <1>3, <1>4 DEF TypeOK, PLACE
    <2>2. call' \in [Proc -> CALL]
      BY <1>3, <1>4 DEF TypeOK, CALL, Nothing
    <2>. QED
      BY <1>3, <1>4, <1>7, <2>1, <2>2 DEF TypeOK, PLACE, CALL, LOCALS, ENTRY
  <1>11. CallRight(p)'
    BY <1>3, <1>5, <1>9 DEF CallRight
  <1>12. EntryRight(p)'
    BY <1>1, <1>2, <1>3, <1>4, <1>7, <1>9 DEF EntryRight, Active, Releasing
  <1>13. WaitRight(p)'
    <2>1. proc[p].waitLock = NULL
      BY <1>3, NotWaiting
    <2>. QED
      BY <1>3, <1>4, <1>9, <2>1 DEF WaitRight, Hold
  <1>14. FastRight(p)'
    BY <1>3, <1>4, <1>5, <1>7 DEF FastRight, Hold
  <1>15. BeliefRight(p)'
    BY <1>3, <1>4, <1>5, <1>7, <1>9 DEF BeliefRight, Held, Hold, Marked, Releasing
  <1>16. ProcRight(p)'
    BY <1>11, <1>12, <1>13, <1>14, <1>15 DEF ProcRight
  <1>17. Closed(p)'
    BY <1>3, <1>4, <1>7, <1>9 DEF Closed
  <1>18. OthersFine(p) /\ FastShrinks
    <2>1. Mine(p)
      BY <1>3, <1>4, <1>6 DEF Mine, TypeOK, EntryGone, EntryBecomes
    <2>. QED
      BY <1>3, <1>8, <2>1 DEF OthersFine, FastShrinks
  <1>19. \A h \in Proc : NewSafe(h)
    BY <1>8, OldSafe
  <1>20. Active(p)
    BY <1>3 DEF Active, Releasing
  <1>. QED
    BY <1>7, <1>8, <1>10, <1>16, <1>17, <1>18, <1>19, <1>20, Finish

\* A backend at the end of LockReleaseAll holds nothing.
LEMMA NothingHeld ==
  ASSUME IInv, NEW p \in Proc, Releasing(p), Entries(p) = {}, \A l \in Lock : ~Releasable(p, l)
  PROVE  \A l \in Lock : Held(p, l) = {}
  <1>. SUFFICES ASSUME NEW l \in Lock, Held(p, l) # {}
                PROVE  FALSE
    OBVIOUS
  <1>1. TypeOK /\ LocksRight /\ FastRight(p) /\ BeliefRight(p) /\ EntryRight(p)
    BY Parts
  <1>2. lock[l] \in LOCK /\ fpLockBits[p][l] \subseteq LockMode /\ LockRight(lock[l], WaitMode)
    BY <1>1 DEF TypeOK, LocksRight
  <1>3. PICK m : m \in Held(p, l)
    OBVIOUS
  <1>4. m \in LockMode
    BY <1>2, <1>3, LockFacts DEF Held
  <1>5. ~locallock[p][l][m].exists
    <2>1. <<l, m>> \in Lock \X LockMode
      BY <1>4
    <2>. QED
      BY <2>1 DEF Entries
  <1>6. ~(locallock[p][l][m].nLocks > 0)
    BY <1>1, <1>4, <1>5 DEF EntryRight
  <1>7. m \in Hold(p, l) /\ (at[p] = "release" => m \in Marked(p, l))
    BY <1>1, <1>3, <1>4, <1>6 DEF BeliefRight, Releasing
  <1>8. ToRelease(p, l) # {}
    <2>1. CASE allLocks(p)
      BY <1>7, <2>1 DEF ToRelease, Hold
    <2>2. CASE ~allLocks(p)
      <3>1. at[p] = "release"
        BY <2>2 DEF allLocks, Releasing
      <3>. QED
        BY <1>7, <2>2, <3>1 DEF ToRelease, Marked
    <2>. QED
      BY <2>1, <2>2
  <1>9. Contains(lock[l].procLocks, p)
    <2>1. p \in ToSet(lock[l].procLocks)
      BY <1>2, <1>7 DEF LockRight, Hold
    <2>2. lock[l].procLocks \in Seq(Proc)
      BY <1>2, LockFacts
    <2>. QED
      BY <2>1, <2>2, ListFacts
  <1>. QED
    BY <1>8, <1>9 DEF Releasable

\* The end of LockReleaseAll keeps the invariant.
LEMMA ReleasedRight ==
  ASSUME IInv, NEW p \in Proc, Released(p)
  PROVE  IInv'
  <1>1. /\ lock' = lock /\ proc' = proc /\ fpLockBits' = fpLockBits /\ FastPathLocalUseCount' = FastPathLocalUseCount
        /\ StrongLockInProgress' = StrongLockInProgress /\ strongCount' = strongCount /\ locallock' = locallock
        /\ deadlockTimer' = deadlockTimer /\ calls' = [calls EXCEPT ![p] = 0]
        /\ nextProc' = nextProc /\ at' = [at EXCEPT ![p] = "run"] /\ call' = call
        /\ Releasing(p) /\ Entries(p) = {}
    BY DEF Released, Goto, fastVars, localVars
  <1>2. /\ TypeOK /\ CallRight(p) /\ EntryRight(p) /\ WaitRight(p) /\ FastRight(p) /\ BeliefRight(p)
        /\ Closed(p)
    BY Parts
  <1>3. \A l \in Lock : Held(p, l) = {}
    BY NothingHeld DEF Released
  <1>4. \A l \in Lock, m \in LockMode : ~locallock[p][l][m].exists
    <2>. SUFFICES ASSUME NEW l \in Lock, NEW m \in LockMode
                  PROVE  ~locallock[p][l][m].exists
      OBVIOUS
    <2>1. <<l, m>> \in Lock \X LockMode
      OBVIOUS
    <2>. QED
      BY <1>1, <2>1 DEF Entries
  <1>5. LocksRight' /\ \A h \in Proc : Unmoved(h)
    BY <1>1, SameLocks
  <1>6. CountRight' /\ strongCount' \in [DOMAIN strongCount' -> Nat]
    BY <1>1, CountSame
  <1>7. at'[p] = "run" /\ calls'[p] = 0
    BY <1>1, <1>2 DEF TypeOK
  <1>8. TypeOK'
    <2>1. at' \in [Proc -> PLACE] /\ calls' \in [Proc -> Nat]
      BY <1>1, <1>2 DEF TypeOK, PLACE
    <2>. QED
      BY <1>1, <1>2, <1>6, <2>1 DEF TypeOK, PLACE
  <1>9. ~StrongLockInProgress[p] /\ proc[p].waitLock = NULL /\ at[p] \notin {"sleep", "cleanup"}
    <2>1. at[p] \notin {"sleep", "cleanup", "transfer", "table", "abort"}
      BY <1>1 DEF Releasing
    <2>. QED
      BY <1>2, <2>1, NotWaiting DEF CallRight
  <1>10. CallRight(p)'
    BY <1>1, <1>4, <1>7, <1>9 DEF CallRight
  <1>11. EntryRight(p)'
    BY <1>1, <1>2, <1>4 DEF EntryRight
  <1>12. WaitRight(p)'
    BY <1>1, <1>2, <1>7, <1>9 DEF WaitRight, Hold
  <1>13. FastRight(p)'
    BY <1>1, <1>2 DEF FastRight, Hold
  <1>14. BeliefRight(p)'
    <2>1. \A l \in Lock : Marked(p, l) \subseteq Held(p, l)
      <3>1. \A l \in Lock : LockRight(lock[l], WaitMode)
        BY DEF IInv, LocksRight
      <3>. QED
        BY <3>1 DEF Marked, Held, LockRight, CountsRight
    <2>2. \A l \in Lock : Held(p, l)' = {} /\ Marked(p, l)' = {}
      BY <1>1, <1>3, <2>1 DEF Held, Marked
    <2>3. \A l \in Lock, m \in LockMode : ~(locallock[p][l][m].nLocks > 0)
      BY <1>2, <1>4 DEF EntryRight
    <2>. QED
      BY <1>1, <2>2, <2>3 DEF BeliefRight
  <1>15. ProcRight(p)'
    BY <1>10, <1>11, <1>12, <1>13, <1>14 DEF ProcRight
  <1>16. Closed(p)'
    BY <1>1, <1>2, <1>7 DEF Closed
  <1>17. OthersFine(p) /\ FastShrinks
    <2>1. Mine(p)
      BY <1>1, <1>2 DEF Mine, TypeOK
    <2>. QED
      BY <1>1, <1>5, <2>1 DEF OthersFine, FastShrinks
  <1>18. \A h \in Proc : NewSafe(h)
    BY <1>5, OldSafe
  <1>19. \A l \in Lock : Held(p, l)' = {}
    BY <1>1, <1>3 DEF Held
  <1>. QED
    BY <1>5, <1>6, <1>8, <1>15, <1>16, <1>17, <1>18, <1>19, Finish

-----------------------------------------------------------------------------
(* A lock acquired in the table.                                           *)

\* p has the lock that it acquires, and waits for none.
HoldsNow(p) ==
  /\ proc'[p] = proc[p] /\ proc[p].waitLock = NULL
  /\ \A l \in Lock : /\ \A k : k \in Hold(p, l)' <=> k \in Hold(p, l) \/ (l = call[p].lock /\ k = call[p].mode)
                     /\ \A k : k \in Marked(p, l)' <=> k \in Marked(p, l)
                     /\ ~Waits(lock'[l], p)

\* The fields that Acquired leaves alone.
RestSame ==
  /\ strongCount' = strongCount /\ fpLockBits' = fpLockBits /\ FastPathLocalUseCount' = FastPathLocalUseCount
  /\ nextProc' = nextProc /\ calls' = calls

\* What p knows of its locks after it.
LEMMA AcquiredRight ==
  ASSUME IInv, NEW p \in Proc, at[p] \in {"table", "sleep"}, Acquired(p), RestSame, HoldsNow(p)
  PROVE  /\ locallock' \in LOCALS /\ StrongLockInProgress' \in [Proc -> BOOLEAN] /\ at' \in [Proc -> PLACE]
         /\ call' \in [Proc -> CALL] /\ Mine(p) /\ CountRight' /\ strongCount' \in [DOMAIN strongCount' -> Nat]
         /\ ProcRight(p)' /\ Closed(p)' /\ at'[p] = "run"
  <1>1. PICK l : l = call[p].lock
    OBVIOUS
  <1>2. PICK m : m = call[p].mode
    OBVIOUS
  <1>3. /\ StrongLockInProgress' = [StrongLockInProgress EXCEPT ![p] = FALSE]
        /\ at' = [at EXCEPT ![p] = "run"] /\ call' = [call EXCEPT ![p] = Nothing]
        /\ strongCount' = strongCount /\ fpLockBits' = fpLockBits /\ FastPathLocalUseCount' = FastPathLocalUseCount
        /\ nextProc' = nextProc /\ calls' = calls
    BY DEF Acquired, Goto, RestSame
  <1>4. /\ TypeOK /\ locallock \in LOCALS /\ CallRight(p) /\ EntryRight(p) /\ WaitRight(p) /\ FastRight(p) /\ BeliefRight(p)
        /\ Closed(p)
    BY Parts
  <1>5. PICK e : e = locallock[p][l][m]
    OBVIOUS
  <1>6. /\ l \in Lock /\ m \in LockMode /\ e.nLocks = 0 /\ e.exists /\ calls[p] > 0
        /\ e.strong <=> StrongLockInProgress[p]
        /\ StrongLockInProgress[p] <=> Strong(l, m)
    BY <1>1, <1>2, <1>4, <1>5 DEF CallRight
  <1>7. e \in ENTRY /\ e.nLocks \in Nat /\ e.strong \in BOOLEAN /\ e.fast \in BOOLEAN /\ e.exists \in BOOLEAN
    BY <1>5, <1>6, EntryTyped
  <1>8. EntryBecomes(p, l, m, 1, e.strong, FALSE, TRUE)
    <2>1. PICK new : new = [nLocks |-> e.nLocks + 1, strong |-> e.strong, fast |-> FALSE, exists |-> TRUE]
      OBVIOUS
    <2>2. locallock' = [locallock EXCEPT ![p][l][m] =
                  [nLocks |-> @.nLocks + 1, strong |-> @.strong, fast |-> FALSE, exists |-> TRUE]]
      BY <1>1, <1>2 DEF Acquired, GrantLockLocal
    <2>3. SetEntry(p, l, m, new)
      BY <1>4, <1>5, <1>6, <2>1, <2>2 DEF SetEntry, LOCALS
    <2>4. new \in ENTRY /\ new.nLocks = 1 /\ new.strong = e.strong /\ new.fast = FALSE /\ new.exists = TRUE
      BY <1>6, <1>7, <2>1 DEF ENTRY
    <2>. QED
      BY <1>4, <1>6, <2>3, <2>4, EntrySet
  <1>9. CountRight' /\ strongCount' \in [DOMAIN strongCount' -> Nat]
    <2>1. One(e.strong) - One(e.strong) = 0
      BY <1>7 DEF One
    <2>2. CountMoved(HashPartition[l], 0)
      BY <1>3, CountStays
    <2>. QED
      BY <1>5, <1>6, <1>7, <1>8, <2>1, <2>2, CountKept
  <1>10. /\ locallock'[p][l][m].nLocks = 1 /\ locallock'[p][l][m].strong = e.strong
         /\ locallock'[p][l][m].exists = TRUE
         /\ \A l2 \in Lock, m2 \in LockMode : ~(l2 = l /\ m2 = m) => locallock'[p][l2][m2] = locallock[p][l2][m2]
    BY <1>8 DEF EntryBecomes
  <1>11. /\ StrongLockInProgress' \in [Proc -> BOOLEAN] /\ at' \in [Proc -> PLACE] /\ call' \in [Proc -> CALL]
         /\ at'[p] = "run" /\ ~StrongLockInProgress'[p]
    BY <1>3, <1>4 DEF TypeOK, PLACE, CALL, Nothing
  <1>12. Mine(p)
    BY <1>3, <1>4, <1>8 DEF Mine, TypeOK, EntryBecomes
  <1>13. CallRight(p)'
    BY <1>3, <1>6, <1>11 DEF CallRight
  <1>14. EntryRight(p)'
    BY <1>1, <1>2, <1>4, <1>6, <1>10, <1>11 DEF EntryRight, Active, Releasing
  <1>15. WaitRight(p)'
    BY <1>4, <1>11, LockTableAssumption DEF WaitRight, HoldsNow
  <1>16. FastRight(p)'
    <2>1. m \notin fpLockBits[p][l]
      BY <1>4, <1>5, <1>6 DEF FastRight
    <2>2. \A l2 \in Lock : \A k : k \in Hold(p, l2)' <=> k \in Hold(p, l2) \/ (l2 = l /\ k = m)
      BY <1>1, <1>2 DEF HoldsNow
    <2>3. \A l2 \in Lock, k \in LockMode : k \in fpLockBits[p][l2] =>
             Eligible(l2, k) /\ locallock'[p][l2][k].nLocks > 0 /\ locallock'[p][l2][k].fast /\ k \notin Hold(p, l2)'
      BY <1>4, <1>10, <2>1, <2>2 DEF FastRight
    <2>. QED
      BY <1>3, <1>4, <2>3 DEF FastRight
  <1>17. BeliefRight(p)'
    <2>1. \A l2 \in Lock : \A k : k \in Hold(p, l2)' <=> k \in Hold(p, l2) \/ (l2 = l /\ k = m)
      BY <1>1, <1>2 DEF HoldsNow
    <2>2. \A l2 \in Lock, k \in LockMode : k \notin Marked(p, l2)'
      <3>1. ~Releasing(p)
        BY DEF Releasing
      <3>. QED
        BY <1>4, <3>1 DEF BeliefRight, HoldsNow
    <2>3. \A l2 \in Lock, k \in LockMode : k \in Held(p, l2)' <=> k \in Held(p, l2) \/ (l2 = l /\ k = m)
      BY <1>3, <2>1 DEF Held, Hold
    <2>4. ~Releasing(p)
      BY DEF Releasing
    <2>5. \A l2 \in Lock, k \in LockMode : /\ locallock'[p][l2][k].nLocks > 0 => k \in Held(p, l2)'
                                           /\ k \in Held(p, l2)' => locallock'[p][l2][k].nLocks > 0
      BY <1>1, <1>2, <1>4, <1>10, <2>3, <2>4 DEF BeliefRight
    <2>. QED
      BY <2>2, <2>5 DEF BeliefRight
  <1>18. ProcRight(p)'
    BY <1>13, <1>14, <1>15, <1>16, <1>17 DEF ProcRight
  <1>19. Closed(p)'
    BY <1>1, <1>2, <1>3, <1>4, <1>6, <1>10, <1>11 DEF Closed
  <1>. QED
    BY <1>8, <1>9, <1>11, <1>12, <1>18, <1>19 DEF EntryBecomes

\* Awake keeps the invariant.
LEMMA AwakeRight ==
  ASSUME IInv, NEW p \in Proc, Awake(p)
  PROVE  IInv'
  <1>1. /\ lock' = lock /\ proc' = proc /\ fpLockBits' = fpLockBits /\ FastPathLocalUseCount' = FastPathLocalUseCount
        /\ strongCount' = strongCount /\ calls' = calls /\ nextProc' = nextProc
        /\ deadlockTimer' = [deadlockTimer EXCEPT ![p] = FALSE]
        /\ at[p] = "sleep" /\ proc[p].waitStatus # "WAITING"
    BY DEF Awake, fastVars
  <1>2. /\ TypeOK /\ locallock \in LOCALS /\ CallRight(p) /\ EntryRight(p) /\ WaitRight(p) /\ FastRight(p) /\ BeliefRight(p)
        /\ Closed(p)
    BY Parts
  <1>3. LocksRight' /\ \A h \in Proc : Unmoved(h)
    BY <1>1, SameLocks
  <1>4. \A h \in Proc : NewSafe(h)
    BY <1>3, OldSafe
  <1>5. FastShrinks /\ Active(p) /\ deadlockTimer' \in [Proc -> BOOLEAN]
    BY <1>1, <1>2 DEF FastShrinks, Active, Releasing, TypeOK
  <1>6. proc[p].waitLock = NULL
    BY <1>1, <1>2 DEF WaitRight
  <1>7. CASE proc[p].waitStatus = "OK" /\ Acquired(p)
    <2>1. HoldsNow(p)
      <3>1. call[p].mode \in Hold(p, call[p].lock)
        BY <1>1, <1>2, <1>7 DEF WaitRight
      <3>2. \A l \in Lock : ~Waits(lock'[l], p)
        BY <1>1, <1>2, <1>6, LockTableAssumption DEF WaitRight
      <3>. QED
        BY <1>1, <1>6, <3>1, <3>2 DEF HoldsNow, Hold, Marked
    <2>2. /\ locallock' \in LOCALS /\ StrongLockInProgress' \in [Proc -> BOOLEAN] /\ at' \in [Proc -> PLACE]
          /\ call' \in [Proc -> CALL] /\ Mine(p) /\ CountRight' /\ strongCount' \in [DOMAIN strongCount' -> Nat]
          /\ ProcRight(p)' /\ Closed(p)'
      BY <1>1, <1>7, <2>1, AcquiredRight DEF RestSame
    <2>3. TypeOK'
      BY <1>1, <1>2, <1>5, <2>2 DEF TypeOK, PLACE, CALL, LOCALS, ENTRY
    <2>4. OthersFine(p)
      BY <1>3, <2>2 DEF OthersFine
    <2>. QED
      BY <1>3, <1>4, <1>5, <2>2, <2>3, <2>4, Finish
  <1>8. CASE proc[p].waitStatus = "ERROR" /\ at' = [at EXCEPT ![p] = "abort"] /\ UNCHANGED <<localVars, call>>
    <2>1. locallock' = locallock /\ StrongLockInProgress' = StrongLockInProgress /\ call' = call
      BY <1>8 DEF localVars
    <2>2. at'[p] = "abort" /\ at' \in [Proc -> PLACE]
      BY <1>2, <1>8 DEF TypeOK, PLACE
    <2>3. CountRight' /\ strongCount' \in [DOMAIN strongCount' -> Nat]
      BY <1>1, <2>1, CountSame
    <2>4. TypeOK'
      BY <1>1, <1>2, <1>5, <2>1, <2>2, <2>3 DEF TypeOK, PLACE
    <2>5. CallRight(p)'
      BY <1>1, <1>2, <2>1, <2>2 DEF CallRight
    <2>6. EntryRight(p)'
      BY <1>2, <2>1, <2>2 DEF EntryRight, Active
    <2>7. WaitRight(p)'
      BY <1>1, <1>2, <1>6, <2>1, <2>2 DEF WaitRight, Hold
    <2>8. FastRight(p)'
      BY <1>1, <1>2, <2>1 DEF FastRight, Hold
    <2>9. BeliefRight(p)'
      BY <1>1, <1>2, <1>8, <2>1, <2>2 DEF BeliefRight, Held, Hold, Marked, Releasing
    <2>10. ProcRight(p)'
      BY <2>5, <2>6, <2>7, <2>8, <2>9 DEF ProcRight
    <2>11. Closed(p)'
      BY <1>1, <1>2, <2>1, <2>2 DEF Closed
    <2>12. OthersFine(p)
      <3>1. Mine(p)
        BY <1>1, <1>2, <1>8, <2>1 DEF Mine, TypeOK
      <3>. QED
        BY <1>3, <3>1 DEF OthersFine
    <2>. QED
      BY <1>3, <1>4, <1>5, <2>3, <2>4, <2>10, <2>11, <2>12, Finish
  <1>. QED
    BY <1>7, <1>8 DEF Awake, Goto

\* The request in the table of a backend that may be granted it or join the queue.
LEMMA RequestRight ==
  ASSUME IInv, NEW p \in Proc, at[p] = "table", NEW l, l = call[p].lock, NEW m, m = call[p].mode,
         NEW lk, lk = lock[l], NEW s, s = Requested(p)
  PROVE  /\ l \in Lock /\ m \in LockMode /\ ~Waits(lk, p) /\ m \notin Held(p, l) /\ m \notin lk.holdMask[p]
         /\ lk \in LOCK /\ LockRight(lk, WaitMode) /\ AllBlocked(lk, WaitMode)
         /\ s = SetupLockInTable(lk, p, m) /\ KeptHolders(lk, s) /\ proc[p].waitLock = NULL
  <1>1. TypeOK /\ LocksRight /\ CallRight(p) /\ WaitRight(p) /\ BeliefRight(p)
    BY Parts
  <1>2. l \in Lock /\ m \in LockMode /\ locallock[p][l][m].nLocks = 0
    BY <1>1 DEF CallRight
  <1>3. proc[p].waitLock = NULL /\ ~Waits(lk, p)
    BY <1>2, NotWaiting
  <1>4. m \notin Held(p, l)
    BY <1>1, <1>2 DEF BeliefRight, Releasing
  <1>5. lk \in LOCK /\ LockRight(lk, WaitMode) /\ AllBlocked(lk, WaitMode)
    BY <1>1, <1>2 DEF TypeOK, LocksRight
  <1>6. s = SetupLockInTable(lk, p, m)
    BY DEF Requested
  <1>7. KeptHolders(lk, s)
    BY <1>2, <1>5, <1>6, RequestKeeps
  <1>. QED
    BY <1>2, <1>3, <1>4, <1>5, <1>6, <1>7 DEF Held

\* A request that is granted keeps the invariant.
GrantNow(p) ==
  /\ at[p] = "table" /\ LockCheckConflicts(Requested(p), p, call[p].mode)
  /\ SetLock(call[p].lock, GrantLock(Requested(p), p, call[p].mode))
  /\ Acquired(p) /\ RestSame
  /\ proc' = proc /\ deadlockTimer' = deadlockTimer

\* Nobody who goes on has the lock in a mode that conflicts: nobody in the table, and
\* if it is a strong one, nobody by the fast path.
LEMMA GrantNowRight ==
  ASSUME IInv, NEW p \in Proc, GrantNow(p)
  PROVE  IInv'
  <1>1. PICK l : l = call[p].lock
    OBVIOUS
  <1>2. PICK m : m = call[p].mode
    OBVIOUS
  <1>3. PICK lk : lk = lock[l]
    OBVIOUS
  <1>4. PICK s : s = Requested(p)
    OBVIOUS
  <1>5. PICK r : r = GrantLock(s, p, m)
    OBVIOUS
  <1>6. /\ at[p] = "table" /\ LockCheckConflicts(s, p, m) /\ lock' = [lock EXCEPT ![l] = r]
        /\ proc' = proc /\ deadlockTimer' = deadlockTimer /\ fpLockBits' = fpLockBits
        /\ FastPathLocalUseCount' = FastPathLocalUseCount /\ nextProc' = nextProc /\ calls' = calls
    BY <1>1, <1>2, <1>4, <1>5 DEF GrantNow, SetLock, RestSame
  <1>7. /\ TypeOK /\ CallRight(p) /\ Closed(p)
    BY Parts
  <1>8. /\ l \in Lock /\ m \in LockMode /\ ~Waits(lk, p) /\ m \notin Held(p, l) /\ m \notin lk.holdMask[p]
        /\ lk \in LOCK /\ LockRight(lk, WaitMode) /\ AllBlocked(lk, WaitMode)
        /\ s = SetupLockInTable(lk, p, m) /\ proc[p].waitLock = NULL
    BY <1>1, <1>2, <1>3, <1>4, <1>6, RequestRight
  <1>9. Gained(lk, r, p, {m}) /\ \A q \in Proc : q # p => lk.holdMask[q] \cap conflictTab(m) = {}
    BY <1>5, <1>6, <1>8, GrantRight
  <1>10. lock'[l] = r /\ \A l2 \in Lock : l2 # l => lock'[l2] = lock[l2]
    BY <1>6, <1>7, <1>8 DEF TypeOK
  <1>11. GainStep(p, l, {m})
    BY <1>3, <1>6, <1>9, <1>10 DEF GainStep
  <1>12. /\ LocksRight'
         /\ \A q \in Proc : q # p /\ fpLockBits'[q] = fpLockBits[q] => Unmoved(q)
         /\ \A q \in Proc : \A l2 \in Lock : Waits(lock'[l2], q) <=> Waits(lock[l2], q)
         /\ \A q \in Proc : \A l2 \in Lock : \A k : k \in lock'[l2].releaseMask[q] <=> k \in lock[l2].releaseMask[q]
         /\ \A q \in Proc : \A l2 \in Lock : \A k : k \in lock'[l2].holdMask[q] <=>
              k \in lock[l2].holdMask[q] \/ (q = p /\ l2 = l /\ k \in {m})
    BY <1>8, <1>11, GainLocks
  <1>13. HoldsNow(p)
    <2>1. \A l2 \in Lock : ~Waits(lock[l2], p)
      BY <1>6, NotWaiting
    <2>. QED
      BY <1>1, <1>2, <1>6, <1>8, <1>12, <2>1 DEF HoldsNow, Hold, Marked
  <1>14. /\ locallock' \in LOCALS /\ StrongLockInProgress' \in [Proc -> BOOLEAN] /\ at' \in [Proc -> PLACE]
         /\ call' \in [Proc -> CALL] /\ Mine(p) /\ CountRight' /\ strongCount' \in [DOMAIN strongCount' -> Nat]
         /\ ProcRight(p)' /\ Closed(p)'
    BY <1>6, <1>13, AcquiredRight DEF GrantNow
  <1>15. TypeOK'
    <2>1. lock' \in [Lock -> LOCK]
      <3>1. lock' = [l2 \in Lock |-> lock'[l2]]
        BY <1>6, <1>7 DEF TypeOK
      <3>. QED
        BY <1>12, <3>1, LocksTyped
    <2>. QED
      BY <1>6, <1>7, <1>14, <2>1 DEF TypeOK, PLACE, CALL, LOCALS, ENTRY
  <1>16. OthersFine(p)
    BY <1>6, <1>12, <1>14 DEF OthersFine
  <1>17. NewSafe(p)
    <2>. SUFFICES ASSUME NEW l2 \in Lock, NEW k \in LockMode, k \in Held(p, l2)', k \notin Held(p, l2),
                         NEW h \in Proc, h # p, NEW k2, k2 \in Held(h, l2)', k2 \in conflictTab(k)
                  PROVE  FALSE
      BY DEF NewSafe
    <2>1. l2 = l /\ k = m
      BY <1>6, <1>12 DEF Held
    <2>2. k2 \in LockMode
      BY DEF conflictTab
    <2>3. k2 \notin lock'[l].holdMask[h]
      BY <1>3, <1>8, <1>9, <1>12, <2>1
    <2>4. k2 \in fpLockBits[h][l]
      BY <1>6, <2>1, <2>3 DEF Held
    <2>5. Eligible(l, k2)
      BY <1>8, <2>2, <2>4 DEF IInv, ProcRight, FastRight
    <2>6. Strong(l, m)
      BY <1>8, <2>1, <2>2, <2>5, WeakConflicts
    <2>7. StrongLockInProgress[p]
      BY <1>1, <1>2, <1>6, <1>7, <2>6 DEF CallRight
    <2>8. fpLockBits[h][l] = {}
      BY <1>1, <1>6, <1>7, <2>7 DEF Closed
    <2>. QED
      BY <2>4, <2>8
  <1>18. \A q \in Proc : NewSafe(q)
    BY <1>6, <1>12, <1>17, OldSafe
  <1>19. Active(p) /\ FastShrinks
    BY <1>6 DEF Active, Releasing, FastShrinks
  <1>. QED
    BY <1>12, <1>14, <1>15, <1>16, <1>18, <1>19, Finish

\* GrantAtOnce keeps the invariant.
LEMMA GrantAtOnceRight ==
  ASSUME IInv, NEW p \in Proc, GrantAtOnce(p)
  PROVE  IInv'
  <1>1. GrantNow(p)
    BY DEF GrantAtOnce, Available, GrantNow, RestSame, fastVars
  <1>. QED
    BY <1>1, GrantNowRight

\* A request that is not to wait leaves nothing behind.
LEMMA NotAvailableRight ==
  ASSUME IInv, NEW p \in Proc, NotAvailable(p)
  PROVE  IInv'
  <1>1. PICK l : l = call[p].lock
    OBVIOUS
  <1>2. PICK m : m = call[p].mode
    OBVIOUS
  <1>3. PICK lk : lk = lock[l]
    OBVIOUS
  <1>4. /\ proc' = proc /\ fpLockBits' = fpLockBits /\ FastPathLocalUseCount' = FastPathLocalUseCount
        /\ deadlockTimer' = deadlockTimer /\ calls' = calls /\ nextProc' = nextProc
        /\ at' = [at EXCEPT ![p] = "run"] /\ call' = [call EXCEPT ![p] = Nothing]
        /\ StrongLockInProgress' = [StrongLockInProgress EXCEPT ![p] = FALSE]
        /\ at[p] = "table" /\ SetNoLocal(p, l, m)
        /\ strongCount' = [strongCount EXCEPT ![HashPartition[l]] = IF StrongLockInProgress[p] THEN @ - 1 ELSE @]
    BY <1>1, <1>2 DEF NotAvailable, Goto, SetNoLocal
  <1>5. /\ TypeOK /\ locallock \in LOCALS /\ CallRight(p) /\ EntryRight(p) /\ WaitRight(p) /\ FastRight(p) /\ BeliefRight(p)
        /\ Closed(p)
    BY Parts
  <1>6. PICK s : s = Requested(p)
    OBVIOUS
  <1>7. /\ l \in Lock /\ m \in LockMode /\ ~Waits(lk, p) /\ LockRight(lk, WaitMode)
        /\ s = SetupLockInTable(lk, p, m) /\ proc[p].waitLock = NULL
    BY <1>1, <1>2, <1>3, <1>4, <1>6, RequestRight
  <1>8. lock' = lock
    <2>1. PICK r : r = [DropProcLock(SetupLockInTable(lk, p, m), p) EXCEPT !.requested[m] = @ - 1]
      OBVIOUS
    <2>2. r = lk
      BY <1>7, <2>1, RequestTakenBack
    <2>3. lock' = [lock EXCEPT ![l] = [DropProcLock(s, p) EXCEPT !.requested[m] = @ - 1]]
      BY <1>1, <1>2, <1>6 DEF NotAvailable, SetLock
    <2>4. lock' = [lock EXCEPT ![l] = r]
      BY <1>7, <2>1, <2>3
    <2>. QED
      BY <1>3, <1>5, <1>7, <2>2, <2>4 DEF TypeOK
  <1>9. /\ locallock[p][l][m].nLocks = 0 /\ (locallock[p][l][m].strong <=> StrongLockInProgress[p])
        /\ locallock[p][l][m].strong \in BOOLEAN /\ calls[p] > 0
    BY <1>1, <1>2, <1>4, <1>5, <1>7, EntryTyped DEF CallRight
  <1>10. EntryGone(p, l, m)
    <2>1. EntryBecomes(p, l, m, 0, FALSE, FALSE, FALSE)
      BY <1>4, <1>7, EntryGoes
    <2>2. CASE ~StrongLockInProgress[p]
      <3>1. strongCount' = strongCount
        BY <1>4, <1>5, <2>2 DEF TypeOK
      <3>. QED
        BY <1>4, <1>7, <1>9, <2>2, <3>1, EntryGoes
    <2>3. CASE StrongLockInProgress[p]
      <3>1. CountDownOne(HashPartition[l]) /\ strongCount \in [DOMAIN strongCount -> Nat]
        BY <1>4, <1>5, <2>3 DEF CountDownOne, TypeOK
      <3>2. CountMoved(HashPartition[l], -1)
        BY <3>1, CountSteps
      <3>3. locallock[p][l][m].strong = TRUE /\ One(FALSE) - One(TRUE) = -1
        BY <1>9, <2>3 DEF One
      <3>4. CountRight' /\ strongCount' \in [DOMAIN strongCount' -> Nat]
        BY <1>7, <2>1, <3>2, <3>3, CountKept
      <3>. QED
        BY <2>1, <3>4 DEF EntryGone
    <2>. QED
      BY <2>2, <2>3
  <1>11. /\ locallock' \in LOCALS /\ CountRight' /\ strongCount' \in [DOMAIN strongCount' -> Nat]
         /\ locallock'[p][l][m].nLocks = 0 /\ locallock'[p][l][m].strong = FALSE /\ locallock'[p][l][m].exists = FALSE
         /\ \A l2 \in Lock, m2 \in LockMode : ~(l2 = l /\ m2 = m) => locallock'[p][l2][m2] = locallock[p][l2][m2]
    BY <1>10 DEF EntryGone, EntryBecomes
  <1>12. LocksRight' /\ \A h \in Proc : Unmoved(h)
    BY <1>4, <1>8, SameLocks
  <1>13. /\ at'[p] = "run" /\ at' \in [Proc -> PLACE] /\ call' \in [Proc -> CALL]
         /\ StrongLockInProgress' \in [Proc -> BOOLEAN] /\ ~StrongLockInProgress'[p]
    BY <1>4, <1>5 DEF TypeOK, PLACE, CALL, Nothing
  <1>14. TypeOK'
    BY <1>4, <1>5, <1>8, <1>11, <1>13 DEF TypeOK, PLACE, CALL, LOCALS, ENTRY
  <1>15. CallRight(p)'
    BY <1>4, <1>9, <1>13 DEF CallRight
  <1>16. EntryRight(p)'
    BY <1>1, <1>2, <1>4, <1>5, <1>11, <1>13 DEF EntryRight, Active, Releasing
  <1>17. WaitRight(p)'
    BY <1>4, <1>5, <1>7, <1>8, <1>13 DEF WaitRight, Hold
  <1>18. FastRight(p)'
    BY <1>4, <1>5, <1>8, <1>9, <1>11 DEF FastRight, Hold
  <1>19. BeliefRight(p)'
    BY <1>4, <1>5, <1>8, <1>9, <1>11, <1>13 DEF BeliefRight, Held, Hold, Marked, Releasing
  <1>20. ProcRight(p)'
    BY <1>15, <1>16, <1>17, <1>18, <1>19 DEF ProcRight
  <1>21. Closed(p)'
    BY <1>4, <1>5, <1>11, <1>13 DEF Closed
  <1>22. OthersFine(p) /\ FastShrinks
    <2>1. Mine(p)
      BY <1>4, <1>5, <1>10 DEF Mine, TypeOK, EntryGone, EntryBecomes
    <2>. QED
      BY <1>4, <1>12, <2>1 DEF OthersFine, FastShrinks
  <1>23. \A h \in Proc : NewSafe(h)
    BY <1>12, OldSafe
  <1>24. Active(p)
    BY <1>4 DEF Active, Releasing
  <1>. QED
    BY <1>11, <1>12, <1>14, <1>20, <1>21, <1>22, <1>23, <1>24, Finish

-----------------------------------------------------------------------------
(* Steps in which waiters are looked at.                                   *)

\* Of one lock.
OneSettled(x, l, modes) ==
  /\ Settled(lock[l], lock'[l], x, modes) /\ ~Waits(lock'[l], x)
  /\ \A l2 \in Lock : l2 # l => lock'[l2] = lock[l2] /\ ~Waits(lock[l2], x)
  /\ \A q \in Proc : q # x =>
       /\ fpLockBits'[q] = fpLockBits[q] /\ lock'[l].releaseMask[q] = lock[l].releaseMask[q]
       /\ Waits(lock[l], q) /\ ~Waits(lock'[l], q) => proc'[q] = OffQueue("OK")
       /\ ~(Waits(lock[l], q) /\ ~Waits(lock'[l], q)) => proc'[q] = proc[q]

\* Who was woken.
LEMMA WokenMeans ==
  ASSUME NEW before, NEW after, NEW q
  PROVE  q \in Woken(before, after) <=> Waits(before, q) /\ ~Waits(after, q)
  BY DEF Woken, Waits

\* Then the table is in order, the others have what they had or waited for, and x has
\* given up the modes.
LEMMA OneSettledRight ==
  ASSUME IInv, NEW x \in Proc, NEW l \in Lock, NEW modes, OneSettled(x, l, modes), FastShrinks,
         \A q \in Proc : q # x => at'[q] = at[q]
  PROVE  /\ LocksRight'
         /\ \A q \in Proc : q # x => Unmoved(q) \/ WokenNow(q)
         /\ \A q \in Proc : q # x /\ Active(q)' => NewSafe(q)
         /\ \A l2 \in Lock : \A k : k \in Hold(x, l2)' <=> k \in Hold(x, l2) /\ ~(l2 = l /\ k \in modes)
         /\ \A l2 \in Lock : ~Waits(lock'[l2], x)
  <1>1. PICK freed : freed = [l2 \in Lock |-> IF l2 = l THEN modes ELSE {}]
    OBVIOUS
  <1>2. freed[l] = modes /\ \A l2 \in Lock : l2 # l => freed[l2] = {}
    BY <1>1
  <1>3. \A l2 \in Lock : Settled(lock[l2], lock'[l2], x, freed[l2]) /\ ~Waits(lock'[l2], x)
    <2>. SUFFICES ASSUME NEW l2 \in Lock
                  PROVE  Settled(lock[l2], lock'[l2], x, freed[l2]) /\ ~Waits(lock'[l2], x)
      OBVIOUS
    <2>1. CASE l2 = l
      BY <1>2, <2>1 DEF OneSettled
    <2>2. CASE l2 # l
      <3>1. LockRight(lock[l2], WaitMode) /\ AllBlocked(lock[l2], WaitMode)
        BY DEF IInv, LocksRight
      <3>2. lock'[l2] = lock[l2] /\ ~Waits(lock[l2], x) /\ freed[l2] = {}
        BY <1>2, <2>2 DEF OneSettled
      <3>. QED
        BY <3>1, <3>2 DEF Settled
    <2>. QED
      BY <2>1, <2>2
  <1>4. SettleStep(x, freed)
    <2>. SUFFICES ASSUME NEW q \in Proc, q # x
                  PROVE  /\ fpLockBits'[q] = fpLockBits[q]
                         /\ \A l2 \in Lock : lock'[l2].releaseMask[q] = lock[l2].releaseMask[q]
                         /\ (\E l2 \in Lock : Waits(lock[l2], q) /\ ~Waits(lock'[l2], q)) => proc'[q] = OffQueue("OK")
                         /\ (\A l2 \in Lock : Waits(lock[l2], q) => Waits(lock'[l2], q)) => proc'[q] = proc[q]
      BY <1>3 DEF SettleStep
    <2>1. \A l2 \in Lock : l2 # l => lock'[l2] = lock[l2]
      BY DEF OneSettled
    <2>2. /\ fpLockBits'[q] = fpLockBits[q] /\ lock'[l].releaseMask[q] = lock[l].releaseMask[q]
          /\ Waits(lock[l], q) /\ ~Waits(lock'[l], q) => proc'[q] = OffQueue("OK")
          /\ ~(Waits(lock[l], q) /\ ~Waits(lock'[l], q)) => proc'[q] = proc[q]
      BY DEF OneSettled
    <2>3. \A l2 \in Lock : lock'[l2].releaseMask[q] = lock[l2].releaseMask[q]
      BY <2>1, <2>2
    <2>4. (\E l2 \in Lock : Waits(lock[l2], q) /\ ~Waits(lock'[l2], q)) => Waits(lock[l], q) /\ ~Waits(lock'[l], q)
      BY <2>1
    <2>. QED
      BY <2>2, <2>3, <2>4
  <1>5. LocksRight'
    BY <1>4, SettledLocks
  <1>6. \A q \in Proc : q # x => Unmoved(q) \/ WokenNow(q)
    BY <1>4, SettledOthers
  <1>7. \A q \in Proc : q # x /\ Active(q)' => NewSafe(q)
    BY <1>4, SettledSafe
  <1>8. \A l2 \in Lock : \A k : k \in Hold(x, l2)' <=> k \in Hold(x, l2) /\ ~(l2 = l /\ k \in modes)
    <2>. SUFFICES ASSUME NEW l2 \in Lock, NEW k
                  PROVE  k \in Hold(x, l2)' <=> k \in Hold(x, l2) /\ ~(l2 = l /\ k \in modes)
      OBVIOUS
    <2>1. k \in lock'[l2].holdMask[x] <=> k \in lock[l2].holdMask[x] /\ k \notin freed[l2]
      BY <1>3 DEF Settled
    <2>2. k \in freed[l2] <=> l2 = l /\ k \in modes
      BY <1>1
    <2>. QED
      BY <2>1, <2>2 DEF Hold
  <1>. QED
    BY <1>3, <1>5, <1>6, <1>7, <1>8

\* Where p goes into the queue.
LEMMA InsertionPointRight ==
  ASSUME NEW lk \in LOCK, NEW p, NEW i, i = InsertionPoint(lk, p)
  PROVE  i \in 1..(Len(lk.waitProcs) + 1)
  <1>1. PICK mine : mine = {j \in DOMAIN lk.waitProcs : conflictTab(proc[lk.waitProcs[j]].waitLockMode) \cap lk.holdMask[p] # {}}
    OBVIOUS
  <1>2. i = IF mine = {} THEN Len(lk.waitProcs) + 1 ELSE Min(mine)
    BY <1>1 DEF InsertionPoint
  <1>3. lk.waitProcs \in Seq(Proc)
    BY LockFacts
  <1>4. Len(lk.waitProcs) \in Nat /\ DOMAIN lk.waitProcs = 1..Len(lk.waitProcs)
    BY <1>3, ListFacts
  <1>5. mine \subseteq 1..Len(lk.waitProcs)
    BY <1>1, <1>4
  <1>6. CASE mine = {}
    BY <1>2, <1>4, <1>6
  <1>7. CASE mine # {}
    <2>1. mine \in SUBSET Nat
      BY <1>4, <1>5
    <2>2. Min(mine) \in mine
      BY <1>7, <2>1, LeastIn
    <2>. QED
      BY <1>2, <1>4, <1>5, <1>7, <2>2
  <1>. QED
    BY <1>6, <1>7

\* A step that settles one lock and wakes those who leave its queue.
LEMMA SettledOnce ==
  ASSUME IInv, NEW x \in Proc, NEW l \in Lock, NEW modes, NEW r, Settled(lock[l], r, x, modes), ~Waits(r, x),
         SetLock(l, r), NEW s, s.waitProcs = lock[l].waitProcs, \A l2 \in Lock : l2 # l => ~Waits(lock[l2], x),
         \A q \in Proc : q # x =>
           /\ r.releaseMask[q] = lock[l].releaseMask[q] /\ fpLockBits'[q] = fpLockBits[q]
           /\ proc'[q] = ProcWakeup(Woken(s, r))[q]
  PROVE  OneSettled(x, l, modes) /\ lock' = [l2 \in Lock |-> lock'[l2]]
  <1>1. lock \in [Lock -> LOCK]
    BY DEF IInv, TypeOK
  <1>2. lock'[l] = r /\ lock' = [l2 \in Lock |-> lock'[l2]] /\ \A l2 \in Lock : l2 # l => lock'[l2] = lock[l2]
    BY <1>1 DEF SetLock
  <1>3. \A q \in Proc : q # x => /\ Waits(lock[l], q) /\ ~Waits(r, q) => proc'[q] = OffQueue("OK")
                                 /\ ~(Waits(lock[l], q) /\ ~Waits(r, q)) => proc'[q] = proc[q]
    <2>. SUFFICES ASSUME NEW q \in Proc, q # x
                  PROVE  proc'[q] = IF Waits(lock[l], q) /\ ~Waits(r, q) THEN OffQueue("OK") ELSE proc[q]
      OBVIOUS
    <2>1. q \in Woken(s, r) <=> Waits(lock[l], q) /\ ~Waits(r, q)
      BY WokenMeans DEF Waits
    <2>. QED
      BY <2>1 DEF ProcWakeup
  <1>. QED
    BY <1>2, <1>3 DEF OneSettled

-----------------------------------------------------------------------------
(* Giving up a request.                                                    *)

\* p is taken off the queue, or would have been in it, and its transaction is to fail.
Refused(p, l) ==
  /\ lock'[l].releaseMask[p] = lock[l].releaseMask[p]
  /\ OneSettled(p, l, {}) /\ lock' = [l2 \in Lock |-> lock'[l2]]
  /\ proc' = [q \in Proc |-> proc'[q]] /\ proc'[p] = OffQueue("ERROR")
  /\ at[p] = "table" \/ proc[p].waitLock # NULL
  /\ at'[p] = "abort" \/ (at'[p] = "sleep" /\ at[p] = "sleep")
  /\ at' \in [Proc -> PLACE] /\ \A q \in Proc : q # p => at'[q] = at[q]
  /\ deadlockTimer' \in [Proc -> BOOLEAN]
  /\ locallock' = locallock /\ StrongLockInProgress' = StrongLockInProgress /\ call' = call
  /\ RestSame

\* It has what it had.
LEMMA RefusedRight ==
  ASSUME IInv, NEW p \in Proc, NEW l \in Lock, Refused(p, l)
  PROVE  IInv'
  <1>1. /\ lock'[l].releaseMask[p] = lock[l].releaseMask[p]
        /\ OneSettled(p, l, {}) /\ lock' = [l2 \in Lock |-> lock'[l2]]
        /\ proc' = [q \in Proc |-> proc'[q]] /\ proc'[p] = OffQueue("ERROR")
        /\ at[p] = "table" \/ proc[p].waitLock # NULL
        /\ at'[p] = "abort" \/ (at'[p] = "sleep" /\ at[p] = "sleep")
        /\ at' \in [Proc -> PLACE] /\ \A q \in Proc : q # p => at'[q] = at[q]
        /\ deadlockTimer' \in [Proc -> BOOLEAN]
        /\ locallock' = locallock /\ StrongLockInProgress' = StrongLockInProgress /\ call' = call
        /\ strongCount' = strongCount /\ fpLockBits' = fpLockBits /\ FastPathLocalUseCount' = FastPathLocalUseCount
        /\ nextProc' = nextProc /\ calls' = calls
    BY DEF Refused, RestSame
  <1>2. /\ TypeOK /\ CallRight(p) /\ EntryRight(p) /\ WaitRight(p) /\ FastRight(p) /\ BeliefRight(p) /\ Closed(p)
    BY Parts
  <1>3. FastShrinks
    BY <1>1 DEF FastShrinks
  <1>4. /\ LocksRight'
        /\ \A q \in Proc : q # p => Unmoved(q) \/ WokenNow(q)
        /\ \A q \in Proc : q # p /\ Active(q)' => NewSafe(q)
        /\ \A l2 \in Lock : \A k : k \in Hold(p, l2)' <=> k \in Hold(p, l2) /\ ~(l2 = l /\ k \in {})
        /\ \A l2 \in Lock : ~Waits(lock'[l2], p)
    BY <1>1, <1>3, OneSettledRight
  <1>5. CountRight' /\ strongCount' \in [DOMAIN strongCount' -> Nat]
    BY <1>1, CountSame
  <1>6. OffQueue("ERROR") \in PROC /\ OffQueue("OK") \in PROC
    BY DEF OffQueue, PROC
  <1>7. proc' \in [Proc -> PROC]
    <2>1. \A q \in Proc : proc[q] \in PROC
      BY <1>2, TypeFacts
    <2>2. \A q \in Proc : proc'[q] \in PROC
      BY <1>1, <1>4, <1>6, <2>1 DEF Unmoved, WokenNow
    <2>. QED
      BY <1>1, <2>2
  <1>8. TypeOK'
    <2>1. lock' \in [Lock -> LOCK]
      BY <1>1, <1>4, LocksTyped
    <2>. QED
      BY <1>1, <1>2, <1>5, <1>7, <2>1 DEF TypeOK, PLACE, PROC
  <1>9. at[p] \in {"table", "sleep", "cleanup"} /\ (at[p] # "table" => proc[p].waitStatus # "OK")
    BY <1>1, <1>2 DEF WaitRight
  <1>10. at'[p] # at[p] => at'[p] = "abort"
    BY <1>1
  <1>11. CallRight(p)'
    BY <1>1, <1>2, <1>9 DEF CallRight
  <1>12. EntryRight(p)'
    BY <1>1, <1>2, <1>9 DEF EntryRight, Active, Releasing
  <1>13. proc'[p].waitLock = NULL /\ proc'[p].waitStatus = "ERROR"
    BY <1>1 DEF OffQueue
  <1>14. WaitRight(p)'
    BY <1>4, <1>13, LockTableAssumption DEF WaitRight
  <1>15. \A l2 \in Lock : \A k : k \in Hold(p, l2)' <=> k \in Hold(p, l2)
    BY <1>4
  <1>16. FastRight(p)'
    BY <1>1, <1>2, <1>15 DEF FastRight
  <1>17. BeliefRight(p)'
    <2>1. ~Releasing(p)
      BY <1>9 DEF Releasing
    <2>2. \A l2 \in Lock, k \in LockMode : k \notin Marked(p, l2)'
      <3>. SUFFICES ASSUME NEW l2 \in Lock, NEW k \in LockMode, k \in Marked(p, l2)'
                    PROVE  FALSE
        OBVIOUS
      <3>1. CASE l2 # l
        <4>1. lock'[l2] = lock[l2]
          BY <1>1, <3>1 DEF OneSettled
        <4>. QED
          BY <1>2, <2>1, <4>1 DEF BeliefRight, Marked
      <3>2. CASE l2 = l
        BY <1>1, <1>2, <2>1, <3>2 DEF BeliefRight, Marked
      <3>. QED
        BY <3>1, <3>2
    <2>3. \A l2 \in Lock : \A k : k \in Held(p, l2)' <=> k \in Held(p, l2)
      BY <1>1, <1>15 DEF Held, Hold
    <2>4. \A l2 \in Lock, k \in LockMode : /\ locallock'[p][l2][k].nLocks > 0 => k \in Held(p, l2)'
                                           /\ k \in Held(p, l2)' => locallock'[p][l2][k].nLocks > 0
      BY <1>1, <1>2, <1>9, <2>1, <2>3 DEF BeliefRight
    <2>. QED
      BY <2>2, <2>4 DEF BeliefRight
  <1>18. ProcRight(p)'
    BY <1>11, <1>12, <1>14, <1>16, <1>17 DEF ProcRight
  <1>19. Closed(p)'
    BY <1>1, <1>2 DEF Closed
  <1>20. OthersFine(p)
    <2>1. Mine(p)
      BY <1>1 DEF Mine
    <2>. QED
      BY <1>4, <2>1 DEF OthersFine
  <1>21. Active(p)' => Active(p)
    BY <1>1 DEF Active, Releasing
  <1>22. NewSafe(p)
    BY <1>1, <1>15 DEF NewSafe, Held, Hold
  <1>. QED
    BY <1>3, <1>4, <1>5, <1>8, <1>18, <1>19, <1>20, <1>21, <1>22, Finish

\* The fields that a step which only changes the lock table leaves alone.
LocalSame == locallock' = locallock /\ StrongLockInProgress' = StrongLockInProgress /\ call' = call

\* What RemoveFromWaitQueue does.
TakenOff(p, l) ==
  /\ lock'[l].releaseMask[p] = lock[l].releaseMask[p]
  /\ OneSettled(p, l, {}) /\ lock' = [l2 \in Lock |-> lock'[l2]]
  /\ proc' = [q \in Proc |-> proc'[q]] /\ proc'[p] = OffQueue("ERROR")

\* p is told so, and others are woken.
OthersWoken(p, s, r) == proc' = [ProcWakeup(Woken(s, r)) EXCEPT ![p] = OffQueue("ERROR")]
JoinedAt(s, p, m, i) == [s EXCEPT !.waitProcs = InsertAt(@, i, p), !.waitMask = @ \cup {m}]
FailsNow(p) == at' = [at EXCEPT ![p] = "abort"]

\* A place in a queue is given up.
LEMMA PlaceGivenUp ==
  ASSUME IInv, NEW p \in Proc, NEW l \in Lock, NEW m \in LockMode, NEW lk, NEW w, LockRight(lk, w), Waits(lk, p), w[p] = m,
         lk.releaseMask = lock[l].releaseMask, lk.holdMask = lock[l].holdMask,
         \A q \in Proc : q # p => (Waits(lk, q) <=> Waits(lock[l], q)) /\ w[q] = WaitMode[q],
         NEW r, r = WithoutWaiter(lk, p, m), NEW s, s.waitProcs = lock[l].waitProcs, SetLock(l, r),
         OthersWoken(p, s, r), \A l2 \in Lock : l2 # l => ~Waits(lock[l2], p), fpLockBits' = fpLockBits
  PROVE  TakenOff(p, l)
  <1>1. Settled(lk, r, p, {}) /\ r.releaseMask = lk.releaseMask /\ ~Waits(r, p)
    BY GiveUpRight
  <1>2. Settled(lock[l], r, p, {})
    BY <1>1 DEF Settled
  <1>3. PICK wake : wake = ProcWakeup(Woken(s, r))
    OBVIOUS
  <1>4. wake = [q \in Proc |-> wake[q]] /\ proc' = [wake EXCEPT ![p] = OffQueue("ERROR")]
    BY <1>3 DEF ProcWakeup, OthersWoken
  <1>5. proc' = [q \in Proc |-> proc'[q]] /\ proc'[p] = OffQueue("ERROR") /\ \A q \in Proc : q # p => proc'[q] = wake[q]
    BY <1>4
  <1>6. OneSettled(p, l, {}) /\ lock' = [l2 \in Lock |-> lock'[l2]]
    <2>1. \A q \in Proc : q # p =>
           /\ r.releaseMask[q] = lock[l].releaseMask[q] /\ fpLockBits'[q] = fpLockBits[q]
           /\ proc'[q] = ProcWakeup(Woken(s, r))[q]
      BY <1>1, <1>3, <1>5
    <2>. QED
      BY <1>1, <1>2, <2>1, SettledOnce
  <1>7. lock'[l] = r
    BY DEF SetLock, IInv, TypeOK
  <1>. QED
    BY <1>1, <1>5, <1>6, <1>7 DEF TakenOff

\* RemoveFromWaitQueue of a backend that waits.
LEMMA RemoveRight ==
  ASSUME IInv, NEW p \in Proc, NEW l, l = proc[p].waitLock, l # NULL, RemoveFromWaitQueue(p), fpLockBits' = fpLockBits
  PROVE  l \in Lock /\ TakenOff(p, l)
  <1>1. PICK m : m = proc[p].waitLockMode
    OBVIOUS
  <1>2. TypeOK /\ CallRight(p) /\ WaitRight(p) /\ LocksRight
    BY Parts
  <1>3. l \in Lock /\ m \in LockMode
    BY <1>1, <1>2 DEF WaitRight, CallRight
  <1>4. PICK r : r = WithoutWaiter(lock[l], p, m)
    OBVIOUS
  <1>5. SetLock(l, r) /\ OthersWoken(p, lock[l], r)
    BY <1>1, <1>4 DEF RemoveFromWaitQueue, OthersWoken
  <1>6. Waits(lock[l], p) /\ \A l2 \in Lock : l2 # l => ~Waits(lock[l2], p)
    BY <1>2, <1>3 DEF WaitRight
  <1>7. LockRight(lock[l], WaitMode) /\ WaitMode[p] = m
    BY <1>1, <1>2, <1>3 DEF LocksRight, WaitMode
  <1>8. TakenOff(p, l)
    BY <1>3, <1>4, <1>5, <1>6, <1>7, PlaceGivenUp
  <1>. QED
    BY <1>3, <1>8

\* A backend that would close a circle by waiting has its request taken back.
LEMMA EarlyDeadlockRight ==
  ASSUME IInv, NEW p \in Proc, at[p] = "table", NEW l, l = call[p].lock, NEW m, m = call[p].mode,
         NEW s, s = Requested(p), NEW i, i = InsertionPoint(s, p),
         NEW queued, queued = JoinedAt(s, p, m, i),
         NEW r, r = WithoutWaiter(queued, p, m),
         SetLock(l, r), OthersWoken(p, s, r), FailsNow(p), deadlockTimer' = deadlockTimer, LocalSame, RestSame
  PROVE  IInv'
  <1>1. PICK lk : lk = lock[l]
    OBVIOUS
  <1>2. /\ l \in Lock /\ m \in LockMode /\ ~Waits(lk, p) /\ m \notin lk.holdMask[p]
        /\ lk \in LOCK /\ LockRight(lk, WaitMode) /\ AllBlocked(lk, WaitMode)
        /\ s = SetupLockInTable(lk, p, m) /\ KeptHolders(lk, s) /\ proc[p].waitLock = NULL
    BY <1>1, RequestRight
  <1>3. s \in LOCK /\ s.waitProcs = lk.waitProcs
    BY <1>2 DEF KeptHolders
  <1>4. i \in 1..(Len(lk.waitProcs) + 1)
    <2>1. i \in 1..(Len(s.waitProcs) + 1)
      BY <1>3, InsertionPointRight
    <2>. QED
      BY <1>3, <2>1
  <1>5. queued = QueuedAt(lk, p, m, i)
    BY <1>2 DEF QueuedAt, JoinedAt
  <1>6. PICK w2 : w2 = [q \in Proc |-> IF q = p THEN m ELSE WaitMode[q]]
    OBVIOUS
  <1>7. w2[p] = m /\ \A q \in Proc : q # p => w2[q] = WaitMode[q]
    BY <1>6
  <1>8. \A q \in Proc : Waits(lk, q) => w2[q] = WaitMode[q]
    BY <1>2, <1>7
  <1>9. /\ LockRight(queued, w2) /\ queued.holdMask = lk.holdMask /\ queued.releaseMask = lk.releaseMask
        /\ \A q \in Proc : Waits(queued, q) <=> Waits(lk, q) \/ q = p
    BY <1>2, <1>4, <1>5, <1>7, <1>8, RequestQueued
  <1>10. \A l2 \in Lock : ~Waits(lock[l2], p)
    BY NotWaiting
  <1>11. TakenOff(p, l)
    <2>1. fpLockBits' = fpLockBits
      BY DEF RestSame
    <2>2. \A q \in Proc : q # p => (Waits(queued, q) <=> Waits(lock[l], q)) /\ w2[q] = WaitMode[q]
      BY <1>1, <1>7, <1>9
    <2>. QED
      BY <1>1, <1>2, <1>3, <1>7, <1>9, <1>10, <2>1, <2>2, PlaceGivenUp
  <1>12. Refused(p, l)
    <2>1. at \in [Proc -> PLACE] /\ deadlockTimer \in [Proc -> BOOLEAN]
      BY DEF IInv, TypeOK, PLACE
    <2>2. at' \in [Proc -> PLACE] /\ at'[p] = "abort" /\ \A q \in Proc : q # p => at'[q] = at[q]
      BY <2>1 DEF PLACE, FailsNow
    <2>. QED
      BY <1>11, <2>1, <2>2 DEF Refused, TakenOff, LocalSame
  <1>. QED
    BY <1>2, <1>12, RefusedRight

\* p waits from now on.
Waiting(p, l, m, held) ==
  proc' = [proc EXCEPT ![p] = [waitLock |-> l, waitLockMode |-> m, waitStatus |-> "WAITING", heldLocks |-> held]]
SleepsNow(p, check) == at' = [at EXCEPT ![p] = "sleep"] /\ deadlockTimer' = [deadlockTimer EXCEPT ![p] = check]

\* Who is not granted its request in front of its place has somebody in its way.
LEMMA InTheWayRight ==
  ASSUME IInv, NEW p \in Proc, at[p] = "table", ~Available(p), NEW m, m = call[p].mode, NEW lk, lk = lock[call[p].lock],
         NEW s, s = Requested(p), NEW i, i = InsertionPoint(s, p), ~GrantInFront(s, p, m)
  PROVE  i \in 1..(Len(lk.waitProcs) + 1) /\ InTheWay(lk, p, m, i)
  <1>1. PICK l : l = call[p].lock
    OBVIOUS
  <1>2. /\ l \in Lock /\ m \in LockMode /\ lk \in LOCK /\ LockRight(lk, WaitMode)
        /\ s = SetupLockInTable(lk, p, m) /\ KeptHolders(lk, s)
    BY <1>1, RequestRight
  <1>3. s \in LOCK /\ s.waitProcs = lk.waitProcs /\ s.waitMask = lk.waitMask
    BY <1>2 DEF KeptHolders
  <1>4. i \in 1..(Len(lk.waitProcs) + 1)
    <2>1. i \in 1..(Len(s.waitProcs) + 1)
      BY <1>3, InsertionPointRight
    <2>. QED
      BY <1>3, <2>1
  <1>5. PICK n : n = Len(lk.waitProcs)
    OBVIOUS
  <1>6. n \in Nat /\ DOMAIN lk.waitProcs = 1..n /\ \A j \in 1..n : lk.waitProcs[j] \in Proc
    BY <1>2, <1>5, LockFacts, ListFacts
  <1>7. CASE ~LockCheckConflicts(s, p, m)
    BY <1>2, <1>4, <1>7 DEF InTheWay
  <1>8. CASE LockCheckConflicts(s, p, m) /\ i <= n
    <2>1. ~\A j \in 1..(i - 1) : proc[s.waitProcs[j]].waitLockMode \notin conflictTab(m)
      BY <1>3, <1>5, <1>8 DEF GrantInFront
    <2>2. PICK j \in 1..(i - 1) : proc[lk.waitProcs[j]].waitLockMode \in conflictTab(m)
      BY <1>3, <2>1
    <2>3. lk.waitProcs[j] \in Proc
      BY <1>4, <1>5, <1>6, <1>8, <2>2
    <2>4. WaitMode[lk.waitProcs[j]] \in conflictTab(m)
      BY <2>2, <2>3 DEF WaitMode
    <2>. QED
      BY <1>4, <2>4 DEF InTheWay
  <1>9. CASE LockCheckConflicts(s, p, m) /\ ~(i <= n)
    <2>1. i = n + 1
      BY <1>4, <1>5, <1>6, <1>9
    <2>2. conflictTab(m) \cap s.waitMask # {}
      BY <1>9 DEF Available
    <2>3. PICK k : k \in conflictTab(m) /\ k \in lk.waitMask
      BY <1>3, <2>2
    <2>4. k \in LockMode
      BY <2>3 DEF conflictTab
    <2>5. CountsRight(lk, WaitMode)
      BY <1>2 DEF LockRight
    <2>6. PICK q \in Proc : Waits(lk, q) /\ WaitMode[q] = k
      BY <2>3, <2>4, <2>5, WaitMaskMeans
    <2>7. PICK j \in 1..n : lk.waitProcs[j] = q
      BY <1>2, <1>5, <2>6, LockFacts, ListFacts DEF Waits
    <2>8. j \in 1..(i - 1)
      BY <1>6, <2>1
    <2>. QED
      BY <1>4, <2>3, <2>6, <2>7, <2>8 DEF InTheWay
  <1>. QED
    BY <1>7, <1>8, <1>9

\* Joining the queue keeps the invariant.
LEMMA JoinRight ==
  ASSUME IInv, NEW p \in Proc, at[p] = "table", ~Available(p), NEW l, l = call[p].lock, NEW m, m = call[p].mode,
         NEW s, s = Requested(p), NEW i, i = InsertionPoint(s, p), ~GrantInFront(s, p, m),
         NEW r, r = JoinedAt(s, p, m, i), SetLock(l, r), Waiting(p, l, m, s.holdMask[p]), NEW check \in BOOLEAN,
         SleepsNow(p, check), LocalSame, RestSame
  PROVE  IInv'
  <1>1. PICK lk : lk = lock[l]
    OBVIOUS
  <1>2. /\ l \in Lock /\ m \in LockMode /\ ~Waits(lk, p) /\ m \notin lk.holdMask[p]
        /\ lk \in LOCK /\ LockRight(lk, WaitMode) /\ AllBlocked(lk, WaitMode)
        /\ s = SetupLockInTable(lk, p, m) /\ KeptHolders(lk, s) /\ proc[p].waitLock = NULL
    BY <1>1, RequestRight
  <1>3. i \in 1..(Len(lk.waitProcs) + 1) /\ InTheWay(lk, p, m, i)
    BY <1>1, InTheWayRight
  <1>4. r = QueuedAt(lk, p, m, i)
    BY <1>2 DEF QueuedAt, JoinedAt
  <1>5. /\ TypeOK /\ LocksRight /\ CallRight(p) /\ EntryRight(p) /\ WaitRight(p) /\ FastRight(p) /\ BeliefRight(p) /\ Closed(p)
    BY Parts
  <1>6. PICK new : new = [waitLock |-> l, waitLockMode |-> m, waitStatus |-> "WAITING", heldLocks |-> s.holdMask[p]]
    OBVIOUS
  <1>7. /\ proc' \in [Proc -> PROC] /\ proc'[p] = new /\ \A q \in Proc : q # p => proc'[q] = proc[q]
        /\ new.waitLock = l /\ new.waitLockMode = m /\ new.waitStatus = "WAITING"
    <2>1. s.holdMask[p] \subseteq LockMode
      BY <1>2, LockFacts DEF KeptHolders
    <2>2. new \in PROC /\ new.waitLock = l /\ new.waitLockMode = m /\ new.waitStatus = "WAITING"
      BY <1>2, <1>6, <2>1 DEF PROC
    <2>3. proc' = [proc EXCEPT ![p] = new] /\ proc \in [Proc -> PROC]
      BY <1>5, <1>6 DEF Waiting, TypeOK, PROC
    <2>. QED
      BY <2>2, <2>3
  <1>8. PICK w : w = WaitMode'
    OBVIOUS
  <1>9. w[p] = m /\ \A q \in Proc : q # p => w[q] = WaitMode[q]
    BY <1>7, <1>8 DEF WaitMode
  <1>10. \A q \in Proc : Waits(lk, q) => w[q] = WaitMode[q]
    BY <1>2, <1>9
  <1>11. /\ LockRight(r, w) /\ r.holdMask = lk.holdMask /\ r.releaseMask = lk.releaseMask
         /\ \A q \in Proc : Waits(r, q) <=> Waits(lk, q) \/ q = p
    BY <1>2, <1>3, <1>4, <1>9, <1>10, RequestQueued
  <1>12. AllBlocked(r, w)
    BY <1>2, <1>3, <1>4, <1>9, QueueRight
  <1>13. lock' = [l2 \in Lock |-> lock'[l2]] /\ lock'[l] = r /\ \A l2 \in Lock : l2 # l => lock'[l2] = lock[l2]
    BY <1>2, <1>5 DEF SetLock, TypeOK
  <1>14. \A l2 \in Lock : ~Waits(lock[l2], p)
    BY NotWaiting
  <1>15. LocksRight'
    <2>. SUFFICES ASSUME NEW l2 \in Lock
                  PROVE  LockRight(lock'[l2], w) /\ AllBlocked(lock'[l2], w)
      BY <1>8 DEF LocksRight
    <2>1. CASE l2 = l
      BY <1>11, <1>12, <1>13, <2>1
    <2>2. CASE l2 # l
      <3>1. PICK k : k = lock[l2]
        OBVIOUS
      <3>2. LockRight(k, WaitMode) /\ AllBlocked(k, WaitMode) /\ k \in LOCK
        BY <1>5, <3>1 DEF LocksRight, TypeOK
      <3>3. \A q \in Proc : Waits(k, q) => w[q] = WaitMode[q]
        BY <1>9, <1>14, <3>1
      <3>. QED
        BY <1>13, <2>2, <3>1, <3>2, <3>3, SameModes, SameBlocked
    <2>. QED
      BY <2>1, <2>2
  <1>16. /\ \A l2 \in Lock : lock'[l2].holdMask = lock[l2].holdMask /\ lock'[l2].releaseMask = lock[l2].releaseMask
         /\ \A q \in Proc, l2 \in Lock : Waits(lock'[l2], q) <=> Waits(lock[l2], q) \/ (q = p /\ l2 = l)
    BY <1>1, <1>11, <1>13
  <1>17. /\ strongCount' = strongCount /\ fpLockBits' = fpLockBits /\ FastPathLocalUseCount' = FastPathLocalUseCount
         /\ nextProc' = nextProc /\ calls' = calls
         /\ locallock' = locallock /\ StrongLockInProgress' = StrongLockInProgress /\ call' = call
    BY DEF RestSame, LocalSame
  <1>18. \A q \in Proc : q # p => Unmoved(q)
    BY <1>7, <1>16, <1>17 DEF Unmoved
  <1>19. at' \in [Proc -> PLACE] /\ at'[p] = "sleep" /\ deadlockTimer' \in [Proc -> BOOLEAN] /\ \A q \in Proc : q # p => at'[q] = at[q]
    BY <1>5 DEF SleepsNow, TypeOK, PLACE
  <1>20. CountRight' /\ strongCount' \in [DOMAIN strongCount' -> Nat]
    BY <1>17, CountSame
  <1>21. TypeOK'
    <2>1. lock' \in [Lock -> LOCK]
      BY <1>13, <1>15, LocksTyped
    <2>. QED
      BY <1>5, <1>7, <1>17, <1>19, <1>20, <2>1 DEF TypeOK, PLACE, PROC
  <1>22. CallRight(p)'
    BY <1>5, <1>17, <1>19 DEF CallRight
  <1>23. EntryRight(p)'
    BY <1>5, <1>17, <1>19 DEF EntryRight, Active, Releasing
  <1>24. WaitRight(p)'
    BY <1>2, <1>7, <1>14, <1>16, <1>17, <1>19, LockTableAssumption DEF WaitRight
  <1>25. FastRight(p)'
    BY <1>5, <1>16, <1>17 DEF FastRight, Hold
  <1>26. BeliefRight(p)'
    BY <1>5, <1>7, <1>16, <1>17, <1>19 DEF BeliefRight, Held, Hold, Marked, Releasing
  <1>27. ProcRight(p)'
    BY <1>22, <1>23, <1>24, <1>25, <1>26 DEF ProcRight
  <1>28. Closed(p)'
    BY <1>5, <1>17, <1>19 DEF Closed
  <1>29. OthersFine(p) /\ FastShrinks
    BY <1>17, <1>18, <1>19 DEF OthersFine, Mine, FastShrinks
  <1>30. \A q \in Proc : NewSafe(q)
    BY <1>16, <1>17 DEF NewSafe, Held
  <1>31. Active(p)
    BY DEF Active, Releasing
  <1>. QED
    BY <1>15, <1>20, <1>21, <1>27, <1>28, <1>29, <1>30, <1>31, Finish

\* ProcSleep keeps the invariant.
LEMMA ProcSleepRight ==
  ASSUME IInv, NEW p \in Proc, ProcSleep(p)
  PROVE  IInv'
  <1>1. PICK l : l = call[p].lock
    OBVIOUS
  <1>2. PICK m : m = call[p].mode
    OBVIOUS
  <1>3. PICK s : s = Requested(p)
    OBVIOUS
  <1>4. PICK i : i = InsertionPoint(s, p)
    OBVIOUS
  <1>5. PICK queued : queued = JoinedAt(s, p, m, i)
    OBVIOUS
  <1>6. PICK r : r = WithoutWaiter(queued, p, m)
    OBVIOUS
  <1>7. at[p] = "table" /\ ~Available(p) /\ RestSame
    BY DEF ProcSleep, RestSame, fastVars
  <1>8. \/ SetLock(l, r) /\ OthersWoken(p, s, r) /\ FailsNow(p) /\ deadlockTimer' = deadlockTimer /\ LocalSame
        \/ GrantNow(p)
        \/ /\ ~GrantInFront(s, p, m) /\ SetLock(l, queued) /\ Waiting(p, l, m, s.holdMask[p])
           /\ SleepsNow(p, MustCheck(s)) /\ LocalSame
    BY <1>1, <1>2, <1>3, <1>4, <1>5, <1>6, <1>7
    DEF ProcSleep, OthersWoken, JoinedAt, FailsNow, Goto, LocalSame, localVars, GrantNow, GrantInFront, Waiting, SleepsNow
  <1>9. MustCheck(s) \in BOOLEAN
    BY DEF MustCheck
  <1>. QED
    BY <1>1, <1>2, <1>3, <1>4, <1>5, <1>6, <1>7, <1>8, <1>9, EarlyDeadlockRight, GrantNowRight, JoinRight

\* LockErrorCleanup of a backend that nobody lets wait any more.
LEMMA RememberRight ==
  ASSUME IInv, NEW p \in Proc, at[p] = "cleanup", proc[p].waitLock = NULL, RememberGrant(p), FailsNow(p),
         lock' = lock, proc' = proc, RestSame,
         StrongLockInProgress' = StrongLockInProgress, call' = call, deadlockTimer' = deadlockTimer
  PROVE  IInv'
  <1>1. PICK l : l = call[p].lock
    OBVIOUS
  <1>2. PICK m : m = call[p].mode
    OBVIOUS
  <1>3. /\ strongCount' = strongCount /\ fpLockBits' = fpLockBits /\ FastPathLocalUseCount' = FastPathLocalUseCount
        /\ nextProc' = nextProc /\ calls' = calls
    BY DEF RestSame
  <1>4. /\ TypeOK /\ locallock \in LOCALS /\ CallRight(p) /\ EntryRight(p) /\ WaitRight(p) /\ FastRight(p) /\ BeliefRight(p)
        /\ Closed(p)
    BY Parts
  <1>5. PICK e : e = locallock[p][l][m]
    OBVIOUS
  <1>6. /\ l \in Lock /\ m \in LockMode /\ e.nLocks = 0 /\ ~e.strong /\ calls[p] > 0 /\ ~StrongLockInProgress[p]
    BY <1>1, <1>2, <1>4, <1>5 DEF CallRight
  <1>7. e \in ENTRY /\ e.nLocks \in Nat /\ e.strong \in BOOLEAN /\ e.fast \in BOOLEAN /\ e.exists \in BOOLEAN
    BY <1>5, <1>6, EntryTyped
  <1>8. LocksRight' /\ \A h \in Proc : Unmoved(h)
    BY <1>3, SameLocks
  <1>9. \A h \in Proc : NewSafe(h)
    BY <1>8, OldSafe
  <1>10. at' \in [Proc -> PLACE] /\ at'[p] = "abort" /\ \A q \in Proc : q # p => at'[q] = at[q]
    BY <1>4 DEF FailsNow, TypeOK, PLACE
  <1>11. proc[p].waitStatus # "WAITING" /\ (proc[p].waitStatus = "OK" => m \in Hold(p, l))
    BY <1>1, <1>2, <1>4 DEF WaitRight
  <1>12. /\ locallock' \in LOCALS /\ CountRight' /\ strongCount' \in [DOMAIN strongCount' -> Nat]
         /\ \A q \in Proc : q # p => locallock'[q] = locallock[q]
         /\ \A l2 \in Lock, m2 \in LockMode : locallock'[p][l2][m2] = locallock[p][l2][m2] \/ (l2 = l /\ m2 = m)
         /\ ~locallock'[p][l][m].strong
         /\ locallock'[p][l][m].nLocks > 0 => locallock'[p][l][m].exists /\ m \in Hold(p, l)
         /\ proc[p].waitStatus = "OK" => locallock'[p][l][m].nLocks > 0
    <2>1. CASE proc[p].waitStatus # "OK"
      <3>1. locallock' = locallock
        BY <2>1 DEF RememberGrant
      <3>. QED
        BY <1>3, <1>4, <1>5, <1>6, <2>1, <3>1, CountSame
    <2>2. CASE proc[p].waitStatus = "OK"
      <3>1. PICK new : new = [nLocks |-> e.nLocks + 1, strong |-> e.strong, fast |-> FALSE, exists |-> TRUE]
        OBVIOUS
      <3>2. locallock' = [locallock EXCEPT ![p][l][m] =
                    [nLocks |-> @.nLocks + 1, strong |-> @.strong, fast |-> FALSE, exists |-> TRUE]]
        BY <1>1, <1>2, <2>2 DEF RememberGrant, GrantLockLocal
      <3>3. SetEntry(p, l, m, new)
        BY <1>4, <1>5, <1>6, <3>1, <3>2 DEF SetEntry, LOCALS
      <3>4. new \in ENTRY /\ new.nLocks = 1 /\ new.strong = e.strong /\ new.fast = FALSE /\ new.exists = TRUE
        BY <1>6, <1>7, <3>1 DEF ENTRY
      <3>5. EntryBecomes(p, l, m, 1, e.strong, FALSE, TRUE)
        BY <1>4, <1>6, <3>3, <3>4, EntrySet
      <3>6. One(e.strong) - One(e.strong) = 0
        BY <1>7 DEF One
      <3>7. CountMoved(HashPartition[l], 0)
        BY <1>3, CountStays
      <3>8. CountRight' /\ strongCount' \in [DOMAIN strongCount' -> Nat]
        BY <1>5, <1>6, <1>7, <3>5, <3>6, <3>7, CountKept
      <3>. QED
        BY <1>6, <1>11, <2>2, <3>5, <3>8 DEF EntryBecomes
    <2>. QED
      BY <2>1, <2>2
  <1>13. TypeOK'
    BY <1>3, <1>4, <1>10, <1>12 DEF TypeOK, PLACE, LOCALS, ENTRY
  <1>14. CallRight(p)'
    BY <1>3, <1>6, <1>10 DEF CallRight
  <1>15. EntryRight(p)'
    BY <1>4, <1>10, <1>12 DEF EntryRight, Active
  <1>16. WaitRight(p)'
    BY <1>4, <1>10 DEF WaitRight, Hold
  <1>17. FastRight(p)'
    <2>1. m \notin fpLockBits[p][l]
      BY <1>4, <1>5, <1>6 DEF FastRight
    <2>2. \A l2 \in Lock, k \in LockMode : k \in fpLockBits[p][l2] =>
             Eligible(l2, k) /\ locallock'[p][l2][k].nLocks > 0 /\ locallock'[p][l2][k].fast /\ k \notin Hold(p, l2)
      BY <1>4, <1>12, <2>1 DEF FastRight
    <2>. QED
      BY <1>3, <1>4, <2>2 DEF FastRight, Hold
  <1>18. BeliefRight(p)'
    <2>1. ~Releasing(p)
      BY DEF Releasing
    <2>2. \A l2 \in Lock, k \in LockMode : k \notin Marked(p, l2)
      BY <1>4, <2>1 DEF BeliefRight
    <2>3. \A l2 \in Lock, k \in LockMode : /\ locallock'[p][l2][k].nLocks > 0 => k \in Held(p, l2)
                                           /\ k \in Held(p, l2) => locallock'[p][l2][k].nLocks > 0
      <3>. SUFFICES ASSUME NEW l2 \in Lock, NEW k \in LockMode
                    PROVE  /\ locallock'[p][l2][k].nLocks > 0 => k \in Held(p, l2)
                           /\ k \in Held(p, l2) => locallock'[p][l2][k].nLocks > 0
        OBVIOUS
      <3>1. CASE l2 = l /\ k = m
        BY <1>4, <1>5, <1>6, <1>7, <1>12, <2>1, <3>1 DEF BeliefRight, Held, Hold
      <3>2. CASE ~(l2 = l /\ k = m)
        BY <1>1, <1>2, <1>4, <1>12, <2>1, <3>2 DEF BeliefRight
      <3>. QED
        BY <3>1, <3>2
    <2>4. \A l2 \in Lock : Held(p, l2)' = Held(p, l2) /\ Marked(p, l2)' = Marked(p, l2)
      BY <1>3 DEF Held, Marked
    <2>. QED
      BY <2>2, <2>3, <2>4 DEF BeliefRight
  <1>19. ProcRight(p)'
    BY <1>14, <1>15, <1>16, <1>17, <1>18 DEF ProcRight
  <1>20. Closed(p)'
    BY <1>3, <1>4, <1>10, <1>12 DEF Closed
  <1>21. OthersFine(p) /\ FastShrinks
    <2>1. Mine(p)
      BY <1>3, <1>10, <1>12 DEF Mine
    <2>. QED
      BY <1>3, <1>8, <2>1 DEF OthersFine, FastShrinks
  <1>22. ~Active(p)'
    BY <1>10 DEF Active
  <1>. QED
    BY <1>8, <1>9, <1>12, <1>13, <1>19, <1>20, <1>21, <1>22, Finish

\* LockErrorCleanup keeps the invariant.
LEMMA LockErrorCleanupRight ==
  ASSUME IInv, NEW p \in Proc, LockErrorCleanup(p)
  PROVE  IInv'
  <1>1. /\ at[p] = "cleanup" /\ FailsNow(p) /\ RestSame /\ fpLockBits' = fpLockBits
        /\ StrongLockInProgress' = StrongLockInProgress /\ call' = call /\ deadlockTimer' = deadlockTimer
    BY DEF LockErrorCleanup, Goto, FailsNow, RestSame, fastVars, stackVars
  <1>2. CASE proc[p].waitLock = NULL
    <2>1. RememberGrant(p) /\ lock' = lock /\ proc' = proc
      BY <1>2 DEF LockErrorCleanup
    <2>. QED
      BY <1>1, <1>2, <2>1, RememberRight
  <1>3. CASE proc[p].waitLock # NULL
    <2>1. RemoveFromWaitQueue(p) /\ locallock' = locallock
      BY <1>3 DEF LockErrorCleanup
    <2>2. PICK l : l = proc[p].waitLock
      OBVIOUS
    <2>3. l \in Lock /\ TakenOff(p, l)
      BY <1>1, <1>3, <2>1, <2>2, RemoveRight
    <2>4. at \in [Proc -> PLACE] /\ deadlockTimer \in [Proc -> BOOLEAN]
      BY DEF IInv, TypeOK, PLACE
    <2>5. at' \in [Proc -> PLACE] /\ at'[p] = "abort" /\ \A q \in Proc : q # p => at'[q] = at[q]
      BY <2>4, <1>1 DEF PLACE, FailsNow
    <2>6. Refused(p, l)
      BY <1>1, <1>3, <2>1, <2>3, <2>4, <2>5 DEF Refused, TakenOff
    <2>. QED
      BY <2>3, <2>6, RefusedRight
  <1>. QED
    BY <1>2, <1>3

-----------------------------------------------------------------------------
(* The deadlock detector.                                                  *)

\* The queues are rearranged and looked at; all else is as it was.
Reordered(p) ==
  /\ SettleStep(0, [l \in Lock |-> {}]) /\ lock' = [l \in Lock |-> lock'[l]] /\ proc' = [q \in Proc |-> proc'[q]]
  /\ deadlockTimer' \in [Proc -> BOOLEAN] /\ at' = at /\ LocalSame /\ RestSame

\* Everybody has the locks it had, or one that it waited for.
LEMMA ReorderedRight ==
  ASSUME IInv, NEW p \in Proc, Reordered(p)
  PROVE  IInv'
  <1>1. PICK freed : freed = [l \in Lock |-> {}]
    OBVIOUS
  <1>2. /\ SettleStep(0, freed) /\ lock' = [l \in Lock |-> lock'[l]] /\ proc' = [q \in Proc |-> proc'[q]]
        /\ deadlockTimer' \in [Proc -> BOOLEAN] /\ at' = at
        /\ locallock' = locallock /\ StrongLockInProgress' = StrongLockInProgress /\ call' = call
        /\ strongCount' = strongCount /\ fpLockBits' = fpLockBits /\ FastPathLocalUseCount' = FastPathLocalUseCount
        /\ nextProc' = nextProc /\ calls' = calls
    BY <1>1 DEF Reordered, LocalSame, RestSame
  <1>3. TypeOK /\ Closed(p)
    BY Parts
  <1>4. \A q \in Proc : q # 0
    BY LockTableAssumption DEF Proc
  <1>5. LocksRight'
    BY <1>2, SettledLocks
  <1>6. \A q \in Proc : Unmoved(q) \/ WokenNow(q)
    BY <1>2, <1>4, SettledOthers
  <1>7. FastShrinks
    BY <1>2 DEF FastShrinks
  <1>8. \A q \in Proc : Active(q)' => NewSafe(q)
    BY <1>2, <1>4, <1>7, SettledSafe
  <1>9. Mine(0) /\ OthersFine(p)
    BY <1>2, <1>6 DEF Mine, OthersFine
  <1>10. ProcRight(p)'
    <2>1. ProcRight(p)
      BY DEF IInv
    <2>2. p # 0
      BY <1>4
    <2>. QED
      BY <1>3, <1>6, <1>9, <2>1, <2>2, UnmovedRight, WokenRight
  <1>11. Closed(p)'
    BY <1>2, <1>3 DEF Closed
  <1>12. CountRight' /\ strongCount' \in [DOMAIN strongCount' -> Nat]
    BY <1>2, CountSame
  <1>13. proc' \in [Proc -> PROC]
    <2>1. \A q \in Proc : proc[q] \in PROC
      BY <1>3, TypeFacts
    <2>2. OffQueue("OK") \in PROC
      BY DEF OffQueue, PROC
    <2>3. \A q \in Proc : proc'[q] \in PROC
      BY <1>6, <2>1, <2>2 DEF Unmoved, WokenNow
    <2>. QED
      BY <1>2, <2>3
  <1>14. TypeOK'
    <2>1. lock' \in [Lock -> LOCK]
      BY <1>2, <1>5, LocksTyped
    <2>. QED
      BY <1>2, <1>3, <1>12, <1>13, <2>1 DEF TypeOK, PROC
  <1>15. Active(p)' => Active(p)
    BY <1>2 DEF Active, Releasing
  <1>. QED
    BY <1>5, <1>7, <1>8, <1>9, <1>10, <1>11, <1>12, <1>14, <1>15, Finish

\* The detector finds no deadlock.
NoDeadlock(p, after) ==
  lock' = after /\ proc' = ProcWakeup(UNION {Woken(lock[l], after[l]) : l \in Lock})

\* The detector finds the lock table in order.
LEMMA DetectorRight ==
  ASSUME IInv
  PROVE  DetectorTyped
  <1>1. TypeOK /\ LocksRight
    BY DEF IInv
  <1>2. \A l \in Lock : lock[l].waitProcs \in Seq(Proc) /\ lock[l].procLocks \in Seq(Proc)
    <2>1. \A l \in Lock : lock[l] \in LOCK
      BY <1>1 DEF TypeOK
    <2>. QED
      BY <2>1, LockFacts
  <1>3. \A q \in Proc : proc[q].waitLock \in Lock \cup {NULL}
    BY <1>1 DEF TypeOK
  <1>4. \A l \in Lock : /\ Distinct(lock[l].waitProcs)
                         /\ \A r \in Proc : lock[l].holdMask[r] # {} => r \in ToSet(lock[l].procLocks)
    BY <1>1 DEF LocksRight, LockRight, CountsRight
  <1>. QED
    BY <1>2, <1>3, <1>4 DEF DetectorTyped

\* The constraints of a verdict that is not a deadlock.
LEMMA ConstraintsRight ==
  ASSUME IInv, NEW p \in Proc, NEW result, result = DeadLockCheckRecurse(p), ~result.deadlock
  PROVE  result.constraints \in Seq(Edge) /\ Good(result.constraints, p)
  <1>1. result \in VERDICT(p)
    BY DetectorRight, DeadLockCheckRight
  <1>. QED
    BY <1>1 DEF VERDICT

\* The queues that DeadLockCheck has rearranged are in order.
LEMMA NoDeadlockRight ==
  ASSUME IInv, NEW p \in Proc, NEW result, result = DeadLockCheckRecurse(p), ~result.deadlock,
         NEW after, after = Rearranged(result.constraints), NoDeadlock(p, after),
         deadlockTimer' \in [Proc -> BOOLEAN], at' = at, LocalSame, RestSame
  PROVE  IInv'
  <1>1. TypeOK /\ LocksRight
    BY Parts
  <1>3. SelfConsistent(ExpandConstraints(result.constraints))
    BY ConstraintsRight DEF Good
  <1>4. \A l \in Lock : Settled(lock[l], after[l], 0, {}) /\ after[l].releaseMask = lock[l].releaseMask
    <2>. SUFFICES ASSUME NEW l \in Lock
                  PROVE  Settled(lock[l], after[l], 0, {}) /\ after[l].releaseMask = lock[l].releaseMask
      OBVIOUS
    <2>1. \A l2 \in Lock : LockRight(lock[l2], WaitMode) /\ AllBlocked(lock[l2], WaitMode)
      BY <1>1 DEF LocksRight
    <2>2. PICK c : c = result.constraints
      OBVIOUS
    <2>3. PICK r : r = Rearranged(c)[l]
      OBVIOUS
    <2>4. SelfConsistent(ExpandConstraints(c))
      BY <1>3, <2>2
    <2>5. Settled(lock[l], r, 0, {}) /\ r.releaseMask = lock[l].releaseMask
      BY <2>1, <2>3, <2>4, RearrangedRight
    <2>6. r = after[l]
      BY <2>2, <2>3
    <2>. QED
      BY <2>5, <2>6
  <1>5. lock' = after /\ lock' = [l \in Lock |-> lock'[l]]
    BY DEF NoDeadlock, Rearranged
  <1>6. \A l \in Lock : ~Waits(after[l], 0)
    <2>. SUFFICES ASSUME NEW l \in Lock, Waits(after[l], 0)
                  PROVE  FALSE
      OBVIOUS
    <2>1. after[l] \in LOCK
      BY <1>4 DEF Settled, LockRight, CountsRight
    <2>2. ToSet(after[l].waitProcs) \subseteq Proc
      BY <2>1, LockFacts, ListFacts
    <2>3. 0 \notin Proc
      BY LockTableAssumption DEF Proc
    <2>. QED
      BY <2>2, <2>3 DEF Waits
  <1>7. PICK W : W = UNION {Woken(lock[l], after[l]) : l \in Lock}
    OBVIOUS
  <1>8. \A q : q \in W <=> \E l \in Lock : Waits(lock[l], q) /\ ~Waits(after[l], q)
    <2>1. \A q : q \in W <=> \E l \in Lock : q \in Woken(lock[l], after[l])
      BY <1>7
    <2>. QED
      BY <2>1, WokenMeans
  <1>9. \A q \in Proc : proc'[q] = IF q \in W THEN OffQueue("OK") ELSE proc[q]
    BY <1>7 DEF NoDeadlock, ProcWakeup
  <1>10. proc' = [q \in Proc |-> proc'[q]]
    BY DEF NoDeadlock, ProcWakeup
  <1>11. fpLockBits' = fpLockBits
    BY DEF RestSame
  <1>12. SettleStep(0, [l \in Lock |-> {}])
    <2>1. PICK freed : freed = [l \in Lock |-> {}]
      OBVIOUS
    <2>2. \A l \in Lock : Settled(lock[l], lock'[l], 0, freed[l]) /\ ~Waits(lock'[l], 0)
      BY <1>4, <1>5, <1>6, <2>1
    <2>3. \A q \in Proc :
            /\ (\E l \in Lock : Waits(lock[l], q) /\ ~Waits(lock'[l], q)) => proc'[q] = OffQueue("OK")
            /\ (\A l \in Lock : Waits(lock[l], q) => Waits(lock'[l], q)) => proc'[q] = proc[q]
      BY <1>5, <1>8, <1>9
    <2>4. \A q \in Proc, l \in Lock : lock'[l].releaseMask[q] = lock[l].releaseMask[q]
      BY <1>4, <1>5
    <2>5. SettleStep(0, freed)
      BY <1>11, <2>2, <2>3, <2>4 DEF SettleStep
    <2>. QED
      BY <2>1, <2>5
  <1>13. Reordered(p)
    BY <1>5, <1>10, <1>12 DEF Reordered
  <1>. QED
    BY <1>13, ReorderedRight

\* A step that only sets the timer off.
LEMMA TimerOffRight ==
  ASSUME IInv, NEW p \in Proc, lock' = lock, proc' = proc, deadlockTimer' \in [Proc -> BOOLEAN], at' = at,
         LocalSame, RestSame
  PROVE  IInv'
  <1>1. TypeOK /\ LocksRight
    BY Parts
  <1>2. lock' = [l \in Lock |-> lock'[l]] /\ proc' = [q \in Proc |-> proc'[q]]
    BY <1>1 DEF TypeOK
  <1>3. SettleStep(0, [l \in Lock |-> {}])
    <2>1. PICK freed : freed = [l \in Lock |-> {}]
      OBVIOUS
    <2>2. 0 \notin Proc
      BY LockTableAssumption DEF Proc
    <2>3. \A l \in Lock : Settled(lock[l], lock'[l], 0, freed[l])
      BY <1>1, <2>1 DEF LocksRight, Settled
    <2>4. \A l \in Lock : ~Waits(lock'[l], 0)
      <3>1. \A l \in Lock : lock[l] \in LOCK
        BY <1>1 DEF TypeOK
      <3>2. \A l \in Lock : ToSet(lock[l].waitProcs) \subseteq Proc
        BY <3>1, LockFacts, ListFacts
      <3>. QED
        BY <2>2, <3>2 DEF Waits
    <2>5. SettleStep(0, freed)
      BY <2>3, <2>4 DEF SettleStep, RestSame
    <2>. QED
      BY <2>1, <2>5
  <1>4. Reordered(p)
    BY <1>2, <1>3 DEF Reordered
  <1>. QED
    BY <1>4, ReorderedRight

\* CheckDeadLock keeps the invariant.
LEMMA CheckDeadLockRight ==
  ASSUME IInv, NEW p \in Proc, CheckDeadLock(p)
  PROVE  IInv'
  <1>1. PICK result : result = DeadLockCheckRecurse(p)
    OBVIOUS
  <1>2. PICK after : after = Rearranged(result.constraints)
    OBVIOUS
  <1>3. /\ at[p] = "sleep" /\ deadlockTimer' = [deadlockTimer EXCEPT ![p] = FALSE] /\ at' = at
        /\ LocalSame /\ RestSame
    BY DEF CheckDeadLock, fastVars, localVars, stackVars, LocalSame, RestSame
  <1>4. \/ proc[p].waitLock = NULL /\ lock' = lock /\ proc' = proc
        \/ proc[p].waitLock # NULL /\ RemoveFromWaitQueue(p)
        \/ ~result.deadlock /\ NoDeadlock(p, after)
    BY <1>1, <1>2 DEF CheckDeadLock, NoDeadlock
  <1>5. deadlockTimer' \in [Proc -> BOOLEAN] /\ at \in [Proc -> PLACE]
    BY <1>3 DEF IInv, TypeOK, PLACE
  <1>6. CASE lock' = lock /\ proc' = proc
    BY <1>3, <1>5, <1>6, TimerOffRight
  <1>7. CASE proc[p].waitLock # NULL /\ RemoveFromWaitQueue(p)
    <2>1. PICK l : l = proc[p].waitLock
      OBVIOUS
    <2>2. fpLockBits' = fpLockBits
      BY <1>3 DEF RestSame
    <2>3. l \in Lock /\ TakenOff(p, l)
      BY <1>7, <2>1, <2>2, RemoveRight
    <2>4. Refused(p, l)
      BY <1>3, <1>5, <1>7, <2>3 DEF Refused, TakenOff, LocalSame
    <2>. QED
      BY <2>3, <2>4, RefusedRight
  <1>8. CASE ~result.deadlock /\ NoDeadlock(p, after)
    BY <1>1, <1>2, <1>3, <1>5, <1>8, NoDeadlockRight
  <1>. QED
    BY <1>4, <1>6, <1>7, <1>8

-----------------------------------------------------------------------------
(* Giving locks back.                                                      *)

\* The count of the slots in use is not too small.
SlotsKept(p) ==
  /\ FastPathLocalUseCount' \in [Proc -> 0..FP_LOCK_SLOTS_PER_BACKEND]
  /\ UsedSlots(fpLockBits'[p]) <= FastPathLocalUseCount'[p]
  /\ \A q \in Proc : q # p => FastPathLocalUseCount'[q] = FastPathLocalUseCount[q]
RecountedTo(p, n) == FastPathLocalUseCount' = [FastPathLocalUseCount EXCEPT ![p] = n]

\* It is counted again, or left as it is, when p may have fewer.
LEMMA Recount ==
  ASSUME IInv, NEW p \in Proc, FastShrinks, fpLockBits' \in [Proc -> [Lock -> SUBSET LockMode]],
         NEW n, n = UsedSlots(fpLockBits'[p]) \/ n = FastPathLocalUseCount[p], RecountedTo(p, n)
  PROVE  SlotsKept(p)
  <1>1. TypeOK /\ FastRight(p)
    BY Parts
  <1>2. PICK a : a = fpLockBits[p]
    OBVIOUS
  <1>3. PICK b : b = fpLockBits'[p]
    OBVIOUS
  <1>4. PICK c : c = FastPathLocalUseCount[p]
    OBVIOUS
  <1>5. a \in [Lock -> SUBSET LockMode] /\ b \in [Lock -> SUBSET LockMode] /\ c \in 0..FP_LOCK_SLOTS_PER_BACKEND
    BY <1>1, <1>2, <1>3, <1>4, TypeFacts
  <1>6. \A l \in Lock : b[l] \subseteq a[l]
    BY <1>2, <1>3 DEF FastShrinks
  <1>7. UsedSlots(a) \in Nat /\ UsedSlots(b) \in Nat /\ UsedSlots(b) <= UsedSlots(a)
    BY <1>5, <1>6, SlotsFacts
  <1>8. UsedSlots(a) <= c
    BY <1>1, <1>2, <1>4 DEF FastRight
  <1>9. FP_LOCK_SLOTS_PER_BACKEND \in Nat
    BY LockManagerAssumption
  <1>10. n = UsedSlots(b) \/ n = c
    BY <1>3, <1>4
  <1>11. n \in 0..FP_LOCK_SLOTS_PER_BACKEND /\ UsedSlots(b) <= n
    BY <1>5, <1>7, <1>8, <1>9, <1>10
  <1>12. FastPathLocalUseCount \in [Proc -> 0..FP_LOCK_SLOTS_PER_BACKEND]
    BY <1>1 DEF TypeOK
  <1>13. /\ FastPathLocalUseCount' \in [Proc -> 0..FP_LOCK_SLOTS_PER_BACKEND] /\ FastPathLocalUseCount'[p] = n
         /\ \A q \in Proc : q # p => FastPathLocalUseCount'[q] = FastPathLocalUseCount[q]
    BY <1>11, <1>12 DEF RecountedTo
  <1>. QED
    BY <1>3, <1>11, <1>13 DEF SlotsKept

\* p's fast-path array is without the lock.
FastLess(p, l, m) ==
  /\ fpLockBits' \in [Proc -> [Lock -> SUBSET LockMode]]
  /\ \A q \in Proc : q # p => fpLockBits'[q] = fpLockBits[q]
  /\ \A l2 \in Lock, k \in LockMode : k \in fpLockBits'[p][l2] <=> k \in fpLockBits[p][l2] /\ ~(l2 = l /\ k = m)

\* FastPathUnGrantRelationLock.
LEMMA FastGiven ==
  ASSUME IInv, NEW p \in Proc, NEW l \in Lock, NEW m \in LockMode, FastPathUnGrant(p, l, m)
  PROVE  SlotsKept(p) /\ FastShrinks /\ FastLess(p, l, m)
  <1>1. fpLockBits \in [Proc -> [Lock -> SUBSET LockMode]] /\ fpLockBits' = [fpLockBits EXCEPT ![p][l] = @ \ {m}]
    BY DEF IInv, TypeOK, FastPathUnGrant
  <1>2. fpLockBits'[p] = [fpLockBits[p] EXCEPT ![l] = @ \ {m}]
    BY <1>1
  <1>3. PICK n : n = UsedSlots(fpLockBits'[p])
    OBVIOUS
  <1>4. RecountedTo(p, n)
    BY <1>2, <1>3 DEF RecountedTo, FastPathUnGrant
  <1>5. FastLess(p, l, m)
    BY <1>1 DEF FastLess
  <1>6. FastShrinks
    BY <1>1 DEF FastShrinks
  <1>7. fpLockBits' \in [Proc -> [Lock -> SUBSET LockMode]]
    BY <1>5 DEF FastLess
  <1>. QED
    BY <1>3, <1>4, <1>5, <1>6, <1>7, Recount

\* The table is in order, and p has all its locks in it but some modes of one.
TableLess(p, l, modes) ==
  /\ LocksRight' /\ lock' \in [Lock -> LOCK] /\ proc' \in [Proc -> PROC] /\ proc'[p] = proc[p]
  /\ \A q \in Proc : q # p => Unmoved(q) \/ WokenNow(q)
  /\ \A q \in Proc : q # p /\ Active(q)' => NewSafe(q)
  /\ \A l2 \in Lock : \A k : k \in Hold(p, l2)' <=> k \in Hold(p, l2) /\ ~(l2 = l /\ k \in modes)
  /\ \A l2 \in Lock : ~Waits(lock'[l2], p)

\* Modes are released, and the waiters looked at.
LEMMA ReleasedInTable ==
  ASSUME IInv, NEW p \in Proc, NEW l \in Lock, NEW modes, NEW r, Settled(lock[l], r, p, modes), Grants(l, r),
         \A q \in Proc : q # p => r.releaseMask[q] = lock[l].releaseMask[q],
         \A l2 \in Lock : ~Waits(lock[l2], p), fpLockBits' = fpLockBits,
         \A q \in Proc : q # p => at'[q] = at[q]
  PROVE  TableLess(p, l, modes) /\ lock'[l] = r /\ \A l2 \in Lock : l2 # l => lock'[l2] = lock[l2]
  <1>1. SetLock(l, r) /\ proc' = ProcWakeup(Woken(lock[l], r)) /\ TypeOK
    BY DEF Grants, IInv
  <1>2. ~Waits(r, p)
    BY DEF Settled
  <1>3. \A q \in Proc : q # p =>
           /\ r.releaseMask[q] = lock[l].releaseMask[q] /\ fpLockBits'[q] = fpLockBits[q]
           /\ proc'[q] = ProcWakeup(Woken(lock[l], r))[q]
    BY <1>1
  <1>4. OneSettled(p, l, modes) /\ lock' = [l2 \in Lock |-> lock'[l2]]
    BY <1>1, <1>2, <1>3, SettledOnce
  <1>5. FastShrinks
    BY DEF FastShrinks
  <1>6. /\ LocksRight'
        /\ \A q \in Proc : q # p => Unmoved(q) \/ WokenNow(q)
        /\ \A q \in Proc : q # p /\ Active(q)' => NewSafe(q)
        /\ \A l2 \in Lock : \A k : k \in Hold(p, l2)' <=> k \in Hold(p, l2) /\ ~(l2 = l /\ k \in modes)
        /\ \A l2 \in Lock : ~Waits(lock'[l2], p)
    BY <1>4, <1>5, OneSettledRight
  <1>7. lock' \in [Lock -> LOCK]
    BY <1>4, <1>6, LocksTyped
  <1>8. proc'[p] = proc[p]
    <2>1. p \notin Woken(lock[l], r)
      BY WokenMeans
    <2>. QED
      BY <1>1, <2>1 DEF ProcWakeup
  <1>9. proc' \in [Proc -> PROC]
    <2>1. \A q \in Proc : proc[q] \in PROC
      BY <1>1, TypeFacts
    <2>2. OffQueue("OK") \in PROC
      BY DEF OffQueue, PROC
    <2>3. \A q \in Proc : proc'[q] \in PROC
      BY <1>6, <1>8, <2>1, <2>2 DEF Unmoved, WokenNow
    <2>4. proc' = [q \in Proc |-> proc'[q]]
      BY <1>1 DEF ProcWakeup
    <2>. QED
      BY <2>3, <2>4
  <1>10. lock'[l] = r /\ \A l2 \in Lock : l2 # l => lock'[l2] = lock[l2]
    BY <1>1 DEF SetLock, TypeOK
  <1>. QED
    BY <1>6, <1>7, <1>8, <1>9, <1>10 DEF TableLess

\* A lock that is given back in the table.
LEMMA GivenBack ==
  ASSUME IInv, NEW p \in Proc, NEW l \in Lock, NEW m \in LockMode, m \in Hold(p, l), m \notin Marked(p, l),
         Grants(l, ReleaseMode(lock[l], p, m)), \A l2 \in Lock : ~Waits(lock[l2], p), fpLockBits' = fpLockBits,
         \A q \in Proc : q # p => at'[q] = at[q]
  PROVE  TableLess(p, l, {m}) /\ \A l2 \in Lock : Marked(p, l2)' = Marked(p, l2)
  <1>1. PICK r : r = ReleaseMode(lock[l], p, m)
    OBVIOUS
  <1>2. LockRight(lock[l], WaitMode) /\ AllBlocked(lock[l], WaitMode)
    BY DEF IInv, LocksRight
  <1>3. Settled(lock[l], r, p, {m}) /\ r.releaseMask = lock[l].releaseMask
    BY <1>1, <1>2, ReleaseModeRight DEF Hold, Marked
  <1>4. Grants(l, r)
    BY <1>1
  <1>5. TableLess(p, l, {m}) /\ lock'[l] = r /\ \A l2 \in Lock : l2 # l => lock'[l2] = lock[l2]
    BY <1>3, <1>4, ReleasedInTable
  <1>6. \A l2 \in Lock : lock'[l2].releaseMask = lock[l2].releaseMask
    BY <1>3, <1>5
  <1>. QED
    BY <1>5, <1>6 DEF Marked

\* What LockRelease leaves alone.
ReleaseSame ==
  StrongLockInProgress' = StrongLockInProgress /\ deadlockTimer' = deadlockTimer /\ nextProc' = nextProc /\ calls' = calls

\* One use less of a lock that the transaction goes on using.
LEMMA ReleaseOnceRight ==
  ASSUME IInv, NEW p \in Proc, NEW l \in Lock, NEW m \in LockMode, locallock[p][l][m].nLocks > 1,
         NEW e, e = locallock[p][l][m], NEW new, new = [e EXCEPT !.nLocks = @ - 1], SetEntry(p, l, m, new),
         lock' = lock, proc' = proc, RestSame, ReleaseSame, at' = at, call' = call, at[p] = "run"
  PROVE  IInv'
  <1>1. /\ strongCount' = strongCount /\ fpLockBits' = fpLockBits
        /\ FastPathLocalUseCount' = FastPathLocalUseCount /\ StrongLockInProgress' = StrongLockInProgress
        /\ deadlockTimer' = deadlockTimer /\ nextProc' = nextProc /\ calls' = calls
    BY DEF RestSame, ReleaseSame
  <1>2. TypeOK /\ e \in ENTRY /\ e.nLocks \in Nat /\ e.strong \in BOOLEAN /\ e.fast \in BOOLEAN /\ e.exists \in BOOLEAN
    BY EntryTyped, Parts
  <1>3. locallock \in LOCALS
    BY Parts
  <1>4. EntryBecomes(p, l, m, e.nLocks - 1, e.strong, e.fast, e.exists)
    <2>1. /\ new \in ENTRY /\ new.nLocks = e.nLocks - 1 /\ new.strong = e.strong /\ new.fast = e.fast
          /\ new.exists = e.exists
      BY <1>2 DEF ENTRY
    <2>. QED
      BY <1>3, <2>1, EntrySet
  <1>5. Mine(p)
    BY <1>1, <1>4 DEF Mine, EntryBecomes
  <1>6. LocksRight' /\ \A q \in Proc : Unmoved(q)
    BY <1>1, SameLocks
  <1>7. CountRight' /\ strongCount' \in [DOMAIN strongCount' -> Nat]
    <2>1. One(e.strong) - One(e.strong) = 0
      BY <1>2 DEF One
    <2>2. CountMoved(HashPartition[l], 0)
      BY <1>1, CountStays
    <2>. QED
      BY <1>2, <1>4, <2>1, <2>2, CountKept
  <1>8. TypeOK'
    BY <1>1, <1>2, <1>4, <1>7 DEF TypeOK, EntryBecomes, LOCALS, ENTRY
  <1>9. CallRight(p) /\ EntryRight(p) /\ WaitRight(p) /\ FastRight(p) /\ BeliefRight(p) /\ Closed(p)
    BY Parts
  <1>10. /\ locallock'[p][l][m].nLocks = e.nLocks - 1 /\ locallock'[p][l][m].strong = e.strong
         /\ locallock'[p][l][m].fast = e.fast /\ locallock'[p][l][m].exists = e.exists
         /\ \A l2 \in Lock, m2 \in LockMode : ~(l2 = l /\ m2 = m) => locallock'[p][l2][m2] = locallock[p][l2][m2]
    BY <1>4 DEF EntryBecomes
  <1>11. e.nLocks > 0 /\ e.nLocks - 1 > 0
    BY <1>2
  <1>12. CallRight(p)'
    <2>1. e.exists
      BY <1>9, <1>11 DEF EntryRight
    <2>2. calls[p] # 0
      BY <1>9, <2>1 DEF CallRight
    <2>. QED
      BY <1>1, <1>9, <2>2 DEF CallRight
  <1>13. EntryRight(p)'
    BY <1>9, <1>10, <1>11 DEF EntryRight, Active, Releasing
  <1>14. WaitRight(p)'
    BY <1>9 DEF WaitRight, Hold
  <1>15. FastRight(p)'
    BY <1>1, <1>9, <1>10, <1>11 DEF FastRight, Hold
  <1>16. BeliefRight(p)'
    BY <1>1, <1>9, <1>10, <1>11 DEF BeliefRight, Hold, Held, Marked, Releasing
  <1>17. Closed(p)'
    BY <1>1, <1>9, <1>10, <1>11 DEF Closed
  <1>18. ProcRight(p)'
    BY <1>12, <1>13, <1>14, <1>15, <1>16 DEF ProcRight
  <1>19. OthersFine(p) /\ FastShrinks
    BY <1>1, <1>5, <1>6 DEF OthersFine, FastShrinks
  <1>20. \A q \in Proc : NewSafe(q)
    BY <1>6, OldSafe
  <1>21. Active(p)
    BY DEF Active, Releasing
  <1>. QED
    BY <1>6, <1>7, <1>8, <1>17, <1>18, <1>19, <1>20, <1>21, Finish

\* A lock given back by the fast path.
LEMMA ReleaseFastRight ==
  ASSUME IInv, NEW p \in Proc, NEW l \in Lock, NEW m \in LockMode, locallock[p][l][m].nLocks > 0, m \in fpLockBits[p][l],
         FastPathUnGrant(p, l, m), SetNoLocal(p, l, m),
         lock' = lock, proc' = proc, strongCount' = strongCount, ReleaseSame, at' = at, call' = call, at[p] = "run"
  PROVE  IInv'
  <1>1. StrongLockInProgress' = StrongLockInProgress /\ deadlockTimer' = deadlockTimer /\ nextProc' = nextProc /\ calls' = calls
    BY DEF ReleaseSame
  <1>2. /\ TypeOK /\ CallRight(p) /\ EntryRight(p) /\ WaitRight(p) /\ FastRight(p) /\ BeliefRight(p) /\ Closed(p)
    BY Parts
  <1>3. SlotsKept(p) /\ FastShrinks /\ FastLess(p, l, m)
    BY FastGiven
  <1>4. /\ fpLockBits' \in [Proc -> [Lock -> SUBSET LockMode]]
        /\ \A q \in Proc : q # p => fpLockBits'[q] = fpLockBits[q]
        /\ \A l2 \in Lock, k \in LockMode : k \in fpLockBits'[p][l2] <=> k \in fpLockBits[p][l2] /\ ~(l2 = l /\ k = m)
    BY <1>3 DEF FastLess
  <1>5. ~locallock[p][l][m].strong
    BY <1>2 DEF Closed
  <1>6. EntryGone(p, l, m)
    BY <1>5, EntryGoes
  <1>7. /\ locallock' \in LOCALS /\ CountRight' /\ strongCount' \in [DOMAIN strongCount' -> Nat]
        /\ \A q \in Proc : q # p => locallock'[q] = locallock[q]
        /\ locallock'[p][l][m].nLocks = 0 /\ locallock'[p][l][m].strong = FALSE /\ locallock'[p][l][m].exists = FALSE
        /\ \A l2 \in Lock, m2 \in LockMode : ~(l2 = l /\ m2 = m) => locallock'[p][l2][m2] = locallock[p][l2][m2]
    BY <1>6 DEF EntryGone, EntryBecomes
  <1>8. LocksRight' /\ \A q \in Proc : q # p => Unmoved(q)
    BY <1>4, SameLocks
  <1>9. TypeOK'
    BY <1>1, <1>2, <1>3, <1>4, <1>7 DEF TypeOK, SlotsKept, LOCALS, ENTRY
  <1>10. CallRight(p)'
    <2>1. locallock[p][l][m].exists
      BY <1>2 DEF EntryRight
    <2>2. calls[p] # 0
      BY <1>2, <2>1 DEF CallRight
    <2>3. ~StrongLockInProgress[p]
      BY <1>2 DEF CallRight
    <2>. QED
      BY <1>1, <2>2, <2>3 DEF CallRight
  <1>11. EntryRight(p)'
    BY <1>2, <1>7 DEF EntryRight, Active, Releasing
  <1>12. WaitRight(p)'
    BY <1>2 DEF WaitRight, Hold
  <1>13. m \notin Hold(p, l)
    BY <1>2 DEF FastRight
  <1>14. FastRight(p)'
    <2>1. \A l2 \in Lock, k \in LockMode : k \in fpLockBits'[p][l2] =>
             Eligible(l2, k) /\ locallock'[p][l2][k].nLocks > 0 /\ locallock'[p][l2][k].fast /\ k \notin Hold(p, l2)
      BY <1>2, <1>4, <1>7 DEF FastRight
    <2>. QED
      BY <1>3, <2>1 DEF FastRight, SlotsKept, Hold
  <1>15. BeliefRight(p)'
    <2>1. \A l2 \in Lock, k \in LockMode : k \in Held(p, l2)' <=> k \in Held(p, l2) /\ ~(l2 = l /\ k = m)
      BY <1>4, <1>13 DEF Held, Hold
    <2>2. ~Releasing(p)
      BY DEF Releasing
    <2>3. \A l2 \in Lock, k \in LockMode : k \notin Marked(p, l2)'
      BY <1>2, <2>2 DEF BeliefRight, Marked
    <2>4. \A l2 \in Lock, k \in LockMode : /\ locallock'[p][l2][k].nLocks > 0 => k \in Held(p, l2)'
                                           /\ k \in Held(p, l2)' => locallock'[p][l2][k].nLocks > 0
      BY <1>2, <1>7, <2>1, <2>2 DEF BeliefRight
    <2>. QED
      BY <2>3, <2>4 DEF BeliefRight
  <1>16. ProcRight(p)'
    BY <1>10, <1>11, <1>12, <1>14, <1>15 DEF ProcRight
  <1>17. Closed(p)'
    <2>1. \A q \in Proc, l2 \in Lock : fpLockBits[q][l2] = {} => fpLockBits'[q][l2] = {}
      BY <1>3 DEF FastShrinks
    <2>. QED
      BY <1>2, <1>7, <2>1 DEF Closed
  <1>18. OthersFine(p)
    BY <1>1, <1>3, <1>7, <1>8 DEF OthersFine, Mine, SlotsKept
  <1>19. \A q \in Proc : NewSafe(q)
    <2>1. NewSafe(p)
      BY <1>4 DEF NewSafe, Held
    <2>. QED
      BY <1>8, <2>1, OldSafe
  <1>20. Active(p)
    BY DEF Active, Releasing
  <1>. QED
    BY <1>3, <1>7, <1>8, <1>9, <1>16, <1>17, <1>18, <1>19, <1>20, Finish

\* p has yet to forget the lock.
ToForget(p, l, m) ==
  /\ call' = [call EXCEPT ![p] = [lock |-> l, mode |-> m, dontWait |-> FALSE]]
  /\ at' = [at EXCEPT ![p] = "forget"]

\* A lock given back in the table.
LEMMA ReleaseSlowRight ==
  ASSUME IInv, NEW p \in Proc, NEW l \in Lock, NEW m \in LockMode, locallock[p][l][m].nLocks = 1, m \notin fpLockBits[p][l],
         NEW e, e = locallock[p][l][m], NEW new, new = [e EXCEPT !.nLocks = 0], SetEntry(p, l, m, new),
         Grants(l, ReleaseMode(lock[l], p, m)), ToForget(p, l, m),
         NEW n, n = UsedSlots(fpLockBits[p]) \/ n = FastPathLocalUseCount[p], RecountedTo(p, n),
         fpLockBits' = fpLockBits, strongCount' = strongCount, ReleaseSame, at[p] = "run"
  PROVE  IInv'
  <1>1. StrongLockInProgress' = StrongLockInProgress /\ deadlockTimer' = deadlockTimer /\ nextProc' = nextProc /\ calls' = calls
    BY DEF ReleaseSame
  <1>2. /\ TypeOK /\ locallock \in LOCALS /\ CallRight(p) /\ EntryRight(p) /\ WaitRight(p) /\ FastRight(p)
        /\ BeliefRight(p) /\ Closed(p)
    BY Parts
  <1>3. e \in ENTRY /\ e.nLocks \in Nat /\ e.strong \in BOOLEAN /\ e.fast \in BOOLEAN /\ e.exists \in BOOLEAN
    BY EntryTyped
  <1>4. EntryBecomes(p, l, m, 0, e.strong, e.fast, e.exists)
    <2>1. /\ new \in ENTRY /\ new.nLocks = 0 /\ new.strong = e.strong /\ new.fast = e.fast
          /\ new.exists = e.exists
      BY <1>3 DEF ENTRY
    <2>. QED
      BY <1>2, <2>1, EntrySet
  <1>5. /\ locallock' \in LOCALS /\ \A q \in Proc : q # p => locallock'[q] = locallock[q]
        /\ locallock'[p][l][m].nLocks = 0 /\ locallock'[p][l][m].strong = e.strong
        /\ locallock'[p][l][m].fast = e.fast /\ locallock'[p][l][m].exists = e.exists
        /\ \A l2 \in Lock, m2 \in LockMode : ~(l2 = l /\ m2 = m) => locallock'[p][l2][m2] = locallock[p][l2][m2]
    BY <1>4 DEF EntryBecomes
  <1>6. CountRight' /\ strongCount' \in [DOMAIN strongCount' -> Nat]
    <2>1. One(e.strong) - One(e.strong) = 0
      BY <1>3 DEF One
    <2>2. CountMoved(HashPartition[l], 0)
      BY CountStays
    <2>. QED
      BY <1>3, <1>4, <2>1, <2>2, CountKept
  <1>7. e.exists /\ calls[p] > 0 /\ ~StrongLockInProgress[p] /\ ~Releasing(p)
    <2>1. e.exists
      BY <1>2 DEF EntryRight
    <2>2. calls[p] # 0 /\ calls[p] \in Nat
      BY <1>2, <2>1 DEF CallRight, TypeOK
    <2>3. ~StrongLockInProgress[p]
      BY <1>2 DEF CallRight
    <2>. QED
      BY <2>1, <2>2, <2>3 DEF Releasing
  <1>8. /\ at' \in [Proc -> PLACE] /\ call' \in [Proc -> CALL] /\ at'[p] = "forget"
        /\ call'[p].lock = l /\ call'[p].mode = m
        /\ \A q \in Proc : q # p => at'[q] = at[q] /\ call'[q] = call[q]
    <2>1. PICK c : c = [lock |-> l, mode |-> m, dontWait |-> FALSE]
      OBVIOUS
    <2>2. c \in CALL /\ c.lock = l /\ c.mode = m
      BY <2>1 DEF CALL
    <2>3. call' = [call EXCEPT ![p] = c] /\ at' = [at EXCEPT ![p] = "forget"]
      BY <2>1 DEF ToForget
    <2>4. at \in [Proc -> PLACE] /\ call \in [Proc -> CALL]
      BY <1>2 DEF TypeOK, PLACE, CALL
    <2>5. "forget" \in PLACE
      BY DEF PLACE
    <2>. QED
      BY <2>2, <2>3, <2>4, <2>5
  <1>9. FastShrinks /\ SlotsKept(p)
    <2>1. FastShrinks /\ fpLockBits' \in [Proc -> [Lock -> SUBSET LockMode]]
      BY <1>2 DEF FastShrinks, TypeOK
    <2>. QED
      BY <2>1, Recount
  <1>10. proc[p].waitLock = NULL /\ \A l2 \in Lock : ~Waits(lock[l2], p)
    BY NotWaiting
  <1>11. m \in Hold(p, l) /\ m \notin Marked(p, l)
    BY <1>2, <1>7 DEF BeliefRight, Held, Hold
  <1>12. TableLess(p, l, {m}) /\ \A l2 \in Lock : Marked(p, l2)' = Marked(p, l2)
    BY <1>8, <1>10, <1>11, GivenBack
  <1>13. /\ LocksRight' /\ lock' \in [Lock -> LOCK] /\ proc' \in [Proc -> PROC] /\ proc'[p] = proc[p]
         /\ \A q \in Proc : q # p => Unmoved(q) \/ WokenNow(q)
         /\ \A q \in Proc : q # p /\ Active(q)' => NewSafe(q)
         /\ \A l2 \in Lock : \A k : k \in Hold(p, l2)' <=> k \in Hold(p, l2) /\ ~(l2 = l /\ k \in {m})
         /\ \A l2 \in Lock : ~Waits(lock'[l2], p)
    BY <1>12 DEF TableLess
  <1>14. TypeOK'
    BY <1>1, <1>2, <1>5, <1>6, <1>8, <1>9, <1>13 DEF TypeOK, SlotsKept, LOCALS, ENTRY, PLACE, CALL, PROC
  <1>15. CallRight(p)'
    BY <1>1, <1>5, <1>7, <1>8 DEF CallRight
  <1>16. EntryRight(p)'
    <2>1. Active(p)
      BY <1>7 DEF Active
    <2>. SUFFICES ASSUME NEW l2 \in Lock, NEW k \in LockMode
                  PROVE  /\ locallock'[p][l2][k].strong => locallock'[p][l2][k].exists
                         /\ locallock'[p][l2][k].nLocks > 0 => locallock'[p][l2][k].exists
                         /\ locallock'[p][l2][k].exists /\ locallock'[p][l2][k].nLocks = 0 => l = l2 /\ m = k
                         /\ locallock'[p][l2][k].nLocks > 0 /\ Strong(l2, k) => locallock'[p][l2][k].strong
      BY <1>8 DEF EntryRight
    <2>2. CASE l2 = l /\ k = m
      <3>1. locallock'[p][l][m].exists
        BY <1>5, <1>7
      <3>2. ~(locallock'[p][l][m].nLocks > 0)
        BY <1>5
      <3>. QED
        BY <2>2, <3>1, <3>2
    <2>3. CASE ~(l2 = l /\ k = m)
      <3>1. locallock'[p][l2][k] = locallock[p][l2][k]
        BY <1>5, <2>3
      <3>. QED
        BY <1>2, <2>1, <3>1 DEF EntryRight
    <2>. QED
      BY <2>2, <2>3
  <1>17. WaitRight(p)'
    BY <1>2, <1>8, <1>10, <1>13, LockTableAssumption DEF WaitRight
  <1>18. FastRight(p)'
    <2>1. \A l2 \in Lock, k \in LockMode : k \in fpLockBits[p][l2] =>
             Eligible(l2, k) /\ locallock'[p][l2][k].nLocks > 0 /\ locallock'[p][l2][k].fast /\ k \notin Hold(p, l2)'
      BY <1>2, <1>5, <1>13 DEF FastRight
    <2>. QED
      BY <1>9, <2>1 DEF FastRight, SlotsKept
  <1>19. BeliefRight(p)'
    <2>1. \A l2 \in Lock, k \in LockMode : k \in Held(p, l2)' <=> k \in Held(p, l2) /\ ~(l2 = l /\ k = m)
      BY <1>13 DEF Held, Hold
    <2>2. \A l2 \in Lock, k \in LockMode : k \notin Marked(p, l2)'
      BY <1>2, <1>7, <1>12 DEF BeliefRight
    <2>3. \A l2 \in Lock, k \in LockMode : /\ locallock'[p][l2][k].nLocks > 0 => k \in Held(p, l2)'
                                           /\ k \in Held(p, l2)' => locallock'[p][l2][k].nLocks > 0
      BY <1>2, <1>5, <1>7, <2>1 DEF BeliefRight
    <2>. QED
      BY <2>2, <2>3 DEF BeliefRight
  <1>20. ProcRight(p)'
    BY <1>15, <1>16, <1>17, <1>18, <1>19 DEF ProcRight
  <1>21. Closed(p)'
    BY <1>2, <1>5, <1>8 DEF Closed
  <1>22. OthersFine(p)
    BY <1>1, <1>5, <1>8, <1>9, <1>13 DEF OthersFine, Mine, SlotsKept
  <1>23. \A q \in Proc : Active(q)' => NewSafe(q)
    <2>1. NewSafe(p)
      BY <1>13 DEF NewSafe, Held, Hold
    <2>. QED
      BY <1>13, <2>1
  <1>24. Active(p)
    BY <1>7 DEF Active
  <1>. QED
    BY <1>6, <1>9, <1>13, <1>14, <1>20, <1>21, <1>22, <1>23, <1>24, Finish

\* Who is not to try the fast path, or finds the lock transferred, has no bit for it.
LEMMA NotInArray ==
  ASSUME IInv, NEW p \in Proc, NEW l \in Lock, NEW m \in LockMode,
         ~(Eligible(l, m) /\ FastPathLocalUseCount[p] > 0 /\ ~Transferred(p, l, m))
  PROVE  m \notin fpLockBits[p][l]
  <1>. SUFFICES ASSUME m \in fpLockBits[p][l]
                PROVE  FALSE
    OBVIOUS
  <1>0. TypeOK /\ FastRight(p)
    BY Parts
  <1>1. Eligible(l, m) /\ UsedSlots(fpLockBits[p]) <= FastPathLocalUseCount[p]
    BY <1>0 DEF FastRight
  <1>2. PICK a : a = fpLockBits[p]
    OBVIOUS
  <1>3. a \in [Lock -> SUBSET LockMode] /\ FastPathLocalUseCount[p] \in 0..FP_LOCK_SLOTS_PER_BACKEND
    BY <1>0, <1>2, TypeFacts
  <1>4. UsedSlots(a) \in Nat /\ UsedSlots(a) > 0
    BY <1>2, <1>3, SlotsFacts
  <1>5. FP_LOCK_SLOTS_PER_BACKEND \in Nat
    BY LockManagerAssumption
  <1>6. FastPathLocalUseCount[p] > 0
    BY <1>1, <1>2, <1>3, <1>4, <1>5
  <1>. QED
    BY <1>1, <1>6 DEF Transferred

\* LockRelease keeps the invariant.
LEMMA LockReleaseRight ==
  ASSUME IInv, NEW p \in Proc, NEW l \in Lock, NEW m \in LockMode, LockRelease(p, l, m)
  PROVE  IInv'
  <1>1. PICK e : e = locallock[p][l][m]
    OBVIOUS
  <1>2. at[p] = "run" /\ e.nLocks > 0 /\ ReleaseSame
    BY <1>1 DEF LockRelease, ReleaseSame
  <1>3. PICK fastTried : fastTried = (Eligible(l, m) /\ FastPathLocalUseCount[p] > 0)
    OBVIOUS
  <1>4. TypeOK /\ locallock \in LOCALS /\ FastRight(p) /\ e \in ENTRY
    BY <1>1, Parts, EntryTyped
  <1>5. CASE /\ e.nLocks > 1 /\ locallock' = [locallock EXCEPT ![p][l][m].nLocks = @ - 1]
             /\ UNCHANGED <<lock, proc, fastVars, at, call>>
    <2>1. PICK new : new = [e EXCEPT !.nLocks = @ - 1]
      OBVIOUS
    <2>2. SetEntry(p, l, m, new)
      BY <1>1, <1>4, <1>5, <2>1 DEF SetEntry, LOCALS
    <2>3. RestSame /\ lock' = lock /\ proc' = proc /\ at' = at /\ call' = call
      BY <1>2, <1>5 DEF RestSame, ReleaseSame, fastVars
    <2>. QED
      BY <1>1, <1>2, <1>5, <2>1, <2>2, <2>3, ReleaseOnceRight
  <1>6. CASE /\ ~Transferred(p, l, m) /\ FastPathUnGrant(p, l, m)
             /\ locallock' = [locallock EXCEPT ![p][l][m] = NoLocal]
             /\ UNCHANGED <<lock, proc, strongCount, at, call>>
    <2>1. m \in fpLockBits[p][l] /\ SetNoLocal(p, l, m)
      BY <1>6 DEF Transferred, SetNoLocal
    <2>. QED
      BY <1>1, <1>2, <1>6, <2>1, ReleaseFastRight
  <1>7. CASE /\ e.nLocks = 1 /\ ~(fastTried /\ ~Transferred(p, l, m))
             /\ Grants(l, ReleaseMode(lock[l], p, m))
             /\ locallock' = [locallock EXCEPT ![p][l][m].nLocks = 0]
             /\ FastPathLocalUseCount' = [FastPathLocalUseCount EXCEPT ![p] =
                                            IF fastTried THEN UsedSlots(fpLockBits[p]) ELSE @]
             /\ call' = [call EXCEPT ![p] = [lock |-> l, mode |-> m, dontWait |-> FALSE]]
             /\ at' = [at EXCEPT ![p] = "forget"]
             /\ UNCHANGED <<strongCount, fpLockBits>>
    <2>1. PICK new : new = [e EXCEPT !.nLocks = 0]
      OBVIOUS
    <2>2. SetEntry(p, l, m, new)
      BY <1>1, <1>4, <1>7, <2>1 DEF SetEntry, LOCALS
    <2>3. ToForget(p, l, m)
      BY <1>7 DEF ToForget
    <2>4. PICK n : n = IF fastTried THEN UsedSlots(fpLockBits[p]) ELSE FastPathLocalUseCount[p]
      OBVIOUS
    <2>5. RecountedTo(p, n)
      BY <1>4, <1>7, <2>4 DEF RecountedTo, TypeOK
    <2>6. n = UsedSlots(fpLockBits[p]) \/ n = FastPathLocalUseCount[p]
      BY <2>4
    <2>7. m \notin fpLockBits[p][l]
      <3>1. ~(Eligible(l, m) /\ FastPathLocalUseCount[p] > 0 /\ ~Transferred(p, l, m))
        BY <1>3, <1>7
      <3>. QED
        BY <3>1, NotInArray
    <2>. QED
      BY <1>1, <1>2, <1>7, <2>1, <2>2, <2>3, <2>5, <2>6, <2>7, ReleaseSlowRight
  <1>. QED
    BY <1>1, <1>3, <1>5, <1>6, <1>7 DEF LockRelease, Goto

-----------------------------------------------------------------------------
(* LockReleaseAll.                                                         *)

\* What LockReleaseAll leaves alone.
ReleaseAllSame ==
  /\ StrongLockInProgress' = StrongLockInProgress /\ deadlockTimer' = deadlockTimer
  /\ at' = at /\ call' = call /\ nextProc' = nextProc /\ calls' = calls

\* The tables are in order, and p has of its other locks what it had.
LockGone(p, l, m) ==
  /\ LocksRight' /\ lock' \in [Lock -> LOCK] /\ proc' \in [Proc -> PROC] /\ proc'[p] = proc[p]
  /\ fpLockBits' \in [Proc -> [Lock -> SUBSET LockMode]] /\ FastShrinks /\ SlotsKept(p)
  /\ \A q \in Proc : q # p => Unmoved(q) \/ WokenNow(q)
  /\ \A q \in Proc : q # p /\ Active(q)' => NewSafe(q)
  /\ \A l2 \in Lock : ~Waits(lock'[l2], p)
  /\ \A l2 \in Lock, k \in LockMode : ~(l2 = l /\ k = m) =>
       /\ k \in Hold(p, l2)' <=> k \in Hold(p, l2)
       /\ k \in fpLockBits'[p][l2] <=> k \in fpLockBits[p][l2]
       /\ k \in Marked(p, l2)' <=> k \in Marked(p, l2)
  /\ m \notin fpLockBits'[p][l]
  /\ m \in Held(p, l)' => m \in Hold(p, l)' /\ m \in Held(p, l) /\ (at[p] = "release" => m \in Marked(p, l)')

\* An entry of the local table is dealt with.
LEMMA LocalGoneRight ==
  ASSUME IInv, NEW p \in Proc, NEW l \in Lock, NEW m \in LockMode, Releasing(p), LockGone(p, l, m), EntryGone(p, l, m),
         ReleaseAllSame
  PROVE  IInv'
  <1>1. /\ StrongLockInProgress' = StrongLockInProgress /\ deadlockTimer' = deadlockTimer
        /\ at' = at /\ call' = call /\ nextProc' = nextProc /\ calls' = calls
    BY DEF ReleaseAllSame
  <1>2. /\ TypeOK /\ CallRight(p) /\ EntryRight(p) /\ WaitRight(p) /\ FastRight(p) /\ BeliefRight(p) /\ Closed(p)
    BY Parts
  <1>3. /\ LocksRight' /\ lock' \in [Lock -> LOCK] /\ proc' \in [Proc -> PROC] /\ proc'[p] = proc[p]
        /\ fpLockBits' \in [Proc -> [Lock -> SUBSET LockMode]] /\ FastShrinks /\ SlotsKept(p)
        /\ \A q \in Proc : q # p => Unmoved(q) \/ WokenNow(q)
        /\ \A q \in Proc : q # p /\ Active(q)' => NewSafe(q)
        /\ \A l2 \in Lock : ~Waits(lock'[l2], p)
    BY DEF LockGone
  <1>4. /\ \A l2 \in Lock, k \in LockMode : ~(l2 = l /\ k = m) =>
             /\ k \in Hold(p, l2)' <=> k \in Hold(p, l2)
             /\ k \in fpLockBits'[p][l2] <=> k \in fpLockBits[p][l2]
             /\ k \in Marked(p, l2)' <=> k \in Marked(p, l2)
        /\ m \notin fpLockBits'[p][l]
        /\ m \in Held(p, l)' => m \in Hold(p, l)' /\ m \in Held(p, l) /\ (at[p] = "release" => m \in Marked(p, l)')
    BY DEF LockGone
  <1>5. /\ locallock' \in LOCALS /\ CountRight' /\ strongCount' \in [DOMAIN strongCount' -> Nat]
        /\ \A q \in Proc : q # p => locallock'[q] = locallock[q]
        /\ locallock'[p][l][m].nLocks = 0 /\ locallock'[p][l][m].strong = FALSE /\ locallock'[p][l][m].exists = FALSE
        /\ \A l2 \in Lock, m2 \in LockMode : ~(l2 = l /\ m2 = m) => locallock'[p][l2][m2] = locallock[p][l2][m2]
    BY DEF EntryGone, EntryBecomes
  <1>6. at[p] \in {"release", "releaseAll"} /\ ~StrongLockInProgress[p] /\ ~Active(p)
    <2>1. at[p] \in {"release", "releaseAll"}
      BY DEF Releasing
    <2>. QED
      BY <1>2, <2>1 DEF CallRight, Active
  <1>7. TypeOK'
    BY <1>1, <1>2, <1>3, <1>5 DEF TypeOK, SlotsKept, LOCALS, ENTRY, PROC
  <1>8. CallRight(p)'
    BY <1>1, <1>2, <1>6 DEF CallRight
  <1>9. EntryRight(p)'
    BY <1>1, <1>2, <1>5, <1>6 DEF EntryRight, Active, Releasing
  <1>10. WaitRight(p)'
    <2>1. proc[p].waitLock = NULL
      BY <1>6, NotWaiting
    <2>. QED
      BY <1>1, <1>2, <1>3, <1>6, <2>1, LockTableAssumption DEF WaitRight
  <1>11. FastRight(p)'
    <2>1. \A l2 \in Lock, k \in LockMode : k \in fpLockBits'[p][l2] =>
             Eligible(l2, k) /\ locallock'[p][l2][k].nLocks > 0 /\ locallock'[p][l2][k].fast /\ k \notin Hold(p, l2)'
      BY <1>2, <1>4, <1>5 DEF FastRight
    <2>. QED
      BY <1>3, <2>1 DEF FastRight, SlotsKept
  <1>12. BeliefRight(p)'
    <2>. SUFFICES ASSUME NEW l2 \in Lock, NEW k \in LockMode
                  PROVE  /\ locallock'[p][l2][k].nLocks > 0 => k \in Held(p, l2)'
                         /\ k \in Held(p, l2)' =>
                              \/ locallock'[p][l2][k].nLocks > 0
                              \/ k \in Hold(p, l2)' /\ (at[p] = "release" => k \in Marked(p, l2)')
                         /\ k \in Marked(p, l2)' => ~locallock'[p][l2][k].exists
      <3>1. at'[p] = at[p] /\ Releasing(p)'
        BY <1>1 DEF Releasing
      <3>. QED
        BY <3>1 DEF BeliefRight
    <2>1. CASE l2 = l /\ k = m
      BY <1>4, <1>5, <2>1
    <2>2. CASE ~(l2 = l /\ k = m)
      <3>1. /\ k \in Held(p, l2)' <=> k \in Held(p, l2)
            /\ k \in Hold(p, l2)' <=> k \in Hold(p, l2)
            /\ k \in Marked(p, l2)' <=> k \in Marked(p, l2)
        BY <1>4, <2>2 DEF Held, Hold
      <3>2. locallock'[p][l2][k] = locallock[p][l2][k]
        BY <1>5, <2>2
      <3>. QED
        BY <1>2, <1>6, <3>1, <3>2 DEF BeliefRight
    <2>. QED
      BY <2>1, <2>2
  <1>13. ProcRight(p)'
    BY <1>8, <1>9, <1>10, <1>11, <1>12 DEF ProcRight
  <1>14. Closed(p)'
    <2>1. \A q \in Proc, l2 \in Lock : fpLockBits[q][l2] = {} => fpLockBits'[q][l2] = {}
      BY <1>3 DEF FastShrinks
    <2>. QED
      BY <1>1, <1>2, <1>5, <1>6, <2>1 DEF Closed
  <1>15. OthersFine(p)
    BY <1>1, <1>3, <1>5 DEF OthersFine, Mine, SlotsKept
  <1>16. ~Active(p)'
    BY <1>1, <1>6 DEF Active, Releasing
  <1>17. \A q \in Proc : Active(q)' => NewSafe(q)
    BY <1>3, <1>16
  <1>. QED
    BY <1>3, <1>5, <1>7, <1>13, <1>14, <1>15, <1>16, <1>17, Finish

\* A mode that p holds is marked for release.
MarkedIn(lk, p, m) == [lk EXCEPT !.releaseMask[p] = @ \cup {m}]

\* All else of the LOCK is as it was.
LEMMA MarkRight ==
  ASSUME NEW lk, LockRight(lk, WaitMode), AllBlocked(lk, WaitMode), NEW p \in Proc, NEW m \in LockMode, m \in lk.holdMask[p],
         NEW r, r = MarkedIn(lk, p, m)
  PROVE  /\ LockRight(r, WaitMode) /\ AllBlocked(r, WaitMode) /\ r.holdMask = lk.holdMask /\ r.waitProcs = lk.waitProcs
         /\ \A q \in Proc : \A k : k \in r.releaseMask[q] <=> k \in lk.releaseMask[q] \/ (q = p /\ k = m)
  <1>1. lk \in LOCK /\ CountsRight(lk, WaitMode)
    BY DEF LockRight, CountsRight
  <1>2. /\ r \in LOCK /\ r.procLocks = lk.procLocks /\ r.holdMask = lk.holdMask /\ r.requested = lk.requested
        /\ r.granted = lk.granted /\ r.waitMask = lk.waitMask /\ r.waitProcs = lk.waitProcs
        /\ r.releaseMask = [lk.releaseMask EXCEPT ![p] = @ \cup {m}]
    BY <1>1 DEF MarkedIn, LOCK
  <1>3. lk.releaseMask \in [Proc -> SUBSET LockMode]
    BY <1>1, LockFacts
  <1>4. \A q \in Proc : \A k : k \in r.releaseMask[q] <=> k \in lk.releaseMask[q] \/ (q = p /\ k = m)
    BY <1>2, <1>3
  <1>5. \A q \in Proc : r.releaseMask[q] \subseteq r.holdMask[q]
    BY <1>1, <1>2, <1>4 DEF CountsRight
  <1>6. CountsRight(r, WaitMode)
    BY <1>1, <1>2, <1>5 DEF CountsRight, Waits, Holders, Askers
  <1>7. LockRight(r, WaitMode)
    BY <1>2, <1>6 DEF LockRight, Waits
  <1>8. AllBlocked(r, WaitMode)
    BY <1>2 DEF AllBlocked, Blocked, Waits
  <1>. QED
    BY <1>2, <1>4, <1>7, <1>8

\* The shared structures are as they were.
LEMMA SharedGone ==
  ASSUME IInv, NEW p \in Proc, NEW l \in Lock, NEW m \in LockMode, Releasing(p), locallock[p][l][m].nLocks = 0,
         lock' = lock, proc' = proc, fpLockBits' = fpLockBits, FastPathLocalUseCount' = FastPathLocalUseCount
  PROVE  LockGone(p, l, m)
  <1>1. TypeOK /\ FastRight(p) /\ BeliefRight(p)
    BY Parts
  <1>2. /\ lock' \in [Lock -> LOCK] /\ proc' \in [Proc -> PROC] /\ proc'[p] = proc[p]
        /\ fpLockBits' \in [Proc -> [Lock -> SUBSET LockMode]] /\ FastShrinks
    BY <1>1 DEF TypeOK, PROC, FastShrinks
  <1>3. SlotsKept(p)
    BY <1>1 DEF SlotsKept, FastRight, TypeOK
  <1>4. LocksRight' /\ \A q \in Proc : Unmoved(q)
    BY SameLocks
  <1>5. \A q \in Proc : NewSafe(q)
    BY <1>4, OldSafe
  <1>6. \A l2 \in Lock : ~Waits(lock'[l2], p)
    BY NotWaiting DEF Releasing
  <1>7. m \notin fpLockBits[p][l]
    BY <1>1 DEF FastRight
  <1>8. m \in Held(p, l) => m \in Hold(p, l) /\ (at[p] = "release" => m \in Marked(p, l))
    BY <1>1 DEF BeliefRight, Releasing
  <1>9. \A l2 \in Lock : Hold(p, l2)' = Hold(p, l2) /\ Held(p, l2)' = Held(p, l2) /\ Marked(p, l2)' = Marked(p, l2)
    BY DEF Hold, Held, Marked
  <1>. QED
    BY <1>2, <1>3, <1>4, <1>5, <1>6, <1>7, <1>8, <1>9 DEF LockGone

\* The fast-path array is without the lock.
LEMMA FastGone ==
  ASSUME IInv, NEW p \in Proc, NEW l \in Lock, NEW m \in LockMode, Releasing(p), m \in fpLockBits[p][l],
         lock' = lock, proc' = proc, FastPathUnGrant(p, l, m)
  PROVE  LockGone(p, l, m)
  <1>1. TypeOK /\ FastRight(p)
    BY Parts
  <1>2. SlotsKept(p) /\ FastShrinks /\ FastLess(p, l, m)
    BY FastGiven
  <1>3. /\ fpLockBits' \in [Proc -> [Lock -> SUBSET LockMode]]
        /\ \A q \in Proc : q # p => fpLockBits'[q] = fpLockBits[q]
        /\ \A l2 \in Lock, k \in LockMode : k \in fpLockBits'[p][l2] <=> k \in fpLockBits[p][l2] /\ ~(l2 = l /\ k = m)
    BY <1>2 DEF FastLess
  <1>4. lock' \in [Lock -> LOCK] /\ proc' \in [Proc -> PROC] /\ proc'[p] = proc[p]
    BY <1>1 DEF TypeOK, PROC
  <1>5. LocksRight' /\ \A q \in Proc : q # p => Unmoved(q)
    BY <1>3, SameLocks
  <1>6. \A q \in Proc : q # p => NewSafe(q)
    BY <1>5, OldSafe
  <1>7. \A l2 \in Lock : ~Waits(lock'[l2], p)
    BY NotWaiting DEF Releasing
  <1>8. m \notin Hold(p, l) /\ m \notin fpLockBits'[p][l]
    BY <1>1, <1>3 DEF FastRight
  <1>9. \A l2 \in Lock : Hold(p, l2)' = Hold(p, l2) /\ Marked(p, l2)' = Marked(p, l2)
    BY DEF Hold, Marked
  <1>10. m \notin Held(p, l)'
    BY <1>8 DEF Held, Hold
  <1>. QED
    BY <1>2, <1>3, <1>4, <1>5, <1>6, <1>7, <1>8, <1>9, <1>10 DEF LockGone

\* The table is without the lock.
LEMMA TableGone ==
  ASSUME IInv, NEW p \in Proc, NEW l \in Lock, NEW m \in LockMode, Releasing(p), m \notin fpLockBits[p][l],
         locallock[p][l][m].nLocks > 0, Grants(l, ReleaseMode(lock[l], p, m)), fpLockBits' = fpLockBits,
         NEW n, n = UsedSlots(fpLockBits[p]), RecountedTo(p, n), at' = at
  PROVE  LockGone(p, l, m)
  <1>1. TypeOK /\ BeliefRight(p) /\ EntryRight(p)
    BY Parts
  <1>2. fpLockBits' \in [Proc -> [Lock -> SUBSET LockMode]] /\ FastShrinks
    BY <1>1 DEF TypeOK, FastShrinks
  <1>3. SlotsKept(p)
    BY <1>2, Recount
  <1>4. m \in Hold(p, l) /\ m \notin Marked(p, l)
    BY <1>1 DEF BeliefRight, EntryRight, Held, Hold
  <1>5. \A l2 \in Lock : ~Waits(lock[l2], p)
    BY NotWaiting DEF Releasing
  <1>6. TableLess(p, l, {m}) /\ \A l2 \in Lock : Marked(p, l2)' = Marked(p, l2)
    BY <1>4, <1>5, GivenBack
  <1>7. /\ LocksRight' /\ lock' \in [Lock -> LOCK] /\ proc' \in [Proc -> PROC] /\ proc'[p] = proc[p]
        /\ \A q \in Proc : q # p => Unmoved(q) \/ WokenNow(q)
        /\ \A q \in Proc : q # p /\ Active(q)' => NewSafe(q)
        /\ \A l2 \in Lock : \A k : k \in Hold(p, l2)' <=> k \in Hold(p, l2) /\ ~(l2 = l /\ k \in {m})
        /\ \A l2 \in Lock : ~Waits(lock'[l2], p)
    BY <1>6 DEF TableLess
  <1>8. m \notin Held(p, l)'
    BY <1>7 DEF Held, Hold
  <1>. QED
    BY <1>2, <1>3, <1>6, <1>7, <1>8 DEF LockGone

\* The lock is marked for release.
LEMMA MarkGone ==
  ASSUME IInv, NEW p \in Proc, NEW l \in Lock, NEW m \in LockMode, Releasing(p), locallock[p][l][m].nLocks > 0,
         ~locallock[p][l][m].fast, NEW r, r = MarkedIn(lock[l], p, m), SetLock(l, r),
         proc' = proc, fpLockBits' = fpLockBits, FastPathLocalUseCount' = FastPathLocalUseCount
  PROVE  LockGone(p, l, m)
  <1>1. TypeOK /\ LocksRight /\ FastRight(p) /\ BeliefRight(p)
    BY Parts
  <1>2. /\ proc' \in [Proc -> PROC] /\ proc'[p] = proc[p]
        /\ fpLockBits' \in [Proc -> [Lock -> SUBSET LockMode]] /\ FastShrinks
    BY <1>1 DEF TypeOK, PROC, FastShrinks
  <1>3. SlotsKept(p)
    BY <1>1 DEF SlotsKept, FastRight, TypeOK
  <1>4. m \in Hold(p, l) /\ m \notin fpLockBits[p][l]
    BY <1>1 DEF BeliefRight, FastRight, Held, Hold
  <1>5. /\ LockRight(r, WaitMode) /\ AllBlocked(r, WaitMode) /\ r.holdMask = lock[l].holdMask
        /\ r.waitProcs = lock[l].waitProcs
        /\ \A q \in Proc : \A k : k \in r.releaseMask[q] <=> k \in lock[l].releaseMask[q] \/ (q = p /\ k = m)
    BY <1>1, <1>4, MarkRight DEF LocksRight, Hold
  <1>6. lock' = [l2 \in Lock |-> lock'[l2]] /\ lock'[l] = r /\ \A l2 \in Lock : l2 # l => lock'[l2] = lock[l2]
    BY <1>1 DEF SetLock, TypeOK
  <1>7. LocksRight'
    <2>1. WaitMode' = WaitMode
      BY DEF WaitMode
    <2>2. \A l2 \in Lock : LockRight(lock'[l2], WaitMode) /\ AllBlocked(lock'[l2], WaitMode)
      BY <1>1, <1>5, <1>6 DEF LocksRight
    <2>. QED
      BY <2>1, <2>2 DEF LocksRight
  <1>8. lock' \in [Lock -> LOCK]
    BY <1>6, <1>7, LocksTyped
  <1>9. \A l2 \in Lock : /\ lock'[l2].holdMask = lock[l2].holdMask /\ lock'[l2].waitProcs = lock[l2].waitProcs
                         /\ \A q \in Proc : \A k : k \in lock'[l2].releaseMask[q] <=>
                              k \in lock[l2].releaseMask[q] \/ (q = p /\ l2 = l /\ k = m)
    BY <1>5, <1>6
  <1>10. \A q \in Proc : q # p => Unmoved(q)
    BY <1>9 DEF Unmoved, Waits
  <1>11. \A q \in Proc : q # p => NewSafe(q)
    BY <1>10, OldSafe
  <1>12. \A l2 \in Lock : ~Waits(lock'[l2], p)
    <2>1. \A l2 \in Lock : ~Waits(lock[l2], p)
      BY NotWaiting DEF Releasing
    <2>. QED
      BY <1>9, <2>1 DEF Waits
  <1>13. \A l2 \in Lock : /\ Hold(p, l2)' = Hold(p, l2)
                          /\ \A k : k \in Marked(p, l2)' <=> k \in Marked(p, l2) \/ (l2 = l /\ k = m)
    BY <1>9 DEF Hold, Marked
  <1>14. m \in Hold(p, l)' /\ m \in Held(p, l) /\ m \in Marked(p, l)'
    BY <1>4, <1>13 DEF Held, Hold
  <1>. QED
    BY <1>2, <1>3, <1>4, <1>7, <1>8, <1>10, <1>11, <1>12, <1>13, <1>14 DEF LockGone

\* ReleaseLocal keeps the invariant.
LEMMA ReleaseLocalRight ==
  ASSUME IInv, NEW p \in Proc, NEW l \in Lock, NEW m \in LockMode, ReleaseLocal(p, l, m)
  PROVE  IInv'
  <1>1. PICK e : e = locallock[p][l][m]
    OBVIOUS
  <1>2. /\ Releasing(p) /\ strongCount' = CountWithout(p, {<<l, m>>}) /\ SetNoLocal(p, l, m) /\ ReleaseAllSame /\ at' = at
    BY DEF ReleaseLocal, SetNoLocal, ReleaseAllSame, stackVars
  <1>3. EntryGone(p, l, m)
    BY <1>2, EntryGoes
  <1>4. \/ e.nLocks = 0 /\ UNCHANGED <<lock, proc, fpLockBits, FastPathLocalUseCount>>
        \/ m \in fpLockBits[p][l] /\ FastPathUnGrant(p, l, m) /\ UNCHANGED <<lock, proc>>
        \/ /\ e.nLocks > 0 /\ m \notin fpLockBits[p][l]
           /\ Grants(l, ReleaseMode(lock[l], p, m))
           /\ FastPathLocalUseCount' = [FastPathLocalUseCount EXCEPT ![p] = UsedSlots(fpLockBits[p])]
           /\ UNCHANGED fpLockBits
        \/ /\ e.nLocks > 0 /\ ~e.fast /\ SetLock(l, MarkedIn(lock[l], p, m))
           /\ UNCHANGED <<proc, fpLockBits, FastPathLocalUseCount>>
    BY <1>1 DEF ReleaseLocal, Transferred, MarkedIn
  <1>5. LockGone(p, l, m)
    <2>1. CASE e.nLocks = 0 /\ UNCHANGED <<lock, proc, fpLockBits, FastPathLocalUseCount>>
      BY <1>1, <1>2, <2>1, SharedGone
    <2>2. CASE m \in fpLockBits[p][l] /\ FastPathUnGrant(p, l, m) /\ UNCHANGED <<lock, proc>>
      BY <1>2, <2>2, FastGone
    <2>3. CASE /\ e.nLocks > 0 /\ m \notin fpLockBits[p][l]
               /\ Grants(l, ReleaseMode(lock[l], p, m))
               /\ FastPathLocalUseCount' = [FastPathLocalUseCount EXCEPT ![p] = UsedSlots(fpLockBits[p])]
               /\ UNCHANGED fpLockBits
      <3>1. PICK n : n = UsedSlots(fpLockBits[p])
        OBVIOUS
      <3>2. RecountedTo(p, n)
        BY <2>3, <3>1 DEF RecountedTo
      <3>. QED
        BY <1>1, <1>2, <2>3, <3>1, <3>2, TableGone
    <2>4. CASE /\ e.nLocks > 0 /\ ~e.fast /\ SetLock(l, MarkedIn(lock[l], p, m))
               /\ UNCHANGED <<proc, fpLockBits, FastPathLocalUseCount>>
      <3>1. PICK r : r = MarkedIn(lock[l], p, m)
        OBVIOUS
      <3>. QED
        BY <1>1, <1>2, <2>4, <3>1, MarkGone
    <2>. QED
      BY <1>4, <2>1, <2>2, <2>3, <2>4
  <1>. QED
    BY <1>2, <1>3, <1>5, LocalGoneRight

\* The LOCK of a partition that LockReleaseAll goes through, with what p gives back.
LEMMA PartitionSettled ==
  ASSUME IInv, NEW p \in Proc, NEW l \in Lock, ReleasePartition(p, l)
  PROVE  /\ TableLess(p, l, ToRelease(p, l)) /\ Marked(p, l)' = {}
         /\ \A l2 \in Lock : l2 # l => Marked(p, l2)' = Marked(p, l2)
  <1>1. PICK lk : lk = lock[l]
    OBVIOUS
  <1>2. PICK modes : modes = ToRelease(p, l)
    OBVIOUS
  <1>3. PICK marked : marked = [lk.releaseMask EXCEPT ![p] = {}]
    OBVIOUS
  <1>4. PICK r : r = FreedAndCleaned(lk, p, modes, marked)
    OBVIOUS
  <1>5. LockRight(lk, WaitMode) /\ AllBlocked(lk, WaitMode)
    BY <1>1 DEF IInv, LocksRight
  <1>6. lk \in LOCK /\ \A x \in Proc : lk.releaseMask[x] \subseteq lk.holdMask[x]
    BY <1>5 DEF LockRight, CountsRight
  <1>7. lk.releaseMask \in [Proc -> SUBSET LockMode]
    BY <1>6, LockFacts
  <1>8. marked \in [Proc -> SUBSET LockMode] /\ marked[p] = {} /\ \A q \in Proc : q # p => marked[q] = lk.releaseMask[q]
    BY <1>3, <1>7
  <1>9. modes = lk.holdMask[p] \/ modes = lk.releaseMask[p]
    BY <1>1, <1>2 DEF ToRelease
  <1>10. MayFree(lk, p, modes, marked)
    BY <1>6, <1>8, <1>9 DEF MayFree
  <1>11. \A l2 \in Lock : ~Waits(lock[l2], p)
    BY NotWaiting DEF ReleasePartition, Releasing
  <1>12. Settled(lk, r, p, modes) /\ r.releaseMask = marked
    BY <1>1, <1>4, <1>5, <1>10, <1>11, ReleaseRight
  <1>13. [UnGrantLock(lk, p, modes) EXCEPT !.releaseMask[p] = {}] = Freed(lk, p, modes, marked)
    BY <1>3, <1>6 DEF UnGrantLock, Freed, LOCK
  <1>14. Grants(l, r)
    BY <1>1, <1>2, <1>4, <1>13 DEF ReleasePartition, FreedAndCleaned
  <1>15. fpLockBits' = fpLockBits /\ at' = at
    BY DEF ReleasePartition, fastVars
  <1>16. \A q \in Proc : q # p => r.releaseMask[q] = lock[l].releaseMask[q]
    BY <1>1, <1>8, <1>12
  <1>17. TableLess(p, l, modes) /\ lock'[l] = r /\ \A l2 \in Lock : l2 # l => lock'[l2] = lock[l2]
    <2>1. Settled(lock[l], r, p, modes)
      BY <1>1, <1>12
    <2>2. \A q \in Proc : q # p => at'[q] = at[q]
      BY <1>15
    <2>. QED
      BY <1>11, <1>14, <1>15, <1>16, <2>1, <2>2, ReleasedInTable
  <1>. QED
    BY <1>2, <1>8, <1>12, <1>17 DEF Marked

\* ReleasePartition keeps the invariant: the local table is empty, and what remains
\* is marked, or all to be released.
LEMMA ReleasePartitionRight ==
  ASSUME IInv, NEW p \in Proc, NEW l \in Lock, ReleasePartition(p, l)
  PROVE  IInv'
  <1>1. /\ fpLockBits' = fpLockBits /\ FastPathLocalUseCount' = FastPathLocalUseCount
        /\ StrongLockInProgress' = StrongLockInProgress /\ strongCount' = strongCount /\ locallock' = locallock
        /\ deadlockTimer' = deadlockTimer /\ calls' = calls /\ nextProc' = nextProc /\ at' = at /\ call' = call
        /\ Releasing(p) /\ Entries(p) = {}
    BY DEF ReleasePartition, fastVars, localVars, stackVars
  <1>2. /\ TypeOK /\ CallRight(p) /\ EntryRight(p) /\ WaitRight(p) /\ FastRight(p) /\ BeliefRight(p)
        /\ Closed(p)
    BY Parts
  <1>3. PICK modes : modes = ToRelease(p, l)
    OBVIOUS
  <1>4. /\ LocksRight' /\ lock' \in [Lock -> LOCK] /\ proc' \in [Proc -> PROC] /\ proc'[p] = proc[p]
        /\ \A q \in Proc : q # p => Unmoved(q) \/ WokenNow(q)
        /\ \A q \in Proc : q # p /\ Active(q)' => NewSafe(q)
        /\ \A l2 \in Lock : \A k : k \in Hold(p, l2)' <=> k \in Hold(p, l2) /\ ~(l2 = l /\ k \in modes)
        /\ \A l2 \in Lock : ~Waits(lock'[l2], p)
        /\ Marked(p, l)' = {} /\ \A l2 \in Lock : l2 # l => Marked(p, l2)' = Marked(p, l2)
    BY <1>3, PartitionSettled DEF TableLess
  <1>5. at[p] \in {"release", "releaseAll"} /\ ~StrongLockInProgress[p] /\ ~Active(p)
    <2>1. at[p] \in {"release", "releaseAll"}
      BY <1>1 DEF Releasing
    <2>. QED
      BY <1>2, <2>1 DEF CallRight, Active, Releasing
  <1>6. \A l2 \in Lock, m \in LockMode : ~locallock[p][l2][m].exists /\ ~(locallock[p][l2][m].nLocks > 0)
    <2>. SUFFICES ASSUME NEW l2 \in Lock, NEW m \in LockMode
                  PROVE  ~locallock[p][l2][m].exists /\ ~(locallock[p][l2][m].nLocks > 0)
      OBVIOUS
    <2>1. <<l2, m>> \in Lock \X LockMode
      OBVIOUS
    <2>. QED
      BY <1>1, <1>2, <2>1 DEF Entries, EntryRight
  <1>7. CountRight' /\ strongCount' \in [DOMAIN strongCount' -> Nat]
    BY <1>1, CountSame
  <1>8. TypeOK'
    BY <1>1, <1>2, <1>4, <1>7 DEF TypeOK, PROC
  <1>9. CallRight(p)'
    BY <1>1, <1>2, <1>5 DEF CallRight
  <1>10. EntryRight(p)'
    BY <1>1, <1>2, <1>6 DEF EntryRight
  <1>11. WaitRight(p)'
    <2>1. proc[p].waitLock = NULL
      BY <1>5, NotWaiting
    <2>. QED
      BY <1>1, <1>2, <1>4, <1>5, <2>1, LockTableAssumption DEF WaitRight
  <1>12. FastRight(p)'
    BY <1>1, <1>2, <1>4 DEF FastRight
  <1>13. BeliefRight(p)'
    <2>1. at'[p] = at[p] /\ Releasing(p)'
      BY <1>1 DEF Releasing
    <2>. SUFFICES ASSUME NEW l2 \in Lock, NEW k \in LockMode
                  PROVE  k \in Held(p, l2)' => k \in Hold(p, l2)' /\ (at[p] = "release" => k \in Marked(p, l2)')
      BY <1>1, <1>6, <2>1 DEF BeliefRight
    <2>2. k \notin fpLockBits[p][l2]
      BY <1>2, <1>6 DEF FastRight
    <2>3. ASSUME k \in Hold(p, l2)', at[p] = "release"
          PROVE  k \in Marked(p, l2)'
      <3>1. k \in Hold(p, l2) /\ ~(l2 = l /\ k \in modes)
        BY <1>4, <2>3
      <3>2. k \in Marked(p, l2)
        BY <1>2, <1>6, <2>3, <3>1 DEF BeliefRight, Held, Hold
      <3>3. modes = Marked(p, l)
        BY <1>3, <2>3 DEF ToRelease, allLocks, Marked
      <3>. QED
        BY <1>4, <3>1, <3>2, <3>3
    <2>. QED
      BY <1>1, <2>2, <2>3 DEF Held, Hold
  <1>14. ProcRight(p)'
    BY <1>9, <1>10, <1>11, <1>12, <1>13 DEF ProcRight
  <1>15. Closed(p)'
    BY <1>1, <1>2 DEF Closed
  <1>16. OthersFine(p) /\ FastShrinks
    BY <1>1, <1>4 DEF OthersFine, Mine, FastShrinks
  <1>17. ~Active(p)'
    BY <1>1, <1>5 DEF Active, Releasing
  <1>18. \A q \in Proc : Active(q)' => NewSafe(q)
    BY <1>4, <1>17
  <1>. QED
    BY <1>4, <1>7, <1>8, <1>14, <1>15, <1>16, <1>17, <1>18, Finish

-----------------------------------------------------------------------------
(* The invariant is inductive.                                             *)

\* The initial LOCKs, local tables and counts are empty.
LEMMA InitRight ==
  ASSUME Init
  PROVE  IInv
  <1>1. /\ lock = [l \in Lock |-> FreeLock] /\ proc = [p \in Proc |-> OffQueue("OK")]
        /\ strongCount = [i \in {HashPartition[l] : l \in Lock} |-> 0]
        /\ fpLockBits = [p \in Proc |-> [l \in Lock |-> {}]] /\ FastPathLocalUseCount = [p \in Proc |-> 0]
        /\ locallock = [p \in Proc |-> [l \in Lock |-> [m \in LockMode |-> NoLocal]]]
        /\ StrongLockInProgress = [p \in Proc |-> FALSE] /\ deadlockTimer = [p \in Proc |-> FALSE]
        /\ at = [p \in Proc |-> "run"] /\ call = [p \in Proc |-> Nothing]
        /\ nextProc = [p \in Proc |-> 0] /\ calls = [p \in Proc |-> 0]
    BY DEF Init
  <1>2. PICK free : free = FreeLock
    OBVIOUS
  <1>3. /\ LockRight(free, WaitMode) /\ free \in LOCK
        /\ \A p \in Proc : free.holdMask[p] = {} /\ free.releaseMask[p] = {} /\ ~Waits(free, p)
    BY <1>2, FreeRight DEF LockRight, CountsRight
  <1>4. \A l \in Lock : lock[l] = free
    BY <1>1, <1>2
  <1>5. \A p \in Proc, l \in Lock : lock[l].holdMask[p] = {} /\ lock[l].releaseMask[p] = {} /\ ~Waits(lock[l], p)
    BY <1>3, <1>4
  <1>6. LocksRight
    BY <1>3, <1>4 DEF LocksRight, AllBlocked
  <1>7. \A p \in Proc, l \in Lock, m \in LockMode :
           /\ locallock[p][l][m] \in ENTRY /\ locallock[p][l][m].nLocks = 0
           /\ locallock[p][l][m].strong = FALSE /\ locallock[p][l][m].exists = FALSE
    <2>1. NoLocal \in ENTRY /\ NoLocal.nLocks = 0 /\ NoLocal.strong = FALSE /\ NoLocal.exists = FALSE
      BY DEF NoLocal, ENTRY
    <2>2. \A p \in Proc, l \in Lock, m \in LockMode : locallock[p][l][m] = NoLocal
      BY <1>1
    <2>. QED
      BY <2>1, <2>2
  <1>8. \A p \in Proc : proc[p] \in PROC /\ proc[p].waitLock = NULL /\ proc[p].waitStatus = "OK"
    BY <1>1 DEF OffQueue, PROC
  <1>9. TypeOK
    <2>1. lock \in [Lock -> LOCK]
      BY <1>1, <1>2, <1>3
    <2>2. proc \in [Proc -> PROC]
      BY <1>1, <1>8
    <2>3. locallock \in LOCALS
      BY <1>1 DEF LOCALS, ENTRY, NoLocal
    <2>4. /\ strongCount \in [DOMAIN strongCount -> Nat] /\ fpLockBits \in [Proc -> [Lock -> SUBSET LockMode]]
          /\ StrongLockInProgress \in [Proc -> BOOLEAN] /\ deadlockTimer \in [Proc -> BOOLEAN]
          /\ calls \in [Proc -> Nat]
      BY <1>1
    <2>5. call \in [Proc -> CALL] /\ at \in [Proc -> PLACE]
      BY <1>1 DEF Nothing, CALL, PLACE
    <2>6. FastPathLocalUseCount \in [Proc -> 0..FP_LOCK_SLOTS_PER_BACKEND] /\ nextProc \in [Proc -> 0..NProcs]
      BY <1>1, LockTableAssumption, LockManagerAssumption
    <2>. QED
      BY <2>1, <2>2, <2>3, <2>4, <2>5, <2>6 DEF TypeOK, LOCALS, ENTRY, PROC, CALL, PLACE
  <1>10. CountRight
    <2>1. \A i : StrongEntries(i) = {}
      BY <1>7 DEF StrongEntries
    <2>2. \A i \in DOMAIN strongCount : strongCount[i] = Cardinality(StrongEntries(i))
      BY <1>1, <2>1, FS_EmptySet
    <2>. QED
      BY <1>1, <2>2 DEF CountRight
  <1>11. \A p \in Proc, l \in Lock : Held(p, l) = {} /\ fpLockBits[p][l] = {} /\ Hold(p, l) = {} /\ Marked(p, l) = {}
    BY <1>1, <1>5 DEF Held, Hold, Marked
  <1>12. HoldSafe
    BY <1>11 DEF HoldSafe
  <1>. SUFFICES ASSUME NEW p \in Proc
                PROVE  ProcRight(p) /\ Closed(p)
    BY <1>6, <1>9, <1>10, <1>12 DEF IInv
  <1>13. at[p] = "run" /\ StrongLockInProgress[p] = FALSE /\ calls[p] = 0 /\ FastPathLocalUseCount[p] = 0
    BY <1>1
  <1>14. CallRight(p)
    BY <1>7, <1>13 DEF CallRight
  <1>15. EntryRight(p)
    BY <1>7 DEF EntryRight
  <1>16. WaitRight(p)
    BY <1>5, <1>8, <1>13, LockTableAssumption DEF WaitRight
  <1>17. FastRight(p)
    <2>1. UsedSlots(fpLockBits[p]) = 0
      <3>1. {l \in Lock : fpLockBits[p][l] # {}} = {}
        BY <1>11
      <3>. QED
        BY <3>1, FS_EmptySet DEF UsedSlots
    <2>. QED
      BY <1>11, <1>13, <2>1 DEF FastRight
  <1>18. BeliefRight(p)
    BY <1>7, <1>11 DEF BeliefRight
  <1>19. Closed(p)
    BY <1>11, <1>13 DEF Closed
  <1>. QED
    BY <1>14, <1>15, <1>16, <1>17, <1>18, <1>19 DEF ProcRight

\* A step in which nothing happens.
LEMMA StutterRight ==
  ASSUME IInv, UNCHANGED vars
  PROVE  IInv'
  <1>1. /\ lock' = lock /\ proc' = proc /\ fpLockBits' = fpLockBits /\ FastPathLocalUseCount' = FastPathLocalUseCount
        /\ StrongLockInProgress' = StrongLockInProgress /\ strongCount' = strongCount /\ locallock' = locallock
        /\ deadlockTimer' = deadlockTimer /\ calls' = calls /\ nextProc' = nextProc /\ at' = at /\ call' = call
    BY DEF vars, fastVars, localVars, stackVars
  <1>2. PICK p : p = 0
    OBVIOUS
  <1>3. Mine(p)
    BY <1>1 DEF Mine
  <1>4. LocksRight' /\ \A q \in Proc : Unmoved(q)
    BY <1>1, SameLocks
  <1>5. TypeOK /\ HoldSafe /\ \A q \in Proc : ProcRight(q) /\ Closed(q)
    BY DEF IInv
  <1>6. CountRight' /\ strongCount' \in [DOMAIN strongCount' -> Nat]
    BY <1>1, CountSame
  <1>7. TypeOK'
    BY <1>1, <1>5 DEF TypeOK
  <1>8. HoldSafe'
    BY <1>1, <1>5 DEF HoldSafe, Active, Releasing, Held
  <1>9. \A q \in Proc : ProcRight(q)'
    <2>. SUFFICES ASSUME NEW q \in Proc
                  PROVE  ProcRight(q)'
      OBVIOUS
    <2>1. q # p
      BY <1>2, LockTableAssumption DEF Proc
    <2>. QED
      BY <1>3, <1>4, <1>5, <2>1, UnmovedRight
  <1>10. \A q \in Proc : Closed(q)'
    BY <1>1, <1>5 DEF Closed
  <1>. QED
    BY <1>4, <1>6, <1>7, <1>8, <1>9, <1>10 DEF IInv

\* A step of the model keeps the invariant.
LEMMA NextRight ==
  ASSUME IInv, [Next]_vars
  PROVE  IInv'
  <1>1. CASE UNCHANGED vars
    BY <1>1, StutterRight
  <1>2. CASE Next
    <2>1. PICK p \in Proc :
            \/ Step(p)
            \/ \E r \in Requests[p], dontWait \in {FALSE, (p \in Impatient)} : LockAcquire(p, r[1], r[2], dontWait)
            \/ \E r \in Requests[p] : LockRelease(p, r[1], r[2])
            \/ OutOfSharedMemory(p) \/ Interrupted(p)
      BY <1>2 DEF Next
    <2>2. CASE Step(p)
      <3>1. \/ FastPathTransferRelationLocks(p) \/ GrantAtOnce(p) \/ NotAvailable(p) \/ ProcSleep(p)
            \/ Awake(p) \/ CheckDeadLock(p) \/ LockErrorCleanup(p) \/ RemoveLocalLock(p)
            \/ \E isCommit \in BOOLEAN : ProcReleaseLocks(p, isCommit)
            \/ \E l \in Lock, m \in LockMode : ReleaseLocal(p, l, m)
            \/ \E l \in Lock : ReleasePartition(p, l)
            \/ Released(p)
        BY <2>2 DEF Step
      <3>2. CASE FastPathTransferRelationLocks(p)
        BY <3>2, FastPathTransferRight
      <3>3. CASE GrantAtOnce(p)
        BY <3>3, GrantAtOnceRight
      <3>4. CASE NotAvailable(p)
        BY <3>4, NotAvailableRight
      <3>5. CASE ProcSleep(p)
        BY <3>5, ProcSleepRight
      <3>6. CASE Awake(p)
        BY <3>6, AwakeRight
      <3>7. CASE CheckDeadLock(p)
        BY <3>7, CheckDeadLockRight
      <3>8. CASE LockErrorCleanup(p)
        BY <3>8, LockErrorCleanupRight
      <3>9. CASE RemoveLocalLock(p)
        BY <3>9, RemoveLocalLockRight
      <3>10. CASE \E isCommit \in BOOLEAN : ProcReleaseLocks(p, isCommit)
        BY <3>10, ProcReleaseLocksRight
      <3>11. CASE \E l \in Lock, m \in LockMode : ReleaseLocal(p, l, m)
        BY <3>11, ReleaseLocalRight
      <3>12. CASE \E l \in Lock : ReleasePartition(p, l)
        BY <3>12, ReleasePartitionRight
      <3>13. CASE Released(p)
        BY <3>13, ReleasedRight
      <3>. QED
        BY <3>1, <3>2, <3>3, <3>4, <3>5, <3>6, <3>7, <3>8, <3>9, <3>10, <3>11, <3>12, <3>13
    <2>3. CASE \E r \in Requests[p], dontWait \in {FALSE, (p \in Impatient)} : LockAcquire(p, r[1], r[2], dontWait)
      <3>1. PICK r \in Requests[p], dontWait \in {FALSE, (p \in Impatient)} : LockAcquire(p, r[1], r[2], dontWait)
        BY <2>3
      <3>2. {FALSE, (p \in Impatient)} \subseteq BOOLEAN
        OBVIOUS
      <3>3. dontWait \in BOOLEAN
        BY <3>2, Zenon
      <3>. QED
        BY <3>1, <3>3, LockAcquireRight
    <2>4. CASE \E r \in Requests[p] : LockRelease(p, r[1], r[2])
      <3>1. PICK r \in Requests[p] : LockRelease(p, r[1], r[2])
        BY <2>4
      <3>2. r[1] \in Lock /\ r[2] \in LockMode
        BY LockManagerAssumption
      <3>. QED
        BY <3>1, <3>2, LockReleaseRight
    <2>5. CASE OutOfSharedMemory(p)
      BY <2>5, OutOfSharedMemoryRight
    <2>6. CASE Interrupted(p)
      BY <2>6, InterruptedRight
    <2>. QED
      BY <2>1, <2>2, <2>3, <2>4, <2>5, <2>6
  <1>. QED
    BY <1>1, <1>2

\* The inductive invariant holds in every state that can be reached.
THEOREM Inductive == Spec => []IInv
  BY InitRight, NextRight, PTL DEF Spec

-----------------------------------------------------------------------------
(* What follows from it.                                                   *)

\* The values of all variables are of their types, and FastPathLocalUseCount never
\* exceeds the slots.
THEOREM TypeCorrect == Spec => []TypeOK
  <1>1. IInv => TypeOK
    BY DEF IInv
  <1>. QED
    BY <1>1, Inductive, PTL

\* Transactions that go on do not rely on locks that conflict.
LEMMA NoConflictFollows ==
  ASSUME IInv
  PROVE  NoConflict
  <1>. SUFFICES ASSUME NEW l \in Lock, NEW p \in Proc, Active(p), NEW m \in LockMode, locallock[p][l][m].nLocks > 0,
                       NEW q \in Proc \ {p}, NEW k \in LockMode, locallock[q][l][k].nLocks > 0,
                       k \in conflictTab(m), Active(q)
                PROVE  FALSE
    BY DEF NoConflict, Relied
  <1>1. HoldSafe /\ BeliefRight(p) /\ BeliefRight(q)
    BY Parts
  <1>2. m \in Held(p, l) /\ k \in Held(q, l)
    BY <1>1 DEF BeliefRight
  <1>. QED
    BY <1>1, <1>2 DEF HoldSafe

\* However locks are acquired, transferred, granted and given back, two transactions
\* never both rely on locks that conflict.
THEOREM NoConflictHolds == Spec => []NoConflict
  <1>1. IInv => NoConflict
    BY NoConflictFollows
  <1>. QED
    BY <1>1, Inductive, PTL

\* What a transaction knows of is what it holds, unless it is asleep, has just been
\* interrupted or gives its locks back.
LEMMA BeliefFollows ==
  ASSUME IInv
  PROVE  BeliefIsTruth
  <1>. SUFFICES ASSUME NEW p \in Proc, ~Releasing(p), at[p] \notin {"sleep", "cleanup"},
                       NEW l \in Lock, NEW m \in LockMode
                PROVE  (locallock[p][l][m].nLocks > 0) <=> (m \in Held(p, l))
    BY DEF BeliefIsTruth, Held
  <1>1. BeliefRight(p)
    BY Parts
  <1>. QED
    BY <1>1 DEF BeliefRight

\* A backend's local table and the shared structures agree on what it holds.
THEOREM BeliefHolds == Spec => []BeliefIsTruth
  <1>1. IInv => BeliefIsTruth
    BY BeliefFollows
  <1>. QED
    BY <1>1, Inductive, PTL

\* Who has no entry in its local table has nothing in the shared structures either.
LEMMA NothingLeftFollows ==
  ASSUME IInv
  PROVE  NothingLeftBehind
  <1>1. CountRight
    BY DEF IInv
  <1>2. \A i \in DOMAIN strongCount :
          strongCount[i] = Cardinality({e \in Proc \X Lock \X LockMode :
                             HashPartition[e[2]] = i /\ locallock[e[1]][e[2]][e[3]].strong})
    BY <1>1 DEF CountRight, StrongEntries
  <1>3. ASSUME NEW p \in Proc, at[p] = "run", calls[p] = 0
        PROVE  /\ Entries(p) = {} /\ proc[p].waitLock = NULL
               /\ \A l \in Lock : fpLockBits[p][l] = {} /\ ~Contains(lock[l].procLocks, p)
    <2>1. TypeOK /\ LocksRight /\ CallRight(p) /\ EntryRight(p) /\ FastRight(p) /\ BeliefRight(p)
      BY Parts
    <2>2. \A l \in Lock, m \in LockMode : ~locallock[p][l][m].exists /\ ~(locallock[p][l][m].nLocks > 0)
      BY <1>3, <2>1 DEF CallRight, EntryRight
    <2>3. Entries(p) = {}
      BY <2>2 DEF Entries
    <2>4. proc[p].waitLock = NULL /\ \A l \in Lock : ~Waits(lock[l], p)
      BY <1>3, NotWaiting
    <2>5. ~Releasing(p) /\ at[p] \notin {"sleep", "cleanup"}
      BY <1>3 DEF Releasing
    <2>. SUFFICES ASSUME NEW l \in Lock
                  PROVE  fpLockBits[p][l] = {} /\ ~Contains(lock[l].procLocks, p)
      BY <2>3, <2>4
    <2>6. fpLockBits[p][l] \subseteq LockMode /\ lock[l] \in LOCK /\ lock[l].holdMask[p] \subseteq LockMode
      <3>1. lock[l] \in LOCK /\ fpLockBits[p][l] \subseteq LockMode
        BY <2>1 DEF TypeOK
      <3>. QED
        BY <3>1, LockFacts
    <2>7. \A m \in LockMode : m \notin Held(p, l)
      BY <2>1, <2>2, <2>5 DEF BeliefRight
    <2>8. fpLockBits[p][l] = {} /\ lock[l].holdMask[p] = {}
      BY <2>6, <2>7 DEF Held
    <2>9. p \notin ToSet(lock[l].procLocks)
      BY <2>1, <2>4, <2>8 DEF LocksRight, LockRight
    <2>10. lock[l].procLocks \in Seq(Proc)
      BY <2>6, LockFacts
    <2>. QED
      BY <2>8, <2>9, <2>10, ListFacts
  <1>. QED
    BY <1>2, <1>3 DEF NothingLeftBehind

\* A backend without a transaction has left neither a lock nor an entry in a queue,
\* and strongCount counts no more than the strong locks there are.
THEOREM NothingLeftBehindHolds == Spec => []NothingLeftBehind
  <1>1. IInv => NothingLeftBehind
    BY NothingLeftFollows
  <1>. QED
    BY <1>1, Inductive, PTL

\* Whoever is in a queue has somebody to wait for.
LEMMA NoIdleFollows ==
  ASSUME IInv
  PROVE  NoIdleWaiter
  <1>. SUFFICES ASSUME NEW l \in Lock, NEW i \in DOMAIN lock[l].waitProcs
                PROVE  Blockers(lock[l].waitProcs[i]) # {}
    BY DEF NoIdleWaiter
  <1>1. PICK q : q = lock[l].waitProcs[i]
    OBVIOUS
  <1>2. LockRight(lock[l], WaitMode) /\ AllBlocked(lock[l], WaitMode)
    BY DEF IInv, LocksRight
  <1>3. PICK queue : queue = lock[l].waitProcs
    OBVIOUS
  <1>4. queue \in Seq(Proc) /\ Distinct(queue)
    BY <1>2, <1>3, LockFacts DEF LockRight, CountsRight
  <1>5. q \in Proc /\ q \in ToSet(queue)
    BY <1>1, <1>3, <1>4, ListFacts
  <1>6. Waits(lock[l], q)
    BY <1>3, <1>5 DEF Waits
  <1>7. proc[q].waitLock = l /\ l # NULL
    BY <1>5, <1>6, LockTableAssumption DEF IInv, ProcRight, WaitRight
  <1>8. Blocked(lock[l], WaitMode, q)
    BY <1>2, <1>5, <1>6 DEF AllBlocked
  <1>9. WaitMode[q] = proc[q].waitLockMode /\ \A r \in Proc : WaitMode[r] = proc[r].waitLockMode
    BY <1>5 DEF WaitMode
  <1>10. PICK r \in Proc :
            /\ r # q
            /\ \/ lock[l].holdMask[r] \cap conflictTab(proc[q].waitLockMode) # {}
               \/ IsBefore(r, q, queue) /\ proc[r].waitLockMode \in conflictTab(proc[q].waitLockMode)
    <2>1. \A r \in Proc : IsBefore(r, q, queue) => r # q
      BY <1>4, ListFacts DEF IsBefore, Distinct
    <2>. QED
      BY <1>3, <1>8, <1>9, <2>1 DEF Blocked
  <1>11. Queues[l] = queue
    BY <1>3 DEF Queues
  <1>12. r \in BlockersIn(q, Queues)
    BY <1>7, <1>10, <1>11 DEF BlockersIn, IsBefore
  <1>. QED
    BY <1>1, <1>12 DEF Blockers

\* Nobody sleeps for a lock that is to be had: no release, no failure and no
\* rearrangement of a queue forgets a waiter that could go on.
THEOREM NoIdleWaiterHolds == Spec => []NoIdleWaiter
  <1>1. IInv => NoIdleWaiter
    BY NoIdleFollows
  <1>. QED
    BY <1>1, Inductive, PTL

-----------------------------------------------------------------------------
(* Deadlocks.                                                              *)

\* Of those who sleep and wait nobody comes to hold more that is in another's way: a
\* weak lock transferred from a fast-path array is in nobody's way, for whoever waits
\* in a strong mode has emptied all arrays.
LEMMA HardKept ==
  ASSUME IInv, IInv', NEW q \in Proc, NEW r \in Proc, at[q] = "sleep", proc[q].waitLock # NULL,
         at'[r] = "sleep", proc'[r].waitLock # NULL, locallock'[r] = locallock[r],
         NEW l, l = proc[q].waitLock, NEW m, m \in lock'[l].holdMask[r], m \in conflictTab(proc[q].waitLockMode)
  PROVE  m \in lock[l].holdMask[r]
  <1>1. /\ TypeOK /\ CallRight(q) /\ WaitRight(q) /\ Closed(q) /\ BeliefRight(r) /\ FastRight(r)
    BY Parts
  <1>2. BeliefRight(r)' /\ WaitRight(r)'
    BY DEF IInv, ProcRight
  <1>3. l \in Lock /\ l = call[q].lock /\ proc[q].waitLockMode = call[q].mode /\ call[q].mode \in LockMode
    BY <1>1 DEF WaitRight, CallRight
  <1>4. m \in LockMode
    BY DEF conflictTab
  <1>5. locallock'[r][l][m].nLocks > 0
    <2>1. m \in Held(r, l)'
      BY DEF Held
    <2>2. ~(proc'[r].waitStatus = "OK")
      BY <1>2 DEF WaitRight
    <2>3. ~Releasing(r)'
      BY DEF Releasing
    <2>. QED
      BY <1>2, <1>3, <1>4, <2>1, <2>2, <2>3 DEF BeliefRight
  <1>6. m \in lock[l].holdMask[r] \/ m \in fpLockBits[r][l]
    BY <1>1, <1>3, <1>4, <1>5 DEF BeliefRight, Held
  <1>7. m \notin fpLockBits[r][l]
    <2>. SUFFICES ASSUME m \in fpLockBits[r][l]
                  PROVE  FALSE
      OBVIOUS
    <2>1. Eligible(l, m)
      BY <1>1, <1>3, <1>4 DEF FastRight
    <2>2. Strong(l, call[q].mode)
      BY <1>3, <1>4, <2>1, WeakConflicts
    <2>3. StrongLockInProgress[q]
      BY <1>1, <1>3, <2>2 DEF CallRight
    <2>. QED
      BY <1>1, <1>3, <2>3 DEF Closed
  <1>. QED
    BY <1>6, <1>7

\* q waits for r: r holds a lock in q's way, or waits before q for one that is.
WaitsForNow(q, r, l) ==
  /\ l # NULL /\ r # q
  /\ \/ lock[l].holdMask[r] \cap conflictTab(proc[q].waitLockMode) # {}
     \/ IsBefore(r, q, lock[l].waitProcs) /\ proc[r].waitLockMode \in conflictTab(proc[q].waitLockMode)

\* Those are the blockers.
LEMMA BlockersMean ==
  ASSUME NEW q \in Proc, NEW r \in Proc, proc[q].waitLock \in Lock \cup {NULL}
  PROVE  r \in Blockers(q) <=> WaitsForNow(q, r, proc[q].waitLock)
  <1>1. CASE proc[q].waitLock = NULL
    BY <1>1 DEF Blockers, BlockersIn, WaitsForNow
  <1>2. CASE proc[q].waitLock \in Lock
    <2>1. Queues[proc[q].waitLock] = lock[proc[q].waitLock].waitProcs
      BY <1>2 DEF Queues
    <2>. QED
      BY <1>2, <2>1 DEF Blockers, BlockersIn, WaitsForNow, IsBefore
  <1>. QED
    BY <1>1, <1>2

\* The same of a state after a step.
LEMMA BlockersMeanAfter ==
  ASSUME NEW q \in Proc, NEW r \in Proc, proc'[q].waitLock \in Lock \cup {NULL}
  PROVE  r \in Blockers(q)' <=> WaitsForNow(q, r, proc[q].waitLock)'
  <1>1. CASE proc'[q].waitLock = NULL
    BY <1>1 DEF Blockers, BlockersIn, WaitsForNow
  <1>2. CASE proc'[q].waitLock \in Lock
    <2>1. Queues'[proc'[q].waitLock] = lock'[proc'[q].waitLock].waitProcs
      BY <1>2 DEF Queues
    <2>. QED
      BY <1>2, <2>1 DEF Blockers, BlockersIn, WaitsForNow, IsBefore
  <1>. QED
    BY <1>1, <1>2

\* Those who have had their turn to check.
Checked == {q \in Proc : at[q] = "sleep" /\ ~deadlockTimer[q]}

\* The step is p's: others are only woken.
OthersAsleep(p) == \A q \in Proc : q # p =>
  /\ at'[q] = at[q] /\ deadlockTimer'[q] = deadlockTimer[q] /\ locallock'[q] = locallock[q]
  /\ proc'[q] = proc[q] \/ proc'[q].waitLock = NULL

\* After it p is awake, has yet to check or is in no queue.
InNoCircle(p) == at'[p] = "sleep" => deadlockTimer'[p] \/ proc'[p].waitLock = NULL

\* Nobody but p comes before another who was not before.
OrderStays(p) == \A l \in Lock : \A x, y \in Proc : x # p /\ y # p /\ IsBefore(x, y, lock'[l].waitProcs) => IsBefore(x, y, lock[l].waitProcs)

\* Then whoever waits for each other did so before.
LEMMA OverlookedKept ==
  ASSUME IInv, IInv', NoDeadlockOverlooked, NEW p \in Proc, OthersAsleep(p), InNoCircle(p), OrderStays(p)
  PROVE  NoDeadlockOverlooked'
  <1>. SUFFICES ASSUME NEW S \in SUBSET {q \in Proc : at'[q] = "sleep" /\ ~deadlockTimer'[q]}, Stuck(S)'
                PROVE  FALSE
    BY DEF NoDeadlockOverlooked
  <1>1. S \in SUBSET Proc /\ \A q \in S : at'[q] = "sleep" /\ ~deadlockTimer'[q]
    OBVIOUS
  <1>2. S # {} /\ \A q \in S : \E r \in S : r \in Blockers(q)'
    BY DEF Stuck, StuckIn, Blockers
  <1>3. \A q \in Proc : proc'[q].waitLock \in Lock \cup {NULL} /\ proc[q].waitLock \in Lock \cup {NULL}
    BY DEF IInv, TypeOK
  <1>4. \A q \in S : proc'[q].waitLock # NULL
    <2>. SUFFICES ASSUME NEW q \in S
                  PROVE  proc'[q].waitLock # NULL
      OBVIOUS
    <2>1. PICK r \in S : r \in Blockers(q)'
      BY <1>2
    <2>2. WaitsForNow(q, r, proc[q].waitLock)'
      BY <1>1, <1>3, <2>1, BlockersMeanAfter
    <2>. QED
      BY <2>2 DEF WaitsForNow
  <1>5. p \notin S
    BY <1>1, <1>4 DEF InNoCircle
  <1>6. \A q \in S : q \in Proc /\ q # p /\ at[q] = "sleep" /\ ~deadlockTimer[q] /\ locallock'[q] = locallock[q] /\ proc'[q] = proc[q]
    BY <1>1, <1>4, <1>5 DEF OthersAsleep
  <1>7. ASSUME NEW q \in S
        PROVE  \E r \in S : r \in Blockers(q)
    <2>1. PICK r \in S : r \in Blockers(q)'
      BY <1>2, <1>7
    <2>2. q \in Proc /\ r \in Proc
      BY <1>1
    <2>3. PICK l : l = proc[q].waitLock
      OBVIOUS
    <2>4. WaitsForNow(q, r, proc[q].waitLock)'
      BY <1>3, <2>1, <2>2, BlockersMeanAfter
    <2>5. /\ l # NULL /\ r # q
          /\ \/ lock'[l].holdMask[r] \cap conflictTab(proc[q].waitLockMode) # {}
             \/ IsBefore(r, q, lock'[l].waitProcs) /\ proc[r].waitLockMode \in conflictTab(proc[q].waitLockMode)
      BY <1>6, <2>3, <2>4 DEF WaitsForNow
    <2>6. l \in Lock
      BY <1>3, <2>2, <2>3, <2>5
    <2>7. ASSUME NEW m, m \in lock'[l].holdMask[r], m \in conflictTab(proc[q].waitLockMode)
          PROVE  m \in lock[l].holdMask[r]
      <3>1. at[q] = "sleep" /\ proc[q].waitLock # NULL
        BY <1>6, <2>3, <2>5
      <3>2. at'[r] = "sleep" /\ proc'[r].waitLock # NULL /\ locallock'[r] = locallock[r]
        BY <1>1, <1>4, <1>6
      <3>. QED
        BY <2>2, <2>3, <2>7, <3>1, <3>2, HardKept
    <2>8. IsBefore(r, q, lock'[l].waitProcs) => IsBefore(r, q, lock[l].waitProcs)
      BY <1>6, <2>2, <2>6 DEF OrderStays
    <2>9. WaitsForNow(q, r, proc[q].waitLock)
      BY <2>3, <2>5, <2>7, <2>8 DEF WaitsForNow
    <2>10. r \in Blockers(q)
      BY <1>3, <2>2, <2>9, BlockersMean
    <2>. QED
      BY <2>10
  <1>8. Stuck(S)
    BY <1>2, <1>7 DEF Stuck, StuckIn, Blockers
  <1>9. S \in SUBSET {q \in Proc : at[q] = "sleep" /\ ~deadlockTimer[q]}
    BY <1>6
  <1>. QED
    BY <1>8, <1>9 DEF NoDeadlockOverlooked

\* The others are where they are and know what they know.
OthersRun(p) == \A q \in Proc : q # p => at'[q] = at[q] /\ deadlockTimer'[q] = deadlockTimer[q] /\ locallock'[q] = locallock[q]
OthersWait(p) == \A q \in Proc : q # p => proc'[q] = proc[q] \/ proc'[q].waitLock = NULL

\* What the steps of p may do to the variables that are the backends' own.
OwnAt(p) == at' = at \/ \E place : at' = [at EXCEPT ![p] = place]
OwnTimer(p) == deadlockTimer' = deadlockTimer \/ \E b : deadlockTimer' = [deadlockTimer EXCEPT ![p] = b]
OwnLocal(p) == locallock' = locallock \/ \E e : locallock' = [locallock EXCEPT ![p] = e]

\* Those of others are the same.
LEMMA OwnOnly ==
  ASSUME TypeOK, NEW p \in Proc, OwnAt(p), OwnTimer(p), OwnLocal(p)
  PROVE  OthersRun(p)
  <1>1. at \in [Proc -> PLACE] /\ deadlockTimer \in [Proc -> BOOLEAN] /\ locallock \in LOCALS
    BY DEF TypeOK, PLACE, LOCALS, ENTRY
  <1>2. \A q \in Proc : q # p => at'[q] = at[q]
    BY <1>1 DEF OwnAt
  <1>3. \A q \in Proc : q # p => deadlockTimer'[q] = deadlockTimer[q]
    BY <1>1 DEF OwnTimer
  <1>4. \A q \in Proc : q # p => locallock'[q] = locallock[q]
    BY <1>1 DEF OwnLocal, LOCALS
  <1>. QED
    BY <1>2, <1>3, <1>4 DEF OthersRun

\* A step of p, whatever it requests.
StepOf(p) ==
  \/ Step(p)
  \/ \E l \in Lock, m \in LockMode, dontWait \in BOOLEAN : LockAcquire(p, l, m, dontWait)
  \/ \E l \in Lock, m \in LockMode : LockRelease(p, l, m)
  \/ OutOfSharedMemory(p) \/ Interrupted(p)

\* Every step is a step of one backend.
LEMMA SomebodysStep ==
  ASSUME Next
  PROVE  \E p \in Proc : StepOf(p)
  <1>1. PICK p \in Proc :
          \/ Step(p)
          \/ \E r \in Requests[p], dontWait \in {FALSE, (p \in Impatient)} : LockAcquire(p, r[1], r[2], dontWait)
          \/ \E r \in Requests[p] : LockRelease(p, r[1], r[2])
          \/ OutOfSharedMemory(p) \/ Interrupted(p)
    BY DEF Next
  <1>2. \A r \in Requests[p] : r[1] \in Lock /\ r[2] \in LockMode
    BY LockManagerAssumption
  <1>3. ASSUME NEW r \in Requests[p], NEW dontWait \in {FALSE, (p \in Impatient)}, LockAcquire(p, r[1], r[2], dontWait)
        PROVE  \E l \in Lock, m \in LockMode, d \in BOOLEAN : LockAcquire(p, l, m, d)
    <2>1. {FALSE, (p \in Impatient)} \subseteq BOOLEAN
      OBVIOUS
    <2>2. dontWait \in BOOLEAN
      BY <2>1, Zenon
    <2>. QED
      BY <1>2, <1>3, <2>2
  <1>4. ASSUME NEW r \in Requests[p], LockRelease(p, r[1], r[2])
        PROVE  \E l \in Lock, m \in LockMode : LockRelease(p, l, m)
    BY <1>2, <1>4
  <1>. QED
    BY <1>1, <1>3, <1>4 DEF StepOf

\* A step changes the stack and the local table of one backend.
LEMMA StepsOwn ==
  ASSUME NEW p \in Proc, StepOf(p)
  PROVE  OwnAt(p) /\ OwnTimer(p) /\ OwnLocal(p)
  <1>1. CASE FastPathTransferRelationLocks(p)
    BY <1>1 DEF FastPathTransferRelationLocks, Goto, localVars, OwnAt, OwnTimer, OwnLocal
  <1>2. CASE GrantAtOnce(p)
    BY <1>2 DEF GrantAtOnce, Acquired, GrantLockLocal, Goto, OwnAt, OwnTimer, OwnLocal
  <1>3. CASE NotAvailable(p)
    BY <1>3 DEF NotAvailable, Goto, OwnAt, OwnTimer, OwnLocal
  <1>4. CASE ProcSleep(p)
    BY <1>4 DEF ProcSleep, Acquired, GrantLockLocal, Goto, localVars, OwnAt, OwnTimer, OwnLocal
  <1>5. CASE Awake(p)
    BY <1>5 DEF Awake, Acquired, GrantLockLocal, Goto, localVars, OwnAt, OwnTimer, OwnLocal
  <1>6. CASE CheckDeadLock(p)
    BY <1>6 DEF CheckDeadLock, localVars, OwnAt, OwnTimer, OwnLocal
  <1>7. CASE LockErrorCleanup(p)
    BY <1>7 DEF LockErrorCleanup, RememberGrant, GrantLockLocal, Goto, OwnAt, OwnTimer, OwnLocal
  <1>8. CASE RemoveLocalLock(p)
    BY <1>8 DEF RemoveLocalLock, Goto, OwnAt, OwnTimer, OwnLocal
  <1>9. CASE \E isCommit \in BOOLEAN : ProcReleaseLocks(p, isCommit)
    BY <1>9 DEF ProcReleaseLocks, AbortStrongLockAcquire, Goto, OwnAt, OwnTimer, OwnLocal
  <1>10. CASE \E l \in Lock, m \in LockMode : ReleaseLocal(p, l, m)
    BY <1>10 DEF ReleaseLocal, OwnAt, OwnTimer, OwnLocal
  <1>11. CASE \E l \in Lock : ReleasePartition(p, l)
    BY <1>11 DEF ReleasePartition, localVars, OwnAt, OwnTimer, OwnLocal
  <1>12. CASE Released(p)
    BY <1>12 DEF Released, localVars, Goto, OwnAt, OwnTimer, OwnLocal
  <1>13. CASE \E l \in Lock, m \in LockMode, dontWait \in BOOLEAN : LockAcquire(p, l, m, dontWait)
    <2>1. PICK l \in Lock, m \in LockMode, dontWait \in BOOLEAN : LockAcquire(p, l, m, dontWait)
      BY <1>13
    <2>2. PICK place : place = (IF Strong(l, m) THEN "transfer" ELSE "table")
      OBVIOUS
    <2>3. at' = at \/ at' = [at EXCEPT ![p] = place]
      BY <2>1, <2>2 DEF LockAcquire, FastPathAcquire, SlowAcquire, Goto
    <2>4. OwnLocal(p)
      BY <2>1 DEF LockAcquire, FastPathAcquire, SlowAcquire, GrantLockLocal, OwnLocal
    <2>5. deadlockTimer' = deadlockTimer
      BY <2>1 DEF LockAcquire
    <2>. QED
      BY <2>3, <2>4, <2>5 DEF OwnAt, OwnTimer
  <1>14. CASE \E l \in Lock, m \in LockMode : LockRelease(p, l, m)
    BY <1>14 DEF LockRelease, Goto, OwnAt, OwnTimer, OwnLocal
  <1>15. CASE OutOfSharedMemory(p)
    BY <1>15 DEF OutOfSharedMemory, AbortStrongLockAcquire, Goto, OwnAt, OwnTimer, OwnLocal
  <1>16. CASE Interrupted(p)
    BY <1>16 DEF Interrupted, AbortStrongLockAcquire, Goto, OwnAt, OwnTimer, OwnLocal
  <1>. QED
    BY <1>1, <1>2, <1>3, <1>4, <1>5, <1>6, <1>7, <1>8, <1>9, <1>10, <1>11, <1>12, <1>13, <1>14, <1>15, <1>16 DEF StepOf, Step

\* What a step may do to a queue but to p's place in it.
KeptBut(s, r, p) == \A x \in Proc : x # p => 
  /\ Waits(r, x) => Waits(s, x)
  /\ \A y \in Proc : y # p /\ Waits(r, x) /\ Waits(r, y) /\ IsBefore(x, y, s.waitProcs) => IsBefore(x, y, r.waitProcs)

\* Then nobody else overtakes.
LEMMA OneOrder ==
  ASSUME IInv, IInv', NEW p \in Proc, NEW l \in Lock, NEW r, SetLock(l, r), KeptBut(lock[l], r, p)
  PROVE  OrderStays(p)
  <1>1. lock'[l] = r /\ \A l2 \in Lock : l2 # l => lock'[l2] = lock[l2]
    BY DEF SetLock, IInv, TypeOK
  <1>2. lock[l].waitProcs \in Seq(Proc) /\ Distinct(lock[l].waitProcs)
    BY LockFacts DEF IInv, LocksRight, LockRight, CountsRight
  <1>3. r.waitProcs \in Seq(Proc) /\ Distinct(r.waitProcs)
    <2>1. LocksRight'
      BY DEF IInv
    <2>2. r \in LOCK /\ Distinct(r.waitProcs)
      BY <1>1, <2>1 DEF LocksRight, LockRight, CountsRight
    <2>. QED
      BY <2>2, LockFacts
  <1>4. ASSUME NEW x \in Proc, NEW y \in Proc, x # p, y # p, IsBefore(x, y, r.waitProcs)
        PROVE  IsBefore(x, y, lock[l].waitProcs)
    <2>1. Waits(r, x) /\ Waits(r, y) /\ x # y /\ ~IsBefore(y, x, r.waitProcs)
      BY <1>3, <1>4, OrderFacts DEF Waits
    <2>2. Waits(lock[l], x) /\ Waits(lock[l], y) /\ ~IsBefore(y, x, lock[l].waitProcs)
      BY <1>4, <2>1 DEF KeptBut
    <2>. QED
      BY <1>2, <2>1, <2>2, OrderFacts DEF Waits
  <1>. QED
    BY <1>1, <1>4 DEF OrderStays

\* A step of a backend that is not asleep afterwards, and of which the others do not
\* hear anything.
LEMMA QuietRight ==
  ASSUME IInv, IInv', NoDeadlockOverlooked, NEW p \in Proc, OthersRun(p), proc' = proc,
         at'[p] # "sleep", OrderStays(p)
  PROVE  NoDeadlockOverlooked'
  <1>1. OthersAsleep(p) /\ InNoCircle(p)
    BY DEF OthersAsleep, OthersRun, InNoCircle
  <1>. QED
    BY <1>1, OverlookedKept

\* No queue changes.
LEMMA SameOrder ==
  ASSUME NEW p, lock' = lock
  PROVE  OrderStays(p)
  BY DEF OrderStays

\* A LOCK changes, but for its queue.
LEMMA SameQueue ==
  ASSUME IInv, IInv', NEW p \in Proc, NEW l \in Lock, NEW r, SetLock(l, r), r.waitProcs = lock[l].waitProcs
  PROVE  OrderStays(p)
  <1>1. KeptBut(lock[l], r, p)
    BY DEF KeptBut, Waits
  <1>. QED
    BY <1>1, OneOrder

\* The waiters are looked at: nobody but p leaves its place without its lock.
LEMMA SettledKept ==
  ASSUME NEW s, NEW r, NEW p \in Proc, NEW modes, Settled(s, r, p, modes), QueueKept(s.waitProcs, r)
  PROVE  KeptBut(s, r, p)
  BY DEF Settled, QueueKept, KeptBut

\* Who is woken is in no queue.
LEMMA WakeupFacts ==
  ASSUME NEW p \in Proc, NEW W
  PROVE  /\ proc' = ProcWakeup(W) => \A q \in Proc : proc'[q] = proc[q] \/ proc'[q].waitLock = NULL
         /\ \A s, r : OthersWoken(p, s, r) => OthersWait(p) /\ proc'[p].waitLock = NULL
  <1>1. \A U : \A q \in Proc : ProcWakeup(U)[q] = proc[q] \/ ProcWakeup(U)[q].waitLock = NULL
    BY DEF ProcWakeup, OffQueue
  <1>2. ASSUME NEW s, NEW r, OthersWoken(p, s, r)
        PROVE  OthersWait(p) /\ proc'[p].waitLock = NULL
    <2>1. PICK wake : wake = ProcWakeup(Woken(s, r))
      OBVIOUS
    <2>2. wake = [q \in Proc |-> wake[q]] /\ proc' = [wake EXCEPT ![p] = OffQueue("ERROR")]
      BY <1>2, <2>1 DEF ProcWakeup, OthersWoken
    <2>3. proc'[p] = OffQueue("ERROR") /\ \A q \in Proc : q # p => proc'[q] = wake[q]
      BY <2>2
    <2>4. \A q \in Proc : wake[q] = proc[q] \/ wake[q].waitLock = NULL
      BY <1>1, <2>1
    <2>. QED
      BY <2>3, <2>4 DEF OthersWait, OffQueue
  <1>. QED
    BY <1>1, <1>2

\* Locks are granted to waiters by somebody who is not asleep.
LEMMA GrantsRight ==
  ASSUME IInv, IInv', NoDeadlockOverlooked, NEW p \in Proc, OthersRun(p), at'[p] # "sleep",
         NEW l \in Lock, NEW r, Grants(l, r), KeptBut(lock[l], r, p)
  PROVE  NoDeadlockOverlooked'
  <1>1. SetLock(l, r) /\ \A q \in Proc : proc'[q] = proc[q] \/ proc'[q].waitLock = NULL
    BY WakeupFacts DEF Grants
  <1>2. OthersAsleep(p) /\ InNoCircle(p)
    BY <1>1 DEF OthersAsleep, OthersRun, InNoCircle
  <1>3. OrderStays(p)
    BY <1>1, OneOrder
  <1>. QED
    BY <1>2, <1>3, OverlookedKept

\* p is told that its wait has failed.
LEMMA FailsRight ==
  ASSUME IInv, IInv', NoDeadlockOverlooked, NEW p \in Proc, OthersRun(p),
         NEW l \in Lock, NEW s, NEW r, SetLock(l, r), OthersWoken(p, s, r), KeptBut(lock[l], r, p)
  PROVE  NoDeadlockOverlooked'
  <1>1. OthersWait(p) /\ proc'[p].waitLock = NULL
    BY WakeupFacts
  <1>2. OthersAsleep(p) /\ InNoCircle(p)
    BY <1>1 DEF OthersAsleep, OthersRun, OthersWait, InNoCircle
  <1>3. OrderStays(p)
    BY OneOrder
  <1>. QED
    BY <1>2, <1>3, OverlookedKept

\* p leaves the queue.
LEMMA RemoveOverlooks ==
  ASSUME IInv, IInv', NoDeadlockOverlooked, NEW p \in Proc, OthersRun(p), proc[p].waitLock # NULL, RemoveFromWaitQueue(p)
  PROVE  NoDeadlockOverlooked'
  <1>1. PICK l : l = proc[p].waitLock
    OBVIOUS
  <1>2. PICK m : m = proc[p].waitLockMode
    OBVIOUS
  <1>3. CallRight(p) /\ WaitRight(p) /\ LocksRight
    BY Parts
  <1>4. l \in Lock /\ m \in LockMode
    BY <1>1, <1>2, <1>3 DEF WaitRight, CallRight
  <1>5. PICK r : r = WithoutWaiter(lock[l], p, m)
    OBVIOUS
  <1>6. SetLock(l, r) /\ OthersWoken(p, lock[l], r)
    BY <1>1, <1>2, <1>5 DEF RemoveFromWaitQueue, OthersWoken
  <1>7. Waits(lock[l], p)
    BY <1>1, <1>3, <1>4 DEF WaitRight
  <1>8. LockRight(lock[l], WaitMode) /\ WaitMode[p] = m
    BY <1>2, <1>3, <1>4 DEF LocksRight, WaitMode
  <1>9. Settled(lock[l], r, p, {}) /\ QueueKept(lock[l].waitProcs, r)
    BY <1>5, <1>7, <1>8, GiveUpRight
  <1>10. KeptBut(lock[l], r, p)
    BY <1>9, SettledKept
  <1>. QED
    BY <1>4, <1>6, <1>10, FailsRight

\* A newcomer is before or behind others, who keep their order.
LEMMA JoinKept ==
  ASSUME NEW s, s.waitProcs \in Seq(Proc), Distinct(s.waitProcs), NEW p \in Proc, ~Waits(s, p),
         NEW i \in 1..(Len(s.waitProcs) + 1), NEW r, r.waitProcs = InsertAt(s.waitProcs, i, p)
  PROVE  KeptBut(s, r, p) /\ \A x, y : IsBefore(x, y, s.waitProcs) => IsBefore(x, y, r.waitProcs)
  <1>1. p \notin ToSet(s.waitProcs)
    BY DEF Waits
  <1>2. /\ \A x : x \in ToSet(r.waitProcs) <=> x \in ToSet(s.waitProcs) \/ x = p
        /\ \A x, y : IsBefore(x, y, s.waitProcs) => IsBefore(x, y, r.waitProcs)
    BY <1>1, InsertRight
  <1>. QED
    BY <1>2 DEF KeptBut, Waits

\* ProcSleep: p finds a deadlock, is granted the lock or has yet to check.
LEMMA ProcSleepOverlooks ==
  ASSUME IInv, IInv', NoDeadlockOverlooked, NEW p \in Proc, OthersRun(p), ProcSleep(p)
  PROVE  NoDeadlockOverlooked'
  <1>1. PICK l : l = call[p].lock
    OBVIOUS
  <1>2. PICK m : m = call[p].mode
    OBVIOUS
  <1>3. PICK s : s = Requested(p)
    OBVIOUS
  <1>4. PICK i : i = InsertionPoint(s, p)
    OBVIOUS
  <1>5. PICK queued : queued = JoinedAt(s, p, m, i)
    OBVIOUS
  <1>6. PICK r : r = WithoutWaiter(queued, p, m)
    OBVIOUS
  <1>7. at[p] = "table" /\ TypeOK
    BY DEF ProcSleep, IInv
  <1>8. \/ SetLock(l, r) /\ OthersWoken(p, s, r)
        \/ SetLock(l, GrantLock(s, p, m)) /\ proc' = proc /\ at' = [at EXCEPT ![p] = "run"]
        \/ SetLock(l, queued) /\ Waiting(p, l, m, s.holdMask[p]) /\ SleepsNow(p, MustCheck(s))
    BY <1>1, <1>2, <1>3, <1>4, <1>5, <1>6
    DEF ProcSleep, OthersWoken, JoinedAt, Goto, Acquired, Waiting, SleepsNow
  <1>9. PICK lk : lk = lock[l]
    OBVIOUS
  <1>10. /\ l \in Lock /\ m \in LockMode /\ ~Waits(lk, p) /\ m \notin lk.holdMask[p]
         /\ lk \in LOCK /\ LockRight(lk, WaitMode) /\ AllBlocked(lk, WaitMode)
         /\ s = SetupLockInTable(lk, p, m) /\ KeptHolders(lk, s)
    BY <1>1, <1>2, <1>3, <1>7, <1>9, RequestRight
  <1>11. /\ s \in LOCK /\ s.waitProcs = lk.waitProcs /\ lk.waitProcs \in Seq(Proc) /\ Distinct(lk.waitProcs)
    BY <1>10, LockFacts DEF KeptHolders, LockRight, CountsRight
  <1>12. i \in 1..(Len(lk.waitProcs) + 1)
    <2>1. i \in 1..(Len(s.waitProcs) + 1)
      BY <1>4, <1>11, InsertionPointRight
    <2>. QED
      BY <1>11, <2>1
  <1>13. queued.waitProcs = InsertAt(lk.waitProcs, i, p)
    BY <1>5, <1>11 DEF JoinedAt, LOCK
  <1>14. KeptBut(lk, queued, p) /\ \A x, y : IsBefore(x, y, lk.waitProcs) => IsBefore(x, y, queued.waitProcs)
    BY <1>10, <1>11, <1>12, <1>13, JoinKept
  <1>15. CASE SetLock(l, r) /\ OthersWoken(p, s, r)
    <2>1. queued = QueuedAt(lk, p, m, i)
      BY <1>5, <1>10 DEF QueuedAt, JoinedAt
    <2>2. PICK w : w = [q \in Proc |-> IF q = p THEN m ELSE WaitMode[q]]
      OBVIOUS
    <2>3. w[p] = m /\ \A q \in Proc : q # p => w[q] = WaitMode[q]
      BY <2>2
    <2>4. \A q \in Proc : Waits(lk, q) => w[q] = WaitMode[q]
      BY <1>10, <2>3
    <2>5. LockRight(queued, w) /\ \A q \in Proc : Waits(queued, q) <=> Waits(lk, q) \/ q = p
      BY <1>10, <1>12, <2>1, <2>3, <2>4, RequestQueued
    <2>6. \A q \in Proc : q # p /\ Waits(queued, q) => w[q] = WaitMode[q]
      BY <2>3
    <2>7. Waits(queued, p) /\ m = w[p]
      BY <2>3, <2>5
    <2>8. Settled(queued, r, p, {}) /\ QueueKept(queued.waitProcs, r)
      BY <1>6, <2>5, <2>6, <2>7, GiveUpRight
    <2>9. KeptBut(queued, r, p)
      BY <2>8, SettledKept
    <2>10. KeptBut(lk, r, p)
      BY <1>14, <2>5, <2>9 DEF KeptBut
    <2>. QED
      BY <1>9, <1>10, <1>15, <2>10, FailsRight
  <1>16. CASE SetLock(l, GrantLock(s, p, m)) /\ proc' = proc /\ at' = [at EXCEPT ![p] = "run"]
    <2>1. GrantLock(s, p, m).waitProcs = lock[l].waitProcs
      BY <1>9, <1>11 DEF GrantLock, LOCK
    <2>2. at'[p] # "sleep"
      BY <1>7, <1>16 DEF TypeOK
    <2>3. OrderStays(p)
      BY <1>10, <1>16, <2>1, SameQueue
    <2>. QED
      BY <1>16, <2>2, <2>3, QuietRight
  <1>17. CASE SetLock(l, queued) /\ Waiting(p, l, m, s.holdMask[p]) /\ SleepsNow(p, MustCheck(s))
    <2>1. deadlockTimer'[p]
      BY <1>7, <1>17 DEF SleepsNow, MustCheck, TypeOK
    <2>2. \A q \in Proc : q # p => proc'[q] = proc[q]
      BY <1>7, <1>17 DEF Waiting, TypeOK
    <2>3. OthersAsleep(p) /\ InNoCircle(p)
      BY <2>1, <2>2 DEF OthersAsleep, OthersRun, InNoCircle
    <2>4. OrderStays(p)
      BY <1>9, <1>10, <1>14, <1>17, OneOrder
    <2>. QED
      BY <2>3, <2>4, OverlookedKept
  <1>. QED
    BY <1>8, <1>15, <1>16, <1>17

\* The detector finds no deadlock: if there is a circle afterwards there was one with
\* the queues in the order that the detector found to be good, so there was one without p.
LEMMA NoDeadlockOverlooks ==
  ASSUME IInv, IInv', NoDeadlockOverlooked, NEW p \in Proc, OthersRun(p), at' = at, locallock' = locallock,
         NEW result, result = DeadLockCheckRecurse(p), ~result.deadlock, NoDeadlock(p, Rearranged(result.constraints))
  PROVE  NoDeadlockOverlooked'
  <1>. SUFFICES ASSUME NEW S \in SUBSET {q \in Proc : at'[q] = "sleep" /\ ~deadlockTimer'[q]}, Stuck(S)'
                PROVE  FALSE
    BY DEF NoDeadlockOverlooked
  <1>1. S \in SUBSET Proc /\ \A q \in S : at[q] = "sleep" /\ at'[q] = "sleep" /\ ~deadlockTimer'[q]
    OBVIOUS
  <1>2. S # {} /\ \A q \in S : \E r \in S : r \in Blockers(q)'
    BY DEF Stuck, StuckIn, Blockers
  <1>3. \A q \in Proc : proc'[q].waitLock \in Lock \cup {NULL} /\ proc[q].waitLock \in Lock \cup {NULL}
    BY DEF IInv, TypeOK
  <1>4. PICK c : c = result.constraints
    OBVIOUS
  <1>5. c \in Seq(Edge) /\ Good(c, p)
    BY <1>4, ConstraintsRight
  <1>6. PICK orders : orders = ExpandConstraints(c)
    OBVIOUS
  <1>7. SelfConsistent(ExpandConstraints(c))
    BY <1>5 DEF Good
  <1>8. \A l \in Lock : LockRight(lock[l], WaitMode) /\ AllBlocked(lock[l], WaitMode)
    BY DEF IInv, LocksRight
  <1>9. ASSUME NEW l \in Lock
        PROVE  /\ lock'[l] = Rearranged(c)[l] /\ LockRight(lock'[l], WaitMode)
               /\ \A q \in Proc : Waits(lock'[l], q) => Waits(lock[l], q)
    <2>1. PICK r : r = Rearranged(c)[l]
      OBVIOUS
    <2>2. Settled(lock[l], r, 0, {})
      BY <1>7, <1>8, <2>1, RearrangedRight
    <2>3. lock'[l] = r
      BY <1>4, <2>1 DEF NoDeadlock
    <2>. QED
      BY <2>1, <2>2, <2>3 DEF Settled
  <1>10. \A q \in S : proc'[q].waitLock # NULL
    <2>. SUFFICES ASSUME NEW q \in S
                  PROVE  proc'[q].waitLock # NULL
      OBVIOUS
    <2>1. PICK r \in S : r \in Blockers(q)'
      BY <1>2
    <2>2. WaitsForNow(q, r, proc[q].waitLock)'
      BY <1>1, <1>3, <2>1, BlockersMeanAfter
    <2>. QED
      BY <2>2 DEF WaitsForNow
  <1>11. \A q \in S : proc'[q] = proc[q]
    <2>1. PICK W : proc' = ProcWakeup(W)
      BY DEF NoDeadlock
    <2>2. \A q \in Proc : proc'[q] = proc[q] \/ proc'[q].waitLock = NULL
      BY <2>1, WakeupFacts
    <2>. QED
      BY <1>1, <1>10, <2>2
  <1>12. ASSUME NEW q \in S
         PROVE  \E r \in S : r \in BlockersIn(q, orders)
    <2>1. PICK r \in S : r \in Blockers(q)'
      BY <1>2, <1>12
    <2>2. q \in Proc /\ r \in Proc
      BY <1>1
    <2>3. PICK l : l = proc[q].waitLock
      OBVIOUS
    <2>4. WaitsForNow(q, r, proc[q].waitLock)'
      BY <1>3, <2>1, <2>2, BlockersMeanAfter
    <2>5. /\ l # NULL /\ r # q
          /\ \/ lock'[l].holdMask[r] \cap conflictTab(proc[q].waitLockMode) # {}
             \/ IsBefore(r, q, lock'[l].waitProcs) /\ proc[r].waitLockMode \in conflictTab(proc[q].waitLockMode)
      BY <1>11, <2>3, <2>4 DEF WaitsForNow
    <2>6. l \in Lock
      BY <1>3, <2>2, <2>3, <2>5
    <2>7. ASSUME NEW m, m \in lock'[l].holdMask[r], m \in conflictTab(proc[q].waitLockMode)
          PROVE  m \in lock[l].holdMask[r]
      <3>1. at[q] = "sleep" /\ proc[q].waitLock # NULL
        BY <1>1, <2>3, <2>5
      <3>2. at'[r] = "sleep" /\ proc'[r].waitLock # NULL /\ locallock'[r] = locallock[r]
        BY <1>1, <1>10
      <3>. QED
        BY <2>2, <2>3, <2>7, <3>1, <3>2, HardKept
    <2>8. ASSUME IsBefore(r, q, lock'[l].waitProcs)
          PROVE  IsBefore(r, q, orders[l])
      <3>1. \A x \in Proc : Waits(lock[l], x) => proc[x].waitLock = l
        BY <2>6 DEF IInv, ProcRight, WaitRight
      <3>2. LockRight(lock[l], WaitMode)
        BY <1>8, <2>6
      <3>3. PICK k : k = lock'[l]
        OBVIOUS
      <3>4. /\ k = Rearranged(c)[l] /\ LockRight(k, WaitMode) /\ \A x \in Proc : Waits(k, x) => Waits(lock[l], x)
            /\ IsBefore(r, q, k.waitProcs)
        BY <1>9, <2>6, <2>8, <3>3
      <3>5. IsBefore(r, q, ExpandConstraints(c)[l])
        BY <1>7, <2>2, <2>6, <3>1, <3>2, <3>4, OrderAfter
      <3>. QED
        BY <1>6, <3>5
    <2>9. /\ proc[q].waitLock # NULL /\ r # q
          /\ \/ lock[l].holdMask[r] \cap conflictTab(proc[q].waitLockMode) # {}
             \/ IsBefore(r, q, orders[l]) /\ proc[r].waitLockMode \in conflictTab(proc[q].waitLockMode)
      BY <2>3, <2>5, <2>7, <2>8
    <2>10. r \in BlockersIn(q, orders)
      BY <2>2, <2>3, <2>9 DEF BlockersIn, IsBefore
    <2>. QED
      BY <2>10
  <1>13. StuckIn(S, ExpandConstraints(c))
    BY <1>2, <1>6, <1>12 DEF StuckIn
  <1>14. PICK R \in SUBSET S : Stuck(R) /\ p \notin R
    <2>1. \A l \in Lock : LockRight(lock[l], WaitMode)
      BY <1>8
    <2>. QED
      BY <1>1, <1>5, <1>13, <2>1, DetectorRight, StuckAnyway
  <1>15. R \in SUBSET {q \in Proc : at[q] = "sleep" /\ ~deadlockTimer[q]}
    <2>1. \A q \in R : q \in Proc /\ at[q] = "sleep" /\ ~deadlockTimer'[q] /\ q # p
      BY <1>1, <1>14
    <2>. QED
      BY <2>1 DEF OthersRun
  <1>. QED
    BY <1>14, <1>15 DEF NoDeadlockOverlooked

\* CheckDeadLock overlooks no deadlock.
LEMMA CheckDeadLockOverlooks ==
  ASSUME IInv, IInv', NoDeadlockOverlooked, NEW p \in Proc, OthersRun(p), CheckDeadLock(p)
  PROVE  NoDeadlockOverlooked'
  <1>1. PICK result : result = DeadLockCheckRecurse(p)
    OBVIOUS
  <1>2. at' = at /\ locallock' = locallock
    BY DEF CheckDeadLock, localVars
  <1>3. \/ proc[p].waitLock = NULL /\ lock' = lock /\ proc' = proc
        \/ proc[p].waitLock # NULL /\ RemoveFromWaitQueue(p)
        \/ ~result.deadlock /\ NoDeadlock(p, Rearranged(result.constraints))
    BY <1>1 DEF CheckDeadLock, NoDeadlock
  <1>4. CASE proc[p].waitLock = NULL /\ lock' = lock /\ proc' = proc
    <2>1. OthersAsleep(p) /\ InNoCircle(p)
      BY <1>4 DEF OthersAsleep, OthersRun, InNoCircle
    <2>2. OrderStays(p)
      BY <1>4, SameOrder
    <2>. QED
      BY <2>1, <2>2, OverlookedKept
  <1>5. CASE proc[p].waitLock # NULL /\ RemoveFromWaitQueue(p)
    BY <1>5, RemoveOverlooks
  <1>6. CASE ~result.deadlock /\ NoDeadlock(p, Rearranged(result.constraints))
    BY <1>1, <1>2, <1>6, NoDeadlockOverlooks
  <1>. QED
    BY <1>3, <1>4, <1>5, <1>6

\* LockErrorCleanup
LEMMA CleanupOverlooks ==
  ASSUME IInv, IInv', NoDeadlockOverlooked, NEW p \in Proc, OthersRun(p), LockErrorCleanup(p)
  PROVE  NoDeadlockOverlooked'
  <1>1. CASE proc[p].waitLock # NULL
    <2>1. RemoveFromWaitQueue(p)
      BY <1>1 DEF LockErrorCleanup
    <2>. QED
      BY <1>1, <2>1, RemoveOverlooks
  <1>2. CASE proc[p].waitLock = NULL
    <2>1. lock' = lock /\ proc' = proc /\ at' = [at EXCEPT ![p] = "abort"]
      BY <1>2 DEF LockErrorCleanup, Goto
    <2>2. at'[p] # "sleep"
      BY <2>1 DEF IInv, TypeOK
    <2>3. OrderStays(p)
      BY <2>1, SameOrder
    <2>. QED
      BY <2>1, <2>2, <2>3, QuietRight
  <1>. QED
    BY <1>1, <1>2

\* A lock is given back in the table by somebody who does not wait.
LEMMA GivenBackOverlooks ==
  ASSUME IInv, IInv', NoDeadlockOverlooked, NEW p \in Proc, OthersRun(p), at'[p] # "sleep",
         NEW l \in Lock, NEW m \in LockMode, m \in Hold(p, l), m \notin Marked(p, l), ~Waits(lock[l], p),
         Grants(l, ReleaseMode(lock[l], p, m))
  PROVE  NoDeadlockOverlooked'
  <1>1. PICK r : r = ReleaseMode(lock[l], p, m)
    OBVIOUS
  <1>2. LockRight(lock[l], WaitMode) /\ AllBlocked(lock[l], WaitMode)
    BY DEF IInv, LocksRight
  <1>3. Settled(lock[l], r, p, {m}) /\ QueueKept(lock[l].waitProcs, r)
    BY <1>1, <1>2, ReleaseModeRight DEF Hold, Marked
  <1>4. KeptBut(lock[l], r, p)
    BY <1>3, SettledKept
  <1>. QED
    BY <1>1, <1>4, GrantsRight

\* ReleasePartition
LEMMA PartitionOverlooks ==
  ASSUME IInv, IInv', NoDeadlockOverlooked, NEW p \in Proc, OthersRun(p), NEW l \in Lock, ReleasePartition(p, l)
  PROVE  NoDeadlockOverlooked'
  <1>1. PICK lk : lk = lock[l]
    OBVIOUS
  <1>2. PICK modes : modes = ToRelease(p, l)
    OBVIOUS
  <1>3. PICK marked : marked = [lk.releaseMask EXCEPT ![p] = {}]
    OBVIOUS
  <1>4. PICK r : r = FreedAndCleaned(lk, p, modes, marked)
    OBVIOUS
  <1>5. LockRight(lk, WaitMode) /\ AllBlocked(lk, WaitMode)
    BY <1>1 DEF IInv, LocksRight
  <1>6. lk \in LOCK /\ \A x \in Proc : lk.releaseMask[x] \subseteq lk.holdMask[x]
    BY <1>5 DEF LockRight, CountsRight
  <1>7. lk.releaseMask \in [Proc -> SUBSET LockMode]
    BY <1>6, LockFacts
  <1>8. marked \in [Proc -> SUBSET LockMode] /\ marked[p] = {} /\ \A q \in Proc : q # p => marked[q] = lk.releaseMask[q]
    BY <1>3, <1>7
  <1>9. modes = lk.holdMask[p] \/ modes = lk.releaseMask[p]
    BY <1>1, <1>2 DEF ToRelease
  <1>10. MayFree(lk, p, modes, marked)
    BY <1>6, <1>8, <1>9 DEF MayFree
  <1>11. ~Waits(lk, p) /\ at' = at /\ at[p] # "sleep"
    <2>1. at' = at /\ at[p] \in {"release", "releaseAll"}
      BY DEF ReleasePartition, Releasing
    <2>. QED
      BY <1>1, <2>1, NotWaiting
  <1>12. Settled(lk, r, p, modes) /\ QueueKept(lk.waitProcs, r)
    BY <1>4, <1>5, <1>10, <1>11, ReleaseRight
  <1>13. [UnGrantLock(lk, p, modes) EXCEPT !.releaseMask[p] = {}] = Freed(lk, p, modes, marked)
    BY <1>3, <1>6 DEF UnGrantLock, Freed, LOCK
  <1>14. Grants(l, r)
    BY <1>1, <1>2, <1>4, <1>13 DEF ReleasePartition, FreedAndCleaned
  <1>15. KeptBut(lk, r, p)
    BY <1>12, SettledKept
  <1>. QED
    BY <1>1, <1>11, <1>14, <1>15, GrantsRight

\* LockRelease
LEMMA LockReleaseOverlooks ==
  ASSUME IInv, IInv', NoDeadlockOverlooked, NEW p \in Proc, OthersRun(p), NEW l \in Lock, NEW m \in LockMode, LockRelease(p, l, m)
  PROVE  NoDeadlockOverlooked'
  <1>1. at[p] = "run" /\ at'[p] # "sleep"
    <2>1. at[p] = "run" /\ (at' = at \/ at' = [at EXCEPT ![p] = "forget"])
      BY DEF LockRelease, Goto
    <2>. QED
      BY <2>1 DEF IInv, TypeOK
  <1>2. \/ lock' = lock /\ proc' = proc
        \/ /\ ~(Eligible(l, m) /\ FastPathLocalUseCount[p] > 0 /\ ~Transferred(p, l, m))
           /\ locallock[p][l][m].nLocks = 1 /\ Grants(l, ReleaseMode(lock[l], p, m))
    BY DEF LockRelease
  <1>3. CASE lock' = lock /\ proc' = proc
    <2>1. OrderStays(p)
      BY <1>3, SameOrder
    <2>. QED
      BY <1>1, <1>3, <2>1, QuietRight
  <1>4. CASE /\ ~(Eligible(l, m) /\ FastPathLocalUseCount[p] > 0 /\ ~Transferred(p, l, m))
             /\ locallock[p][l][m].nLocks = 1 /\ Grants(l, ReleaseMode(lock[l], p, m))
    <2>1. m \notin fpLockBits[p][l]
      BY <1>4, NotInArray
    <2>2. BeliefRight(p) /\ EntryRight(p)
      BY Parts
    <2>3. m \in Hold(p, l) /\ m \notin Marked(p, l)
      BY <1>4, <2>1, <2>2 DEF BeliefRight, EntryRight, Held, Hold
    <2>4. ~Waits(lock[l], p)
      BY <1>1, NotWaiting
    <2>. QED
      BY <1>1, <1>4, <2>3, <2>4, GivenBackOverlooks
  <1>. QED
    BY <1>2, <1>3, <1>4

\* LockReleaseAll, an entry of the local table.
LEMMA ReleaseLocalOverlooks ==
  ASSUME IInv, IInv', NoDeadlockOverlooked, NEW p \in Proc, OthersRun(p), NEW l \in Lock, NEW m \in LockMode, ReleaseLocal(p, l, m)
  PROVE  NoDeadlockOverlooked'
  <1>1. at' = at /\ at[p] \in {"release", "releaseAll"}
    BY DEF ReleaseLocal, Releasing
  <1>2. at'[p] # "sleep" /\ ~Waits(lock[l], p)
    BY <1>1, NotWaiting
  <1>3. \/ lock' = lock /\ proc' = proc
        \/ /\ locallock[p][l][m].nLocks > 0 /\ m \notin fpLockBits[p][l] /\ Grants(l, ReleaseMode(lock[l], p, m))
        \/ SetLock(l, MarkedIn(lock[l], p, m)) /\ proc' = proc
    BY DEF ReleaseLocal, Transferred, MarkedIn
  <1>4. CASE lock' = lock /\ proc' = proc
    <2>1. OrderStays(p)
      BY <1>4, SameOrder
    <2>. QED
      BY <1>2, <1>4, <2>1, QuietRight
  <1>5. CASE locallock[p][l][m].nLocks > 0 /\ m \notin fpLockBits[p][l] /\ Grants(l, ReleaseMode(lock[l], p, m))
    <2>1. BeliefRight(p) /\ EntryRight(p)
      BY Parts
    <2>2. m \in Hold(p, l) /\ m \notin Marked(p, l)
      BY <1>5, <2>1 DEF BeliefRight, EntryRight, Held, Hold
    <2>. QED
      BY <1>2, <1>5, <2>2, GivenBackOverlooks
  <1>6. CASE SetLock(l, MarkedIn(lock[l], p, m)) /\ proc' = proc
    <2>1. MarkedIn(lock[l], p, m).waitProcs = lock[l].waitProcs
      BY DEF MarkedIn, IInv, TypeOK, LOCK
    <2>2. OrderStays(p)
      BY <1>6, <2>1, SameQueue
    <2>. QED
      BY <1>2, <1>6, <2>2, QuietRight
  <1>. QED
    BY <1>3, <1>4, <1>5, <1>6

\* Locks are transferred to the table by somebody who is not asleep.
LEMMA TransferOverlooks ==
  ASSUME IInv, IInv', NoDeadlockOverlooked, NEW p \in Proc, OthersRun(p), at'[p] # "sleep", proc' = proc,
         NEW l \in Lock, NEW q, NEW modes, Transfer(q, l, modes)
  PROVE  NoDeadlockOverlooked'
  <1>1. PICK r : r = SetupAndGrant(lock[l], q, modes)
    OBVIOUS
  <1>2. SetLock(l, r)
    BY <1>1 DEF Transfer
  <1>3. r.waitProcs = lock[l].waitProcs
    BY <1>1 DEF SetupAndGrant, IInv, TypeOK, LOCK
  <1>4. OrderStays(p)
    BY <1>2, <1>3, SameQueue
  <1>. QED
    BY <1>4, QuietRight

\* GrantAtOnce
LEMMA GrantAtOnceOverlooks ==
  ASSUME IInv, IInv', NoDeadlockOverlooked, NEW p \in Proc, OthersRun(p), GrantAtOnce(p)
  PROVE  NoDeadlockOverlooked'
  <1>1. PICK l : l = call[p].lock
    OBVIOUS
  <1>2. PICK s : s = Requested(p)
    OBVIOUS
  <1>3. PICK r : r = GrantLock(s, p, call[p].mode)
    OBVIOUS
  <1>4. at[p] = "table" /\ SetLock(l, r) /\ proc' = proc /\ at' = [at EXCEPT ![p] = "run"]
    BY <1>1, <1>2, <1>3 DEF GrantAtOnce, Acquired, Goto
  <1>5. l \in Lock /\ s \in LOCK /\ s.waitProcs = lock[l].waitProcs
    BY <1>1, <1>2, <1>4, RequestRight DEF KeptHolders
  <1>6. r.waitProcs = lock[l].waitProcs
    BY <1>3, <1>5 DEF GrantLock, LOCK
  <1>7. at'[p] # "sleep"
    BY <1>4 DEF IInv, TypeOK
  <1>8. OrderStays(p)
    BY <1>4, <1>5, <1>6, SameQueue
  <1>. QED
    BY <1>4, <1>7, <1>8, QuietRight

\* NotAvailable
LEMMA NotAvailableOverlooks ==
  ASSUME IInv, IInv', NoDeadlockOverlooked, NEW p \in Proc, OthersRun(p), NotAvailable(p)
  PROVE  NoDeadlockOverlooked'
  <1>1. PICK l : l = call[p].lock
    OBVIOUS
  <1>2. PICK m : m = call[p].mode
    OBVIOUS
  <1>3. PICK lk : lk = lock[l]
    OBVIOUS
  <1>4. PICK s : s = Requested(p)
    OBVIOUS
  <1>5. at[p] = "table" /\ proc' = proc /\ at' = [at EXCEPT ![p] = "run"]
    BY DEF NotAvailable, Goto
  <1>6. PICK r : r = [DropProcLock(s, p) EXCEPT !.requested[m] = @ - 1]
    OBVIOUS
  <1>7. SetLock(l, r)
    BY <1>1, <1>2, <1>4, <1>6 DEF NotAvailable
  <1>8. /\ l \in Lock /\ m \in LockMode /\ ~Waits(lk, p) /\ LockRight(lk, WaitMode) /\ s = SetupLockInTable(lk, p, m)
    BY <1>1, <1>2, <1>3, <1>4, <1>5, RequestRight
  <1>9. r = lk
    <2>1. r = [DropProcLock(SetupLockInTable(lk, p, m), p) EXCEPT !.requested[m] = @ - 1]
      BY <1>6, <1>8
    <2>. QED
      BY <1>8, <2>1, RequestTakenBack
  <1>10. at'[p] # "sleep"
    BY <1>5 DEF IInv, TypeOK
  <1>11. OrderStays(p)
    BY <1>3, <1>7, <1>8, <1>9, SameQueue
  <1>. QED
    BY <1>5, <1>10, <1>11, QuietRight

\* Whoever transfers locks or runs out of memory is not asleep.
LEMMA TransfersOverlook ==
  ASSUME IInv, IInv', NoDeadlockOverlooked, NEW p \in Proc, OthersRun(p),
         FastPathTransferRelationLocks(p) \/ OutOfSharedMemory(p)
  PROVE  NoDeadlockOverlooked'
  <1>1. PICK l : l = call[p].lock
    OBVIOUS
  <1>2. at[p] \in {"transfer", "table"} /\ proc' = proc
    BY DEF FastPathTransferRelationLocks, OutOfSharedMemory
  <1>3. at'[p] # "sleep"
    <2>1. \/ at' = [at EXCEPT ![p] = "table"] \/ at' = [at EXCEPT ![p] = "transfer"] \/ at' = [at EXCEPT ![p] = "abort"]
      BY DEF FastPathTransferRelationLocks, OutOfSharedMemory, Goto
    <2>. QED
      BY <2>1 DEF IInv, TypeOK
  <1>4. l \in Lock
    BY <1>1, <1>2, Parts DEF CallRight
  <1>5. \/ lock' = lock
        \/ \E q, modes : Transfer(q, l, modes)
    BY <1>1 DEF FastPathTransferRelationLocks, OutOfSharedMemory
  <1>6. CASE lock' = lock
    <2>1. OrderStays(p)
      BY <1>6, SameOrder
    <2>. QED
      BY <1>2, <1>3, <2>1, QuietRight
  <1>7. CASE \E q, modes : Transfer(q, l, modes)
    <2>1. PICK q, modes : Transfer(q, l, modes)
      BY <1>7
    <2>. QED
      BY <1>2, <1>3, <1>4, <2>1, TransferOverlooks
  <1>. QED
    BY <1>5, <1>6, <1>7

\* The steps that concern the backend's own state only.
LEMMA OwnOverlooks ==
  ASSUME IInv, IInv', NoDeadlockOverlooked, NEW p \in Proc, OthersRun(p),
         \/ Awake(p) \/ RemoveLocalLock(p) \/ Released(p) \/ Interrupted(p)
         \/ \E isCommit \in BOOLEAN : ProcReleaseLocks(p, isCommit)
         \/ \E l \in Lock, m \in LockMode, dontWait \in BOOLEAN : LockAcquire(p, l, m, dontWait)
  PROVE  NoDeadlockOverlooked'
  <1>1. lock' = lock /\ proc' = proc
    BY DEF Awake, RemoveLocalLock, Released, Interrupted, ProcReleaseLocks, LockAcquire
  <1>2. at \in [Proc -> PLACE]
    BY DEF IInv, TypeOK, PLACE
  <1>3. at'[p] # "sleep"
    <2>1. CASE Awake(p)
      BY <1>2, <2>1 DEF Awake, Acquired, Goto
    <2>2. CASE RemoveLocalLock(p) \/ Released(p) \/ Interrupted(p)
      BY <1>2, <2>2 DEF RemoveLocalLock, Released, Interrupted, Goto
    <2>3. CASE \E isCommit \in BOOLEAN : ProcReleaseLocks(p, isCommit)
      BY <1>2, <2>3 DEF ProcReleaseLocks, Goto
    <2>4. CASE \E l \in Lock, m \in LockMode, dontWait \in BOOLEAN : LockAcquire(p, l, m, dontWait)
      <3>1. PICK l \in Lock, m \in LockMode, dontWait \in BOOLEAN : LockAcquire(p, l, m, dontWait)
        BY <2>4
      <3>2. PICK place : place = (IF Strong(l, m) THEN "transfer" ELSE "table")
        OBVIOUS
      <3>3. at[p] = "run" /\ (at' = at \/ at' = [at EXCEPT ![p] = place])
        BY <3>1, <3>2 DEF LockAcquire, FastPathAcquire, SlowAcquire, Goto
      <3>. QED
        BY <1>2, <3>2, <3>3
    <2>. QED
      BY <2>1, <2>2, <2>3, <2>4
  <1>4. OrderStays(p)
    BY <1>1, SameOrder
  <1>. QED
    BY <1>1, <1>3, <1>4, QuietRight

\* A step of the model overlooks no deadlock.
LEMMA NextOverlooks ==
  ASSUME IInv, IInv', NoDeadlockOverlooked, [Next]_vars
  PROVE  NoDeadlockOverlooked'
  <1>1. CASE UNCHANGED vars
    <2>1. lock' = lock /\ proc' = proc /\ at' = at /\ deadlockTimer' = deadlockTimer
      BY <1>1 DEF vars, localVars, fastVars, stackVars
    <2>2. \A S : Stuck(S)' <=> Stuck(S)
      BY <2>1 DEF Stuck, StuckIn, BlockersIn, Queues
    <2>. QED
      BY <2>1, <2>2 DEF NoDeadlockOverlooked
  <1>2. CASE Next
    <2>1. PICK p \in Proc : StepOf(p)
      BY <1>2, SomebodysStep
    <2>2. OthersRun(p)
      <3>1. OwnAt(p) /\ OwnTimer(p) /\ OwnLocal(p)
        BY <2>1, StepsOwn
      <3>. QED
        BY <3>1, OwnOnly DEF IInv
    <2>3. CASE Step(p)
      <3>1. CASE FastPathTransferRelationLocks(p)
        BY <2>2, <3>1, TransfersOverlook
      <3>2. CASE GrantAtOnce(p)
        BY <2>2, <3>2, GrantAtOnceOverlooks
      <3>3. CASE NotAvailable(p)
        BY <2>2, <3>3, NotAvailableOverlooks
      <3>4. CASE ProcSleep(p)
        BY <2>2, <3>4, ProcSleepOverlooks
      <3>5. CASE Awake(p) \/ RemoveLocalLock(p) \/ Released(p) \/ \E isCommit \in BOOLEAN : ProcReleaseLocks(p, isCommit)
        BY <2>2, <3>5, OwnOverlooks
      <3>6. CASE CheckDeadLock(p)
        BY <2>2, <3>6, CheckDeadLockOverlooks
      <3>7. CASE LockErrorCleanup(p)
        BY <2>2, <3>7, CleanupOverlooks
      <3>8. CASE \E l \in Lock, m \in LockMode : ReleaseLocal(p, l, m)
        BY <2>2, <3>8, ReleaseLocalOverlooks
      <3>9. CASE \E l \in Lock : ReleasePartition(p, l)
        BY <2>2, <3>9, PartitionOverlooks
      <3>. QED
        BY <2>3, <3>1, <3>2, <3>3, <3>4, <3>5, <3>6, <3>7, <3>8, <3>9 DEF Step
    <2>4. CASE \E l \in Lock, m \in LockMode, dontWait \in BOOLEAN : LockAcquire(p, l, m, dontWait)
      BY <2>2, <2>4, OwnOverlooks
    <2>5. CASE \E l \in Lock, m \in LockMode : LockRelease(p, l, m)
      BY <2>2, <2>5, LockReleaseOverlooks
    <2>6. CASE OutOfSharedMemory(p)
      BY <2>2, <2>6, TransfersOverlook
    <2>7. CASE Interrupted(p)
      BY <2>2, <2>7, OwnOverlooks
    <2>. QED
      BY <2>1, <2>3, <2>4, <2>5, <2>6, <2>7 DEF StepOf
  <1>. QED
    BY <1>1, <1>2

\* No deadlock is overlooked: of backends that wait for each other in a circle one has
\* yet to check, although every backend checks but once and FindLockCycle goes through
\* the waits-for graph only once from each of a few processes.
THEOREM NoDeadlockOverlookedHolds == Spec => []NoDeadlockOverlooked
  <1>1. Init => IInv /\ NoDeadlockOverlooked
    <2>1. SUFFICES ASSUME Init
                   PROVE  NoDeadlockOverlooked
      BY InitRight
    <2>2. \A q \in Proc : at[q] # "sleep"
      BY <2>1 DEF Init
    <2>3. ~Stuck({})
      BY DEF Stuck, StuckIn
    <2>4. {q \in Proc : at[q] = "sleep" /\ ~deadlockTimer[q]} = {}
      BY <2>2
    <2>. QED
      BY <2>3, <2>4 DEF NoDeadlockOverlooked
  <1>2. IInv /\ NoDeadlockOverlooked /\ [Next]_vars => IInv' /\ NoDeadlockOverlooked'
    BY NextRight, NextOverlooks
  <1>. QED
    BY <1>1, <1>2, PTL DEF Spec

-----------------------------------------------------------------------------
(* The verdict.                                                            *)

\* Whoever waits on after a check is in no circle.
LEMMA WaitsOnFree ==
  ASSUME IInv, IInv', NEW p \in Proc, proc'[p].waitLock # NULL,
         NEW result, result = DeadLockCheckRecurse(p), ~result.deadlock, NoDeadlock(p, Rearranged(result.constraints))
  PROVE  Escapes(p, Queues)'
  <1>1. \A q \in Proc : proc'[q].waitLock \in Lock \cup {NULL} /\ proc[q].waitLock \in Lock \cup {NULL}
    BY DEF IInv, TypeOK
  <1>2. PICK c : c = result.constraints
    OBVIOUS
  <1>3. c \in Seq(Edge) /\ Good(c, p)
    BY <1>2, ConstraintsRight
  <1>4. PICK orders : orders = ExpandConstraints(c)
    OBVIOUS
  <1>5. SelfConsistent(ExpandConstraints(c)) /\ Escapes(p, orders)
    BY <1>3, <1>4 DEF Good
  <1>6. \A l \in Lock : LockRight(lock[l], WaitMode) /\ AllBlocked(lock[l], WaitMode)
    BY DEF IInv, LocksRight
  <1>7. ASSUME NEW l \in Lock
        PROVE  lock'[l] = Rearranged(c)[l] /\ Settled(lock[l], lock'[l], 0, {})
    <2>1. PICK r : r = Rearranged(c)[l]
      OBVIOUS
    <2>2. Settled(lock[l], r, 0, {})
      BY <1>5, <1>6, <2>1, RearrangedRight
    <2>3. lock'[l] = r
      BY <1>2, <2>1 DEF NoDeadlock
    <2>. QED
      BY <2>1, <2>2, <2>3
  <1>8. \A q \in Proc : proc'[q] = proc[q] \/ proc'[q].waitLock = NULL
    <2>1. PICK W : proc' = ProcWakeup(W)
      BY DEF NoDeadlock
    <2>. QED
      BY <2>1, WakeupFacts
  <1>9. \A q \in Proc, l \in Lock : (proc[q].waitLock = l <=> Waits(lock[l], q)) /\ (proc'[q].waitLock = l <=> Waits(lock'[l], q))
    BY DEF IInv, ProcRight, WaitRight
  <1>10. PICK C \in SUBSET Proc : p \notin C /\ \A q \in C \cup {p} : BlockersIn(q, orders) \subseteq C
    BY <1>5 DEF Escapes
  <1>11. PICK D : D = C \cup {q \in Proc : proc'[q].waitLock = NULL}
    OBVIOUS
  <1>12. ASSUME NEW q \in D \cup {p}, NEW r \in Blockers(q)'
         PROVE  r \in D
    <2>1. q \in Proc /\ r \in Proc
      BY <1>10, <1>11 DEF Blockers, BlockersIn
    <2>2. WaitsForNow(q, r, proc[q].waitLock)'
      BY <1>1, <1>12, <2>1, BlockersMeanAfter
    <2>3. proc'[q].waitLock # NULL /\ proc'[q] = proc[q]
      BY <1>8, <2>1, <2>2 DEF WaitsForNow
    <2>4. q \in C \cup {p}
      BY <1>11, <2>3
    <2>5. PICK l : l = proc[q].waitLock
      OBVIOUS
    <2>6. /\ l # NULL /\ r # q
          /\ \/ lock'[l].holdMask[r] \cap conflictTab(proc[q].waitLockMode) # {}
             \/ IsBefore(r, q, lock'[l].waitProcs) /\ proc'[r].waitLockMode \in conflictTab(proc[q].waitLockMode)
      BY <2>2, <2>3, <2>5 DEF WaitsForNow
    <2>7. l \in Lock
      BY <1>1, <2>1, <2>5, <2>6
    <2>8. CASE proc'[r].waitLock = NULL
      BY <1>11, <2>1, <2>8
    <2>9. CASE proc'[r].waitLock # NULL
      <3>1. proc'[r] = proc[r]
        BY <1>8, <2>1, <2>9
      <3>2. Waits(lock[l], r) <=> Waits(lock'[l], r)
        BY <1>9, <2>1, <2>7, <3>1
      <3>3. \A m : m \in lock'[l].holdMask[r] => m \in lock[l].holdMask[r]
        BY <1>7, <2>1, <2>7, <3>2 DEF Settled
      <3>4. ASSUME IsBefore(r, q, lock'[l].waitProcs)
            PROVE  IsBefore(r, q, orders[l])
        <4>1. \A x \in Proc : Waits(lock[l], x) => proc[x].waitLock = l
          BY <1>9, <2>7
        <4>2. LockRight(lock[l], WaitMode)
          BY <1>6, <2>7
        <4>3. PICK k : k = lock'[l]
          OBVIOUS
        <4>4. /\ k = Rearranged(c)[l] /\ LockRight(k, WaitMode) /\ \A x \in Proc : Waits(k, x) => Waits(lock[l], x)
              /\ IsBefore(r, q, k.waitProcs)
          BY <1>7, <2>7, <3>4, <4>3 DEF Settled
        <4>5. IsBefore(r, q, ExpandConstraints(c)[l])
          BY <1>5, <2>1, <2>7, <4>1, <4>2, <4>4, OrderAfter
        <4>. QED
          BY <1>4, <4>5
      <3>5. \/ lock[l].holdMask[r] \cap conflictTab(proc[q].waitLockMode) # {}
            \/ IsBefore(r, q, orders[l]) /\ proc[r].waitLockMode \in conflictTab(proc[q].waitLockMode)
        BY <2>6, <3>1, <3>3, <3>4
      <3>6. r \in BlockersIn(q, orders)
        BY <2>1, <2>5, <2>6, <3>5 DEF BlockersIn, IsBefore
      <3>. QED
        BY <1>10, <1>11, <2>4, <3>6
    <2>. QED
      BY <2>8, <2>9
  <1>13. p \notin D /\ D \in SUBSET Proc
    BY <1>10, <1>11
  <1>14. \A q \in D \cup {p} : BlockersIn(q, Queues)' \subseteq D
    BY <1>12 DEF Blockers
  <1>. QED
    BY <1>13, <1>14 DEF Escapes

\* InCycle and Escapes with the queues as they are.
LEMMA CirclesMean == \A p \in Proc : InCycle(p, Queues) <=> ~Escapes(p, Queues)
  BY CircleMeans

\* The same after a step.
LEMMA CirclesMeanAfter == (\A p \in Proc : InCycle(p, Queues) <=> ~Escapes(p, Queues))'
  BY CirclesMean, PTL

\* Only CheckDeadLock puts an end to the timer of a backend that sleeps on.
LEMMA TimerEnds ==
  ASSUME TypeOK, NEW p \in Proc, StepOf(p),
         deadlockTimer[p], ~deadlockTimer'[p], at'[p] = "sleep"
  PROVE  CheckDeadLock(p)
  <1>0. deadlockTimer' # deadlockTimer /\ at \in [Proc -> PLACE]
    BY DEF TypeOK, PLACE
  <1>1. ASSUME FastPathTransferRelationLocks(p) \/ GrantAtOnce(p) \/ NotAvailable(p) \/ RemoveLocalLock(p)
               \/ (\E isCommit \in BOOLEAN : ProcReleaseLocks(p, isCommit)) \/ Released(p) \/ OutOfSharedMemory(p)
        PROVE  FALSE
    BY <1>0, <1>1 DEF FastPathTransferRelationLocks, GrantAtOnce, NotAvailable, RemoveLocalLock, ProcReleaseLocks,
       Released, OutOfSharedMemory
  <1>2. ASSUME \/ \E l \in Lock, m \in LockMode : ReleaseLocal(p, l, m)
               \/ \E l \in Lock : ReleasePartition(p, l)
               \/ \E l \in Lock, m \in LockMode, dontWait \in BOOLEAN : LockAcquire(p, l, m, dontWait)
               \/ \E l \in Lock, m \in LockMode : LockRelease(p, l, m)
        PROVE  FALSE
    BY <1>0, <1>2 DEF ReleaseLocal, ReleasePartition, LockAcquire, LockRelease
  <1>3. ASSUME Awake(p)
        PROVE  FALSE
    BY <1>0, <1>3 DEF Awake, Acquired, Goto
  <1>4. ASSUME LockErrorCleanup(p) \/ Interrupted(p)
        PROVE  FALSE
    BY <1>0, <1>4 DEF LockErrorCleanup, Interrupted, Goto
  <1>5. ASSUME ProcSleep(p)
        PROVE  FALSE
    <2>1. \/ deadlockTimer' = deadlockTimer
          \/ deadlockTimer' = [deadlockTimer EXCEPT ![p] = TRUE]
      BY <1>5 DEF ProcSleep, MustCheck
    <2>. QED
      BY <1>0, <2>1 DEF TypeOK
  <1>. QED
    BY <1>1, <1>2, <1>3, <1>4, <1>5 DEF StepOf, Step

\* What VerdictRight says of circles: a backend that gives up was in one, and one that
\* waits on is in none.
VerdictFor(p) ==
  deadlockTimer[p] /\ ~deadlockTimer'[p] /\ at'[p] = "sleep" =>
    /\ proc[p].waitLock # NULL /\ proc'[p].waitStatus = "ERROR" => InCycle(p, Queues)
    /\ proc'[p].waitLock # NULL => ~InCycle(p, Queues)'

\* Every check of CheckDeadLock gives such a verdict.
CircleVerdict == [][\A p \in Proc : VerdictFor(p)]_vars

\* The verdict of a check on its own backend.
LEMMA CheckVerdict ==
  ASSUME IInv, IInv', NEW p \in Proc, CheckDeadLock(p)
  PROVE  VerdictFor(p)
  <1>1. PICK result : result = DeadLockCheckRecurse(p)
    OBVIOUS
  <1>2. \/ proc[p].waitLock = NULL /\ proc' = proc
        \/ proc[p].waitLock # NULL /\ result.deadlock /\ RemoveFromWaitQueue(p)
        \/ proc[p].waitLock # NULL /\ ~result.deadlock /\ NoDeadlock(p, Rearranged(result.constraints))
    BY <1>1 DEF CheckDeadLock, NoDeadlock
  <1>3. CASE proc[p].waitLock = NULL /\ proc' = proc
    BY <1>3 DEF VerdictFor
  <1>4. CASE proc[p].waitLock # NULL /\ result.deadlock /\ RemoveFromWaitQueue(p)
    <2>1. proc'[p].waitLock = NULL
      BY <1>4 DEF RemoveFromWaitQueue, OffQueue, ProcWakeup
    <2>2. ~Escapes(p, Queues)
      BY <1>1, <1>4, DetectorRight, GivesUpInCircle
    <2>3. InCycle(p, Queues)
      BY <2>2, CircleMeans
    <2>. QED
      BY <2>1, <2>3 DEF VerdictFor
  <1>5. CASE proc[p].waitLock # NULL /\ ~result.deadlock /\ NoDeadlock(p, Rearranged(result.constraints))
    <2>1. proc[p].waitStatus = "WAITING"
      BY <1>5 DEF IInv, ProcRight, WaitRight
    <2>2. proc'[p].waitStatus # "ERROR"
      <3>1. PICK W : proc' = ProcWakeup(W)
        BY <1>5 DEF NoDeadlock
      <3>. QED
        BY <2>1, <3>1 DEF ProcWakeup, OffQueue
    <2>3. ASSUME proc'[p].waitLock # NULL
          PROVE  ~InCycle(p, Queues)'
      <3>1. Escapes(p, Queues)'
        BY <1>1, <1>5, <2>3, WaitsOnFree
      <3>. QED
        BY <3>1, CirclesMeanAfter
    <2>. QED
      BY <2>2, <2>3 DEF VerdictFor
  <1>. QED
    BY <1>2, <1>3, <1>4, <1>5

\* The verdict does not lie about circles: whoever is told to give up was in one before,
\* hard or soft, and whoever is told to wait on is in none, however CheckDeadLock has
\* rearranged the queues and whomever that has woken.
THEOREM CircleVerdictHolds == Spec => CircleVerdict
  <1>1. ASSUME IInv, IInv', [Next]_vars
        PROVE  [\A p \in Proc : VerdictFor(p)]_vars
    <2>1. CASE UNCHANGED vars
      BY <2>1
    <2>2. CASE Next
      <3>1. PICK p \in Proc : StepOf(p)
        BY <2>2, SomebodysStep
      <3>2. OthersRun(p)
        <4>1. OwnAt(p) /\ OwnTimer(p) /\ OwnLocal(p)
          BY <3>1, StepsOwn
        <4>. QED
          BY <4>1, OwnOnly, <1>1 DEF IInv
      <3>3. ASSUME NEW q \in Proc, q # p
            PROVE  VerdictFor(q)
        BY <3>2, <3>3 DEF OthersRun, VerdictFor
      <3>4. VerdictFor(p)
        <4>1. CASE deadlockTimer[p] /\ ~deadlockTimer'[p] /\ at'[p] = "sleep"
          <5>1. CheckDeadLock(p)
            BY <1>1, <3>1, <4>1, TimerEnds DEF IInv
          <5>. QED
            BY <1>1, <5>1, CheckVerdict
        <4>2. CASE ~(deadlockTimer[p] /\ ~deadlockTimer'[p] /\ at'[p] = "sleep")
          BY <4>2 DEF VerdictFor
        <4>. QED
          BY <4>1, <4>2
      <3>. QED
        BY <3>3, <3>4
    <2>. QED
      BY <1>1, <2>1, <2>2
  <1>. QED
    BY <1>1, Inductive, PTL DEF Spec, CircleVerdict

=============================================================================

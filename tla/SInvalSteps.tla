---------------------------- MODULE SInvalSteps -----------------------------
(***************************************************************************)
(* The inductive invariant of SInval, and the proofs that every step keeps *)
(* its parts about control: the frames, the locks, the interrupt, the      *)
(* slots and the local transaction ids.                                    *)
(***************************************************************************)
EXTENDS SInval, FiniteSetTheorems, SequenceTheorems, TLAPS

\* A slot that is taken belongs to the backend that names it, lies below
\* lastBackend, and only a backend that reads comes to the code that receives.
SlotsRight ==
  /\ \A p \in Backend : at[p] \in {"start", "gone"} <=> MyBackendId[p] = 0
  /\ \A p \in Backend : MyBackendId[p] # 0 => Mine(p).proc = p
  /\ \A s \in Slot : Active(s) => s <= lastBackend /\ MyBackendId[procState[s].proc] = s
  /\ \A p \in Backend :
       at[p] \in {"receive", "enable", "test", "disable", "retest", "wait"} => ~Mine(p).sendOnly

\* Only the innermost frame runs: every other one waits in invalFunction or
\* resetFunction, and returns to a frame unless it is the outermost.
FramesRight ==
  \A p \in Backend :
    /\ at[p] = "receive" <=> frames[p] # <<>>
    /\ \A i \in 1..Len(frames[p]) :
         /\ i < Len(frames[p]) => frames[p][i].calling
         /\ frames[p][i].calling => frames[p][i].at \in {"drain", "process", "end"}
         /\ frames[p][i].where = "receive" <=> i > 1

\* The places at which a backend holds SInvalWriteLock, and SInvalReadLock.
Writer(p) == at[p] \in {"check", "publish", "kick"} \/ (at[p] = "receive" /\ Top(p).at = "clean")
Reader(p) == at[p] = "receive" /\ Top(p).at \in {"fetch", "read"}

LocksRight ==
  /\ \A p \in Backend :
       /\ lwlocks[p]["SInvalWriteLock"] = IF Writer(p) THEN EX ELSE "none"
       /\ lwlocks[p]["SInvalReadLock"] = IF Reader(p) THEN SH ELSE "none"
  /\ \A p, q \in Backend : Writer(p) /\ Writer(q) => p = q

\* The handler is enabled exactly where it may do the work itself.
InterruptsRight ==
  \A p \in Backend : catchupInterruptEnabled[p] <=> at[p] \in {"test", "disable", "wait"}

\* The part of the queue from minMsgNum on is in the buffer, also what is written
\* there and not yet published, and there is room for it.
QueueRight ==
  /\ 0 <= minMsgNum
  /\ \A m \in minMsgNum..(maxMsgNum - 1) : buffer[m % MAXNUMMESSAGES] = base + m
  /\ \A p \in Backend : at[p] = "publish" =>
       /\ maxMsgNum - minMsgNum + nthistime[p] <= MAXNUMMESSAGES
       /\ \A m \in maxMsgNum..(maxMsgNum + nthistime[p] - 1) : buffer[m % MAXNUMMESSAGES] = base + m

\* What is published is queued once everyone got the kick.
QueuedRight ==
  /\ queued <= base + maxMsgNum
  /\ (\A p \in Backend : at[p] # "kick") => queued = base + maxMsgNum

\* maxMsgNum as fetched is not stale while SInvalReadLock is held: nothing before
\* it is discarded, and a kick that came later shows in the flag.
FetchOK(p) ==
  at[p] = "receive" /\ Top(p).at = "read" =>
    /\ minMsgNum <= max[p] /\ max[p] <= maxMsgNum
    /\ ~Mine(p).resetState => Mine(p).nextMsgNum <= max[p]
    /\ ~Mine(p).hasMessages => base + max[p] >= queued
    /\ \A i \in 1..Len(frames[p]) : frames[p][i].entry <= base + max[p]
FetchRight == \A p \in Backend : FetchOK(p)

\* A backend about to fill messages[].
Getting(p) == at[p] = "receive" /\ Top(p).at \in {"get", "fetch", "read"}

\* messages[] is empty when it is filled, and before the backend starts.
PendingOK(p) == at[p] = "start" \/ Getting(p) => pending[p] = <<>>
PendingRight == \A p \in Backend : PendingOK(p)

\* What each call of ReceiveSharedInvalidMessages has to reach: it was queued at
\* the time of the call; a call that is done with it has reached it; and when
\* messages[] did not come back full, what is left of it leads there.
EntriesOK(p) ==
  \A i \in 1..Len(frames[p]) :
    /\ frames[p][i].entry <= queued
    /\ frames[p][i].at = "end" => seen[p] >= frames[p][i].entry
    /\ ~Getting(p) /\ nummsgs[p] # MAXINVALMSGS /\ frames[p][i].at = "process"
         => seen[p] + Len(pending[p]) >= frames[p][i].entry
EntriesRight == \A p \in Backend : EntriesOK(p)

\* The counter of a slot, kept by its holder or left in the slot, is beyond every
\* local id handed out with it.
LxidsRight ==
  \A x \in lxids :
    x[2] < IF Active(x[1]) THEN nextLocalTransactionId[procState[x[1]].proc]
                           ELSE procState[x[1]].nextLXID

Inv ==
  /\ TypeOK /\ SlotsRight /\ FramesRight /\ LocksRight /\ InterruptsRight
  /\ NoSleepOnInterrupt /\ CountersOrdered /\ QueueRight /\ QueuedRight /\ FetchRight
  /\ PendingRight /\ NoGap /\ FlagTells /\ EntriesRight /\ LxidsRight
-----------------------------------------------------------------------------
(* Facts about naturals, residues and frames.                              *)

USE SizeAssumption DEF Slot, EX, SH

\* A set of naturals that is not empty has a least element.
LEMMA NatMin ==
  ASSUME NEW S \in SUBSET Nat, S # {}
  PROVE  \E x \in S : \A y \in S : x <= y
  <1>1. PICK x \in S : \A y \in S : ~(<<y, x>> \in OpToRel(<, Nat))
    BY NatLessThanWellFounded, WFMin, Zenon
  <1>2. \A y \in S : ~(y < x)
    BY <1>1, Zenon DEF OpToRel
  <1>. QED
    BY <1>2

\* Two positions less than the buffer's size apart have different places in it.
LEMMA PlacesDiffer ==
  ASSUME NEW M \in Nat \ {0}, NEW a \in Int, NEW b \in Int, a < b, b - a < M
  PROVE  a % M # b % M
  <1>. DEFINE qa == a \div M
              qb == b \div M
              ra == a % M
              rb == b % M
  <1>1. /\ qa \in Int /\ qb \in Int /\ ra \in 0..(M-1) /\ rb \in 0..(M-1)
        /\ a = M * qa + ra /\ b = M * qb + rb
    OBVIOUS
  <1>. HIDE DEF qa, qb, ra, rb
  <1>2. ASSUME ra = rb PROVE FALSE
    <2>. DEFINE d == qb - qa
    <2>1. d \in Int /\ b - a = M * d
      BY <1>1, <1>2
    <2>. HIDE DEF d
    <2>2. d >= 1 => M * d >= M
      BY <2>1
    <2>3. d <= 0 => M * d <= 0
      BY <2>1
    <2>. QED
      BY <2>1, <2>2, <2>3
  <1>. QED
    BY <1>2 DEF ra, rb

\* Subtracting a multiple of the buffer's size from a position keeps its place.
LEMMA PlaceKept ==
  ASSUME NEW M \in Nat \ {0}, NEW a \in Int, NEW w \in Int, w % M = 0
  PROVE  (a - w) % M = a % M
  <1>. DEFINE qa == a \div M
              qw == w \div M
              ra == a % M
              b == a - w
              qb == b \div M
              rb == b % M
              d == qa - qw - qb
  <1>1. qa \in Int /\ qw \in Int /\ ra \in 0..(M-1) /\ a = M * qa + ra /\ w = M * qw
    OBVIOUS
  <1>2. b \in Int /\ qb \in Int /\ rb \in 0..(M-1) /\ b = M * qb + rb
    BY <1>1
  <1>3. b = M * (qa - qw) + ra
    BY <1>1
  <1>4. d \in Int /\ M * d = rb - ra
    BY <1>1, <1>2, <1>3
  <1>5. -M < rb - ra /\ rb - ra < M
    BY <1>1, <1>2
  <1>. HIDE DEF qa, qw, qb, ra, rb, b, d
  <1>6. d = 0
    <2>1. d >= 1 => M * d >= M
      BY <1>4
    <2>2. d <= -1 => M * d <= -M
      BY <1>4
    <2>. QED
      BY <2>1, <2>2, <1>4, <1>5
  <1>7. M * d = 0
    BY <1>6
  <1>8. rb = ra
    BY <1>4, <1>7, <1>1, <1>2
  <1>. QED
    BY <1>8 DEF rb, ra, b

\* A position has a place in the buffer.
LEMMA PlaceType ==
  ASSUME NEW m \in Int
  PROVE  m % MAXNUMMESSAGES \in 0..(MAXNUMMESSAGES - 1)
  OBVIOUS

\* The innermost frame of p becomes f, a frame f is added, the innermost frame is
\* dropped; the other backends' frames stay.
TopBecomes(p, f) ==
  /\ frames' \in [Backend -> Seq(Frame)]
  /\ Len(frames'[p]) = Len(frames[p]) /\ frames'[p] # <<>>
  /\ \A i \in 1..Len(frames[p]) : frames'[p][i] = IF i = Len(frames[p]) THEN f ELSE frames[p][i]
  /\ \A q \in Backend \ {p} : frames'[q] = frames[q]
TopAdded(p, f) ==
  /\ frames' \in [Backend -> Seq(Frame)]
  /\ Len(frames'[p]) = Len(frames[p]) + 1 /\ frames'[p] # <<>>
  /\ \A i \in 1..Len(frames'[p]) : frames'[p][i] = IF i = Len(frames'[p]) THEN f ELSE frames[p][i]
  /\ \A q \in Backend \ {p} : frames'[q] = frames[q]
TopDropped(p) ==
  /\ frames' \in [Backend -> Seq(Frame)]
  /\ Len(frames'[p]) = Len(frames[p]) - 1
  /\ Len(frames[p]) = 1 <=> frames'[p] = <<>>
  /\ \A i \in 1..(Len(frames[p]) - 1) : frames'[p][i] = frames[p][i]
  /\ \A q \in Backend \ {p} : frames'[q] = frames[q]

\* A backend that receives has an innermost frame.
LEMMA TopFacts ==
  ASSUME TypeOK, FramesRight, NEW p \in Backend, at[p] = "receive"
  PROVE  /\ frames[p] \in Seq(Frame) /\ frames[p] # <<>>
         /\ Len(frames[p]) \in Nat \ {0} /\ Top(p) \in Frame
         /\ Top(p) = frames[p][Len(frames[p])]
  <1>1. frames[p] \in Seq(Frame) /\ frames[p] # <<>>
    BY DEF TypeOK, FramesRight
  <1>2. Len(frames[p]) \in Nat \ {0}
    BY <1>1, EmptySeq
  <1>3. frames[p][Len(frames[p])] \in Frame
    BY <1>1, <1>2, ElementOfSeq
  <1>. QED
    BY <1>1, <1>2, <1>3 DEF Top

\* Replacing the innermost frame.
LEMMA SetTop ==
  ASSUME TypeOK, FramesRight, NEW p \in Backend, at[p] = "receive", NEW f \in Frame,
         frames' = [frames EXCEPT ![p] = [frames[p] EXCEPT ![Len(frames[p])] = f]]
  PROVE  TopBecomes(p, f)
  <1>0. frames \in [Backend -> Seq(Frame)]
    BY DEF TypeOK
  <1>1. frames[p] \in Seq(Frame) /\ Len(frames[p]) \in Nat \ {0}
    BY TopFacts
  <1>. DEFINE s == [frames[p] EXCEPT ![Len(frames[p])] = f]
  <1>2. /\ s \in Seq(Frame) /\ Len(s) = Len(frames[p])
        /\ \A j \in 1..Len(frames[p]) : s[j] = IF j = Len(frames[p]) THEN f ELSE frames[p][j]
    BY <1>1, ExceptSeq
  <1>. HIDE DEF s
  <1>3. s # <<>>
    BY <1>1, <1>2, EmptySeq
  <1>4. frames' = [frames EXCEPT ![p] = s]
    BY DEF s
  <1>5. frames' \in [Backend -> Seq(Frame)] /\ frames'[p] = s /\ \A q \in Backend \ {p} : frames'[q] = frames[q]
    BY <1>0, <1>2, <1>4
  <1>. QED
    BY <1>2, <1>3, <1>5 DEF TopBecomes

\* GotoTop replaces the innermost frame's place.
LEMMA GotoTopIs ==
  ASSUME TypeOK, FramesRight, NEW p \in Backend, at[p] = "receive",
         NEW place \in {"drain", "process", "get", "fetch", "read", "end", "lock", "clean", "signal"},
         GotoTop(p, place)
  PROVE  TopBecomes(p, [Top(p) EXCEPT !.at = place])
  <1>1. [Top(p) EXCEPT !.at = place] \in Frame
    BY TopFacts DEF Frame
  <1>2. frames' = [frames EXCEPT ![p] = [frames[p] EXCEPT ![Len(frames[p])] = [Top(p) EXCEPT !.at = place]]]
    BY DEF GotoTop, Top
  <1>. QED
    BY <1>1, <1>2, SetTop

\* Entering and leaving a call.
LEMMA PushTop ==
  ASSUME TypeOK, NEW p \in Backend, NEW f \in Frame,
         frames' = [frames EXCEPT ![p] = Append(frames[p], f)]
  PROVE  TopAdded(p, f)
  <1>0. frames \in [Backend -> Seq(Frame)]
    BY DEF TypeOK
  <1>1. frames[p] \in Seq(Frame) /\ Len(frames[p]) \in Nat
    BY DEF TypeOK
  <1>. DEFINE s == Append(frames[p], f)
  <1>2. /\ s \in Seq(Frame) /\ Len(s) = Len(frames[p]) + 1
        /\ \A j \in 1..Len(s) : s[j] = IF j = Len(s) THEN f ELSE frames[p][j]
    BY <1>1
  <1>. HIDE DEF s
  <1>3. s # <<>>
    BY <1>1, <1>2, EmptySeq
  <1>4. frames' = [frames EXCEPT ![p] = s]
    BY DEF s
  <1>5. frames' \in [Backend -> Seq(Frame)] /\ frames'[p] = s /\ \A q \in Backend \ {p} : frames'[q] = frames[q]
    BY <1>0, <1>2, <1>4
  <1>. QED
    BY <1>2, <1>3, <1>5 DEF TopAdded

\* Leaving the innermost call goes back to the place it was called from.
LEMMA PopTop ==
  ASSUME TypeOK, FramesRight, NEW p \in Backend, at[p] = "receive", PopFrame(p)
  PROVE  TopDropped(p) /\ at' = [at EXCEPT ![p] = Top(p).where]
  <1>0. frames \in [Backend -> Seq(Frame)]
    BY DEF TypeOK
  <1>1. frames[p] \in Seq(Frame) /\ Len(frames[p]) \in Nat \ {0}
    BY TopFacts
  <1>. DEFINE s == SubSeq(frames[p], 1, Len(frames[p]) - 1)
  <1>2. /\ s \in Seq(Frame) /\ Len(s) = Len(frames[p]) - 1
        /\ \A j \in 1..(Len(frames[p]) - 1) : s[j] = frames[p][j]
    BY <1>1, SubSeqProperties
  <1>. HIDE DEF s
  <1>3. Len(frames[p]) = 1 <=> s = <<>>
    <2>1. s = <<>> => Len(s) = 0
      BY EmptySeq
    <2>2. s # <<>> => Len(s) # 0
      BY <1>2, EmptySeq
    <2>. QED
      BY <1>1, <1>2, <2>1, <2>2
  <1>4. frames' = [frames EXCEPT ![p] = s] /\ at' = [at EXCEPT ![p] = Top(p).where]
    BY DEF s, PopFrame, Goto
  <1>5. frames' \in [Backend -> Seq(Frame)] /\ frames'[p] = s /\ \A q \in Backend \ {p} : frames'[q] = frames[q]
    BY <1>0, <1>2, <1>4
  <1>. QED
    BY <1>2, <1>3, <1>4, <1>5 DEF TopDropped
-----------------------------------------------------------------------------
(* Where the backends are: FramesRight, with the types of at and frames.   *)

\* What a step of p does to the places: it moves nobody else, and FramesRight stays.
ControlOK(p) ==
  /\ FramesRight'
  /\ at' \in [Backend -> Place] /\ frames' \in [Backend -> Seq(Frame)]
  /\ \A q \in Backend \ {p} : at'[q] = at[q] /\ frames'[q] = frames[q]

\* Nobody moves.
LEMMA StayControl ==
  ASSUME TypeOK, FramesRight, NEW p \in Backend, UNCHANGED <<at, frames>>
  PROVE  ControlOK(p)
  BY DEF TypeOK, FramesRight, ControlOK

\* A step outside ReceiveSharedInvalidMessages.
LEMMA WalkControl ==
  ASSUME TypeOK, FramesRight, NEW p \in Backend, NEW x \in Place \ {"receive"},
         at[p] # "receive", Goto(p, x), UNCHANGED frames
  PROVE  ControlOK(p)
  <1>1. at' \in [Backend -> Place] /\ at'[p] = x /\ \A q \in Backend \ {p} : at'[q] = at[q]
    BY DEF TypeOK, Goto
  <1>2. FramesRight'
    BY <1>1 DEF FramesRight
  <1>. QED
    BY <1>1, <1>2 DEF ControlOK, TypeOK

\* A call from outside.
LEMMA EnterControl ==
  ASSUME TypeOK, FramesRight, NEW p \in Backend, NEW w \in {"idle", "enable"},
         at[p] # "receive", Goto(p, "receive"),
         frames' = [frames EXCEPT ![p] = <<NewFrame(w)>>]
  PROVE  /\ ControlOK(p) /\ frames'[p] = <<NewFrame(w)>> /\ at'[p] = "receive"
         /\ Len(frames'[p]) = 1 /\ Top(p)' = NewFrame(w)
  <1>1. at' \in [Backend -> Place] /\ at'[p] = "receive" /\ \A q \in Backend \ {p} : at'[q] = at[q]
    BY DEF TypeOK, Goto, Place
  <1>2. NewFrame(w) \in Frame
    BY DEF NewFrame, Frame, TypeOK
  <1>. DEFINE s == <<NewFrame(w)>>
  <1>3. s \in Seq(Frame) /\ Len(s) = 1 /\ s # <<>> /\ s[1] = NewFrame(w)
    BY <1>2
  <1>. HIDE DEF s
  <1>4. frames \in [Backend -> Seq(Frame)] /\ frames' = [frames EXCEPT ![p] = s]
    BY DEF s, TypeOK
  <1>5. frames' \in [Backend -> Seq(Frame)] /\ frames'[p] = s /\ \A q \in Backend \ {p} : frames'[q] = frames[q]
    BY <1>3, <1>4
  <1>6. FramesRight'
    BY <1>1, <1>3, <1>5 DEF FramesRight, NewFrame
  <1>7. Len(frames'[p]) = 1 /\ Top(p)' = NewFrame(w)
    BY <1>3, <1>5 DEF Top
  <1>. QED
    BY <1>1, <1>5, <1>6, <1>7 DEF ControlOK, s

\* A step in the innermost call.
LEMMA TopControl ==
  ASSUME TypeOK, FramesRight, NEW p \in Backend, at[p] = "receive", UNCHANGED at,
         NEW f \in Frame, TopBecomes(p, f), f.where = Top(p).where,
         f.calling => f.at \in {"drain", "process", "end"}
  PROVE  ControlOK(p) /\ Top(p)' = f
  <1>1. Len(frames[p]) \in Nat \ {0} /\ Top(p) = frames[p][Len(frames[p])]
    BY TopFacts
  <1>2. FramesRight'
    <2>. SUFFICES ASSUME NEW q \in Backend PROVE FramesRight!(q)'
      BY DEF FramesRight
    <2>1. CASE q = p
      BY <1>1, <2>1 DEF FramesRight, TopBecomes
    <2>2. CASE q # p
      BY <2>2 DEF FramesRight, TopBecomes
    <2>. QED
      BY <2>1, <2>2
  <1>. QED
    BY <1>1, <1>2 DEF ControlOK, TopBecomes, Top, TypeOK

\* A recursive call.
LEMMA PushControl ==
  ASSUME TypeOK, FramesRight, NEW p \in Backend, at[p] = "receive", UNCHANGED at,
         Top(p).calling, TopAdded(p, NewFrame("receive"))
  PROVE  ControlOK(p) /\ Top(p)' = NewFrame("receive")
  <1>1. Len(frames[p]) \in Nat \ {0} /\ Top(p) = frames[p][Len(frames[p])]
    BY TopFacts
  <1>2. FramesRight'
    <2>. SUFFICES ASSUME NEW q \in Backend PROVE FramesRight!(q)'
      BY DEF FramesRight
    <2>1. CASE q = p
      BY <1>1, <2>1 DEF FramesRight, TopAdded, NewFrame
    <2>2. CASE q # p
      BY <2>2 DEF FramesRight, TopAdded
    <2>. QED
      BY <2>1, <2>2
  <1>. QED
    BY <1>1, <1>2 DEF ControlOK, TopAdded, Top, TypeOK

\* The innermost call returns: to the frame below, which waits for it.
LEMMA PopControl ==
  ASSUME TypeOK, FramesRight, NEW p \in Backend, at[p] = "receive", PopFrame(p)
  PROVE  /\ ControlOK(p) /\ TopDropped(p) /\ at'[p] = Top(p).where
         /\ at'[p] = "receive" => Top(p)'.calling
  <1>1. /\ Len(frames[p]) \in Nat \ {0} /\ Top(p) = frames[p][Len(frames[p])] /\ Top(p) \in Frame
    BY TopFacts
  <1>2. TopDropped(p) /\ at' = [at EXCEPT ![p] = Top(p).where]
    BY PopTop
  <1>3. /\ at' \in [Backend -> Place] /\ at'[p] = Top(p).where
        /\ \A q \in Backend \ {p} : at'[q] = at[q]
    BY <1>1, <1>2 DEF TypeOK, Frame, Place
  <1>4. Top(p).where = "receive" <=> Len(frames[p]) > 1
    BY <1>1 DEF FramesRight
  <1>5. FramesRight'
    <2>. SUFFICES ASSUME NEW q \in Backend PROVE FramesRight!(q)'
      BY DEF FramesRight
    <2>1. CASE q = p
      <3>1. at'[p] = "receive" <=> frames'[p] # <<>>
        BY <1>1, <1>2, <1>3, <1>4 DEF TopDropped
      <3>2. Len(frames'[p]) = Len(frames[p]) - 1
        BY <1>2 DEF TopDropped
      <3>3. ASSUME NEW i \in 1..Len(frames'[p])
            PROVE  frames'[p][i] = frames[p][i] /\ i \in 1..Len(frames[p]) /\ i < Len(frames[p])
        BY <1>1, <1>2, <3>2 DEF TopDropped
      <3>. QED
        BY <2>1, <3>1, <3>3 DEF FramesRight
    <2>2. CASE q # p
      BY <1>2, <1>3, <2>2 DEF FramesRight, TopDropped
    <2>. QED
      BY <2>1, <2>2
  <1>6. at'[p] = "receive" => Top(p)'.calling
    <2>. SUFFICES ASSUME Len(frames[p]) > 1 PROVE Top(p)'.calling
      BY <1>3, <1>4
    <2>. DEFINE k == Len(frames[p]) - 1
    <2>1. k \in 1..Len(frames[p]) /\ k < Len(frames[p]) /\ frames[p][k].calling
      BY <1>1 DEF FramesRight
    <2>2. Top(p)' = frames[p][k]
      BY <1>1, <1>2 DEF TopDropped, Top
    <2>. QED
      BY <2>1, <2>2
  <1>. QED
    BY <1>2, <1>3, <1>5, <1>6 DEF ControlOK, TopDropped

\* An error unwinds every call.
LEMMA FailControl ==
  ASSUME TypeOK, FramesRight, NEW p \in Backend, InvalFunctionFails(p)
  PROVE  ControlOK(p) /\ at'[p] = "idle" /\ frames'[p] = <<>>
  <1>1. at' \in [Backend -> Place] /\ at'[p] = "idle" /\ \A q \in Backend \ {p} : at'[q] = at[q]
    BY DEF TypeOK, Goto, Place, InvalFunctionFails
  <1>2. frames \in [Backend -> Seq(Frame)] /\ frames' = [frames EXCEPT ![p] = <<>>] /\ <<>> \in Seq(Frame)
    BY EmptySeq DEF TypeOK, InvalFunctionFails
  <1>3. frames' \in [Backend -> Seq(Frame)] /\ frames'[p] = <<>> /\ \A q \in Backend \ {p} : frames'[q] = frames[q]
    BY <1>2
  <1>4. Len(frames'[p]) = 0
    BY <1>3, EmptySeq
  <1>5. FramesRight'
    BY <1>1, <1>3, <1>4 DEF FramesRight
  <1>. QED
    BY <1>1, <1>3, <1>5 DEF ControlOK

\* Before and after of the steps inside ReceiveSharedInvalidMessages: the frame f
\* takes the place of the innermost one.
Inside(p, f) == ControlOK(p) /\ at[p] = "receive" /\ UNCHANGED at /\ TopBecomes(p, f) /\ Top(p)' = f

\* SIGetDataEntries goes on to fetch, or to process nothing.
LEMMA GetControl ==
  ASSUME TypeOK, FramesRight, NEW p \in Backend, SIGetDataEntries(p), Mine(p).hasMessages
  PROVE  Inside(p, [Top(p) EXCEPT !.at = "fetch"])
  <1>1. at[p] = "receive" /\ ~Top(p).calling /\ UNCHANGED at /\ GotoTop(p, "fetch")
    BY DEF SIGetDataEntries, InReceive
  <1>2. Top(p) \in Frame
    BY <1>1, TopFacts
  <1>. DEFINE f == [Top(p) EXCEPT !.at = "fetch"]
  <1>3. f \in Frame /\ f.where = Top(p).where /\ ~f.calling
    BY <1>1, <1>2 DEF Frame
  <1>4. TopBecomes(p, f)
    BY <1>1, GotoTopIs
  <1>. HIDE DEF f
  <1>5. ControlOK(p) /\ Top(p)' = f
    BY <1>1, <1>3, <1>4, TopControl
  <1>. QED
    BY <1>1, <1>4, <1>5 DEF Inside, f

\* ... and without the flag it goes on to process.
LEMMA GetNoneControl ==
  ASSUME TypeOK, FramesRight, NEW p \in Backend, SIGetDataEntries(p), ~Mine(p).hasMessages
  PROVE  Inside(p, [Top(p) EXCEPT !.at = "process"])
  <1>1. at[p] = "receive" /\ ~Top(p).calling /\ UNCHANGED at /\ GotoTop(p, "process")
    BY DEF SIGetDataEntries, InReceive
  <1>2. Top(p) \in Frame
    BY <1>1, TopFacts
  <1>. DEFINE f == [Top(p) EXCEPT !.at = "process"]
  <1>3. f \in Frame /\ f.where = Top(p).where /\ ~f.calling
    BY <1>1, <1>2 DEF Frame
  <1>4. TopBecomes(p, f)
    BY <1>1, GotoTopIs
  <1>. HIDE DEF f
  <1>5. ControlOK(p) /\ Top(p)' = f
    BY <1>1, <1>3, <1>4, TopControl
  <1>. QED
    BY <1>1, <1>4, <1>5 DEF Inside, f

\* maxMsgNum is fetched, then the messages are read.
LEMMA FetchControl ==
  ASSUME TypeOK, FramesRight, NEW p \in Backend, FetchMax(p)
  PROVE  Inside(p, [Top(p) EXCEPT !.at = "read"])
  <1>1. at[p] = "receive" /\ ~Top(p).calling /\ UNCHANGED at /\ GotoTop(p, "read")
    BY DEF FetchMax, InReceive
  <1>2. Top(p) \in Frame
    BY <1>1, TopFacts
  <1>. DEFINE f == [Top(p) EXCEPT !.at = "read"]
  <1>3. f \in Frame /\ f.where = Top(p).where /\ ~f.calling
    BY <1>1, <1>2 DEF Frame
  <1>4. TopBecomes(p, f)
    BY <1>1, GotoTopIs
  <1>. HIDE DEF f
  <1>5. ControlOK(p) /\ Top(p)' = f
    BY <1>1, <1>3, <1>4, TopControl
  <1>. QED
    BY <1>1, <1>4, <1>5 DEF Inside, f

\* With the messages read they are processed.
LEMMA ReadControl ==
  ASSUME TypeOK, FramesRight, NEW p \in Backend, ReadEntries(p)
  PROVE  Inside(p, [Top(p) EXCEPT !.at = "process"])
  <1>1. at[p] = "receive" /\ ~Top(p).calling /\ UNCHANGED at /\ GotoTop(p, "process")
    BY DEF ReadEntries, InReceive
  <1>2. Top(p) \in Frame
    BY <1>1, TopFacts
  <1>. DEFINE f == [Top(p) EXCEPT !.at = "process"]
  <1>3. f \in Frame /\ f.where = Top(p).where /\ ~f.calling
    BY <1>1, <1>2 DEF Frame
  <1>4. TopBecomes(p, f)
    BY <1>1, GotoTopIs
  <1>. HIDE DEF f
  <1>5. ControlOK(p) /\ Top(p)' = f
    BY <1>1, <1>3, <1>4, TopControl
  <1>. QED
    BY <1>1, <1>4, <1>5 DEF Inside, f

\* SInvalWriteLock is taken to clean up.
LEMMA LockControl ==
  ASSUME TypeOK, FramesRight, NEW p \in Backend, LockAfterReceive(p)
  PROVE  Inside(p, [Top(p) EXCEPT !.at = "clean"])
  <1>1. at[p] = "receive" /\ ~Top(p).calling /\ UNCHANGED at /\ GotoTop(p, "clean")
    BY DEF LockAfterReceive, InReceive
  <1>2. Top(p) \in Frame
    BY <1>1, TopFacts
  <1>. DEFINE f == [Top(p) EXCEPT !.at = "clean"]
  <1>3. f \in Frame /\ f.where = Top(p).where /\ ~f.calling
    BY <1>1, <1>2 DEF Frame
  <1>4. TopBecomes(p, f)
    BY <1>1, GotoTopIs
  <1>. HIDE DEF f
  <1>5. ControlOK(p) /\ Top(p)' = f
    BY <1>1, <1>3, <1>4, TopControl
  <1>. QED
    BY <1>1, <1>4, <1>5 DEF Inside, f

\* invalFunction is called, with the frame at its place.
LEMMA TakeControl ==
  ASSUME TypeOK, FramesRight, NEW p \in Backend, TakeMessage(p)
  PROVE  Inside(p, [Top(p) EXCEPT !.calling = TRUE]) /\ Top(p).at \in {"drain", "process"}
  <1>1. at[p] = "receive" /\ Top(p).at \in {"drain", "process"} /\ UNCHANGED at
    BY DEF TakeMessage, InReceive
  <1>2. Top(p) \in Frame
    BY <1>1, TopFacts
  <1>. DEFINE f == [Top(p) EXCEPT !.calling = TRUE]
  <1>3. f \in Frame /\ f.where = Top(p).where /\ f.at \in {"drain", "process", "end"}
    BY <1>1, <1>2 DEF Frame
  <1>4. frames' = [frames EXCEPT ![p] = [frames[p] EXCEPT ![Len(frames[p])] = f]]
    BY DEF TakeMessage, Top
  <1>. HIDE DEF f
  <1>5. TopBecomes(p, f)
    BY <1>1, <1>3, <1>4, SetTop
  <1>6. ControlOK(p) /\ Top(p)' = f
    BY <1>1, <1>3, <1>5, TopControl
  <1>. QED
    BY <1>1, <1>5, <1>6 DEF Inside, f

\* ... and returns.
LEMMA ReturnControl ==
  ASSUME TypeOK, FramesRight, NEW p \in Backend, InvalFunctionReturns(p)
  PROVE  Inside(p, [Top(p) EXCEPT !.calling = FALSE])
  <1>1. at[p] = "receive" /\ Top(p).calling /\ UNCHANGED at
    BY DEF InvalFunctionReturns
  <1>2. Top(p) \in Frame
    BY <1>1, TopFacts
  <1>. DEFINE f == [Top(p) EXCEPT !.calling = FALSE]
  <1>3. f \in Frame /\ f.where = Top(p).where /\ ~f.calling
    BY <1>1, <1>2 DEF Frame
  <1>4. frames' = [frames EXCEPT ![p] = [frames[p] EXCEPT ![Len(frames[p])] = f]]
    BY DEF InvalFunctionReturns, Top
  <1>. HIDE DEF f
  <1>5. TopBecomes(p, f)
    BY <1>1, <1>3, <1>4, SetTop
  <1>6. ControlOK(p) /\ Top(p)' = f
    BY <1>1, <1>3, <1>5, TopControl
  <1>. QED
    BY <1>1, <1>5, <1>6 DEF Inside, f

\* The loop over messages[] ends in getting more or in being done.
LEMMA LoopEndControl ==
  ASSUME TypeOK, FramesRight, NEW p \in Backend, LoopEnd(p)
  PROVE  LET more == Top(p).at = "drain" \/ FullBuffer(nummsgs[p]) IN
         /\ Inside(p, [Top(p) EXCEPT !.at = IF more THEN "get" ELSE "end"])
         /\ Top(p).at \in {"drain", "process"}
  <1>. DEFINE more == Top(p).at = "drain" \/ FullBuffer(nummsgs[p])
              place == IF more THEN "get" ELSE "end"
              f == [Top(p) EXCEPT !.at = place]
  <1>1. /\ at[p] = "receive" /\ Top(p).at \in {"drain", "process"} /\ ~Top(p).calling /\ UNCHANGED at
        /\ GotoTop(p, place)
    BY DEF LoopEnd, InReceive
  <1>2. Top(p) \in Frame /\ place \in {"get", "end"}
    BY <1>1, TopFacts
  <1>. HIDE DEF more, place
  <1>3. f \in Frame /\ f.where = Top(p).where /\ ~f.calling
    BY <1>1, <1>2 DEF Frame
  <1>4. TopBecomes(p, f)
    BY <1>1, <1>2, GotoTopIs
  <1>. HIDE DEF f
  <1>5. ControlOK(p) /\ Top(p)' = f
    BY <1>1, <1>3, <1>4, TopControl
  <1>. QED
    BY <1>1, <1>4, <1>5 DEF Inside, f, place, more

\* A reset ends the loop, with resetFunction called.
LEMMA ResetControl ==
  ASSUME TypeOK, FramesRight, NEW p \in Backend, ReadReset(p)
  PROVE  Inside(p, [Top(p) EXCEPT !.at = "end", !.calling = TRUE])
  <1>1. at[p] = "receive" /\ UNCHANGED at
    BY DEF ReadReset, InReceive
  <1>2. Top(p) \in Frame
    BY <1>1, TopFacts
  <1>. DEFINE f == [Top(p) EXCEPT !.at = "end", !.calling = TRUE]
  <1>3. f \in Frame /\ f.where = Top(p).where /\ f.at = "end"
    BY <1>2 DEF Frame
  <1>4. frames' = [frames EXCEPT ![p] = [frames[p] EXCEPT ![Len(frames[p])] = f]]
    BY DEF ReadReset, Top
  <1>. HIDE DEF f
  <1>5. TopBecomes(p, f)
    BY <1>1, <1>3, <1>4, SetTop
  <1>6. ControlOK(p) /\ Top(p)' = f
    BY <1>1, <1>3, <1>5, TopControl
  <1>. QED
    BY <1>1, <1>5, <1>6 DEF Inside, f

\* The innermost call of p returns.
Leaves(p) ==
  /\ ControlOK(p) /\ at[p] = "receive" /\ TopDropped(p) /\ at'[p] = Top(p).where
  /\ at'[p] = "receive" => Top(p)'.calling

\* With a note of a signal the call goes on to clean up, else it returns.
LEMMA EndControl ==
  ASSUME TypeOK, FramesRight, NEW p \in Backend, ReceiveEnds(p)
  PROVE  Top(p).at = "end" /\ (Leaves(p) \/ Inside(p, [Top(p) EXCEPT !.at = "lock"]))
  <1>1. at[p] = "receive" /\ Top(p).at = "end" /\ ~Top(p).calling
    BY DEF ReceiveEnds, InReceive
  <1>2. CASE PopFrame(p)
    BY <1>1, <1>2, PopControl DEF Leaves
  <1>3. CASE GotoTop(p, "lock") /\ UNCHANGED at
    <2>. DEFINE f == [Top(p) EXCEPT !.at = "lock"]
    <2>1. f \in Frame /\ f.where = Top(p).where /\ ~f.calling
      BY <1>1, TopFacts DEF Frame
    <2>2. TopBecomes(p, f)
      BY <1>1, <1>3, GotoTopIs
    <2>. HIDE DEF f
    <2>3. ControlOK(p) /\ Top(p)' = f
      BY <1>1, <1>3, <2>1, <2>2, TopControl
    <2>. QED
      BY <1>1, <1>3, <2>2, <2>3 DEF Inside, f
  <1>. QED
    BY <1>1, <1>2, <1>3 DEF ReceiveEnds

\* After the cleaning the call returns, or first sends the signal.
LEMMA CleanControl ==
  ASSUME TypeOK, FramesRight, NEW p \in Backend, CleanAfterReceive(p)
  PROVE  Top(p).at = "clean" /\ (Leaves(p) \/ Inside(p, [Top(p) EXCEPT !.at = "signal"]))
  <1>1. at[p] = "receive" /\ Top(p).at = "clean" /\ ~Top(p).calling
    BY DEF CleanAfterReceive, InReceive
  <1>2. CASE PopFrame(p)
    BY <1>1, <1>2, PopControl DEF Leaves
  <1>3. CASE GotoTop(p, "signal") /\ UNCHANGED at
    <2>. DEFINE f == [Top(p) EXCEPT !.at = "signal"]
    <2>1. f \in Frame /\ f.where = Top(p).where /\ ~f.calling
      BY <1>1, TopFacts DEF Frame
    <2>2. TopBecomes(p, f)
      BY <1>1, <1>3, GotoTopIs
    <2>. HIDE DEF f
    <2>3. ControlOK(p) /\ Top(p)' = f
      BY <1>1, <1>3, <2>1, <2>2, TopControl
    <2>. QED
      BY <1>1, <1>3, <2>2, <2>3 DEF Inside, f
  <1>. QED
    BY <1>1, <1>2, <1>3 DEF CleanAfterReceive

\* With the signal sent the call returns.
LEMMA SignalControl ==
  ASSUME TypeOK, FramesRight, NEW p \in Backend, SignalAfterReceive(p)
  PROVE  Top(p).at = "signal" /\ Leaves(p)
  <1>1. at[p] = "receive" /\ Top(p).at = "signal" /\ PopFrame(p)
    BY DEF SignalAfterReceive, InReceive
  <1>. QED
    BY <1>1, PopControl DEF Leaves

\* A recursive call is at its start, above the frame that called.
LEMMA RecurseControl ==
  ASSUME TypeOK, FramesRight, NEW p \in Backend, Recurse(p)
  PROVE  /\ ControlOK(p) /\ at[p] = "receive" /\ UNCHANGED at
         /\ TopAdded(p, NewFrame("receive")) /\ Top(p)' = NewFrame("receive")
  <1>1. at[p] = "receive" /\ Top(p).calling /\ UNCHANGED at
    BY DEF Recurse
  <1>2. NewFrame("receive") \in Frame
    BY DEF NewFrame, Frame, TypeOK
  <1>3. frames' = [frames EXCEPT ![p] = Append(frames[p], NewFrame("receive"))]
    BY DEF Recurse
  <1>4. TopAdded(p, NewFrame("receive"))
    BY <1>2, <1>3, PushTop
  <1>. QED
    BY <1>1, <1>4, PushControl
-----------------------------------------------------------------------------
(* The steps outside.                                                      *)

\* A step outside ReceiveSharedInvalidMessages that leads p from one of the
\* places A to one of the places B.
Outside(p, A, B) ==
  /\ ControlOK(p) /\ UNCHANGED frames
  /\ at[p] \in A \ {"receive"} /\ at'[p] \in B \ {"receive"}

\* The moves of the steps outside.
LEMMA OutsideControl ==
  ASSUME TypeOK, FramesRight, InterruptsRight, NEW p \in Backend
  PROVE  /\ \A b \in BOOLEAN : SharedInvalBackendInit(p, b) => Outside(p, {"start"}, {"idle", "gone"})
         /\ CleanupInvalidationState(p) => Outside(p, {"idle"}, {"gone"})
         /\ GetNextLocalTransactionId(p) => Outside(p, {"idle"}, {"idle"})
         /\ \A k : SIInsertDataEntries(p, k) => Outside(p, {"idle"}, {"round"})
         /\ StartRound(p) => Outside(p, {"round"}, {"check"})
         /\ CleanInRound(p) => Outside(p, {"check"}, {"check", "signal"})
         /\ SignalInRound(p) => Outside(p, {"signal"}, {"relock"})
         /\ RelockInRound(p) => Outside(p, {"relock"}, {"check"})
         /\ WriteEntries(p) => Outside(p, {"check"}, {"publish"})
         /\ PublishMax(p) => Outside(p, {"publish"}, {"kick"})
         /\ Kick(p) => Outside(p, {"kick"}, {"round", "idle"})
         /\ PrepareForClientRead(p) => Outside(p, {"idle"}, {"enable"})
         /\ ClientReadEnded(p) => Outside(p, {"wait"}, {"idle"})
  <1>0. at \in [Backend -> Place]
    BY DEF TypeOK
  <1>. USE DEF Place
  <1>1. ASSUME NEW x \in Place \ {"receive"}, at[p] # "receive", Goto(p, x), UNCHANGED frames
        PROVE  ControlOK(p) /\ at'[p] = x
    BY <1>0, <1>1, WalkControl DEF Goto
  <1>2. ASSUME UNCHANGED <<at, frames>> PROVE ControlOK(p)
    BY <1>2, StayControl
  <1>3. \A b \in BOOLEAN : SharedInvalBackendInit(p, b) => Outside(p, {"start"}, {"idle", "gone"})
    BY <1>1 DEF SharedInvalBackendInit, Outside
  <1>4. CleanupInvalidationState(p) => Outside(p, {"idle"}, {"gone"})
    BY <1>1 DEF CleanupInvalidationState, Outside, receiveVars
  <1>5. GetNextLocalTransactionId(p) => Outside(p, {"idle"}, {"idle"})
    BY <1>2 DEF GetNextLocalTransactionId, Outside, receiveVars
  <1>6. \A k : SIInsertDataEntries(p, k) => Outside(p, {"idle"}, {"round"})
    BY <1>1 DEF SIInsertDataEntries, Outside, receiveVars
  <1>7. StartRound(p) => Outside(p, {"round"}, {"check"})
    BY <1>1 DEF StartRound, Outside, receiveVars
  <1>8. CleanInRound(p) => Outside(p, {"check"}, {"check", "signal"})
    BY <1>1, <1>2 DEF CleanInRound, Outside, receiveVars
  <1>9. SignalInRound(p) => Outside(p, {"signal"}, {"relock"})
    BY <1>1 DEF SignalInRound, Outside, receiveVars
  <1>10. RelockInRound(p) => Outside(p, {"relock"}, {"check"})
    BY <1>1 DEF RelockInRound, Outside, receiveVars
  <1>11. WriteEntries(p) => Outside(p, {"check"}, {"publish"})
    BY <1>1 DEF WriteEntries, Outside, receiveVars
  <1>12. PublishMax(p) => Outside(p, {"publish"}, {"kick"})
    BY <1>1 DEF PublishMax, Outside, receiveVars
  <1>13. Kick(p) => Outside(p, {"kick"}, {"round", "idle"})
    BY <1>1 DEF Kick, Outside, receiveVars
  <1>14. PrepareForClientRead(p) => Outside(p, {"idle"}, {"enable"})
    BY <1>1 DEF PrepareForClientRead, Outside, receiveVars
  <1>15. ClientReadEnded(p) => Outside(p, {"wait"}, {"idle"})
    BY <1>1 DEF ClientReadEnded, Outside, receiveVars
  <1>. QED
    BY <1>3, <1>4, <1>5, <1>6, <1>7, <1>8, <1>9, <1>10, <1>11, <1>12, <1>13, <1>14, <1>15

\* Calls from outside: on the backend's own account, or in the handler's loop.
LEMMA ReceiveControl ==
  ASSUME TypeOK, FramesRight, NEW p \in Backend, ReceiveSharedInvalidMessages(p)
  PROVE  /\ ControlOK(p) /\ at[p] = "idle" /\ at'[p] = "receive"
         /\ frames'[p] = <<NewFrame("idle")>> /\ Len(frames'[p]) = 1 /\ Top(p)' = NewFrame("idle")
  <1>1. /\ at[p] = "idle" /\ Goto(p, "receive")
        /\ frames' = [frames EXCEPT ![p] = <<NewFrame("idle")>>]
    BY DEF ReceiveSharedInvalidMessages
  <1>. QED
    BY <1>1, EnterControl

\* The places where the handler may do the work itself.
Open == {"test", "disable", "wait"}

\* The loop of EnableCatchupInterrupt walks around, or calls.
LEMMA EnableControl ==
  ASSUME TypeOK, FramesRight, NEW p \in Backend, EnableLoop(p)
  PROVE  /\ ControlOK(p) /\ at[p] \in {"enable", "test", "disable", "retest"}
         /\ \/ UNCHANGED frames /\ at'[p] \in {"enable", "retest"} \cup Open
            \/ /\ at[p] = "retest" /\ at'[p] = "receive"
               /\ frames'[p] = <<NewFrame("enable")>> /\ Len(frames'[p]) = 1 /\ Top(p)' = NewFrame("enable")
  <1>0. /\ at \in [Backend -> Place] /\ interrupted \in [Backend -> {NULL} \cup Open]
    BY DEF TypeOK, Open
  <1>1. ASSUME NEW x \in {"enable", "retest"} \cup Open, Goto(p, x), UNCHANGED frames, at[p] # "receive"
        PROVE  ControlOK(p) /\ at'[p] = x
    BY <1>0, <1>1, WalkControl DEF Goto, Place, Open
  <1>2. ASSUME at[p] = "retest", Goto(p, "receive"), frames' = [frames EXCEPT ![p] = <<NewFrame("enable")>>]
        PROVE  /\ ControlOK(p) /\ at'[p] = "receive" /\ frames'[p] = <<NewFrame("enable")>>
               /\ Len(frames'[p]) = 1 /\ Top(p)' = NewFrame("enable")
    BY <1>2, EnterControl
  <1>3. CASE at[p] = "test" /\ ~Noticed(p)
    <2>. DEFINE x == IF interrupted[p] = NULL THEN "wait" ELSE interrupted[p]
    <2>1. x \in {"enable", "retest"} \cup Open
      BY <1>0 DEF Open
    <2>2. Goto(p, x) /\ UNCHANGED frames
      BY <1>3 DEF EnableLoop
    <2>. HIDE DEF x
    <2>. QED
      BY <1>1, <1>3, <2>1, <2>2
  <1>4. CASE ~(at[p] = "test" /\ ~Noticed(p)) /\ ~(at[p] = "retest" /\ catchupInterruptOccurred[p])
    BY <1>1, <1>4 DEF EnableLoop, Open
  <1>5. CASE at[p] = "retest" /\ catchupInterruptOccurred[p]
    BY <1>2, <1>5 DEF EnableLoop
  <1>. QED
    BY <1>3, <1>4, <1>5

\* The signal handler starts the loop, or only leaves a note.
LEMMA HandleControl ==
  ASSUME TypeOK, FramesRight, InterruptsRight, NEW p \in Backend, HandleCatchupInterrupt(p)
  PROVE  /\ ControlOK(p) /\ UNCHANGED frames
         /\ IF at[p] \in Open THEN at'[p] = "enable" ELSE UNCHANGED at
  <1>1. catchupInterruptEnabled[p] <=> at[p] \in Open
    BY DEF InterruptsRight, Open
  <1>2. UNCHANGED frames /\ IF at[p] \in Open THEN Goto(p, "enable") ELSE UNCHANGED at
    BY <1>1 DEF HandleCatchupInterrupt, receiveVars
  <1>3. CASE at[p] \in Open
    BY <1>2, <1>3, WalkControl DEF Open, Place, Goto, TypeOK
  <1>4. CASE at[p] \notin Open
    BY <1>2, <1>4, StayControl
  <1>. QED
    BY <1>2, <1>3, <1>4
-----------------------------------------------------------------------------
(* One case per operation.                                                 *)

Step(p) ==
  \/ \E b \in BOOLEAN : SharedInvalBackendInit(p, b)
  \/ CleanupInvalidationState(p) \/ GetNextLocalTransactionId(p)
  \/ \E k \in 1..MaxBatch : SIInsertDataEntries(p, k)
  \/ StartRound(p) \/ CleanInRound(p) \/ SignalInRound(p) \/ RelockInRound(p)
  \/ WriteEntries(p) \/ PublishMax(p) \/ Kick(p)
  \/ ReceiveSharedInvalidMessages(p) \/ Recurse(p) \/ InvalFunctionFails(p)
  \/ TakeMessage(p) \/ InvalFunctionReturns(p) \/ LoopEnd(p)
  \/ SIGetDataEntries(p) \/ FetchMax(p) \/ ReadEntries(p) \/ ReadReset(p)
  \/ ReceiveEnds(p) \/ LockAfterReceive(p) \/ CleanAfterReceive(p) \/ SignalAfterReceive(p)
  \/ PrepareForClientRead(p) \/ EnableLoop(p) \/ HandleCatchupInterrupt(p) \/ ClientReadEnded(p)

\* Every step is one of a backend, or none.
LEMMA NextSteps ==
  ASSUME [Next]_vars
  PROVE  (\E p \in Backend : Step(p)) \/ UNCHANGED vars
  <1>1. \A p \in Backend : \A b \in {FALSE, (p \in Startup)} : b \in BOOLEAN
    <2>1. \A p \in Backend : (p \in Startup) \in BOOLEAN
      BY SMT
    <2>. QED
      BY <2>1, Zenon
  <1>2. ASSUME NEW p \in Backend, \E sendOnly \in {FALSE, (p \in Startup)} : SharedInvalBackendInit(p, sendOnly)
        PROVE  Step(p)
    <2>1. \E b \in BOOLEAN : SharedInvalBackendInit(p, b)
      BY <1>1, <1>2, Zenon
    <2>. QED
      BY <2>1, Zenon DEF Step
  <1>3. CASE Terminated \/ UNCHANGED vars
    BY <1>3, Zenon DEF Terminated
  <1>4. CASE \E p \in Backend : ~(\E sendOnly \in {FALSE, (p \in Startup)} : SharedInvalBackendInit(p, sendOnly))
                               /\ (Next!1!(p))
    BY <1>4, Zenon DEF Step, Insert, Receive
  <1>. QED
    BY <1>2, <1>3, <1>4, Zenon DEF Next

\* The frames stay right.
LEMMA ControlStep ==
  ASSUME TypeOK, FramesRight, InterruptsRight, NEW p \in Backend, Step(p)
  PROVE  ControlOK(p)
  <1>1. CASE \E b \in BOOLEAN : SharedInvalBackendInit(p, b)
    BY <1>1, OutsideControl DEF Outside
  <1>2. CASE CleanupInvalidationState(p) \/ GetNextLocalTransactionId(p)
    BY <1>2, OutsideControl DEF Outside
  <1>3. CASE \E k \in 1..MaxBatch : SIInsertDataEntries(p, k)
    BY <1>3, OutsideControl DEF Outside
  <1>4. CASE StartRound(p) \/ CleanInRound(p) \/ SignalInRound(p) \/ RelockInRound(p)
    BY <1>4, OutsideControl DEF Outside
  <1>5. CASE WriteEntries(p) \/ PublishMax(p) \/ Kick(p)
    BY <1>5, OutsideControl DEF Outside
  <1>6. CASE ReceiveSharedInvalidMessages(p)
    BY <1>6, ReceiveControl
  <1>7. CASE Recurse(p)
    BY <1>7, RecurseControl
  <1>8. CASE InvalFunctionFails(p)
    BY <1>8, FailControl
  <1>9. CASE TakeMessage(p)
    BY <1>9, TakeControl DEF Inside
  <1>10. CASE InvalFunctionReturns(p)
    BY <1>10, ReturnControl DEF Inside
  <1>11. CASE LoopEnd(p)
    BY <1>11, LoopEndControl DEF Inside
  <1>12. CASE SIGetDataEntries(p)
    BY <1>12, GetControl, GetNoneControl DEF Inside
  <1>13. CASE FetchMax(p)
    BY <1>13, FetchControl DEF Inside
  <1>14. CASE ReadEntries(p)
    BY <1>14, ReadControl DEF Inside
  <1>15. CASE ReadReset(p)
    BY <1>15, ResetControl DEF Inside
  <1>16. CASE ReceiveEnds(p)
    BY <1>16, EndControl DEF Inside, Leaves
  <1>17. CASE LockAfterReceive(p)
    BY <1>17, LockControl DEF Inside
  <1>18. CASE CleanAfterReceive(p)
    BY <1>18, CleanControl DEF Inside, Leaves
  <1>19. CASE SignalAfterReceive(p)
    BY <1>19, SignalControl DEF Leaves
  <1>20. CASE PrepareForClientRead(p) \/ ClientReadEnded(p)
    BY <1>20, OutsideControl DEF Outside
  <1>21. CASE EnableLoop(p)
    BY <1>21, EnableControl
  <1>22. CASE HandleCatchupInterrupt(p)
    BY <1>22, HandleControl
  <1>. QED
    BY <1>1, <1>2, <1>3, <1>4, <1>5, <1>6, <1>7, <1>8, <1>9, <1>10, <1>11, <1>12, <1>13, <1>14, <1>15,
       <1>16, <1>17, <1>18, <1>19, <1>20, <1>21, <1>22 DEF Step
-----------------------------------------------------------------------------
(* The catchup interrupt.                                                  *)

\* A step of p that stays clear of the open places and of the handler's flag.
LEMMA InterruptsKept ==
  ASSUME TypeOK, InterruptsRight, NoSleepOnInterrupt, NEW p \in Backend, ControlOK(p),
         at[p] \notin Open, at'[p] \notin Open, UNCHANGED catchupInterruptEnabled,
         \A q \in Backend \ {p} : catchupInterruptOccurred'[q] = catchupInterruptOccurred[q]
  PROVE  InterruptsRight' /\ NoSleepOnInterrupt'
  BY DEF InterruptsRight, NoSleepOnInterrupt, ControlOK, Open

\* The loop of EnableCatchupInterrupt leaves for the client only without a note.
LEMMA EnableInterrupts ==
  ASSUME TypeOK, FramesRight, InterruptsRight, NoSleepOnInterrupt, NEW p \in Backend, EnableLoop(p)
  PROVE  InterruptsRight' /\ NoSleepOnInterrupt'
  <1>1. ControlOK(p)
    BY EnableControl
  <1>2. /\ at \in [Backend -> Place] /\ interrupted \in [Backend -> {NULL, "test", "disable", "wait"}]
        /\ catchupInterruptEnabled \in [Backend -> BOOLEAN]
    BY DEF TypeOK
  <1>3. UNCHANGED catchupInterruptOccurred
    BY DEF EnableLoop
  <1>4. /\ \A q \in Backend \ {p} : catchupInterruptEnabled'[q] = catchupInterruptEnabled[q]
        /\ catchupInterruptEnabled'[p] <=> at'[p] \in Open
        /\ at'[p] = "wait" => ~catchupInterruptOccurred[p]
    BY <1>2 DEF EnableLoop, Goto, SetEnabled, Disabled, Noticed, InterruptsRight, Open, NoSleepOnInterrupt
  <1>. QED
    BY <1>1, <1>3, <1>4 DEF InterruptsRight, NoSleepOnInterrupt, ControlOK, Open

\* The handler notes the signal where the backend does not wait, or works.
LEMMA HandleInterrupts ==
  ASSUME TypeOK, FramesRight, InterruptsRight, NoSleepOnInterrupt, NEW p \in Backend, HandleCatchupInterrupt(p)
  PROVE  InterruptsRight' /\ NoSleepOnInterrupt'
  <1>1. ControlOK(p) /\ IF at[p] \in Open THEN at'[p] = "enable" ELSE UNCHANGED at
    BY HandleControl
  <1>2. /\ catchupInterruptEnabled \in [Backend -> BOOLEAN] /\ catchupInterruptOccurred \in [Backend -> BOOLEAN]
    BY DEF TypeOK
  <1>3. catchupInterruptEnabled[p] <=> at[p] \in Open
    BY DEF InterruptsRight, Open
  <1>4. /\ \A q \in Backend \ {p} : /\ catchupInterruptEnabled'[q] = catchupInterruptEnabled[q]
                                    /\ catchupInterruptOccurred'[q] = catchupInterruptOccurred[q]
        /\ ~catchupInterruptEnabled'[p]
    BY <1>2, <1>3 DEF HandleCatchupInterrupt, SetEnabled
  <1>5. at'[p] \notin Open
    BY <1>1 DEF Open
  <1>. QED
    BY <1>1, <1>4, <1>5 DEF InterruptsRight, NoSleepOnInterrupt, ControlOK, Open

\* The handler's flag is right after every step, and nobody waits with a note.
LEMMA InterruptStep ==
  ASSUME TypeOK, FramesRight, InterruptsRight, NoSleepOnInterrupt, NEW p \in Backend, Step(p)
  PROVE  InterruptsRight' /\ NoSleepOnInterrupt'
  <1>0. ControlOK(p)
    BY ControlStep
  <1>1. CASE \E b \in BOOLEAN : SharedInvalBackendInit(p, b)
    BY <1>1, InterruptsKept, OutsideControl DEF Outside, Open, SharedInvalBackendInit, interruptVars
  <1>2. CASE CleanupInvalidationState(p) \/ GetNextLocalTransactionId(p)
    BY <1>2, InterruptsKept, OutsideControl
       DEF Outside, Open, CleanupInvalidationState, GetNextLocalTransactionId, interruptVars
  <1>3. CASE \E k \in 1..MaxBatch : SIInsertDataEntries(p, k)
    BY <1>3, InterruptsKept, OutsideControl DEF Outside, Open, SIInsertDataEntries, interruptVars
  <1>4. CASE StartRound(p) \/ CleanInRound(p) \/ SignalInRound(p) \/ RelockInRound(p)
    BY <1>4, InterruptsKept, OutsideControl
       DEF Outside, Open, StartRound, CleanInRound, SignalInRound, RelockInRound, SendProcSignal, interruptVars
  <1>5. CASE WriteEntries(p) \/ PublishMax(p) \/ Kick(p)
    BY <1>5, InterruptsKept, OutsideControl DEF Outside, Open, WriteEntries, PublishMax, Kick, interruptVars
  <1>6. CASE ReceiveSharedInvalidMessages(p)
    BY <1>6, InterruptsKept, ReceiveControl DEF Open, ReceiveSharedInvalidMessages, interruptVars
  <1>7. CASE Recurse(p)
    BY <1>0, <1>7, InterruptsKept DEF Open, Recurse, interruptVars
  <1>8. CASE InvalFunctionFails(p)
    <2>1. ControlOK(p) /\ at'[p] = "idle"
      BY <1>8, FailControl
    <2>2. /\ catchupInterruptEnabled \in [Backend -> BOOLEAN] /\ UNCHANGED catchupInterruptOccurred
          /\ catchupInterruptEnabled' = [catchupInterruptEnabled EXCEPT ![p] = FALSE]
      BY <1>8 DEF TypeOK, InvalFunctionFails
    <2>. QED
      BY <2>1, <2>2 DEF InterruptsRight, NoSleepOnInterrupt, ControlOK
  <1>9. CASE TakeMessage(p) \/ InvalFunctionReturns(p) \/ LoopEnd(p)
    BY <1>0, <1>9, InterruptsKept DEF Open, TakeMessage, InvalFunctionReturns, LoopEnd, InReceive, interruptVars
  <1>10. CASE SIGetDataEntries(p) \/ FetchMax(p) \/ ReadEntries(p) \/ ReadReset(p)
    BY <1>0, <1>10, InterruptsKept
       DEF Open, SIGetDataEntries, FetchMax, ReadEntries, ReadReset, InReceive, interruptVars
  <1>11. CASE LockAfterReceive(p)
    BY <1>0, <1>11, InterruptsKept DEF Open, LockAfterReceive, InReceive, interruptVars
  <1>12. CASE ReceiveEnds(p) \/ CleanAfterReceive(p) \/ SignalAfterReceive(p)
    <2>1. at[p] = "receive"
      BY <1>12 DEF ReceiveEnds, CleanAfterReceive, SignalAfterReceive, InReceive
    <2>2. at'[p] \notin Open
      BY <1>12, <2>1, EndControl, CleanControl, SignalControl, TopFacts DEF Leaves, Inside, Frame, Open
    <2>3. UNCHANGED catchupInterruptEnabled
      BY <1>12 DEF ReceiveEnds, CleanAfterReceive, SignalAfterReceive, SendProcSignal, interruptVars
    <2>4. \A q \in Backend \ {p} : catchupInterruptOccurred'[q] = catchupInterruptOccurred[q]
      BY <1>12 DEF ReceiveEnds, CleanAfterReceive, SignalAfterReceive, SendProcSignal, interruptVars,
                   NoteCleared, TypeOK
    <2>. QED
      BY <1>0, <2>1, <2>2, <2>3, <2>4, InterruptsKept DEF Open
  <1>13. CASE PrepareForClientRead(p)
    BY <1>13, InterruptsKept, OutsideControl DEF Outside, Open, PrepareForClientRead, interruptVars
  <1>14. CASE ClientReadEnded(p)
    <2>1. ControlOK(p) /\ at'[p] = "idle"
      BY <1>14, OutsideControl DEF Outside
    <2>2. /\ catchupInterruptEnabled \in [Backend -> BOOLEAN] /\ UNCHANGED catchupInterruptOccurred
          /\ catchupInterruptEnabled' = [catchupInterruptEnabled EXCEPT ![p] = FALSE]
      BY <1>14 DEF TypeOK, ClientReadEnded, SetEnabled
    <2>. QED
      BY <2>1, <2>2 DEF InterruptsRight, NoSleepOnInterrupt, ControlOK
  <1>15. CASE EnableLoop(p)
    BY <1>15, EnableInterrupts
  <1>16. CASE HandleCatchupInterrupt(p)
    BY <1>16, HandleInterrupts
  <1>. QED
    BY <1>1, <1>2, <1>3, <1>4, <1>5, <1>6, <1>7, <1>8, <1>9, <1>10, <1>11, <1>12, <1>13, <1>14, <1>15,
       <1>16 DEF Step
-----------------------------------------------------------------------------
(* The locks.                                                              *)

\* The other backends stay writers and readers.
LEMMA OthersHold ==
  ASSUME NEW p \in Backend, ControlOK(p), NEW q \in Backend \ {p}
  PROVE  (Writer(q)' <=> Writer(q)) /\ (Reader(q)' <=> Reader(q))
  BY DEF ControlOK, Writer, Reader, Top

\* A step of p that takes and releases nothing.
LEMMA LocksKept ==
  ASSUME LocksRight, NEW p \in Backend, ControlOK(p), UNCHANGED lwlocks,
         Writer(p)' <=> Writer(p), Reader(p)' <=> Reader(p)
  PROVE  LocksRight'
  <1>1. \A q \in Backend : (Writer(q)' <=> Writer(q)) /\ (Reader(q)' <=> Reader(q))
    BY OthersHold
  <1>. QED
    BY <1>1 DEF LocksRight

\* Only one backend can come to hold SInvalWriteLock.
LEMMA WriteLockTaken ==
  ASSUME TypeOK, LocksRight, NEW p \in Backend, ControlOK(p), LW!Acquire(p, "SInvalWriteLock", EX),
         Writer(p)', ~Reader(p), ~Reader(p)'
  PROVE  LocksRight'
  <1>1. \A q \in Backend \ {p} : (Writer(q)' <=> Writer(q)) /\ (Reader(q)' <=> Reader(q))
    BY OthersHold
  <1>2. \A q \in Backend \ {p} : ~Writer(q)
    BY DEF LW!Acquire, LW!Compatible, LW!SHARED, LocksRight
  <1>3. /\ lwlocks'[p]["SInvalWriteLock"] = EX
        /\ lwlocks'[p]["SInvalReadLock"] = lwlocks[p]["SInvalReadLock"]
        /\ \A q \in Backend \ {p} : lwlocks'[q] = lwlocks[q]
    BY DEF TypeOK, LW!Acquire
  <1>. QED
    BY <1>1, <1>2, <1>3 DEF LocksRight

\* ... and it gives it back.
LEMMA WriteLockReleased ==
  ASSUME TypeOK, LocksRight, NEW p \in Backend, ControlOK(p), LW!Release(p, "SInvalWriteLock"),
         ~Writer(p)', ~Reader(p), ~Reader(p)'
  PROVE  LocksRight'
  <1>1. \A q \in Backend \ {p} : (Writer(q)' <=> Writer(q)) /\ (Reader(q)' <=> Reader(q))
    BY OthersHold
  <1>2. /\ lwlocks'[p]["SInvalWriteLock"] = "none"
        /\ lwlocks'[p]["SInvalReadLock"] = lwlocks[p]["SInvalReadLock"]
        /\ \A q \in Backend \ {p} : lwlocks'[q] = lwlocks[q]
    BY DEF TypeOK, LW!Release
  <1>. QED
    BY <1>1, <1>2 DEF LocksRight

\* SInvalReadLock is taken and given back where p is no writer.
LEMMA ReadLockChanged ==
  ASSUME TypeOK, LocksRight, NEW p \in Backend, ControlOK(p), ~Writer(p), ~Writer(p)',
         NEW m, lwlocks' = [lwlocks EXCEPT ![p]["SInvalReadLock"] = m],
         m = IF Reader(p)' THEN SH ELSE "none"
  PROVE  LocksRight'
  <1>1. \A q \in Backend \ {p} : (Writer(q)' <=> Writer(q)) /\ (Reader(q)' <=> Reader(q))
    BY OthersHold
  <1>2. /\ lwlocks'[p]["SInvalReadLock"] = m
        /\ lwlocks'[p]["SInvalWriteLock"] = lwlocks[p]["SInvalWriteLock"]
        /\ \A q \in Backend \ {p} : lwlocks'[q] = lwlocks[q]
    BY DEF TypeOK
  <1>. QED
    BY <1>1, <1>2 DEF LocksRight

\* The locks are held where they should be after every step.
LEMMA LockStep ==
  ASSUME TypeOK, FramesRight, InterruptsRight, LocksRight, NEW p \in Backend, Step(p)
  PROVE  LocksRight'
  <1>0. ControlOK(p)
    BY ControlStep
  <1>1. CASE \E b \in BOOLEAN : SharedInvalBackendInit(p, b)
    BY <1>1, LocksKept, OutsideControl DEF Outside, SharedInvalBackendInit, Writer, Reader
  <1>2. CASE CleanupInvalidationState(p) \/ GetNextLocalTransactionId(p)
    BY <1>2, LocksKept, OutsideControl
       DEF Outside, CleanupInvalidationState, GetNextLocalTransactionId, Writer, Reader
  <1>3. CASE \E k \in 1..MaxBatch : SIInsertDataEntries(p, k)
    BY <1>3, LocksKept, OutsideControl DEF Outside, SIInsertDataEntries, Writer, Reader
  <1>4. CASE StartRound(p) \/ RelockInRound(p)
    BY <1>4, WriteLockTaken, OutsideControl DEF Outside, StartRound, RelockInRound, Writer, Reader
  <1>5. CASE CleanInRound(p)
    <2>1. Outside(p, {"check"}, {"check", "signal"})
      BY <1>5, OutsideControl
    <2>2. CASE UNCHANGED <<at, lwlocks>>
      BY <2>1, <2>2, LocksKept DEF Outside, Writer, Reader
    <2>3. CASE Goto(p, "signal") /\ LW!Release(p, "SInvalWriteLock")
      <3>1. at'[p] = "signal"
        BY <2>3 DEF Goto, TypeOK
      <3>. QED
        BY <2>1, <2>3, <3>1, WriteLockReleased DEF Outside, Writer, Reader
    <2>. QED
      BY <1>5, <2>2, <2>3 DEF CleanInRound
  <1>6. CASE SignalInRound(p) \/ WriteEntries(p) \/ PublishMax(p)
    BY <1>6, LocksKept, OutsideControl DEF Outside, SignalInRound, WriteEntries, PublishMax, Writer, Reader
  <1>7. CASE Kick(p)
    BY <1>7, WriteLockReleased, OutsideControl DEF Outside, Kick, Writer, Reader
  <1>8. CASE ReceiveSharedInvalidMessages(p)
    <2>1. at[p] = "idle" /\ at'[p] = "receive" /\ Top(p)'.at = "drain"
      BY <1>8, ReceiveControl DEF NewFrame
    <2>2. UNCHANGED lwlocks
      BY <1>8 DEF ReceiveSharedInvalidMessages
    <2>. QED
      BY <1>0, <2>1, <2>2, LocksKept DEF Writer, Reader
  <1>9. CASE Recurse(p)
    <2>1. at[p] = "receive" /\ UNCHANGED at /\ Top(p)'.at = "drain"
      BY <1>9, RecurseControl DEF NewFrame
    <2>2. Top(p).at \in {"drain", "process", "end"} /\ UNCHANGED lwlocks
      BY <1>9, TopFacts DEF Recurse, FramesRight
    <2>. QED
      BY <1>0, <2>1, <2>2, LocksKept DEF Writer, Reader
  <1>10. CASE InvalFunctionFails(p)
    <2>1. at[p] = "receive" /\ at'[p] = "idle"
      BY <1>10, FailControl DEF InvalFunctionFails
    <2>2. Top(p).at \in {"drain", "process", "end"} /\ UNCHANGED lwlocks
      BY <1>10, TopFacts DEF InvalFunctionFails, FramesRight
    <2>. QED
      BY <1>0, <2>1, <2>2, LocksKept DEF Writer, Reader
  <1>11. CASE TakeMessage(p) \/ InvalFunctionReturns(p)
    <2>1. /\ at[p] = "receive" /\ UNCHANGED at /\ Top(p) \in Frame
          /\ Top(p)' \in {[Top(p) EXCEPT !.calling = TRUE], [Top(p) EXCEPT !.calling = FALSE]}
      BY <1>11, TakeControl, ReturnControl, TopFacts DEF Inside
    <2>2. Top(p)'.at = Top(p).at /\ UNCHANGED lwlocks
      BY <1>11, <2>1 DEF TakeMessage, InvalFunctionReturns, Frame
    <2>. QED
      BY <1>0, <2>1, <2>2, LocksKept DEF Writer, Reader
  <1>12. CASE LoopEnd(p)
    <2>1. /\ at[p] = "receive" /\ UNCHANGED at /\ Top(p) \in Frame /\ Top(p).at \in {"drain", "process"}
          /\ Top(p)' \in {[Top(p) EXCEPT !.at = "get"], [Top(p) EXCEPT !.at = "end"]}
      BY <1>12, LoopEndControl, TopFacts DEF Inside
    <2>2. Top(p)'.at \in {"get", "end"} /\ UNCHANGED lwlocks
      BY <1>12, <2>1 DEF LoopEnd, Frame
    <2>. QED
      BY <1>0, <2>1, <2>2, LocksKept DEF Writer, Reader
  <1>13. CASE SIGetDataEntries(p)
    <2>1. at[p] = "receive" /\ UNCHANGED at /\ Top(p) \in Frame /\ Top(p).at = "get"
      BY <1>13, TopFacts DEF SIGetDataEntries, InReceive
    <2>2. CASE ~Mine(p).hasMessages
      <3>1. Top(p)'.at = "process" /\ UNCHANGED lwlocks
        <4>1. Top(p)' = [Top(p) EXCEPT !.at = "process"] /\ UNCHANGED lwlocks
          BY <1>13, <2>2, GetNoneControl DEF Inside, SIGetDataEntries
        <4>. QED
          BY <2>1, <4>1 DEF Frame
      <3>. QED
        BY <1>0, <2>1, <3>1, LocksKept DEF Writer, Reader
    <2>3. CASE Mine(p).hasMessages
      <3>1. Top(p)'.at = "fetch" /\ lwlocks' = [lwlocks EXCEPT ![p]["SInvalReadLock"] = SH]
        <4>1. Top(p)' = [Top(p) EXCEPT !.at = "fetch"]
          BY <1>13, <2>3, GetControl DEF Inside
        <4>2. lwlocks' = [lwlocks EXCEPT ![p]["SInvalReadLock"] = SH]
          BY <1>13, <2>3 DEF SIGetDataEntries, LW!Acquire
        <4>. QED
          BY <2>1, <4>1, <4>2 DEF Frame
      <3>. QED
        BY <1>0, <2>1, <3>1, ReadLockChanged DEF Writer, Reader
    <2>. QED
      BY <2>2, <2>3
  <1>14. CASE FetchMax(p)
    <2>1. /\ at[p] = "receive" /\ UNCHANGED at /\ Top(p) \in Frame /\ Top(p).at = "fetch"
          /\ Top(p)' = [Top(p) EXCEPT !.at = "read"] /\ UNCHANGED lwlocks
      BY <1>14, FetchControl, TopFacts DEF Inside, FetchMax, InReceive
    <2>2. Top(p)'.at = "read"
      BY <2>1 DEF Frame
    <2>. QED
      BY <1>0, <2>1, <2>2, LocksKept DEF Writer, Reader
  <1>15. CASE ReadEntries(p) \/ ReadReset(p)
    <2>1. /\ at[p] = "receive" /\ UNCHANGED at /\ Top(p) \in Frame /\ Top(p).at = "read"
          /\ lwlocks' = [lwlocks EXCEPT ![p]["SInvalReadLock"] = "none"]
      BY <1>15, TopFacts DEF ReadEntries, ReadReset, InReceive, LW!Release
    <2>2. Top(p)'.at \in {"process", "end"}
      <3>1. Top(p)' \in {[Top(p) EXCEPT !.at = "process"], [Top(p) EXCEPT !.at = "end", !.calling = TRUE]}
        BY <1>15, ReadControl, ResetControl DEF Inside
      <3>. QED
        BY <2>1, <3>1 DEF Frame
    <2>. QED
      BY <1>0, <2>1, <2>2, ReadLockChanged DEF Writer, Reader
  <1>16. CASE LockAfterReceive(p)
    <2>1. /\ at[p] = "receive" /\ UNCHANGED at /\ Top(p) \in Frame /\ Top(p).at = "lock"
          /\ Top(p)' = [Top(p) EXCEPT !.at = "clean"] /\ LW!Acquire(p, "SInvalWriteLock", EX)
      BY <1>16, LockControl, TopFacts DEF Inside, LockAfterReceive, InReceive
    <2>2. Top(p)'.at = "clean"
      BY <2>1 DEF Frame
    <2>. QED
      BY <1>0, <2>1, <2>2, WriteLockTaken DEF Writer, Reader
  <1>17. CASE ReceiveEnds(p) \/ CleanAfterReceive(p) \/ SignalAfterReceive(p)
    <2>1. at[p] = "receive" /\ Top(p) \in Frame /\ Top(p).at \in {"end", "clean", "signal"}
      BY <1>17, TopFacts DEF ReceiveEnds, CleanAfterReceive, SignalAfterReceive, InReceive
    <2>2. ~Writer(p)' /\ ~Reader(p)'
      <3>1. CASE Leaves(p)
        <4>1. at'[p] \in {"idle", "receive", "enable"}
          BY <2>1, <3>1 DEF Leaves, Frame
        <4>2. at'[p] = "receive" => Top(p)'.at \in {"drain", "process", "end"}
          <5>. SUFFICES ASSUME at'[p] = "receive" PROVE Top(p)'.at \in {"drain", "process", "end"}
            OBVIOUS
          <5>1. FramesRight' /\ frames' \in [Backend -> Seq(Frame)]
            BY <1>0 DEF ControlOK
          <5>2. frames'[p] # <<>> /\ Len(frames'[p]) \in Nat \ {0}
            BY <5>1, EmptySeq DEF FramesRight
          <5>. QED
            BY <3>1, <5>1, <5>2 DEF Leaves, FramesRight, Top
        <4>. QED
          BY <4>1, <4>2 DEF Writer, Reader
      <3>2. CASE ~Leaves(p)
        <4>1. UNCHANGED at /\ Top(p)' \in {[Top(p) EXCEPT !.at = "lock"], [Top(p) EXCEPT !.at = "signal"]}
          BY <1>17, <3>2, EndControl, CleanControl, SignalControl DEF Inside
        <4>2. Top(p)'.at \in {"lock", "signal"}
          BY <2>1, <4>1 DEF Frame
        <4>. QED
          BY <2>1, <4>1, <4>2 DEF Writer, Reader
      <3>. QED
        BY <3>1, <3>2
    <2>3. CASE CleanAfterReceive(p)
      BY <1>0, <2>1, <2>2, <2>3, WriteLockReleased DEF CleanAfterReceive, InReceive, Reader
    <2>4. CASE ReceiveEnds(p) \/ SignalAfterReceive(p)
      <3>1. UNCHANGED lwlocks /\ Top(p).at \in {"end", "signal"}
        BY <2>4 DEF ReceiveEnds, SignalAfterReceive, InReceive
      <3>. QED
        BY <1>0, <2>1, <2>2, <3>1, LocksKept DEF Writer, Reader
    <2>. QED
      BY <1>17, <2>3, <2>4
  <1>18. CASE PrepareForClientRead(p) \/ ClientReadEnded(p)
    BY <1>18, LocksKept, OutsideControl
       DEF Outside, PrepareForClientRead, ClientReadEnded, outsideInterrupt, Writer, Reader
  <1>19. CASE EnableLoop(p)
    <2>1. UNCHANGED lwlocks
      BY <1>19 DEF EnableLoop, outsideInterrupt
    <2>2. ~Writer(p) /\ ~Writer(p)' /\ ~Reader(p) /\ ~Reader(p)'
      BY <1>19, EnableControl DEF Writer, Reader, NewFrame, Open
    <2>. QED
      BY <1>0, <2>1, <2>2, LocksKept
  <1>20. CASE HandleCatchupInterrupt(p)
    BY <1>20, LocksKept, HandleControl DEF HandleCatchupInterrupt, outsideInterrupt, Writer, Reader, Open, Top
  <1>. QED
    BY <1>1, <1>2, <1>3, <1>4, <1>5, <1>6, <1>7, <1>8, <1>9, <1>10, <1>11, <1>12, <1>13, <1>14, <1>15,
       <1>16, <1>17, <1>18, <1>19, <1>20 DEF Step
-----------------------------------------------------------------------------
(* What SICleanupQueue does.                                               *)

\* The backend to signal, if there is one, is active.
LEMMA NeedSigFacts ==
  ASSUME TypeOK, CountersOrdered, QueueRight, NEW minFree
  PROVE  NeedSig(minFree) \in 0..lastBackend /\ (NeedSig(minFree) # 0 => Active(NeedSig(minFree)))
  <1>. DEFINE slow == {s \in 1..lastBackend :
                         /\ Kept(s, minFree) /\ ~procState[s].signaled
                         /\ procState[s].nextMsgNum < maxMsgNum - SIG_THRESHOLD}
              Before(s, t) == \/ procState[s].nextMsgNum < procState[t].nextMsgNum
                              \/ procState[s].nextMsgNum = procState[t].nextMsgNum /\ s <= t
              c == CHOOSE s \in slow : \A t \in slow : Before(s, t)
  <1>1. NeedSig(minFree) = IF slow = {} THEN 0 ELSE c
    BY DEF NeedSig
  <1>2. lastBackend \in 0..MaxBackends /\ minMsgNum \in Int /\ 0 <= minMsgNum
        /\ procState \in [Slot -> ProcStates]
    BY DEF TypeOK, QueueRight
  <1>3. \A s \in slow : s \in Slot /\ Active(s) /\ procState[s].nextMsgNum \in Nat
    <2>. SUFFICES ASSUME NEW s \in slow PROVE s \in Slot /\ Active(s) /\ procState[s].nextMsgNum \in Nat
      OBVIOUS
    <2>1. s \in Slot /\ Reading(s)
      BY <1>2 DEF Kept
    <2>2. procState[s].nextMsgNum \in Int
      BY <1>2, <2>1 DEF ProcStates
    <2>. QED
      BY <1>2, <2>1, <2>2 DEF Reading, CountersOrdered
  <1>4. slow \subseteq 1..lastBackend
    OBVIOUS
  <1>5. ASSUME slow # {} PROVE \E s \in slow : \A t \in slow : Before(s, t)
    <2>. HIDE DEF slow
    <2>. DEFINE N == {procState[s].nextMsgNum : s \in slow}
    <2>1. N \in SUBSET Nat /\ N # {}
      BY <1>3, <1>5
    <2>2. PICK x \in N : \A y \in N : x <= y
      BY <2>1, NatMin
    <2>. DEFINE F == {s \in slow : procState[s].nextMsgNum = x}
    <2>3. F \in SUBSET Nat /\ F # {}
      <3>1. slow \subseteq Nat
        BY <1>2, <1>4
      <3>2. \E s \in slow : procState[s].nextMsgNum = x
        BY <2>2
      <3>. QED
        BY <3>1, <3>2
    <2>4. PICK s \in F : \A t \in F : s <= t
      BY <2>3, NatMin
    <2>5. ASSUME NEW t \in slow PROVE Before(s, t)
      <3>1. s \in slow /\ procState[s].nextMsgNum = x /\ x <= procState[t].nextMsgNum
        BY <2>2, <2>4
      <3>2. x \in Nat /\ procState[t].nextMsgNum \in Nat
        BY <1>3, <3>1
      <3>3. procState[t].nextMsgNum = x => s <= t
        BY <2>4, <2>5
      <3>. QED
        BY <3>1, <3>2, <3>3
    <2>. QED
      BY <2>4, <2>5
  <1>6. slow # {} => c \in slow
    <2>. HIDE DEF slow, Before
    <2>. QED
      BY <1>5, Zenon
  <1>. HIDE DEF slow, c
  <1>7. CASE slow = {}
    BY <1>1, <1>2, <1>7
  <1>8. CASE slow # {}
    <2>1. NeedSig(minFree) = c /\ c \in slow
      BY <1>1, <1>6, <1>8
    <2>2. c \in 1..lastBackend /\ Active(c)
      BY <1>3, <1>4, <2>1
    <2>. QED
      BY <1>2, <2>1, <2>2
  <1>. QED
    BY <1>7, <1>8

\* The slots keep their holders and flags; a slot is reset only if it is too far
\* behind, and the positions up to lastBackend move by shift.
Cleaned(p, minFree, shift) ==
  /\ shift \in {0, MSGNUMWRAPAROUND}
  /\ minMsgNum' \in Int /\ 0 <= minMsgNum' /\ minMsgNum <= minMsgNum' + shift /\ minMsgNum' <= maxMsgNum'
  /\ maxMsgNum' = maxMsgNum - shift /\ base' = base + shift
  /\ procState' \in [Slot -> ProcStates]
  /\ \A s \in Slot :
       /\ procState'[s].proc = procState[s].proc /\ procState'[s].sendOnly = procState[s].sendOnly
       /\ procState'[s].hasMessages = procState[s].hasMessages
       /\ procState'[s].nextLXID = procState[s].nextLXID
       /\ procState'[s].resetState <=>
            procState[s].resetState \/ (s <= lastBackend /\ Reading(s) /\ TooFarBehind(s, minFree))
       /\ s <= lastBackend => procState'[s].nextMsgNum = procState[s].nextMsgNum - shift
       /\ s <= lastBackend /\ Kept(s, minFree) => minMsgNum' <= procState'[s].nextMsgNum

\* What a cleaning leaves.
LEMMA CleanupFacts ==
  ASSUME TypeOK, CountersOrdered, QueueRight, NEW p \in Backend, NEW minFree, SICleanupQueue(p, minFree)
  PROVE  /\ \E shift \in {0, MSGNUMWRAPAROUND} : Cleaned(p, minFree, shift)
         /\ nextThreshold' \in Nat
         /\ sig' \in [Backend -> Backend \cup {NULL}]
  <1>. DEFINE K == {t \in 1..lastBackend : Kept(t, minFree)}
              positions == {maxMsgNum} \cup {procState[s].nextMsgNum : s \in K}
              needSig == NeedSig(minFree)
  <1>0. /\ lastBackend \in 0..MaxBackends /\ minMsgNum \in Int /\ maxMsgNum \in Int /\ base \in Nat
        /\ 0 <= minMsgNum /\ minMsgNum <= maxMsgNum
        /\ procState \in [Slot -> ProcStates] /\ sig \in [Backend -> Backend \cup {NULL}]
    BY DEF TypeOK, QueueRight, CountersOrdered
  <1>1. needSig \in 0..lastBackend /\ (needSig # 0 => Active(needSig))
    BY NeedSigFacts
  <1>2. PICK min \in positions :
          /\ \A m \in positions : min <= m
          /\ LET shift == IF min >= MSGNUMWRAPAROUND THEN MSGNUMWRAPAROUND ELSE 0
                 numMsgs == maxMsgNum - min
             IN
             /\ minMsgNum' = min - shift
             /\ maxMsgNum' = maxMsgNum - shift
             /\ base' = base + shift
             /\ procState' = [s \in Slot |->
                  [procState[s] EXCEPT
                     !.nextMsgNum = Shifted(s, minFree, shift),
                     !.resetState = @ \/ (s <= lastBackend /\ Reading(s) /\ TooFarBehind(s, minFree)),
                     !.signaled = @ \/ s = needSig]]
             /\ nextThreshold' = IF numMsgs < CLEANUP_MIN THEN CLEANUP_MIN
                                 ELSE (numMsgs \div CLEANUP_QUANTUM + 1) * CLEANUP_QUANTUM
    BY DEF SICleanupQueue
  <1>3. \A s \in K : s \in Slot /\ Reading(s) /\ procState[s].nextMsgNum \in Int
    BY <1>0 DEF Kept, ProcStates
  <1>4. min \in Int /\ minMsgNum <= min /\ min <= maxMsgNum
    BY <1>0, <1>2, <1>3 DEF CountersOrdered
  <1>. DEFINE shift == IF min >= MSGNUMWRAPAROUND THEN MSGNUMWRAPAROUND ELSE 0
  <1>5. shift \in {0, MSGNUMWRAPAROUND} /\ shift \in Nat /\ shift <= min
    BY <1>0, <1>4
  <1>6. minMsgNum' = min - shift /\ maxMsgNum' = maxMsgNum - shift /\ base' = base + shift
    BY <1>2
  <1>7. procState' = [s \in Slot |->
                  [procState[s] EXCEPT
                     !.nextMsgNum = Shifted(s, minFree, shift),
                     !.resetState = @ \/ (s <= lastBackend /\ Reading(s) /\ TooFarBehind(s, minFree)),
                     !.signaled = @ \/ s = needSig]]
    BY <1>2
  <1>8. \A s \in K : min <= procState[s].nextMsgNum
    BY <1>2
  <1>9. nextThreshold' \in Nat
    <2>. DEFINE k == maxMsgNum - min
                d == k \div CLEANUP_QUANTUM
    <2>1. k \in Nat
      BY <1>0, <1>4
    <2>2. d \in Nat
      <3>. HIDE DEF k
      <3>. QED
        BY <2>1
    <2>3. (d + 1) * CLEANUP_QUANTUM \in Nat
      <3>. HIDE DEF d
      <3>. QED
        BY <2>2
    <2>4. nextThreshold' = IF k < CLEANUP_MIN THEN CLEANUP_MIN ELSE (d + 1) * CLEANUP_QUANTUM
      BY <1>2
    <2>. HIDE DEF d, k
    <2>. QED
      BY <2>3, <2>4
  <1>10. sig' \in [Backend -> Backend \cup {NULL}]
    <2>1. needSig # 0 => procState[needSig].proc \in Backend
      BY <1>0, <1>1 DEF ProcStates, Active
    <2>. DEFINE v == IF needSig = 0 THEN NULL ELSE procState[needSig].proc
    <2>2. v \in Backend \cup {NULL}
      BY <2>1
    <2>3. sig' = [sig EXCEPT ![p] = v]
      BY DEF SICleanupQueue
    <2>. HIDE DEF v
    <2>. QED
      BY <1>0, <2>2, <2>3
  <1>. HIDE DEF shift, needSig, positions
  <1>11. ASSUME NEW s \in Slot
         PROVE  /\ procState'[s] \in ProcStates
                /\ procState'[s].proc = procState[s].proc /\ procState'[s].sendOnly = procState[s].sendOnly
                /\ procState'[s].hasMessages = procState[s].hasMessages
                /\ procState'[s].nextLXID = procState[s].nextLXID
                /\ procState'[s].resetState <=>
                     procState[s].resetState \/ (s <= lastBackend /\ Reading(s) /\ TooFarBehind(s, minFree))
                /\ s <= lastBackend => procState'[s].nextMsgNum = procState[s].nextMsgNum - shift
    <2>. DEFINE r == procState[s].resetState \/ (s <= lastBackend /\ Reading(s) /\ TooFarBehind(s, minFree))
                g == procState[s].signaled \/ s = needSig
                x == Shifted(s, minFree, shift)
    <2>1. procState[s] \in ProcStates
      BY <1>0
    <2>2. r \in BOOLEAN /\ g \in BOOLEAN
      OBVIOUS
    <2>3. x \in Int /\ (s <= lastBackend => x = procState[s].nextMsgNum - shift)
      BY <1>0, <1>5, <2>1 DEF Shifted, ProcStates
    <2>4. procState'[s] = [procState[s] EXCEPT !.nextMsgNum = x, !.resetState = r, !.signaled = g]
      BY <1>7
    <2>. HIDE DEF r, g, x
    <2>5. /\ procState'[s] \in ProcStates
          /\ procState'[s].proc = procState[s].proc /\ procState'[s].sendOnly = procState[s].sendOnly
          /\ procState'[s].hasMessages = procState[s].hasMessages
          /\ procState'[s].nextLXID = procState[s].nextLXID
          /\ procState'[s].resetState = r /\ procState'[s].nextMsgNum = x
      BY <2>1, <2>2, <2>3, <2>4 DEF ProcStates
    <2>. QED
      BY <2>3, <2>5 DEF r
  <1>12. procState' \in [Slot -> ProcStates]
    BY <1>7, <1>11
  <1>13. Cleaned(p, minFree, shift)
    <2>1. minMsgNum' \in Int /\ 0 <= minMsgNum' /\ minMsgNum <= minMsgNum' + shift /\ minMsgNum' <= maxMsgNum'
      BY <1>0, <1>4, <1>5, <1>6
    <2>2. \A s \in Slot : s <= lastBackend /\ Kept(s, minFree) => minMsgNum' <= procState'[s].nextMsgNum
      <3>. SUFFICES ASSUME NEW s \in Slot, s <= lastBackend, Kept(s, minFree)
                    PROVE  minMsgNum' <= procState'[s].nextMsgNum
        OBVIOUS
      <3>1. s \in K
        BY <1>0
      <3>2. min <= procState[s].nextMsgNum /\ procState[s].nextMsgNum \in Int
        BY <1>3, <1>8, <3>1
      <3>. QED
        BY <1>4, <1>5, <1>6, <1>11, <3>2
    <2>. HIDE DEF K
    <2>. QED
      BY <1>5, <1>6, <1>11, <1>12, <2>1, <2>2 DEF Cleaned
  <1>. QED
    BY <1>5, <1>9, <1>10, <1>13
-----------------------------------------------------------------------------
(* What the other operations do to the slots.                              *)

\* A backend that has joined has a slot of its own.
LEMMA MineFacts ==
  ASSUME TypeOK, SlotsRight, NEW p \in Backend, at[p] \notin {"start", "gone"}
  PROVE  /\ MyBackendId[p] \in Slot /\ MyBackendId[p] # 0 /\ Mine(p) \in ProcStates
         /\ Mine(p) = procState[MyBackendId[p]] /\ Mine(p).proc = p /\ Active(MyBackendId[p])
         /\ MyBackendId[p] <= lastBackend
  <1>1. MyBackendId[p] \in 0..MaxBackends /\ MyBackendId[p] # 0
    BY DEF TypeOK, SlotsRight
  <1>2. MyBackendId[p] \in Slot
    BY <1>1
  <1>3. Mine(p) \in ProcStates /\ Mine(p) = procState[MyBackendId[p]]
    BY <1>2 DEF TypeOK, Mine
  <1>. QED
    BY <1>1, <1>2, <1>3 DEF SlotsRight, Active

\* Only the slot of p changes, to r.
LEMMA SetMineFacts ==
  ASSUME TypeOK, NEW p \in Backend, MyBackendId[p] \in Slot, NEW r \in ProcStates, SetMine(p, r)
  PROVE  /\ procState' \in [Slot -> ProcStates] /\ procState'[MyBackendId[p]] = r
         /\ \A s \in Slot \ {MyBackendId[p]} : procState'[s] = procState[s]
  BY DEF TypeOK, SetMine

\* SIGetDataEntries lowers the flag.
LEMMA GetFacts ==
  ASSUME TypeOK, SlotsRight, NEW p \in Backend, SIGetDataEntries(p), Mine(p).hasMessages
  PROVE  LET s == MyBackendId[p] IN
         /\ procState' \in [Slot -> ProcStates]
         /\ procState'[s].proc = procState[s].proc /\ procState'[s].sendOnly = procState[s].sendOnly
         /\ procState'[s].nextLXID = procState[s].nextLXID
         /\ procState'[s].resetState = procState[s].resetState
         /\ procState'[s].nextMsgNum = procState[s].nextMsgNum
         /\ ~procState'[s].hasMessages
         /\ \A t \in Slot \ {s} : procState'[t] = procState[t]
  <1>. DEFINE s == MyBackendId[p]
              r == [Mine(p) EXCEPT !.hasMessages = FALSE]
  <1>1. s \in Slot /\ Mine(p) \in ProcStates /\ Mine(p) = procState[s]
    BY MineFacts DEF SIGetDataEntries, InReceive
  <1>2. /\ r \in ProcStates /\ r.proc = Mine(p).proc /\ r.sendOnly = Mine(p).sendOnly
        /\ r.nextLXID = Mine(p).nextLXID /\ r.resetState = Mine(p).resetState
        /\ r.nextMsgNum = Mine(p).nextMsgNum /\ ~r.hasMessages
    BY <1>1 DEF ProcStates
  <1>3. SetMine(p, r)
    BY DEF SIGetDataEntries
  <1>. HIDE DEF r
  <1>4. /\ procState' \in [Slot -> ProcStates] /\ procState'[s] = r
        /\ \A t \in Slot \ {s} : procState'[t] = procState[t]
    BY <1>1, <1>2, <1>3, SetMineFacts
  <1>. QED
    BY <1>1, <1>2, <1>4

\* ReadEntries fetches k messages, none if it has them all, and raises the flag if
\* there are more.
ReadNext(p) == Mine(p).nextMsgNum
ReadCount(p) == IF max[p] - ReadNext(p) < MAXINVALMSGS THEN max[p] - ReadNext(p) ELSE MAXINVALMSGS

\* The entry of a backend that read k messages.
LEMMA ReadFacts ==
  ASSUME TypeOK, SlotsRight, FetchRight, NEW p \in Backend, ReadEntries(p)
  PROVE  LET s == MyBackendId[p]  k == ReadCount(p)  n0 == ReadNext(p) IN
         /\ n0 \in Int /\ k \in 0..MAXINVALMSGS /\ n0 + k <= max[p] /\ (k # MAXINVALMSGS => n0 + k = max[p])
         /\ procState' \in [Slot -> ProcStates]
         /\ procState'[s].nextMsgNum = n0 + k
         /\ procState'[s].proc = p /\ procState'[s].sendOnly = procState[s].sendOnly
         /\ procState'[s].nextLXID = procState[s].nextLXID
         /\ ~procState[s].resetState /\ ~procState'[s].resetState
         /\ ~procState'[s].hasMessages => n0 + k = max[p] /\ ~procState[s].hasMessages
         /\ \A t \in Slot \ {s} : procState'[t] = procState[t]
         /\ pending' = [pending EXCEPT ![p] = [i \in 1..k |-> buffer[(n0 + i - 1) % MAXNUMMESSAGES]]]
         /\ nummsgs' = [nummsgs EXCEPT ![p] = k]
  <1>. DEFINE s == MyBackendId[p]
              k == ReadCount(p)
              n0 == ReadNext(p)
              r == IF CaughtUp(n0 + k, max[p])
                   THEN [Mine(p) EXCEPT !.nextMsgNum = n0 + k, !.signaled = FALSE]
                   ELSE [Mine(p) EXCEPT !.nextMsgNum = n0 + k, !.hasMessages = TRUE]
  <1>1. at[p] = "receive" /\ Top(p).at = "read" /\ ~Mine(p).resetState
    BY DEF ReadEntries, InReceive
  <1>2. /\ s \in Slot /\ Mine(p) \in ProcStates /\ Mine(p) = procState[s] /\ Mine(p).proc = p
    BY <1>1, MineFacts
  <1>3. n0 \in Int /\ max[p] \in Int /\ n0 <= max[p]
    BY <1>1, <1>2 DEF TypeOK, FetchRight, FetchOK, ProcStates, ReadNext
  <1>4. k \in 0..MAXINVALMSGS /\ n0 + k <= max[p] /\ (k # MAXINVALMSGS => n0 + k = max[p])
    <2>. HIDE DEF n0
    <2>. QED
      BY <1>3 DEF ReadCount, n0
  <1>5. /\ SetMine(p, r) /\ nummsgs' = [nummsgs EXCEPT ![p] = k]
        /\ pending' = [pending EXCEPT ![p] = [i \in 1..k |-> buffer[(n0 + i - 1) % MAXNUMMESSAGES]]]
    BY DEF ReadEntries, ReadCount, ReadNext
  <1>. HIDE DEF k, n0, s
  <1>6. n0 + k \in Int
    BY <1>3, <1>4
  <1>7. r \in ProcStates /\ r.nextMsgNum = n0 + k /\ r.proc = Mine(p).proc /\ r.sendOnly = Mine(p).sendOnly
        /\ r.nextLXID = Mine(p).nextLXID /\ r.resetState = Mine(p).resetState
    BY <1>2, <1>6 DEF ProcStates
  <1>8. ~r.hasMessages => n0 + k >= max[p] /\ ~Mine(p).hasMessages
    BY <1>2, <1>6 DEF ProcStates, CaughtUp
  <1>. HIDE DEF r
  <1>9. /\ procState' \in [Slot -> ProcStates] /\ procState'[s] = r
        /\ \A t \in Slot \ {s} : procState'[t] = procState[t]
    BY <1>2, <1>5, <1>7, SetMineFacts DEF s
  <1>10. n0 + k >= max[p] => n0 + k = max[p]
    BY <1>3, <1>4, <1>6
  <1>. QED
    BY <1>1, <1>2, <1>3, <1>4, <1>5, <1>7, <1>8, <1>9, <1>10 DEF s, n0, k

\* A reset puts the backend at what was fetched.
LEMMA ResetFacts ==
  ASSUME TypeOK, SlotsRight, NEW p \in Backend, ReadReset(p)
  PROVE  LET s == MyBackendId[p] IN
         /\ procState' \in [Slot -> ProcStates]
         /\ procState'[s].nextMsgNum = max[p]
         /\ procState'[s].proc = p /\ procState'[s].sendOnly = procState[s].sendOnly
         /\ procState'[s].nextLXID = procState[s].nextLXID
         /\ ~procState'[s].resetState /\ procState'[s].hasMessages = procState[s].hasMessages
         /\ \A t \in Slot \ {s} : procState'[t] = procState[t]
  <1>. DEFINE s == MyBackendId[p]
              r == [Mine(p) EXCEPT !.nextMsgNum = max[p], !.resetState = FALSE, !.signaled = FALSE]
  <1>1. at[p] = "receive"
    BY DEF ReadReset, InReceive
  <1>2. /\ s \in Slot /\ Mine(p) \in ProcStates /\ Mine(p) = procState[s] /\ Mine(p).proc = p /\ max[p] \in Int
    BY <1>1, MineFacts DEF TypeOK
  <1>3. /\ r \in ProcStates /\ r.nextMsgNum = max[p] /\ r.proc = Mine(p).proc /\ r.sendOnly = Mine(p).sendOnly
        /\ r.nextLXID = Mine(p).nextLXID /\ ~r.resetState /\ r.hasMessages = Mine(p).hasMessages
    BY <1>2 DEF ProcStates
  <1>4. SetMine(p, r)
    BY DEF ReadReset
  <1>. HIDE DEF r
  <1>5. /\ procState' \in [Slot -> ProcStates] /\ procState'[s] = r
        /\ \A t \in Slot \ {s} : procState'[t] = procState[t]
    BY <1>2, <1>3, <1>4, SetMineFacts
  <1>. QED
    BY <1>2, <1>3, <1>5

\* The kick raises the flag of every slot up to lastBackend.
LEMMA KickFacts ==
  ASSUME TypeOK, NEW p \in Backend, Kick(p)
  PROVE  /\ procState' \in [Slot -> ProcStates]
         /\ \A s \in Slot :
              /\ procState'[s].proc = procState[s].proc /\ procState'[s].sendOnly = procState[s].sendOnly
              /\ procState'[s].nextLXID = procState[s].nextLXID
              /\ procState'[s].resetState = procState[s].resetState
              /\ procState'[s].nextMsgNum = procState[s].nextMsgNum
              /\ procState'[s].hasMessages <=> procState[s].hasMessages \/ s <= lastBackend
  <1>1. procState' = [s \in Slot |-> [procState[s] EXCEPT !.hasMessages = Kicked(s)]]
    BY DEF Kick
  <1>2. ASSUME NEW s \in Slot
        PROVE /\ procState'[s] \in ProcStates
              /\ procState'[s].proc = procState[s].proc /\ procState'[s].sendOnly = procState[s].sendOnly
              /\ procState'[s].nextLXID = procState[s].nextLXID
              /\ procState'[s].resetState = procState[s].resetState
              /\ procState'[s].nextMsgNum = procState[s].nextMsgNum
              /\ procState'[s].hasMessages <=> procState[s].hasMessages \/ s <= lastBackend
    <2>1. procState[s] \in ProcStates /\ Kicked(s) \in BOOLEAN
      BY DEF TypeOK, Kicked
    <2>2. procState'[s] = [procState[s] EXCEPT !.hasMessages = Kicked(s)]
      BY <1>1
    <2>3. /\ procState'[s] \in ProcStates
          /\ procState'[s].proc = procState[s].proc /\ procState'[s].sendOnly = procState[s].sendOnly
          /\ procState'[s].nextLXID = procState[s].nextLXID
          /\ procState'[s].resetState = procState[s].resetState
          /\ procState'[s].nextMsgNum = procState[s].nextMsgNum
          /\ procState'[s].hasMessages = Kicked(s)
      BY <2>1, <2>2 DEF ProcStates
    <2>. QED
      BY <2>3 DEF Kicked
  <1>. QED
    BY <1>1, <1>2

\* Joining takes a free slot s.
Joins(p, b, s) ==
  /\ s \in Slot /\ ~Active(s)
  /\ lastBackend' = IF s > lastBackend THEN s ELSE lastBackend
  /\ procState' \in [Slot -> ProcStates]
  /\ procState'[s].proc = p /\ procState'[s].nextMsgNum = maxMsgNum /\ ~procState'[s].resetState
  /\ ~procState'[s].hasMessages /\ procState'[s].sendOnly = b
  /\ procState'[s].nextLXID = procState[s].nextLXID
  /\ \A t \in Slot \ {s} : procState'[t] = procState[t]
  /\ MyBackendId' = [MyBackendId EXCEPT ![p] = s]
  /\ nextLocalTransactionId' = [nextLocalTransactionId EXCEPT ![p] = procState[s].nextLXID]
  /\ seen' = [seen EXCEPT ![p] = base + maxMsgNum]
  /\ at'[p] = "idle"

\* SharedInvalBackendInit takes a slot, or changes nothing but the place.
LEMMA JoinFacts ==
  ASSUME TypeOK, NEW p \in Backend, NEW b \in BOOLEAN, SharedInvalBackendInit(p, b)
  PROVE  \/ \E s \in Slot : Joins(p, b, s)
         \/ /\ at'[p] = "gone"
            /\ UNCHANGED <<lastBackend, procState, MyBackendId, nextLocalTransactionId, seen>>
  <1>1. CASE \E s \in Slot :
               /\ s <= lastBackend + 1 /\ ~Active(s)
               /\ \A t \in 1..(s - 1) : Active(t)
               /\ lastBackend' = IF s > lastBackend THEN s ELSE lastBackend
               /\ procState' = [procState EXCEPT ![s] = Joined(p, s, b)]
               /\ MyBackendId' = [MyBackendId EXCEPT ![p] = s]
               /\ nextLocalTransactionId' = [nextLocalTransactionId EXCEPT ![p] = procState[s].nextLXID]
               /\ seen' = [seen EXCEPT ![p] = base + maxMsgNum]
               /\ Goto(p, "idle")
    <2>1. PICK s \in Slot : /\ ~Active(s)
                            /\ lastBackend' = IF s > lastBackend THEN s ELSE lastBackend
                            /\ procState' = [procState EXCEPT ![s] = Joined(p, s, b)]
                            /\ MyBackendId' = [MyBackendId EXCEPT ![p] = s]
                            /\ nextLocalTransactionId' = [nextLocalTransactionId EXCEPT ![p] = procState[s].nextLXID]
                            /\ seen' = [seen EXCEPT ![p] = base + maxMsgNum]
                            /\ Goto(p, "idle")
      BY <1>1
    <2>. DEFINE r == Joined(p, s, b)
    <2>2. procState[s] \in ProcStates /\ maxMsgNum \in Int
      BY DEF TypeOK
    <2>3. /\ r \in ProcStates /\ r.proc = p /\ r.nextMsgNum = maxMsgNum /\ ~r.resetState
          /\ ~r.hasMessages /\ r.sendOnly = b /\ r.nextLXID = procState[s].nextLXID
      BY <2>2 DEF Joined, ProcStates
    <2>. HIDE DEF r
    <2>4. procState' = [procState EXCEPT ![s] = r]
      BY <2>1 DEF r
    <2>5. /\ procState' \in [Slot -> ProcStates] /\ procState'[s] = r
          /\ \A t \in Slot \ {s} : procState'[t] = procState[t]
      BY <2>3, <2>4 DEF TypeOK
    <2>6. at'[p] = "idle"
      BY <2>1 DEF Goto, TypeOK
    <2>. QED
      BY <2>1, <2>3, <2>5, <2>6 DEF Joins
  <1>2. CASE Goto(p, "gone") /\ UNCHANGED <<lastBackend, procState, MyBackendId, nextLocalTransactionId, seen>>
    BY <1>2 DEF Goto, TypeOK
  <1>. QED
    BY <1>1, <1>2 DEF SharedInvalBackendInit

\* Leaving frees the slot and lowers lastBackend to the last that is taken.
LEMMA LeaveFacts ==
  ASSUME TypeOK, SlotsRight, NEW p \in Backend, CleanupInvalidationState(p)
  PROVE  LET s == MyBackendId[p] IN
         /\ s \in Slot /\ procState' \in [Slot -> ProcStates]
         /\ procState'[s].proc = NULL /\ procState'[s].nextLXID = nextLocalTransactionId[p]
         /\ \A t \in Slot \ {s} : procState'[t] = procState[t]
         /\ lastBackend' \in 0..lastBackend
         /\ \A t \in (lastBackend' + 1)..lastBackend : procState'[t].proc = NULL
         /\ MyBackendId' = [MyBackendId EXCEPT ![p] = 0]
  <1>. DEFINE s == MyBackendId[p]
              r == Left(p)
  <1>1. s \in Slot /\ Mine(p) \in ProcStates /\ nextLocalTransactionId[p] \in Nat
    BY MineFacts DEF CleanupInvalidationState, TypeOK
  <1>2. r \in ProcStates /\ r.proc = NULL /\ r.nextLXID = nextLocalTransactionId[p]
    <2>. DEFINE m == Mine(p)
                v == nextLocalTransactionId[p]
    <2>1. r = [m EXCEPT !.proc = NULL, !.nextMsgNum = 0, !.resetState = FALSE, !.signaled = FALSE, !.nextLXID = v]
      BY DEF Left
    <2>2. m \in ProcStates /\ v \in Nat
      BY <1>1
    <2>. HIDE DEF r, m, v
    <2>3. r = [proc |-> NULL, nextMsgNum |-> 0, resetState |-> FALSE, signaled |-> FALSE,
               hasMessages |-> m.hasMessages, sendOnly |-> m.sendOnly, nextLXID |-> v]
      BY <2>1, <2>2 DEF ProcStates
    <2>4. m.hasMessages \in BOOLEAN /\ m.sendOnly \in BOOLEAN
      BY <2>2 DEF ProcStates
    <2>5. r \in ProcStates /\ r.proc = NULL /\ r.nextLXID = v
      BY <2>2, <2>3, <2>4 DEF ProcStates
    <2>. QED
      BY <2>5 DEF v
  <1>. HIDE DEF r
  <1>3. procState' = [procState EXCEPT ![s] = r] /\ MyBackendId' = [MyBackendId EXCEPT ![p] = 0]
    BY DEF CleanupInvalidationState, r
  <1>4. /\ procState' \in [Slot -> ProcStates] /\ procState'[s] = r
        /\ \A t \in Slot \ {s} : procState'[t] = procState[t]
    BY <1>1, <1>2, <1>3 DEF TypeOK
  <1>5. lastBackend' \in 0..lastBackend /\ \A t \in (lastBackend' + 1)..lastBackend : procState'[t].proc = NULL
    BY DEF CleanupInvalidationState
  <1>. QED
    BY <1>1, <1>2, <1>3, <1>4, <1>5
-----------------------------------------------------------------------------
(* The slots and the virtual transaction ids.                              *)

Behind == {"receive", "enable", "test", "disable", "retest", "wait"}

\* The slots keep their holders.
HoldersKept ==
  \A s \in Slot : /\ procState'[s].proc = procState[s].proc
                  /\ procState'[s].sendOnly = procState[s].sendOnly
                  /\ procState'[s].nextLXID = procState[s].nextLXID

\* A step between joining and leaving.
LEMMA SlotsKept ==
  ASSUME TypeOK, SlotsRight, NEW p \in Backend, ControlOK(p), HoldersKept,
         UNCHANGED <<lastBackend, MyBackendId>>,
         at[p] \notin {"start", "gone"}, at'[p] \notin {"start", "gone"},
         at'[p] \in Behind => at[p] \in Behind \/ ~Mine(p).sendOnly
  PROVE  SlotsRight'
  <1>1. \A q \in Backend : MyBackendId[q] # 0 => MyBackendId[q] \in Slot
    <2>1. MyBackendId \in [Backend -> 0..MaxBackends]
      BY DEF TypeOK
    <2>. QED
      BY <2>1
  <1>2. \A q \in Backend : at'[q] \in {"start", "gone"} <=> MyBackendId'[q] = 0
    BY DEF SlotsRight, ControlOK
  <1>3. \A q \in Backend : MyBackendId'[q] # 0 => Mine(q)'.proc = q
    BY <1>1 DEF SlotsRight, HoldersKept, Mine
  <1>4. \A s \in Slot : Active(s)' => s <= lastBackend' /\ MyBackendId'[procState'[s].proc] = s
    BY DEF SlotsRight, HoldersKept, Active
  <1>5. \A q \in Backend : at'[q] \in Behind => ~Mine(q)'.sendOnly
    <2>. SUFFICES ASSUME NEW q \in Backend, at'[q] \in Behind PROVE ~Mine(q)'.sendOnly
      OBVIOUS
    <2>1. MyBackendId[q] \in Slot
      BY <1>1, <1>2 DEF Behind
    <2>2. ~Mine(q).sendOnly
      BY DEF SlotsRight, ControlOK, Behind
    <2>. QED
      BY <2>1, <2>2 DEF Mine, HoldersKept
  <1>. QED
    BY <1>2, <1>3, <1>4, <1>5 DEF SlotsRight, Behind

\* ... and without taking a local id.
LEMMA LxidsKept ==
  ASSUME TypeOK, SlotsRight, LxidsRight, HoldersKept, UNCHANGED lxidVars
  PROVE  LxidsRight'
  <1>. SUFFICES ASSUME NEW x \in lxids
                PROVE  x[2] < IF Active(x[1])' THEN nextLocalTransactionId[procState'[x[1]].proc]
                                               ELSE procState'[x[1]].nextLXID
    BY DEF LxidsRight, lxidVars
  <1>1. x[1] \in Slot
    BY DEF TypeOK
  <1>. QED
    BY <1>1 DEF LxidsRight, HoldersKept, Active

\* A slot is taken by one backend, and the ids handed out with it stay below.
LEMMA JoinSlots ==
  ASSUME TypeOK, SlotsRight, LxidsRight, NEW p \in Backend, NEW b \in BOOLEAN, ControlOK(p),
         at[p] = "start", NEW s \in Slot, Joins(p, b, s), UNCHANGED lxids
  PROVE  SlotsRight' /\ LxidsRight'
  <1>0. /\ MyBackendId \in [Backend -> 0..MaxBackends] /\ MyBackendId[p] = 0
        /\ nextLocalTransactionId \in [Backend -> Nat] /\ procState \in [Slot -> ProcStates]
    BY DEF TypeOK, SlotsRight
  <1>1. MyBackendId'[p] = s /\ s # 0 /\ \A q \in Backend \ {p} : MyBackendId'[q] = MyBackendId[q]
    BY <1>0 DEF Joins
  <1>2. \A q \in Backend \ {p} : MyBackendId[q] # s
    BY <1>0 DEF SlotsRight, Joins, Active, Mine
  <1>3. \A q \in Backend \ {p} : MyBackendId[q] # 0 => MyBackendId[q] \in Slot /\ Mine(q)' = Mine(q)
    BY <1>0, <1>1, <1>2 DEF Joins, Mine
  <1>4. Mine(p)' = procState'[s]
    BY <1>1 DEF Mine
  <1>5. \A q \in Backend : at'[q] \in {"start", "gone"} <=> MyBackendId'[q] = 0
    BY <1>1 DEF SlotsRight, ControlOK, Joins
  <1>6. \A q \in Backend : MyBackendId'[q] # 0 => Mine(q)'.proc = q
    BY <1>1, <1>3, <1>4 DEF SlotsRight, Joins
  <1>7. \A t \in Slot : Active(t)' => t <= lastBackend' /\ MyBackendId'[procState'[t].proc] = t
    <2>. SUFFICES ASSUME NEW t \in Slot, Active(t)'
                  PROVE  t <= lastBackend' /\ MyBackendId'[procState'[t].proc] = t
      OBVIOUS
    <2>1. lastBackend \in 0..MaxBackends
      BY DEF TypeOK
    <2>2. CASE t = s
      BY <1>1, <2>1, <2>2 DEF Joins
    <2>3. CASE t # s
      <3>1. procState'[t] = procState[t] /\ Active(t)
        BY <2>3 DEF Joins, Active
      <3>2. procState[t].proc \in Backend /\ MyBackendId[procState[t].proc] = t /\ t <= lastBackend
        BY <1>0, <3>1 DEF SlotsRight, Active, ProcStates
      <3>3. procState[t].proc # p
        BY <1>0, <3>2
      <3>. QED
        BY <1>1, <2>1, <3>1, <3>2, <3>3 DEF Joins
    <2>. QED
      BY <2>2, <2>3
  <1>8. \A q \in Backend : at'[q] \in Behind => ~Mine(q)'.sendOnly
    <2>. SUFFICES ASSUME NEW q \in Backend, at'[q] \in Behind PROVE ~Mine(q)'.sendOnly
      OBVIOUS
    <2>1. q # p /\ at[q] = at'[q]
      BY DEF Joins, ControlOK, Behind
    <2>2. ~Mine(q).sendOnly /\ MyBackendId[q] # 0
      BY <2>1 DEF SlotsRight, Behind
    <2>. QED
      BY <1>3, <2>1, <2>2
  <1>9. LxidsRight'
    <2>. SUFFICES ASSUME NEW x \in lxids
                  PROVE  x[2] < IF Active(x[1])' THEN nextLocalTransactionId'[procState'[x[1]].proc]
                                                 ELSE procState'[x[1]].nextLXID
      BY DEF LxidsRight
    <2>1. x[1] \in Slot
      BY DEF TypeOK
    <2>2. CASE x[1] = s
      BY <1>0, <2>2, SizeAssumption DEF LxidsRight, Joins, Active
    <2>3. CASE x[1] # s
      <3>1. procState'[x[1]] = procState[x[1]] /\ (Active(x[1])' <=> Active(x[1]))
        BY <2>1, <2>3 DEF Joins, Active
      <3>2. Active(x[1]) => procState[x[1]].proc \in Backend \ {p}
        BY <1>0, <2>1 DEF SlotsRight, Active, ProcStates
      <3>. QED
        BY <1>0, <3>1, <3>2 DEF LxidsRight, Joins
    <2>. QED
      BY <2>2, <2>3
  <1>. QED
    BY <1>5, <1>6, <1>7, <1>8, <1>9 DEF SlotsRight, Behind

\* A backend that leaves leaves its counter in the slot.
LEMMA LeaveSlots ==
  ASSUME TypeOK, FramesRight, InterruptsRight, SlotsRight, LxidsRight, NEW p \in Backend,
         CleanupInvalidationState(p)
  PROVE  SlotsRight' /\ LxidsRight'
  <1>. DEFINE s == MyBackendId[p]
  <1>a. ControlOK(p) /\ at[p] = "idle" /\ at'[p] = "gone"
    BY OutsideControl DEF Outside
  <1>b. /\ s \in Slot /\ procState' \in [Slot -> ProcStates]
        /\ procState'[s].proc = NULL /\ procState'[s].nextLXID = nextLocalTransactionId[p]
        /\ \A t \in Slot \ {s} : procState'[t] = procState[t]
        /\ lastBackend' \in 0..lastBackend
        /\ \A t \in (lastBackend' + 1)..lastBackend : procState'[t].proc = NULL
        /\ MyBackendId' = [MyBackendId EXCEPT ![p] = 0]
    BY LeaveFacts
  <1>0. /\ MyBackendId \in [Backend -> 0..MaxBackends] /\ procState[s].proc = p /\ UNCHANGED lxidVars
        /\ lastBackend \in 0..MaxBackends /\ procState \in [Slot -> ProcStates]
    BY <1>a, MineFacts DEF TypeOK, CleanupInvalidationState
  <1>. HIDE DEF s
  <1>1. MyBackendId'[p] = 0 /\ \A q \in Backend \ {p} : MyBackendId'[q] = MyBackendId[q]
    BY <1>0, <1>b
  <1>2. \A q \in Backend \ {p} : MyBackendId[q] # s
    <2>. SUFFICES ASSUME NEW q \in Backend \ {p}, MyBackendId[q] = s PROVE FALSE
      OBVIOUS
    <2>1. MyBackendId[q] # 0 /\ Mine(q).proc = q
      BY <1>b DEF SlotsRight
    <2>. QED
      BY <1>0, <2>1 DEF Mine
  <1>3. \A q \in Backend \ {p} : MyBackendId[q] # 0 => MyBackendId[q] \in Slot /\ Mine(q)' = Mine(q)
    BY <1>0, <1>1, <1>2, <1>b DEF Mine
  <1>5. \A q \in Backend : at'[q] \in {"start", "gone"} <=> MyBackendId'[q] = 0
    BY <1>1, <1>a DEF SlotsRight, ControlOK
  <1>6. \A q \in Backend : MyBackendId'[q] # 0 => Mine(q)'.proc = q
    BY <1>1, <1>3 DEF SlotsRight
  <1>7. \A t \in Slot : Active(t)' => t <= lastBackend' /\ MyBackendId'[procState'[t].proc] = t
    <2>. SUFFICES ASSUME NEW t \in Slot, Active(t)'
                  PROVE  t <= lastBackend' /\ MyBackendId'[procState'[t].proc] = t
      OBVIOUS
    <2>1. t # s /\ procState'[t] = procState[t] /\ Active(t) /\ ~(t \in (lastBackend' + 1)..lastBackend)
      BY <1>b DEF Active
    <2>2. procState[t].proc \in Backend /\ MyBackendId[procState[t].proc] = t /\ t <= lastBackend
      BY <1>0, <2>1 DEF SlotsRight, Active, ProcStates
    <2>3. procState[t].proc # p
      BY <2>1, <2>2 DEF s
    <2>4. t <= lastBackend'
      <3>1. lastBackend \in Int /\ lastBackend' \in Int /\ t \in Int
        BY <1>0, <1>b
      <3>2. SUFFICES ASSUME ~(t <= lastBackend') PROVE FALSE
        OBVIOUS
      <3>3. lastBackend' + 1 <= t /\ t <= lastBackend
        BY <2>2, <3>1, <3>2
      <3>4. \A a, b, c \in Int : a + 1 <= c /\ c <= b => c \in (a + 1)..b
        OBVIOUS
      <3>. QED
        BY <2>1, <3>1, <3>3, <3>4, Zenon
    <2>. QED
      BY <1>1, <2>1, <2>2, <2>3, <2>4
  <1>8. \A q \in Backend : at'[q] \in Behind => ~Mine(q)'.sendOnly
    <2>. SUFFICES ASSUME NEW q \in Backend, at'[q] \in Behind PROVE ~Mine(q)'.sendOnly
      OBVIOUS
    <2>1. q # p /\ at[q] = at'[q]
      BY <1>a DEF ControlOK, Behind
    <2>2. ~Mine(q).sendOnly /\ MyBackendId[q] # 0
      BY <2>1 DEF SlotsRight, Behind
    <2>. QED
      BY <1>3, <2>1, <2>2
  <1>9. LxidsRight'
    <2>. SUFFICES ASSUME NEW x \in lxids
                  PROVE  x[2] < IF Active(x[1])' THEN nextLocalTransactionId[procState'[x[1]].proc]
                                                 ELSE procState'[x[1]].nextLXID
      BY <1>0 DEF LxidsRight, lxidVars
    <2>1. x[1] \in Slot
      BY DEF TypeOK
    <2>2. CASE x[1] = s
      <3>1. Active(s) /\ x[2] < nextLocalTransactionId[p]
        BY <1>0, <2>2 DEF LxidsRight, Active
      <3>. QED
        BY <1>b, <2>2, <3>1 DEF Active
    <2>3. CASE x[1] # s
      <3>1. procState'[x[1]] = procState[x[1]] /\ (Active(x[1])' <=> Active(x[1]))
        BY <1>b, <2>1, <2>3 DEF Active
      <3>. QED
        BY <3>1 DEF LxidsRight
    <2>. QED
      BY <2>2, <2>3
  <1>. QED
    BY <1>5, <1>6, <1>7, <1>8 , <1>9 DEF SlotsRight, Behind

\* A local id taken is new, and below the counter afterwards.
LEMMA LxidTaken ==
  ASSUME TypeOK, SlotsRight, LxidsRight, NEW p \in Backend, GetNextLocalTransactionId(p)
  PROVE  /\ LxidsRight' /\ lxids' \subseteq Slot \X Nat \X Backend
         /\ nextLocalTransactionId' \in [Backend -> Nat]
         /\ \E result \in Nat : /\ lxids' = lxids \cup {<<MyBackendId[p], result, p>>}
                                /\ \A x \in lxids : x[1] = MyBackendId[p] => x[2] # result
  <1>. DEFINE result == IF nextLocalTransactionId[p] = 0 THEN 1 ELSE nextLocalTransactionId[p]
              s == MyBackendId[p]
  <1>1. at[p] = "idle" /\ UNCHANGED procState
    BY DEF GetNextLocalTransactionId
  <1>2. s \in Slot /\ procState[s].proc = p /\ Active(s)
    BY <1>1, MineFacts
  <1>3. /\ nextLocalTransactionId \in [Backend -> Nat] /\ lxids \subseteq Slot \X Nat \X Backend
        /\ result \in Nat /\ nextLocalTransactionId[p] \in Nat /\ nextLocalTransactionId[p] <= result
    <2>1. nextLocalTransactionId \in [Backend -> Nat] /\ lxids \subseteq Slot \X Nat \X Backend
      BY DEF TypeOK
    <2>. QED
      BY <2>1
  <1>4. /\ nextLocalTransactionId' = [nextLocalTransactionId EXCEPT ![p] = result + 1]
        /\ lxids' = lxids \cup {<<s, result, p>>}
    BY DEF GetNextLocalTransactionId
  <1>. HIDE DEF result, s
  <1>5. \A x \in lxids : x[1] \in Slot /\ x[2] \in Nat
    BY <1>3
  <1>6. /\ nextLocalTransactionId' \in [Backend -> Nat] /\ nextLocalTransactionId'[p] = result + 1
        /\ \A q \in Backend \ {p} : nextLocalTransactionId'[q] = nextLocalTransactionId[q]
    BY <1>3, <1>4
  <1>7. \A x \in lxids : x[1] = s => x[2] < nextLocalTransactionId[p]
    BY <1>2 DEF LxidsRight
  <1>8. LxidsRight'
    <2>. SUFFICES ASSUME NEW x \in lxids'
                  PROVE  x[2] < IF Active(x[1]) THEN nextLocalTransactionId'[procState[x[1]].proc]
                                                ELSE procState[x[1]].nextLXID
      BY <1>1 DEF LxidsRight, Active
    <2>1. CASE x = <<s, result, p>>
      BY <1>2, <1>3, <1>6, <2>1
    <2>2. CASE x \in lxids /\ x[1] = s
      <3>1. x[2] < nextLocalTransactionId[p]
        BY <1>7, <2>2
      <3>. QED
        BY <1>2, <1>3, <1>5, <1>6, <2>2, <3>1
    <2>3. CASE x \in lxids /\ x[1] # s
      <3>1. x[1] \in Slot /\ (Active(x[1]) => procState[x[1]].proc \in Backend /\ procState[x[1]].proc # p)
        <4>1. x[1] \in Slot /\ procState[x[1]] \in ProcStates
          BY <1>5, <2>3 DEF TypeOK
        <4>. QED
          BY <2>3, <4>1 DEF SlotsRight, Active, ProcStates, s
      <3>. QED
        BY <1>6, <2>3, <3>1 DEF LxidsRight
    <2>. QED
      BY <1>4, <2>1, <2>2, <2>3
  <1>9. \A x \in lxids : x[1] = s => x[2] # result
    BY <1>3, <1>5, <1>7
  <1>. QED
    BY <1>2, <1>3, <1>4, <1>6, <1>8, <1>9 DEF s

\* Everything but joining, leaving and taking a local id keeps the slots.
LEMMA HoldersStep ==
  ASSUME TypeOK, FramesRight, InterruptsRight, SlotsRight, CountersOrdered, QueueRight, FetchRight,
         NEW p \in Backend, Step(p),
         ~(\E b \in BOOLEAN : SharedInvalBackendInit(p, b)), ~CleanupInvalidationState(p),
         ~GetNextLocalTransactionId(p)
  PROVE  HoldersKept /\ UNCHANGED <<lastBackend, MyBackendId, lxidVars>>
  <1>. USE DEF lxidVars, segVars, outsideReceive, outsideInterrupt
  <1>0. UNCHANGED procState => HoldersKept
    BY DEF HoldersKept
  <1>1. CASE \E k \in 1..MaxBatch : SIInsertDataEntries(p, k)
    BY <1>0, <1>1 DEF SIInsertDataEntries
  <1>2. CASE StartRound(p) \/ SignalInRound(p) \/ RelockInRound(p) \/ WriteEntries(p) \/ PublishMax(p)
    BY <1>0, <1>2 DEF StartRound, SignalInRound, RelockInRound, WriteEntries, PublishMax
  <1>3. CASE CleanInRound(p)
    BY <1>3, CleanupFacts DEF CleanInRound, Cleaned, HoldersKept
  <1>4. CASE CleanAfterReceive(p)
    BY <1>4, CleanupFacts DEF CleanAfterReceive, Cleaned, HoldersKept
  <1>5. CASE Kick(p)
    BY <1>5, KickFacts DEF Kick, HoldersKept
  <1>6. CASE ReceiveSharedInvalidMessages(p) \/ Recurse(p) \/ InvalFunctionFails(p)
    BY <1>0, <1>6 DEF ReceiveSharedInvalidMessages, Recurse, InvalFunctionFails
  <1>7. CASE TakeMessage(p) \/ InvalFunctionReturns(p) \/ LoopEnd(p) \/ FetchMax(p)
    BY <1>0, <1>7 DEF TakeMessage, InvalFunctionReturns, LoopEnd, FetchMax
  <1>8. CASE SIGetDataEntries(p)
    <2>1. CASE ~Mine(p).hasMessages
      BY <1>0, <1>8, <2>1 DEF SIGetDataEntries
    <2>2. CASE Mine(p).hasMessages
      <3>1. HoldersKept
        BY <1>8, <2>2, GetFacts DEF HoldersKept
      <3>. QED
        BY <1>8, <3>1 DEF SIGetDataEntries
    <2>. QED
      BY <2>1, <2>2
  <1>9. CASE ReadEntries(p)
    <2>1. procState[MyBackendId[p]].proc = p
      BY <1>9, MineFacts DEF ReadEntries, InReceive
    <2>2. HoldersKept
      BY <1>9, <2>1, ReadFacts DEF HoldersKept
    <2>. QED
      BY <1>9, <2>2 DEF ReadEntries
  <1>10. CASE ReadReset(p)
    <2>1. procState[MyBackendId[p]].proc = p
      BY <1>10, MineFacts DEF ReadReset, InReceive
    <2>2. HoldersKept
      BY <1>10, <2>1, ResetFacts DEF HoldersKept
    <2>. QED
      BY <1>10, <2>2 DEF ReadReset
  <1>11. CASE ReceiveEnds(p) \/ LockAfterReceive(p) \/ SignalAfterReceive(p)
    BY <1>0, <1>11 DEF ReceiveEnds, LockAfterReceive, SignalAfterReceive
  <1>12. CASE PrepareForClientRead(p) \/ EnableLoop(p) \/ HandleCatchupInterrupt(p) \/ ClientReadEnded(p)
    BY <1>0, <1>12 DEF PrepareForClientRead, EnableLoop, HandleCatchupInterrupt, ClientReadEnded
  <1>. QED
    BY <1>1, <1>2, <1>3, <1>4, <1>5, <1>6, <1>7, <1>8, <1>9, <1>10, <1>11, <1>12 DEF Step

\* They also stay between joining and leaving, and no sender comes to receive.
LEMMA PlacesStep ==
  ASSUME TypeOK, FramesRight, InterruptsRight, SlotsRight, NEW p \in Backend, Step(p),
         ~(\E b \in BOOLEAN : SharedInvalBackendInit(p, b)), ~CleanupInvalidationState(p)
  PROVE  /\ at[p] \notin {"start", "gone"} /\ at'[p] \notin {"start", "gone"}
         /\ at'[p] \in Behind => at[p] \in Behind \/ ~Mine(p).sendOnly
  <1>. USE DEF Behind
  <1>1. CASE GetNextLocalTransactionId(p) \/ \E k \in 1..MaxBatch : SIInsertDataEntries(p, k)
    BY <1>1, OutsideControl DEF Outside
  <1>2. CASE StartRound(p) \/ CleanInRound(p) \/ SignalInRound(p) \/ RelockInRound(p)
    BY <1>2, OutsideControl DEF Outside
  <1>3. CASE WriteEntries(p) \/ PublishMax(p) \/ Kick(p) \/ ClientReadEnded(p)
    BY <1>3, OutsideControl DEF Outside
  <1>4. CASE ReceiveSharedInvalidMessages(p)
    BY <1>4, ReceiveControl DEF ReceiveSharedInvalidMessages
  <1>5. CASE Recurse(p) \/ TakeMessage(p) \/ InvalFunctionReturns(p) \/ LoopEnd(p) \/ SIGetDataEntries(p)
    BY <1>5 DEF Recurse, TakeMessage, InvalFunctionReturns, LoopEnd, SIGetDataEntries, InReceive
  <1>6. CASE FetchMax(p) \/ ReadEntries(p) \/ ReadReset(p) \/ LockAfterReceive(p)
    BY <1>6 DEF FetchMax, ReadEntries, ReadReset, LockAfterReceive, InReceive
  <1>7. CASE InvalFunctionFails(p)
    BY <1>7, FailControl DEF InvalFunctionFails
  <1>8. CASE ReceiveEnds(p) \/ CleanAfterReceive(p) \/ SignalAfterReceive(p)
    <2>1. at[p] = "receive"
      BY <1>8 DEF ReceiveEnds, CleanAfterReceive, SignalAfterReceive, InReceive
    <2>. QED
      BY <1>8, <2>1, EndControl, CleanControl, SignalControl, TopFacts DEF Leaves, Inside, Frame
  <1>9. CASE PrepareForClientRead(p)
    BY <1>9, OutsideControl DEF Outside, PrepareForClientRead
  <1>10. CASE EnableLoop(p)
    BY <1>10, EnableControl DEF Open
  <1>11. CASE HandleCatchupInterrupt(p)
    <2>1. at[p] \notin {"start", "gone"}
      BY <1>11 DEF HandleCatchupInterrupt, SlotsRight
    <2>. QED
      BY <1>11, <2>1, HandleControl DEF Open
  <1>. QED
    BY <1>1, <1>2, <1>3, <1>4, <1>5, <1>6, <1>7, <1>8, <1>9, <1>10, <1>11 DEF Step

\* The slots and the local ids are right after every step.
LEMMA SlotStep ==
  ASSUME TypeOK, FramesRight, InterruptsRight, SlotsRight, CountersOrdered, QueueRight, FetchRight, LxidsRight,
         NEW p \in Backend, Step(p)
  PROVE  SlotsRight' /\ LxidsRight'
  <1>0. ControlOK(p)
    BY ControlStep
  <1>1. CASE \E b \in BOOLEAN : SharedInvalBackendInit(p, b)
    <2>1. PICK b \in BOOLEAN : SharedInvalBackendInit(p, b)
      BY <1>1
    <2>2. at[p] = "start" /\ UNCHANGED lxids
      BY <2>1 DEF SharedInvalBackendInit
    <2>3. CASE \E s \in Slot : Joins(p, b, s)
      BY <1>0, <2>2, <2>3, JoinSlots
    <2>4. CASE at'[p] = "gone" /\ UNCHANGED <<lastBackend, procState, MyBackendId, nextLocalTransactionId, seen>>
      <3>1. LxidsRight'
        BY <2>2, <2>4 DEF LxidsRight, Active
      <3>2. \A q \in Backend : at'[q] \in {"start", "gone"} <=> at[q] \in {"start", "gone"}
        BY <1>0, <2>2, <2>4 DEF ControlOK
      <3>3. \A q \in Backend : at'[q] \in Behind <=> at[q] \in Behind
        BY <1>0, <2>2, <2>4 DEF ControlOK, Behind
      <3>4. \A q \in Backend : Mine(q)' = Mine(q)
        BY <2>4 DEF Mine
      <3>5. \A s \in Slot : Active(s)' <=> Active(s)
        BY <2>4 DEF Active
      <3>. QED
        BY <2>4, <3>1, <3>2, <3>3, <3>4, <3>5 DEF SlotsRight, Behind
    <2>. QED
      BY <2>1, <2>3, <2>4, JoinFacts
  <1>2. CASE CleanupInvalidationState(p)
    BY <1>2, LeaveSlots
  <1>3. CASE GetNextLocalTransactionId(p)
    <2>1. HoldersKept /\ UNCHANGED <<lastBackend, MyBackendId>>
      BY <1>3 DEF GetNextLocalTransactionId, HoldersKept, segVars
    <2>2. at[p] = "idle" /\ at'[p] = "idle"
      BY <1>3, OutsideControl DEF Outside
    <2>3. SlotsRight'
      BY <1>0, <2>1, <2>2, SlotsKept DEF Behind
    <2>. QED
      BY <1>3, <2>3, LxidTaken
  <1>4. CASE ~(\E b \in BOOLEAN : SharedInvalBackendInit(p, b)) /\ ~CleanupInvalidationState(p)
             /\ ~GetNextLocalTransactionId(p)
    <2>1. HoldersKept /\ UNCHANGED <<lastBackend, MyBackendId>> /\ UNCHANGED lxidVars
      BY <1>4, HoldersStep
    <2>2. /\ at[p] \notin {"start", "gone"} /\ at'[p] \notin {"start", "gone"}
          /\ at'[p] \in Behind => at[p] \in Behind \/ ~Mine(p).sendOnly
      BY <1>4, PlacesStep
    <2>3. SlotsRight'
      BY <1>0, <2>1, <2>2, SlotsKept
    <2>4. LxidsRight'
      BY <2>1, LxidsKept
    <2>. QED
      BY <2>3, <2>4
  <1>. QED
    BY <1>1, <1>2, <1>3, <1>4
=============================================================================

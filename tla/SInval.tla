------------------------------- MODULE SInval -------------------------------
(***************************************************************************)
(* PostgreSQL's shared cache invalidation queue (storage/ipc/sinvaladt.c)  *)
(* and its use by a backend (storage/ipc/sinval.c): a circular buffer of   *)
(* messages that every backend must process or, if it has fallen too far   *)
(* behind, replace by discarding all its caches ("reset").                 *)
(*                                                                         *)
(* A message is its position in the conceptual infinite array, so that a   *)
(* buffer entry tells which message it holds.  SInvalReadLock and          *)
(* SInvalWriteLock are locks of RWLock, which LWLock implements; the code  *)
(* between two points where another backend can interfere is one step.     *)
(***************************************************************************)
EXTENDS Integers, Sequences

CONSTANTS
  Backend,            \* the processes; each lives once
  Startup,            \* those that may be the startup process in recovery, which only sends
  Client,             \* those that serve a client and wait for its commands
  MaxBackends,        \* size of procState[]
  MAXNUMMESSAGES, MSGNUMWRAPAROUND, CLEANUP_MIN, CLEANUP_QUANTUM,
  SIG_THRESHOLD, WRITE_QUANTUM, MAXINVALMSGS,
  MaxSent,            \* bound: messages inserted
  MaxBatch,           \* bound: messages of one SIInsertDataEntries call
  MaxDepth,           \* bound: nesting of ReceiveSharedInvalidMessages
  MaxReceives,        \* bound: calls of it that backends make on their own
  MaxLXID,            \* bound: local transaction ids taken by a backend
  NULL

ASSUME SizeAssumption ==
  /\ MAXNUMMESSAGES \in Nat \ {0}
  /\ MSGNUMWRAPAROUND \in Nat \ {0} /\ MSGNUMWRAPAROUND % MAXNUMMESSAGES = 0
  /\ CLEANUP_MIN \in Nat /\ CLEANUP_QUANTUM \in Nat \ {0} /\ SIG_THRESHOLD \in Nat
  /\ WRITE_QUANTUM \in 1..MAXNUMMESSAGES /\ MAXINVALMSGS \in Nat \ {0}
  /\ MaxBackends \in Nat \ {0} /\ NULL \notin Backend /\ Startup \subseteq Backend /\ Client \subseteq Backend

ASSUME BoundAssumption ==
  /\ MaxSent \in Nat /\ MaxBatch \in Nat /\ MaxDepth \in Nat /\ MaxReceives \in Nat /\ MaxLXID \in Nat

VARIABLES
  \* struct SISeg
  minMsgNum, maxMsgNum, nextThreshold, lastBackend,
  buffer,       \* 0..MAXNUMMESSAGES-1 -> the message stored there
  procState,    \* slot -> struct ProcState
  lwlocks,      \* backend, lock -> mode held
  \* local to a backend
  MyBackendId,  \* its slot, 0 if it has none
  at,           \* where it is outside ReceiveSharedInvalidMessages
  n,            \* SIInsertDataEntries: messages still to insert
  nthistime,    \* ... and in this round
  frames,       \* active calls of ReceiveSharedInvalidMessages, innermost last
  pending,      \* messages[nextmsg .. nummsgs - 1]
  nummsgs,
  max,          \* SIGetDataEntries: maxMsgNum as fetched
  sig,          \* SICleanupQueue: the backend to signal, NULL if none
  sigusr1,      \* PROCSIG_CATCHUP_INTERRUPT was sent and is not handled yet
  catchupInterruptEnabled, catchupInterruptOccurred,
  interrupted,  \* where the signal handler will return to, NULL outside of it
  nextLocalTransactionId,
  \* history
  base,         \* what wraparound has subtracted from the counters so far
  queued,       \* messages whose insertion is complete
  seen,         \* backend -> messages it has dealt with
  receives,     \* calls of ReceiveSharedInvalidMessages made
  lxids         \* virtual transaction ids handed out, with their taker

segVars == <<minMsgNum, maxMsgNum, nextThreshold, lastBackend, buffer>>
insertVars == <<n, nthistime>>
receiveVars == <<frames, pending, nummsgs, max, seen, receives>>
interruptVars == <<sigusr1, catchupInterruptEnabled, catchupInterruptOccurred, interrupted>>
lxidVars == <<nextLocalTransactionId, lxids>>
historyVars == <<base, queued>>
vars == <<segVars, procState, lwlocks, MyBackendId, at, insertVars, receiveVars,
          sig, interruptVars, lxidVars, historyVars>>

Slot == 1..MaxBackends
LW == INSTANCE RWLock WITH Proc <- Backend,
                           Lock <- {"SInvalWriteLock", "SInvalReadLock"},
                           holds <- lwlocks
EX == "LW_EXCLUSIVE"
SH == "LW_SHARED"

\* p could get the lock at once: the guard of a section that takes and releases
\* it within one step.
Available(p, l, m) == \A q \in Backend \ {p} : LW!Compatible(m, lwlocks[q][l])

FreeProcState ==
  [proc |-> NULL, nextMsgNum |-> 0, resetState |-> FALSE, signaled |-> FALSE,
   hasMessages |-> FALSE, sendOnly |-> FALSE, nextLXID |-> 0]

\* CreateSharedInvalidationState.
Init ==
  /\ minMsgNum = 0 /\ maxMsgNum = 0 /\ nextThreshold = CLEANUP_MIN /\ lastBackend = 0
  /\ buffer = [i \in 0..(MAXNUMMESSAGES - 1) |-> -1]
  /\ procState = [s \in Slot |-> FreeProcState]
  /\ LW!Init
  /\ MyBackendId = [p \in Backend |-> 0]
  /\ at = [p \in Backend |-> "start"]
  /\ n = [p \in Backend |-> 0] /\ nthistime = [p \in Backend |-> 0]
  /\ frames = [p \in Backend |-> <<>>] /\ pending = [p \in Backend |-> <<>>]
  /\ nummsgs = [p \in Backend |-> 0] /\ max = [p \in Backend |-> 0]
  /\ sig = [p \in Backend |-> NULL]
  /\ sigusr1 = [p \in Backend |-> FALSE] /\ interrupted = [p \in Backend |-> NULL]
  /\ catchupInterruptEnabled = [p \in Backend |-> FALSE]
  /\ catchupInterruptOccurred = [p \in Backend |-> FALSE]
  /\ nextLocalTransactionId = [p \in Backend |-> 0]
  /\ base = 0 /\ queued = 0 /\ seen = [p \in Backend |-> 0]
  /\ receives = 0 /\ lxids = {}

Goto(p, place) == at' = [at EXCEPT ![p] = place]
Mine(p) == procState[MyBackendId[p]]
Active(s) == procState[s].proc # NULL
-----------------------------------------------------------------------------
(* Joining and leaving.                                                    *)

\* Mutant: a new backend starts with the oldest message instead of the newest.
JoinedAtMin(p, s, sendOnly) ==
  [procState[s] EXCEPT !.proc = p, !.nextMsgNum = minMsgNum, !.resetState = FALSE,
                       !.signaled = FALSE, !.hasMessages = FALSE, !.sendOnly = sendOnly]

\* Mark myself active, with all extant messages already read.
Joined(p, s, sendOnly) ==
  [procState[s] EXCEPT !.proc = p, !.nextMsgNum = maxMsgNum, !.resetState = FALSE,
                       !.signaled = FALSE, !.hasMessages = FALSE, !.sendOnly = sendOnly]

\* SharedInvalBackendInit: the first free slot, or a FATAL error if there is none.
SharedInvalBackendInit(p, sendOnly) ==
  /\ at[p] = "start" /\ Available(p, "SInvalWriteLock", EX)
  /\ \/ \E s \in Slot :
          /\ s <= lastBackend + 1 /\ ~Active(s)
          /\ \A t \in 1..(s - 1) : Active(t)
          /\ lastBackend' = IF s > lastBackend THEN s ELSE lastBackend
          /\ procState' = [procState EXCEPT ![s] = Joined(p, s, sendOnly)]
          /\ MyBackendId' = [MyBackendId EXCEPT ![p] = s]
          /\ nextLocalTransactionId' = [nextLocalTransactionId EXCEPT ![p] = procState[s].nextLXID]
          /\ seen' = [seen EXCEPT ![p] = base + maxMsgNum]
          /\ Goto(p, "idle")
     \/ /\ \A s \in Slot : Active(s)
        /\ Goto(p, "gone")
        /\ UNCHANGED <<lastBackend, procState, MyBackendId, nextLocalTransactionId, seen>>
  /\ UNCHANGED <<minMsgNum, maxMsgNum, nextThreshold, buffer, lwlocks, insertVars,
                 frames, pending, nummsgs, max, receives, sig,
                 interruptVars, lxids, historyVars>>

\* Mutant: the next holder of the slot starts counting afresh.
LeftForgetful(p) == FreeProcState

\* The entry of a backend that exits; the next local id stays for its successor.
Left(p) ==
  [Mine(p) EXCEPT !.proc = NULL, !.nextMsgNum = 0, !.resetState = FALSE,
                  !.signaled = FALSE, !.nextLXID = nextLocalTransactionId[p]]

\* CleanupInvalidationState: mark the entry inactive, recompute lastBackend.
CleanupInvalidationState(p) ==
  /\ at[p] = "idle" /\ Available(p, "SInvalWriteLock", EX)
  /\ procState' = [procState EXCEPT ![MyBackendId[p]] = Left(p)]
  /\ \E i \in 0..lastBackend :
       /\ i > 0 => procState'[i].proc # NULL
       /\ \A j \in (i + 1)..lastBackend : procState'[j].proc = NULL
       /\ lastBackend' = i
  /\ MyBackendId' = [MyBackendId EXCEPT ![p] = 0]
  /\ Goto(p, "gone")
  /\ UNCHANGED <<minMsgNum, maxMsgNum, nextThreshold, buffer, lwlocks, insertVars,
                 receiveVars, sig, interruptVars, lxidVars, historyVars>>

\* GetNextLocalTransactionId skips InvalidLocalTransactionId.
GetNextLocalTransactionId(p) ==
  LET result == IF nextLocalTransactionId[p] = 0 THEN 1 ELSE nextLocalTransactionId[p] IN
  /\ at[p] = "idle" /\ result <= MaxLXID
  /\ nextLocalTransactionId' = [nextLocalTransactionId EXCEPT ![p] = result + 1]
  /\ lxids' = lxids \cup {<<MyBackendId[p], result, p>>}
  /\ UNCHANGED <<segVars, procState, lwlocks, MyBackendId, at, insertVars, receiveVars,
                 sig, interruptVars, historyVars>>
-----------------------------------------------------------------------------
(* SICleanupQueue, with both locks held exclusively.                       *)

\* Backends whose position counts.
Reading(s) == Active(s) /\ ~procState[s].resetState /\ ~procState[s].sendOnly

\* Mutant: the space for the messages to be inserted is not asked for.
TooFarBehindLax(s, minFree) == procState[s].nextMsgNum < maxMsgNum - MAXNUMMESSAGES

\* It prevents minFree message slots from being free.
TooFarBehind(s, minFree) == procState[s].nextMsgNum < maxMsgNum - MAXNUMMESSAGES + minFree

\* Whose progress bounds minMsgNum from above.
Kept(s, minFree) == Reading(s) /\ ~TooFarBehind(s, minFree)

\* The furthest back of the unsignaled backends that are far behind, or 0.
NeedSig(minFree) ==
  LET slow == {s \in 1..lastBackend :
                 /\ Kept(s, minFree) /\ ~procState[s].signaled
                 /\ procState[s].nextMsgNum < maxMsgNum - SIG_THRESHOLD}
      Before(s, t) == \/ procState[s].nextMsgNum < procState[t].nextMsgNum
                      \/ procState[s].nextMsgNum = procState[t].nextMsgNum /\ s <= t
  IN  IF slow = {} THEN 0 ELSE CHOOSE s \in slow : \A t \in slow : Before(s, t)

\* Mutant: wraparound forgets the backends' positions.
ShiftNone(s, minFree, shift) == procState[s].nextMsgNum

\* Wraparound moves every position up to lastBackend, inactive ones too.
Shifted(s, minFree, shift) ==
  IF s <= lastBackend THEN procState[s].nextMsgNum - shift ELSE procState[s].nextMsgNum

SICleanupQueue(p, minFree) ==
  LET positions == {maxMsgNum} \cup {procState[s].nextMsgNum : s \in {t \in 1..lastBackend : Kept(t, minFree)}}
      needSig == NeedSig(minFree)
  IN
  /\ Available(p, "SInvalReadLock", EX)
  /\ \E min \in positions :
       /\ \A m \in positions : min <= m
       /\ LET shift == IF min >= MSGNUMWRAPAROUND THEN MSGNUMWRAPAROUND ELSE 0
              numMsgs == maxMsgNum - min
          IN
          /\ minMsgNum' = min - shift
          /\ maxMsgNum' = maxMsgNum - shift
          /\ base' = base + shift
          /\ procState' = [s \in Slot |->
               [procState[s] EXCEPT
                  !.nextMsgNum = Shifted(s, minFree, shift),
                  !.resetState = @ \/ (s <= lastBackend /\ Reading(s) /\ TooFarBehind(s, minFree)),
                  !.signaled = @ \/ s = needSig]]
          /\ nextThreshold' = IF numMsgs < CLEANUP_MIN THEN CLEANUP_MIN
                              ELSE (numMsgs \div CLEANUP_QUANTUM + 1) * CLEANUP_QUANTUM
  /\ sig' = [sig EXCEPT ![p] = IF needSig = 0 THEN NULL ELSE procState[needSig].proc]

\* SendProcSignal, with no lock held: nothing is sent to a process that left.
SendProcSignal(p) ==
  /\ sigusr1' = [q \in Backend |-> sigusr1[q] \/ (sig[p] = q /\ MyBackendId[q] # 0)]
  /\ UNCHANGED <<catchupInterruptEnabled, catchupInterruptOccurred, interrupted>>
-----------------------------------------------------------------------------
(* SIInsertDataEntries.                                                    *)

\* Called with k messages; take SInvalWriteLock for a round of them.
SIInsertDataEntries(p, k) ==
  /\ at[p] = "idle" /\ base + maxMsgNum + k <= MaxSent
  /\ n' = [n EXCEPT ![p] = k]
  /\ Goto(p, "round")
  /\ UNCHANGED <<segVars, procState, lwlocks, MyBackendId, nthistime, receiveVars, sig,
                 interruptVars, lxidVars, historyVars>>

\* Mutant: everything in one round.
WholeBatch(k) == k

\* Groups of no more than WRITE_QUANTUM messages.
Quantum(k) == IF k < WRITE_QUANTUM THEN k ELSE WRITE_QUANTUM

StartRound(p) ==
  /\ at[p] = "round"
  /\ LW!Acquire(p, "SInvalWriteLock", EX)
  /\ nthistime' = [nthistime EXCEPT ![p] = Quantum(n[p])]
  /\ n' = [n EXCEPT ![p] = @ - nthistime'[p]]
  /\ Goto(p, "check")
  /\ UNCHANGED <<segVars, procState, MyBackendId, receiveVars, sig,
                 interruptVars, lxidVars, historyVars>>

\* Mutant: only the threshold is looked at, not whether the messages fit.
MustCleanIgnoringSpace(k) == maxMsgNum - minMsgNum >= nextThreshold

\* The buffer has no room for k messages, or is due for cleaning.
MustClean(k) ==
  maxMsgNum - minMsgNum + k > MAXNUMMESSAGES \/ maxMsgNum - minMsgNum >= nextThreshold

\* The loop that makes room: clean, and look again if the lock was let go.
CleanInRound(p) ==
  /\ at[p] = "check" /\ MustClean(nthistime[p])
  /\ SICleanupQueue(p, nthistime[p])
  /\ IF sig'[p] = NULL
     THEN UNCHANGED <<at, lwlocks>>
     ELSE Goto(p, "signal") /\ LW!Release(p, "SInvalWriteLock")
  /\ UNCHANGED <<lastBackend, buffer, MyBackendId, insertVars, receiveVars,
                 interruptVars, lxidVars, queued>>

SignalInRound(p) ==
  /\ at[p] = "signal" /\ SendProcSignal(p)
  /\ sig' = [sig EXCEPT ![p] = NULL]
  /\ Goto(p, "relock")
  /\ UNCHANGED <<segVars, procState, lwlocks, MyBackendId, insertVars, receiveVars,
                 lxidVars, historyVars>>

RelockInRound(p) ==
  /\ at[p] = "relock"
  /\ LW!Acquire(p, "SInvalWriteLock", EX)
  /\ Goto(p, "check")
  /\ UNCHANGED <<segVars, procState, MyBackendId, insertVars, receiveVars, sig,
                 interruptVars, lxidVars, historyVars>>

\* Insert the messages into the circular buffer.
WriteEntries(p) ==
  /\ at[p] = "check" /\ ~MustClean(nthistime[p])
  /\ buffer' = [i \in DOMAIN buffer |->
       IF \E m \in maxMsgNum..(maxMsgNum + nthistime[p] - 1) : m % MAXNUMMESSAGES = i
       THEN CHOOSE a \in (base + maxMsgNum)..(base + maxMsgNum + nthistime[p] - 1) :
              (a - base) % MAXNUMMESSAGES = i
       ELSE buffer[i]]
  /\ Goto(p, "publish")
  /\ UNCHANGED <<minMsgNum, maxMsgNum, nextThreshold, lastBackend, procState, lwlocks,
                 MyBackendId, insertVars, receiveVars, sig, interruptVars,
                 lxidVars, historyVars>>

\* Update maxMsgNum under the spinlock.
PublishMax(p) ==
  /\ at[p] = "publish"
  /\ maxMsgNum' = maxMsgNum + nthistime[p]
  /\ Goto(p, "kick")
  /\ UNCHANGED <<minMsgNum, nextThreshold, lastBackend, buffer, procState, lwlocks,
                 MyBackendId, insertVars, receiveVars, sig, interruptVars,
                 lxidVars, historyVars>>

\* Mutant: the last slot is not told.
KickedOffByOne(s) == procState[s].hasMessages \/ s < lastBackend

\* Tell every slot up to lastBackend to look.
Kicked(s) == procState[s].hasMessages \/ s <= lastBackend

\* Give everyone a swift kick and release the lock.
Kick(p) ==
  /\ at[p] = "kick"
  /\ procState' = [s \in Slot |-> [procState[s] EXCEPT !.hasMessages = Kicked(s)]]
  /\ LW!Release(p, "SInvalWriteLock")
  /\ queued' = base + maxMsgNum
  /\ nthistime' = [nthistime EXCEPT ![p] = 0]
  /\ Goto(p, IF n[p] > 0 THEN "round" ELSE "idle")
  /\ UNCHANGED <<segVars, MyBackendId, n, receiveVars, sig,
                 interruptVars, lxidVars, base>>
-----------------------------------------------------------------------------
(* ReceiveSharedInvalidMessages and SIGetDataEntries.                      *)

Top(p) == frames[p][Len(frames[p])]
InReceive(p, place) == at[p] = "receive" /\ Top(p).at = place /\ ~Top(p).calling
GotoTop(p, place) == frames' = [frames EXCEPT ![p][Len(frames[p])].at = place]
SetMine(p, r) == procState' = [procState EXCEPT ![MyBackendId[p]] = r]
outsideReceive == <<segVars, MyBackendId, insertVars, lxidVars, historyVars>>

\* A call of ReceiveSharedInvalidMessages that will return to where.
NewFrame(where) == [at |-> "drain", calling |-> FALSE, entry |-> queued, where |-> where]

\* A backend looks for messages at transaction start and whenever it takes a lock;
\* a send-only backend never does.
ReceiveSharedInvalidMessages(p) ==
  /\ at[p] = "idle" /\ ~Mine(p).sendOnly /\ receives < MaxReceives
  /\ receives' = receives + 1
  /\ frames' = [frames EXCEPT ![p] = <<NewFrame("idle")>>]
  /\ Goto(p, "receive")
  /\ UNCHANGED <<outsideReceive, procState, lwlocks, pending, nummsgs, max, seen, sig, interruptVars>>

\* invalFunction looks for messages itself while it rebuilds a cache entry.
Recurse(p) ==
  /\ at[p] = "receive" /\ Top(p).calling /\ Len(frames[p]) < MaxDepth
  /\ frames' = [frames EXCEPT ![p] = Append(@, NewFrame("receive"))]
  /\ UNCHANGED <<outsideReceive, procState, lwlocks, at, pending, nummsgs, max, seen,
                 receives, sig, interruptVars>>

\* Take the next message out of messages[] and call invalFunction on it.
TakeMessage(p) ==
  /\ InReceive(p, "drain") \/ InReceive(p, "process")
  /\ pending[p] # <<>>
  /\ pending' = [pending EXCEPT ![p] = Tail(@)]
  /\ seen' = [seen EXCEPT ![p] = Head(pending[p]) + 1]
  /\ frames' = [frames EXCEPT ![p][Len(frames[p])].calling = TRUE]
  /\ UNCHANGED <<outsideReceive, procState, lwlocks, at, nummsgs, max, receives, sig,
                 interruptVars>>

InvalFunctionReturns(p) ==
  /\ at[p] = "receive" /\ Top(p).calling
  /\ frames' = [frames EXCEPT ![p][Len(frames[p])].calling = FALSE]
  /\ UNCHANGED <<outsideReceive, procState, lwlocks, at, pending, nummsgs, max, seen,
                 receives, sig, interruptVars>>

\* An error in invalFunction unwinds every frame, and the signal handler if there is
\* one, to PostgresMain, which calls DisableCatchupInterrupt; messages[] keeps the rest.
InvalFunctionFails(p) ==
  /\ at[p] = "receive" /\ Top(p).calling
  /\ frames' = [frames EXCEPT ![p] = <<>>]
  /\ Goto(p, "idle")
  /\ catchupInterruptEnabled' = [catchupInterruptEnabled EXCEPT ![p] = FALSE]
  /\ interrupted' = [interrupted EXCEPT ![p] = NULL]
  /\ UNCHANGED <<outsideReceive, procState, lwlocks, pending, nummsgs, max, seen,
                 receives, sig, sigusr1, catchupInterruptOccurred>>

\* Mutant: only messages[] that came back full are looked behind, off by one.
MoreToRead(k) == k > MAXINVALMSGS

\* A full messages[] may not have been everything.
FullBuffer(k) == k = MAXINVALMSGS

\* No message is left in messages[]: try to get more, or be done.
LoopEnd(p) ==
  /\ InReceive(p, "drain") \/ InReceive(p, "process")
  /\ pending[p] = <<>>
  /\ IF Top(p).at = "drain" \/ FullBuffer(nummsgs[p])
     THEN GotoTop(p, "get") /\ nummsgs' = [nummsgs EXCEPT ![p] = 0]
     ELSE GotoTop(p, "end") /\ UNCHANGED nummsgs
  /\ UNCHANGED <<outsideReceive, procState, lwlocks, at, pending, max, seen, receives, sig,
                 interruptVars>>

\* SIGetDataEntries, up to the reset of hasMessages: the test is unlocked.
SIGetDataEntries(p) ==
  /\ InReceive(p, "get")
  /\ \/ /\ ~Mine(p).hasMessages
        /\ GotoTop(p, "process")
        /\ UNCHANGED <<procState, lwlocks>>
     \/ /\ Mine(p).hasMessages
        /\ LW!Acquire(p, "SInvalReadLock", SH)
        /\ SetMine(p, [Mine(p) EXCEPT !.hasMessages = FALSE])
        /\ GotoTop(p, "fetch")
  /\ UNCHANGED <<outsideReceive, at, pending, nummsgs, max, seen, receives, sig,
                 interruptVars>>

\* Fetch maxMsgNum under the spinlock.
FetchMax(p) ==
  /\ InReceive(p, "fetch")
  /\ max' = [max EXCEPT ![p] = maxMsgNum]
  /\ GotoTop(p, "read")
  /\ UNCHANGED <<outsideReceive, procState, lwlocks, at, pending, nummsgs, seen, receives,
                 sig, interruptVars>>

CaughtUp(next, m) == next >= m

\* Retrieve messages until messages[] is full or there are no more.
ReadEntries(p) ==
  LET next == Mine(p).nextMsgNum
      k == IF max[p] - next < MAXINVALMSGS THEN max[p] - next ELSE MAXINVALMSGS
  IN
  /\ InReceive(p, "read") /\ ~Mine(p).resetState
  /\ pending' = [pending EXCEPT ![p] = [i \in 1..k |-> buffer[(next + i - 1) % MAXNUMMESSAGES]]]
  /\ nummsgs' = [nummsgs EXCEPT ![p] = k]
  /\ SetMine(p, IF CaughtUp(next + k, max[p])
                THEN [Mine(p) EXCEPT !.nextMsgNum = next + k, !.signaled = FALSE]
                ELSE [Mine(p) EXCEPT !.nextMsgNum = next + k, !.hasMessages = TRUE])
  /\ LW!Release(p, "SInvalReadLock")
  /\ max' = [max EXCEPT ![p] = 0]
  /\ GotoTop(p, "process")
  /\ UNCHANGED <<outsideReceive, at, seen, receives, sig, interruptVars>>

\* Force reset: it stands for every message up to max; resetFunction, called next,
\* discards all caches and may, like invalFunction, recurse or fail.
ReadReset(p) ==
  /\ InReceive(p, "read") /\ Mine(p).resetState
  /\ SetMine(p, [Mine(p) EXCEPT !.nextMsgNum = max[p], !.resetState = FALSE, !.signaled = FALSE])
  /\ seen' = [seen EXCEPT ![p] = base + max[p]]
  /\ LW!Release(p, "SInvalReadLock")
  /\ max' = [max EXCEPT ![p] = 0]
  /\ frames' = [frames EXCEPT ![p][Len(frames[p])] = [@ EXCEPT !.at = "end", !.calling = TRUE]]
  /\ UNCHANGED <<outsideReceive, at, pending, nummsgs, receives, sig, interruptVars>>

\* Leave the innermost frame.
PopFrame(p) ==
  /\ frames' = [frames EXCEPT ![p] = SubSeq(@, 1, Len(@) - 1)]
  /\ Goto(p, Top(p).where)

\* catchupInterruptOccurred = 0
NoteCleared(p) == catchupInterruptOccurred' = [catchupInterruptOccurred EXCEPT ![p] = FALSE]

\* Mutant: the signal is not passed on.
ReceiveEndsSilently(p) ==
  /\ InReceive(p, "end")
  /\ NoteCleared(p) /\ PopFrame(p)
  /\ UNCHANGED <<outsideReceive, procState, lwlocks, pending, nummsgs, max, seen, receives, sig,
                 sigusr1, catchupInterruptEnabled, interrupted>>

\* Caught up: if a catchup signal came in, pass it on to the next slowest backend.
ReceiveEnds(p) ==
  /\ InReceive(p, "end")
  /\ \/ /\ ~catchupInterruptOccurred[p]
        /\ PopFrame(p)
        /\ UNCHANGED catchupInterruptOccurred
     \/ /\ catchupInterruptOccurred[p]
        /\ NoteCleared(p)
        /\ GotoTop(p, "lock")
        /\ UNCHANGED at
  /\ UNCHANGED <<outsideReceive, procState, lwlocks, pending, nummsgs, max, seen, receives, sig,
                 sigusr1, catchupInterruptEnabled, interrupted>>

LockAfterReceive(p) ==
  /\ InReceive(p, "lock")
  /\ LW!Acquire(p, "SInvalWriteLock", EX)
  /\ GotoTop(p, "clean")
  /\ UNCHANGED <<outsideReceive, procState, at, pending, nummsgs, max, seen, receives, sig,
                 interruptVars>>

CleanAfterReceive(p) ==
  /\ InReceive(p, "clean")
  /\ SICleanupQueue(p, 0)
  /\ LW!Release(p, "SInvalWriteLock")
  /\ IF sig'[p] = NULL THEN PopFrame(p) ELSE GotoTop(p, "signal") /\ UNCHANGED at
  /\ UNCHANGED <<lastBackend, buffer, MyBackendId, insertVars, pending, nummsgs, max, seen,
                 receives, interruptVars, lxidVars, queued>>

SignalAfterReceive(p) ==
  /\ InReceive(p, "signal") /\ SendProcSignal(p)
  /\ sig' = [sig EXCEPT ![p] = NULL]
  /\ PopFrame(p)
  /\ UNCHANGED <<outsideReceive, procState, lwlocks, pending, nummsgs, max, seen, receives>>
-----------------------------------------------------------------------------
(* The catchup interrupt.  A backend that waits for its client lets the    *)
(* signal handler do the work; else the handler only leaves a note.        *)

outsideInterrupt == <<segVars, procState, lwlocks, MyBackendId, insertVars, sig, lxidVars, historyVars>>
SetEnabled(p, b) == catchupInterruptEnabled' = [catchupInterruptEnabled EXCEPT ![p] = b]

\* prepare_for_client_read calls EnableCatchupInterrupt.
PrepareForClientRead(p) ==
  /\ at[p] = "idle" /\ p \in Client /\ ~Mine(p).sendOnly
  /\ Goto(p, "enable")
  /\ UNCHANGED <<outsideInterrupt, receiveVars, interruptVars>>

\* Mutant: what came in before the handler was enabled is not looked for.
NoticedNever(p) == FALSE

\* Did a signal come in that the handler could not serve?
Noticed(p) == catchupInterruptOccurred[p]

\* Mutant: the handler stays enabled while the event is processed.
DisabledNever(p) == UNCHANGED catchupInterruptEnabled

\* catchupInterruptEnabled = 0, to prevent re-entrant invocation.
Disabled(p) == SetEnabled(p, FALSE)

\* The loop of EnableCatchupInterrupt, and of HandleCatchupInterrupt: enable, test,
\* disable, test again, process the event.
EnableLoop(p) ==
  /\ \/ /\ at[p] = "enable"
        /\ SetEnabled(p, TRUE) /\ Goto(p, "test")
        /\ UNCHANGED <<interrupted, frames>>
     \/ /\ at[p] = "test" /\ Noticed(p)
        /\ Goto(p, "disable")
        /\ UNCHANGED <<catchupInterruptEnabled, interrupted, frames>>
     \/ /\ at[p] = "test" /\ ~Noticed(p)
        /\ Goto(p, IF interrupted[p] = NULL THEN "wait" ELSE interrupted[p])
        /\ interrupted' = [interrupted EXCEPT ![p] = NULL]
        /\ UNCHANGED <<catchupInterruptEnabled, frames>>
     \/ /\ at[p] = "disable"
        /\ Disabled(p) /\ Goto(p, "retest")
        /\ UNCHANGED <<interrupted, frames>>
     \/ /\ at[p] = "retest" /\ ~catchupInterruptOccurred[p]
        /\ Goto(p, "enable")
        /\ UNCHANGED <<catchupInterruptEnabled, interrupted, frames>>
     \/ /\ at[p] = "retest" /\ catchupInterruptOccurred[p]   \* ProcessCatchupEvent
        /\ frames' = [frames EXCEPT ![p] = <<NewFrame("enable")>>]
        /\ Goto(p, "receive")
        /\ UNCHANGED <<catchupInterruptEnabled, interrupted>>
  /\ UNCHANGED <<outsideInterrupt, pending, nummsgs, max, seen, receives, sigusr1, catchupInterruptOccurred>>

\* HandleCatchupInterrupt, wherever the signal finds the backend; SIGUSR1 is
\* blocked while its handler runs, and a process that exits ignores it.
HandleCatchupInterrupt(p) ==
  /\ sigusr1[p] /\ MyBackendId[p] # 0 /\ interrupted[p] = NULL
  /\ sigusr1' = [sigusr1 EXCEPT ![p] = FALSE]
  /\ catchupInterruptOccurred' = [catchupInterruptOccurred EXCEPT ![p] = TRUE]
  /\ IF catchupInterruptEnabled[p]
     THEN /\ SetEnabled(p, FALSE)
          /\ interrupted' = [interrupted EXCEPT ![p] = at[p]]
          /\ Goto(p, "enable")
     ELSE UNCHANGED <<catchupInterruptEnabled, interrupted, at>>
  /\ UNCHANGED <<outsideInterrupt, receiveVars>>

\* client_read_ended calls DisableCatchupInterrupt.
ClientReadEnded(p) ==
  /\ at[p] = "wait"
  /\ SetEnabled(p, FALSE) /\ Goto(p, "idle")
  /\ UNCHANGED <<outsideInterrupt, receiveVars, sigusr1, catchupInterruptOccurred, interrupted>>
-----------------------------------------------------------------------------
Insert(p) ==
  \/ StartRound(p) \/ CleanInRound(p) \/ SignalInRound(p) \/ RelockInRound(p)
  \/ WriteEntries(p) \/ PublishMax(p) \/ Kick(p)

Receive(p) ==
  \/ TakeMessage(p) \/ InvalFunctionReturns(p) \/ LoopEnd(p)
  \/ SIGetDataEntries(p) \/ FetchMax(p) \/ ReadEntries(p) \/ ReadReset(p)
  \/ ReceiveEnds(p) \/ LockAfterReceive(p) \/ CleanAfterReceive(p) \/ SignalAfterReceive(p)

\* Every backend has exited.
Terminated == (\A p \in Backend : at[p] = "gone") /\ UNCHANGED vars

Next ==
  \/ \E p \in Backend :
       \/ \E sendOnly \in {FALSE, (p \in Startup)} : SharedInvalBackendInit(p, sendOnly)
       \/ CleanupInvalidationState(p) \/ GetNextLocalTransactionId(p)
       \/ \E k \in 1..MaxBatch : SIInsertDataEntries(p, k)
       \/ Insert(p) \/ ReceiveSharedInvalidMessages(p) \/ Recurse(p) \/ InvalFunctionFails(p)
       \/ Receive(p)
       \/ PrepareForClientRead(p) \/ EnableLoop(p) \/ HandleCatchupInterrupt(p) \/ ClientReadEnded(p)
  \/ Terminated

Spec == Init /\ [][Next]_vars
FairSpec == Spec /\ \A p \in Backend :
  WF_vars(Insert(p)) /\ WF_vars(Receive(p)) /\ WF_vars(EnableLoop(p)) /\ WF_vars(HandleCatchupInterrupt(p))
-----------------------------------------------------------------------------
(* Properties.                                                             *)

ProcStates ==
  [proc : Backend \cup {NULL}, nextMsgNum : Int, resetState : BOOLEAN, signaled : BOOLEAN,
   hasMessages : BOOLEAN, sendOnly : BOOLEAN, nextLXID : Nat]

Place ==
  {"start", "idle", "gone", "round", "check", "signal", "relock", "publish", "kick",
   "receive", "enable", "test", "disable", "retest", "wait"}

Frame ==
  [at : {"drain", "process", "get", "fetch", "read", "end", "lock", "clean", "signal"},
   calling : BOOLEAN, entry : Nat, where : {"idle", "receive", "enable"}]

\* Every variable has its type.
TypeOK ==
  /\ minMsgNum \in Int /\ maxMsgNum \in Int /\ nextThreshold \in Nat
  /\ lastBackend \in 0..MaxBackends
  /\ buffer \in [0..(MAXNUMMESSAGES - 1) -> Int]
  /\ procState \in [Slot -> ProcStates]
  /\ lwlocks \in [Backend -> [{"SInvalWriteLock", "SInvalReadLock"} -> {"none", EX, SH}]]
  /\ MyBackendId \in [Backend -> 0..MaxBackends]
  /\ at \in [Backend -> Place]
  /\ n \in [Backend -> Nat] /\ nthistime \in [Backend -> 0..WRITE_QUANTUM]
  /\ frames \in [Backend -> Seq(Frame)]
  /\ pending \in [Backend -> Seq(Int)] /\ nummsgs \in [Backend -> 0..MAXINVALMSGS]
  /\ max \in [Backend -> Int] /\ sig \in [Backend -> Backend \cup {NULL}]
  /\ sigusr1 \in [Backend -> BOOLEAN] /\ interrupted \in [Backend -> {NULL, "test", "disable", "wait"}]
  /\ catchupInterruptEnabled \in [Backend -> BOOLEAN] /\ catchupInterruptOccurred \in [Backend -> BOOLEAN]
  /\ nextLocalTransactionId \in [Backend -> Nat] /\ lxids \subseteq Slot \X Nat \X Backend
  /\ base \in Nat /\ queued \in Nat /\ seen \in [Backend -> Int] /\ receives \in Nat

\* The counters stay in order and the queue never exceeds the buffer:
\* minMsgNum <= nextMsgNum <= maxMsgNum for every backend that reads.
CountersOrdered ==
  /\ minMsgNum <= maxMsgNum /\ maxMsgNum - minMsgNum <= MAXNUMMESSAGES
  /\ \A s \in Slot : Reading(s) => minMsgNum <= procState[s].nextMsgNum /\ procState[s].nextMsgNum <= maxMsgNum

\* No message is overwritten before every backend that has to read it did: the
\* buffer still holds, at its place, each message some reader has not fetched.
UnreadIntact ==
  \A s \in Slot : Reading(s) =>
    \A m \in procState[s].nextMsgNum..(maxMsgNum - 1) : buffer[m % MAXNUMMESSAGES] = base + m

\* A backend deals with the messages one by one in the order they were sent, with
\* no gap between what it has processed, what is in messages[] and what it will
\* read next, unless it is going to be reset.
NoGap ==
  \A p \in Backend :
    LET s == MyBackendId[p] IN
    s # 0 /\ ~procState[s].sendOnly =>
      /\ \A i \in DOMAIN pending[p] : pending[p][i] = seen[p] + i - 1
      /\ ~procState[s].resetState => base + procState[s].nextMsgNum = seen[p] + Len(pending[p])

\* ReceiveSharedInvalidMessages guarantees that every message queued before it
\* was entered has been processed, or covered by a reset, when it is done; so
\* does a recursive call of it.
ReceiveComplete ==
  \A p \in Backend : at[p] = "receive" /\ Top(p).at = "end" => seen[p] >= Top(p).entry

\* A backend outside SIGetDataEntries whose flag is down has nothing to read of
\* what is queued, and is not waiting to be reset.
FlagTells ==
  \A p \in Backend :
    LET s == MyBackendId[p]
        inGet == at[p] = "receive" /\ Top(p).at \in {"fetch", "read"}
    IN
    s # 0 /\ ~procState[s].sendOnly /\ ~procState[s].hasMessages /\ ~inGet =>
      base + procState[s].nextMsgNum >= queued /\ ~procState[s].resetState

\* A virtual transaction id, a slot with a local id, is handed out once.
VirtualXidUnique ==
  \A x, y \in lxids : x[1] = y[1] /\ x[2] = y[2] => x[3] = y[3]

\* A sender always gets through: no backend that reads slowly, or not at all,
\* keeps SIInsertDataEntries cleaning the queue forever.
InsertReturns == \A p \in Backend :
  at[p] \in {"round", "check", "signal", "relock", "publish", "kick"} ~> at[p] = "idle"

\* The handler never processes an event in the middle of something: while it is
\* enabled the backend is neither in ReceiveSharedInvalidMessages nor inserting, and
\* holds no lock of the queue.
NoReentrance ==
  \A p \in Backend : catchupInterruptEnabled[p] =>
    /\ frames[p] = <<>> /\ at[p] \in {"test", "disable", "wait"}
    /\ \A l \in DOMAIN lwlocks[p] : lwlocks[p][l] = "none"

\* A backend never waits for its client with an event noted and not processed.
NoSleepOnInterrupt ==
  \A p \in Backend : at[p] = "wait" => ~catchupInterruptOccurred[p]

\* A backend that reads is far behind, and has not been told.
Lags(p) ==
  LET s == MyBackendId[p] IN
  /\ s # 0 /\ Reading(s) /\ ~procState[s].signaled
  /\ procState[s].nextMsgNum < maxMsgNum - SIG_THRESHOLD

\* A catchup signal is served: a backend with a client that got one, or noted one, and
\* does not run a command comes to have neither; and it passes the signal on to
\* whoever lags, so that nobody is left behind for want of a signal.
SignalServed == \A p \in Client :
  LET called == sigusr1[p] \/ catchupInterruptOccurred[p]
      busy == at[p] \in {"idle", "gone"}
  IN /\ called ~> ~called \/ busy
     /\ \A q \in Backend \ {p} : called /\ Lags(q) ~> ~Lags(q) \/ busy
=============================================================================

------------------------------ MODULE SyncRep ------------------------------
(***************************************************************************)
(* PostgreSQL's synchronous replication (replication/syncrep.c, with the   *)
(* parts of walsender.c and xact.c it works with): a backend that has      *)
(* committed waits in a queue ordered by LSN until the walsender of the    *)
(* synchronous standby has heard that the standby wrote, or flushed, its   *)
(* commit record.                                                          *)
(*                                                                         *)
(* An LSN is the number of commit records up to it; 0 is invalid.  A       *)
(* section under SyncRepLock is one step except SyncRepWakeQueue, whose    *)
(* three writes per backend other backends see without the lock.           *)
(***************************************************************************)
EXTENDS Integers, Sequences

CONSTANTS
  Backend,          \* user backends
  Standby,          \* standby servers, each served by the walsender of its name
  Checkpointer,
  MaxWalSenders,    \* max_wal_senders
  Configs,          \* values of synchronous_standby_names: sequences of names
  CommitModes,      \* the settings of synchronous_commit in use
  MaxLSN,           \* bound: commits
  MaxReloads,       \* bound: changes of the configuration
  MaxOutages,       \* bound: connections lost
  MaxSignals,       \* bound: terminate and cancel requests
  PostmasterMayDie,
  NULL

SYNC_REP_NO_WAIT == "NO_WAIT"
SYNC_REP_WAIT_WRITE == "WRITE"
SYNC_REP_WAIT_FLUSH == "FLUSH"
Mode == {SYNC_REP_WAIT_WRITE, SYNC_REP_WAIT_FLUSH}
Slot == 1..MaxWalSenders
Waker == Standby \cup {Checkpointer}
Process == Backend \cup Waker

ASSUME ConfigAssumption ==
  /\ MaxWalSenders \in Nat /\ CommitModes \subseteq Mode \cup {SYNC_REP_NO_WAIT}
  /\ \A c \in Configs : c \in Seq(Standby \cup {"*"})
  /\ Checkpointer \notin Backend \cup Standby /\ Backend \cap Standby = {}
  /\ NULL \notin Process

VARIABLES
  \* struct WalSndCtlData
  sync_standbys_defined,
  lsn,            \* mode -> how far waiters have been released
  SyncRepQueue,   \* mode -> the backends that wait, by LSN
  walsnds,        \* slot -> struct WalSnd
  \* struct PGPROC of the backends
  waitLSN, syncRepState, procLatch,
  \* a process
  SyncRepLock,    \* its exclusive holder, NULL if it is free
  at,             \* where each process is
  names,          \* synchronous_standby_names in the configuration file
  conf,           \* process -> the value it has loaded
  \* local to a backend
  mode, XactCommitLSN, ProcDiePending, QueryCancelPending,
  \* local to a walsender or to the checkpointer
  MyWalSnd,       \* standby -> its slot, 0 if it is not connected
  todo,           \* the queues it has to wake
  thisproc,       \* the backend it is waking
  \* WAL and the standbys
  flushedUpto,    \* the end of the WAL on the primary
  received, flushed,          \* standby -> WAL written, and flushed
  PostmasterIsAlive,
  \* history
  reloads, outages, signals,  \* used up of the bounds
  written,        \* standby -> the furthest it ever wrote
  outcome,        \* how the client was told about the last commit
  excused         \* the server did not ask for a standby during that commit

shmemVars == <<sync_standbys_defined, lsn, SyncRepQueue>>
procVars == <<waitLSN, syncRepState, procLatch>>
configVars == <<names, conf>>
xactVars == <<mode, XactCommitLSN>>
interruptVars == <<ProcDiePending, QueryCancelPending>>
wakeVars == <<todo, thisproc>>
standbyVars == <<received, flushed, written>>
boundVars == <<reloads, outages, signals>>
ackVars == <<outcome, excused>>
vars == <<shmemVars, walsnds, procVars, SyncRepLock, at, configVars, xactVars,
          interruptVars, MyWalSnd, wakeVars, flushedUpto, standbyVars,
          PostmasterIsAlive, boundVars, ackVars>>

\* WalSndShmemInit; the checkpointer has not started yet.
Init ==
  /\ sync_standbys_defined = FALSE
  /\ lsn = [m \in Mode |-> 0]
  /\ SyncRepQueue = [m \in Mode |-> <<>>]
  /\ walsnds = [i \in Slot |-> [pid |-> NULL, state |-> "STARTUP", sync_standby_priority |-> 0,
                                sentPtr |-> 0, write |-> 0, flush |-> 0]]
  /\ waitLSN = [p \in Backend |-> 0]
  /\ syncRepState = [p \in Backend |-> "NOT_WAITING"]
  /\ procLatch = [p \in Backend |-> FALSE]
  /\ SyncRepLock = NULL
  /\ at = [x \in Process |-> IF x \in Backend THEN "idle" ELSE IF x \in Standby THEN "down" ELSE "update"]
  /\ names \in Configs /\ conf = [x \in Process |-> names]
  /\ mode = [p \in Backend |-> SYNC_REP_NO_WAIT]
  /\ XactCommitLSN = [p \in Backend |-> 0]
  /\ ProcDiePending = [p \in Backend |-> FALSE] /\ QueryCancelPending = [p \in Backend |-> FALSE]
  /\ MyWalSnd = [s \in Standby |-> 0]
  /\ todo = [w \in Waker |-> <<>>] /\ thisproc = [w \in Waker |-> NULL]
  /\ flushedUpto = 0
  /\ received = [s \in Standby |-> 0] /\ flushed = [s \in Standby |-> 0]
  /\ written = [s \in Standby |-> 0]
  /\ PostmasterIsAlive = TRUE
  /\ reloads = 0 /\ outages = 0 /\ signals = 0
  /\ outcome = [p \in Backend |-> "none"] /\ excused = [p \in Backend |-> FALSE]

Goto(x, place) == at' = [at EXCEPT ![x] = place]
Free == SyncRepLock = NULL
Detached(p) == \A m \in Mode : \A i \in DOMAIN SyncRepQueue[m] : SyncRepQueue[m][i] # p

\* SHMQueueDelete: the backend goes, wherever it is.
Without(q, p) ==
  IF \E i \in DOMAIN q : q[i] = p
  THEN LET i == CHOOSE i \in DOMAIN q : q[i] = p
       IN SubSeq(q, 1, i - 1) \o SubSeq(q, i + 1, Len(q))
  ELSE q

Delete(p) == [m \in Mode |-> Without(SyncRepQueue[m], p)]
-----------------------------------------------------------------------------
(* User backends.                                                          *)

\* A transaction has written and flushed its commit record and calls
\* SyncRepWaitForLSN, in the mode its setting of synchronous_commit stands for.
Commit(p, m) ==
  /\ at[p] = "idle" /\ ~ProcDiePending[p] /\ flushedUpto < MaxLSN
  /\ flushedUpto' = flushedUpto + 1
  /\ XactCommitLSN' = [XactCommitLSN EXCEPT ![p] = flushedUpto + 1]
  /\ mode' = [mode EXCEPT ![p] = m]
  /\ outcome' = [outcome EXCEPT ![p] = "none"]
  /\ excused' = [excused EXCEPT ![p] = FALSE]
  /\ Goto(p, "commit")
  /\ UNCHANGED <<shmemVars, walsnds, procVars, SyncRepLock, configVars, interruptVars,
                 MyWalSnd, wakeVars, standbyVars, PostmasterIsAlive, boundVars>>

Acknowledge(p, how) == outcome' = [outcome EXCEPT ![p] = how]

\* Mutant: the walk from the tail stops at the first waiter.
InsertionPointTail(q, l) == Len(q)

\* Start at the tail and work back to the waiter to go after.
InsertionPoint(q, l) ==
  CHOOSE k \in 0..Len(q) :
    /\ k > 0 => waitLSN[q[k]] < l
    /\ \A j \in (k + 1)..Len(q) : waitLSN[q[j]] >= l

SyncRepQueueInsert(p, m) ==
  LET q == SyncRepQueue[m]
      k == InsertionPoint(q, XactCommitLSN[p])
  IN SyncRepQueue' = [SyncRepQueue EXCEPT ![m] = SubSeq(q, 1, k) \o <<p>> \o SubSeq(q, k + 1, Len(q))]

\* Mutant: the interlock with the checkpointer is missing.
NoNeedToWaitUnlocked(p) == XactCommitLSN[p] <= lsn[mode[p]]

\* Nobody is to be waited for, or the standby has already replied.
NoNeedToWait(p) == ~sync_standbys_defined \/ XactCommitLSN[p] <= lsn[mode[p]]

\* SyncRepWaitForLSN up to the wait loop.
SyncRepWaitForLSN(p) ==
  /\ at[p] = "commit"
  /\ \/ /\ mode[p] = SYNC_REP_NO_WAIT \/ conf[p] = <<>>
        /\ Acknowledge(p, "acked")
        /\ excused' = [excused EXCEPT ![p] = TRUE]
        /\ Goto(p, "idle")
        /\ UNCHANGED <<SyncRepQueue, waitLSN, syncRepState>>
     \/ /\ mode[p] # SYNC_REP_NO_WAIT /\ conf[p] # <<>> /\ Free
        /\ excused' = [excused EXCEPT ![p] = @ \/ ~sync_standbys_defined]
        /\ IF NoNeedToWait(p)
           THEN /\ Acknowledge(p, "acked")
                /\ Goto(p, "idle")
                /\ UNCHANGED <<SyncRepQueue, waitLSN, syncRepState>>
           ELSE /\ waitLSN' = [waitLSN EXCEPT ![p] = XactCommitLSN[p]]
                /\ syncRepState' = [syncRepState EXCEPT ![p] = "WAITING"]
                /\ SyncRepQueueInsert(p, mode[p])
                /\ Goto(p, "reset")
                /\ UNCHANGED outcome
  /\ UNCHANGED <<sync_standbys_defined, lsn, walsnds, procLatch, SyncRepLock, configVars,
                 xactVars, interruptVars, MyWalSnd, wakeVars, flushedUpto, standbyVars,
                 PostmasterIsAlive, boundVars>>

backendLoopUnchanged ==
  <<sync_standbys_defined, lsn, walsnds, SyncRepLock, configVars, xactVars, MyWalSnd,
    wakeVars, flushedUpto, standbyVars, boundVars, excused>>

\* Mutant: the latch is reset once the state has been looked at.
TestThenReset(p) ==
  \/ /\ at[p] = "reset" /\ (syncRepState[p] = "WAITING" => Free)
     /\ Goto(p, IF syncRepState[p] = "WAIT_COMPLETE" THEN "leave" ELSE "test")
     /\ UNCHANGED procLatch
  \/ /\ at[p] = "test"
     /\ procLatch' = [procLatch EXCEPT ![p] = FALSE]
     /\ Goto(p, "interrupts")

\* Reset the latch, then look at the state: without the lock, and again with
\* it if the wait seems to go on.
ResetThenTest(p) ==
  \/ /\ at[p] = "reset"
     /\ procLatch' = [procLatch EXCEPT ![p] = FALSE]
     /\ Goto(p, "test")
  \/ /\ at[p] = "test" /\ (syncRepState[p] = "WAITING" => Free)
     /\ Goto(p, IF syncRepState[p] = "WAIT_COMPLETE" THEN "leave" ELSE "interrupts")
     /\ UNCHANGED procLatch

LookAtState(p) ==
  /\ ResetThenTest(p)
  /\ UNCHANGED <<backendLoopUnchanged, SyncRepQueue, waitLSN, syncRepState, interruptVars,
                 PostmasterIsAlive, outcome>>

\* The rest of the round: terminated, canceled, orphaned, or to sleep.
CheckInterrupts(p) ==
  /\ at[p] = "interrupts"
  /\ \/ /\ ProcDiePending[p]
        /\ Acknowledge(p, "terminated") /\ Goto(p, "cancel")
        /\ UNCHANGED interruptVars
     \/ /\ ~ProcDiePending[p] /\ QueryCancelPending[p]
        /\ QueryCancelPending' = [QueryCancelPending EXCEPT ![p] = FALSE]
        /\ Acknowledge(p, "warned") /\ Goto(p, "cancel")
        /\ UNCHANGED ProcDiePending
     \/ /\ ~ProcDiePending[p] /\ ~QueryCancelPending[p] /\ ~PostmasterIsAlive
        /\ ProcDiePending' = [ProcDiePending EXCEPT ![p] = TRUE]
        /\ Acknowledge(p, "terminated") /\ Goto(p, "cancel")
        /\ UNCHANGED QueryCancelPending
     \/ /\ ~ProcDiePending[p] /\ ~QueryCancelPending[p] /\ PostmasterIsAlive
        /\ Goto(p, "wait")
        /\ UNCHANGED <<interruptVars, outcome>>
  /\ UNCHANGED <<backendLoopUnchanged, SyncRepQueue, procVars, PostmasterIsAlive>>

WaitLatch(p) ==
  /\ at[p] = "wait" /\ (procLatch[p] \/ ~PostmasterIsAlive)
  /\ Goto(p, "reset")
  /\ UNCHANGED <<backendLoopUnchanged, SyncRepQueue, procVars, interruptVars,
                 PostmasterIsAlive, outcome>>

\* Mutant: a canceled wait leaves its queue entry behind.
CancelDeleteNothing(p) == SyncRepQueue

\* Off the queue, unless a walsender was faster.
CancelDelete(p) == Delete(p)

SyncRepCancelWait(p) ==
  /\ at[p] = "cancel" /\ Free
  /\ SyncRepQueue' = CancelDelete(p)
  /\ syncRepState' = [syncRepState EXCEPT ![p] = "NOT_WAITING"]
  /\ Goto(p, "leave")
  /\ UNCHANGED <<backendLoopUnchanged, waitLSN, procLatch, interruptVars,
                 PostmasterIsAlive, outcome>>

\* The end of SyncRepWaitForLSN: the client hears of the commit, unless it has
\* been disconnected.  A cancel request that came too late is dropped.
Leave(p) ==
  /\ at[p] = "leave"
  /\ syncRepState' = [syncRepState EXCEPT ![p] = "NOT_WAITING"]
  /\ waitLSN' = [waitLSN EXCEPT ![p] = 0]
  /\ QueryCancelPending' = [QueryCancelPending EXCEPT ![p] = FALSE]
  /\ outcome' = [outcome EXCEPT ![p] = IF @ = "none" THEN "acked" ELSE @]
  /\ Goto(p, "idle")
  /\ UNCHANGED <<backendLoopUnchanged, SyncRepQueue, procLatch, ProcDiePending, PostmasterIsAlive>>

\* SyncRepCleanupAtProcExit: the test is made without the lock.
SyncRepCleanupAtProcExit(p) ==
  /\ at[p] = "idle"
  /\ Goto(p, IF Detached(p) THEN "gone" ELSE "exit")
  /\ UNCHANGED <<backendLoopUnchanged, SyncRepQueue, procVars, interruptVars,
                 PostmasterIsAlive, outcome>>

\* ... and SHMQueueDelete needs links to follow.
DeleteAtProcExit(p) ==
  /\ at[p] = "exit" /\ Free
  /\ SyncRepQueue' = Delete(p)
  /\ Goto(p, IF Detached(p) THEN "crashed" ELSE "gone")
  /\ UNCHANGED <<backendLoopUnchanged, procVars, interruptVars, PostmasterIsAlive, outcome>>

\* die and StatementCancelHandler, while interrupts are held off for the commit.
Committing(p) == at[p] \notin {"idle", "exit", "gone", "crashed"}

Interrupt(p) ==
  /\ Committing(p) /\ signals < MaxSignals /\ signals' = signals + 1
  /\ \/ /\ ProcDiePending' = [ProcDiePending EXCEPT ![p] = TRUE]
        /\ UNCHANGED QueryCancelPending
     \/ /\ QueryCancelPending' = [QueryCancelPending EXCEPT ![p] = TRUE]
        /\ UNCHANGED ProcDiePending
  /\ procLatch' = [procLatch EXCEPT ![p] = TRUE]
  /\ UNCHANGED <<shmemVars, walsnds, waitLSN, syncRepState, SyncRepLock, at, configVars,
                 xactVars, MyWalSnd, wakeVars, flushedUpto, standbyVars, PostmasterIsAlive,
                 reloads, outages, ackVars>>
-----------------------------------------------------------------------------
(* Walsenders and their standbys.                                          *)

MyWal(s) == walsnds[MyWalSnd[s]]
SetMyWal(s, r) == walsnds' = [walsnds EXCEPT ![MyWalSnd[s]] = r]
walUnchanged ==
  <<shmemVars, procVars, SyncRepLock, names, xactVars, interruptVars, wakeVars,
    flushedUpto, PostmasterIsAlive, ackVars>>

\* InitWalSenderSlot: the first free slot; write, flush and priority in it are
\* those of its previous owner.  The new process has the current configuration.
InitWalSenderSlot(s) ==
  /\ at[s] = "down" /\ PostmasterIsAlive
  /\ \E i \in Slot :
       /\ walsnds[i].pid = NULL /\ \A j \in 1..(i - 1) : walsnds[j].pid # NULL
       /\ walsnds' = [walsnds EXCEPT ![i].pid = s, ![i].sentPtr = 0, ![i].state = "STARTUP"]
       /\ MyWalSnd' = [MyWalSnd EXCEPT ![s] = i]
  /\ conf' = [conf EXCEPT ![s] = names]
  /\ Goto(s, "startup")
  /\ UNCHANGED <<walUnchanged, standbyVars, boundVars>>

\* The places of a standby on the list.
Fits(s, c) == {i \in DOMAIN c : c[i] = s \/ c[i] = "*"}

\* Mutant: a standby that is not on the list gets a priority all the same.
PriorityOffByOne(s, c) ==
  IF Fits(s, c) = {} THEN -1 ELSE (CHOOSE i \in Fits(s, c) : \A j \in Fits(s, c) : i <= j) - 1

\* The first of them, 0 if it is not on the list.
SyncRepGetStandbyPriority(s, c) ==
  IF Fits(s, c) = {} THEN 0 ELSE CHOOSE i \in Fits(s, c) : \A j \in Fits(s, c) : i <= j

\* The lock is only taken to change the priority.
LockForPriority(s, c) == MyWal(s).sync_standby_priority # SyncRepGetStandbyPriority(s, c) => Free

\* StartReplication from where the standby is, with SyncRepInitConfig.
StartReplication(s) ==
  /\ at[s] = "startup" /\ LockForPriority(s, conf[s])
  /\ SetMyWal(s, [MyWal(s) EXCEPT !.state = "CATCHUP", !.sentPtr = received[s],
                    !.sync_standby_priority = SyncRepGetStandbyPriority(s, conf[s])])
  /\ Goto(s, "loop")
  /\ UNCHANGED <<walUnchanged, conf, MyWalSnd, standbyVars, boundVars>>

\* SIGHUP in WalSndLoop: SyncRepInitConfig.
SyncRepInitConfig(s) ==
  /\ at[s] = "loop" /\ conf[s] # names /\ LockForPriority(s, names) /\ PostmasterIsAlive
  /\ conf' = [conf EXCEPT ![s] = names]
  /\ SetMyWal(s, [MyWal(s) EXCEPT !.sync_standby_priority = SyncRepGetStandbyPriority(s, names)])
  /\ UNCHANGED <<walUnchanged, at, MyWalSnd, standbyVars, boundVars>>

\* WalSndLoop: send WAL; a standby to which everything has been sent is caught up.
XLogSendPhysical(s) ==
  /\ at[s] = "loop" /\ PostmasterIsAlive
  /\ \E k \in MyWal(s).sentPtr..flushedUpto :
       SetMyWal(s, [MyWal(s) EXCEPT !.sentPtr = k,
                      !.state = IF @ = "CATCHUP" /\ k = flushedUpto THEN "STREAMING" ELSE @])
  /\ walsnds' # walsnds
  /\ UNCHANGED <<walUnchanged, conf, at, MyWalSnd, standbyVars, boundVars>>

\* The standby writes what was sent, and flushes it.
Receive(s) ==
  /\ MyWalSnd[s] # 0 /\ received[s] < MyWal(s).sentPtr
  /\ received' = [received EXCEPT ![s] = @ + 1]
  /\ written' = [written EXCEPT ![s] = IF @ < received[s] + 1 THEN received[s] + 1 ELSE @]
  /\ UNCHANGED <<walUnchanged, walsnds, at, conf, MyWalSnd, flushed, boundVars>>

Flush(s) ==
  /\ flushed[s] < received[s]
  /\ flushed' = [flushed EXCEPT ![s] = received[s]]
  /\ UNCHANGED <<walUnchanged, walsnds, at, conf, MyWalSnd, received, written, boundVars>>

\* ProcessStandbyReplyMessage up to SyncRepReleaseWaiters.  The reply has the
\* standby's positions: one that took its time is from a standby that was slower.
ProcessStandbyReplyMessage(s) ==
  /\ at[s] = "loop" /\ PostmasterIsAlive
  /\ SetMyWal(s, [MyWal(s) EXCEPT !.write = received[s], !.flush = flushed[s]])
  /\ Goto(s, "release")
  /\ UNCHANGED <<walUnchanged, conf, MyWalSnd, standbyVars, boundVars>>

Candidate(i) ==
  /\ walsnds[i].pid # NULL /\ walsnds[i].state = "STREAMING"
  /\ walsnds[i].sync_standby_priority > 0 /\ walsnds[i].flush # 0

\* The candidate of the highest priority, the first of them.
SyncStandby(i) ==
  /\ Candidate(i)
  /\ \A j \in Slot : Candidate(j) =>
       \/ walsnds[i].sync_standby_priority < walsnds[j].sync_standby_priority
       \/ walsnds[i].sync_standby_priority = walsnds[j].sync_standby_priority /\ i <= j

\* Mutant: the positions are taken the wrong way round.
PositionSwapped(s, m) == IF m = SYNC_REP_WAIT_WRITE THEN MyWal(s).flush ELSE MyWal(s).write

Position(s, m) == IF m = SYNC_REP_WAIT_WRITE THEN MyWal(s).write ELSE MyWal(s).flush

\* The queue to wake if the standby is ahead of what has been confirmed.
Advanced(s, m) == IF lsn[m] < Position(s, m) THEN <<m>> ELSE <<>>

\* Keep the lock as long as there is a queue to wake.
StartWaking(w) ==
  IF todo'[w] = <<>> THEN Goto(w, "loop") /\ UNCHANGED SyncRepLock
                     ELSE Goto(w, "wake") /\ SyncRepLock' = w

\* SyncRepReleaseWaiters: take the lock and set the positions.  They are looked
\* at under the lock only, so both may be set before the first queue is woken.
SyncRepReleaseWaiters(s) ==
  /\ at[s] = "release"
  /\ \/ /\ MyWal(s).sync_standby_priority = 0 \/ MyWal(s).state # "STREAMING" \/ MyWal(s).flush = 0
        /\ Goto(s, "loop")
        /\ UNCHANGED <<lsn, SyncRepLock, todo>>
     \/ /\ Candidate(MyWalSnd[s]) /\ Free
        /\ \/ /\ ~SyncStandby(MyWalSnd[s])
              /\ Goto(s, "loop")
              /\ UNCHANGED <<lsn, SyncRepLock, todo>>
           \/ /\ SyncStandby(MyWalSnd[s])
              /\ lsn' = [m \in Mode |-> IF lsn[m] < Position(s, m) THEN Position(s, m) ELSE lsn[m]]
              /\ todo' = [todo EXCEPT ![s] =
                   Advanced(s, SYNC_REP_WAIT_WRITE) \o Advanced(s, SYNC_REP_WAIT_FLUSH)]
              /\ StartWaking(s)
  /\ UNCHANGED <<sync_standbys_defined, SyncRepQueue, walsnds, procVars, configVars, xactVars,
                 interruptVars, MyWalSnd, thisproc, flushedUpto, standbyVars,
                 PostmasterIsAlive, boundVars, ackVars>>

\* WalSndKill; the standby may have crashed and lost what it had not flushed.
WalSndKill(s) ==
  /\ at[s] \in {"startup", "loop"} /\ outages < MaxOutages
  /\ outages' = outages + 1
  /\ SetMyWal(s, [MyWal(s) EXCEPT !.pid = NULL])
  /\ MyWalSnd' = [MyWalSnd EXCEPT ![s] = 0]
  /\ \E k \in {received[s], flushed[s]} : received' = [received EXCEPT ![s] = k]
  /\ Goto(s, "down")
  /\ UNCHANGED <<walUnchanged, conf, flushed, written, reloads, signals>>
-----------------------------------------------------------------------------
(* SyncRepWakeQueue, under SyncRepLock.                                    *)

wakeUnchanged ==
  <<sync_standbys_defined, lsn, walsnds, waitLSN, configVars, xactVars, interruptVars,
    MyWalSnd, flushedUpto, standbyVars, PostmasterIsAlive, boundVars, ackVars>>

\* Mutant: a waiter is confirmed one record early.
WakesEarly(all, m, p) == all \/ lsn[m] + 1 >= waitLSN[p]

\* The walk stops at the first backend whose LSN is not confirmed.
Wakes(all, m, p) == all \/ lsn[m] >= waitLSN[p]

\* The next backend to wake: mark it, before it is taken off the queue.
SyncRepWakeQueue(w) ==
  /\ at[w] = "wake"
  /\ \/ /\ todo[w] = <<>>
        /\ SyncRepLock' = NULL
        /\ Goto(w, "loop")
        /\ UNCHANGED <<syncRepState, wakeVars>>
     \/ /\ todo[w] # <<>>
        /\ LET q == SyncRepQueue[Head(todo[w])] IN
           IF q # <<>> /\ Wakes(w = Checkpointer, Head(todo[w]), q[1])
           THEN /\ syncRepState' = [syncRepState EXCEPT ![q[1]] = "WAIT_COMPLETE"]
                /\ thisproc' = [thisproc EXCEPT ![w] = q[1]]
                /\ Goto(w, "delete")
                /\ UNCHANGED todo
           ELSE /\ todo' = [todo EXCEPT ![w] = Tail(@)]
                /\ UNCHANGED <<syncRepState, thisproc, at>>
        /\ UNCHANGED SyncRepLock
  /\ UNCHANGED <<wakeUnchanged, SyncRepQueue, procLatch>>

WakeDelete(w) ==
  /\ at[w] = "delete"
  /\ SyncRepQueue' = Delete(thisproc[w])
  /\ Goto(w, "latch")
  /\ UNCHANGED <<wakeUnchanged, syncRepState, procLatch, SyncRepLock, wakeVars>>

WakeSetLatch(w) ==
  /\ at[w] = "latch"
  /\ procLatch' = [procLatch EXCEPT ![thisproc[w]] = TRUE]
  /\ thisproc' = [thisproc EXCEPT ![w] = NULL]
  /\ Goto(w, "wake")
  /\ UNCHANGED <<wakeUnchanged, SyncRepQueue, syncRepState, SyncRepLock, todo>>
-----------------------------------------------------------------------------
(* Configuration.                                                          *)

\* The administrator edits synchronous_standby_names.
Reconfigure(c) ==
  /\ c # names /\ reloads < MaxReloads
  /\ names' = c /\ reloads' = reloads + 1
  /\ UNCHANGED <<shmemVars, walsnds, procVars, SyncRepLock, at, conf, xactVars, interruptVars,
                 MyWalSnd, wakeVars, flushedUpto, standbyVars, PostmasterIsAlive,
                 outages, signals, ackVars>>

\* SIGHUP in a backend between commands, and in the checkpointer's loop.
ProcessConfigFile(x) ==
  /\ conf[x] # names /\ conf' = [conf EXCEPT ![x] = names]
  /\ \/ x \in Backend /\ at[x] = "idle" /\ UNCHANGED at
     \/ x = Checkpointer /\ at[x] = "loop" /\ PostmasterIsAlive /\ Goto(x, "update")
  /\ UNCHANGED <<shmemVars, walsnds, procVars, SyncRepLock, names, xactVars, interruptVars,
                 MyWalSnd, wakeVars, flushedUpto, standbyVars, PostmasterIsAlive,
                 boundVars, ackVars>>

\* Mutant: the flag goes down and nobody is woken.
WakeNobody(defined) == <<>>

\* Names reset to empty: it is futile for anybody to go on waiting.
QueuesToWake(defined) == IF defined THEN <<>> ELSE <<SYNC_REP_WAIT_WRITE, SYNC_REP_WAIT_FLUSH>>

\* SyncRepUpdateSyncStandbysDefined: the flag, looked at under the lock only, may
\* be set before the queues are woken.
SyncRepUpdateSyncStandbysDefined ==
  LET defined == conf[Checkpointer] # <<>> IN
  /\ at[Checkpointer] = "update"
  /\ \/ /\ defined = sync_standbys_defined
        /\ Goto(Checkpointer, "loop")
        /\ UNCHANGED <<sync_standbys_defined, todo, SyncRepLock, excused>>
     \/ /\ defined # sync_standbys_defined /\ Free
        /\ sync_standbys_defined' = defined
        /\ todo' = [todo EXCEPT ![Checkpointer] = QueuesToWake(defined)]
        /\ StartWaking(Checkpointer)
        /\ excused' = [p \in Backend |-> excused[p] \/ (Committing(p) /\ ~defined)]
  /\ UNCHANGED <<lsn, SyncRepQueue, walsnds, procVars, configVars, xactVars, interruptVars,
                 MyWalSnd, thisproc, flushedUpto, standbyVars, PostmasterIsAlive, boundVars,
                 outcome>>

PostmasterDeath ==
  /\ PostmasterMayDie /\ PostmasterIsAlive /\ PostmasterIsAlive' = FALSE
  /\ UNCHANGED <<shmemVars, walsnds, procVars, SyncRepLock, at, configVars, xactVars,
                 interruptVars, MyWalSnd, wakeVars, flushedUpto, standbyVars, boundVars, ackVars>>

\* The postmaster is gone, and so are the backends.
Orphaned ==
  /\ ~PostmasterIsAlive /\ \A p \in Backend : at[p] \in {"gone", "crashed"}
  /\ UNCHANGED vars
-----------------------------------------------------------------------------
\* The wait loop and the way out of it.
Wait(p) ==
  \/ SyncRepWaitForLSN(p) \/ LookAtState(p) \/ CheckInterrupts(p) \/ WaitLatch(p)
  \/ SyncRepCancelWait(p) \/ Leave(p) \/ DeleteAtProcExit(p)

Wake(w) == SyncRepWakeQueue(w) \/ WakeDelete(w) \/ WakeSetLatch(w)

Stream(s) ==
  \/ InitWalSenderSlot(s) \/ StartReplication(s) \/ SyncRepInitConfig(s) \/ XLogSendPhysical(s)
  \/ ProcessStandbyReplyMessage(s) \/ SyncRepReleaseWaiters(s)

Next ==
  \/ \E p \in Backend :
       \/ \E m \in CommitModes : Commit(p, m)
       \/ Wait(p) \/ Interrupt(p) \/ SyncRepCleanupAtProcExit(p)
  \/ \E s \in Standby : Stream(s) \/ Receive(s) \/ Flush(s) \/ WalSndKill(s)
  \/ \E w \in Waker : Wake(w)
  \/ \E c \in Configs : Reconfigure(c)
  \/ \E x \in Process : ProcessConfigFile(x)
  \/ SyncRepUpdateSyncStandbysDefined
  \/ PostmasterDeath \/ Orphaned

Spec == Init /\ [][Next]_vars

\* Every process goes on, every standby reconnects, writes, flushes and reports.
\* Each turn of WalSndLoop looks for SIGHUP and sends WAL besides handling replies.
FairSpec ==
  /\ Spec
  /\ \A p \in Backend : WF_vars(Wait(p))
  /\ \A w \in Waker : WF_vars(Wake(w))
  /\ \A s \in Standby :
       /\ WF_vars(InitWalSenderSlot(s)) /\ WF_vars(StartReplication(s))
       /\ SF_vars(SyncRepInitConfig(s)) /\ SF_vars(XLogSendPhysical(s))
       /\ WF_vars(ProcessStandbyReplyMessage(s)) /\ WF_vars(SyncRepReleaseWaiters(s))
       /\ WF_vars(Receive(s)) /\ WF_vars(Flush(s))
  /\ WF_vars(ProcessConfigFile(Checkpointer)) /\ WF_vars(SyncRepUpdateSyncStandbysDefined)
-----------------------------------------------------------------------------
(* Properties.                                                             *)

\* Every variable has its type.
TypeOK ==
  /\ sync_standbys_defined \in BOOLEAN
  /\ lsn \in [Mode -> Nat]
  /\ SyncRepQueue \in [Mode -> Seq(Backend)]
  /\ walsnds \in [Slot -> [pid : Standby \cup {NULL}, state : {"STARTUP", "CATCHUP", "STREAMING"},
                           sync_standby_priority : Nat, sentPtr : Nat, write : Nat, flush : Nat]]
  /\ waitLSN \in [Backend -> Nat]
  /\ syncRepState \in [Backend -> {"NOT_WAITING", "WAITING", "WAIT_COMPLETE"}]
  /\ procLatch \in [Backend -> BOOLEAN]
  /\ SyncRepLock \in Waker \cup {NULL}
  /\ at \in [Process -> {"idle", "commit", "reset", "test", "interrupts", "wait", "cancel",
                         "leave", "exit", "gone", "crashed", "down", "startup", "loop",
                         "release", "update", "wake", "delete", "latch"}]
  /\ names \in Configs /\ conf \in [Process -> Configs]
  /\ mode \in [Backend -> Mode \cup {SYNC_REP_NO_WAIT}]
  /\ XactCommitLSN \in [Backend -> Nat]
  /\ ProcDiePending \in [Backend -> BOOLEAN] /\ QueryCancelPending \in [Backend -> BOOLEAN]
  /\ MyWalSnd \in [Standby -> {0} \cup Slot]
  /\ todo \in [Waker -> Seq(Mode)] /\ thisproc \in [Waker -> Backend \cup {NULL}]
  /\ flushedUpto \in Nat
  /\ received \in [Standby -> Nat] /\ flushed \in [Standby -> Nat] /\ written \in [Standby -> Nat]
  /\ PostmasterIsAlive \in BOOLEAN
  /\ reloads \in Nat /\ outages \in Nat /\ signals \in Nat
  /\ outcome \in [Backend -> {"none", "acked", "warned", "terminated"}]
  /\ excused \in [Backend -> BOOLEAN]

\* SyncRepQueueIsOrderedByLSN, and everybody on a queue still has to wait: no
\* backend is left behind whose LSN was confirmed before it came or while it was
\* queued, and none while no standby is asked for.
QueuesRight ==
  Free => \A m \in Mode :
    LET q == SyncRepQueue[m] IN
    /\ \A i \in DOMAIN q : waitLSN[q[i]] > lsn[m]
    /\ \A i, j \in DOMAIN q : i < j => waitLSN[q[i]] < waitLSN[q[j]]
    /\ q # <<>> => sync_standbys_defined

\* A backend that is not waiting is on no queue, so that it may queue up again,
\* however its last wait ended.
NoStrayEntry ==
  Free => \A p \in Backend :
    at[p] \in {"idle", "commit", "gone"} => Detached(p) /\ syncRepState[p] = "NOT_WAITING"

\* A backend asleep on its latch has nothing to do: every change that should end
\* the wait set the latch after the backend's last look, or is about to.
NoMissedWakeup ==
  \A p \in Backend : at[p] = "wait" /\ ~procLatch[p] =>
    /\ ~ProcDiePending[p] /\ ~QueryCancelPending[p]
    /\ syncRepState[p] = "WAIT_COMPLETE" => \E w \in Waker : thisproc[w] = p

\* The standbys that may count as synchronous.
Named == {s \in Standby : \E c \in Configs : SyncRepGetStandbyPriority(s, c) > 0}
Replicated(l, m) ==
  \E s \in Named : IF m = SYNC_REP_WAIT_WRITE THEN written[s] >= l ELSE flushed[s] >= l

\* A commit acknowledged without a warning is on some synchronous standby, in the
\* way the client asked for, whatever standbys came and went; unless the server
\* or the client's session had none to ask for during the commit.
AckReplicated ==
  \A p \in Backend :
    outcome[p] = "acked" /\ ~excused[p] => Replicated(XactCommitLSN[p], mode[p])

\* Nobody waits forever, as long as every configuration names a standby that
\* comes back, or none.
EveryWaitEnds == \A p \in Backend : Committing(p) ~> ~Committing(p)

\* SyncRepWaitForLSN's final assertion: whoever leaves has been removed.
DetachedOnLeave == \A p \in Backend : at[p] = "leave" => Detached(p)
=============================================================================

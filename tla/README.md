# Agens-SQL in TLA+

Agens-SQL 1.0 is a distribution of PostgreSQL 9.4.4 with the tools around it:
connection pools (PgBouncer, Pgpool-II), replication and queues (Skytools,
Slony-I), and extensions. This directory models the parts of it whose
correctness depends on the order in which processes act, checks the models with
TLC and proves theorems about them with TLAPS.

`PROJECT.json` holds the same information for tools: components, runs, mutants,
the map from every definition to the source lines it models, findings, hazards
and theorems. All paths below are relative to `src/`.

## 1. Inventory

### PostgreSQL 9.4.4 (`postgresql-9.4.4/src/backend`)

| Component | State | Operations | Hard behaviour | What makes it correct |
|---|---|---|---|---|
| Lightweight locks, `storage/lmgr/lwlock.c` | per lock: counters, wait list, `releaseOK`; per process: wait flags, semaphore; per backend: `held_lwlocks`, the holdoff count | acquire (4 variants), wait for a variable, update it, release, release all | wakeups decided by the releaser and executed after the spinlock is free; a semaphore shared with other waits; errors | mutual exclusion, no lost wakeup, no lost waiter, conserved semaphore, balanced holdoff |
| Invalidation queue, `storage/ipc/sinvaladt.c`, `sinval.c` | a ring of messages with ever-growing counters, a slot per backend | join, leave, insert, get, clean up, receive (recursive) | overflow, wraparound, unlocked flags, recursion, slot reuse | no unread message overwritten or skipped, every receive complete, senders never stuck |
| Synchronous replication, `replication/syncrep.c`, parts of `walsender.c` | wait queues by LSN, walsender slots, released positions | wait, cancel, exit, reply, release waiters, reconfigure | state set and read without the lock, reloads at different times, standbys that come and go | an acknowledged commit is on a synchronous standby, and no commit waits for ever |
| Catchup/notify interrupts, `sinval.c`, `commands/async.c` | two flags per signal | handler, enable, disable | a signal at any instruction | no event forgotten, no re-entry |
| Lock manager, `lock.c`, `proc.c`, `deadlock.c` | lock and holder tables, wait queues; per backend a fast-path array and a table of its own locks; counts of strong lockers | acquire, release, release all, transfer, sleep, wake, clean up, deadlock check | locks moved behind their owner's back, grants racing interrupts, deadlocks hard and soft, one check per wait | no conflict granted, what a backend believes to hold is what it holds, nothing left behind, no idle waiter, no overlooked deadlock, no needless victim |
| Process array, `procarray.c`, `varsup.c` | running xids | assign, end, snapshot | snapshots against commits | snapshots are consistent and monotone |
| WAL, buffers, SLRU, access methods, SSI | pages and logs | — | crash recovery | see section 8 |

The lock module carries the others: `SInval` holds its two LWLocks
through the abstract `RWLock`, which `LWLock` implements.

### Skytools 3.2 (`skytools-3.2/sql`)

| Component | State | Operations | Hard behaviour | What makes it correct |
|---|---|---|---|---|
| PgQ, `pgq/functions`, `pgq/lowlevel` | event tables used in rotation, ticks (snapshots), subscriptions, retry queue | insert event, tick, rotate in two steps, register, next/get/finish batch, retry, move retries | transactions open across ticks and rotations; txids that are assigned late; jobs that die | each consumer gets each event exactly once per request |
| pgqd, `ticker/` | timers and connections | call the maintenance functions | lost connections | none of its own |
| pgq_coop | subconsumers of one subscription | next batch, finish, take over | batches of dead subconsumers | a batch has one owner |
| pgq_node, Londiste | nodes, watermarks | cascade, switch over | several databases | no gap after a switch |

### Pools and others

PgBouncer (`pgbouncer-1.5.5/src`: sockets in state lists, pausing, cancelling,
takeover), Pgpool-II (`pgpool-II-3.4.2/src`: failover, watchdog, query cache),
Slony-I (`slony1-2.2.4/src`: log switching, event processing), PL/Proxy
(`plproxy-2.5/src`: one query on many connections), orafce's pipes and alerts,
and extensions with little state (pg_hint_plan, PoWA, oracle_fdw, pgsmtp).
PostGIS, GEOS, GDAL, PROJ, JSON-C and libevent are third-party libraries;
`agens_windows` is a copy of the sources for Windows; `izpack`, `res` and
`build_Agens_SQL.sh` build the installer.

## 2. Plan

The order follows the dependence of the parts and the weight of what can go
wrong.

1. `RWLock`, `LWLock`: the lock everything else in PostgreSQL stands on. Modelled
   and checked; the refinement and every invariant that a run checks are proved
   (`LWLockProofs`).
2. `SInval` on top of `RWLock`, with the catchup interrupt. Modelled and checked;
   every invariant that a run checks is proved (`SInvalSteps`, `SInvalProofs`).
3. `SyncRep`. Modelled and checked; every invariant that a passing run checks is
   proved (`SyncRepProofs`).
4. `PgQ`. Modelled and checked; every invariant that a passing run checks is
   proved, three of them for behaviours without the races the code does not
   exclude (`PgQProofs`, `PgQDelivery`).
5. `LockTable`, `DeadLock`, `LockManager`: heavyweight locks. Modelled and
   checked; every invariant that a run checks is proved (`LockTableProofs`,
   `LockManagerProofs`).

Not taken up: PgBouncer's pools, cooperative consumers, the process array beyond
what PgQ needs of it, Slony's log switch (section 8).

## 3. Modules

Each component is one module; `MC*` modules only name model values and
symmetry sets; a `.cfg` gives the constants their values. A definition that a
mutant run replaces has its mutated form, marked `Mutant:`, above it.

### LWLock and RWLock

`LWLock` models `lwlock.c`. A section under the lock's spinlock is one step; the
steps are cut where the code works without it: going to sleep on the semaphore,
absorbing signals that were not for the lock, and in the releaser unlinking a
waiter, clearing `lwWaiting` and posting its semaphore, each of them a step. The
wait list is the linked list of the code (`head`, `tail`, `lwWaitLink`), since
its corruption is one of the hazards. `call` stands for the arguments on the C
stack, `pc` for the place. The actions are `LWLockAcquire`,
`LWLockAcquireWithVar`, `LWLockConditionalAcquire`, `LWLockAcquireOrWait`,
`LWLockWaitForVar`, `LWLockUpdateVar`, `LWLockRelease`, `Retry`,
`SemaphoreWait`, `AwakenWaiters`, an `Error` that leads into
`LWLockReleaseAll`, and another subsystem's use of the semaphore
(`ProcSendSignal`, `ProcWaitForSignal`). Callers take locks in an order
(`LockRank`) unless they only try (`LWLockConditionalAcquire`), as PostgreSQL's
do: the module has no deadlock detection because the code has none. `VarLock` are
the locks with a variable, the WAL insertion locks; every variant may be called
on them, though PostgreSQL uses only three. The history variable `mode` records in which mode a lock was
granted, which the code does not.

`RWLock` is what callers rely on: a lock is granted only in a mode compatible
with its holders and given back only by its holder. `LWLock` refines it with
`holds <- mode`.

### SInval

`SInval` models `sinvaladt.c` and the receiving loop of `sinval.c`. A message is
its number in the infinite sequence of messages, so a buffer entry tells which
message it holds; `base` is what wraparound has subtracted. `frames` is the
stack of nested `ReceiveSharedInvalidMessages` calls. The unlocked accesses of
the code (`hasMessages`, the spinlock-protected `maxMsgNum`) are steps of their
own. `MAXNUMMESSAGES` and the other sizes are constants, whose relations the
module assumes.

The catchup interrupt is part of it: `SICleanupQueue` picks a backend,
`SendProcSignal` makes its SIGUSR1 pending, and `HandleCatchupInterrupt` may
find it at any instruction. A backend in `Client` waits for commands
(`PrepareForClientRead`, `EnableLoop`, `ClientReadEnded`); each assignment and
test of the two flags in `EnableCatchupInterrupt`, and in the same loop of the
handler, is a step. The transaction that `ProcessCatchupEvent` starts is the
receive it leads to.

### SyncRep

`SyncRep` models `syncrep.c`, the slots and the reply handling of `walsender.c`
and the checkpointer's reload. An LSN is the number of commit records up to it.
`SyncRepWakeQueue` is cut into its three writes per backend (`SyncRepWakeQueue`,
`WakeDelete`, `WakeSetLatch`), because the backend reads the first of them
without the lock. Standbys write, flush and report on their own; connections are
lost and come back (`WalSndKill`, `InitWalSenderSlot`), a slot keeping what its
previous user left in it. What a standby writes and flushes is `walreceiver.c`,
the commit that waits is `RecordTransactionCommit`, and the signals that end a wait
are those of `tcop/postgres.c`.

### PgQ

`PgQ` models the SQL functions of `pgq` and `insert_event.c` for one queue in a
READ COMMITTED database. Of PostgreSQL's transactions it has what `varsup.c`,
`procarray.c` and `txid.c` tell it: `nextXid`, `latestCompletedXid` and the set of
running txids determine `Snapshot`, `Visible` is `txid_visible_in_snapshot`,
`Completed` and `Without` are the ends of transactions. Transactions that write
events, ticks or the queue's row are cut where they take a txid or a snapshot,
or read what another may change before they act on it:

| Function | Actions |
|---|---|
| `insert_event_raw` in a producer's transaction | `Begin`, `load_queue_info`, `pgq_insert_event_raw`, `Commit`, `Abort` |
| `ticker` | `ticker_inserts`, `ticker_commits` |
| `maint_rotate_tables_step1`, `_step2` | the action of that name, then `maint_commits` |
| `maint_retry_events` | `..._loads`, `..._moves` per event, `..._commits` |
| `register_consumer`, `register_consumer_at` | `register_consumer_at`, `registered` |
| `unregister_consumer`, `next_batch_custom`, `event_retry`, `batch_retry`, `finish_batch` | one action each |
| `get_batch_events` | `find_batch` (ticks and tables), `get_batch_events` (the query) |
| lost connections | `pgqd_dies`, `consumer_dies` |

`Bare` producers are those whose transaction has no txid before `insert_event`:
`nextval` takes one only when it writes WAL, every 32 values, so the INSERT
does. Other producers, such as a transaction whose triggers queue events, have
one from their first change on.

The ticker does not look at events: it compares the last value of the sequence of
event ids with the one its last tick has noted (`seq_getval`, `NewEvents`). The ids
are taken by whoever inserts, long before a commit shows the events, and a sequence
never used reads as 1, which is also its value after the first id. So the ticker may
see nothing new while a committed event waits for its tick; then only the idle
period brings one. Periods and lags are left out: whatever waits
for an interval may happen at once or never (`IdlePeriodOver`). `find_tick_helper`
then comes down to "any later tick".

### LockTable, DeadLock, LockManager

`LockTable` has what `lock.c` and `ProcLockWakeup` do to one LOCK under its
partition lock, as functions from a LOCK record to a LOCK record: `GrantLock`,
`UnGrantLock`, `CleanUpLock`, `WithoutWaiter` (`RemoveFromWaitQueue`) and so on.
Counts and masks are kept as the code keeps them, since `waitMask` and
`granted` decide whether anybody is woken.

`DeadLock` has the detector: the depth-first search for a cycle through hard and
soft edges, the constraints it tries to reverse, the topological sort of a
queue, and the limits of its workspaces. It is a function of the
tables, recursive by the depth of the search, and run in one step because its
caller holds all partition locks. Its second
part is the reference it is compared with: waits-for edges as a relation, and
all orders of the queues.

`LockManager` has the transactions: `LockAcquire` with the fast path and the
transfer of other backends' locks one by one, `ProcSleep` with its insertion in
front of waiters and its early deadlock, the timer, `CheckDeadLock`,
`LockErrorCleanup`, `LockRelease`, and `LockReleaseAll` in its two passes, over
the backend's own table and then over the partitions. A transaction that fails
releases whatever its PROCLOCKs say (`allLocks`), one that commits what its own
table says. `at` is the place between two locked sections. An entry `locallock`
exists before the lock is held, as in the code, and has `fast` set where the code
has no pointer to the shared LOCK. Errors for want of shared memory may come
in the middle of a transfer; the modes moved so far stay moved. `LockRelease` is
one step, though the code tries the fast path under one lock and goes on under
another: a lock that the try has not found stays in the table, and nobody but its
holder takes the entry away.

## 4. Runs

A passing run explores every reachable state of its instance, between 10^5 and
10^7 of them, in half a minute to three and a half minutes.

| Run | Question | Bounds |
|---|---|---|
| `lwlock_plain` | counters, wait list, wakeups, the lock variable | 3 backends, 1 lock with a variable of 2 values, 2 calls each, array of 1, 1 foreign signal |
| `lwlock_nested` | nested locks, errors, semaphore; refinement of `RWLock`; every call returns | 2 backends, 2 locks, 3 calls each, array of 2, 1 foreign signal, fair |
| `sinval_queue` | ring, overflow, wraparound, recursion, failing callbacks, slots, the unlocked flag | 2 interchangeable backends, ring of 2, 3 messages, batches of 2, 2 receives and their recursion to depth 2 |
| `sinval_interrupts` | signals at any instruction; virtual transaction ids; senders get through, signals are served and passed on | 2 backends, one that waits for a client and one that may be the send-only startup process, 3 messages, fair |
| `syncrep_queue` | order of the queue, cancellation, reconfiguration | 2 backends, 2 commits, 1 reload, 1 signal |
| `syncrep_failover` | two synchronous standbys, one outage, waits for write and for flush | 1 backend, 2 commits, priorities or a tie |
| `syncrep_live_config` | every commit returns, waiting for flush or for nothing | 1 commit, 1 outage, 1 reload, 1 signal, postmaster death, fair |
| `pgq_rotate` | batches across ticks and rotations; every event arrives | 2 producers, 2 transactions, 2 rotations of 3 tables, 1 idle tick, 1 lost connection, fair |
| `pgq_consume` | leaving, coming back, repositioning, retries | 2 transactions, 1 retry, 3 registrations, 1 lost connection, limit 1 |
| `lockmgr_deadlock` | conflicts, fast path, wait queues, interrupts, errors, deadlocks and their resolution | 3 backends with 2, 1 and 2 calls per transaction, a relation and another object, a weak, a middle and the strongest mode, array of 1, one backend that may fail, be interrupted, ask not to wait or run out of memory |

`syncrep_leave` and `pgq_latexid` expect a violation (section 7).

Why the bounds are enough. Three backends are the smallest number with a
releaser, a woken waiter and one that must be woken next. An array
`held_lwlocks` of one is full at the second call, one of two at the third. A
ring of two with three messages overflows and wraps around. Two backends let a
later LSN queue before an earlier one. For the lock manager three backends are the
fewest with a soft deadlock: one that holds, one that waits, and one behind it
whose wait can be reordered. A weak and a strong mode are enough for both kinds
of edge, for a lock upgrade and for the fast path against a strong locker. The
middle mode conflicts with itself and with no weak lock: a backend that waits
for it may keep a weak lock in its array, which a transfer then moves to the
table behind the back of its `heldLocks`, so that `ProcSleep` decides on a stale
copy. A second lock is needed for a circle that is not an upgrade. The backend
that is interrupted holds nothing else; those that hold several locks fail when
they find a deadlock, which takes them through the same clean-up. Transactions
follow one another without a bound. In PgQ three tables are the real number; two
rotations use all of them; `RangeSlack` is 2 instead of 100, so that
transactions are searched both as a range and as a list (a running transaction
is always at least two below xmax).

`CHECK_DEADLOCK FALSE` is set in PgQ's configurations: when the bounded number
of transactions is used up and every consumer has caught up, the queue rests. It
is also set in `lwlock_nested`, where `EveryCallReturns` says more;
`lwlock_plain` checks for deadlock.

Each property of a passing run has a mutant: a plausible wrong form of one
mapped definition under which TLC finds the property violated.

## 5. Fairness

- `LWLock`: weak fairness of each backend inside a lock call, including the
  holder's release. A process that the system schedules goes on; a backend does
  not keep an LWLock for ever.
- `SInval`: weak fairness of a backend inside an insertion, a receive or the
  loop of `EnableCatchupInterrupt`, and of the delivery of a pending signal.
  Nobody is obliged to receive, to wait for a client or to stop waiting.
- `SyncRep`: weak fairness of every process's next step, of the standbys'
  reconnecting, writing, flushing and reporting. Strong fairness of
  `XLogSendPhysical` and `SyncRepInitConfig`: each turn of `WalSndLoop` checks
  for SIGHUP and sends WAL after it has processed replies, so a stream of
  replies cannot keep it from either although it disables them again and again.
- `PgQ`: weak fairness of the ticker while there is a committed event that the last
  tick does not show (`Unshown`: it ticks at the latest after `queue_ticker_max_lag`
  when it sees new ids and after `queue_ticker_idle_period` when it does not), of
  commits of pgqd's transactions, and of a registered consumer's loop. Producers
  may stop at any point, with a transaction open.
- `LockManager` has no fairness: what it must not do for ever (leave a waiter
  idle, overlook a deadlock) is stated as invariants of the state in which it
  would stay. The deadlock detector is an expensive expression, which TLC would
  evaluate again for every `ENABLED`.

## 6. What is proved

All theorems hold for every set of processes, every configuration and every
bound that the named assumptions of the modules allow; three theorems about `PgQ`
have a hypothesis on the behaviour as well, which a fourth discharges. Each safety invariant
comes from an inductive one, a conjunction of named parts that is preserved by
every action; TLC has checked the parts as invariants of the instances of
section 4.

### LWLock (`LWLockProofs`)

About holds, in the first half of the module:

- `Invariance`: `Spec => []LInv`, where `LInv` is `TypeOK`, `CallOK` (the call
  a backend is in has the arguments its place needs), `Ordered` (a backend holds
  each of its locks once and waits for one that ranks above them), `HeldMatch` (`held_lwlocks`
  lists exactly the locks granted) and `MutualExclusion`;
- `TypeCorrect`: `Spec => []TypeOK`;
- `MutualExclusionCorrect`: `Spec => []MutualExclusion`;
- `Refinement`: `Spec => RWSpec`.

`MutualExclusion` alone is not inductive. `LWLockRelease` does not know in which
mode its caller holds the lock and looks at the counter instead; that this is
right depends on the caller being a holder (`HeldMatch`), and that an array
entry stands for one hold depends on no backend holding a lock twice, which
follows from the order in which locks are waited for (`Ordered`) and must be
carried through a sleep (`CallOK`). The proof first shows that every step is one of
three with respect to holds (`HoldStep`: nothing, one grant, one release), and
then preserves the invariant for these three; the refinement uses the same
split.

About the waiters, in the second half:

- `WaitersRight`: `Spec => [](LInv /\ WaitInv)`; from it `NobodyLost`
  (`[]NoWaiterLost`), `WakeupsNotLost` (`[]NoLostWakeup`) and `VarWaitersAwakened`
  (`[]VarWaiterNotStale`);
- `SignalsConserved`: `Spec => []SemaphoreConserved`;
- `HoldoffsBalanced`: `Spec => []HoldoffBalanced`.

The queues are linked lists in the C code and in the model, so that half begins
with lists: from where it starts there is one list at most, it passes nobody twice,
and what putting an element at either end, or cutting the list after its n-th
element, leaves of it and of any list it does not touch. `WaitInv` says

- of the lists (`QueueInv`): `head` and `wakeHead` each start a list (`ListsRight`),
  `tail` is the last one of a queue that is not empty (`TailRight`), backends asleep
  with `lwWaiting` set are exactly those on a list or in the hands of a releaser
  (`SleepersRight`), nobody is in two of these places (`Apart`), a releaser's
  `wakeProc` is off its list (`WakersRight`: the write barrier), `lwWaitMode` is
  what the call asks for (`ModesRight`), and those that wait for the variable are in
  front (`VarWaitersFirst`);
- of wakeups (`WakeupsKept`): a lock whose releases awaken nobody, or that is free
  with somebody queued, has an awakened backend that will try again. It is kept
  because a release clears `releaseOK` only when it detaches such a backend, and
  `Retry` sets it again;
- of the variable (`VarWaitersRight`): whoever waits for it sees the lock held,
  `releaseOK` set and the value it looked at. `LWLockUpdateVar` detaches all of these,
  as they are in front.

`SemaphoreConserved` is inductive given these: a releaser that clears `lwWaiting`
makes a signal due and is going to post it, and it is nobody else's to post
(`Apart`, `SleepersRight`). `HoldoffBalanced` needs that error recovery makes no call
but releases, and that only a release or an update awakens others (`HoldoffRight`).

Assumptions: the set of processes is finite, ranks are natural numbers, `NULL` is no
process, no value and no call.

### SInval (`SInvalSteps`, `SInvalProofs`)

`Invariance` is `Spec => [](Inv /\ VirtualXidUnique)`; from it follow
`TypeCorrect`, `CountersCorrect`, `UnreadIntactCorrect`, `NoGapCorrect`,
`ReceiveCompleteCorrect`, `FlagTellsCorrect`, `VirtualXidUniqueCorrect`,
`NoReentranceCorrect` and `NoSleepCorrect`, one for each invariant the two runs
check.

The properties speak of counters, but what makes a step keep them is where the
other backends are. `Inv` therefore has two halves.

- Control (`SInvalSteps`): who has which slot (`SlotsRight`), which frames of a
  recursive receive are suspended in a callback (`FramesRight`), at which places
  the two locks are held (`LocksRight`), where the handler may work
  (`InterruptsRight`, `NoSleepOnInterrupt`), and that a slot's counter of local
  transaction ids is beyond all that were handed out with it (`LxidsRight`).
- Messages (`SInvalProofs`): the ring holds everything from `minMsgNum` on,
  what has been written and not yet published included (`QueueRight`); what is
  published counts as queued once everyone got the flag (`QueuedRight`); the
  unlocked `maxMsgNum` is not stale as long as the reader has `SInvalReadLock`
  (`FetchRight`); and each frame knows how far its receive has to come
  (`EntriesRight`), which is how a nested receive can do the work of the outer
  one. `NoGap` and `FlagTells` are parts themselves.

That two positions less than the ring's size apart are different entries, and that
wraparound keeps the entry of a position, are lemmas about `%`; the latter needs
the assumption that `MSGNUMWRAPAROUND` is a multiple of `MAXNUMMESSAGES`
(`SizeAssumption`), as the code's comment at the constant asks.

### SyncRep (`SyncRepProofs`)

`Invariance` is `Spec => []Inv`; from it follow `TypeCorrect`,
`AckReplicatedCorrect`, `QueuesRightCorrect`, `NoStrayEntryCorrect` and
`NoMissedWakeupCorrect`.

A walsender marks a backend complete, takes it off the queue and sets its latch
in three writes, and the backend, which reads the first without the lock, may have
gone on and even committed again before the others come. `Inv` says

- what every place means: for a backend (`PlacesRight`, `StatesRight`), for the
  holder of `SyncRepLock` (`LockRight`), for a walsender and its slot (`SlotsRight`);
- why a backend may be marked: its position was confirmed, or nobody is asked for
  (`CompletesRight`, `AllExcused`), and what was confirmed is on a standby
  (`LsnReplicated`, from `SlotsRight` and `StandbysRight`). That is `AckReplicated`;
- what is in the queues: waiting backends, once and in order (`QueuedRight`,
  `QueuedOnce`, `Sorted`), with the exception of the one that has been marked and
  not yet deleted, which is always the first (`MarkedRight`). The exception makes
  the invariants inductive. That positions are distinct (`CommitsRight`) makes the
  order strict;
- what the holder of the lock still owes: while a waiter with a confirmed position
  is queued, somebody has its queue to wake (`NoneForgotten`); while waiters
  are queued without a standby to wait for, the checkpointer has (`NoneFutile`).
  Without the lock nothing is owed, which gives `QueuesRight`;
- that a change of its state reaches the backend's latch (`LatchTells`).

Lemmas about the queue operators, `Without` (`SHMQueueDelete`) and the insertion
into a sorted queue, stand at the head of the module. Assumption:
`ConfigAssumption`, that configurations are lists of names and processes have
different names.

### PgQ (`PgQProofs`, `PgQDelivery`)

| Theorem | States |
|---|---|
| `Invariance` | `Spec => []Inv` |
| `TypeCorrect` | `Spec => []TypeOK` |
| `RetriesConservedCorrect` | `Spec => []RetriesConserved` |
| `SeesItsTickCorrect` | `Spec /\ []ComersInTime => []SeesItsTick` |
| `DeliveredCorrect` | `Spec /\ []NoneOvertaken => []Delivered` |
| `TablesRightCorrect` | `Spec /\ []NoneOvertaken => []TablesRight` |
| `NobodyOvertaken` | `MaxRotations = 0 \/ Early` gives `Spec => []NoneOvertaken` |

Delivery depends on three orders that the functions never compare directly: of
txids, of snapshots and of tables. The invariants are built up in layers, each of
them proved before the next.

- `Inv` relates transactions, snapshots and rows: running txids are
  distinct and given out (`XidsRight`), a snapshot shows nothing of what runs now
  (`SnapshotsRight`), later ticks show more (`TicksRight`), rows are committed or of
  a running transaction and each is in one table (`RowsRight`, `LogRight`), the rows
  of an open transaction are those it wrote (`CallsRight`, `MoverRight`), and what a
  rotation step has read still holds when it commits (`MaintRight`,
  `CurrentRight`).
- `RetryInv` adds that a request in the queue is of a subscription id given out
  (`OwnersRight`) and that what was asked for is what was moved and what waits,
  counted (`Conserved`). That the mover commits insertions and deletions together
  is what keeps the count through its deaths (`MoverRight`).
- `StandInv` adds that a rotation deletes the oldest ticks only (`LiveRight`), so
  those a subscription refers to stay (`TicksKept`).
- `PlaceInv` says where rows are: whoever writes into the previous table had its
  txid before the second step of the rotation (`PlacesRight`). A tick that stays
  is therefore past everything in the table that is emptied next, and what it does
  not show yet is in the current table or the previous one (`TicksLate`).
- `DeliveryInv` says for each consumer that `seen` is what was due between the
  tick it started from and the one it has reached, and that the tables found for its
  batch hold what the batch is due (`ConsumerRight`). That the query of
  `batch_event_sql` finds a row once, in its range or in its list of old txids, is
  the lemma `RangeAndList`.

`SeesItsTick`, `Delivered` and `TablesRight` do not hold of every behaviour, since a rotation can
overtake somebody who has looked at the queue and not yet acted. `NoneOvertaken`
names the three races, and the theorems say that there is no fourth:

- `WritersInTime`: a transaction that has read the current table takes its txid
  before the second step does. Without it an event is lost: that is the run
  `pgq_latexid`;
- `ComersInTime`: the tick a registration has chosen is not deleted before it
  commits (`register_consumer_at` locks nothing that a rotation respects);
- `SomebodyReads`: a rotation has a consumer to wait for. Without one it runs
  under open transactions.

TLC finds one of the three properties violated when any of the conjuncts is dropped, and
checks all invariants above when all three are imposed on instances with
rotations, retries, registrations and `Bare` producers. `NobodyOvertaken` shows
that the hypothesis is not empty: it holds in every behaviour of a queue that is not
rotated (`pgq_consume`), and of one whose producers have a txid when they call
`insert_event`, whose consumers stay and ask for no retries (`Early`, as in
`pgq_rotate`). Assumption: `PgQAssumption`, at least two tables, and `NULL` is no
record.

### LockManager (`LockTableProofs`, `LockManagerProofs`)

`Inductive` is `Spec => []IInv`; from it follow `TypeCorrect`, `NoConflictHolds`,
`BeliefHolds`, `NothingLeftBehindHolds` and `NoIdleWaiterHolds`.
`NoDeadlockOverlookedHolds` and `CircleVerdictHolds` have arguments of their own on
top of it.

`NoConflict` alone is not inductive. A transaction that holds a weak lock by the
fast path appears in no table, so that a strong locker conflicts with nobody it can
see says nothing by itself; and a waiter that is granted a lock by somebody else's
release does not know of it for a while. `IInv` says

- of the table: the counts and masks of a LOCK are those of its holders and
  waiters, a PROCLOCK exists for those that hold or wait, and everybody in the
  queue is blocked by a holder or by somebody before him (`LocksRight`);
- of the fast path: what the array has is eligible, known to its owner and not in
  the table as well (`FastRight`); no array has a lock that somebody holds or
  acquires in a strong mode, or whose transfer has already passed that array
  (`Closed`). What keeps the path closed is that each strong entry is counted once
  (`CountRight`);
- of a backend: what its place in the code means (`CallRight`), which entries of its
  own table are in use (`EntryRight`), that it is in a queue if and only if it waits
  (`WaitRight`), and that what it knows of is what it holds, except for a lock
  granted behind its back and those `LockReleaseAll` has yet to give back
  (`BeliefRight`);
- of any two transactions that go on: what they hold, in either place, does not
  conflict (`HoldSafe`). That is `NoConflict` with the locks a sleeper has been
  granted and not yet heard of.

`LockTableProofs` has what the functions of `LockTable` and the detector do to a
LOCK that is right: lists without repetition under insertion, deletion and
reordering; `GrantLock`, `UnGrantLock` and `RemoveFromWaitQueue` on counts and
masks; `ProcLockWakeup`, which leaves behind only waiters that are blocked and
grants only what conflicts with nobody (`Settled`); and the detector, which
rearranges queues only by constraints that do not contradict each other, so that
nobody gets lost from a queue. Loops of the code are recursive functions over
places in a list, and what holds after each of their turns is carried by one
lemma (`Loop`).

In `LockManagerProofs` each action is one of three kinds for the backends that do
not take it: they are not concerned, they may have been granted what they waited
for, or one of them had its fast-path locks moved into the table. What each kind
leaves of the parts above is shown once, and the proof of an action then speaks
of the backend that takes it.

`NoDeadlockOverlooked` is inductive together with `IInv`: no step closes a circle
among backends that have already looked for one.

- Of those who sleep, nobody comes to be in another's way. Queues keep their order
  under every step but the detector's (`QueueKept`, `OrderStays`), and a hard edge
  between two sleepers does not appear: a lock granted to a waiter wakes it, and a
  weak lock moved from a fast-path array is in nobody's way, because whoever waits
  in a strong mode has emptied all arrays before (`HardKept`, from `Closed`). A
  backend that queues up is in a new circle only together with itself, and its
  timer is still set.
- The detector's search is complete: when `FindLockCycle` from `p` finds nothing,
  there is a set without `p` that holds everybody `p` waits for, and everybody those
  wait for (`Escapes`, `NoCycle`). The search marks whom it has visited and never
  goes there again, so what is shown of each turn of its loops and each level of its
  recursion is that whoever it has newly marked has all its blockers among the
  marked, and none of them is `p` (`Searched`). That `NProcs + 1` levels are enough is a
  count of the marked (`ShortList`).
- A rearrangement breaks no promise made to others: a constraint lets only its
  waiter overtake, and `TestConfiguration` looks for circles from that waiter too.
  So a circle in the new order needs nobody who was moved, nor `p`, and was there
  before (`StuckWithout`, `StuckAnyway`), against the invariant.

`CircleVerdictHolds` is what the same search says of the backend that runs it: told
to give up it was in a circle, hard or soft, and told to wait on it is in none once
`CheckDeadLock` has rearranged the queues and woken whom that lets go on
(`CircleVerdict`, which is `VerdictRight` but for its claim about other orders).

- A backend is in no circle if and only if there is a set without it that holds
  everybody it waits for, and everybody those wait for (`CircleMeans`).
- Where there is such a set the search never leaves it, so it finds nothing
  (`NothingToFind`); and the search with no constraint looks at the queues as they
  are, since the topological sort leaves an order without constraints alone
  (`TopoSortFree`, `OrderFree`). So a backend that gives up was in a circle
  (`GivesUpInCircle`).
- Constraints are accepted only if the search under them finds nothing from the
  backend, so it is in no circle of the new order; those that are then woken wait for
  nobody, which takes edges away and adds none (`WaitsOnFree`).

Assumptions: `LockTableAssumption` and `LockManagerAssumption`, that there are
finitely many locks, numbered by partition, that the modes are among the eight,
and that the constants are of the types their comments say.

### Only model-checked

- Liveness (`EveryCallReturns`, `InsertReturns`, `SignalServed`, `EveryWaitEnds`,
  `EveryEventDelivered`) and anything with `ENABLED`: out of the prover's reach.
- One of the three claims of `VerdictRight`: that a backend is told to give up only
  if no order of the queues would help. It is not provable for every number of
  backends: the code ends its search when `maxCurConstraints` or
  `maxPossibleConstraints` is reached, whether or not another order is left. In the
  run there is room enough. The other two are `CircleVerdictHolds`.

## 7. Where the code and its words disagree

Each is a run that expects a violation; the finding in `PROJECT.json` quotes the
line.

| Run | What happens |
|---|---|
| `syncrep_leave` | a backend leaves its wait while it is still in the queue, against the assertion there; if it exits at once, it deletes an element from the queue that a walsender has just deleted |
| `pgq_latexid` | an event inserted around a rotation by a transaction without a txid is never delivered |

`pgq_rotate` shows that without late txids nothing is lost, so the PgQ finding is
about that order alone.

What the passing runs leave out on purpose, as the code does not promise it:

- after a start, commits do not wait until the checkpointer has set
  `sync_standbys_defined` (`AckReplicated` excuses them);
- a rotation makes `load_insert_plan` start a new count, so the limit of a
  transaction holds per table;
- `register_consumer_at` chooses its tick without a lock that a rotation would
  respect, so a rotation may delete the tick a consumer is just being moved to
  (`SeesItsTick` is checked for registered consumers), and a queue that nobody
  reads rotates under open transactions;
- a catchup signal that comes in after the last `SIGetDataEntries` of a receive
  and before its end is cleared together with the one it answers. The backend is
  then behind and marked as signaled, and gets no other signal until it reads or
  is reset. `SignalServed` says that a signal is answered, and that others that lag
  and have not been told are told then; it does not say that a backend that was
  told catches up;
- the detector's victim need not be in a hard circle: `VerdictRight` says that it
  is in a circle, hard or soft, and that no order of the queues is free of circles;
- `LockReleaseAll` lowers the count of strong lockers before it gives back the lock
  itself, so another backend can use the fast path while a strong lock is still in
  the table. `NoConflict` therefore speaks of transactions that go on, not of
  those that are ending;
- a failing `palloc` in `SyncRepWaitForLSN` after the backend has queued itself: the
  commit record is written, so the error is a PANIC that restarts the server;
- a consumer that moved itself back can get an event together with its retried
  copy; `event_retry` then violates the key of `retry_queue`, reports "already
  in retry queue" and queues nothing.

## 8. What is not modelled, and why

- Memory ordering below the level of the code's barriers and spinlocks; crashes
  of a PostgreSQL backend inside a critical section (the postmaster restarts
  the server, which begins at `Init`).
- `LWLock`: creation of locks and tranches, statistics.
- `SInval`: the notify interrupt, which has the same loop; the error for want of
  a free slot; compilers that reorder volatile accesses.
- `LockManager`: session locks and resource owners (subtransactions), locks of
  virtual transactions, prepared transactions and hot standby, the cancelling of
  autovacuum, several lock tags in one partition (each lock has a partition of
  its own), the semaphore (`LWLock` has it).
- `SyncRep`: timeouts of walsenders, which are outages here; cascading.
- `PgQ`: REPEATABLE READ producers, savepoints, creating and dropping queues,
  an external or paused ticker, several consumers at once beyond what the
  constants of a run give, `queue_disable_insert` (an aborted transaction).
- Everything listed as `not_modelled` in `PROJECT.json`, each with its reason: out
  of TLC's reach (page-level algorithms, SSI, the write-ahead log), pure
  computation or I/O (parser, planner, executor, extensions), driven by what would
  be external (Pgpool-II, Londiste), not taken up (PgBouncer, cooperative
  consumers, Slony-I), or third-party. The questions of section 4 are about the
  state that the server's processes share, and the queue built on it.

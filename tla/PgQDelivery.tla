---------------------------- MODULE PgQDelivery ----------------------------
(***************************************************************************)
(* Theorems about PgQ: consumers get what they are due. A consumer stands  *)
(* on a tick that stays (StandInv); who writes writes into the current     *)
(* table or the one before it, and what a tick's snapshot does not show is *)
(* there (PlaceInv); hence the tables found for a batch hold its events,   *)
(* and what is seen adds up (DeliveryInv).                                 *)
(*                                                                         *)
(* The code does not promise this to everybody: a rotation waits for       *)
(* consumers, but not for those who are just about to do what it makes     *)
(* pointless. The theorems say of whom, in NoneOvertaken.                  *)
(***************************************************************************)
EXTENDS PgQProofs
USE DEF SubscriptionType

(* Who is overtaken by a rotation.                                         *)

Rotating == maint # NULL /\ maint.step = 1

\* The ticks that are there and not about to be deleted.
Live == IF maint = NULL THEN tick ELSE tick \ maint.dead

\* Transaction x, 0 if it has no txid yet, has looked at the queue and is about to
\* write into table t.
Looked(x, t) ==
  \/ \E p \in Producer : xact[p].state = "loaded" /\ xact[p].xid = x /\ xact[p].table = t
  \/ mover # NULL /\ mover.state = "loaded" /\ mover.xid = x /\ mover.table = t

\* The txid it gets now would not tell that its table is the previous one.
Late(t) == t # queue.cur_table /\ ~(queue.switch_step2 = 0 /\ maint = NULL)

\* A rotation has a consumer to wait for, ...
SomebodyReads == Rotating => Stands # {}
\* ... no transaction is overtaken between its look at the queue and its txid, ...
WritersInTime == \A t \in Table : Looked(0, t) => ~Late(t)
\* ... and no consumer between the choice of its tick and its registration.
ComersInTime == \A c \in Consumer : registering[c] # NULL => registering[c] \in Live

NoneOvertaken == SomebodyReads /\ WritersInTime /\ ComersInTime
-----------------------------------------------------------------------------
(* Ticks of subscriptions.                                                 *)

OnLive(id) == \E t \in Live : t.id = id

\* What is going to be deleted are the oldest ticks.
LiveRight ==
  /\ maint # NULL => maint.dead \subseteq tick
  /\ \A t \in tick \ Live, u \in Live : t.id < u.id

\* The ticks of a batch stay.
TicksKept(c) ==
  subscription[c] # NULL =>
    /\ OnLive(subscription[c].last)
    /\ Active(c) => OnLive(subscription[c].next) /\ subscription[c].last < subscription[c].next

StandInv == Inv /\ LiveRight /\ \A c \in Consumer : TicksKept(c)

\* TickRow finds the tick ...
LEMMA TickRowFacts ==
  ASSUME TicksRight
  PROVE  /\ \A t \in tick : TickRow(t.id) = t /\ HasTick(t.id)
         /\ \A id : HasTick(id) => TickRow(id) \in tick /\ TickRow(id).id = id
  <1>1. \A id : HasTick(id) => TickRow(id) \in tick /\ TickRow(id).id = id
    BY Zenon DEF HasTick, TickRow
  <1>2. \A t \in tick : HasTick(t.id)
    BY Zenon DEF HasTick
  <1>. QED
    BY <1>1, <1>2, Zenon DEF TicksRight

\* The snapshots of a subscription's ticks.
LEMMA StandFacts ==
  ASSUME Inv, NEW c \in Consumer, subscription[c] # NULL, HasTick(subscription[c].last)
  PROVE  /\ Last(c) \in SnapshotType /\ SnapshotRight(Last(c)) /\ Leq(Last(c), Last(c))
         /\ Active(c) /\ HasTick(subscription[c].next) =>
              Cur(c) \in SnapshotType /\ SnapshotRight(Cur(c))
         /\ Active(c) /\ HasTick(subscription[c].next) /\ subscription[c].last < subscription[c].next =>
              Leq(Last(c), Cur(c))
  <1>1. Typed /\ TicksRight /\ SnapshotsRight
    BY DEF Inv
  <1>2. TickRow(subscription[c].last) \in tick /\ TickRow(subscription[c].last).id = subscription[c].last
    BY <1>1, TickRowFacts, Zenon
  <1>3. Last(c) \in SnapshotType /\ SnapshotRight(Last(c))
    BY <1>1, <1>2, TickTypes, Zenon DEF SnapshotsRight, Last
  <1>4. Last(c).xmin <= Last(c).xmax
    BY <1>3 DEF SnapshotRight, SnapshotFits
  <1>5. Leq(Last(c), Last(c))
    BY <1>3, <1>4, LeqSame, Zenon
  <1>6. ASSUME Active(c), HasTick(subscription[c].next)
        PROVE  /\ Cur(c) \in SnapshotType /\ SnapshotRight(Cur(c))
               /\ subscription[c].last < subscription[c].next => Leq(Last(c), Cur(c))
    <2>1. TickRow(subscription[c].next) \in tick /\ TickRow(subscription[c].next).id = subscription[c].next
      BY <1>1, <1>6, TickRowFacts, Zenon
    <2>2. Cur(c) \in SnapshotType /\ SnapshotRight(Cur(c))
      BY <1>1, <2>1, TickTypes, Zenon DEF SnapshotsRight, Cur
    <2>. QED
      BY <1>1, <1>2, <2>1, <2>2, Zenon DEF TicksRight, Last, Cur
  <1>. QED
    BY <1>3, <1>5, <1>6, Zenon

\* A tick that stays is there.
LEMMA LiveFacts ==
  ASSUME TicksRight
  PROVE  /\ Live \subseteq tick
         /\ \A id : OnLive(id) => HasTick(id) /\ TickRow(id) \in Live /\ TickRow(id).id = id
         /\ \A t \in Live : OnLive(t.id)
  <1>1. Live \subseteq tick
    BY DEF Live
  <1>2. \A id : OnLive(id) => HasTick(id) /\ TickRow(id) \in Live /\ TickRow(id).id = id
    <2>1. SUFFICES ASSUME NEW id, NEW t \in Live, t.id = id
                   PROVE  HasTick(id) /\ TickRow(id) \in Live /\ TickRow(id).id = id
      BY Zenon DEF OnLive
    <2>2. TickRow(t.id) = t /\ HasTick(t.id)
      BY <1>1, <2>1, TickRowFacts
    <2>. QED
      BY <2>1, <2>2
  <1>. QED
    BY <1>1, <1>2 DEF OnLive

\* A consumer that stands on ticks that stay can see them.
LEMMA StandTicks ==
  ASSUME StandInv, NEW c \in Consumer, subscription[c] # NULL
  PROVE  /\ HasTick(subscription[c].last) /\ TickRow(subscription[c].last) \in Live
         /\ Active(c) => /\ HasTick(subscription[c].next) /\ TickRow(subscription[c].next) \in Live
                         /\ subscription[c].last < subscription[c].next /\ HasTicks(c)
  BY LiveFacts, Zenon DEF StandInv, Inv, TicksKept, HasTicks

\* Which ticks stay: a rotation's first step decides it, no other step takes one away.
LEMMA LiveServer ==
  ASSUME Inv, LiveRight, Pgqd
  PROVE  LiveRight' /\ (Live \subseteq Live' \/ maint_rotate_tables_step1)
  <1>1. Typed /\ TicksRight /\ MaintRight /\ (\A t \in tick : t.id \in Nat /\ t.snapshot.xmin \in Nat)
    BY TickTypes DEF Inv, SnapshotType
  <1>2. CASE ticker_inserts \/ maint_retry_events_moves \/ maint_retry_events_commits
             \/ \E q \in retry_queue : maint_retry_events_loads(q)
    <2>1. UNCHANGED <<tick, maint>>
      BY <1>2 DEF ticker_inserts, maint_retry_events_moves, maint_retry_events_commits, maint_retry_events_loads
    <2>. QED
      BY <2>1 DEF LiveRight, Live
  <1>3. CASE ticker_commits
    <2>1. /\ tick' = tick \cup {[id |-> ticker.id, event_seq |-> ticker.event_seq,
                        snapshot |-> ticker.snapshot]} /\ UNCHANGED maint
          /\ \A t \in tick : t.id < ticker.id
      BY <1>1, <1>3 DEF ticker_commits, TicksRight
    <2>2. PICK u : u = [id |-> ticker.id, event_seq |-> ticker.event_seq,
                        snapshot |-> ticker.snapshot]
      OBVIOUS
    <2>3. u \notin tick /\ tick' = tick \cup {u} /\ u.id = ticker.id
      BY <1>1, <2>1, <2>2
    <2>4. Live' = Live \cup {u}
      BY <2>1, <2>3 DEF Live, LiveRight
    <2>. QED
      BY <2>1, <2>3, <2>4 DEF LiveRight
  <1>4. CASE maint_rotate_tables_step1
    <2>1. /\ maint' # NULL /\ maint'.dead = {t \in tick : t.snapshot.xmin < queue.switch_step2} /\ tick' = tick
          /\ queue.switch_step2 \in Nat
      BY <1>1, <1>4, RotateXids, RowTypes DEF maint_rotate_tables_step1, Inv
    <2>2. /\ \A t \in tick' \ Live' : t \in tick /\ t.snapshot.xmin < queue.switch_step2
          /\ \A u \in Live' : u \in tick /\ ~(u.snapshot.xmin < queue.switch_step2)
      BY <2>1 DEF Live
    <2>3. ASSUME NEW t \in tick' \ Live', NEW u \in Live' PROVE t.id < u.id
      <3>1. u.id < t.id => u.snapshot.xmin <= t.snapshot.xmin
        BY <1>1, <2>2 DEF TicksRight, Leq
      <3>2. u.id # t.id
        BY <1>1, <2>2 DEF TicksRight
      <3>. QED
        BY <1>1, <2>1, <2>2, <3>1, <3>2
    <2>. QED
      BY <1>4, <2>1, <2>3 DEF LiveRight
  <1>5. CASE maint_rotate_tables_step2
    <2>1. maint = NULL /\ tick' = tick /\ maint'.dead = {}
      BY <1>5 DEF maint_rotate_tables_step2
    <2>. QED
      BY <2>1 DEF LiveRight, Live
  <1>6. CASE maint_commits
    <2>1. maint # NULL /\ maint' = NULL /\ tick' = tick \ maint.dead
      BY <1>6 DEF maint_commits
    <2>. QED
      BY <2>1 DEF LiveRight, Live
  <1>7. CASE pgqd_dies
    <2>1. tick' = tick /\ maint' \in {maint, NULL}
      BY <1>7 DEF pgqd_dies
    <2>. QED
      BY <2>1 DEF LiveRight, Live
  <1>. QED
    BY <1>2, <1>3, <1>4, <1>5, <1>6, <1>7 DEF Pgqd

\* Steps that leave the subscriptions alone and take no tick away.
LEMMA StandsSame ==
  ASSUME StandInv, UNCHANGED subscription, Live \subseteq Live'
  PROVE  \A c \in Consumer : TicksKept(c)'
  BY Zenon DEF StandInv, TicksKept, OnLive, Active

\* A rotation deletes only ticks before those of all subscriptions.
LEMMA StandsServer ==
  ASSUME StandInv, Inv', Pgqd
  PROVE  StandInv'
  <1>0. UNCHANGED subscription
    BY Zenon DEF Pgqd, ticker_inserts, ticker_commits, maint_rotate_tables_step1,
       maint_rotate_tables_step2, maint_commits, maint_retry_events_loads, maint_retry_events_moves,
       maint_retry_events_commits, pgqd_dies, serverUnchanged
  <1>1. LiveRight' /\ (Live \subseteq Live' \/ maint_rotate_tables_step1)
    BY LiveServer DEF StandInv
  <1>2. CASE Live \subseteq Live'
    BY <1>0, <1>1, <1>2, StandsSame DEF StandInv
  <1>3. CASE maint_rotate_tables_step1
    <2>1. /\ tick' = tick /\ ~OnPrevious /\ maint = NULL /\ maint' # NULL
          /\ maint'.dead = {t \in tick : t.snapshot.xmin < queue.switch_step2}
      BY <1>3, RotateXids DEF maint_rotate_tables_step1, StandInv, Inv
    <2>2. SUFFICES ASSUME NEW c \in Consumer, subscription[c] # NULL PROVE TicksKept(c)'
      BY <1>0, <1>1 DEF StandInv, TicksKept
    <2>3. /\ Typed /\ TicksRight /\ HasTick(subscription[c].last) /\ TicksKept(c)
          /\ queue.switch_step2 \in Nat
          /\ \A t \in tick : t.id \in Nat /\ t.snapshot.xmin \in Nat
      BY <2>2, StandTicks, RowTypes, TickTypes DEF StandInv, Inv, SnapshotType
    <2>4. \A d \in Consumer : subscription[d] # NULL => subscription[d].last \in Nat
      BY <2>3 DEF Typed, TypeOK
    <2>5. Stands \subseteq Nat /\ subscription[c].last \in Stands
      BY <2>2, <2>4 DEF Stands
    <2>. DEFINE low == Lowest(Stands)
    <2>6. low \in Nat /\ low <= subscription[c].last
      BY <2>5, LowestFacts
    <2>7. HasTick(low) /\ ~(TickRow(low).snapshot.xmin <= queue.switch_step2)
      BY <2>1, <2>5 DEF OnPrevious
    <2>. HIDE DEF low
    <2>8. TickRow(low) \in tick /\ TickRow(low).id = low
      BY <2>3, <2>7, TickRowFacts, Zenon
    <2>9. \A t \in tick : low <= t.id => t.snapshot.xmin >= queue.switch_step2
      <3>1. SUFFICES ASSUME NEW t \in tick, low <= t.id PROVE t.snapshot.xmin >= queue.switch_step2
        OBVIOUS
      <3>2. PICK l \in tick : l = TickRow(low) /\ l.id = low /\ l.snapshot.xmin > queue.switch_step2
        BY <2>3, <2>7, <2>8
      <3>3. l.snapshot.xmin <= t.snapshot.xmin
        BY <2>3, <2>6, <3>1, <3>2 DEF TicksRight, Leq
      <3>. QED
        BY <2>3, <3>2, <3>3
    <2>10. \A t \in tick : low <= t.id => t \in Live'
      BY <2>1, <2>3, <2>9 DEF Live
    <2>11. \A id \in Nat : OnLive(id) /\ low <= id => OnLive(id)'
      <3>1. \A t \in Live : t \in tick
        BY <2>1 DEF Live
      <3>. QED
        BY <2>10, <3>1 DEF OnLive
    <2>12. subscription[c].last \in Nat /\ subscription[c].next \in Nat
      BY <2>2, <2>3 DEF Typed, TypeOK
    <2>. QED
      BY <1>0, <2>2, <2>3, <2>6, <2>11, <2>12 DEF TicksKept, Active
  <1>. QED
    BY <1>1, <1>2, <1>3

\* A consumer goes on to a later tick, or comes to one that stays.
LEMMA StandsConsumer ==
  ASSUME StandInv, Inv', NEW c \in Consumer, ConsumerStep(c), ComersInTime
  PROVE  StandInv'
  <1>1. Typed /\ TicksRight /\ LiveRight /\ UNCHANGED <<tick, maint>>
    BY ConsumerLeaves DEF StandInv, Inv, consumerUnchanged
  <1>2. /\ subscription \in [Consumer -> {NULL} \cup SubscriptionType]
        /\ registering \in [Consumer -> {NULL} \cup TickType]
    BY <1>1 DEF Typed, TypeOK
  <1>3. Live' = Live /\ LiveRight' /\ \A id : OnLive(id)' <=> OnLive(id)
    BY <1>1 DEF Live, LiveRight, OnLive
  <1>4. SUFFICES \A d \in Consumer : TicksKept(d)'
    BY <1>3 DEF StandInv
  <1>5. ASSUME NEW d \in Consumer, subscription'[d] = subscription[d] PROVE TicksKept(d)'
    BY <1>3, <1>5 DEF StandInv, TicksKept, Active
  <1>6. CASE find_batch(c) \/ get_batch_events(c) \/ consumer_dies(c) \/ batch_retry(c)
             \/ (\E id \in EventIds(c) : event_retry(c, id)) \/ (\E t \in tick : register_consumer_at(c, t))
    <2>1. UNCHANGED subscription
      BY <1>6, Zenon DEF find_batch, get_batch_events, consumer_dies, batch_retry, event_retry, register_consumer_at
    <2>. QED
      BY <1>5, <2>1
  <1>7. ASSUME NEW t \in tick, next_batch_custom(c, t) PROVE \A d \in Consumer : TicksKept(d)'
    <2>1. /\ subscription' = [subscription EXCEPT ![c].next = t.id] /\ subscription[c] # NULL
          /\ t.id > subscription[c].last
      BY <1>7 DEF next_batch_custom
    <2>2. /\ \A d \in Consumer : d # c => subscription'[d] = subscription[d]
          /\ subscription'[c].last = subscription[c].last /\ subscription'[c].next = t.id
      BY <1>2, <2>1
    <2>3. t.id \in Nat /\ subscription[c].last \in Nat /\ TicksKept(c)
      BY <1>1, <1>2, <2>1, TickTypes DEF StandInv
    <2>4. t \in Live
      <3>1. PICK l \in Live : l.id = subscription[c].last
        BY <2>1, <2>3 DEF TicksKept, OnLive
      <3>. QED
        BY <1>1, <2>1, <2>3, <3>1 DEF LiveRight
    <2>5. TicksKept(c)'
      BY <1>3, <2>1, <2>2, <2>3, <2>4 DEF TicksKept, OnLive, Active
    <2>. QED
      BY <1>5, <2>2, <2>5
  <1>8. CASE finish_batch(c)
    <2>1. Active(c) /\ subscription' = [subscription EXCEPT ![c].last = subscription[c].next, ![c].next = 0]
      BY <1>8 DEF finish_batch
    <2>2. TypeOK /\ subscription[c] # NULL
      BY <1>1, <2>1 DEF Typed, Active
    <2>3. PICK r : /\ subscription' = [subscription EXCEPT ![c] = r]
                   /\ r = [id |-> subscription[c].id, last |-> subscription[c].next, next |-> 0]
      BY <2>1, <2>2, FinishedIs, Zenon
    <2>4. /\ \A d \in Consumer : d # c => subscription'[d] = subscription[d]
          /\ subscription'[c].last = subscription[c].next /\ subscription'[c].next = 0
      BY <1>2, <2>3
    <2>5. TicksKept(c)
      BY DEF StandInv
    <2>6. TicksKept(c)'
      BY <1>3, <2>1, <2>2, <2>4, <2>5 DEF TicksKept, Active
    <2>. QED
      BY <1>5, <2>4, <2>6
  <1>9. CASE registered(c)
    <2>1. registering[c] # NULL /\ subscription' = [subscription EXCEPT ![c] = Subscribed(c)]
      BY <1>9 DEF registered
    <2>2. registering[c] \in Live
      BY <2>1 DEF ComersInTime
    <2>3. /\ \A d \in Consumer : d # c => subscription'[d] = subscription[d]
          /\ subscription'[c].last = registering[c].id /\ subscription'[c].next = 0
      BY <1>2, <2>1 DEF Subscribed
    <2>4. TicksKept(c)'
      BY <1>3, <2>2, <2>3 DEF TicksKept, OnLive, Active
    <2>. QED
      BY <1>5, <2>3, <2>4
  <1>a. CASE unregister_consumer(c)
    <2>1. subscription' = [subscription EXCEPT ![c] = NULL]
      BY <1>a DEF unregister_consumer
    <2>2. \A d \in Consumer : d # c => subscription'[d] = subscription[d]
      BY <1>2, <2>1
    <2>3. TicksKept(c)'
      BY <1>2, <2>1 DEF TicksKept
    <2>. QED
      BY <1>5, <2>2, <2>3
  <1>. QED
    BY <1>6, <1>7, <1>8, <1>9, <1>a DEF ConsumerStep, Consume

\* Consumers that are registered with the queue start from its first tick ...
LEMMA InitStands == Init => StandInv
  <1>. SUFFICES ASSUME Init PROVE StandInv
    OBVIOUS
  <1>1. /\ tick = {[id |-> 1, event_seq |-> 1, snapshot |-> [xmin |-> 1, xmax |-> 1, xip |-> {}]]} /\ maint = NULL
        /\ \A c \in Consumer : subscription[c] # NULL => subscription[c].last = 1 /\ subscription[c].next = 0
    BY DEF Init
  <1>2. LiveRight /\ \A c \in Consumer : TicksKept(c)
    BY <1>1 DEF LiveRight, Live, OnLive, TicksKept, Active
  <1>. QED
    BY <1>2, InitInv DEF StandInv

\* ... and no step takes a tick away from them.
LEMMA NextStands == StandInv /\ ComersInTime /\ [Next]_vars => StandInv'
  <1>. SUFFICES ASSUME StandInv, ComersInTime, [Next]_vars PROVE StandInv'
    OBVIOUS
  <1>1. Inv'
    BY NextInv DEF StandInv
  <1>2. ASSUME UNCHANGED <<tick, maint, subscription>> PROVE StandInv'
    <2>1. Live' = Live /\ LiveRight'
      BY <1>2 DEF StandInv, LiveRight, Live
    <2>. QED
      BY <1>1, <1>2, <2>1, StandsSame DEF StandInv
  <1>3. ASSUME NEW p \in Producer, Produce(p) PROVE StandInv'
    <2>1. UNCHANGED producerUnchanged
      BY <1>3, Zenon DEF Produce, Begin, load_queue_info, pgq_insert_event_raw, Commit, Abort
    <2>. QED
      BY <1>2, <2>1 DEF producerUnchanged
  <1>4. CASE UNCHANGED vars
    BY <1>2, <1>4 DEF vars
  <1>. QED
    BY <1>1, <1>3, <1>4, StandsServer, StandsConsumer DEF Next, ConsumerStep

\* The sanity check of next_batch_custom never fails: a rotation deletes no tick
\* that a consumer stands on, if it deletes none that one is just registering at.
THEOREM SeesItsTickCorrect == Spec /\ []ComersInTime => []SeesItsTick
  <1>1. StandInv => SeesItsTick
    BY StandTicks DEF SeesItsTick
  <1>2. StandInv /\ ComersInTime /\ [Next]_vars => StandInv'
    BY NextStands
  <1>. QED
    BY <1>1, <1>2, InitStands, PTL DEF Spec
-----------------------------------------------------------------------------
(* Where events are.                                                       *)

\* Transaction x began before the last rotation's second step.
BeforeStep2(x) ==
  /\ queue.switch_step2 # 0 => x < queue.switch_step2
  /\ maint # NULL /\ maint.step = 2 => x < maint.xid

\* Who writes writes into the current table or the one before it, and into that one
\* only if he was there before the second step.
Near == {queue.cur_table, Previous(queue.cur_table)}
PlacesRight ==
  /\ \A t \in Table : \A r \in event[t] :
       /\ t # queue.cur_table => BeforeStep2(r.ev_txid)
       /\ t \notin Near => r.ev_txid \notin Running
  /\ \A x \in Nat, t \in Table : Looked(x, t) =>
       /\ t \in Near
       /\ x # 0 /\ t # queue.cur_table => BeforeStep2(x)

\* What a snapshot does not show is there too ...
Kept(s) ==
  /\ \A r \in log : ~Visible(r.ev_txid, s) => \E t \in Near : r \in event[t]
  /\ \A t \in Table \ Near : \A r \in event[t] : Visible(r.ev_txid, s)

\* ... if the snapshot is a tick's; and ticks that stay are after the switch.
TicksLate ==
  /\ \A t \in tick : Kept(t.snapshot)
  /\ ticker # NULL => Kept(ticker.snapshot)
  /\ Rotating => \A t \in Live : t.snapshot.xmin >= queue.switch_step2

\* What is committed has come to an end.
LogDone == \A r \in log : r.ev_txid <= latestCompletedXid

PlaceInv == StandInv /\ PlacesRight /\ TicksLate /\ LogDone

\* The next table and the one before it.
LEMMA NextTable ==
  ASSUME NEW t \in Table
  PROVE  (t + 1) % NTables # t /\ Previous((t + 1) % NTables) = t /\ Previous(t) # t
  <1>1. NTables \in Nat /\ NTables >= 2 /\ t \in 0..(NTables - 1)
    BY PgQAssumption DEF Table
  <1>2. CASE t + 1 < NTables
    <2>1. (t + 1) % NTables = t + 1 /\ t % NTables = t
      BY <1>1, <1>2
    <2>2. Previous((t + 1) % NTables) = t
      BY <1>1, <2>1 DEF Previous
    <2>3. Previous(t) # t
      <3>1. CASE t = 0
        <4>1. (t - 1) % NTables = NTables - 1
          BY <1>1, <3>1
        <4>. QED
          BY <1>1, <3>1, <4>1 DEF Previous
      <3>2. CASE t > 0
        <4>1. (t - 1) % NTables = t - 1
          BY <1>1, <3>2
        <4>. QED
          BY <1>1, <4>1 DEF Previous
      <3>. QED
        BY <1>1, <3>1, <3>2
    <2>. QED
      BY <1>1, <2>1, <2>2, <2>3
  <1>3. CASE t + 1 = NTables
    <2>1. (t + 1) % NTables = 0 /\ (0 - 1) % NTables = NTables - 1 /\ (t - 1) % NTables = t - 1
      BY <1>1, <1>3
    <2>. QED
      BY <1>1, <1>3, <2>1 DEF Previous
  <1>. QED
    BY <1>1, <1>2, <1>3

\* Nobody who runs was there before the last switch: it is safe to switch again.
LEMMA SwitchSafe ==
  ASSUME PlaceInv, Rotating, SomebodyReads
  PROVE  /\ queue.switch_step2 \in Nat \ {0} /\ \A x \in Running : x \in Nat /\ x >= queue.switch_step2
         /\ ticker # NULL => ticker.snapshot.xmin >= queue.switch_step2
  <1>1. /\ Typed /\ MaintRight /\ SnapshotsRight /\ TicksRight /\ TypeOK /\ Running \subseteq Nat
        /\ queue.switch_step2 \in Nat /\ queue.switch_step2 # 0
    BY RowTypes, RunningNat DEF PlaceInv, StandInv, Inv, Typed, Rotating, MaintRight
  <1>2. PICK c \in Consumer : subscription[c] # NULL
    BY DEF SomebodyReads, Stands
  <1>3. PICK t \in Live : t = TickRow(subscription[c].last)
    BY <1>2, StandTicks DEF PlaceInv
  <1>4. /\ t \in tick /\ t.snapshot \in SnapshotType /\ SnapshotRight(t.snapshot)
        /\ t.snapshot.xmin >= queue.switch_step2
    BY <1>1, TickTypes DEF Live, SnapshotsRight, PlaceInv, TicksLate
  <1>5. t.snapshot.xmin \in Nat
    BY <1>4 DEF SnapshotType
  <1>6. \A x \in Running : x >= queue.switch_step2
    <2>1. \A x \in Running : ~(x < t.snapshot.xmin)
      BY <1>4 DEF SnapshotRight, SnapshotFits, Visible
    <2>. QED
      BY <1>1, <1>4, <1>5, <2>1
  <1>7. ASSUME ticker # NULL PROVE ticker.snapshot.xmin >= queue.switch_step2
    <2>1. t.snapshot.xmin <= ticker.snapshot.xmin /\ ticker.snapshot.xmin \in Nat
      BY <1>1, <1>4, <1>7, TickTypes DEF TicksRight, Leq, SnapshotType
    <2>. QED
      BY <1>1, <1>4, <1>5, <2>1
  <1>. QED
    BY <1>1, <1>6, <1>7

\* When the tables may be switched, what is elsewhere than in the current one is
\* shown.
LEMMA ElsewhereShown ==
  ASSUME Inv, PlacesRight, NEW s \in SnapshotType, queue.switch_step2 # 0, s.xmin >= queue.switch_step2
  PROVE  \A t \in Table : t # queue.cur_table => \A r \in event[t] : Visible(r.ev_txid, s)
  <1>1. \A t \in Table : \A r \in event[t] : t # queue.cur_table => r.ev_txid < queue.switch_step2
    BY DEF PlacesRight, BeforeStep2
  <1>2. \A t \in Table : \A r \in event[t] : r.ev_txid \in Nat
    BY RowTypes DEF Inv
  <1>3. queue.switch_step2 \in Nat /\ s.xmin \in Nat
    BY RowTypes DEF Inv, SnapshotType
  <1>. QED
    BY <1>1, <1>2, <1>3 DEF Visible

\* What gets into the log was of a running transaction and in a table; what is in
\* the log stays in its table, but for a rotation's first step.
LogStep ==
  /\ log \subseteq log'
  /\ \A r \in log' : r \in log \/ (r.ev_txid \in Running /\ r.ev_txid \in Nat)
  /\ \A r \in log' : r \in log \/ (\E t \in Table : r \in event[t] /\ r \in event'[t])
  /\ \A t \in Table : \A r \in event[t] : r \in log =>
       r \in event'[t] \/ (maint_commits /\ maint.step = 1 /\ maint.nr = t)

\* A transaction's rows were in a table when it commits.
LEMMA LogProducer ==
  ASSUME Inv, NEW p \in Producer, Produce(p)
  PROVE  LogStep
  <1>1. Typed /\ LogRight /\ RowsRight
    BY DEF Inv
  <1>2. CASE Begin(p) \/ load_queue_info(p)
    <2>1. UNCHANGED <<event, log>>
      BY <1>2 DEF Begin, load_queue_info
    <2>. QED
      BY <2>1 DEF LogStep
  <1>3. CASE pgq_insert_event_raw(p)
    <2>1. \A t \in Table :
            event'[t] = IF t = xact[p].table THEN event[t] \cup {InsertRow(p)} ELSE event[t]
      BY <1>1, <1>3, InsertEffect, Zenon
    <2>2. UNCHANGED log
      BY <1>3 DEF pgq_insert_event_raw
    <2>. QED
      BY <2>1, <2>2 DEF LogStep
  <1>4. CASE Commit(p)
    <2>1. xact[p].xid # 0 /\ xact[p].xid \in Running /\ log' = log \cup Rows(xact[p].xid) /\ UNCHANGED event
      BY <1>4, RunningFacts DEF Commit, RunsNow
    <2>2. \A r \in Rows(xact[p].xid) : r.ev_txid = xact[p].xid /\ \E t \in Table : r \in event[t]
      BY DEF Rows
    <2>3. xact[p].xid \in Nat
      BY <1>1 DEF Typed, TypeOK
    <2>. QED
      BY <2>1, <2>2, <2>3 DEF LogStep
  <1>5. CASE Abort(p)
    <2>1. UNCHANGED log /\ event' = IF xact[p].xid = 0 THEN event ELSE Without(xact[p].xid)
      BY <1>5 DEF Abort
    <2>2. xact[p].xid # 0 => \A r \in log : r.ev_txid # xact[p].xid
      BY <1>1, RunningFacts DEF RunsNow, LogRight
    <2>. QED
      BY <2>1, <2>2 DEF LogStep, Without
  <1>. QED
    BY <1>2, <1>3, <1>4, <1>5 DEF Produce

\* A rotation empties a table, nothing else takes committed rows away.
LEMMA LogServer ==
  ASSUME Inv, Pgqd
  PROVE  LogStep
  <1>1. Typed /\ LogRight /\ RowsRight /\ MoverRight
    BY DEF Inv
  <1>2. CASE \/ ticker_inserts \/ ticker_commits \/ maint_rotate_tables_step1 \/ maint_rotate_tables_step2
             \/ \E q \in retry_queue : maint_retry_events_loads(q)
    <2>1. UNCHANGED <<event, log>>
      BY <1>2 DEF ticker_inserts, ticker_commits, maint_rotate_tables_step1, maint_rotate_tables_step2,
         maint_retry_events_loads
    <2>. QED
      BY <2>1 DEF LogStep
  <1>3. CASE maint_commits
    <2>1. UNCHANGED log /\ maint.step \in {1, 2}
      BY <1>1, <1>3, CommitEffect, RowTypes
    <2>2. \A t \in Table : \A r \in event[t] : r \in event'[t] \/ (maint.step = 1 /\ maint.nr = t)
      BY <1>1, <1>3, <2>1, CommitEffect
    <2>. QED
      BY <1>3, <2>1, <2>2 DEF LogStep
  <1>4. CASE maint_retry_events_moves
    <2>1. UNCHANGED log
      BY <1>4 DEF maint_retry_events_moves
    <2>2. \A t \in Table : event'[t] = IF t = mover.table THEN event[t] \cup {MoveRow} ELSE event[t]
      BY <1>1, <1>4, MovesEffect, Zenon
    <2>. QED
      BY <2>1, <2>2 DEF LogStep
  <1>5. CASE maint_retry_events_commits
    <2>1. mover # NULL /\ log' = log \cup Rows(mover.xid) /\ UNCHANGED event
      BY <1>5 DEF maint_retry_events_commits
    <2>2. \A r \in Rows(mover.xid) : r.ev_txid = mover.xid /\ \E t \in Table : r \in event[t]
      BY DEF Rows
    <2>3. \A r \in Rows(mover.xid) : r.ev_txid # 0 /\ r.ev_txid \in Nat
      BY <1>1, <2>2, RowTypes DEF RowsRight
    <2>4. mover.xid # 0 => mover.xid \in Running
      BY <2>1, RunningFacts DEF RunsNow
    <2>. QED
      BY <2>1, <2>2, <2>3, <2>4 DEF LogStep
  <1>6. CASE pgqd_dies
    <2>1. UNCHANGED log /\ (event' = event \/ (mover # NULL /\ mover.xid # 0 /\ event' = Without(mover.xid)))
      BY <1>6, Zenon DEF pgqd_dies
    <2>2. mover # NULL /\ mover.xid # 0 => \A r \in log : r.ev_txid # mover.xid
      BY <1>1, RunningFacts DEF RunsNow, LogRight
    <2>. QED
      BY <2>1, <2>2 DEF LogStep, Without
  <1>. QED
    BY <1>2, <1>3, <1>4, <1>5, <1>6 DEF Pgqd

\* Steps that write no event: somebody may look at the queue, a rotation begin.
Shrinks ==
  /\ UNCHANGED queue
  /\ maint' = maint \/ maint' = NULL \/ maint'.step = 1
  /\ \A t \in Table : event'[t] \subseteq event[t]
  /\ \A x, t : Looked(x, t)' => Looked(x, t) \/ t = queue.cur_table

\* Steps that write one, into the table that was the current one.
Writes(x, t) ==
  /\ UNCHANGED <<queue, maint>>
  /\ x \in Nat /\ t \in Table /\ Looked(x, t)
  /\ \A u \in Table : \A r \in event'[u] :
       r \in event[u] \/ (u = t /\ r.ev_txid = IF x = 0 THEN nextXid ELSE x)
  /\ \A y, u : Looked(y, u)' => Looked(y, u)

\* What a producer has looked up and what the mover has.
LEMMA LookedParts ==
  \A x, t :
    /\ Looked(x, t) <=> \/ \E p \in Producer : xact[p].state = "loaded" /\ xact[p].xid = x /\ xact[p].table = t
                        \/ mover # NULL /\ mover.state = "loaded" /\ mover.xid = x /\ mover.table = t
    /\ Looked(x, t)' <=> \/ \E p \in Producer : xact'[p].state = "loaded" /\ xact'[p].xid = x /\ xact'[p].table = t
                         \/ mover' # NULL /\ mover'.state = "loaded" /\ mover'.xid = x /\ mover'.table = t
  BY Zenon DEF Looked

\* Producers look at the queue, or write.
LEMMA KindProducer ==
  ASSUME Inv, NEW p \in Producer, Produce(p)
  PROVE  Shrinks \/ \E x, t : Writes(x, t)
  <1>1. Typed /\ UNCHANGED <<queue, maint, mover>> /\ xact[p].xid \in Nat /\ xact[p].table \in Table
    <2>1. Typed /\ TypeOK
      BY DEF Inv, Typed
    <2>2. UNCHANGED producerUnchanged
      BY Zenon DEF Produce, Begin, load_queue_info, pgq_insert_event_raw, Commit, Abort
    <2>. QED
      BY <2>1, <2>2 DEF TypeOK, producerUnchanged
  <1>2. ASSUME OtherXacts(p), xact'[p].state = "loaded" => xact'[p].table = queue.cur_table
        PROVE  \A x, t : Looked(x, t)' => Looked(x, t) \/ t = queue.cur_table
    BY <1>1, <1>2, LookedParts DEF OtherXacts
  <1>3. CASE Begin(p)
    <2>1. OtherXacts(p) /\ xact'[p].state = "open" /\ UNCHANGED event
      BY <1>1, <1>3, BeginEffect
    <2>. QED
      BY <1>1, <1>2, <2>1 DEF Shrinks
  <1>4. CASE load_queue_info(p)
    <2>1. OtherXacts(p) /\ xact'[p].table = queue.cur_table /\ UNCHANGED event
      BY <1>1, <1>4, LoadEffect
    <2>. QED
      BY <1>1, <1>2, <2>1 DEF Shrinks
  <1>5. CASE pgq_insert_event_raw(p)
    <2>1. /\ OtherXacts(p) /\ xact[p].state = "loaded" /\ xact'[p].state = "open"
          /\ \A t \in Table :
               event'[t] = IF t = xact[p].table THEN event[t] \cup {InsertRow(p)} ELSE event[t]
      BY <1>1, <1>5, InsertEffect, Zenon
    <2>2. InsertRow(p).ev_txid = IF xact[p].xid = 0 THEN nextXid ELSE xact[p].xid
      BY DEF InsertRow, InsertXid
    <2>3. Looked(xact[p].xid, xact[p].table)
      BY <2>1 DEF Looked
    <2>4. \A y, u : Looked(y, u)' => Looked(y, u)
      BY <1>1, <2>1, LookedParts DEF OtherXacts
    <2>5. Writes(xact[p].xid, xact[p].table)
      BY <1>1, <2>1, <2>2, <2>3, <2>4 DEF Writes
    <2>. QED
      BY <2>5
  <1>6. CASE Commit(p) \/ Abort(p)
    <2>1. OtherXacts(p) /\ xact'[p].state = "idle"
      BY <1>1, <1>6, EndEffect DEF NoXact
    <2>2. \A t \in Table : event'[t] \subseteq event[t]
      BY <1>6 DEF Commit, Abort, Without
    <2>. QED
      BY <1>1, <1>2, <2>1, <2>2 DEF Shrinks
  <1>. QED
    BY <1>3, <1>4, <1>5, <1>6 DEF Produce

\* So does the mover; rotations switch.
LEMMA KindServer ==
  ASSUME Inv, Pgqd
  PROVE  Shrinks \/ (\E x, t : Writes(x, t)) \/ maint_rotate_tables_step2 \/ maint_commits
  <1>1. Typed /\ XidsRight /\ MoverRight /\ UNCHANGED xact
    BY Zenon DEF Inv, Pgqd, ticker_inserts, ticker_commits, maint_rotate_tables_step1, maint_rotate_tables_step2,
       maint_commits, maint_retry_events_loads, maint_retry_events_moves, maint_retry_events_commits, pgqd_dies,
       serverUnchanged, producerVars
  <1>2. ASSUME mover' = mover \/ mover' = NULL \/ mover'.state = "open"
        PROVE  \A x, t : Looked(x, t)' => Looked(x, t)
    <2>1. ASSUME NEW x, NEW t, Looked(x, t)' PROVE Looked(x, t)
      <3>1. CASE \E p \in Producer : xact'[p].state = "loaded" /\ xact'[p].xid = x /\ xact'[p].table = t
        BY <1>1, <3>1 DEF Looked
      <3>2. CASE mover' # NULL /\ mover'.state = "loaded" /\ mover'.xid = x /\ mover'.table = t
        <4>1. mover' = mover
          BY <1>2, <3>2
        <4>. QED
          BY <3>2, <4>1 DEF Looked
      <3>. QED
        BY <2>1, <3>1, <3>2, LookedParts
    <2>. QED
      BY <2>1
  <1>3. CASE ticker_inserts \/ ticker_commits \/ maint_rotate_tables_step1
    <2>1. UNCHANGED <<queue, event, mover>> /\ (maint' = maint \/ maint'.step = 1)
      BY <1>3 DEF ticker_inserts, ticker_commits, maint_rotate_tables_step1
    <2>. QED
      BY <1>2, <2>1 DEF Shrinks
  <1>4. ASSUME NEW q \in retry_queue, maint_retry_events_loads(q) PROVE Shrinks
    <2>1. UNCHANGED <<queue, event, maint>>
      BY <1>4 DEF maint_retry_events_loads
    <2>2. mover'.table = queue.cur_table
      BY <1>1, <1>4, LoadsEffect
    <2>3. \A x, t : Looked(x, t)' => Looked(x, t) \/ t = queue.cur_table
      BY <1>1, <2>2, LookedParts, Zenon
    <2>. QED
      BY <2>1, <2>3 DEF Shrinks
  <1>5. CASE maint_retry_events_moves
    <2>1. /\ mover # NULL /\ mover.state = "loaded" /\ mover.table \in Table /\ mover'.state = "open"
          /\ \A t \in Table : event'[t] = IF t = mover.table THEN event[t] \cup {MoveRow} ELSE event[t]
      BY <1>1, <1>5, MovesEffect, Zenon
    <2>2. MoveRow.ev_txid = (IF mover.xid = 0 THEN nextXid ELSE mover.xid) /\ mover.xid \in Nat
      BY <1>1, <2>1, RowTypes DEF MoveRow, MoveXid
    <2>3. UNCHANGED <<queue, maint>>
      BY <1>5 DEF maint_retry_events_moves
    <2>4. Looked(mover.xid, mover.table)
      BY <2>1 DEF Looked
    <2>5. Writes(mover.xid, mover.table)
      BY <1>2, <2>1, <2>2, <2>3, <2>4 DEF Writes
    <2>. QED
      BY <2>5
  <1>6. CASE maint_retry_events_commits
    <2>1. UNCHANGED <<queue, event, maint>> /\ mover' = NULL
      BY <1>6 DEF maint_retry_events_commits
    <2>. QED
      BY <1>2, <2>1 DEF Shrinks
  <1>7. CASE pgqd_dies
    <2>1. UNCHANGED queue /\ maint' \in {maint, NULL} /\ mover' \in {mover, NULL}
          /\ (event' = event \/ event' = Without(mover.xid))
      BY <1>7, Zenon DEF pgqd_dies
    <2>2. \A t \in Table : event'[t] \subseteq event[t]
      BY <2>1 DEF Without
    <2>. QED
      BY <1>2, <2>1, <2>2 DEF Shrinks
  <1>. QED
    BY <1>3, <1>4, <1>5, <1>6, <1>7 DEF Pgqd

Kinds == Shrinks \/ (\E x, t : Writes(x, t)) \/ maint_rotate_tables_step2 \/ maint_commits

\* A rotation's second step is later than all who run ...
LEMMA PlacesStep2 ==
  ASSUME PlaceInv, XidStep, maint_rotate_tables_step2
  PROVE  PlacesRight'
  <1>1. Inv /\ Typed /\ XidsRight /\ RowsRight /\ PlacesRight
    BY DEF PlaceInv, StandInv, Inv
  <1>2. /\ UNCHANGED <<queue, event, xact, mover>> /\ maint'.xid = nextXid /\ queue.switch_step2 = 0
    BY <1>1, RotateXids DEF maint_rotate_tables_step2, serverUnchanged, producerVars
  <1>3. \A x, t : (Looked(x, t)' <=> Looked(x, t)) /\ (Looked(x, t) => x < nextXid)
    BY <1>1, <1>2, LookedParts, RunsBelow
  <1>4. Near' = Near /\ \A x : x < nextXid => BeforeStep2(x)'
    BY <1>2 DEF Near, Previous, BeforeStep2
  <1>5. \A t \in Table : \A r \in event[t] : r.ev_txid < nextXid /\ (r.ev_txid \notin Running => r.ev_txid \notin Running')
    BY <1>1, XidStepFacts, RowTypes DEF RowsRight
  <1>. QED
    BY <1>1, <1>2, <1>3, <1>4, <1>5 DEF PlacesRight

\* ... and nobody of those who run was there before the first one, when that commits.
LEMMA PlacesCommit ==
  ASSUME PlaceInv, XidStep, maint_commits, WritersInTime, SomebodyReads
  PROVE  PlacesRight'
  <1>1. Inv /\ Typed /\ XidsRight /\ RowsRight /\ MaintRight /\ PlacesRight
    BY DEF PlaceInv, StandInv, Inv
  <1>2. /\ maint # NULL /\ maint' = NULL /\ maint.step \in {1, 2} /\ maint.xid \in Nat /\ maint.nr \in Table
        /\ UNCHANGED <<mover, xact>> /\ queue.cur_table \in Table
    BY <1>1, CommitEffect, RowTypes
  <1>3. \A x, t : Looked(x, t)' <=> Looked(x, t)
    BY <1>2, LookedParts
  <1>4. \A t \in Table : \A r \in event[t] : r.ev_txid \notin Running => r.ev_txid \notin Running'
    BY <1>1, XidStepFacts, RowTypes DEF RowsRight
  <1>5. CASE maint.step = 2
    <2>1. /\ queue'.cur_table = queue.cur_table /\ queue'.switch_step2 = maint.xid /\ event' = event
      BY <1>1, <1>5, CommitEffect
    <2>2. Near' = Near /\ \A x : BeforeStep2(x) => BeforeStep2(x)'
      BY <1>2, <1>5, <2>1 DEF Near, Previous, BeforeStep2
    <2>. QED
      BY <1>1, <1>3, <1>4, <2>1, <2>2 DEF PlacesRight
  <1>6. CASE maint.step = 1
    <2>. DEFINE cur == queue.cur_table
    <2>1. /\ queue'.cur_table = maint.nr /\ queue'.switch_step2 = 0
          /\ \A t \in Table : event'[t] = IF t = maint.nr THEN {} ELSE event[t]
          /\ maint.nr = (cur + 1) % NTables
      BY <1>1, <1>2, <1>6, CommitEffect DEF MaintRight
    <2>2. Previous(maint.nr) = cur
      BY <1>2, <2>1, NextTable
    <2>3. Near' = {maint.nr, cur} /\ \A x : BeforeStep2(x)'
      BY <1>2, <2>1, <2>2 DEF Near, Previous, BeforeStep2
    <2>4. \A x \in Running : x \in Nat /\ queue.switch_step2 \in Nat \ {0} /\ ~(x < queue.switch_step2)
      BY <1>2, <1>6, SwitchSafe DEF Rotating
    <2>5. queue.switch_step2 # 0
      BY <1>1, <1>2, <1>6 DEF MaintRight
    <2>6. \A x \in Running : ~BeforeStep2(x)
      BY <2>4, <2>5 DEF BeforeStep2
    <2>7. \A t \in Table : \A r \in event'[t] : t \notin Near' => r.ev_txid \notin Running'
      BY <1>1, <1>4, <2>1, <2>3, <2>6 DEF PlacesRight
    <2>8. ASSUME NEW x \in Nat, NEW t \in Table, Looked(x, t), t # cur PROVE FALSE
      <3>1. x # 0
        BY <1>2, <2>8 DEF WritersInTime, Late
      <3>2. x \in Running
        BY <2>8, <3>1, RunningFacts DEF RunsNow, Looked
      <3>. QED
        BY <1>1, <2>6, <2>8, <3>1, <3>2 DEF PlacesRight
    <2>. QED
      BY <1>2, <1>3, <2>1, <2>3, <2>7, <2>8 DEF PlacesRight
  <1>. QED
    BY <1>2, <1>5, <1>6

\* Who writes is in time.
LEMMA PlacesNext ==
  ASSUME PlaceInv, XidStep, Kinds, WritersInTime, SomebodyReads
  PROVE  PlacesRight'
  <1>1. Inv /\ Typed /\ XidsRight /\ RowsRight /\ PlacesRight
    BY DEF PlaceInv, StandInv, Inv
  <1>2. \A t \in Table : \A r \in event[t] : r.ev_txid \notin Running => r.ev_txid \notin Running'
    BY <1>1, XidStepFacts, RowTypes DEF RowsRight
  <1>3. CASE Shrinks
    <2>1. /\ Near' = Near /\ queue.cur_table \in Near /\ UNCHANGED queue
          /\ \A x : BeforeStep2(x) => BeforeStep2(x)'
      BY <1>3 DEF Shrinks, Near, Previous, BeforeStep2
    <2>. QED
      BY <1>1, <1>2, <1>3, <2>1 DEF Shrinks, PlacesRight
  <1>4. ASSUME NEW x, NEW t, Writes(x, t) PROVE PlacesRight'
    <2>1. /\ Near' = Near /\ UNCHANGED <<queue, maint>>
          /\ \A y : BeforeStep2(y) => BeforeStep2(y)'
      BY <1>4 DEF Writes, Near, Previous, BeforeStep2
    <2>2. x \in Nat /\ t \in Table /\ t \in Near
      BY <1>1, <1>4 DEF Writes, PlacesRight
    <2>3. t # queue.cur_table => BeforeStep2(IF x = 0 THEN nextXid ELSE x)
      <3>1. CASE x = 0
        <4>1. ~Late(t)
          BY <1>4, <3>1 DEF Writes, WritersInTime
        <4>. QED
          BY <4>1 DEF Late, BeforeStep2
      <3>2. CASE x # 0
        BY <1>1, <1>4, <3>2 DEF Writes, PlacesRight
      <3>. QED
        BY <3>1, <3>2
    <2>4. \A u \in Table : \A r \in event'[u] :
            /\ u # queue.cur_table => BeforeStep2(r.ev_txid)'
            /\ u \notin Near => r.ev_txid \notin Running'
      BY <1>1, <1>2, <1>4, <2>1, <2>2, <2>3 DEF Writes, PlacesRight
    <2>5. \A y \in Nat, u \in Table : Looked(y, u)' => u \in Near /\ (y # 0 /\ u # queue.cur_table => BeforeStep2(y)')
      BY <1>1, <1>4, <2>1 DEF Writes, PlacesRight
    <2>. QED
      BY <2>1, <2>4, <2>5 DEF PlacesRight
  <1>. QED
    BY <1>3, <1>4, PlacesStep2, PlacesCommit DEF Kinds

-----------------------------------------------------------------------------
(* What ticks do not show stays near.                                      *)

\* A rotation empties a table.
Switches == maint_commits /\ maint.step = 1

\* A committed event that a tick does not show stays in its table.
LEMMA RowsStay ==
  ASSUME Inv, PlacesRight, LogStep, NEW s \in SnapshotType, Switches => s.xmin >= queue.switch_step2
  PROVE  \A t \in Table : \A r \in event[t] : r \in log /\ ~Visible(r.ev_txid, s) => r \in event'[t]
  <1>1. SUFFICES ASSUME NEW t \in Table, NEW r \in event[t], r \in log, ~Visible(r.ev_txid, s), r \notin event'[t]
                 PROVE  FALSE
    OBVIOUS
  <1>2. Switches /\ maint.nr = t
    BY <1>1 DEF LogStep, Switches
  <1>3. /\ maint # NULL /\ maint.nr = (queue.cur_table + 1) % NTables /\ queue.switch_step2 # 0
        /\ queue.cur_table \in Table
    BY <1>2, RowTypes DEF Switches, maint_commits, Inv, MaintRight
  <1>4. t # queue.cur_table
    BY <1>2, <1>3, NextTable
  <1>. QED
    BY <1>1, <1>2, <1>3, <1>4, ElsewhereShown

\* So what a snapshot does not show stays near the current table.
KeptStep == \A s \in SnapshotType : Kept(s) /\ (Switches => s.xmin >= queue.switch_step2) => Kept(s)'

\* A committed event was near when it was written; a switch leaves one table behind,
\* which has nothing left to show.
LEMMA KeptNext ==
  ASSUME PlaceInv, LogStep, Kinds
  PROVE  KeptStep
  <1>1. SUFFICES ASSUME NEW s \in SnapshotType, Kept(s), Switches => s.xmin >= queue.switch_step2 PROVE Kept(s)'
    BY DEF KeptStep
  <1>2. /\ Inv /\ Typed /\ PlacesRight /\ MaintRight /\ queue.cur_table \in Table /\ Near \subseteq Table
        /\ \A t \in Table : \A r \in event[t] : r \in log /\ ~Visible(r.ev_txid, s) => r \in event'[t]
    BY <1>1, RowsStay, RowTypes, TableFacts DEF PlaceInv, StandInv, Inv, Near
  <1>3. \A r \in log' : ~Visible(r.ev_txid, s) => \E t \in Near : r \in event'[t]
    BY <1>1, <1>2 DEF LogStep, Kept, PlacesRight
  <1>4. ASSUME UNCHANGED queue, \A t \in Table \ Near : event'[t] \subseteq event[t] PROVE Kept(s)'
    BY <1>1, <1>3, <1>4 DEF Kept, Near, Previous
  <1>5. CASE Shrinks
    BY <1>4, <1>5 DEF Shrinks
  <1>6. ASSUME NEW x, NEW t, Writes(x, t) PROVE Kept(s)'
    BY <1>2, <1>4, <1>6 DEF Writes, PlacesRight
  <1>7. CASE maint_rotate_tables_step2
    BY <1>4, <1>7 DEF maint_rotate_tables_step2
  <1>8. CASE maint_commits
    <2>1. maint # NULL /\ maint.step \in {1, 2} /\ UNCHANGED log /\ maint.nr \in Table
      BY <1>2, <1>8, CommitEffect, RowTypes
    <2>2. CASE maint.step = 2
      <3>1. queue'.cur_table = queue.cur_table /\ event' = event
        BY <1>2, <1>8, <2>2, CommitEffect
      <3>. QED
        BY <1>1, <1>3, <3>1 DEF Kept, Near, Previous
    <2>3. CASE maint.step = 1
      <3>. DEFINE cur == queue.cur_table
      <3>1. /\ maint.nr = (cur + 1) % NTables /\ queue.switch_step2 # 0 /\ s.xmin >= queue.switch_step2
            /\ queue'.cur_table = maint.nr
            /\ \A t \in Table : event'[t] = IF t = maint.nr THEN {} ELSE event[t]
        BY <1>1, <1>2, <1>8, <2>1, <2>3, CommitEffect DEF Switches, MaintRight
      <3>2. maint.nr # cur /\ Previous(maint.nr) = cur
        BY <1>2, <3>1, NextTable
      <3>3. Near' = {maint.nr, cur}
        BY <3>1, <3>2 DEF Near, Previous
      <3>4. \A t \in Table : t # cur => \A r \in event[t] : Visible(r.ev_txid, s)
        BY <1>2, <3>1, ElsewhereShown
      <3>5. \A r \in log : ~Visible(r.ev_txid, s) => r \in event'[cur]
        BY <1>1, <1>2, <3>1, <3>2, <3>4 DEF Kept
      <3>. QED
        BY <2>1, <3>1, <3>3, <3>4, <3>5 DEF Kept
    <2>. QED
      BY <2>1, <2>2, <2>3
  <1>. QED
    BY <1>5, <1>6, <1>7, <1>8 DEF Kinds

\* A snapshot that is taken now shows all that is committed.
LEMMA NewKept ==
  ASSUME PlaceInv
  PROVE  Kept(Snapshot)
  <1>1. /\ Typed /\ TypeOK /\ RowsRight /\ LogRight /\ PlacesRight /\ LogDone
        /\ latestCompletedXid \in Nat
    BY DEF PlaceInv, StandInv, Inv, Typed, TypeOK
  <1>2. PICK s : s = Snapshot
    OBVIOUS
  <1>3. s.xmax = latestCompletedXid + 1 /\ s.xip \subseteq Running
    BY <1>1, <1>2, SnapshotFacts
  <1>4. \A r \in log : Visible(r.ev_txid, s)
    BY <1>1, <1>3, RowTypes DEF LogDone, LogRight, Visible
  <1>5. \A t \in Table \ Near : \A r \in event[t] : r \in log
    BY <1>1 DEF PlacesRight, RowsRight
  <1>. QED
    BY <1>2, <1>4, <1>5 DEF Kept

\* A committed txid is completed.
LEMMA DoneNext ==
  ASSUME PlaceInv, Inv', LogStep, XidStep
  PROVE  LogDone'
  <1>1. /\ Typed /\ XidsRight /\ LogRight' /\ LogDone /\ \A r \in log : r.ev_txid \in Nat
    BY RowTypes DEF PlaceInv, StandInv, Inv
  <1>2. latestCompletedXid \in Nat /\ latestCompletedXid' \in Nat /\ latestCompletedXid <= latestCompletedXid'
    BY <1>1, XidStepFacts
  <1>3. \A r \in log : r.ev_txid <= latestCompletedXid'
    BY <1>1, <1>2 DEF LogDone
  <1>4. ASSUME NEW r \in log', r \notin log PROVE r.ev_txid <= latestCompletedXid'
    <2>1. r.ev_txid \in Running /\ r.ev_txid \notin Running' /\ r.ev_txid \in Nat
      BY <1>1, <1>4 DEF LogStep, LogRight
    <2>2. \E x : Ends(x)
      BY <2>1 DEF XidStep, Starts, Stays
    <2>3. Completed(r.ev_txid)
      BY <2>1, <2>2 DEF Ends
    <2>. QED
      BY <1>2, <2>1, <2>3 DEF Completed
  <1>. QED
    BY <1>3, <1>4 DEF LogDone

\* Ticks that are made are after the switch, and ticks before it are deleted with it.
LEMMA LateServer ==
  ASSUME PlaceInv, Inv', Pgqd, KeptStep, SomebodyReads
  PROVE  TicksLate'
  <1>1. /\ Typed /\ MaintRight /\ XidsRight /\ TicksRight /\ LiveRight /\ TicksLate
        /\ \A t \in tick : t.snapshot \in SnapshotType /\ t.snapshot.xmin \in Nat
        /\ ticker # NULL => ticker.snapshot \in SnapshotType
        /\ queue.switch_step2 \in Nat
    BY TickTypes, RowTypes DEF PlaceInv, StandInv, Inv, SnapshotType
  <1>2. \A s : ~Switches /\ s \in SnapshotType /\ Kept(s) => Kept(s)'
    BY DEF KeptStep
  <1>3. ASSUME NEW s \in SnapshotType, ticker # NULL, s = ticker.snapshot PROVE Kept(s)'
    <2>1. Kept(s)
      BY <1>1, <1>3 DEF TicksLate
    <2>2. Switches => s.xmin >= queue.switch_step2
      <3>1. Switches => Rotating
        BY DEF Switches, Rotating, maint_commits
      <3>. QED
        BY <1>3, <3>1, SwitchSafe
    <2>. QED
      BY <2>1, <2>2 DEF KeptStep
  <1>4. ASSUME ticker' = ticker, ticker # NULL PROVE Kept(ticker.snapshot)'
    <2>1. PICK s \in SnapshotType : s = ticker.snapshot
      BY <1>1, <1>4
    <2>2. Kept(s)' /\ ticker'.snapshot = s
      BY <1>3, <1>4, <2>1
    <2>. QED
      BY <2>2 DEF Kept
  <1>5. ASSUME UNCHANGED <<queue, tick, maint>>, ticker' = ticker \/ ticker' = NULL PROVE TicksLate'
    <2>1. ~Switches
      BY <1>5 DEF Switches, maint_commits
    <2>2. Live' = Live /\ (Rotating' <=> Rotating)
      BY <1>5 DEF Live, Rotating
    <2>3. \A t \in tick' : Kept(t.snapshot)'
      BY <1>1, <1>2, <1>5, <2>1 DEF TicksLate
    <2>. QED
      BY <1>1, <1>4, <1>5, <2>2, <2>3 DEF TicksLate
  <1>6. CASE maint_retry_events_moves \/ maint_retry_events_commits \/ \E q \in retry_queue : maint_retry_events_loads(q)
    <2>1. UNCHANGED <<queue, tick, maint, ticker>>
      BY <1>6 DEF maint_retry_events_moves, maint_retry_events_commits, maint_retry_events_loads
    <2>. QED
      BY <1>5, <2>1
  <1>7. CASE ticker_inserts
    <2>1. UNCHANGED <<queue, tick, maint>> /\ ticker'.snapshot = Snapshot /\ ~Switches
      BY <1>7 DEF ticker_inserts, Switches, maint_commits
    <2>2. PICK s \in SnapshotType : s = Snapshot
      BY <1>1, NewSnapshot
    <2>3. Kept(s)'
      <3>1. Kept(s)
        BY <2>2, NewKept
      <3>. QED
        BY <1>2, <2>1, <3>1
    <2>4. Kept(ticker.snapshot)'
      BY <2>1, <2>2, <2>3 DEF Kept
    <2>5. Live' = Live /\ (Rotating' <=> Rotating)
      BY <2>1 DEF Live, Rotating
    <2>6. \A t \in tick' : Kept(t.snapshot)'
      BY <1>1, <1>2, <2>1 DEF TicksLate
    <2>. QED
      BY <1>1, <2>1, <2>4, <2>5, <2>6 DEF TicksLate
  <1>8. CASE ticker_commits
    <2>1. /\ UNCHANGED <<queue, maint>> /\ ticker # NULL /\ ticker' = NULL /\ ~Switches
          /\ tick' = tick \cup {[id |-> ticker.id, event_seq |-> ticker.event_seq,
                        snapshot |-> ticker.snapshot]}
      BY <1>8 DEF ticker_commits, Switches, maint_commits
    <2>2. PICK s \in SnapshotType : s = ticker.snapshot
      BY <1>1, <2>1
    <2>3. \A t \in tick' : t \in tick \/ t.snapshot = s
      BY <2>1, <2>2
    <2>4. \A t \in tick' : Kept(t.snapshot)'
      BY <1>1, <1>2, <1>3, <2>1, <2>2, <2>3 DEF TicksLate
    <2>5. Rotating' => \A t \in Live' : t.snapshot.xmin >= queue.switch_step2
      <3>1. Rotating' <=> Rotating
        BY <2>1 DEF Rotating
      <3>2. Rotating => s.xmin >= queue.switch_step2
        BY <2>1, <2>2, SwitchSafe
      <3>3. \A t \in Live' : t \in Live \/ t.snapshot = s
        BY <2>1, <2>3 DEF Live
      <3>. QED
        BY <1>1, <3>1, <3>2, <3>3 DEF TicksLate
    <2>. QED
      BY <2>1, <2>4, <2>5 DEF TicksLate
  <1>9. CASE maint_rotate_tables_step1 \/ maint_rotate_tables_step2
    <2>1. /\ UNCHANGED <<queue, tick, ticker>> /\ maint = NULL /\ maint' # NULL
          /\ Rotating' => maint'.dead = {t \in tick : t.snapshot.xmin < queue.switch_step2}
      BY <1>1, <1>9, RotateXids DEF maint_rotate_tables_step1, maint_rotate_tables_step2, Rotating
    <2>2. ~Switches
      BY <2>1 DEF Switches, maint_commits
    <2>3. \A t \in tick' : Kept(t.snapshot)'
      BY <1>1, <1>2, <2>1, <2>2 DEF TicksLate
    <2>4. Rotating' => \A t \in Live' : t.snapshot.xmin >= queue.switch_step2
      BY <1>1, <2>1 DEF Live
    <2>. QED
      BY <1>4, <2>1, <2>3, <2>4 DEF TicksLate
  <1>a. CASE maint_commits
    <2>1. /\ maint # NULL /\ maint' = NULL /\ tick' = tick \ maint.dead /\ UNCHANGED ticker
      BY <1>1, <1>a, CommitEffect
    <2>2. \A t \in tick' : t \in Live /\ t \in tick
      BY <2>1 DEF Live
    <2>3. \A t \in tick' : Kept(t.snapshot)'
      <3>1. SUFFICES ASSUME NEW t \in tick' PROVE Kept(t.snapshot)'
        OBVIOUS
      <3>2. Switches => t.snapshot.xmin >= queue.switch_step2
        BY <1>1, <2>1, <2>2 DEF TicksLate, Switches, Rotating
      <3>3. Kept(t.snapshot) /\ t.snapshot \in SnapshotType
        BY <1>1, <2>2 DEF TicksLate
      <3>. QED
        BY <3>2, <3>3 DEF KeptStep
    <2>. QED
      BY <1>4, <2>1, <2>3 DEF TicksLate, Rotating
  <1>b. CASE pgqd_dies
    <2>1. /\ UNCHANGED <<queue, tick>> /\ maint' \in {maint, NULL} /\ ticker' \in {ticker, NULL} /\ ~maint_commits
      <3>1. UNCHANGED <<queue, tick>> /\ maint' \in {maint, NULL} /\ ticker' \in {ticker, NULL}
        BY <1>b, Zenon DEF pgqd_dies
      <3>2. ASSUME maint_commits PROVE FALSE
        <4>1. maint # NULL /\ maint.step \in {1, 2} /\ maint.xid > 0
          BY <1>1, <3>2, RowTypes DEF maint_commits, XidsRight
        <4>2. maint.step = 1 => queue'.switch_step2 = 0 /\ queue.switch_step2 # 0
          BY <1>1, <3>2, <4>1, CommitEffect DEF MaintRight
        <4>3. maint.step = 2 => queue'.switch_step2 = maint.xid /\ queue.switch_step2 = 0
          BY <1>1, <3>2, <4>1, CommitEffect DEF MaintRight
        <4>. QED
          BY <3>1, <4>1, <4>2, <4>3
      <3>. QED
        BY <3>1, <3>2
    <2>2. \A t \in tick' : Kept(t.snapshot)'
      BY <1>1, <1>2, <2>1 DEF TicksLate, Switches
    <2>3. Rotating' => Rotating /\ Live' = Live
      BY <2>1 DEF Rotating, Live
    <2>. QED
      BY <1>1, <1>4, <2>1, <2>2, <2>3 DEF TicksLate
  <1>. QED
    BY <1>6, <1>7, <1>8, <1>9, <1>a, <1>b DEF Pgqd

-----------------------------------------------------------------------------
(* What consumers get.                                                     *)

\* A subscription has seen what it was due.
StandRight(c) ==
  subscription[c] # NULL => Leq(start[c], Last(c)) /\ seen[c] = Due(c, start[c], Last(c))

\* A batch will get what it is due, or has got it.
BatchRight(c) ==
  /\ batch[c] # NULL =>
       /\ batch[c].last = Last(c) /\ batch[c].cur = Cur(c) /\ batch[c].tables \subseteq Table
       /\ \A r \in log : Visible(r.ev_txid, Cur(c)) /\ ~Visible(r.ev_txid, Last(c)) =>
            \E t \in batch[c].tables : r \in event[t]
  /\ got[c] # NULL => got[c] = Due(c, Last(c), Cur(c))

\* Both, and it never got a row twice.
ConsumerRight(c) == StandRight(c) /\ BatchRight(c) /\ ~again[c]

DeliveryInv == PlaceInv /\ \A c \in Consumer : ConsumerRight(c)

\* What is searched for as a range and what is listed, of a batch.
LEMMA RangeAndList ==
  ASSUME NEW last \in SnapshotType, NEW cur \in SnapshotType, SnapshotRight(last), SnapshotRight(cur),
         Leq(last, cur), NEW x \in Nat
  PROVE  /\ ByRange(last, cur, x) \/ InList(last, cur, x) <=> Visible(x, cur) /\ ~Visible(x, last)
         /\ ~(ByRange(last, cur, x) /\ InList(last, cur, x))
  <1>1. /\ last.xmin \in Nat /\ last.xmax \in Nat /\ cur.xmin \in Nat /\ cur.xmax \in Nat
        /\ last.xip \subseteq Nat /\ cur.xip \subseteq Nat
        /\ last.xmin <= last.xmax /\ cur.xmin <= cur.xmax /\ last.xmin <= cur.xmin /\ last.xmax <= cur.xmax
        /\ \A y \in last.xip : last.xmin <= y /\ y < last.xmax
        /\ \A y \in cur.xip : cur.xmin <= y /\ y < cur.xmax
    BY DEF SnapshotType, SnapshotRight, SnapshotFits, Leq
  <1>. DEFINE near == {i \in Older(last, cur) : InRange(last, cur, i)}
              S == {last.xmax} \cup near
              low == Lowest(S)
  <1>2. Older(last, cur) \subseteq Nat /\ Older(last, cur) = last.xip \ cur.xip
    BY <1>1 DEF Older
  <1>3. low \in S /\ \A y \in S : low <= y
    BY <1>1, <1>2, LowestFacts
  <1>4. low \in Nat
    BY <1>1, <1>2, <1>3
  <1>5. ByRange(last, cur, x) <=> x >= low /\ x <= cur.xmax /\ Visible(x, cur) /\ ~Visible(x, last)
    BY DEF ByRange
  <1>6. InList(last, cur, x) <=> x \in Older(last, cur) /\ ~InRange(last, cur, x)
    BY DEF InList
  <1>7. last.xmax \in S /\ \A y \in S : y = last.xmax \/ (y \in Older(last, cur) /\ InRange(last, cur, y))
    OBVIOUS
  <1>8. x \in Older(last, cur) /\ InRange(last, cur, x) => x \in S
    OBVIOUS
  <1>. HIDE DEF S, low, near
  <1>9. ASSUME Visible(x, cur), ~Visible(x, last), ~ByRange(last, cur, x) PROVE InList(last, cur, x)
    <2>1. x <= cur.xmax /\ x >= last.xmin /\ (x >= last.xmax \/ x \in last.xip) /\ x \notin cur.xip
      BY <1>1, <1>9 DEF Visible
    <2>2. ~(x >= low)
      BY <1>5, <1>9, <2>1
    <2>3. x < last.xmax
      BY <1>1, <1>3, <1>4, <1>7, <2>2
    <2>4. x \in Older(last, cur)
      BY <1>1, <1>2, <2>1, <2>3
    <2>5. ~InRange(last, cur, x)
      BY <1>3, <1>4, <1>8, <2>2, <2>4
    <2>. QED
      BY <1>6, <2>4, <2>5
  <1>10. ASSUME InList(last, cur, x) PROVE Visible(x, cur) /\ ~Visible(x, last)
    <2>1. x \in last.xip /\ x \notin cur.xip
      BY <1>2, <1>6, <1>10
    <2>. QED
      BY <1>1, <2>1 DEF Visible
  <1>11. ASSUME InList(last, cur, x), ByRange(last, cur, x) PROVE FALSE
    <2>1. x \in Older(last, cur) /\ ~InRange(last, cur, x) /\ x >= low
      BY <1>5, <1>6, <1>11
    <2>2. low # last.xmax
      BY <1>1, <1>2, <2>1
    <2>3. low \in Older(last, cur) /\ InRange(last, cur, low)
      BY <1>3, <1>7, <2>2
    <2>4. InRange(last, cur, x)
      BY <1>2, <1>4, <2>1, <2>3 DEF InRange
    <2>. QED
      BY <2>1, <2>4
  <1>. QED
    BY <1>5, <1>9, <1>10, <1>11

\* What the query returns, row by row.
LEMMA QueryRows ==
  ASSUME NEW c, NEW b
  PROVE  /\ \A z : z \in batch_event_sql(c, b) <=>
              \E t \in b.tables : \E r \in event[t] :
                /\ r.ev_txid \notin Running /\ retry_expr(c, r)
                /\ \/ z = <<<<t, "range">>, r>> /\ HasTicks(c) /\ ByRange(b.last, b.cur, r.ev_txid)
                   \/ z = <<<<t, "list">>, r>> /\ InList(b.last, b.cur, r.ev_txid)
  <1>. DEFINE rows(t) == {r \in event[t] : r.ev_txid \notin Running /\ retry_expr(c, r)}
              range(t) == {r \in rows(t) : HasTicks(c) /\ ByRange(b.last, b.cur, r.ev_txid)}
              list(t) == {r \in rows(t) : InList(b.last, b.cur, r.ev_txid)}
              part(t) == ({<<t, "range">>} \X range(t)) \cup ({<<t, "list">>} \X list(t))
  <1>1. batch_event_sql(c, b) = UNION {part(t) : t \in b.tables}
    BY DEF batch_event_sql
  <1>2. \A z : z \in batch_event_sql(c, b) <=> \E t \in b.tables : z \in part(t)
    BY <1>1
  <1>3. \A z, t : z \in part(t) <=>
          \E r \in event[t] :
                /\ r.ev_txid \notin Running /\ retry_expr(c, r)
                /\ \/ z = <<<<t, "range">>, r>> /\ HasTicks(c) /\ ByRange(b.last, b.cur, r.ev_txid)
                   \/ z = <<<<t, "list">>, r>> /\ InList(b.last, b.cur, r.ev_txid)
    <2>1. SUFFICES ASSUME NEW z, NEW t
                   PROVE  z \in part(t) <=>
                     \E r \in event[t] :
                       /\ r.ev_txid \notin Running /\ retry_expr(c, r)
                       /\ \/ z = <<<<t, "range">>, r>> /\ HasTicks(c) /\ ByRange(b.last, b.cur, r.ev_txid)
                          \/ z = <<<<t, "list">>, r>> /\ InList(b.last, b.cur, r.ev_txid)
      OBVIOUS
    <2>2. \A A, e : z \in {e} \X A <=> \E r \in A : z = <<e, r>>
      OBVIOUS
    <2>3. z \in part(t) <=> (\E r \in range(t) : z = <<<<t, "range">>, r>>) \/ (\E r \in list(t) : z = <<<<t, "list">>, r>>)
      <3>1. z \in part(t) <=> z \in {<<t, "range">>} \X range(t) \/ z \in {<<t, "list">>} \X list(t)
        OBVIOUS
      <3>2. z \in {<<t, "range">>} \X range(t) <=> \E r \in range(t) : z = <<<<t, "range">>, r>>
        BY <2>2
      <3>3. z \in {<<t, "list">>} \X list(t) <=> \E r \in list(t) : z = <<<<t, "list">>, r>>
        BY <2>2
      <3>. HIDE DEF part, range, list
      <3>. QED
        BY <3>1, <3>2, <3>3
    <2>4. \A r : r \in range(t) <=> /\ r \in event[t] /\ r.ev_txid \notin Running /\ retry_expr(c, r)
                                    /\ HasTicks(c) /\ ByRange(b.last, b.cur, r.ev_txid)
      BY Zenon
    <2>5. \A r : r \in list(t) <=> /\ r \in event[t] /\ r.ev_txid \notin Running /\ retry_expr(c, r)
                                   /\ InList(b.last, b.cur, r.ev_txid)
      BY Zenon
    <2>. HIDE DEF part, range, list
    <2>. QED
      BY <2>3, <2>4, <2>5, Zenon
  <1>. HIDE DEF part
  <1>. QED
    BY <1>2, <1>3, Zenon

\* The query returns what the batch is due, each row once.
LEMMA QueryRight ==
  ASSUME StandInv, NEW c \in Consumer, BatchRight(c), batch[c] # NULL
  PROVE  /\ RowsOf(batch_event_sql(c, batch[c])) = Due(c, Last(c), Cur(c))
         /\ ~Twice(batch_event_sql(c, batch[c]))
  <1>1. /\ Typed /\ RowsRight /\ LogRight /\ Active(c) /\ subscription[c] # NULL
    BY DEF StandInv, Inv, OpenRight, Active
  <1>2. /\ HasTicks(c) /\ batch[c].last = Last(c) /\ batch[c].cur = Cur(c) /\ batch[c].tables \subseteq Table
        /\ Last(c) \in SnapshotType /\ Cur(c) \in SnapshotType /\ SnapshotRight(Last(c)) /\ SnapshotRight(Cur(c))
        /\ Leq(Last(c), Cur(c))
    BY <1>1, StandTicks, StandFacts DEF StandInv, BatchRight
  <1>. DEFINE last == Last(c)
              cur == Cur(c)
              b == batch[c]
              result == batch_event_sql(c, b)
  <1>3. \A x \in Nat : /\ ByRange(last, cur, x) \/ InList(last, cur, x) <=> Visible(x, cur) /\ ~Visible(x, last)
                       /\ ~(ByRange(last, cur, x) /\ InList(last, cur, x))
    BY <1>2, RangeAndList, Zenon
  <1>4. \A z : z \in result <=>
              \E t \in b.tables : \E r \in event[t] :
                /\ r.ev_txid \notin Running /\ retry_expr(c, r)
                /\ \/ z = <<<<t, "range">>, r>> /\ ByRange(last, cur, r.ev_txid)
                   \/ z = <<<<t, "list">>, r>> /\ InList(last, cur, r.ev_txid)
    <2>1. \A z : z \in result <=>
              \E t \in b.tables : \E r \in event[t] :
                /\ r.ev_txid \notin Running /\ retry_expr(c, r)
                /\ \/ z = <<<<t, "range">>, r>> /\ HasTicks(c) /\ ByRange(b.last, b.cur, r.ev_txid)
                   \/ z = <<<<t, "list">>, r>> /\ InList(b.last, b.cur, r.ev_txid)
      BY QueryRows, Zenon
    <2>2. HasTicks(c) /\ b.last = last /\ b.cur = cur
      BY <1>2
    <2>. HIDE DEF last, cur, b, result
    <2>. QED
      BY <2>1, <2>2
  <1>5. \A t \in b.tables : \A r \in event[t] : r.ev_txid \in Nat /\ (r.ev_txid \notin Running => r \in log)
    BY <1>1, <1>2, RowTypes DEF RowsRight
  <1>6. \A r \in log : r.ev_txid \notin Running
    BY <1>1 DEF LogRight
  <1>7. \A r \in log : Visible(r.ev_txid, cur) /\ ~Visible(r.ev_txid, last) => \E t \in b.tables : r \in event[t]
    BY <1>1 DEF BatchRight
  <1>8. \A r : retry_expr(c, r) <=> IsFor(c, r)
    BY DEF retry_expr, IsFor
  <1>9. \A r : r \in Due(c, last, cur) <=> r \in log /\ IsFor(c, r) /\ Visible(r.ev_txid, cur) /\ ~Visible(r.ev_txid, last)
    BY Zenon DEF Due
  <1>10. \A r : r \in RowsOf(result) <=> \E z \in result : r = z[2]
    BY DEF RowsOf
  <1>11. \A t, r, k : <<<<t, k>>, r>>[2] = r /\ <<<<t, k>>, r>>[1] = <<t, k>>
    OBVIOUS
  <1>12. \A t, u : \A r, s : t \in b.tables /\ u \in b.tables /\ r \in event[t] /\ s \in event[u] /\ r = s => t = u
    BY <1>1, <1>2 DEF RowsRight
  <1>. HIDE DEF last, cur, b, result
  <1>13. \A r : r \in RowsOf(result) => r \in Due(c, last, cur)
    <2>1. SUFFICES ASSUME NEW z \in result PROVE z[2] \in Due(c, last, cur)
      BY <1>10, Zenon
    <2>2a. PICK t \in b.tables : \E r \in event[t] :
                /\ r.ev_txid \notin Running /\ retry_expr(c, r)
                /\ \/ z = <<<<t, "range">>, r>> /\ ByRange(last, cur, r.ev_txid)
                   \/ z = <<<<t, "list">>, r>> /\ InList(last, cur, r.ev_txid)
      BY <1>4, <2>1, Zenon
    <2>2. PICK r \in event[t] :
                /\ r.ev_txid \notin Running /\ retry_expr(c, r)
                /\ \/ z = <<<<t, "range">>, r>> /\ ByRange(last, cur, r.ev_txid)
                   \/ z = <<<<t, "list">>, r>> /\ InList(last, cur, r.ev_txid)
      BY <2>2a, Zenon
    <2>3. z[2] = r
      BY <2>2
    <2>. QED
      BY <1>3, <1>5, <1>8, <1>9, <2>2, <2>3, Zenon
  <1>14. \A r : r \in Due(c, last, cur) => r \in RowsOf(result)
    <2>1. SUFFICES ASSUME NEW r, r \in Due(c, last, cur) PROVE \E z \in result : r = z[2]
      BY <1>10, Zenon
    <2>2. r \in log /\ IsFor(c, r) /\ Visible(r.ev_txid, cur) /\ ~Visible(r.ev_txid, last)
      BY <1>9, <2>1, Zenon
    <2>3. PICK t \in b.tables : r \in event[t]
      BY <1>7, <2>2, Zenon
    <2>4. ByRange(last, cur, r.ev_txid) \/ InList(last, cur, r.ev_txid)
      BY <1>3, <1>5, <2>2, <2>3, Zenon
    <2>5. <<<<t, "range">>, r>> \in result \/ <<<<t, "list">>, r>> \in result
      BY <1>4, <1>6, <1>8, <2>2, <2>3, <2>4, Zenon
    <2>. QED
      BY <1>11, <2>5, Zenon
  <1>15. ~Twice(result)
    <2>1. SUFFICES ASSUME NEW y \in result, NEW z \in result, y # z, y[2] = z[2] PROVE FALSE
      BY Zenon DEF Twice
    <2>2a. PICK t \in b.tables : \E r \in event[t] :
                /\ r.ev_txid \notin Running /\ retry_expr(c, r)
                /\ \/ y = <<<<t, "range">>, r>> /\ ByRange(last, cur, r.ev_txid)
                   \/ y = <<<<t, "list">>, r>> /\ InList(last, cur, r.ev_txid)
      BY <1>4, <2>1, Zenon
    <2>2. PICK r \in event[t] :
                /\ r.ev_txid \notin Running /\ retry_expr(c, r)
                /\ \/ y = <<<<t, "range">>, r>> /\ ByRange(last, cur, r.ev_txid)
                   \/ y = <<<<t, "list">>, r>> /\ InList(last, cur, r.ev_txid)
      BY <2>2a, Zenon
    <2>3a. PICK u \in b.tables : \E s \in event[u] :
                /\ s.ev_txid \notin Running /\ retry_expr(c, s)
                /\ \/ z = <<<<u, "range">>, s>> /\ ByRange(last, cur, s.ev_txid)
                   \/ z = <<<<u, "list">>, s>> /\ InList(last, cur, s.ev_txid)
      BY <1>4, <2>1, Zenon
    <2>3. PICK s \in event[u] :
                /\ s.ev_txid \notin Running /\ retry_expr(c, s)
                /\ \/ z = <<<<u, "range">>, s>> /\ ByRange(last, cur, s.ev_txid)
                   \/ z = <<<<u, "list">>, s>> /\ InList(last, cur, s.ev_txid)
      BY <2>3a, Zenon
    <2>4. y[2] = r /\ z[2] = s
      BY <2>2, <2>3
    <2>5. r = s /\ t = u
      BY <1>12, <2>1, <2>4
    <2>6. ~(ByRange(last, cur, r.ev_txid) /\ InList(last, cur, r.ev_txid))
      BY <1>3, <1>5, Zenon
    <2>. QED
      BY <2>1, <2>2, <2>3, <2>5, <2>6, Zenon
  <1>16. RowsOf(result) = Due(c, last, cur)
    BY <1>13, <1>14
  <1>. QED
    BY <1>15, <1>16 DEF last, cur, b, result
-----------------------------------------------------------------------------
(* Nothing is lost and nothing delivered twice.                            *)

\* An id that was used stays with its tick.
TickStep == \A t \in tick' : t \in tick \/ \A u \in tick : u.id # t.id

\* A tick's id is not used again.
LEMMA TickRowSame ==
  ASSUME TicksRight, TickStep
  PROVE  \A id : HasTick(id) /\ HasTick(id)' => TickRow(id)' = TickRow(id)
  <1>1. SUFFICES ASSUME NEW id, HasTick(id), HasTick(id)' PROVE TickRow(id)' = TickRow(id)
    OBVIOUS
  <1>2. TickRow(id) \in tick /\ TickRow(id).id = id
    BY <1>1, TickRowFacts, Zenon
  <1>3. TickRow(id)' \in tick' /\ TickRow(id)'.id = id
    BY <1>1, Zenon DEF HasTick, TickRow
  <1>4. TickRow(id)' \in tick
    BY <1>2, <1>3, Zenon DEF TickStep
  <1>. QED
    BY <1>2, <1>3, <1>4, Zenon DEF TicksRight

\* What a consumer is due up to a tick does not change.
LEMMA DueSame ==
  ASSUME LogStep, NEW c \in Consumer, NEW s, NEW u, \A x \in Running : ~Visible(x, u),
         subscription'[c].id = subscription[c].id
  PROVE  Due(c, s, u)' = Due(c, s, u)
  <1>1. \A r \in log' : Visible(r.ev_txid, u) => r \in log
    BY DEF LogStep
  <1>2. log \subseteq log'
    BY DEF LogStep
  <1>. QED
    BY <1>1, <1>2 DEF Due, IsFor

\* A step that leaves a consumer alone.
LEMMA ConsumerAlone ==
  ASSUME PlaceInv, StandInv', LogStep, TickStep, NEW c \in Consumer, ConsumerRight(c),
         subscription'[c] = subscription[c], start'[c] = start[c], seen'[c] = seen[c],
         batch'[c] = batch[c], got'[c] = got[c], again'[c] = again[c]
  PROVE  ConsumerRight(c)'
  <1>1. CASE subscription[c] = NULL
    <2>1. batch[c] = NULL /\ got[c] = NULL
      BY <1>1 DEF PlaceInv, StandInv, Inv, OpenRight, Active
    <2>. QED
      BY <1>1, <2>1 DEF ConsumerRight, StandRight, BatchRight
  <1>2. CASE subscription[c] # NULL
    <2>1. PICK l, k, b : l = Last(c) /\ k = Cur(c) /\ b = start[c]
      OBVIOUS
    <2>2. /\ StandInv /\ TicksRight /\ TicksRight' /\ (batch[c] # NULL => Active(c)) /\ (got[c] # NULL => Active(c))
          /\ HasTick(subscription[c].last) /\ TickRow(subscription[c].last) \in Live
          /\ Active(c) => HasTick(subscription[c].next) /\ subscription[c].last < subscription[c].next
      BY <1>2, StandTicks DEF PlaceInv, StandInv, Inv, OpenRight
    <2>3. /\ l \in SnapshotType /\ SnapshotRight(l)
          /\ Active(c) => k \in SnapshotType /\ SnapshotRight(k) /\ Leq(l, k)
          /\ Switches => l.xmin >= queue.switch_step2
      <3>1. Switches => Rotating
        BY DEF Switches, Rotating, maint_commits
      <3>2. Rotating => l.xmin >= queue.switch_step2
        BY <2>1, <2>2 DEF PlaceInv, TicksLate, Last
      <3>. QED
        BY <1>2, <2>1, <2>2, <3>1, <3>2, StandFacts DEF StandInv
    <2>4. Last(c)' = l /\ (Active(c) => Cur(c)' = k)
      <3>1. \A id : HasTick(id) /\ HasTick(id)' => TickRow(id)' = TickRow(id)
        BY <2>2, TickRowSame, Zenon
      <3>2. PICK i, n : i = subscription[c].last /\ n = subscription[c].next
        OBVIOUS
      <3>3. HasTick(i) /\ HasTick(i)' /\ (Active(c) => HasTick(n) /\ HasTick(n)')
        <4>1. HasTick(i) /\ (Active(c) => HasTick(n))
          BY <2>2, <3>2
        <4>2. OnLive(i)' /\ (Active(c) => OnLive(n)')
          BY <1>2, <3>2 DEF StandInv, TicksKept, OnLive, Active
        <4>3. \A id : OnLive(id)' => HasTick(id)'
          BY Zenon DEF OnLive, Live, HasTick
        <4>. QED
          BY <4>1, <4>2, <4>3, Zenon
      <3>4. TickRow(i)' = TickRow(i) /\ (Active(c) => TickRow(n)' = TickRow(n))
        BY <3>1, <3>3, Zenon
      <3>5. subscription'[c].last = i /\ subscription'[c].next = n
        BY <3>2
      <3>6. Last(c)' = TickRow(i)'.snapshot /\ Cur(c)' = TickRow(n)'.snapshot
        BY <3>5, Zenon DEF Last, Cur, TickRow
      <3>7. l = TickRow(i).snapshot /\ k = TickRow(n).snapshot
        BY <2>1, <3>2, Zenon DEF Last, Cur
      <3>. QED
        BY <3>4, <3>6, <3>7
    <2>5. Due(c, b, l)' = Due(c, b, l)
      BY <2>3, DueSame DEF SnapshotRight, SnapshotFits
    <2>6. StandRight(c)'
      <3>1. Leq(b, l) /\ seen[c] = Due(c, b, l)
        BY <1>2, <2>1 DEF ConsumerRight, StandRight
      <3>. QED
        BY <2>1, <2>4, <2>5, <3>1 DEF StandRight, Due, IsFor
    <2>7. Active(c) => Due(c, l, k)' = Due(c, l, k)
      BY <2>3, DueSame DEF SnapshotRight, SnapshotFits
    <2>8. ASSUME batch[c] # NULL
          PROVE  /\ batch[c].last = l /\ batch[c].cur = k /\ batch[c].tables \subseteq Table
                 /\ \A r \in log' : Visible(r.ev_txid, k) /\ ~Visible(r.ev_txid, l) =>
                      \E t \in batch[c].tables : r \in event'[t]
      <3>1. /\ batch[c].last = l /\ batch[c].cur = k /\ batch[c].tables \subseteq Table
            /\ \A r \in log : Visible(r.ev_txid, k) /\ ~Visible(r.ev_txid, l) =>
                  \E t \in batch[c].tables : r \in event[t]
        BY <2>1, <2>8 DEF ConsumerRight, BatchRight
      <3>2. \A t \in Table : \A r \in event[t] : r \in log /\ ~Visible(r.ev_txid, l) => r \in event'[t]
        BY <2>3, RowsStay DEF PlaceInv, StandInv
      <3>3. \A r \in log' : Visible(r.ev_txid, k) => r \in log
        BY <2>2, <2>3, <2>8 DEF LogStep, SnapshotRight, SnapshotFits
      <3>. QED
        BY <3>1, <3>2, <3>3
    <2>9. got[c] # NULL => got[c] = Due(c, l, k)
      BY <2>1 DEF ConsumerRight, BatchRight
    <2>10. BatchRight(c)'
      BY <2>2, <2>4, <2>7, <2>8, <2>9 DEF BatchRight, Due, IsFor
    <2>. QED
      BY <2>6, <2>10 DEF ConsumerRight
  <1>. QED
    BY <1>1, <1>2

\* Steps that leave all consumers alone: producers' ...
LEMMA DeliveryProducer ==
  ASSUME DeliveryInv, StandInv', NoneOvertaken, NEW p \in Producer, Produce(p)
  PROVE  DeliveryInv'
  <1>1. /\ PlaceInv /\ Inv /\ Inv' /\ LogStep /\ TicksLate
        /\ Kinds
    BY LogProducer, KindProducer DEF DeliveryInv, PlaceInv, StandInv, Kinds
  <1>2. XidStep
    BY <1>1, ProducerSteps DEF Inv, XidInv, RowInv
  <1>3. UNCHANGED producerUnchanged
    BY Zenon DEF Produce, Begin, load_queue_info, pgq_insert_event_raw, Commit, Abort
  <1>4. UNCHANGED <<queue, tick, ticker, maint, subscription, start, seen, batch, got, again>>
    BY <1>3 DEF producerUnchanged, consumerVars, historyVars
  <1>5. TickStep /\ ~Switches /\ Live' = Live /\ (Rotating' <=> Rotating)
    BY <1>4 DEF TickStep, Switches, maint_commits, Live, Rotating
  <1>6. \A s \in SnapshotType : Kept(s) => Kept(s)'
    BY <1>1, <1>5, KeptNext DEF KeptStep
  <1>7. TicksLate'
    <2>1. \A t \in tick : t.snapshot \in SnapshotType
      BY <1>1, TickTypes DEF Inv
    <2>2. \A t \in tick' : Kept(t.snapshot)'
      BY <1>1, <1>4, <1>6, <2>1 DEF TicksLate
    <2>3. ASSUME ticker # NULL PROVE Kept(ticker.snapshot)'
      <3>1. PICK s \in SnapshotType : s = ticker.snapshot
        BY <1>1, <2>3, TickTypes DEF Inv
      <3>2. Kept(s)' /\ ticker'.snapshot = s
        BY <1>1, <1>4, <1>6, <2>3, <3>1 DEF TicksLate
      <3>. QED
        BY <3>2 DEF Kept
    <2>. QED
      BY <1>1, <1>4, <1>5, <2>2, <2>3 DEF TicksLate
  <1>8. PlaceInv'
    BY <1>1, <1>2, <1>7, PlacesNext, DoneNext DEF PlaceInv, NoneOvertaken
  <1>9. \A c \in Consumer : ConsumerRight(c)'
    BY <1>1, <1>4, <1>5, ConsumerAlone DEF DeliveryInv
  <1>. QED
    BY <1>8, <1>9 DEF DeliveryInv

\* ... and pgqd's.
LEMMA DeliveryServer ==
  ASSUME DeliveryInv, StandInv', NoneOvertaken, Pgqd
  PROVE  DeliveryInv'
  <1>1. /\ PlaceInv /\ Inv /\ Inv' /\ LogStep
        /\ Kinds
    BY LogServer, KindServer DEF DeliveryInv, PlaceInv, StandInv, Kinds
  <1>2. XidStep
    BY <1>1, ServerSteps DEF Inv, XidInv, RowInv
  <1>3. UNCHANGED serverUnchanged
    BY Zenon DEF Pgqd, ticker_inserts, ticker_commits, maint_rotate_tables_step1, maint_rotate_tables_step2,
       maint_commits, maint_retry_events_loads, maint_retry_events_moves, maint_retry_events_commits, pgqd_dies
  <1>4. TickStep
    <2>1. CASE ticker_commits
      <3>1. ticker # NULL /\ tick' = tick \cup {[id |-> ticker.id, event_seq |-> ticker.event_seq,
                        snapshot |-> ticker.snapshot]}
        BY <2>1 DEF ticker_commits
      <3>2. \A t \in tick : t.id < ticker.id /\ t.id \in Nat /\ ticker.id \in Nat
        BY <1>1, <3>1, TickTypes DEF Inv, TicksRight
      <3>. QED
        BY <3>1, <3>2 DEF TickStep
    <2>2. CASE ~ticker_commits
      <3>1. tick' \subseteq tick
        BY <2>2 DEF Pgqd, ticker_inserts, maint_rotate_tables_step1, maint_rotate_tables_step2,
           maint_commits, maint_retry_events_loads, maint_retry_events_moves, maint_retry_events_commits, pgqd_dies
      <3>. QED
        BY <3>1 DEF TickStep
    <2>. QED
      BY <2>1, <2>2
  <1>5. TicksLate'
    BY <1>1, KeptNext, LateServer DEF NoneOvertaken
  <1>6. PlaceInv'
    BY <1>1, <1>2, <1>5, PlacesNext, DoneNext DEF PlaceInv, NoneOvertaken
  <1>7. UNCHANGED <<subscription, start, seen, batch, got, again>>
    BY <1>3 DEF serverUnchanged, consumerVars, historyVars
  <1>8. \A c \in Consumer : ConsumerRight(c)'
    BY <1>1, <1>4, <1>7, ConsumerAlone DEF DeliveryInv
  <1>. QED
    BY <1>6, <1>8 DEF DeliveryInv

\* Consumers leave everybody else's work alone.
LEMMA PlacesSame ==
  ASSUME PlaceInv, StandInv', UNCHANGED <<latestCompletedXid, queue, tick, event, xact, ticker, maint, mover, log>>
  PROVE  PlaceInv'
  <1>1. Running' = Running
    BY RunningFacts DEF RunsNow
  <1>2. \A x, t : Looked(x, t)' <=> Looked(x, t)
    BY LookedParts
  <1>3. Near' = Near /\ Live' = Live /\ (Rotating' <=> Rotating) /\ \A x : BeforeStep2(x)' <=> BeforeStep2(x)
    BY DEF Near, Previous, Live, Rotating, BeforeStep2
  <1>4. PlacesRight'
    BY <1>1, <1>2, <1>3 DEF PlaceInv, PlacesRight
  <1>5. TicksLate'
    BY <1>3 DEF PlaceInv, TicksLate, Kept
  <1>6. LogDone'
    BY DEF PlaceInv, LogDone
  <1>. QED
    BY <1>4, <1>5, <1>6 DEF PlaceInv

\* A step of a consumer that gets no events, is through with none, and stands where
\* it stood.
LEMMA StandsStill ==
  ASSUME NEW c \in Consumer, ConsumerRight(c), UNCHANGED <<tick, log>>,
         start'[c] = start[c], seen'[c] = seen[c], again'[c] = again[c], batch'[c] = NULL, got'[c] = NULL,
         subscription[c] # NULL, subscription'[c].id = subscription[c].id, subscription'[c].last = subscription[c].last
  PROVE  ConsumerRight(c)'
  <1>1. Last(c)' = Last(c)
    BY Zenon DEF Last, TickRow
  <1>2. PICK l, b : l = Last(c) /\ b = start[c]
    OBVIOUS
  <1>3. Leq(b, l) /\ seen[c] = Due(c, b, l)
    BY <1>2 DEF ConsumerRight, StandRight
  <1>4. Due(c, b, l)' = Due(c, b, l)
    BY DEF Due, IsFor
  <1>5. StandRight(c)'
    BY <1>1, <1>2, <1>3, <1>4 DEF StandRight, Due, IsFor
  <1>. QED
    BY <1>5 DEF ConsumerRight, BatchRight

\* find_batch finds the tables that hold the events of the batch.
LEMMA TablesFound ==
  ASSUME PlaceInv, NEW c \in Consumer, Active(c), HasTicks(c)
  PROVE  /\ batch_event_tables(Last(c), Cur(c)) \subseteq Table
         /\ \A r \in log : Visible(r.ev_txid, Cur(c)) /\ ~Visible(r.ev_txid, Last(c)) =>
              \E t \in batch_event_tables(Last(c), Cur(c)) : r \in event[t]
  <1>1. /\ Inv /\ PlacesRight /\ Typed /\ CurrentRight /\ TicksRight /\ subscription[c] # NULL
        /\ queue.cur_table \in Table /\ Previous(queue.cur_table) \in Table
        /\ Previous(queue.cur_table) # queue.cur_table
        /\ queue.switch_step1 \in Nat /\ queue.switch_step2 \in Nat
    BY RowTypes, TableFacts, NextTable DEF PlaceInv, StandInv, Inv, Active
  <1>2. /\ Last(c) \in SnapshotType /\ Cur(c) \in SnapshotType /\ Kept(Last(c))
        /\ \E t \in tick : t.snapshot = Cur(c)
    <2>1. TickRow(subscription[c].last) \in tick /\ TickRow(subscription[c].next) \in tick
      BY <1>1, TickRowFacts DEF HasTicks
    <2>2. Kept(Last(c))
      BY <2>1 DEF PlaceInv, TicksLate, Last
    <2>. QED
      BY <1>1, <2>1, <2>2, StandFacts DEF HasTicks, Cur
  <1>3. batch_event_tables(Last(c), Cur(c)) \subseteq Table
    BY <1>1 DEF batch_event_tables
  <1>4. ASSUME NEW r \in log, Visible(r.ev_txid, Cur(c)), ~Visible(r.ev_txid, Last(c))
        PROVE  \E t \in batch_event_tables(Last(c), Cur(c)) : r \in event[t]
    <2>1. r \in event[queue.cur_table] \/ r \in event[Previous(queue.cur_table)]
      BY <1>2, <1>4 DEF Kept, Near
    <2>2. CASE Cur(c).xmax < queue.switch_step1
      <3>1. r \notin event[queue.cur_table]
        BY <1>1, <1>2, <1>4, <2>2 DEF CurrentRight, SnapshotType
      <3>2. batch_event_tables(Last(c), Cur(c)) = {Previous(queue.cur_table)}
        BY <2>2 DEF batch_event_tables
      <3>. QED
        BY <2>1, <3>1, <3>2
    <2>3. CASE ~(Cur(c).xmax < queue.switch_step1) /\ queue.switch_step2 # 0 /\ Last(c).xmin > queue.switch_step2
      <3>0. Last(c).xmin >= queue.switch_step2
        BY <1>1, <1>2, <2>3 DEF SnapshotType
      <3>1. r \notin event[Previous(queue.cur_table)]
        BY <1>1, <1>2, <1>4, <2>3, <3>0, ElsewhereShown
      <3>2. batch_event_tables(Last(c), Cur(c)) = {queue.cur_table}
        BY <2>3 DEF batch_event_tables
      <3>. QED
        BY <2>1, <3>1, <3>2
    <2>4. CASE ~(Cur(c).xmax < queue.switch_step1) /\ ~(queue.switch_step2 # 0 /\ Last(c).xmin > queue.switch_step2)
      <3>1. batch_event_tables(Last(c), Cur(c)) = {Previous(queue.cur_table), queue.cur_table}
        BY <2>4 DEF batch_event_tables
      <3>. QED
        BY <2>1, <3>1
    <2>. QED
      BY <2>2, <2>3, <2>4
  <1>. QED
    BY <1>3, <1>4

\* What was due up to the next tick.
LEMMA DueAdds ==
  ASSUME Typed, NEW c, NEW b \in SnapshotType, NEW l \in SnapshotType, NEW k \in SnapshotType,
         Leq(b, l), Leq(l, k)
  PROVE  Due(c, b, k) = Due(c, b, l) \cup Due(c, l, k)
  <1>1. \A x \in Nat : (Visible(x, b) => Visible(x, l)) /\ (Visible(x, l) => Visible(x, k))
    BY LeqVisible, Zenon
  <1>2. \A r \in log : r.ev_txid \in Nat
    BY RowTypes
  <1>. QED
    BY <1>1, <1>2 DEF Due

\* A step of a consumer.
LEMMA DeliveryConsumer ==
  ASSUME DeliveryInv, StandInv', NoneOvertaken, NEW c \in Consumer, ConsumerStep(c)
  PROVE  DeliveryInv'
  <1>1. /\ PlaceInv /\ StandInv /\ Inv /\ Typed /\ ConsumerRight(c)
        /\ \A d \in Consumer : ConsumerRight(d)
    BY DEF DeliveryInv, PlaceInv, StandInv, Inv
  <1>2. UNCHANGED <<latestCompletedXid, queue, tick, event, log, xact, ticker, maint, mover>>
    BY ConsumerLeaves DEF consumerUnchanged, producerVars, xidVars
  <1>3. LogStep /\ TickStep
    BY <1>2 DEF LogStep, TickStep
  <1>4. PlaceInv'
    BY <1>1, <1>2, PlacesSame
  <1>5. /\ subscription \in [Consumer -> {NULL} \cup SubscriptionType]
        /\ batch \in [Consumer -> {NULL} \cup [last : SnapshotType, cur : SnapshotType, tables : SUBSET Table]]
        /\ got \in [Consumer -> {NULL} \cup SUBSET RowType]
        /\ start \in [Consumer -> SnapshotType] /\ seen \in [Consumer -> SUBSET RowType]
        /\ again \in [Consumer -> BOOLEAN]
    BY <1>1 DEF Typed, TypeOK, HistoryRight
  <1>6. ASSUME NEW d \in Consumer, subscription'[d] = subscription[d], start'[d] = start[d], seen'[d] = seen[d],
               batch'[d] = batch[d], got'[d] = got[d], again'[d] = again[d]
        PROVE  ConsumerRight(d)'
    BY <1>1, <1>3, <1>6, ConsumerAlone
  <1>7. ASSUME NEW d \in Consumer, d # c PROVE ConsumerRight(d)'
    BY <1>5, <1>6, <1>7 DEF ConsumerStep, Consume, next_batch_custom, find_batch, get_batch_events, finish_batch,
         consumer_dies, register_consumer_at, registered, unregister_consumer, batch_retry, event_retry,
         consumerVars, historyVars
  <1>8. SUFFICES ConsumerRight(c)'
    BY <1>4, <1>7, <1>8 DEF DeliveryInv
  <1>9. CASE batch_retry(c) \/ (\E id \in EventIds(c) : event_retry(c, id)) \/ (\E t \in tick : register_consumer_at(c, t))
    <2>1. UNCHANGED <<subscription, start, seen, batch, got, again>>
      BY <1>9, Zenon DEF batch_retry, event_retry, register_consumer_at, consumerVars, historyVars
    <2>. QED
      BY <1>6, <2>1
  <1>10. ASSUME NEW t \in tick, next_batch_custom(c, t) PROVE ConsumerRight(c)'
    <2>1. /\ subscription[c] # NULL /\ ~Active(c) /\ subscription' = [subscription EXCEPT ![c].next = t.id]
          /\ UNCHANGED <<batch, got, start, seen, again>>
      BY <1>10 DEF next_batch_custom, consumerVars, historyVars
    <2>2. batch[c] = NULL /\ got[c] = NULL
      BY <1>1, <2>1 DEF Inv, OpenRight
    <2>3. subscription'[c].id = subscription[c].id /\ subscription'[c].last = subscription[c].last
      BY <1>5, <2>1
    <2>. QED
      BY <1>1, <1>2, <2>1, <2>2, <2>3, StandsStill
  <1>11. CASE find_batch(c)
    <2>1. /\ Active(c) /\ HasTicks(c) /\ got[c] = NULL
          /\ batch' = [batch EXCEPT ![c] =
               [last |-> Last(c), cur |-> Cur(c), tables |-> batch_event_tables(Last(c), Cur(c))]]
          /\ UNCHANGED <<subscription, got, start, seen, again>>
      BY <1>11 DEF find_batch, historyVars
    <2>2. /\ batch_event_tables(Last(c), Cur(c)) \subseteq Table
          /\ \A r \in log : Visible(r.ev_txid, Cur(c)) /\ ~Visible(r.ev_txid, Last(c)) =>
               \E t \in batch_event_tables(Last(c), Cur(c)) : r \in event[t]
      BY <1>1, <2>1, TablesFound
    <2>3. /\ batch'[c].last = Last(c) /\ batch'[c].cur = Cur(c)
          /\ batch'[c].tables = batch_event_tables(Last(c), Cur(c))
      BY <1>5, <2>1
    <2>4. Last(c)' = Last(c) /\ Cur(c)' = Cur(c)
      BY <1>2, <2>1 DEF Last, Cur, TickRow
    <2>5. BatchRight(c)'
      BY <1>2, <2>1, <2>2, <2>3, <2>4 DEF BatchRight
    <2>6. StandRight(c)' /\ ~again'[c]
      BY <1>1, <1>2, <1>3, <2>1, <2>4 DEF ConsumerRight, StandRight, Due, IsFor
    <2>. QED
      BY <2>5, <2>6 DEF ConsumerRight
  <1>12. CASE consumer_dies(c)
    <2>1. /\ batch[c] # NULL \/ got[c] # NULL
          /\ batch' = [batch EXCEPT ![c] = NULL] /\ got' = [got EXCEPT ![c] = NULL]
          /\ UNCHANGED <<subscription, start, seen, again>>
      BY <1>12 DEF consumer_dies, historyVars
    <2>2. subscription[c] # NULL /\ batch'[c] = NULL /\ got'[c] = NULL
      BY <1>1, <1>5, <2>1 DEF Inv, OpenRight, Active
    <2>. QED
      BY <1>1, <1>2, <2>1, <2>2, StandsStill
  <1>13. CASE unregister_consumer(c)
    <2>1. /\ subscription' = [subscription EXCEPT ![c] = NULL]
          /\ batch' = [batch EXCEPT ![c] = NULL] /\ got' = [got EXCEPT ![c] = NULL]
          /\ again' = [again EXCEPT ![c] = FALSE]
      BY <1>13 DEF unregister_consumer
    <2>2. subscription'[c] = NULL /\ batch'[c] = NULL /\ got'[c] = NULL /\ ~again'[c]
      BY <1>5, <2>1
    <2>. QED
      BY <2>2 DEF ConsumerRight, StandRight, BatchRight
  <1>14. CASE registered(c)
    <2>1. /\ registering[c] # NULL
          /\ subscription' = [subscription EXCEPT ![c] = Subscribed(c)]
          /\ batch' = [batch EXCEPT ![c] = NULL] /\ got' = [got EXCEPT ![c] = NULL]
          /\ start' = [start EXCEPT ![c] = registering[c].snapshot]
          /\ seen' = [seen EXCEPT ![c] = {}] /\ again' = [again EXCEPT ![c] = FALSE]
      BY <1>14 DEF registered
    <2>2. registering[c] \in tick
      BY <2>1 DEF NoneOvertaken, ComersInTime, Live
    <2>3. PICK t \in tick : t = registering[c]
      BY <2>2
    <2>4. TickRow(t.id) = t /\ t.snapshot \in SnapshotType /\ SnapshotRight(t.snapshot)
      BY <1>1, TickRowFacts, TickTypes DEF Inv, SnapshotsRight
    <2>5. Leq(t.snapshot, t.snapshot)
      BY <2>4, LeqSame DEF SnapshotRight, SnapshotFits
    <2>6. subscription'[c].last = t.id
      BY <1>5, <2>1, <2>3 DEF Subscribed
    <2>7. Last(c)' = t.snapshot
      BY <1>2, <2>4, <2>6 DEF Last, TickRow
    <2>8. /\ batch'[c] = NULL /\ got'[c] = NULL /\ start'[c] = t.snapshot /\ seen'[c] = {} /\ ~again'[c]
      BY <1>5, <2>1, <2>3
    <2>9. Due(c, t.snapshot, t.snapshot)' = {}
      BY DEF Due
    <2>10. StandRight(c)'
      BY <2>5, <2>7, <2>8, <2>9 DEF StandRight, Due, IsFor
    <2>. QED
      BY <2>8, <2>10 DEF ConsumerRight, BatchRight
  <1>15. CASE get_batch_events(c)
    <2>1. /\ Active(c) /\ batch[c] # NULL
          /\ got' = [got EXCEPT ![c] = RowsOf(batch_event_sql(c, batch[c]))]
          /\ again' = [again EXCEPT ![c] = @ \/ RowsOf(batch_event_sql(c, batch[c])) \cap seen[c] # {}
                                             \/ Twice(batch_event_sql(c, batch[c]))]
          /\ batch' = [batch EXCEPT ![c] = NULL]
          /\ UNCHANGED <<subscription, start, seen>>
      BY <1>15 DEF get_batch_events
    <2>2. /\ RowsOf(batch_event_sql(c, batch[c])) = Due(c, Last(c), Cur(c))
          /\ ~Twice(batch_event_sql(c, batch[c]))
      BY <1>1, <2>1, QueryRight DEF ConsumerRight
    <2>3. subscription[c] # NULL /\ seen[c] = Due(c, start[c], Last(c)) /\ ~again[c]
      BY <1>1, <2>1 DEF ConsumerRight, StandRight, Active
    <2>4. Due(c, Last(c), Cur(c)) \cap seen[c] = {}
      BY <2>3 DEF Due
    <2>5. batch'[c] = NULL /\ got'[c] = Due(c, Last(c), Cur(c))
      BY <1>5, <2>1, <2>2
    <2>6. ~again'[c]
      BY <1>5, <2>1, <2>2, <2>3, <2>4
    <2>7. Last(c)' = Last(c) /\ Cur(c)' = Cur(c)
      BY <1>2, <2>1 DEF Last, Cur, TickRow
    <2>8. StandRight(c)'
      BY <1>1, <1>2, <1>3, <2>1, <2>7 DEF ConsumerRight, StandRight, Due, IsFor
    <2>9. BatchRight(c)'
      BY <1>2, <2>1, <2>5, <2>7 DEF BatchRight, Due, IsFor
    <2>. QED
      BY <2>6, <2>8, <2>9 DEF ConsumerRight
  <1>16. CASE finish_batch(c)
    <2>1. /\ Active(c) /\ got[c] # NULL
          /\ subscription' = [subscription EXCEPT ![c].last = subscription[c].next, ![c].next = 0]
          /\ seen' = [seen EXCEPT ![c] = @ \cup got[c]] /\ got' = [got EXCEPT ![c] = NULL]
          /\ UNCHANGED <<batch, start, again>>
      BY <1>16 DEF finish_batch
    <2>2. /\ TypeOK /\ subscription[c] # NULL /\ batch[c] = NULL
          /\ seen[c] = Due(c, start[c], Last(c)) /\ got[c] = Due(c, Last(c), Cur(c)) /\ ~again[c]
      BY <1>1, <2>1 DEF Typed, Active, Inv, OpenRight, ConsumerRight, StandRight, BatchRight
    <2>3. PICK r : /\ subscription' = [subscription EXCEPT ![c] = r]
                   /\ r = [id |-> subscription[c].id, last |-> subscription[c].next, next |-> 0]
      BY <2>1, <2>2, FinishedIs, Zenon
    <2>4. subscription'[c].id = subscription[c].id /\ subscription'[c].last = subscription[c].next
      BY <1>5, <2>3
    <2>5. Last(c)' = Cur(c)
      BY <1>2, <2>4 DEF Last, Cur, TickRow
    <2>6. PICK b, l, k : b = start[c] /\ l = Last(c) /\ k = Cur(c)
      OBVIOUS
    <2>7. /\ b \in SnapshotType /\ l \in SnapshotType /\ k \in SnapshotType
          /\ Leq(b, l) /\ Leq(l, k)
      BY <1>1, <1>5, <2>1, <2>2, <2>6, StandTicks, StandFacts DEF ConsumerRight, StandRight
    <2>8. Leq(b, k)
      BY <2>7, LeqChain
    <2>9. Due(c, b, k) = Due(c, b, l) \cup Due(c, l, k)
      BY <1>1, <2>7, DueAdds
    <2>10. Due(c, b, k)' = Due(c, b, k)
      BY <1>2, <2>4 DEF Due, IsFor
    <2>11. seen'[c] = Due(c, b, k) /\ got'[c] = NULL /\ batch'[c] = NULL /\ start'[c] = b /\ ~again'[c]
      BY <1>5, <2>1, <2>2, <2>6, <2>9
    <2>12. StandRight(c)'
      BY <2>5, <2>6, <2>8, <2>10, <2>11 DEF StandRight, Due, IsFor
    <2>. QED
      BY <2>11, <2>12 DEF ConsumerRight, BatchRight
  <1>. QED
    BY <1>9, <1>10, <1>11, <1>12, <1>13, <1>14, <1>15, <1>16 DEF ConsumerStep, Consume

\* At first nobody has seen anything ...
LEMMA InitDelivery == Init => DeliveryInv
  <1>. SUFFICES ASSUME Init PROVE DeliveryInv
    OBVIOUS
  <1>1. StandInv /\ Inv /\ Typed
    BY InitStands DEF StandInv, Inv
  <1>2. PICK f : f = [xmin |-> 1, xmax |-> 1, xip |-> {}]
    OBVIOUS
  <1>3. /\ tick = {[id |-> 1, event_seq |-> 1, snapshot |-> f]} /\ start = [c \in Consumer |-> f] /\ log = {}
        /\ event = [t \in Table |-> {}] /\ xact = [p \in Producer |-> NoXact]
        /\ seen = [c \in Consumer |-> {}] /\ again = [c \in Consumer |-> FALSE]
        /\ batch = [c \in Consumer |-> NULL] /\ got = [c \in Consumer |-> NULL]
        /\ ticker = NULL /\ maint = NULL /\ mover = NULL
    BY <1>2 DEF Init
  <1>4. PlaceInv
    <2>1. PlacesRight
      BY <1>3 DEF PlacesRight, Looked, NoXact
    <2>2. TicksLate
      BY <1>3 DEF TicksLate, Kept, Rotating
    <2>. QED
      BY <1>1, <1>3, <2>1, <2>2 DEF PlaceInv, LogDone
  <1>5. f \in SnapshotType /\ Leq(f, f)
    <2>1. f \in SnapshotType /\ f.xmin <= f.xmax
      BY <1>2 DEF SnapshotType
    <2>. QED
      BY <2>1, LeqSame
  <1>6. ASSUME NEW c \in Consumer PROVE ConsumerRight(c)
    <2>1. batch[c] = NULL /\ got[c] = NULL /\ ~again[c] /\ start[c] = f /\ seen[c] = {}
      BY <1>3
    <2>2. ASSUME subscription[c] # NULL PROVE Last(c) = f
      <3>1. HasTick(subscription[c].last) /\ TicksRight
        BY <1>1, <2>2, StandTicks DEF Inv
      <3>2. TickRow(subscription[c].last) \in tick
        BY <3>1, TickRowFacts, Zenon
      <3>. QED
        BY <1>3, <3>2 DEF Last
    <2>3. Due(c, f, f) = {}
      BY DEF Due
    <2>. QED
      BY <1>5, <2>1, <2>2, <2>3 DEF ConsumerRight, StandRight, BatchRight
  <1>. QED
    BY <1>4, <1>6 DEF DeliveryInv

\* ... and every step keeps what each has seen, and will get, right.
LEMMA NextDelivery == DeliveryInv /\ NoneOvertaken /\ [Next]_vars => DeliveryInv'
  <1>. SUFFICES ASSUME DeliveryInv, NoneOvertaken, [Next]_vars PROVE DeliveryInv'
    OBVIOUS
  <1>1. PlaceInv /\ StandInv'
    BY NextStands DEF DeliveryInv, PlaceInv, NoneOvertaken
  <1>2. ASSUME NEW p \in Producer, Produce(p) PROVE DeliveryInv'
    BY <1>1, <1>2, DeliveryProducer
  <1>3. ASSUME NEW c \in Consumer, ConsumerStep(c) PROVE DeliveryInv'
    BY <1>1, <1>3, DeliveryConsumer
  <1>4. CASE UNCHANGED vars
    <2>1. /\ UNCHANGED <<latestCompletedXid, queue, tick, event, xact, ticker, maint, mover, log>>
          /\ UNCHANGED <<subscription, batch, got, start, seen, again>>
      BY <1>4, Zenon DEF vars, xidVars, producerVars, consumerVars, historyVars
    <2>2. LogStep /\ TickStep
      BY <2>1 DEF LogStep, TickStep
    <2>3. \A c \in Consumer : ConsumerRight(c)'
      BY <1>1, <2>1, <2>2, ConsumerAlone DEF DeliveryInv
    <2>4. PlaceInv'
      BY <1>1, <2>1, PlacesSame
    <2>. QED
      BY <2>3, <2>4 DEF DeliveryInv
  <1>. QED
    BY <1>1, <1>2, <1>3, <1>4, DeliveryServer DEF Next, ConsumerStep

\* A consumer gets all it is due and gets nothing twice: batch after batch, across
\* rotations, registrations, retries and deaths, what it has finished is what was
\* committed between the tick it started from and the one it has reached, as long
\* as a rotation overtakes nobody.
THEOREM DeliveredCorrect == Spec /\ []NoneOvertaken => []Delivered
  <1>1. DeliveryInv => Delivered
    BY DEF DeliveryInv, ConsumerRight, StandRight, Delivered
  <1>2. DeliveryInv /\ NoneOvertaken /\ [Next]_vars => DeliveryInv'
    BY NextDelivery
  <1>. QED
    BY <1>1, <1>2, InitDelivery, PTL DEF Spec

\* The tables get_batch_events has found are still those of the batch when its
\* query reads them, whatever has been rotated in between.
THEOREM TablesRightCorrect == Spec /\ []NoneOvertaken => []TablesRight
  <1>1. DeliveryInv => TablesRight
    BY QueryRight DEF DeliveryInv, PlaceInv, ConsumerRight, TablesRight
  <1>2. DeliveryInv /\ NoneOvertaken /\ [Next]_vars => DeliveryInv'
    BY NextDelivery
  <1>. QED
    BY <1>1, <1>2, InitDelivery, PTL DEF Spec

\* Nobody is overtaken in a queue that is not rotated, nor in one (Early) whose
\* producers write something else first, whose consumers stay and retry nothing.
THEOREM NobodyOvertaken ==
  ASSUME MaxRotations = 0 \/ Early
  PROVE  Spec => []NoneOvertaken
  <1>1. ASSUME Inv, MaxRotations = 0 PROVE NoneOvertaken
    <2>1. /\ maint = NULL /\ queue.cur_table = 0 /\ \A p \in Producer : xact[p].table = 0
          /\ mover # NULL => mover.table = 0
          /\ \A c \in Consumer : registering[c] # NULL => registering[c] \in tick
      BY <1>1 DEF Inv, StillRight
    <2>. QED
      BY <2>1 DEF NoneOvertaken, SomebodyReads, WritersInTime, ComersInTime, Rotating, Looked, Late, Live
  <1>2. ASSUME Inv, Early PROVE NoneOvertaken
    <2>1. /\ mover = NULL /\ \A c \in Consumer : registering[c] = NULL
          /\ \A p \in Producer : xact[p].state # "idle" => xact[p].xid # 0
          /\ \A c \in Registered : subscription[c] # NULL
      BY <1>2 DEF Inv, EarlyRight
    <2>2. Stands # {}
      BY <1>2, <2>1, PgQAssumption DEF Early, Stands
    <2>. QED
      BY <2>1, <2>2 DEF NoneOvertaken, SomebodyReads, WritersInTime, ComersInTime, Looked
  <1>3. Inv => NoneOvertaken
    BY <1>1, <1>2
  <1>. QED
    BY <1>3, Invariance, PTL
=============================================================================

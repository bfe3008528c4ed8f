----------------------------- MODULE PgQProofs -----------------------------
(***************************************************************************)
(* Theorems about PgQ that hold of every instance: Inv, the types, and     *)
(* that no retry request is lost or moved twice.  The inductive invariant  *)
(* says what the txids of transactions, snapshots, events and rotation     *)
(* steps have to do with each other, and where events are.                 *)
(***************************************************************************)
EXTENDS PgQ, FiniteSetTheorems, WellFoundedInduction, TLAPS
USE DEF SubscriptionType

\* The types of the history variables.
UsedRight ==
  used \in [xacts : Nat, idle : Nat, rotations : Nat, retries : Nat, registers : Nat, crashes : Nat]

HistoryRight ==
  /\ log \subseteq RowType
  /\ start \in [Consumer -> SnapshotType]
  /\ seen \in [Consumer -> SUBSET RowType]
  /\ again \in [Consumer -> BOOLEAN]
  /\ asked \subseteq [ev_owner : Consumer \X Nat, ev_id : IdType \X Nat]

Typed == TypeOK /\ UsedRight /\ HistoryRight

\* Every running transaction has a txid of its own that was given out.
XidsRight ==
  /\ 1 <= latestCompletedXid /\ latestCompletedXid < nextXid
  /\ \A x \in Running : x < nextXid
  /\ \A p, q \in Producer : p # q /\ xact[p].xid = xact[q].xid => xact[p].xid = 0
  /\ \A p \in Producer : xact[p].state = "idle" => xact[p].xid = 0
  /\ ticker # NULL => ticker.xid > 0 /\ \A p \in Producer : xact[p].xid # ticker.xid
  /\ maint # NULL =>
       /\ maint.xid > 0 /\ \A p \in Producer : xact[p].xid # maint.xid
       /\ ticker # NULL => ticker.xid # maint.xid
  /\ mover # NULL /\ mover.xid # 0 =>
       /\ \A p \in Producer : xact[p].xid # mover.xid
       /\ ticker # NULL => ticker.xid # mover.xid
       /\ maint # NULL => maint.xid # mover.xid

\* A snapshot is of a time before now, and shows nothing of what runs now.
SnapshotFits(s, latest, running) ==
  /\ s.xmin <= s.xmax /\ s.xmax <= latest + 1 /\ s.xmax >= 1
  /\ \A x \in s.xip : s.xmin <= x /\ x < s.xmax
  /\ \A x \in running : ~Visible(x, s)
SnapshotRight(s) == SnapshotFits(s, latestCompletedXid, Running)
SnapshotsRight ==
  /\ \A t \in tick : SnapshotRight(t.snapshot)
  /\ ticker # NULL => SnapshotRight(ticker.snapshot)

\* The second snapshot shows what the first shows.
Leq(s, u) ==
  /\ s.xmin <= s.xmax /\ s.xmin <= u.xmin /\ s.xmax <= u.xmax
  /\ \A x \in 0..s.xmax : Visible(x, s) => Visible(x, u)

\* Later ticks show more.
TicksRight ==
  /\ \A t \in tick : 1 <= t.id /\ t.id <= tick_seq
  /\ \A t, u \in tick : t.id = u.id => t = u
  /\ \A t, u \in tick : t.id < u.id => Leq(t.snapshot, u.snapshot)
  /\ ticker # NULL =>
       /\ 1 <= ticker.id /\ ticker.id <= tick_seq
       /\ \A t \in tick : t.id < ticker.id /\ Leq(t.snapshot, ticker.snapshot)

\* The rows in the tables are committed, or of a transaction that runs, and each
\* is in one table.
RowsRight ==
  /\ \A t \in Table : \A r \in event[t] :
       /\ 0 < r.ev_txid /\ r.ev_txid < nextXid
       /\ r.ev_txid \in Running \/ r \in log
       /\ ticker # NULL => r.ev_txid # ticker.xid
       /\ maint # NULL => r.ev_txid # maint.xid
  /\ \A t, u \in Table : \A r \in event[t] : r \in event[u] => t = u
LogRight == \A r \in log : 0 < r.ev_txid /\ r.ev_txid < nextXid /\ r.ev_txid \notin Running

\* The rows of a producer's transaction are those of its calls.
CallsRight ==
  \A p \in Producer : \A t \in Table : \A r \in event[t] : r.ev_txid = xact[p].xid =>
    /\ r.ev_owner = NULL /\ r.ev_id[1] = xact[p].xid /\ r.ev_id[2] <= xact[p].calls
    /\ xact[p].state = "loaded" => r.ev_id[2] < xact[p].calls

\* The rows of the mover's transaction are those it has moved.
MoverRight ==
  mover # NULL =>
    /\ mover.state = "loaded" => mover.row \in RequestType /\ mover.row \notin mover.rows
    /\ \A t \in Table : \A r \in event[t] : r.ev_txid = mover.xid =>
         [ev_owner |-> r.ev_owner, ev_id |-> r.ev_id] \in mover.rows
    /\ \A q \in mover.rows : \E t \in Table :
         [ev_id |-> q.ev_id, ev_txid |-> mover.xid, ev_owner |-> q.ev_owner] \in event[t]

\* A rotation in progress, and those before it.
MaintRight ==
  /\ queue.switch_step1 <= latestCompletedXid /\ queue.switch_step2 <= latestCompletedXid
  /\ maint # NULL /\ maint.step = 1 =>
       /\ maint.nr = (queue.cur_table + 1) % NTables /\ queue.switch_step2 # 0
       /\ \A t \in maint.dead : t.snapshot.xmin < queue.switch_step2
       /\ \A r \in event[maint.nr] : r.ev_txid \notin Running
  /\ maint # NULL /\ maint.step = 2 =>
       queue.switch_step2 = 0 /\ maint.nr = queue.cur_table /\ maint.dead = {}

\* What is in the current table was not there when it became the current one.
CurrentRight ==
  \A r \in event[queue.cur_table] :
    /\ \A t \in tick : t.snapshot.xmax <= queue.switch_step1 => ~Visible(r.ev_txid, t.snapshot)
    /\ ticker # NULL /\ ticker.snapshot.xmax <= queue.switch_step1 => ~Visible(r.ev_txid, ticker.snapshot)

\* Without rotations everything stays in the first table.
StillRight ==
  MaxRotations = 0 =>
    /\ maint = NULL /\ queue = [cur_table |-> 0, switch_step1 |-> 1, switch_step2 |-> 1]
    /\ log \subseteq event[0] /\ \A t \in Table : t # 0 => event[t] = {}
    /\ \A p \in Producer : xact[p].table = 0
    /\ mover # NULL => mover.table = 0
    /\ \A c \in Consumer : registering[c] # NULL => registering[c] \in tick

\* The queue without retries, late txids and comings and goings.
Early == Bare = {} /\ MaxRetries = 0 /\ MaxRegisters = 0 /\ Registered # {}
EarlyRight ==
  Early =>
    /\ mover = NULL /\ retry_queue = {} /\ \A c \in Consumer : registering[c] = NULL
    /\ \A p \in Producer : xact[p].state # "idle" => xact[p].xid # 0
    /\ \A c \in Registered : subscription[c] # NULL

\* Only who has a batch asks for its events, and only who got them is through with that.
OpenRight ==
  \A c \in Consumer :
    /\ batch[c] # NULL => Active(c) /\ got[c] = NULL
    /\ got[c] # NULL => Active(c)

\* Requests that are accepted are of a subscription ...
OwnersRight ==
  /\ \A c \in Consumer : subscription[c] # NULL =>
       subscription[c].id[1] = c /\ subscription[c].id[2] <= sub_seq
  /\ \A a \in asked : a.ev_owner[2] <= sub_seq /\ a.ev_id[2] < used.retries
  /\ \A q \in retry_queue : q.ev_owner[2] <= sub_seq
  /\ \A r \in log : r.ev_owner # NULL => r.ev_owner[2] <= sub_seq
  /\ mover # NULL => \A q \in mover.rows \cup ({mover.row} \ {NULL}) :
       /\ q.ev_owner[2] <= sub_seq
       /\ \A c \in Consumer : subscription[c] # NULL /\ subscription[c].id = q.ev_owner => q \in retry_queue

\* ... and each is kept, or was moved.
AskedFor(o, i) == {a \in asked : a.ev_owner = o /\ a.ev_id[1] = i}
Moved(o, i) == {r \in log : r.ev_owner = o /\ r.ev_id = i}
Waiting(o, i) == IF [ev_owner |-> o, ev_id |-> i] \in retry_queue THEN 1 ELSE 0
ConservedFor(o, i) ==
  /\ IsFiniteSet(AskedFor(o, i)) /\ IsFiniteSet(Moved(o, i))
  /\ Cardinality(AskedFor(o, i)) = Cardinality(Moved(o, i)) + Waiting(o, i)
Conserved ==
  \A c \in Consumer : subscription[c] # NULL => \A i \in IdType : ConservedFor(subscription[c].id, i)

Inv ==
  /\ Typed /\ XidsRight /\ SnapshotsRight /\ TicksRight /\ RowsRight /\ LogRight /\ CallsRight
  /\ MoverRight /\ MaintRight /\ CurrentRight /\ StillRight /\ EarlyRight /\ OpenRight

-----------------------------------------------------------------------------
(* Facts about txids, snapshots and ticks.                                 *)

\* A set of naturals that is not empty has a least element.
LEMMA NatMin ==
  ASSUME NEW S \in SUBSET Nat, S # {}
  PROVE  \E x \in S : \A y \in S : x <= y
  <1>1. PICK x \in S : \A y \in S : ~(<<y, x>> \in OpToRel(<, Nat))
    BY NatLessThanWellFounded, WFMin, Zenon
  <1>2. \A y \in S : ~(y < x)
    BY <1>1, Zenon DEF OpToRel
  <1>. QED
    BY <1>2

\* Lowest finds it.
LEMMA LowestFacts ==
  ASSUME NEW S \in SUBSET Nat, S # {}
  PROVE  Lowest(S) \in S /\ \A y \in S : Lowest(S) <= y
  BY NatMin, Zenon DEF Lowest

\* Which txids are of running transactions, before and after a step.
RunsNow(x) ==
  /\ x # 0
  /\ \/ \E p \in Producer : xact[p].xid = x
     \/ ticker # NULL /\ ticker.xid = x
     \/ maint # NULL /\ maint.xid = x
     \/ mover # NULL /\ mover.xid = x

\* Running, transaction by transaction.
LEMMA RunningFacts == \A x : (x \in Running <=> RunsNow(x)) /\ (x \in Running' <=> RunsNow(x)')
  <1>1. \A x : x \in Running <=> RunsNow(x)
    BY Zenon DEF Running, Pending, RunsNow
  <1>2. \A x : x \in Running' <=> RunsNow(x)'
    BY Zenon DEF Running, Pending, RunsNow
  <1>. QED
    BY <1>1, <1>2, Zenon

\* Txids of running transactions are numbers.
LEMMA RunningNat == TypeOK => Running \subseteq Nat
  <1>1. TypeOK /\ (\E p \in Producer : TRUE) => \A p \in Producer : xact[p].xid \in Nat
    BY DEF TypeOK
  <1>2. TypeOK => (ticker # NULL => ticker.xid \in Nat)
    BY DEF TypeOK, TickerType
  <1>3. TypeOK => (maint # NULL => maint.xid \in Nat)
    BY DEF TypeOK, MaintType
  <1>4. TypeOK => (mover # NULL => mover.xid \in Nat)
    BY DEF TypeOK, MoverType
  <1>. QED
    BY <1>1, <1>2, <1>3, <1>4, RunningFacts DEF RunsNow

\* The snapshot that is taken now.
LEMMA SnapshotFacts ==
  ASSUME TypeOK
  PROVE  /\ Snapshot \in SnapshotType
         /\ Snapshot.xmax = latestCompletedXid + 1
         /\ Snapshot.xip = {x \in Running : x < latestCompletedXid + 1}
         /\ Snapshot.xmin \in Snapshot.xip \cup {Snapshot.xmax}
         /\ \A x \in Snapshot.xip \cup {Snapshot.xmax} : Snapshot.xmin <= x
  <1>. DEFINE xmax == latestCompletedXid + 1
              xip == {x \in Running : x < xmax}
  <1>1. xmax \in Nat /\ xip \subseteq Nat
    BY RunningNat DEF TypeOK
  <1>2. Snapshot = [xmin |-> Lowest(xip \cup {xmax}), xmax |-> xmax, xip |-> xip]
    BY DEF Snapshot
  <1>. HIDE DEF xmax, xip
  <1>3. Lowest(xip \cup {xmax}) \in xip \cup {xmax} /\ \A y \in xip \cup {xmax} : Lowest(xip \cup {xmax}) <= y
    BY <1>1, LowestFacts
  <1>4. Lowest(xip \cup {xmax}) \in Nat
    BY <1>1, <1>3
  <1>. QED
    BY <1>1, <1>2, <1>3, <1>4 DEF SnapshotType, xmax, xip
-----------------------------------------------------------------------------
(* Every step keeps the types.                                             *)

\* The tables before and after a table.
LEMMA TableFacts ==
  /\ 0 \in Table /\ Table \subseteq Nat
  /\ \A t \in Table : (t + 1) % NTables \in Table /\ Previous(t) \in Table
  <1>1. NTables \in Nat /\ NTables >= 2
    BY PgQAssumption
  <1>2. \A a \in Int, n \in Nat : n >= 2 => a % n \in 0..(n - 1)
    OBVIOUS
  <1>. QED
    BY <1>1, <1>2 DEF Table, Previous

\* The subscription of one consumer gets other ticks.
LEMMA FinishedIs ==
  ASSUME TypeOK, NEW c \in Consumer, subscription[c] # NULL
  PROVE  LET f == [subscription EXCEPT ![c].last = subscription[c].next, ![c].next = 0]
             new == [id |-> subscription[c].id, last |-> subscription[c].next, next |-> 0]
         IN f = [subscription EXCEPT ![c] = new] /\ new \in SubscriptionType
  <1>. DEFINE f == [subscription EXCEPT ![c].last = subscription[c].next, ![c].next = 0]
              t == subscription[c].next
              new == [id |-> subscription[c].id, last |-> t, next |-> 0]
              SubType == SubscriptionType
  <1>1. subscription \in [Consumer -> {NULL} \cup SubType] /\ subscription[c] \in SubType /\ t \in Nat
    BY DEF TypeOK
  <1>2. \A r \in SubType : [r EXCEPT !.last = t] = [id |-> r.id, last |-> t, next |-> r.next]
    OBVIOUS
  <1>3. \A r \in SubType : [r EXCEPT !.next = 0] = [id |-> r.id, last |-> r.last, next |-> 0]
    OBVIOUS
  <1>. HIDE DEF t
  <1>4. [[subscription[c] EXCEPT !.last = t] EXCEPT !.next = 0] = new
    <2>. DEFINE r == [subscription[c] EXCEPT !.last = t]
    <2>1. r = [id |-> subscription[c].id, last |-> t, next |-> subscription[c].next]
      BY <1>1, <1>2, Zenon
    <2>2. r.id = subscription[c].id /\ r.last = t /\ r \in SubType
      BY <1>1, <2>1
    <2>. HIDE DEF r
    <2>3. [r EXCEPT !.next = 0] = [id |-> r.id, last |-> r.last, next |-> 0]
      BY <1>3, <2>2, Zenon
    <2>4. [r EXCEPT !.next = 0] = new
      BY <2>2, <2>3
    <2>. QED
      BY <2>4 DEF r
  <1>5. f = [subscription EXCEPT ![c] = new]
    BY <1>1, <1>4, Zenon DEF t
  <1>6. new \in SubType
    BY <1>1
  <1>. QED
    BY <1>5, <1>6 DEF t

\* The transaction of one producer gets a new state and a txid.
LEMMA OpenedTyped ==
  ASSUME TypeOK, NEW p \in Producer, NEW x \in Nat
  PROVE  LET f == [xact EXCEPT ![p].state = "open", ![p].xid = x] IN
         /\ f \in [Producer -> [state : {"idle", "open", "loaded"}, xid : Nat, table : Table, calls : Nat]]
         /\ \A q \in Producer : q # p => f[q] = xact[q]
         /\ f[p] = [state |-> "open", xid |-> x, table |-> xact[p].table, calls |-> xact[p].calls]
  <1>. DEFINE f == [xact EXCEPT ![p].state = "open", ![p].xid = x]
              new == [state |-> "open", xid |-> x, table |-> xact[p].table, calls |-> xact[p].calls]
  <1>1. /\ xact \in [Producer -> [state : {"idle", "open", "loaded"}, xid : Nat, table : Table, calls : Nat]]
        /\ xact[p] \in [state : {"idle", "open", "loaded"}, xid : Nat, table : Table, calls : Nat]
    BY DEF TypeOK
  <1>2. \A r \in [state : {"idle", "open", "loaded"}, xid : Nat, table : Table, calls : Nat] :
          /\ [r EXCEPT !.state = "open"] \in [state : {"idle", "open", "loaded"}, xid : Nat, table : Table, calls : Nat]
          /\ [r EXCEPT !.state = "open"] = [state |-> "open", xid |-> r.xid, table |-> r.table, calls |-> r.calls]
    OBVIOUS
  <1>3. \A r \in [state : {"idle", "open", "loaded"}, xid : Nat, table : Table, calls : Nat] :
          [r EXCEPT !.xid = x] = [state |-> r.state, xid |-> x, table |-> r.table, calls |-> r.calls]
    OBVIOUS
  <1>4. [[xact[p] EXCEPT !.state = "open"] EXCEPT !.xid = x] = new
    <2>. DEFINE r == [xact[p] EXCEPT !.state = "open"]
    <2>1. /\ r \in [state : {"idle", "open", "loaded"}, xid : Nat, table : Table, calls : Nat]
          /\ r = [state |-> "open", xid |-> xact[p].xid, table |-> xact[p].table, calls |-> xact[p].calls]
      BY <1>1, <1>2, Zenon
    <2>2. r.state = "open" /\ r.table = xact[p].table /\ r.calls = xact[p].calls
      BY <2>1
    <2>. HIDE DEF r
    <2>3. [r EXCEPT !.xid = x] = [state |-> r.state, xid |-> x, table |-> r.table, calls |-> r.calls]
      BY <1>3, <2>1, Zenon
    <2>4. [r EXCEPT !.xid = x] = new
      BY <2>2, <2>3
    <2>. QED
      BY <2>4 DEF r
  <1>5. f = [xact EXCEPT ![p] = new]
    BY <1>1, <1>4, Zenon
  <1>. HIDE DEF f
  <1>6. new \in [state : {"idle", "open", "loaded"}, xid : Nat, table : Table, calls : Nat]
    BY <1>1
  <1>7. f \in [Producer -> [state : {"idle", "open", "loaded"}, xid : Nat, table : Table, calls : Nat]]
    BY <1>1, <1>5, <1>6
  <1>8. (\A q \in Producer : q # p => f[q] = xact[q]) /\ f[p] = new
    BY <1>1, <1>5
  <1>. QED
    BY <1>7, <1>8 DEF f

\* Producers keep the types.
LEMMA ProducerTyped ==
  ASSUME Typed, NEW p \in Producer, Produce(p)
  PROVE  Typed'
  <1>. USE DEF Typed, TypeOK, UsedRight, HistoryRight
  <1>1. CASE Begin(p)
    <2>1. /\ xact' \in [Producer -> [state : {"idle", "open", "loaded"}, xid : Nat, table : Table, calls : Nat]]
          /\ nextXid' \in Nat
      <3>1. CASE p \in Bare
        BY <1>1, <3>1 DEF Begin
      <3>2. CASE p \notin Bare
        <4>1. xact' = [xact EXCEPT ![p].state = "open", ![p].xid = nextXid] /\ nextXid' = nextXid + 1
          BY <1>1, <3>2, Zenon DEF Begin
        <4>2. TypeOK /\ nextXid \in Nat
          OBVIOUS
        <4>. HIDE DEF TypeOK
        <4>3. [xact EXCEPT ![p].state = "open", ![p].xid = nextXid]
                \in [Producer -> [state : {"idle", "open", "loaded"}, xid : Nat, table : Table, calls : Nat]]
          BY <4>2, OpenedTyped, Zenon
        <4>. QED
          BY <4>1, <4>2, <4>3
      <3>. QED
        BY <3>1, <3>2
    <2>2. UsedRight'
      BY <1>1 DEF Begin, Use
    <2>. QED
      BY <1>1, <2>1, <2>2 DEF Begin, producerUnchanged, consumerVars, historyVars
  <1>2. CASE load_queue_info(p)
    <2>1. xact' \in [Producer -> [state : {"idle", "open", "loaded"}, xid : Nat, table : Table, calls : Nat]]
      BY <1>2 DEF load_queue_info
    <2>. QED
      BY <1>2, <2>1 DEF load_queue_info, producerUnchanged, consumerVars, historyVars, xidVars
  <1>3. CASE pgq_insert_event_raw(p)
    <2>. DEFINE x == IF xact[p].xid = 0 THEN nextXid ELSE xact[p].xid
                row == [ev_id |-> <<x, xact[p].calls>>, ev_txid |-> x, ev_owner |-> NULL]
    <2>1. x \in Nat /\ nextXid' \in Nat /\ xact[p].table \in Table /\ xact[p].calls \in Nat
      BY <1>3 DEF pgq_insert_event_raw
    <2>2. row \in RowType
      BY <2>1 DEF RowType, IdType
    <2>3. /\ event' = [event EXCEPT ![xact[p].table] = @ \cup {row}]
          /\ xact' = [xact EXCEPT ![p].state = "open", ![p].xid = x]
          /\ entry' = IF PerTxLimit >= 0 THEN [entry EXCEPT ![p] = load_insert_plan(p, x)] ELSE entry
      BY <1>3, Zenon DEF pgq_insert_event_raw
    <2>. HIDE DEF x, row
    <2>4. load_insert_plan(p, x) \in [cur_table : {NULL} \cup Table, last_xid : Nat, last_count : Nat]
      BY <2>1 DEF load_insert_plan
    <2>5. entry' \in [Producer -> [cur_table : {NULL} \cup Table, last_xid : Nat, last_count : Nat]]
      BY <2>3, <2>4
    <2>6. event' \in [Table -> SUBSET RowType]
      BY <2>1, <2>2, <2>3
    <2>7. xact' \in [Producer -> [state : {"idle", "open", "loaded"}, xid : Nat, table : Table, calls : Nat]]
      BY <2>1, <2>3, OpenedTyped
    <2>. QED
      BY <1>3, <2>1, <2>5, <2>6, <2>7
         DEF pgq_insert_event_raw, producerUnchanged, consumerVars, historyVars
  <1>. DEFINE Rest == /\ xact' = [xact EXCEPT ![p] = NoXact] /\ Completed(xact[p].xid)
                      /\ UNCHANGED <<producerUnchanged, nextXid, event_seq, entry, used>>
  <1>4. ASSUME Rest, log' \subseteq RowType, event' \in [Table -> SUBSET RowType] PROVE Typed'
    <2>1. /\ xact' \in [Producer -> [state : {"idle", "open", "loaded"}, xid : Nat, table : Table, calls : Nat]]
          /\ latestCompletedXid' \in Nat
      BY <1>4, TableFacts DEF NoXact, Completed
    <2>. QED
      BY <1>4, <2>1 DEF producerUnchanged, consumerVars, historyVars
  <1>5. CASE Commit(p)
    <2>1. log' \subseteq RowType /\ event' = event /\ Rest
      BY <1>5 DEF Commit, Rows
    <2>. QED
      BY <1>4, <2>1
  <1>6. CASE Abort(p)
    <2>1. Without(xact[p].xid) \in [Table -> SUBSET RowType]
      BY DEF Without
    <2>2. log' = log /\ event' \in [Table -> SUBSET RowType] /\ Rest
      BY <1>6, <2>1 DEF Abort
    <2>. QED
      BY <1>4, <2>2
  <1>. QED
    BY <1>1, <1>2, <1>3, <1>5, <1>6 DEF Produce

\* So does pgqd ...
LEMMA ServerTyped ==
  ASSUME Typed, MoverRight, Pgqd
  PROVE  Typed'
  <1>. USE DEF Typed, TypeOK, UsedRight, HistoryRight, TickerType, MaintType
  <1>. DEFINE RestKept == UNCHANGED serverUnchanged
              UsedOk == UsedRight'
              CountersOk == /\ nextXid' \in Nat /\ latestCompletedXid' \in Nat
                            /\ event_seq' \in Nat /\ tick_seq' \in Nat
              QueueOk == /\ queue' \in [cur_table : Table, switch_step1 : Nat, switch_step2 : Nat]
                        /\ tick' \subseteq TickType /\ retry_queue' \subseteq RequestType
                        /\ event' \in [Table -> SUBSET RowType] /\ log' \subseteq RowType
              TickerOk == ticker' \in {NULL} \cup TickerType
              MaintOk == maint' \in {NULL} \cup MaintType
              MoverOk == mover' \in {NULL} \cup MoverType
  <1>0. ASSUME RestKept, UsedOk, CountersOk, QueueOk, TickerOk, MaintOk, MoverOk PROVE Typed'
    BY <1>0 DEF serverUnchanged, producerVars, consumerVars, historyVars
  <1>. HIDE DEF RestKept
  <1>1. CASE ticker_inserts
    <2>1. UsedOk
      <3>1. used' = used \/ Use("idle", MaxIdleTicks)
        BY <1>1, Zenon DEF ticker_inserts
      <3>. QED
        BY <3>1 DEF Use
    <2>2. TickerOk
      BY <1>1, SnapshotFacts DEF ticker_inserts, seq_getval
    <2>. QED
      BY <1>0, <1>1, <2>1, <2>2 DEF ticker_inserts, RestKept
  <1>2. CASE ticker_commits
    <2>1. tick' \subseteq TickType
      BY <1>2 DEF ticker_commits, TickType
    <2>. QED
      BY <1>0, <1>2, <2>1 DEF ticker_commits, Completed, RestKept
  <1>3. CASE maint_rotate_tables_step1
    <2>1. UsedOk
      BY <1>3 DEF maint_rotate_tables_step1, Use
    <2>2. MaintOk
      BY <1>3, TableFacts DEF maint_rotate_tables_step1
    <2>. QED
      BY <1>0, <1>3, <2>1, <2>2 DEF maint_rotate_tables_step1, RestKept
  <1>4. CASE maint_rotate_tables_step2
    <2>1. MaintOk
      BY <1>4 DEF maint_rotate_tables_step2
    <2>. QED
      BY <1>0, <1>4, <2>1 DEF maint_rotate_tables_step2, RestKept
  <1>5. CASE maint_commits
    <2>1. Switched \in [cur_table : Table, switch_step1 : Nat, switch_step2 : Nat]
      BY <1>5 DEF maint_commits, Switched
    <2>2. event' \in [Table -> SUBSET RowType]
      BY <1>5 DEF maint_commits
    <2>3. CountersOk
      BY <1>5 DEF maint_commits, Completed
    <2>4. QueueOk
      BY <1>5, <2>1, <2>2 DEF maint_commits
    <2>. QED
      BY <1>0, <1>5, <2>3, <2>4 DEF maint_commits, RestKept
  <1>6. ASSUME NEW q \in retry_queue, maint_retry_events_loads(q) PROVE Typed'
    <2>1. MoverOk
      BY <1>6, TableFacts DEF maint_retry_events_loads, MoverType
    <2>. QED
      BY <1>0, <1>6, <2>1 DEF maint_retry_events_loads, RestKept, xidVars
  <1>7. CASE maint_retry_events_moves
    <2>. DEFINE x == IF mover.xid = 0 THEN nextXid ELSE mover.xid
                row == [ev_id |-> mover.row.ev_id, ev_txid |-> x, ev_owner |-> mover.row.ev_owner]
    <2>1. mover \in MoverType /\ mover.row \in RequestType
      BY <1>7 DEF maint_retry_events_moves, MoverRight
    <2>2. x \in Nat /\ nextXid' \in Nat /\ mover.table \in Table
      BY <1>7, <2>1 DEF maint_retry_events_moves, MoverType
    <2>3. row \in RowType
      BY <2>1, <2>2 DEF RowType, RequestType
    <2>4. /\ event' = [event EXCEPT ![mover.table] = @ \cup {row}]
          /\ mover' = [mover EXCEPT !.xid = x, !.state = "open", !.rows = @ \cup {mover.row}, !.row = NULL]
      BY <1>7, Zenon DEF maint_retry_events_moves
    <2>. HIDE DEF x, row
    <2>5. event' \in [Table -> SUBSET RowType]
      BY <2>2, <2>3, <2>4
    <2>6. mover' \in MoverType
      BY <2>1, <2>2, <2>4 DEF MoverType
    <2>. QED
      BY <1>0, <1>7, <2>2, <2>5, <2>6 DEF maint_retry_events_moves, RestKept
  <1>8. CASE maint_retry_events_commits
    <2>1. log' \subseteq RowType
      BY <1>8 DEF maint_retry_events_commits, Rows
    <2>2. CountersOk
      BY <1>8 DEF maint_retry_events_commits, Completed, MoverType
    <2>3. retry_queue' \subseteq RequestType
      BY <1>8 DEF maint_retry_events_commits, NotMoved
    <2>. QED
      BY <1>0, <1>8, <2>1, <2>2, <2>3 DEF maint_retry_events_commits, RestKept
  <1>9. CASE pgqd_dies
    <2>1. UsedOk
      BY <1>9 DEF pgqd_dies, Use
    <2>2. CountersOk
      BY <1>9 DEF pgqd_dies, Completed, MoverType
    <2>3. \A x : Without(x) \in [Table -> SUBSET RowType]
      BY DEF Without
    <2>4. event' \in [Table -> SUBSET RowType]
      BY <1>9, <2>3 DEF pgqd_dies
    <2>. QED
      BY <1>0, <1>9, <2>1, <2>2, <2>4 DEF pgqd_dies, RestKept
  <1>. QED
    BY <1>1, <1>2, <1>3, <1>4, <1>5, <1>6, <1>7, <1>8, <1>9 DEF Pgqd

\* ... and so do consumers.
LEMMA ConsumerTyped ==
  ASSUME Typed, OpenRight, NEW c \in Consumer,
         \/ Consume(c) \/ consumer_dies(c)
         \/ \E t \in tick : register_consumer_at(c, t)
         \/ registered(c) \/ unregister_consumer(c)
         \/ batch_retry(c) \/ \E id \in EventIds(c) : event_retry(c, id)
  PROVE  Typed'
  <1>. DEFINE SubType == {NULL} \cup SubscriptionType
              BatchType == {NULL} \cup [last : SnapshotType, cur : SnapshotType, tables : SUBSET Table]
              SubOk == subscription' \in [Consumer -> SubType] /\ sub_seq' \in Nat
              RetryOk == /\ retry_queue' \subseteq RequestType
                        /\ asked' \subseteq [ev_owner : Consumer \X Nat, ev_id : IdType \X Nat]
              RegOk == registering' \in [Consumer -> {NULL} \cup TickType]
              BatchOk == batch' \in [Consumer -> BatchType] /\ got' \in [Consumer -> {NULL} \cup SUBSET RowType]
              StartOk == start' \in [Consumer -> SnapshotType]
              SeenOk == seen' \in [Consumer -> SUBSET RowType] /\ again' \in [Consumer -> BOOLEAN]
  <1>0. ASSUME UNCHANGED consumerUnchanged, SubOk, RetryOk, RegOk, BatchOk, StartOk, SeenOk, UsedRight' PROVE Typed'
    BY <1>0 DEF consumerUnchanged, xidVars, producerVars, Typed, TypeOK, HistoryRight
  <1>1. /\ subscription \in [Consumer -> SubType] /\ sub_seq \in Nat
        /\ retry_queue \subseteq RequestType
        /\ asked \subseteq [ev_owner : Consumer \X Nat, ev_id : IdType \X Nat]
        /\ registering \in [Consumer -> {NULL} \cup TickType]
        /\ batch \in [Consumer -> BatchType] /\ got \in [Consumer -> {NULL} \cup SUBSET RowType]
        /\ start \in [Consumer -> SnapshotType]
        /\ seen \in [Consumer -> SUBSET RowType] /\ again \in [Consumer -> BOOLEAN]
        /\ UsedRight /\ tick \subseteq TickType /\ event \in [Table -> SUBSET RowType]
        /\ queue.cur_table \in Table
    BY DEF Typed, TypeOK, HistoryRight
  <1>2. ASSUME NEW t \in tick, next_batch_custom(c, t) PROVE Typed'
    <2>1. subscription' = [subscription EXCEPT ![c].next = t.id] /\ subscription[c] # NULL /\ t.id \in Nat
      BY <1>1, <1>2 DEF next_batch_custom, TickType
    <2>2. SubOk
      BY <1>1, <1>2, <2>1 DEF next_batch_custom
    <2>. QED
      BY <1>0, <1>1, <1>2, <2>2 DEF next_batch_custom, consumerVars, historyVars, UsedRight
  <1>3. CASE find_batch(c)
    <2>1. Last(c) \in SnapshotType /\ Cur(c) \in SnapshotType
      <3>1. /\ \E t \in tick : t.id = subscription[c].last
            /\ \E t \in tick : t.id = subscription[c].next
        BY <1>3 DEF find_batch, HasTicks, HasTick
      <3>2. TickRow(subscription[c].last) \in tick /\ TickRow(subscription[c].next) \in tick
        BY <3>1 DEF TickRow
      <3>. QED
        BY <1>1, <3>2 DEF Last, Cur, TickType
    <2>2. batch_event_tables(Last(c), Cur(c)) \subseteq Table
      <3>1. Previous(queue.cur_table) \in Table
        BY <1>1, TableFacts
      <3>. QED
        BY <1>1, <3>1 DEF batch_event_tables
    <2>3. [last |-> Last(c), cur |-> Cur(c), tables |-> batch_event_tables(Last(c), Cur(c))] \in BatchType
      BY <2>1, <2>2
    <2>4. BatchOk
      BY <1>1, <1>3, <2>3 DEF find_batch
    <2>. QED
      BY <1>0, <1>1, <1>3, <2>4 DEF find_batch, historyVars, UsedRight
  <1>4. CASE get_batch_events(c)
    <2>1. batch[c].tables \subseteq Table
      BY <1>1, <1>4 DEF get_batch_events
    <2>2. RowsOf(batch_event_sql(c, batch[c])) \subseteq RowType
      <3>1. \A x \in batch_event_sql(c, batch[c]) : \E t \in batch[c].tables : x[2] \in event[t]
        BY DEF batch_event_sql
      <3>. QED
        BY <1>1, <2>1, <3>1 DEF RowsOf
    <2>3. /\ got' = [got EXCEPT ![c] = RowsOf(batch_event_sql(c, batch[c]))]
          /\ \E b : again' = [again EXCEPT ![c] = b] /\ b \in BOOLEAN
          /\ batch' = [batch EXCEPT ![c] = NULL]
      BY <1>4, <1>1 DEF get_batch_events
    <2>4. BatchOk
      BY <1>1, <2>2, <2>3
    <2>5. again' \in [Consumer -> BOOLEAN]
      BY <1>1, <2>3
    <2>. QED
      BY <1>0, <1>1, <1>4, <2>4, <2>5 DEF get_batch_events, UsedRight
  <1>5. CASE finish_batch(c)
    <2>1. /\ subscription' = [subscription EXCEPT ![c].last = subscription[c].next, ![c].next = 0]
          /\ subscription[c] # NULL /\ got[c] # NULL
      BY <1>5 DEF finish_batch, Active
    <2>2. subscription[c] \in SubscriptionType
      BY <1>1, <2>1
    <2>3. SubOk
      <3>1. TypeOK
        BY DEF Typed
      <3>2. \E r \in SubscriptionType : subscription' = [subscription EXCEPT ![c] = r]
        BY <2>1, <3>1, FinishedIs, Zenon
      <3>. QED
        BY <1>1, <1>5, <3>2 DEF finish_batch
    <2>4. SeenOk
      BY <1>1, <1>5 DEF finish_batch
    <2>5. BatchOk
      BY <1>1, <1>5 DEF finish_batch
    <2>. QED
      BY <1>0, <1>1, <1>5, <2>3, <2>4, <2>5 DEF finish_batch, UsedRight
  <1>6. CASE consumer_dies(c)
    <2>1. UsedRight'
      BY <1>1, <1>6 DEF consumer_dies, Use, UsedRight
    <2>2. BatchOk
      BY <1>1, <1>6 DEF consumer_dies
    <2>. QED
      BY <1>0, <1>1, <1>6, <2>1, <2>2 DEF consumer_dies, historyVars
  <1>7. ASSUME NEW t \in tick, register_consumer_at(c, t) PROVE Typed'
    <2>1. UsedRight'
      BY <1>1, <1>7 DEF register_consumer_at, Use, UsedRight
    <2>2. RegOk
      BY <1>1, <1>7 DEF register_consumer_at
    <2>. QED
      BY <1>0, <1>1, <1>7, <2>1, <2>2 DEF register_consumer_at, historyVars
  <1>8. CASE registered(c)
    <2>1. registering[c] \in TickType
      BY <1>1, <1>8 DEF registered
    <2>2. registering[c].id \in Nat /\ registering[c].snapshot \in SnapshotType
      BY <2>1 DEF TickType
    <2>3. Subscribed(c) \in SubType
      BY <1>1, <2>2 DEF Subscribed
    <2>4. SubOk /\ RegOk /\ StartOk
      BY <1>1, <1>8, <2>2, <2>3 DEF registered
    <2>5. BatchOk /\ SeenOk
      BY <1>1, <1>8 DEF registered
    <2>. QED
      BY <1>0, <1>1, <1>8, <2>4, <2>5 DEF registered, UsedRight
  <1>9. CASE unregister_consumer(c)
    <2>1. UsedRight'
      BY <1>1, <1>9 DEF unregister_consumer, Use, UsedRight
    <2>2. SubOk /\ RetryOk
      BY <1>1, <1>9 DEF unregister_consumer
    <2>3. BatchOk /\ SeenOk
      BY <1>1, <1>9 DEF unregister_consumer
    <2>. QED
      BY <1>0, <1>1, <1>9, <2>1, <2>2, <2>3 DEF unregister_consumer
  <1>a. ASSUME NEW qs \in SUBSET RequestType, Accept(qs) PROVE RetryOk
    <2>1. used.retries \in Nat
      BY <1>1 DEF UsedRight
    <2>2. \A q \in RequestType : [q EXCEPT !.ev_id = <<@, used.retries>>] \in [ev_owner : Consumer \X Nat, ev_id : IdType \X Nat]
      BY <2>1 DEF RequestType
    <2>. QED
      BY <1>1, <1>a, <2>2 DEF Accept
  <1>b. ASSUME got[c] # NULL PROVE \A r \in got[c] : Request(c, r.ev_id) \in RequestType
    <2>1. subscription[c] \in SubscriptionType
      BY <1>1, <1>b DEF OpenRight, Active
    <2>2. got[c] \subseteq RowType
      BY <1>1, <1>b
    <2>. QED
      BY <2>1, <2>2 DEF Request, RequestType, RowType
  <1>c. CASE batch_retry(c)
    <2>1. UsedRight'
      BY <1>1, <1>c DEF batch_retry, Use, UsedRight
    <2>2. RetryOk
      BY <1>a, <1>b, <1>c DEF batch_retry
    <2>. QED
      BY <1>0, <1>1, <1>c, <2>1, <2>2 DEF batch_retry, consumerVars
  <1>d. ASSUME NEW id \in EventIds(c), event_retry(c, id) PROVE Typed'
    <2>1. UsedRight'
      BY <1>1, <1>d DEF event_retry, Use, UsedRight
    <2>2. RetryOk
      BY <1>a, <1>b, <1>d DEF event_retry, EventIds
    <2>. QED
      BY <1>0, <1>1, <1>d, <2>1, <2>2 DEF event_retry, consumerVars
  <1>. QED
    BY <1>2, <1>3, <1>4, <1>5, <1>6, <1>7, <1>8, <1>9, <1>c, <1>d DEF Consume
-----------------------------------------------------------------------------
(* What the steps of transactions do, field by field.                      *)

OtherXacts(p) == \A q \in Producer : q # p => xact'[q] = xact[q]

\* A transaction begins.
LEMMA BeginEffect ==
  ASSUME Typed, NEW p \in Producer, Begin(p)
  PROVE  /\ OtherXacts(p) /\ xact[p].state = "idle" /\ xact'[p].state = "open"
         /\ xact'[p].table = xact[p].table /\ xact'[p].calls = xact[p].calls
         /\ IF p \in Bare THEN xact'[p].xid = xact[p].xid /\ nextXid' = nextXid
                          ELSE xact'[p].xid = nextXid /\ nextXid' = nextXid + 1
         /\ UNCHANGED <<producerUnchanged, latestCompletedXid, event, log>>
  <1>0. TypeOK /\ nextXid \in Nat
    BY DEF Typed, TypeOK
  <1>1. xact[p].state = "idle" /\ UNCHANGED <<producerUnchanged, latestCompletedXid, event, log>>
    BY DEF Begin
  <1>2. CASE p \in Bare
    <2>1. xact' = [xact EXCEPT ![p].state = "open"] /\ nextXid' = nextXid
      BY <1>2 DEF Begin
    <2>. QED
      BY <1>0, <1>1, <1>2, <2>1 DEF TypeOK, OtherXacts
  <1>3. CASE p \notin Bare
    <2>1. xact' = [xact EXCEPT ![p].state = "open", ![p].xid = nextXid] /\ nextXid' = nextXid + 1
      BY <1>3, Zenon DEF Begin
    <2>2. /\ \A q \in Producer : q # p => xact'[q] = xact[q]
          /\ xact'[p] = [state |-> "open", xid |-> nextXid, table |-> xact[p].table, calls |-> xact[p].calls]
      BY <1>0, <2>1, OpenedTyped, Zenon
    <2>3. /\ xact'[p].state = "open" /\ xact'[p].xid = nextXid
          /\ xact'[p].table = xact[p].table /\ xact'[p].calls = xact[p].calls
      BY <2>2
    <2>. QED
      BY <1>1, <1>3, <2>1, <2>2, <2>3, Zenon DEF OtherXacts
  <1>. QED
    BY <1>2, <1>3

\* It looks at the queue.
LEMMA LoadEffect ==
  ASSUME Typed, NEW p \in Producer, load_queue_info(p)
  PROVE  /\ OtherXacts(p) /\ xact[p].state = "open" /\ xact'[p].state = "loaded"
         /\ xact'[p].xid = xact[p].xid
         /\ xact'[p].table = queue.cur_table /\ xact'[p].calls = xact[p].calls + 1
         /\ UNCHANGED <<producerUnchanged, xidVars, event, log>>
  BY DEF load_queue_info, Typed, TypeOK, OtherXacts

InsertXid(p) == IF xact[p].xid = 0 THEN nextXid ELSE xact[p].xid
InsertRow(p) == [ev_id |-> <<InsertXid(p), xact[p].calls>>, ev_txid |-> InsertXid(p), ev_owner |-> NULL]

\* It inserts a row.
LEMMA InsertEffect ==
  ASSUME Typed, NEW p \in Producer, pgq_insert_event_raw(p)
  PROVE  /\ OtherXacts(p) /\ xact[p].state = "loaded" /\ xact'[p].state = "open"
         /\ xact'[p].xid = InsertXid(p)
         /\ xact'[p].table = xact[p].table /\ xact'[p].calls = xact[p].calls
         /\ nextXid' = IF xact[p].xid = 0 THEN nextXid + 1 ELSE nextXid
         /\ \A t \in Table :
              event'[t] = IF t = xact[p].table THEN event[t] \cup {InsertRow(p)} ELSE event[t]
         /\ ~Locked(xact[p].table) /\ xact[p].table \in Table /\ InsertRow(p) \in RowType
         /\ UNCHANGED <<producerUnchanged, latestCompletedXid, log>>
  <1>0. TypeOK /\ nextXid \in Nat /\ xact[p].xid \in Nat /\ xact[p].table \in Table /\ xact[p].calls \in Nat
    BY DEF Typed, TypeOK
  <1>1. InsertXid(p) \in Nat
    BY <1>0 DEF InsertXid
  <1>2. /\ xact' = [xact EXCEPT ![p].state = "open", ![p].xid = InsertXid(p)]
        /\ event' = [event EXCEPT ![xact[p].table] = @ \cup {InsertRow(p)}]
    BY Zenon DEF pgq_insert_event_raw, InsertXid, InsertRow
  <1>3. /\ \A q \in Producer : q # p => xact'[q] = xact[q]
        /\ xact'[p] = [state |-> "open", xid |-> InsertXid(p), table |-> xact[p].table, calls |-> xact[p].calls]
    BY <1>0, <1>1, <1>2, OpenedTyped, Zenon
  <1>4. InsertRow(p) \in RowType
    BY <1>0, <1>1 DEF InsertRow, RowType, IdType
  <1>5. \A t \in Table :
          event'[t] = IF t = xact[p].table THEN event[t] \cup {InsertRow(p)} ELSE event[t]
    BY <1>0, <1>2 DEF TypeOK
  <1>6. /\ xact[p].state = "loaded" /\ ~Locked(xact[p].table)
        /\ nextXid' = IF xact[p].xid = 0 THEN nextXid + 1 ELSE nextXid
        /\ UNCHANGED <<producerUnchanged, latestCompletedXid, log>>
    BY DEF pgq_insert_event_raw
  <1>7. /\ xact'[p].state = "open" /\ xact'[p].xid = InsertXid(p)
        /\ xact'[p].table = xact[p].table /\ xact'[p].calls = xact[p].calls
    BY <1>3
  <1>. QED
    BY <1>0, <1>3, <1>4, <1>5, <1>6, <1>7, Zenon DEF OtherXacts

\* It ends, one way or the other.
LEMMA EndEffect ==
  ASSUME Typed, NEW p \in Producer, Commit(p) \/ Abort(p)
  PROVE  /\ OtherXacts(p) /\ xact'[p] = NoXact /\ Completed(xact[p].xid)
         /\ UNCHANGED <<producerUnchanged, nextXid>>
  BY DEF Commit, Abort, Typed, TypeOK, OtherXacts
-----------------------------------------------------------------------------
(* Txids are given out once, and come back once.                           *)

Starts == Running' = Running \cup {nextXid} /\ nextXid' = nextXid + 1 /\ UNCHANGED latestCompletedXid
Stays == Running' = Running /\ UNCHANGED xidVars
Ends(x) == x \in Running \cup {0} /\ Running' = Running \ {x} /\ Completed(x) /\ UNCHANGED nextXid

\* The parts of XidsRight about which txid is whose.
XidsApart ==
  /\ \A p, q \in Producer : p # q /\ xact[p].xid = xact[q].xid => xact[p].xid = 0
  /\ \A p \in Producer : xact[p].state = "idle" => xact[p].xid = 0
  /\ ticker # NULL => ticker.xid > 0 /\ \A p \in Producer : xact[p].xid # ticker.xid
  /\ maint # NULL =>
       /\ maint.xid > 0 /\ \A p \in Producer : xact[p].xid # maint.xid
       /\ ticker # NULL => ticker.xid # maint.xid
  /\ mover # NULL /\ mover.xid # 0 =>
       /\ \A p \in Producer : xact[p].xid # mover.xid
       /\ ticker # NULL => ticker.xid # mover.xid
       /\ maint # NULL => maint.xid # mover.xid

\* The counters stay in order when a txid is taken, or given back.
LEMMA CountersKept ==
  ASSUME Typed, XidsRight, XidsApart', Starts \/ Stays \/ \E x : Ends(x)
  PROVE  XidsRight'
  <1>1. nextXid \in Nat /\ latestCompletedXid \in Nat /\ Running \subseteq Nat
    BY RunningNat DEF Typed, TypeOK
  <1>2. 1 <= latestCompletedXid /\ latestCompletedXid < nextXid /\ \A x \in Running : x < nextXid
    BY DEF XidsRight
  <1>3. 1 <= latestCompletedXid' /\ latestCompletedXid' < nextXid' /\ \A x \in Running' : x < nextXid'
    <2>1. CASE Starts
      BY <1>1, <1>2, <2>1 DEF Starts
    <2>2. CASE Stays
      BY <1>1, <1>2, <2>2 DEF Stays, xidVars
    <2>3. ASSUME NEW x, Ends(x) PROVE 1 <= latestCompletedXid' /\ latestCompletedXid' < nextXid' /\ \A y \in Running' : y < nextXid'
      BY <1>1, <1>2, <2>3 DEF Ends, Completed
    <2>. QED
      BY <2>1, <2>2, <2>3
  <1>. QED
    BY <1>3, Zenon DEF XidsRight, XidsApart

\* Txids that run are below the next one.
LEMMA RunsBelow ==
  ASSUME Typed, XidsRight
  PROVE  /\ nextXid \in Nat /\ nextXid # 0
         /\ \A p \in Producer : xact[p].xid \in Nat /\ xact[p].xid < nextXid
         /\ ticker # NULL => ticker.xid \in Nat /\ ticker.xid < nextXid
         /\ maint # NULL => maint.xid \in Nat /\ maint.xid < nextXid
         /\ mover # NULL => mover.xid \in Nat /\ mover.xid < nextXid
  <1>1. nextXid \in Nat /\ nextXid > 0
    BY DEF Typed, TypeOK, XidsRight
  <1>2. \A x : RunsNow(x) => x < nextXid
    BY RunningFacts, Zenon DEF XidsRight
  <1>3. \A p \in Producer : xact[p].xid \in Nat
    BY DEF Typed, TypeOK
  <1>4. ticker # NULL => ticker.xid \in Nat
    BY DEF Typed, TypeOK, TickerType
  <1>5. maint # NULL => maint.xid \in Nat
    BY DEF Typed, TypeOK, MaintType
  <1>6. mover # NULL => mover.xid \in Nat
    BY DEF Typed, TypeOK, MoverType
  <1>. QED
    BY <1>1, <1>2, <1>3, <1>4, <1>5, <1>6 DEF RunsNow

SameServer == ticker' = ticker /\ maint' = maint /\ mover' = mover

\* A producer takes a txid ...
LEMMA XidTaken ==
  ASSUME Typed, XidsRight, NEW p \in Producer, SameServer, OtherXacts(p), xact'[p].xid = nextXid,
         xact[p].xid = 0, nextXid' = nextXid + 1, xact'[p].state # "idle", UNCHANGED latestCompletedXid
  PROVE  Starts /\ XidsRight'
  <1>. USE DEF SameServer
  <1>0. XidsApart
    BY Zenon DEF XidsRight, XidsApart
  <1>1. \A x : RunsNow(x)' <=> RunsNow(x) \/ x = nextXid
    BY RunsBelow DEF RunsNow, OtherXacts
  <1>2. Running' = Running \cup {nextXid}
    BY <1>1, RunningFacts
  <1>3. XidsApart'
    BY <1>0, RunsBelow DEF XidsApart, OtherXacts
  <1>. QED
    BY <1>2, <1>3, CountersKept DEF Starts

\* ... keeps it ...
LEMMA XidKept ==
  ASSUME Typed, XidsRight, NEW p \in Producer, SameServer, OtherXacts(p), xact'[p].xid = xact[p].xid,
         UNCHANGED xidVars, xact'[p].state # "idle"
  PROVE  Stays /\ XidsRight'
  <1>. USE DEF SameServer
  <1>0. XidsApart
    BY Zenon DEF XidsRight, XidsApart
  <1>1. \A x : RunsNow(x)' <=> RunsNow(x)
    BY DEF RunsNow, OtherXacts
  <1>2. Running' = Running
    BY <1>1, RunningFacts
  <1>3. XidsApart'
    BY <1>0 DEF XidsApart, OtherXacts
  <1>. QED
    BY <1>2, <1>3, CountersKept DEF Stays

\* ... and gives it back.
LEMMA XidGiven ==
  ASSUME Typed, XidsRight, NEW p \in Producer, SameServer, OtherXacts(p), xact'[p] = NoXact,
         UNCHANGED nextXid, Completed(xact[p].xid)
  PROVE  Ends(xact[p].xid) /\ XidsRight'
  <1>. USE DEF SameServer
  <1>0. XidsApart
    BY Zenon DEF XidsRight, XidsApart
  <1>1. xact'[p].xid = 0 /\ xact'[p].state = "idle"
    BY DEF NoXact
  <1>2. \A x : RunsNow(x)' <=> RunsNow(x) /\ x # xact[p].xid
    BY <1>0, <1>1 DEF RunsNow, OtherXacts, XidsApart
  <1>3. Running' = Running \ {xact[p].xid}
    BY <1>2, RunningFacts
  <1>4. xact[p].xid \in Running \cup {0}
    BY RunningFacts DEF RunsNow
  <1>5. XidsApart'
    BY <1>0, <1>1 DEF XidsApart, OtherXacts
  <1>. QED
    BY <1>3, <1>4, <1>5, CountersKept DEF Ends

\* The steps of producers.
LEMMA BeginXids ==
  ASSUME Typed, XidsRight, NEW p \in Producer, Begin(p)
  PROVE  XidsRight' /\ (Starts \/ Stays)
  <1>1. xact[p].xid = 0 /\ xact'[p].state # "idle"
    BY BeginEffect DEF XidsRight
  <1>2. CASE p \in Bare
    <2>1. SameServer /\ OtherXacts(p) /\ xact'[p].xid = xact[p].xid /\ UNCHANGED xidVars
      BY <1>2, BeginEffect DEF producerUnchanged, xidVars, SameServer
    <2>. QED
      BY <1>1, <2>1, XidKept
  <1>3. CASE p \notin Bare
    <2>1. /\ SameServer /\ OtherXacts(p) /\ xact'[p].xid = nextXid /\ nextXid' = nextXid + 1
          /\ UNCHANGED latestCompletedXid
      BY <1>3, BeginEffect DEF producerUnchanged, SameServer
    <2>. QED
      BY <1>1, <2>1, XidTaken
  <1>. QED
    BY <1>2, <1>3

\* load_queue_info takes no txid.
LEMMA LoadXids ==
  ASSUME Typed, XidsRight, NEW p \in Producer, load_queue_info(p)
  PROVE  XidsRight' /\ Stays
  <1>1. /\ SameServer /\ OtherXacts(p) /\ xact'[p].xid = xact[p].xid /\ UNCHANGED xidVars
        /\ xact'[p].state # "idle"
    BY LoadEffect DEF producerUnchanged, SameServer
  <1>. QED
    BY <1>1, XidKept

\* pgq_insert_event_raw takes one unless there is one.
LEMMA InsertXids ==
  ASSUME Typed, XidsRight, NEW p \in Producer, pgq_insert_event_raw(p)
  PROVE  XidsRight' /\ IF xact[p].xid = 0 THEN Starts ELSE Stays
  <1>1. SameServer /\ OtherXacts(p) /\ xact'[p].state # "idle" /\ UNCHANGED latestCompletedXid
    BY InsertEffect DEF producerUnchanged, SameServer
  <1>2. CASE xact[p].xid = 0
    <2>1. xact'[p].xid = nextXid /\ nextXid' = nextXid + 1
      BY <1>2, InsertEffect DEF InsertXid
    <2>. QED
      BY <1>1, <1>2, <2>1, XidTaken
  <1>3. CASE xact[p].xid # 0
    <2>1. xact'[p].xid = xact[p].xid /\ UNCHANGED xidVars
      BY <1>1, <1>3, InsertEffect DEF InsertXid, xidVars
    <2>. QED
      BY <1>1, <1>3, <2>1, XidKept
  <1>. QED
    BY <1>2, <1>3

\* Commit and Abort give it back.
LEMMA EndXids ==
  ASSUME Typed, XidsRight, NEW p \in Producer, Commit(p) \/ Abort(p)
  PROVE  XidsRight' /\ Ends(xact[p].xid)
  <1>1. /\ SameServer /\ OtherXacts(p) /\ xact'[p] = NoXact /\ UNCHANGED nextXid /\ Completed(xact[p].xid)
    BY EndEffect DEF producerUnchanged, SameServer
  <1>. QED
    BY <1>1, XidGiven

\* A process of pgqd takes a txid ...
LEMMA ServerTaken ==
  ASSUME Typed, XidsRight, UNCHANGED <<xact, latestCompletedXid>>, nextXid' = nextXid + 1,
         \/ ticker = NULL /\ ticker' # NULL /\ ticker'.xid = nextXid /\ UNCHANGED <<maint, mover>>
         \/ maint = NULL /\ maint' # NULL /\ maint'.xid = nextXid /\ UNCHANGED <<ticker, mover>>
         \/ /\ mover # NULL /\ mover.xid = 0 /\ mover' # NULL /\ mover'.xid = nextXid
            /\ UNCHANGED <<ticker, maint>>
  PROVE  Starts /\ XidsRight'
  <1>0. XidsApart
    BY Zenon DEF XidsRight, XidsApart
  <1>1. \A x : RunsNow(x)' <=> RunsNow(x) \/ x = nextXid
    BY RunsBelow DEF RunsNow
  <1>2. Running' = Running \cup {nextXid}
    BY <1>1, RunningFacts
  <1>3. XidsApart'
    BY <1>0, RunsBelow DEF XidsApart
  <1>. QED
    BY <1>2, <1>3, CountersKept DEF Starts

\* ... gives one back ...
LEMMA ServerGiven ==
  ASSUME Typed, XidsRight, UNCHANGED <<xact, nextXid>>, NEW x, Completed(x),
         \/ ticker # NULL /\ ticker.xid = x /\ ticker' = NULL /\ UNCHANGED <<maint, mover>>
         \/ maint # NULL /\ maint.xid = x /\ maint' = NULL /\ UNCHANGED <<ticker, mover>>
         \/ mover # NULL /\ mover.xid = x /\ mover' = NULL /\ UNCHANGED <<ticker, maint>>
  PROVE  Ends(x) /\ XidsRight'
  <1>0. XidsApart
    BY Zenon DEF XidsRight, XidsApart
  <1>1. \A y : RunsNow(y)' <=> RunsNow(y) /\ y # x
    BY <1>0 DEF RunsNow, XidsApart
  <1>2. Running' = Running \ {x}
    BY <1>1, RunningFacts
  <1>3. x \in Running \cup {0}
    BY RunningFacts DEF RunsNow
  <1>4. XidsApart'
    BY <1>0 DEF XidsApart
  <1>. QED
    BY <1>2, <1>3, <1>4, CountersKept DEF Ends

\* ... or does neither.
LEMMA ServerSame ==
  ASSUME Typed, XidsRight, UNCHANGED <<xact, ticker, maint, xidVars>>,
         \/ mover = NULL /\ mover' # NULL /\ mover'.xid = 0
         \/ mover # NULL /\ mover' # NULL /\ mover'.xid = mover.xid
         \/ mover' = mover
  PROVE  Stays /\ XidsRight'
  <1>0. XidsApart
    BY Zenon DEF XidsRight, XidsApart
  <1>1. \A y : RunsNow(y)' <=> RunsNow(y)
    BY DEF RunsNow
  <1>2. Running' = Running
    BY <1>1, RunningFacts
  <1>4. XidsApart'
    BY <1>0 DEF XidsApart
  <1>. QED
    BY <1>2, <1>4, CountersKept DEF Stays

\* The ticker takes a txid ...
LEMMA TickerInsertsXids ==
  ASSUME Typed, XidsRight, ticker_inserts
  PROVE  XidsRight' /\ Starts /\ ticker' # NULL
  <1>1. ticker' \in TickerType /\ ticker'.xid = nextXid
    BY SnapshotFacts DEF ticker_inserts, seq_getval, Typed, TypeOK, TickerType
  <1>2. ticker' # NULL
    BY <1>1, PgQAssumption
  <1>. QED
    BY <1>1, <1>2, ServerTaken DEF ticker_inserts, serverUnchanged, producerVars

\* ... and gives it back.
LEMMA TickerCommitsXids ==
  ASSUME Typed, XidsRight, ticker_commits
  PROVE  XidsRight' /\ Ends(ticker.xid)
  BY ServerGiven DEF ticker_commits, serverUnchanged, producerVars

\* Each rotation step takes a txid ...
LEMMA RotateXids ==
  ASSUME Typed, XidsRight, maint_rotate_tables_step1 \/ maint_rotate_tables_step2
  PROVE  XidsRight' /\ Starts /\ maint' # NULL /\ maint'.xid = nextXid
  <1>1. CASE maint_rotate_tables_step1
    <2>1. maint' \in MaintType /\ maint'.xid = nextXid
      BY <1>1, TableFacts DEF maint_rotate_tables_step1, Typed, TypeOK, MaintType
    <2>2. maint' # NULL
      BY <2>1, PgQAssumption
    <2>. QED
      BY <1>1, <2>1, <2>2, ServerTaken DEF maint_rotate_tables_step1, serverUnchanged, producerVars
  <1>2. CASE maint_rotate_tables_step2
    <2>1. maint' \in MaintType /\ maint'.xid = nextXid
      BY <1>2 DEF maint_rotate_tables_step2, Typed, TypeOK, MaintType
    <2>2. maint' # NULL
      BY <2>1, PgQAssumption
    <2>. QED
      BY <1>2, <2>1, <2>2, ServerTaken DEF maint_rotate_tables_step2, serverUnchanged, producerVars
  <1>. QED
    BY <1>1, <1>2

\* ... and gives it back.
LEMMA MaintCommitsXids ==
  ASSUME Typed, XidsRight, maint_commits
  PROVE  XidsRight' /\ Ends(maint.xid)
  BY ServerGiven DEF maint_commits, serverUnchanged, producerVars

\* The mover looks at the queue ...
LEMMA LoadsEffect ==
  ASSUME Typed, NEW q \in retry_queue, maint_retry_events_loads(q)
  PROVE  /\ mover' \in MoverType /\ mover' # NULL
         /\ mover'.xid = (IF mover = NULL THEN 0 ELSE mover.xid)
         /\ mover'.rows = (IF mover = NULL THEN {} ELSE mover.rows)
         /\ mover'.state = "loaded" /\ mover'.table = queue.cur_table
         /\ mover'.row = q /\ q \in RequestType /\ q \notin mover'.rows
  <1>. DEFINE m == IF mover = NULL THEN [xid |-> 0, state |-> "open", table |-> 0, rows |-> {}, row |-> NULL]
                                   ELSE mover
  <1>1. m \in MoverType
    BY TableFacts DEF Typed, TypeOK, MoverType
  <1>2. q \in RequestType /\ queue.cur_table \in Table
    BY DEF Typed, TypeOK
  <1>3. mover' = [m EXCEPT !.state = "loaded", !.table = queue.cur_table, !.row = q] /\ q \notin m.rows
    BY Zenon DEF maint_retry_events_loads
  <1>4. m.xid = (IF mover = NULL THEN 0 ELSE mover.xid) /\ m.rows = (IF mover = NULL THEN {} ELSE mover.rows)
    OBVIOUS
  <1>. HIDE DEF m
  <1>5. mover' = [xid |-> m.xid, state |-> "loaded", table |-> queue.cur_table, rows |-> m.rows, row |-> q]
    BY <1>1, <1>3 DEF MoverType
  <1>6. mover' \in MoverType
    BY <1>1, <1>2, <1>5 DEF MoverType
  <1>7. mover' # NULL
    BY <1>6, PgQAssumption
  <1>8. /\ mover'.xid = m.xid /\ mover'.state = "loaded" /\ mover'.table = queue.cur_table
        /\ mover'.rows = m.rows /\ mover'.row = q
    BY <1>5
  <1>. QED
    BY <1>2, <1>3, <1>4, <1>6, <1>7, <1>8, Zenon

\* ... for which it needs no txid, ...
LEMMA LoadsXids ==
  ASSUME Typed, XidsRight, NEW q \in retry_queue, maint_retry_events_loads(q)
  PROVE  XidsRight' /\ Stays
  <1>1. UNCHANGED <<xact, ticker, maint, xidVars>>
    BY DEF maint_retry_events_loads, serverUnchanged, producerVars
  <1>2. mover' # NULL /\ mover'.xid = IF mover = NULL THEN 0 ELSE mover.xid
    BY LoadsEffect
  <1>. QED
    BY <1>1, <1>2, ServerSame

MoveXid == IF mover.xid = 0 THEN nextXid ELSE mover.xid
MoveRow == [ev_id |-> mover.row.ev_id, ev_txid |-> MoveXid, ev_owner |-> mover.row.ev_owner]

\* ... moves a request ...
LEMMA MovesEffect ==
  ASSUME Typed, MoverRight, maint_retry_events_moves
  PROVE  /\ mover # NULL /\ mover.state = "loaded" /\ mover.row \in RequestType
         /\ mover.row \notin mover.rows /\ ~Locked(mover.table) /\ mover.table \in Table
         /\ mover' \in MoverType /\ mover' # NULL
         /\ mover'.xid = MoveXid /\ mover'.state = "open" /\ mover'.table = mover.table
         /\ mover'.rows = mover.rows \cup {mover.row} /\ mover'.row = NULL
         /\ MoveRow \in RowType
         /\ \A t \in Table : event'[t] = IF t = mover.table THEN event[t] \cup {MoveRow} ELSE event[t]
  <1>1. mover # NULL /\ mover \in MoverType /\ nextXid \in Nat
    BY DEF maint_retry_events_moves, Typed, TypeOK
  <1>2. mover.row \in RequestType /\ mover.row \notin mover.rows
    BY DEF maint_retry_events_moves, MoverRight
  <1>3. MoveXid \in Nat /\ mover.table \in Table
    BY <1>1 DEF MoveXid, MoverType
  <1>4. MoveRow \in RowType
    BY <1>2, <1>3 DEF MoveRow, RowType, RequestType
  <1>5. /\ mover' = [mover EXCEPT !.xid = MoveXid, !.state = "open", !.rows = @ \cup {mover.row}, !.row = NULL]
        /\ event' = [event EXCEPT ![mover.table] = @ \cup {MoveRow}]
        /\ mover.state = "loaded" /\ ~Locked(mover.table)
    BY Zenon DEF maint_retry_events_moves, MoveXid, MoveRow
  <1>6. mover' = [xid |-> MoveXid, state |-> "open", table |-> mover.table,
                  rows |-> mover.rows \cup {mover.row}, row |-> NULL]
    BY <1>1, <1>5 DEF MoverType
  <1>7. mover' \in MoverType
    BY <1>1, <1>2, <1>3, <1>6 DEF MoverType
  <1>8. mover' # NULL
    BY <1>7, PgQAssumption
  <1>9. \A t \in Table : event'[t] = IF t = mover.table THEN event[t] \cup {MoveRow} ELSE event[t]
    BY <1>3, <1>5 DEF Typed, TypeOK
  <1>a. /\ mover'.xid = MoveXid /\ mover'.state = "open" /\ mover'.table = mover.table
        /\ mover'.rows = mover.rows \cup {mover.row} /\ mover'.row = NULL
    BY <1>6
  <1>. QED
    BY <1>1, <1>2, <1>3, <1>4, <1>5, <1>7, <1>8, <1>9, <1>a, Zenon

\* ... in a transaction that has one then, ...
LEMMA MovesXids ==
  ASSUME Typed, XidsRight, MoverRight, maint_retry_events_moves
  PROVE  XidsRight' /\ IF mover.xid = 0 THEN Starts ELSE Stays
  <1>1. /\ UNCHANGED <<xact, ticker, maint, latestCompletedXid>>
        /\ nextXid' = IF mover.xid = 0 THEN nextXid + 1 ELSE nextXid
    BY DEF maint_retry_events_moves, serverUnchanged, producerVars
  <1>2. mover # NULL /\ mover' # NULL /\ mover'.xid = MoveXid
    BY MovesEffect
  <1>3. CASE mover.xid = 0
    BY <1>1, <1>2, <1>3, ServerTaken DEF MoveXid
  <1>4. CASE mover.xid # 0
    BY <1>1, <1>2, <1>4, ServerSame DEF MoveXid, xidVars
  <1>. QED
    BY <1>3, <1>4

\* ... and commits.
LEMMA MoverCommitsXids ==
  ASSUME Typed, XidsRight, maint_retry_events_commits
  PROVE  XidsRight' /\ Ends(mover.xid)
  BY ServerGiven DEF maint_retry_events_commits, serverUnchanged, producerVars

\* A connection that is lost gives back the txid.
LEMMA DiesXids ==
  ASSUME Typed, XidsRight, pgqd_dies
  PROVE  /\ XidsRight'
         /\ \/ ticker # NULL /\ Ends(ticker.xid) /\ ticker' = NULL /\ UNCHANGED <<maint, mover, event>>
            \/ maint # NULL /\ Ends(maint.xid) /\ maint' = NULL /\ UNCHANGED <<ticker, mover, event>>
            \/ /\ mover # NULL /\ Ends(mover.xid) /\ mover' = NULL /\ UNCHANGED <<ticker, maint>>
               /\ event' = IF mover.xid = 0 THEN event ELSE Without(mover.xid)
  <1>1. UNCHANGED <<xact, nextXid>>
    BY DEF pgqd_dies, serverUnchanged, producerVars
  <1>2. CASE ticker # NULL /\ Completed(ticker.xid) /\ ticker' = NULL /\ UNCHANGED <<maint, mover, event>>
    BY <1>1, <1>2, ServerGiven
  <1>3. CASE maint # NULL /\ Completed(maint.xid) /\ maint' = NULL /\ UNCHANGED <<ticker, mover, event>>
    BY <1>1, <1>3, ServerGiven
  <1>4. CASE /\ mover # NULL /\ Completed(mover.xid) /\ mover' = NULL /\ UNCHANGED <<ticker, maint>>
             /\ event' = IF mover.xid = 0 THEN event ELSE Without(mover.xid)
    BY <1>1, <1>4, ServerGiven
  <1>. QED
    BY <1>2, <1>3, <1>4, Zenon DEF pgqd_dies
-----------------------------------------------------------------------------
(* Snapshots show more and more, and never what runs.                      *)

\* What the earlier snapshot shows, at any txid.
LEMMA LeqVisible ==
  ASSUME NEW s \in SnapshotType, NEW u \in SnapshotType, Leq(s, u)
  PROVE  \A x \in Nat : Visible(x, s) => Visible(x, u)
  <1>1. \A x \in Nat : Visible(x, s) => x \in 0..s.xmax
    BY DEF Leq, Visible, SnapshotType
  <1>. QED
    BY <1>1 DEF Leq

\* Leq is reflexive ...
LEMMA LeqSame ==
  ASSUME NEW s \in SnapshotType, s.xmin <= s.xmax
  PROVE  Leq(s, s)
  BY DEF Leq, SnapshotType

\* ... and transitive.
LEMMA LeqChain ==
  ASSUME NEW s \in SnapshotType, NEW u \in SnapshotType, NEW v \in SnapshotType, Leq(s, u), Leq(u, v)
  PROVE  Leq(s, v)
  <1>1. \A x \in Nat : Visible(x, s) => Visible(x, v)
    BY LeqVisible, Zenon
  <1>2. s.xmin <= s.xmax /\ s.xmin <= v.xmin /\ s.xmax <= v.xmax /\ s.xmax \in Nat
    BY DEF Leq, SnapshotType
  <1>3. 0..s.xmax \subseteq Nat
    BY <1>2
  <1>. QED
    BY <1>1, <1>2, <1>3, Zenon DEF Leq

XidStep == Starts \/ Stays \/ \E x : Ends(x)

\* A step takes at most one txid, a new one, or gives one back.
LEMMA XidStepFacts ==
  ASSUME Typed, XidsRight, XidStep
  PROVE  /\ nextXid \in Nat /\ latestCompletedXid \in Nat /\ nextXid' \in Nat /\ latestCompletedXid' \in Nat
         /\ nextXid <= nextXid' /\ latestCompletedXid <= latestCompletedXid'
         /\ latestCompletedXid < nextXid
         /\ Running' \subseteq Running \cup {nextXid}
         /\ nextXid \in Running' => nextXid < nextXid'
  <1>1. /\ nextXid \in Nat /\ latestCompletedXid \in Nat /\ Running \subseteq Nat
        /\ latestCompletedXid < nextXid /\ \A x \in Running : x < nextXid
    BY RunningNat DEF Typed, TypeOK, XidsRight
  <1>2. CASE Starts
    BY <1>1, <1>2 DEF Starts
  <1>3. CASE Stays
    BY <1>1, <1>3 DEF Stays, xidVars
  <1>4. ASSUME NEW x, Ends(x)
        PROVE  /\ nextXid' \in Nat /\ latestCompletedXid' \in Nat
               /\ nextXid <= nextXid' /\ latestCompletedXid <= latestCompletedXid'
               /\ Running' \subseteq Running \cup {nextXid}
               /\ nextXid \in Running' => nextXid < nextXid'
    BY <1>1, <1>4 DEF Ends, Completed
  <1>. QED
    BY <1>1, <1>2, <1>3, <1>4 DEF XidStep

\* A snapshot that was right stays right.
LEMMA SnapshotStep ==
  ASSUME Typed, XidsRight, XidStep
  PROVE  \A s \in SnapshotType : SnapshotRight(s) => SnapshotFits(s, latestCompletedXid', Running')
  <1>1. SUFFICES ASSUME NEW s \in SnapshotType, SnapshotRight(s)
                 PROVE  SnapshotFits(s, latestCompletedXid', Running')
    OBVIOUS
  <1>2. /\ s.xmin \in Nat /\ s.xmax \in Nat /\ s.xmin <= s.xmax /\ s.xmax <= latestCompletedXid + 1
        /\ s.xmax >= 1 /\ \A x \in s.xip : s.xmin <= x /\ x < s.xmax
        /\ \A x \in Running : ~Visible(x, s)
    BY <1>1 DEF SnapshotRight, SnapshotFits, SnapshotType
  <1>3. ~Visible(nextXid, s)
    BY <1>2, XidStepFacts DEF Visible
  <1>4. \A x \in Running' : ~Visible(x, s)
    BY <1>2, <1>3, XidStepFacts
  <1>5. s.xmax <= latestCompletedXid' + 1
    BY <1>2, XidStepFacts
  <1>. QED
    BY <1>2, <1>4, <1>5 DEF SnapshotFits

\* A snapshot taken now shows what earlier ones show.
LEMMA NewSnapshot ==
  ASSUME Typed, XidsRight
  PROVE  /\ Snapshot \in SnapshotType /\ SnapshotRight(Snapshot)
         /\ \A s \in SnapshotType : SnapshotRight(s) => Leq(s, Snapshot)
  <1>0. /\ TypeOK /\ latestCompletedXid \in Nat /\ latestCompletedXid >= 1 /\ Running \subseteq Nat
    BY RunningNat DEF Typed, TypeOK, XidsRight
  <1>. DEFINE u == Snapshot
  <1>1. /\ u \in SnapshotType
        /\ u.xmax = latestCompletedXid + 1
        /\ u.xip = {x \in Running : x < latestCompletedXid + 1}
        /\ u.xmin \in u.xip \cup {u.xmax}
        /\ \A x \in u.xip \cup {u.xmax} : u.xmin <= x
    BY <1>0, SnapshotFacts, Zenon
  <1>. HIDE DEF u
  <1>2. u.xmin \in Nat /\ u.xmax \in Nat
    BY <1>1 DEF SnapshotType
  <1>3. SnapshotRight(u)
    <2>1. \A x \in Running : ~Visible(x, u)
      BY <1>0, <1>1, <1>2 DEF Visible
    <2>. QED
      BY <1>0, <1>1, <1>2, <2>1 DEF SnapshotRight, SnapshotFits
  <1>4. ASSUME NEW s \in SnapshotType, SnapshotRight(s)
        PROVE  Leq(s, u)
    <2>1. /\ s.xmin \in Nat /\ s.xmax \in Nat /\ s.xmin <= s.xmax /\ s.xmax <= u.xmax
          /\ \A x \in Running : ~Visible(x, s)
      BY <1>1, <1>4 DEF SnapshotRight, SnapshotFits, SnapshotType
    <2>2. \A x \in Running : s.xmin <= x
      BY <1>0, <2>1 DEF Visible
    <2>3. s.xmin <= u.xmin
      BY <1>1, <1>2, <2>1, <2>2
    <2>4. \A x \in 0..s.xmax : Visible(x, s) => x < u.xmax /\ x \notin u.xip
      BY <1>1, <1>2, <2>1 DEF Visible
    <2>. QED
      BY <2>1, <2>3, <2>4 DEF Leq, Visible
  <1>. QED
    BY <1>1, <1>3, <1>4 DEF u

\* The snapshots of ticks and of the ticker.
LEMMA TickTypes ==
  ASSUME Typed
  PROVE  /\ \A t \in tick : t \in TickType /\ t.id \in Nat /\ t.snapshot \in SnapshotType
         /\ ticker # NULL => ticker.id \in Nat /\ ticker.snapshot \in SnapshotType
         /\ tick_seq \in Nat
  BY DEF Typed, TypeOK, TickType, TickerType

\* Ticks may go away.
LEMMA TicksShrink ==
  ASSUME Typed, XidsRight, XidStep, SnapshotsRight, TicksRight,
         tick' \subseteq tick, ticker' \in {ticker, NULL}, UNCHANGED tick_seq
  PROVE  SnapshotsRight' /\ TicksRight'
  <1>1. SnapshotsRight'
    BY SnapshotStep, TickTypes DEF SnapshotsRight, SnapshotRight
  <1>2. TicksRight'
    BY DEF TicksRight
  <1>. QED
    BY <1>1, <1>2

\* The ticker's snapshot is the latest ...
LEMMA TickerInsertsTicks ==
  ASSUME Typed, XidsRight, SnapshotsRight, TicksRight, ticker_inserts
  PROVE  SnapshotsRight' /\ TicksRight'
  <1>1. XidStep
    BY TickerInsertsXids DEF XidStep
  <1>2. /\ ticker' = [xid |-> nextXid, id |-> tick_seq + 1, event_seq |-> seq_getval,
                      snapshot |-> Snapshot]
        /\ tick' = tick /\ tick_seq' = tick_seq + 1
    BY DEF ticker_inserts
  <1>3. ticker'.id = tick_seq + 1 /\ ticker'.snapshot = Snapshot
    BY <1>2
  <1>4. /\ \A t \in tick : SnapshotFits(t.snapshot, latestCompletedXid', Running')
        /\ SnapshotFits(Snapshot, latestCompletedXid', Running')
    BY <1>1, SnapshotStep, TickTypes, NewSnapshot DEF SnapshotsRight
  <1>5. SnapshotsRight'
    BY <1>2, <1>3, <1>4, Zenon DEF SnapshotsRight, SnapshotRight
  <1>6. \A t \in tick : Leq(t.snapshot, Snapshot)
    BY TickTypes, NewSnapshot DEF SnapshotsRight
  <1>7. TicksRight'
    BY <1>2, <1>3, <1>6, TickTypes DEF TicksRight
  <1>. QED
    BY <1>5, <1>7

\* ... and becomes that of a tick.
LEMMA TickerCommitsTicks ==
  ASSUME Typed, XidsRight, SnapshotsRight, TicksRight, ticker_commits
  PROVE  SnapshotsRight' /\ TicksRight'
  <1>1. XidStep
    BY TickerCommitsXids DEF XidStep
  <1>. DEFINE new == [id |-> ticker.id, event_seq |-> ticker.event_seq,
                        snapshot |-> ticker.snapshot]
  <1>2. ticker # NULL /\ tick' = tick \cup {new} /\ ticker' = NULL /\ tick_seq' = tick_seq
    BY DEF ticker_commits
  <1>3. new.id = ticker.id /\ new.snapshot = ticker.snapshot
    OBVIOUS
  <1>. HIDE DEF new
  <1>4. /\ \A t \in tick : SnapshotFits(t.snapshot, latestCompletedXid', Running')
        /\ SnapshotFits(new.snapshot, latestCompletedXid', Running')
    BY <1>1, <1>2, <1>3, SnapshotStep, TickTypes DEF SnapshotsRight
  <1>5. SnapshotsRight'
    BY <1>2, <1>4 DEF SnapshotsRight, SnapshotRight
  <1>6. TicksRight'
    BY <1>2, <1>3, TickTypes DEF TicksRight
  <1>. QED
    BY <1>5, <1>6
-----------------------------------------------------------------------------
(* Where the rows of transactions are.                                     *)

\* The types of rows, and of what says where they go.
LEMMA RowTypes ==
  ASSUME Typed
  PROVE  /\ \A t \in Table : \A r \in event[t] : r \in RowType /\ r.ev_txid \in Nat
         /\ \A r \in log : r \in RowType /\ r.ev_txid \in Nat
         /\ queue.cur_table \in Table /\ queue.switch_step1 \in Nat /\ queue.switch_step2 \in Nat
         /\ maint # NULL => maint.nr \in Table /\ maint.step \in {1, 2} /\ maint.xid \in Nat
         /\ mover # NULL => mover.table \in Table /\ mover.rows \subseteq RequestType /\ mover.xid \in Nat
  BY DEF Typed, TypeOK, HistoryRight, RowType, MaintType, MoverType

\* Steps that leave the rows alone.
LEMMA RowsSame ==
  ASSUME Typed, XidsRight, XidStep, RowsRight, LogRight, UNCHANGED <<event, log>>,
         \A t \in Table : \A r \in event[t] : r.ev_txid \in Running => r.ev_txid \in Running',
         ticker' # NULL => ticker' = ticker \/ ticker'.xid = nextXid,
         maint' # NULL => maint' = maint \/ maint'.xid = nextXid
  PROVE  RowsRight' /\ LogRight'
  <1>1. \A t \in Table : \A r \in event[t] :
       /\ 0 < r.ev_txid /\ r.ev_txid < nextXid /\ r.ev_txid < nextXid'
       /\ r.ev_txid \in Running' \/ r \in log
       /\ ticker # NULL => r.ev_txid # ticker.xid
       /\ maint # NULL => r.ev_txid # maint.xid
    BY XidStepFacts, RowTypes DEF RowsRight
  <1>2. \A t \in Table : \A r \in event[t] :
       /\ ticker' # NULL => r.ev_txid # ticker'.xid
       /\ maint' # NULL => r.ev_txid # maint'.xid
    BY <1>1, XidStepFacts, RowTypes
  <1>3. RowsRight'
    BY <1>1, <1>2 DEF RowsRight
  <1>4. LogRight'
    BY XidStepFacts, RowTypes DEF LogRight
  <1>. QED
    BY <1>3, <1>4

\* Steps that leave the producers' transactions alone.
LEMMA CallsSame ==
  ASSUME Typed, XidsRight, RowsRight, CallsRight, UNCHANGED event,
         \A p \in Producer :
           \/ xact'[p] = xact[p]
           \/ xact'[p].xid \in {0, nextXid}
           \/ /\ xact'[p].xid = xact[p].xid
              /\ xact'[p].calls = xact[p].calls \/ xact'[p].calls = xact[p].calls + 1
              /\ xact'[p].state = "loaded" => xact'[p].calls = xact[p].calls + 1
  PROVE  CallsRight'
  <1>1. SUFFICES ASSUME NEW p \in Producer, NEW t \in Table, NEW r \in event[t], r.ev_txid = xact'[p].xid
                 PROVE  /\ r.ev_owner = NULL /\ r.ev_id[1] = xact'[p].xid /\ r.ev_id[2] <= xact'[p].calls
                        /\ xact'[p].state = "loaded" => r.ev_id[2] < xact'[p].calls
    BY DEF CallsRight
  <1>2. 0 < r.ev_txid /\ r.ev_txid < nextXid /\ r.ev_txid \in Nat /\ nextXid \in Nat
    BY RowTypes, RunsBelow DEF RowsRight
  <1>3. xact'[p].xid = xact[p].xid
    BY <1>1, <1>2
  <1>4. /\ r.ev_owner = NULL /\ r.ev_id[1] = xact[p].xid /\ r.ev_id[2] <= xact[p].calls
        /\ xact[p].state = "loaded" => r.ev_id[2] < xact[p].calls
    BY <1>1, <1>3 DEF CallsRight
  <1>5. CASE xact'[p] = xact[p]
    BY <1>4, <1>5
  <1>6. CASE xact'[p] # xact[p]
    <2>1. /\ xact'[p].calls = xact[p].calls \/ xact'[p].calls = xact[p].calls + 1
          /\ xact'[p].state = "loaded" => xact'[p].calls = xact[p].calls + 1
      BY <1>1, <1>2, <1>6
    <2>2. xact[p].calls \in Nat /\ r.ev_id[2] \in Nat
      BY RowTypes DEF Typed, TypeOK, RowType, IdType
    <2>. QED
      BY <1>3, <1>4, <2>1, <2>2
  <1>. QED
    BY <1>5, <1>6

\* Steps that leave the current table and the ticks alone.
LEMMA CurrentSame ==
  ASSUME CurrentRight, UNCHANGED <<event, queue, tick>>, ticker' \in {NULL, ticker}
  PROVE  CurrentRight'
  BY DEF CurrentRight

\* Steps that leave the rotations alone.
LEMMA MaintSame ==
  ASSUME Typed, XidsRight, XidStep, RowsRight, MaintRight, UNCHANGED <<event, queue>>, maint' \in {NULL, maint}
  PROVE  MaintRight'
  <1>1. queue'.switch_step1 <= latestCompletedXid' /\ queue'.switch_step2 <= latestCompletedXid'
    BY XidStepFacts, RowTypes DEF MaintRight
  <1>2. \A t \in Table : \A r \in event[t] : r.ev_txid \in Running' => r.ev_txid \in Running
    BY XidStepFacts, RowTypes DEF RowsRight
  <1>3. maint' # NULL => maint' = maint
    OBVIOUS
  <1>. QED
    BY <1>1, <1>2, <1>3, RowTypes DEF MaintRight

RowInv == RowsRight /\ LogRight /\ CallsRight /\ MoverRight /\ MaintRight /\ CurrentRight

\* What each step of a producer does to the rows.
LEMMA BeginRows ==
  ASSUME Typed, XidsRight, RowInv, NEW p \in Producer, Begin(p) \/ load_queue_info(p)
  PROVE  RowInv'
  <1>1. /\ UNCHANGED <<event, log, queue, tick, ticker, maint, mover>>
        /\ XidStep /\ Running \subseteq Running'
    <2>1. CASE Begin(p)
      BY <2>1, BeginXids DEF Begin, producerUnchanged, XidStep, Starts, Stays
    <2>2. CASE load_queue_info(p)
      BY <2>2, LoadXids DEF load_queue_info, producerUnchanged, XidStep, Stays
    <2>. QED
      BY <2>1, <2>2
  <1>2. \A q \in Producer :
           \/ xact'[q] = xact[q]
           \/ xact'[q].xid \in {0, nextXid}
           \/ /\ xact'[q].xid = xact[q].xid
              /\ xact'[q].calls = xact[q].calls \/ xact'[q].calls = xact[q].calls + 1
              /\ xact'[q].state = "loaded" => xact'[q].calls = xact[q].calls + 1
    <2>1. CASE Begin(p)
      <3>1. xact'[p].xid \in {xact[p].xid, nextXid} /\ xact[p].xid = 0 /\ OtherXacts(p)
        BY <2>1, BeginEffect DEF XidsRight
      <3>. QED
        BY <3>1 DEF OtherXacts
    <2>2. CASE load_queue_info(p)
      BY <2>2, LoadEffect DEF OtherXacts
    <2>. QED
      BY <2>1, <2>2
  <1>. USE DEF RowInv
  <1>3. RowsRight' /\ LogRight'
    BY <1>1, RowsSame
  <1>4. CallsRight'
    BY <1>1, <1>2, CallsSame
  <1>5. MaintRight' /\ CurrentRight'
    BY <1>1, MaintSame, CurrentSame
  <1>6. MoverRight'
    BY <1>1 DEF MoverRight
  <1>. QED
    BY <1>3, <1>4, <1>5, <1>6

\* A row is added to a table.
LEMMA RowAdded ==
  ASSUME Typed, XidsRight, XidsRight', XidStep, SnapshotsRight', RowInv,
         UNCHANGED <<log, queue, tick, ticker, maint>>,
         Running \subseteq Running', NEW v \in Table, NEW row \in RowType, row.ev_txid \in Running',
         \A t \in Table : event'[t] = IF t = v THEN event[t] \cup {row} ELSE event[t],
         \A t \in Table : row \notin event[t], ~Locked(v),
         ticker # NULL => row.ev_txid # ticker.xid, maint # NULL => row.ev_txid # maint.xid
  PROVE  RowsRight' /\ LogRight' /\ MaintRight' /\ CurrentRight'
  <1>. USE DEF RowInv
  <1>1. row.ev_txid \in Nat /\ row.ev_txid # 0 /\ row.ev_txid < nextXid'
    BY RunningFacts DEF RowType, XidsRight, RunsNow
  <1>2. RowsRight'
    <2>1. \A t \in Table : \A r \in event[t] : 0 < r.ev_txid /\ r.ev_txid < nextXid'
      BY XidStepFacts, RowTypes DEF RowsRight
    <2>2. \A t \in Table : \A r \in event'[t] : r \in event[t] \/ (r = row /\ t = v)
      OBVIOUS
    <2>3. \A t \in Table : \A r \in event'[t] :
       /\ 0 < r.ev_txid /\ r.ev_txid < nextXid'
       /\ r.ev_txid \in Running' \/ r \in log'
       /\ ticker' # NULL => r.ev_txid # ticker'.xid
       /\ maint' # NULL => r.ev_txid # maint'.xid
      BY <1>1, <2>1, <2>2 DEF RowsRight
    <2>4. \A t, u \in Table : \A r \in event'[t] : r \in event'[u] => t = u
      BY <2>2 DEF RowsRight
    <2>. QED
      BY <2>3, <2>4 DEF RowsRight
  <1>3. LogRight'
    BY XidStepFacts, RowTypes DEF LogRight
  <1>4. MaintRight'
    <2>1. queue'.switch_step1 <= latestCompletedXid' /\ queue'.switch_step2 <= latestCompletedXid'
      BY XidStepFacts, RowTypes DEF MaintRight
    <2>2. \A t \in Table : \A r \in event[t] : r.ev_txid \in Running' => r.ev_txid \in Running
      BY XidStepFacts, RowTypes DEF RowsRight
    <2>3. maint # NULL /\ maint.step = 1 => event'[maint.nr] = event[maint.nr] /\ maint.nr \in Table
      BY RowTypes DEF Locked
    <2>. QED
      BY <2>1, <2>2, <2>3 DEF MaintRight
  <1>5. CurrentRight'
    <2>1. /\ \A t \in tick : ~Visible(row.ev_txid, t.snapshot)
          /\ ticker # NULL => ~Visible(row.ev_txid, ticker.snapshot)
      BY DEF SnapshotsRight, SnapshotRight, SnapshotFits
    <2>2. \A r \in event'[queue.cur_table] : r \in event[queue.cur_table] \/ r = row
      BY RowTypes
    <2>. QED
      BY <2>1, <2>2 DEF CurrentRight
  <1>. QED
    BY <1>2, <1>3, <1>4, <1>5

\* The new row has a txid that no snapshot shows.
LEMMA InsertRows ==
  ASSUME Typed, XidsRight, SnapshotsRight, TicksRight, RowInv, NEW p \in Producer, pgq_insert_event_raw(p)
  PROVE  RowInv'
  <1>. USE DEF RowInv
  <1>. DEFINE row == InsertRow(p)
              x == InsertXid(p)
  <1>1. /\ XidsRight' /\ XidStep /\ Running \subseteq Running'
    BY InsertXids DEF XidStep, Starts, Stays
  <1>2. UNCHANGED <<log, queue, tick, ticker, maint, mover, tick_seq>>
    BY DEF pgq_insert_event_raw, producerUnchanged
  <1>3. SnapshotsRight'
    BY <1>1, <1>2, TicksShrink
  <1>4. /\ OtherXacts(p) /\ xact[p].state = "loaded" /\ xact'[p].state = "open"
        /\ xact'[p].xid = x /\ xact'[p].calls = xact[p].calls /\ xact[p].calls \in Nat
        /\ \A t \in Table : event'[t] = IF t = xact[p].table THEN event[t] \cup {row} ELSE event[t]
        /\ ~Locked(xact[p].table) /\ xact[p].table \in Table /\ row \in RowType
    BY InsertEffect DEF Typed, TypeOK
  <1>5. row.ev_txid = x /\ row.ev_owner = NULL /\ row.ev_id[1] = x /\ row.ev_id[2] = xact[p].calls
    BY DEF InsertRow
  <1>. HIDE DEF row
  <1>6. x # 0 /\ x \in Nat /\ (xact[p].xid = 0 => x = nextXid) /\ (xact[p].xid # 0 => x = xact[p].xid)
    BY RunsBelow DEF InsertXid
  <1>. HIDE DEF x
  <1>7. x \in Running'
    BY <1>4, <1>6, RunningFacts DEF RunsNow
  <1>8. \A t \in Table : row \notin event[t]
    <2>1. SUFFICES ASSUME NEW t \in Table, row \in event[t] PROVE FALSE
      OBVIOUS
    <2>2. x < nextXid
      BY <1>5, <2>1 DEF RowsRight
    <2>3. x = xact[p].xid
      BY <1>6, <2>2, RunsBelow
    <2>4. row.ev_id[2] < xact[p].calls
      BY <1>4, <1>5, <2>1, <2>3 DEF CallsRight
    <2>. QED
      BY <1>4, <1>5, <2>4
  <1>9. (ticker # NULL => x # ticker.xid) /\ (maint # NULL => x # maint.xid)
    BY <1>1, <1>2, <1>4 DEF XidsRight
  <1>a. RowsRight' /\ LogRight' /\ MaintRight' /\ CurrentRight'
    BY <1>1, <1>2, <1>3, <1>4, <1>5, <1>7, <1>8, <1>9, RowAdded
  <1>b. CallsRight'
    <2>1. SUFFICES ASSUME NEW q \in Producer, NEW t \in Table, NEW r \in event'[t], r.ev_txid = xact'[q].xid
                   PROVE  /\ r.ev_owner = NULL /\ r.ev_id[1] = xact'[q].xid /\ r.ev_id[2] <= xact'[q].calls
                          /\ xact'[q].state = "loaded" => r.ev_id[2] < xact'[q].calls
      BY DEF CallsRight
    <2>2. CASE r = row
      <3>1. q = p
        BY <1>1, <1>4, <1>5, <1>6, <2>1, <2>2 DEF XidsRight
      <3>. QED
        BY <1>4, <1>5, <2>2, <3>1
    <2>3. CASE r # row
      <3>1. r \in event[t] /\ 0 < r.ev_txid /\ r.ev_txid < nextXid /\ r.ev_txid \in Nat /\ nextXid \in Nat
        <4>1. r \in event[t]
          BY <1>4, <2>3
        <4>2. 0 < r.ev_txid /\ r.ev_txid < nextXid
          BY <4>1 DEF RowsRight
        <4>. QED
          BY <4>1, <4>2, RowTypes, RunsBelow
      <3>2. xact'[q].xid = xact[q].xid
        BY <1>4, <1>6, <2>1, <3>1 DEF OtherXacts
      <3>3. /\ r.ev_owner = NULL /\ r.ev_id[1] = xact[q].xid /\ r.ev_id[2] <= xact[q].calls
            /\ xact[q].state = "loaded" => r.ev_id[2] < xact[q].calls
        BY <2>1, <3>1, <3>2 DEF CallsRight
      <3>. QED
        BY <1>4, <3>2, <3>3 DEF OtherXacts
    <2>. QED
      BY <2>2, <2>3
  <1>c. MoverRight'
    <2>1. mover # NULL => x # mover.xid
      BY <1>1, <1>2, <1>4, <1>6 DEF XidsRight
    <2>. QED
      BY <1>2, <1>4, <1>5, <2>1 DEF MoverRight
  <1>. QED
    BY <1>a, <1>b, <1>c

\* Its rows get into the log.
LEMMA CommitRows ==
  ASSUME Typed, XidsRight, RowInv, NEW p \in Producer, Commit(p)
  PROVE  RowInv'
  <1>. USE DEF RowInv
  <1>. DEFINE x == xact[p].xid
  <1>1. XidsRight' /\ XidStep /\ Running' = Running \ {x} /\ x # 0 /\ x \in Running
    <2>1. XidsRight' /\ Ends(x)
      BY EndXids
    <2>2. x # 0
      BY DEF Commit
    <2>. QED
      BY <2>1, <2>2 DEF Ends, XidStep
  <1>2. /\ UNCHANGED <<event, queue, tick, ticker, maint, mover>>
        /\ log' = log \cup Rows(x)
    BY DEF Commit, producerUnchanged
  <1>3. OtherXacts(p) /\ xact'[p] = NoXact
    BY EndEffect
  <1>4. \A r \in Rows(x) : r.ev_txid = x /\ \E t \in Table : r \in event[t]
    BY DEF Rows
  <1>5. \A t \in Table : \A r \in event[t] : r.ev_txid = x => r \in Rows(x)
    BY DEF Rows
  <1>. HIDE DEF x
  <1>6. RowsRight'
    <2>1. \A t \in Table : \A r \in event[t] : r.ev_txid \in Running' \/ r \in log'
      BY <1>1, <1>2, <1>5 DEF RowsRight
    <2>2. \A t \in Table : \A r \in event[t] : r.ev_txid < nextXid'
      BY <1>1, XidStepFacts, RowTypes DEF RowsRight
    <2>. QED
      BY <1>2, <2>1, <2>2 DEF RowsRight
  <1>7. LogRight'
    <2>1. \A r \in log : 0 < r.ev_txid /\ r.ev_txid < nextXid' /\ r.ev_txid \notin Running'
      BY <1>1, XidStepFacts, RowTypes DEF LogRight
    <2>2. \A r \in Rows(x) : 0 < r.ev_txid /\ r.ev_txid < nextXid' /\ r.ev_txid \notin Running'
      BY <1>1, <1>4, XidStepFacts, RowTypes DEF RowsRight
    <2>. QED
      BY <1>2, <2>1, <2>2 DEF LogRight
  <1>8. CallsRight'
    <2>1. \A q \in Producer : xact'[q] = xact[q] \/ xact'[q].xid \in {0, nextXid}
      BY <1>3 DEF OtherXacts, NoXact
    <2>. QED
      BY <1>2, <2>1, CallsSame
  <1>9. MaintRight' /\ CurrentRight'
    BY <1>1, <1>2, MaintSame, CurrentSame
  <1>a. MoverRight'
    BY <1>2 DEF MoverRight
  <1>. QED
    BY <1>6, <1>7, <1>8, <1>9, <1>a

\* A transaction takes its rows with it.
LEMMA RowsUndone ==
  ASSUME Typed, XidsRight, RowInv, NEW x, Ends(x),
         UNCHANGED <<queue, tick, ticker, maint, log>>,
         event' = event \/ event' = Without(x), x # 0 => event' = Without(x)
  PROVE  RowsRight' /\ LogRight' /\ MaintRight' /\ CurrentRight'
  <1>. USE DEF RowInv
  <1>1. XidStep /\ Running' = Running \ {x}
    BY DEF Ends, XidStep
  <1>2. \A t \in Table : event'[t] \subseteq event[t]
    BY DEF Without
  <1>3. \A t \in Table : \A r \in event'[t] : r.ev_txid # x
    BY DEF Without, RowsRight
  <1>4. RowsRight'
    <2>1. \A t \in Table : \A r \in event'[t] : r.ev_txid \in Running' \/ r \in log'
      BY <1>1, <1>2, <1>3 DEF RowsRight
    <2>2. \A t \in Table : \A r \in event'[t] : r.ev_txid < nextXid'
      BY <1>1, <1>2, XidStepFacts, RowTypes DEF RowsRight
    <2>. QED
      BY <1>2, <2>1, <2>2 DEF RowsRight
  <1>5. LogRight'
    BY <1>1, XidStepFacts, RowTypes DEF LogRight
  <1>6. MaintRight'
    <2>1. queue'.switch_step1 <= latestCompletedXid' /\ queue'.switch_step2 <= latestCompletedXid'
      BY <1>1, XidStepFacts, RowTypes DEF MaintRight
    <2>2. maint # NULL => maint.nr \in Table /\ event'[maint.nr] \subseteq event[maint.nr]
      BY <1>2, RowTypes
    <2>. QED
      BY <1>1, <2>1, <2>2 DEF MaintRight
  <1>7. CurrentRight'
    BY <1>2, RowTypes DEF CurrentRight
  <1>. QED
    BY <1>4, <1>5, <1>6, <1>7

\* Its rows disappear.
LEMMA AbortRows ==
  ASSUME Typed, XidsRight, RowInv, NEW p \in Producer, Abort(p)
  PROVE  RowInv'
  <1>. USE DEF RowInv
  <1>. DEFINE x == xact[p].xid
  <1>1. XidsRight' /\ Ends(x)
    BY EndXids
  <1>2. /\ UNCHANGED <<queue, tick, ticker, maint, mover, log>>
        /\ event' = IF x = 0 THEN event ELSE Without(x)
    BY DEF Abort, producerUnchanged
  <1>3. OtherXacts(p) /\ xact'[p] = NoXact
    BY EndEffect
  <1>4. RowsRight' /\ LogRight' /\ MaintRight' /\ CurrentRight'
    BY <1>1, <1>2, RowsUndone
  <1>5. \A t \in Table : event'[t] \subseteq event[t] /\ \A r \in event[t] : r.ev_txid # x \/ x = 0 => r \in event'[t]
    BY <1>2 DEF Without
  <1>6. CallsRight'
    <2>1. xact'[p].xid = 0 /\ \A t \in Table : \A r \in event'[t] : r \in event[t] /\ r.ev_txid # 0
      BY <1>3, <1>5, RowTypes DEF NoXact, RowsRight
    <2>2. ASSUME NEW q \in Producer, NEW t \in Table, NEW r \in event'[t], r.ev_txid = xact'[q].xid
          PROVE  /\ r.ev_owner = NULL /\ r.ev_id[1] = xact'[q].xid /\ r.ev_id[2] <= xact'[q].calls
                 /\ xact'[q].state = "loaded" => r.ev_id[2] < xact'[q].calls
      <3>1. xact'[q] = xact[q] /\ r \in event[t]
        BY <1>3, <2>1, <2>2 DEF OtherXacts
      <3>. QED
        BY <2>2, <3>1 DEF CallsRight
    <2>. QED
      BY <2>2 DEF CallsRight
  <1>7. MoverRight'
    <2>1. mover # NULL => mover.xid # x \/ x = 0
      BY DEF XidsRight
    <2>2. ASSUME mover # NULL, NEW q \in mover.rows
          PROVE  \E t \in Table : [ev_id |-> q.ev_id, ev_txid |-> mover.xid, ev_owner |-> q.ev_owner] \in event'[t]
      <3>1. PICK t \in Table : [ev_id |-> q.ev_id, ev_txid |-> mover.xid, ev_owner |-> q.ev_owner] \in event[t]
        BY <2>2 DEF MoverRight
      <3>. QED
        BY <1>5, <2>1, <2>2, <3>1
    <2>. QED
      BY <1>2, <1>5, <2>2 DEF MoverRight
  <1>. QED
    BY <1>4, <1>6, <1>7

\* No row has the txid of the ticker.
LEMMA TickerInsertsRows ==
  ASSUME Typed, XidsRight, RowInv, ticker_inserts
  PROVE  RowInv'
  <1>. USE DEF RowInv
  <1>1. XidStep /\ Running \subseteq Running' /\ ticker'.xid = nextXid
    BY TickerInsertsXids DEF XidStep, Starts, ticker_inserts
  <1>2. /\ UNCHANGED <<event, log, queue, tick, maint, mover, xact>>
        /\ ticker' = [xid |-> nextXid, id |-> tick_seq + 1, event_seq |-> seq_getval,
                      snapshot |-> Snapshot]
    BY DEF ticker_inserts, serverUnchanged, producerVars
  <1>3. RowsRight' /\ LogRight'
    BY <1>1, <1>2, RowsSame
  <1>4. CallsRight' /\ MoverRight'
    BY <1>2 DEF CallsRight, MoverRight
  <1>5. MaintRight'
    BY <1>1, <1>2, MaintSame
  <1>6. CurrentRight'
    <2>1. ticker'.snapshot = Snapshot
      BY <1>2
    <2>2. Snapshot.xmax = latestCompletedXid + 1 /\ queue.switch_step1 <= latestCompletedXid
          /\ latestCompletedXid \in Nat
      BY SnapshotFacts DEF Typed, TypeOK, MaintRight
    <2>3. ~(ticker'.snapshot.xmax <= queue.switch_step1)
      BY <2>1, <2>2, RowTypes
    <2>. QED
      BY <1>2, <2>3 DEF CurrentRight
  <1>. QED
    BY <1>3, <1>4, <1>5, <1>6

\* What is in the current table stays hidden from ticks before its switch.
LEMMA TickerCommitsRows ==
  ASSUME Typed, XidsRight, RowInv, ticker_commits
  PROVE  RowInv'
  <1>. USE DEF RowInv
  <1>1. XidStep /\ Running' = Running \ {ticker.xid}
    BY TickerCommitsXids DEF XidStep, Ends
  <1>2. /\ UNCHANGED <<event, log, queue, maint, mover, xact>>
        /\ ticker # NULL /\ ticker' = NULL
        /\ tick' = tick \cup {[id |-> ticker.id, event_seq |-> ticker.event_seq,
                        snapshot |-> ticker.snapshot]}
    BY DEF ticker_commits, serverUnchanged, producerVars
  <1>3. \A t \in Table : \A r \in event[t] : r.ev_txid \in Running => r.ev_txid \in Running'
    BY <1>1, <1>2 DEF RowsRight
  <1>4. RowsRight' /\ LogRight'
    BY <1>1, <1>2, <1>3, RowsSame
  <1>5. CallsRight' /\ MoverRight'
    BY <1>2 DEF CallsRight, MoverRight
  <1>6. MaintRight'
    BY <1>1, <1>2, MaintSame
  <1>7. CurrentRight'
    BY <1>2 DEF CurrentRight
  <1>. QED
    BY <1>4, <1>5, <1>6, <1>7

\* No row has the txid of a rotation step.
LEMMA RotateRows ==
  ASSUME Typed, XidsRight, RowInv, maint_rotate_tables_step1 \/ maint_rotate_tables_step2
  PROVE  RowInv'
  <1>. USE DEF RowInv
  <1>1. XidStep /\ Running' = Running \cup {nextXid} /\ maint' # NULL /\ maint'.xid = nextXid
    BY RotateXids DEF XidStep, Starts
  <1>2. UNCHANGED <<event, log, queue, tick, ticker, mover, xact>>
    BY DEF maint_rotate_tables_step1, maint_rotate_tables_step2, serverUnchanged, producerVars
  <1>3. RowsRight' /\ LogRight'
    BY <1>1, <1>2, RowsSame
  <1>4. CallsRight' /\ MoverRight' /\ CurrentRight'
    BY <1>2 DEF CallsRight, MoverRight, CurrentRight
  <1>5. MaintRight'
    <2>1. queue'.switch_step1 <= latestCompletedXid' /\ queue'.switch_step2 <= latestCompletedXid'
      BY <1>1, <1>2, XidStepFacts, RowTypes DEF MaintRight
    <2>2. \A t \in Table : \A r \in event[t] : r.ev_txid \in Running' => r.ev_txid \in Running
      BY <1>1, XidStepFacts, RowTypes DEF RowsRight
    <2>3. CASE maint_rotate_tables_step1
      <3>. DEFINE nr == (queue.cur_table + 1) % NTables
      <3>1. nr \in Table
        BY TableFacts, RowTypes
      <3>2. maint' = [step |-> 1, xid |-> nextXid, nr |-> nr,
                      dead |-> {t \in tick : t.snapshot.xmin < queue.switch_step2}]
            /\ queue.switch_step2 # 0 /\ \A r \in event[nr] : r.ev_txid \notin Running
        BY <2>3 DEF maint_rotate_tables_step1
      <3>. HIDE DEF nr
      <3>3. /\ maint'.step = 1 /\ maint'.nr = nr
            /\ maint'.dead = {t \in tick : t.snapshot.xmin < queue.switch_step2}
        BY <3>2
      <3>. QED
        BY <1>2, <2>1, <2>2, <3>1, <3>2, <3>3 DEF MaintRight, nr
    <2>4. CASE maint_rotate_tables_step2
      <3>1. /\ maint' = [step |-> 2, xid |-> nextXid, nr |-> queue.cur_table, dead |-> {}]
            /\ queue.switch_step2 = 0
        BY <2>4 DEF maint_rotate_tables_step2
      <3>2. maint'.step = 2 /\ maint'.nr = queue.cur_table /\ maint'.dead = {}
        BY <3>1
      <3>. QED
        BY <1>2, <2>1, <3>1, <3>2 DEF MaintRight
    <2>. QED
      BY <2>3, <2>4
  <1>. QED
    BY <1>3, <1>4, <1>5

\* The queue's row and the tables after a rotation step.
LEMMA CommitEffect ==
  ASSUME Typed, maint_commits
  PROVE  /\ maint # NULL /\ maint' = NULL /\ tick' = tick \ maint.dead
         /\ UNCHANGED <<log, ticker, mover, xact, tick_seq, retry_queue>>
         /\ maint.step = 1 =>
              /\ queue'.cur_table = maint.nr /\ queue'.switch_step1 = maint.xid /\ queue'.switch_step2 = 0
              /\ \A t \in Table : event'[t] = IF t = maint.nr THEN {} ELSE event[t]
         /\ maint.step = 2 =>
              /\ queue'.cur_table = queue.cur_table /\ queue'.switch_step1 = queue.switch_step1
              /\ queue'.switch_step2 = maint.xid /\ event' = event
  <1>1. /\ maint # NULL /\ maint' = NULL /\ tick' = tick \ maint.dead
        /\ UNCHANGED <<log, ticker, mover, xact, tick_seq, retry_queue>>
        /\ queue' = Switched
        /\ event' = IF maint.step = 1 THEN [event EXCEPT ![maint.nr] = {}] ELSE event
    BY DEF maint_commits, serverUnchanged, producerVars
  <1>2. ASSUME maint.step = 1
        PROVE  /\ queue'.cur_table = maint.nr /\ queue'.switch_step1 = maint.xid /\ queue'.switch_step2 = 0
               /\ \A t \in Table : event'[t] = IF t = maint.nr THEN {} ELSE event[t]
    BY <1>1, <1>2 DEF Switched, Typed, TypeOK
  <1>3. ASSUME maint.step = 2
        PROVE  /\ queue'.cur_table = queue.cur_table /\ queue'.switch_step1 = queue.switch_step1
               /\ queue'.switch_step2 = maint.xid /\ event' = event
    BY <1>1, <1>3 DEF Switched, Typed, TypeOK
  <1>. QED
    BY <1>1, <1>2, <1>3

\* A switch makes an empty table the current one.
LEMMA MaintCommitsRows ==
  ASSUME Typed, XidsRight, RowInv, maint_commits
  PROVE  RowInv'
  <1>. USE DEF RowInv
  <1>1. XidStep /\ Ends(maint.xid) /\ Running' = Running \ {maint.xid}
    BY MaintCommitsXids DEF XidStep, Ends
  <1>2. /\ maint # NULL /\ maint' = NULL /\ tick' \subseteq tick
        /\ UNCHANGED <<log, ticker, mover, xact>>
        /\ maint.step \in {1, 2} /\ maint.xid \in Nat /\ maint.nr \in Table
    BY CommitEffect, RowTypes
  <1>3. \A t \in Table : event'[t] \subseteq event[t]
    BY <1>2, CommitEffect
  <1>4. \A t \in Table : \A r \in event[t] : r.ev_txid \in Running => r.ev_txid \in Running' /\ r \in event'[t]
    BY <1>1, <1>2, CommitEffect DEF RowsRight, MaintRight
  <1>5. RowsRight'
    <2>1. \A t \in Table : \A r \in event'[t] : r.ev_txid \in Running' \/ r \in log'
      BY <1>1, <1>2, <1>3, <1>4 DEF RowsRight
    <2>2. \A t \in Table : \A r \in event'[t] : r.ev_txid < nextXid'
      BY <1>1, <1>3, XidStepFacts, RowTypes DEF RowsRight
    <2>. QED
      BY <1>2, <1>3, <2>1, <2>2 DEF RowsRight
  <1>6. LogRight'
    BY <1>1, <1>2, XidStepFacts, RowTypes DEF LogRight
  <1>7. CallsRight'
    BY <1>2, <1>3 DEF CallsRight
  <1>8. MoverRight'
    <2>1. ASSUME mover # NULL, NEW q \in mover.rows
          PROVE  \E t \in Table : [ev_id |-> q.ev_id, ev_txid |-> mover.xid, ev_owner |-> q.ev_owner] \in event'[t]
      <3>. DEFINE row == [ev_id |-> q.ev_id, ev_txid |-> mover.xid, ev_owner |-> q.ev_owner]
      <3>1. PICK t \in Table : row \in event[t]
        BY <2>1 DEF MoverRight
      <3>2. row.ev_txid = mover.xid
        OBVIOUS
      <3>3. mover.xid # 0
        BY <3>1, <3>2, RowTypes DEF RowsRight
      <3>4. mover.xid \in Running
        BY <2>1, <3>3, RunningFacts DEF RunsNow
      <3>5. row \in event'[t]
        BY <1>4, <3>1, <3>2, <3>4
      <3>. QED
        BY <3>5
    <2>. QED
      BY <1>2, <1>3, <2>1 DEF MoverRight
  <1>9. MaintRight'
    <2>1. maint.xid <= latestCompletedXid'
      BY <1>1, <1>2, XidStepFacts DEF Ends, Completed
    <2>2. /\ queue.switch_step1 <= latestCompletedXid' /\ queue.switch_step2 <= latestCompletedXid'
          /\ 0 <= latestCompletedXid'
      BY <1>1, XidStepFacts, RowTypes DEF MaintRight
    <2>3. queue'.switch_step1 <= latestCompletedXid' /\ queue'.switch_step2 <= latestCompletedXid'
      BY <1>2, <2>1, <2>2, CommitEffect
    <2>. QED
      BY <1>2, <2>3 DEF MaintRight
  <1>a. CurrentRight'
    <2>1. CASE maint.step = 1
      <3>1. event'[queue'.cur_table] = {}
        BY <1>2, <2>1, CommitEffect
      <3>. QED
        BY <3>1 DEF CurrentRight
    <2>2. CASE maint.step = 2
      <3>1. queue'.cur_table = queue.cur_table /\ queue'.switch_step1 = queue.switch_step1 /\ event' = event
        BY <2>2, CommitEffect
      <3>. QED
        BY <1>2, <3>1 DEF CurrentRight
    <2>. QED
      BY <1>2, <2>1, <2>2
  <1>. QED
    BY <1>5, <1>6, <1>7, <1>8, <1>9, <1>a

\* The mover's transaction has no row of the request it takes up.
LEMMA LoadsRows ==
  ASSUME Typed, XidsRight, RowInv, NEW q \in retry_queue, maint_retry_events_loads(q)
  PROVE  RowInv'
  <1>. USE DEF RowInv
  <1>1. XidStep /\ Running' = Running
    BY LoadsXids DEF XidStep, Stays
  <1>2. UNCHANGED <<event, log, queue, tick, ticker, maint, xact>>
    BY DEF maint_retry_events_loads, serverUnchanged, producerVars
  <1>3. RowsRight' /\ LogRight'
    BY <1>1, <1>2, RowsSame
  <1>4. CallsRight' /\ CurrentRight'
    BY <1>2 DEF CallsRight, CurrentRight
  <1>5. MaintRight'
    BY <1>1, <1>2, MaintSame
  <1>6. MoverRight'
    <2>1. /\ mover' # NULL
          /\ mover'.xid = (IF mover = NULL THEN 0 ELSE mover.xid)
          /\ mover'.rows = (IF mover = NULL THEN {} ELSE mover.rows)
          /\ mover'.row = q /\ q \in RequestType /\ q \notin mover'.rows
      BY LoadsEffect
    <2>2. CASE mover = NULL
      <3>1. mover'.xid = 0 /\ mover'.rows = {}
        BY <2>1, <2>2
      <3>2. \A t \in Table : \A r \in event[t] : r.ev_txid # 0
        BY RowTypes DEF RowsRight
      <3>. QED
        BY <1>2, <2>1, <3>1, <3>2 DEF MoverRight
    <2>3. CASE mover # NULL
      <3>1. mover'.xid = mover.xid /\ mover'.rows = mover.rows
        BY <2>1, <2>3
      <3>. QED
        BY <1>2, <2>1, <2>3, <3>1 DEF MoverRight
    <2>. QED
      BY <2>2, <2>3
  <1>. QED
    BY <1>3, <1>4, <1>5, <1>6

\* It gets one.
LEMMA MovesRows ==
  ASSUME Typed, XidsRight, SnapshotsRight, TicksRight, RowInv, maint_retry_events_moves
  PROVE  RowInv'
  <1>. USE DEF RowInv
  <1>. DEFINE row == MoveRow
              x == MoveXid
  <1>1. XidsRight' /\ XidStep /\ Running \subseteq Running'
    BY MovesXids DEF XidStep, Starts, Stays
  <1>2. UNCHANGED <<log, queue, tick, ticker, maint, tick_seq, xact>>
    BY DEF maint_retry_events_moves, serverUnchanged, producerVars
  <1>3. SnapshotsRight'
    BY <1>1, <1>2, TicksShrink
  <1>4. /\ mover # NULL /\ mover.row \in RequestType
        /\ mover.row \notin mover.rows /\ ~Locked(mover.table) /\ mover.table \in Table
        /\ mover' # NULL
        /\ mover'.xid = x /\ mover'.state = "open"
        /\ mover'.rows = mover.rows \cup {mover.row}
        /\ row \in RowType
        /\ \A t \in Table : event'[t] = IF t = mover.table THEN event[t] \cup {row} ELSE event[t]
    BY MovesEffect
  <1>5. /\ row.ev_txid = x /\ row.ev_owner = mover.row.ev_owner /\ row.ev_id = mover.row.ev_id
        /\ row = [ev_id |-> mover.row.ev_id, ev_txid |-> x, ev_owner |-> mover.row.ev_owner]
        /\ [ev_owner |-> row.ev_owner, ev_id |-> row.ev_id] = mover.row
    <2>1. row = [ev_id |-> mover.row.ev_id, ev_txid |-> x, ev_owner |-> mover.row.ev_owner]
      BY DEF MoveRow
    <2>2. \A q \in RequestType : [ev_owner |-> q.ev_owner, ev_id |-> q.ev_id] = q
      BY DEF RequestType
    <2>. QED
      BY <1>4, <2>1, <2>2
  <1>. HIDE DEF row
  <1>6. /\ x # 0 /\ x \in Nat /\ (mover.xid = 0 => x = nextXid) /\ (mover.xid # 0 => x = mover.xid)
        /\ mover.xid < nextXid /\ nextXid \in Nat /\ mover.xid \in Nat
    BY <1>4, RunsBelow DEF MoveXid
  <1>. HIDE DEF x
  <1>7. x \in Running'
    BY <1>4, <1>6, RunningFacts DEF RunsNow
  <1>8. \A t \in Table : row \notin event[t]
    <2>1. SUFFICES ASSUME NEW t \in Table, row \in event[t] PROVE FALSE
      OBVIOUS
    <2>2. x < nextXid
      BY <1>5, <2>1 DEF RowsRight
    <2>3. x = mover.xid
      BY <1>6, <2>2
    <2>4. mover.row \in mover.rows
      BY <1>4, <1>5, <2>1, <2>3 DEF MoverRight
    <2>. QED
      BY <1>4, <2>4
  <1>9. (ticker # NULL => x # ticker.xid) /\ (maint # NULL => x # maint.xid)
    BY <1>1, <1>2, <1>4, <1>6 DEF XidsRight
  <1>a. RowsRight' /\ LogRight' /\ MaintRight' /\ CurrentRight'
    BY <1>1, <1>2, <1>3, <1>4, <1>5, <1>7, <1>8, <1>9, RowAdded
  <1>b. CallsRight'
    <2>1. \A p \in Producer : xact[p].xid # x
      BY <1>1, <1>2, <1>4, <1>6 DEF XidsRight
    <2>2. \A t \in Table : \A r \in event'[t] : r \in event[t] \/ r = row
      BY <1>4
    <2>. QED
      BY <1>2, <1>5, <2>1, <2>2 DEF CallsRight
  <1>c. MoverRight'
    <2>1. ASSUME NEW t \in Table, NEW r \in event'[t], r.ev_txid = x
          PROVE  [ev_owner |-> r.ev_owner, ev_id |-> r.ev_id] \in mover.rows \cup {mover.row}
      <3>1. CASE r = row
        BY <1>5, <3>1
      <3>2. CASE r # row
        <4>1. r \in event[t]
          BY <1>4, <3>2
        <4>2. r.ev_txid < nextXid
          BY <4>1 DEF RowsRight
        <4>3. r.ev_txid = mover.xid
          BY <1>6, <2>1, <4>2
        <4>. QED
          BY <1>4, <4>1, <4>3 DEF MoverRight
      <3>. QED
        BY <3>1, <3>2
    <2>2. ASSUME NEW q \in mover.rows \cup {mover.row}
          PROVE  \E t \in Table : [ev_id |-> q.ev_id, ev_txid |-> x, ev_owner |-> q.ev_owner] \in event'[t]
      <3>1. CASE q = mover.row
        BY <1>4, <1>5, <3>1
      <3>2. CASE q \in mover.rows
        <4>. DEFINE old == [ev_id |-> q.ev_id, ev_txid |-> mover.xid, ev_owner |-> q.ev_owner]
        <4>1. PICK t \in Table : old \in event[t]
          BY <1>4, <3>2 DEF MoverRight
        <4>2. old.ev_txid = mover.xid
          OBVIOUS
        <4>3. mover.xid # 0
          BY <4>1, <4>2, RowTypes DEF RowsRight
        <4>4. old \in event'[t]
          BY <1>4, <4>1
        <4>. QED
          BY <1>6, <4>3, <4>4
      <3>. QED
        BY <3>1, <3>2
    <2>. QED
      BY <1>4, <2>1, <2>2 DEF MoverRight
  <1>. QED
    BY <1>a, <1>b, <1>c

\* Its rows get into the log.
LEMMA MoverCommitsRows ==
  ASSUME Typed, XidsRight, RowInv, maint_retry_events_commits
  PROVE  RowInv'
  <1>. USE DEF RowInv
  <1>. DEFINE x == mover.xid
  <1>1. XidStep /\ Running' = Running \ {x}
    BY MoverCommitsXids DEF Ends, XidStep
  <1>2. /\ UNCHANGED <<event, queue, tick, ticker, maint, xact>> /\ mover # NULL /\ mover' = NULL
        /\ log' = log \cup Rows(x)
    BY DEF maint_retry_events_commits, serverUnchanged, producerVars
  <1>4. \A r \in Rows(x) : r.ev_txid = x /\ \E t \in Table : r \in event[t]
    BY DEF Rows
  <1>5. \A t \in Table : \A r \in event[t] : r.ev_txid = x => r \in Rows(x)
    BY DEF Rows
  <1>. HIDE DEF x
  <1>6. RowsRight'
    <2>1. \A t \in Table : \A r \in event[t] : r.ev_txid \in Running' \/ r \in log'
      BY <1>1, <1>2, <1>5 DEF RowsRight
    <2>2. \A t \in Table : \A r \in event[t] : r.ev_txid < nextXid'
      BY <1>1, XidStepFacts, RowTypes DEF RowsRight
    <2>. QED
      BY <1>2, <2>1, <2>2 DEF RowsRight
  <1>7. LogRight'
    <2>1. \A r \in log : 0 < r.ev_txid /\ r.ev_txid < nextXid' /\ r.ev_txid \notin Running'
      BY <1>1, XidStepFacts, RowTypes DEF LogRight
    <2>2. \A r \in Rows(x) : 0 < r.ev_txid /\ r.ev_txid < nextXid' /\ r.ev_txid \notin Running'
      BY <1>1, <1>4, XidStepFacts, RowTypes DEF RowsRight
    <2>. QED
      BY <1>2, <2>1, <2>2 DEF LogRight
  <1>8. CallsRight'
    BY <1>2 DEF CallsRight
  <1>9. MaintRight' /\ CurrentRight'
    BY <1>1, <1>2, MaintSame, CurrentSame
  <1>a. MoverRight'
    BY <1>2 DEF MoverRight
  <1>. QED
    BY <1>6, <1>7, <1>8, <1>9, <1>a

\* What was not committed disappears.
LEMMA DiesRows ==
  ASSUME Typed, XidsRight, RowInv, pgqd_dies
  PROVE  RowInv'
  <1>. USE DEF RowInv
  <1>1. UNCHANGED <<queue, tick, xact, log>>
    BY DEF pgqd_dies, serverUnchanged, producerVars
  <1>2. ASSUME NEW x, Ends(x), UNCHANGED <<mover, event>>, ticker' \in {NULL, ticker}, maint' \in {NULL, maint},
               \A t \in Table : \A r \in event[t] : r.ev_txid # x
        PROVE  RowInv'
    <2>1. XidStep /\ Running' = Running \ {x}
      BY <1>2 DEF Ends, XidStep
    <2>2. RowsRight' /\ LogRight'
      BY <1>1, <1>2, <2>1, RowsSame
    <2>3. CallsRight' /\ MoverRight'
      BY <1>1, <1>2 DEF CallsRight, MoverRight
    <2>4. MaintRight' /\ CurrentRight'
      BY <1>1, <1>2, <2>1, MaintSame, CurrentSame
    <2>. QED
      BY <2>2, <2>3, <2>4
  <1>3. CASE ticker # NULL /\ Ends(ticker.xid) /\ ticker' = NULL /\ UNCHANGED <<maint, mover, event>>
    BY <1>2, <1>3 DEF RowsRight
  <1>4. CASE maint # NULL /\ Ends(maint.xid) /\ maint' = NULL /\ UNCHANGED <<ticker, mover, event>>
    BY <1>2, <1>4 DEF RowsRight
  <1>5. CASE /\ mover # NULL /\ Ends(mover.xid) /\ mover' = NULL /\ UNCHANGED <<ticker, maint>>
             /\ event' = IF mover.xid = 0 THEN event ELSE Without(mover.xid)
    <2>1. RowsRight' /\ LogRight' /\ MaintRight' /\ CurrentRight'
      BY <1>1, <1>5, RowsUndone
    <2>2. \A t \in Table : event'[t] \subseteq event[t]
      BY <1>5 DEF Without
    <2>3. CallsRight' /\ MoverRight'
      BY <1>1, <1>5, <2>2 DEF CallsRight, MoverRight
    <2>. QED
      BY <2>1, <2>3
  <1>. QED
    BY <1>3, <1>4, <1>5, DiesXids

-----------------------------------------------------------------------------
(* The steps of one group keep the parts of the invariant that are about   *)
(* txids, snapshots and rows.                                              *)

XidInv == XidsRight /\ SnapshotsRight /\ TicksRight /\ RowInv

\* Producers.
LEMMA ProducerSteps ==
  ASSUME Typed, XidInv, NEW p \in Producer, Produce(p)
  PROVE  XidInv' /\ XidStep
  <1>. USE DEF XidInv
  <1>1. UNCHANGED <<tick, ticker, tick_seq>>
    BY DEF Produce, Begin, load_queue_info, pgq_insert_event_raw, Commit, Abort, producerUnchanged
  <1>2. XidsRight' /\ XidStep
    BY BeginXids, LoadXids, InsertXids, EndXids DEF Produce, XidStep
  <1>3. SnapshotsRight' /\ TicksRight'
    BY <1>1, <1>2, TicksShrink
  <1>4. RowInv'
    BY BeginRows, InsertRows, CommitRows, AbortRows DEF Produce
  <1>. QED
    BY <1>2, <1>3, <1>4

\* pgqd.
LEMMA ServerSteps ==
  ASSUME Typed, XidInv, Pgqd
  PROVE  XidInv' /\ XidStep
  <1>. USE DEF XidInv, XidStep
  <1>0. ASSUME XidsRight', XidStep, RowInv', tick' \subseteq tick, ticker' \in {ticker, NULL}, UNCHANGED tick_seq
        PROVE  XidInv' /\ XidStep
    BY <1>0, TicksShrink
  <1>1. CASE ticker_inserts
    BY <1>1, TickerInsertsXids, TickerInsertsTicks, TickerInsertsRows
  <1>2. CASE ticker_commits
    BY <1>2, TickerCommitsXids, TickerCommitsTicks, TickerCommitsRows
  <1>3. CASE maint_rotate_tables_step1 \/ maint_rotate_tables_step2
    <2>1. UNCHANGED <<tick, ticker, tick_seq>>
      BY <1>3 DEF maint_rotate_tables_step1, maint_rotate_tables_step2
    <2>. QED
      BY <1>0, <1>3, <2>1, RotateXids, RotateRows
  <1>4. CASE maint_commits
    BY <1>0, <1>4, MaintCommitsXids, MaintCommitsRows, CommitEffect
  <1>5. ASSUME NEW q \in retry_queue, maint_retry_events_loads(q) PROVE XidInv' /\ XidStep
    <2>1. UNCHANGED <<tick, ticker, tick_seq>>
      BY <1>5 DEF maint_retry_events_loads
    <2>. QED
      BY <1>0, <1>5, <2>1, LoadsXids, LoadsRows
  <1>6. CASE maint_retry_events_moves
    <2>1. UNCHANGED <<tick, ticker, tick_seq>>
      BY <1>6 DEF maint_retry_events_moves
    <2>2. MoverRight
      BY DEF RowInv
    <2>. QED
      BY <1>0, <1>6, <2>1, <2>2, MovesXids, MovesRows
  <1>7. CASE maint_retry_events_commits
    <2>1. UNCHANGED <<tick, ticker, tick_seq>>
      BY <1>7 DEF maint_retry_events_commits
    <2>. QED
      BY <1>0, <1>7, <2>1, MoverCommitsXids, MoverCommitsRows
  <1>8. CASE pgqd_dies
    <2>1. UNCHANGED <<tick, tick_seq>> /\ ticker' \in {ticker, NULL}
      BY <1>8 DEF pgqd_dies
    <2>. QED
      BY <1>0, <1>8, <2>1, DiesXids, DiesRows
  <1>. QED
    BY <1>1, <1>2, <1>3, <1>4, <1>5, <1>6, <1>7, <1>8 DEF Pgqd

ConsumerStep(c) ==
  \/ Consume(c) \/ consumer_dies(c)
  \/ \E t \in tick : register_consumer_at(c, t)
  \/ registered(c) \/ unregister_consumer(c)
  \/ batch_retry(c) \/ \E id \in EventIds(c) : event_retry(c, id)

\* Consumers change nothing that producers and pgqd work on.
LEMMA ConsumerLeaves ==
  ASSUME NEW c \in Consumer, ConsumerStep(c)
  PROVE  UNCHANGED consumerUnchanged
  BY Zenon DEF ConsumerStep, Consume, next_batch_custom, find_batch, get_batch_events, finish_batch, consumer_dies,
         register_consumer_at, registered, unregister_consumer, batch_retry, event_retry

\* So they keep all this.
LEMMA ConsumerSteps ==
  ASSUME XidInv, UNCHANGED consumerUnchanged
  PROVE  XidInv' /\ Running' = Running
  <1>. USE DEF consumerUnchanged, xidVars, producerVars
  <1>1. Running' = Running
    BY RunningFacts DEF RunsNow
  <1>2. XidsRight'
    BY <1>1 DEF XidInv, XidsRight
  <1>3. SnapshotsRight' /\ TicksRight'
    BY <1>1 DEF XidInv, SnapshotsRight, SnapshotRight, TicksRight
  <1>4. RowsRight' /\ LogRight'
    BY <1>1 DEF XidInv, RowInv, RowsRight, LogRight
  <1>5. CallsRight' /\ MoverRight' /\ CurrentRight'
    BY DEF XidInv, RowInv, CallsRight, MoverRight, CurrentRight
  <1>6. MaintRight'
    BY <1>1 DEF XidInv, RowInv, MaintRight
  <1>. QED
    BY <1>1, <1>2, <1>3, <1>4, <1>5, <1>6 DEF XidInv, RowInv

\* Who asks for events has a batch.
LEMMA OpenKept ==
  ASSUME Typed, OpenRight, NEW c \in Consumer, ConsumerStep(c)
  PROVE  OpenRight'
  <1>1. /\ subscription \in [Consumer -> {NULL} \cup SubscriptionType]
        /\ batch \in [Consumer -> {NULL} \cup [last : SnapshotType, cur : SnapshotType, tables : SUBSET Table]]
        /\ got \in [Consumer -> {NULL} \cup SUBSET RowType]
    BY DEF Typed, TypeOK
  <1>. DEFINE Sub == SubscriptionType
  <1>4. ASSUME UNCHANGED <<subscription, batch, got>> PROVE OpenRight'
    BY <1>4 DEF OpenRight, Active
  <1>5. ASSUME batch' = [batch EXCEPT ![c] = NULL], got' = [got EXCEPT ![c] = NULL],
               \A e \in Consumer : e # c => subscription'[e] = subscription[e]
        PROVE  OpenRight'
    BY <1>1, <1>5 DEF OpenRight, Active
  <1>6. ASSUME NEW t \in tick, next_batch_custom(c, t) PROVE OpenRight'
    <2>1. batch[c] = NULL /\ got[c] = NULL
      BY <1>6 DEF next_batch_custom, OpenRight
    <2>2. \A e \in Consumer : e # c => subscription'[e] = subscription[e]
      BY <1>1, <1>6 DEF next_batch_custom
    <2>3. UNCHANGED <<batch, got>>
      BY <1>6 DEF next_batch_custom, consumerVars
    <2>. QED
      BY <2>1, <2>2, <2>3 DEF OpenRight, Active
  <1>7. CASE find_batch(c)
    <2>1. /\ Active(c) /\ got[c] = NULL /\ UNCHANGED <<subscription, got>>
          /\ \A e \in Consumer : e # c => batch'[e] = batch[e]
      BY <1>1, <1>7 DEF find_batch
    <2>. QED
      BY <2>1 DEF OpenRight, Active
  <1>8. CASE get_batch_events(c)
    <2>1. /\ Active(c) /\ UNCHANGED subscription /\ batch' = [batch EXCEPT ![c] = NULL]
          /\ \A e \in Consumer : e # c => got'[e] = got[e]
      BY <1>1, <1>8 DEF get_batch_events
    <2>. QED
      BY <1>1, <2>1 DEF OpenRight, Active
  <1>9. CASE finish_batch(c)
    <2>1. batch[c] = NULL /\ UNCHANGED batch /\ got' = [got EXCEPT ![c] = NULL]
      BY <1>9 DEF finish_batch, OpenRight
    <2>2. \A e \in Consumer : e # c => subscription'[e] = subscription[e]
      BY <1>1, <1>9 DEF finish_batch
    <2>. QED
      BY <1>1, <2>1, <2>2 DEF OpenRight, Active
  <1>a. CASE consumer_dies(c)
    BY <1>5, <1>a DEF consumer_dies
  <1>b. CASE registered(c)
    BY <1>1, <1>5, <1>b DEF registered
  <1>c. CASE unregister_consumer(c)
    BY <1>1, <1>5, <1>c DEF unregister_consumer
  <1>d. ASSUME NEW t \in tick, register_consumer_at(c, t) PROVE OpenRight'
    BY <1>4, <1>d DEF register_consumer_at
  <1>e. CASE batch_retry(c) \/ \E id \in EventIds(c) : event_retry(c, id)
    BY <1>4, <1>e DEF batch_retry, event_retry, consumerVars
  <1>. QED
    BY <1>6, <1>7, <1>8, <1>9, <1>a, <1>b, <1>c, <1>d, <1>e DEF ConsumerStep, Consume
-----------------------------------------------------------------------------
(* Where rows are.                                                         *)

\* A bound that is zero.
LEMMA NoneLeft ==
  ASSUME Typed
  PROVE  /\ MaxRotations = 0 => ~Use("rotations", MaxRotations)
         /\ MaxRetries = 0 => ~Use("retries", MaxRetries)
         /\ MaxRegisters = 0 => ~Use("registers", MaxRegisters)
  BY DEF Use, Typed, UsedRight

\* Without rotations producers write into the first table, ...
LEMMA StillProducer ==
  ASSUME Typed, XidInv, StillRight, NEW p \in Producer, Produce(p), MaxRotations = 0
  PROVE  StillRight'
  <1>1. /\ maint = NULL /\ queue = [cur_table |-> 0, switch_step1 |-> 1, switch_step2 |-> 1]
        /\ log \subseteq event[0] /\ \A t \in Table : t # 0 => event[t] = {}
        /\ \A q \in Producer : xact[q].table = 0
        /\ mover # NULL => mover.table = 0
        /\ \A c \in Consumer : registering[c] # NULL => registering[c] \in tick
    BY DEF StillRight
  <1>2. UNCHANGED producerUnchanged
    BY Zenon DEF Produce, Begin, load_queue_info, pgq_insert_event_raw, Commit, Abort
  <1>3. ASSUME log' \subseteq event'[0], \A t \in Table : t # 0 => event'[t] = {},
               \A q \in Producer : xact'[q].table = 0
        PROVE  StillRight'
    BY <1>1, <1>2, <1>3 DEF StillRight, producerUnchanged, consumerVars
  <1>4. 0 \in Table /\ queue.cur_table = 0
    BY <1>1, TableFacts
  <1>5. CASE Begin(p)
    BY <1>1, <1>3, <1>5, BeginEffect DEF OtherXacts
  <1>6. CASE load_queue_info(p)
    BY <1>1, <1>3, <1>4, <1>6, LoadEffect DEF OtherXacts
  <1>7. CASE pgq_insert_event_raw(p)
    <2>1. \A q \in Producer : xact'[q].table = 0
      BY <1>1, <1>7, InsertEffect DEF OtherXacts
    <2>2. log' \subseteq event'[0] /\ \A t \in Table : t # 0 => event'[t] = {}
      BY <1>1, <1>4, <1>7, InsertEffect
    <2>. QED
      BY <1>3, <2>1, <2>2
  <1>8. CASE Commit(p)
    <2>1. \A q \in Producer : xact'[q].table = 0
      BY <1>1, <1>8, EndEffect DEF OtherXacts, NoXact
    <2>2. Rows(xact[p].xid) \subseteq event[0]
      BY <1>1 DEF Rows
    <2>. QED
      BY <1>1, <1>3, <1>8, <2>1, <2>2 DEF Commit
  <1>9. CASE Abort(p)
    <2>1. \A q \in Producer : xact'[q].table = 0
      BY <1>1, <1>9, EndEffect DEF OtherXacts, NoXact
    <2>2. xact[p].xid # 0 => \A r \in log : r.ev_txid # xact[p].xid
      BY RunningFacts DEF RunsNow, XidInv, RowInv, LogRight
    <2>3. log' = log /\ event' = IF xact[p].xid = 0 THEN event ELSE Without(xact[p].xid)
      BY <1>9 DEF Abort
    <2>4. log' \subseteq event'[0] /\ \A t \in Table : t # 0 => event'[t] = {}
      BY <1>1, <1>4, <2>2, <2>3 DEF Without
    <2>. QED
      BY <1>3, <2>1, <2>4
  <1>. QED
    BY <1>5, <1>6, <1>7, <1>8, <1>9 DEF Produce

\* ... and so does the mover, ...
LEMMA StillServer ==
  ASSUME Typed, XidInv, StillRight, Pgqd, MaxRotations = 0
  PROVE  StillRight'
  <1>1. /\ maint = NULL /\ queue = [cur_table |-> 0, switch_step1 |-> 1, switch_step2 |-> 1]
        /\ log \subseteq event[0] /\ \A t \in Table : t # 0 => event[t] = {}
        /\ \A q \in Producer : xact[q].table = 0
        /\ mover # NULL => mover.table = 0
        /\ \A c \in Consumer : registering[c] # NULL => registering[c] \in tick
    BY DEF StillRight
  <1>2. 0 \in Table /\ queue.cur_table = 0 /\ queue.switch_step2 # 0
    BY <1>1, TableFacts
  <1>3. UNCHANGED <<xact, registering>>
    BY Zenon DEF Pgqd, ticker_inserts, ticker_commits, maint_rotate_tables_step1, maint_rotate_tables_step2,
       maint_commits, maint_retry_events_loads, maint_retry_events_moves, maint_retry_events_commits, pgqd_dies,
       serverUnchanged, producerVars, consumerVars
  <1>4. ASSUME UNCHANGED <<queue, maint>>, tick \subseteq tick', log' \subseteq event'[0],
               \A t \in Table : t # 0 => event'[t] = {}, mover' # NULL => mover'.table = 0
        PROVE  StillRight'
    BY <1>1, <1>3, <1>4 DEF StillRight
  <1>5. ~maint_rotate_tables_step1 /\ ~maint_rotate_tables_step2 /\ ~maint_commits
    BY <1>1, <1>2, NoneLeft DEF maint_rotate_tables_step1, maint_rotate_tables_step2, maint_commits
  <1>6. CASE ticker_inserts \/ ticker_commits
    <2>1. UNCHANGED <<queue, maint, mover, event, log>> /\ tick \subseteq tick'
      BY <1>6 DEF ticker_inserts, ticker_commits
    <2>. QED
      BY <1>1, <1>4, <2>1
  <1>7. ASSUME NEW q \in retry_queue, maint_retry_events_loads(q) PROVE StillRight'
    <2>1. UNCHANGED <<queue, maint, event, log, tick>>
      BY <1>7 DEF maint_retry_events_loads
    <2>. QED
      BY <1>1, <1>2, <1>4, <1>7, <2>1, LoadsEffect
  <1>8. CASE maint_retry_events_moves
    <2>1. UNCHANGED <<queue, maint, log, tick>>
      BY <1>8 DEF maint_retry_events_moves
    <2>2. MoverRight
      BY DEF XidInv, RowInv
    <2>. QED
      BY <1>1, <1>2, <1>4, <1>8, <2>1, <2>2, MovesEffect
  <1>9. CASE maint_retry_events_commits
    <2>1. /\ UNCHANGED <<queue, maint, event, tick>> /\ mover' = NULL
          /\ log' = log \cup Rows(mover.xid)
      BY <1>9 DEF maint_retry_events_commits
    <2>2. Rows(mover.xid) \subseteq event[0]
      BY <1>1 DEF Rows
    <2>. QED
      BY <1>1, <1>4, <2>1, <2>2
  <1>a. CASE pgqd_dies
    <2>1. UNCHANGED <<queue, tick, log>> /\ maint' = NULL /\ mover' \in {mover, NULL}
      BY <1>1, <1>a DEF pgqd_dies
    <2>2. event' = event \/ (mover # NULL /\ mover.xid # 0 /\ event' = Without(mover.xid))
      BY <1>a, Zenon DEF pgqd_dies
    <2>3. mover # NULL /\ mover.xid # 0 => \A r \in log : r.ev_txid # mover.xid
      BY RunningFacts DEF RunsNow, XidInv, RowInv, LogRight
    <2>4. log' \subseteq event'[0] /\ \A t \in Table : t # 0 => event'[t] = {}
      BY <1>1, <1>2, <2>1, <2>2, <2>3 DEF Without
    <2>. QED
      BY <1>1, <1>4, <2>1, <2>4
  <1>. QED
    BY <1>5, <1>6, <1>7, <1>8, <1>9, <1>a DEF Pgqd

\* ... and a tick that is chosen is not deleted.
LEMMA StillConsumer ==
  ASSUME Typed, StillRight, NEW c \in Consumer, ConsumerStep(c), MaxRotations = 0
  PROVE  StillRight'
  <1>1. UNCHANGED consumerUnchanged
    BY ConsumerLeaves
  <1>2. registering \in [Consumer -> {NULL} \cup TickType]
    BY DEF Typed, TypeOK
  <1>3. \/ registering' = registering \/ registering' = [registering EXCEPT ![c] = NULL]
        \/ \E t \in tick : registering' = [registering EXCEPT ![c] = t]
    BY DEF ConsumerStep, Consume, next_batch_custom, find_batch, get_batch_events, finish_batch, consumer_dies,
         register_consumer_at, registered, unregister_consumer, batch_retry, event_retry, consumerVars
  <1>4. \A d \in Consumer : registering'[d] # NULL => registering'[d] \in tick
    BY <1>2, <1>3 DEF StillRight
  <1>. QED
    BY <1>1, <1>4 DEF StillRight, consumerUnchanged, producerVars

\* Producers have a txid from their first statement on ...
LEMMA EarlyProducer ==
  ASSUME Typed, XidInv, EarlyRight, NEW p \in Producer, Produce(p), Early
  PROVE  EarlyRight'
  <1>1. UNCHANGED producerUnchanged
    BY Zenon DEF Produce, Begin, load_queue_info, pgq_insert_event_raw, Commit, Abort
  <1>2. /\ mover = NULL /\ retry_queue = {} /\ \A c \in Consumer : registering[c] = NULL
        /\ \A c \in Registered : subscription[c] # NULL
        /\ \A q \in Producer : xact[q].state # "idle" => xact[q].xid # 0
        /\ p \notin Bare /\ nextXid # 0
    BY RunsBelow DEF EarlyRight, Early, XidInv
  <1>3. \A q \in Producer : xact'[q].state # "idle" => xact'[q].xid # 0
    BY <1>2, BeginEffect, LoadEffect, InsertEffect, EndEffect DEF Produce, OtherXacts, InsertXid, NoXact
  <1>. QED
    BY <1>1, <1>2, <1>3 DEF EarlyRight, producerUnchanged, consumerVars

\* ... there is nothing for the mover to do ...
LEMMA EarlyServer ==
  ASSUME EarlyRight, Pgqd, Early
  PROVE  EarlyRight'
  <1>1. UNCHANGED <<xact, registering, subscription>>
    BY Zenon DEF Pgqd, ticker_inserts, ticker_commits, maint_rotate_tables_step1, maint_rotate_tables_step2,
       maint_commits, maint_retry_events_loads, maint_retry_events_moves, maint_retry_events_commits, pgqd_dies,
       serverUnchanged, producerVars, consumerVars
  <1>2. UNCHANGED <<mover, retry_queue>>
    BY Zenon DEF EarlyRight, Pgqd, ticker_inserts, ticker_commits, maint_rotate_tables_step1,
       maint_rotate_tables_step2, maint_commits, maint_retry_events_loads, maint_retry_events_moves,
       maint_retry_events_commits, pgqd_dies
  <1>. QED
    BY <1>1, <1>2 DEF EarlyRight

\* ... and consumers stay.
LEMMA EarlyConsumer ==
  ASSUME Typed, EarlyRight, NEW c \in Consumer, ConsumerStep(c), Early
  PROVE  EarlyRight'
  <1>1. UNCHANGED consumerUnchanged
    BY ConsumerLeaves
  <1>2. \/ UNCHANGED <<registering, retry_queue>>
        \/ Use("registers", MaxRegisters) \/ Use("retries", MaxRetries)
        \/ registering[c] # NULL
    BY DEF ConsumerStep, Consume, next_batch_custom, find_batch, get_batch_events, finish_batch, consumer_dies,
         register_consumer_at, registered, unregister_consumer, batch_retry, event_retry, consumerVars
  <1>3. UNCHANGED <<registering, retry_queue>> /\ registering[c] = NULL /\ ~Use("registers", MaxRegisters)
    BY <1>2, NoneLeft DEF EarlyRight, Early
  <1>4. \A d \in Consumer : subscription[d] # NULL => subscription'[d] # NULL
    <2>1. TypeOK /\ subscription \in [Consumer -> {NULL} \cup SubscriptionType]
          /\ tick \subseteq TickType
      BY DEF Typed, TypeOK
    <2>2. \/ UNCHANGED subscription
          \/ subscription[c] # NULL /\ \E r \in SubscriptionType :
               subscription' = [subscription EXCEPT ![c] = r]
      <3>1. CASE finish_batch(c)
        <4>1. subscription[c] # NULL
              /\ subscription' = [subscription EXCEPT ![c].last = subscription[c].next, ![c].next = 0]
          BY <3>1 DEF finish_batch, Active
        <4>. QED
          BY <2>1, <4>1, FinishedIs, Zenon
      <3>2. ASSUME NEW t \in tick, next_batch_custom(c, t)
            PROVE  \/ UNCHANGED subscription
                   \/ subscription[c] # NULL /\ \E r \in SubscriptionType :
                        subscription' = [subscription EXCEPT ![c] = r]
        <4>1. subscription[c] # NULL /\ subscription' = [subscription EXCEPT ![c].next = t.id] /\ t.id \in Nat
          BY <2>1, <3>2 DEF next_batch_custom, TickType
        <4>2. subscription' = [subscription EXCEPT ![c] = [subscription[c] EXCEPT !.next = t.id]]
          BY <4>1
        <4>3. [subscription[c] EXCEPT !.next = t.id] \in SubscriptionType
          BY <2>1, <4>1
        <4>. QED
          BY <4>1, <4>2, <4>3
      <3>3. CASE find_batch(c) \/ get_batch_events(c) \/ consumer_dies(c) \/ batch_retry(c)
                 \/ (\E id \in EventIds(c) : event_retry(c, id)) \/ (\E t \in tick : register_consumer_at(c, t))
        BY <3>3, Zenon DEF find_batch, get_batch_events, consumer_dies, batch_retry, event_retry, register_consumer_at
      <3>4. ~registered(c) /\ ~unregister_consumer(c)
        BY <1>3 DEF registered, unregister_consumer
      <3>. QED
        BY <3>1, <3>2, <3>3, <3>4 DEF ConsumerStep, Consume
    <2>3. \A r \in SubscriptionType : r # NULL
      BY PgQAssumption
    <2>. HIDE DEF SubscriptionType
    <2>4. ASSUME NEW r \in SubscriptionType, subscription' = [subscription EXCEPT ![c] = r],
                 NEW d \in Consumer, subscription[d] # NULL
          PROVE  subscription'[d] # NULL
      <3>1. subscription'[d] = IF d = c THEN r ELSE subscription[d]
        BY <2>1, <2>4
      <3>. QED
        BY <2>3, <2>4, <3>1
    <2>. QED
      BY <2>2, <2>4
  <1>. QED
    BY <1>1, <1>3, <1>4, PgQAssumption DEF EarlyRight, consumerUnchanged, producerVars
-----------------------------------------------------------------------------
\* Inv holds when the queue has been created ...
LEMMA InitInv == Init => Inv
  <1>. SUFFICES ASSUME Init PROVE Inv
    OBVIOUS
  <1>. DEFINE first == [xmin |-> 1, xmax |-> 1, xip |-> {}]
  <1>1. first \in SnapshotType /\ first.xmin = 1 /\ first.xmax = 1 /\ first.xip = {}
    BY DEF SnapshotType
  <1>2. /\ nextXid = 2 /\ latestCompletedXid = 1
        /\ queue = [cur_table |-> 0, switch_step1 |-> 1, switch_step2 |-> 1]
        /\ tick = {[id |-> 1, event_seq |-> 1, snapshot |-> first]}
        /\ retry_queue = {} /\ event = [t \in Table |-> {}]
        /\ event_seq = 0 /\ tick_seq = 1 /\ sub_seq = 0
        /\ xact = [p \in Producer |-> NoXact]
        /\ ticker = NULL /\ maint = NULL /\ mover = NULL
        /\ registering = [c \in Consumer |-> NULL]
        /\ batch = [c \in Consumer |-> NULL] /\ got = [c \in Consumer |-> NULL]
        /\ log = {} /\ start = [c \in Consumer |-> first]
        /\ seen = [c \in Consumer |-> {}] /\ again = [c \in Consumer |-> FALSE]
        /\ asked = {}
    BY Zenon DEF Init
  <1>3. \A c \in Consumer : subscription[c] \in {NULL} \cup SubscriptionType
    BY DEF Init
  <1>. HIDE DEF first
  <1>4. TypeOK
    <2>1. subscription \in [Consumer -> {NULL} \cup SubscriptionType]
      BY <1>3 DEF Init
    <2>2. tick \subseteq TickType
      BY <1>1, <1>2 DEF TickType
    <2>3. entry \in [Producer -> [cur_table : {NULL} \cup Table, last_xid : Nat, last_count : Nat]]
      BY DEF Init
    <2>. QED
      BY <1>2, <2>1, <2>2, <2>3, TableFacts DEF TypeOK, NoXact
  <1>5. UsedRight /\ HistoryRight
    BY <1>1, <1>2 DEF UsedRight, HistoryRight, Init
  <1>6. Running = {}
    BY <1>2, RunningFacts DEF RunsNow, NoXact
  <1>7. XidsRight
    BY <1>2, <1>6 DEF XidsRight, NoXact
  <1>8. SnapshotsRight /\ TicksRight
    BY <1>1, <1>2, <1>6 DEF SnapshotsRight, SnapshotRight, SnapshotFits, TicksRight
  <1>9. RowsRight /\ LogRight /\ CallsRight /\ MoverRight /\ MaintRight /\ CurrentRight
    BY <1>2, TableFacts DEF RowsRight, LogRight, CallsRight, MoverRight, MaintRight, CurrentRight
  <1>a. StillRight /\ OpenRight
    BY <1>2, TableFacts DEF StillRight, OpenRight, NoXact
  <1>b. EarlyRight
    <2>1. \A c \in Registered : c \in Consumer /\ subscription[c] = [id |-> <<c, 0>>, last |-> 1, next |-> 0]
      BY PgQAssumption DEF Init
    <2>2. \A c \in Registered : subscription[c] \in SubscriptionType
      <3>1. \A c \in Consumer : [id |-> <<c, 0>>, last |-> 1, next |-> 0] \in SubscriptionType
        OBVIOUS
      <3>. QED
        BY <2>1, <3>1, Zenon
    <2>3. \A c \in Registered : subscription[c] # NULL
      BY <2>2, PgQAssumption
    <2>. QED
      BY <1>2, <2>3 DEF EarlyRight, NoXact
  <1>. QED
    BY <1>4, <1>5, <1>7, <1>8, <1>9, <1>a, <1>b DEF Inv, Typed

\* ... and every step keeps it.
LEMMA NextInv == Inv /\ [Next]_vars => Inv'
  <1>. SUFFICES ASSUME Inv, [Next]_vars PROVE Inv'
    OBVIOUS
  <1>1. Typed /\ XidInv /\ MoverRight /\ StillRight /\ EarlyRight /\ OpenRight
    BY DEF Inv, XidInv, RowInv
  <1>2. ASSUME Typed', XidInv', StillRight', EarlyRight', OpenRight' PROVE Inv'
    BY <1>2 DEF Inv, XidInv, RowInv
  <1>3. MaxRotations # 0 => StillRight'
    BY DEF StillRight
  <1>4. ~Early => EarlyRight'
    BY DEF EarlyRight, Early
  <1>5. UNCHANGED <<subscription, batch, got>> => OpenRight'
    BY <1>1 DEF OpenRight, Active
  <1>6. ASSUME NEW p \in Producer, Produce(p) PROVE Inv'
    <2>1. UNCHANGED <<subscription, batch, got>>
      BY <1>6, Zenon DEF Produce, Begin, load_queue_info, pgq_insert_event_raw, Commit, Abort, producerUnchanged, consumerVars
    <2>. QED
      BY <1>1, <1>2, <1>3, <1>4, <1>5, <1>6, <2>1, ProducerTyped, ProducerSteps, StillProducer, EarlyProducer
  <1>7. CASE Pgqd
    <2>1. UNCHANGED <<subscription, batch, got>>
      BY <1>7, Zenon DEF Pgqd, ticker_inserts, ticker_commits, maint_rotate_tables_step1, maint_rotate_tables_step2,
       maint_commits, maint_retry_events_loads, maint_retry_events_moves, maint_retry_events_commits, pgqd_dies,
       serverUnchanged, consumerVars
    <2>. QED
      BY <1>1, <1>2, <1>3, <1>4, <1>5, <1>7, <2>1, ServerTyped, ServerSteps, StillServer, EarlyServer
  <1>8. ASSUME NEW c \in Consumer, ConsumerStep(c) PROVE Inv'
    <2>1. Typed'
      BY <1>1, <1>8, ConsumerTyped DEF ConsumerStep
    <2>. QED
      BY <1>1, <1>2, <1>3, <1>4, <1>8, <2>1, ConsumerLeaves, ConsumerSteps, StillConsumer, EarlyConsumer, OpenKept
  <1>9. CASE UNCHANGED vars
    <2>1. UNCHANGED consumerUnchanged /\ XidInv'
      BY <1>1, <1>9, ConsumerSteps DEF vars, consumerUnchanged
    <2>2. Typed'
      BY <1>1, <1>9 DEF vars, xidVars, producerVars, consumerVars, historyVars, Typed, TypeOK, UsedRight, HistoryRight
    <2>3. OpenRight'
      BY <1>5, <1>9 DEF vars, consumerVars
    <2>4. StillRight'
      BY <1>1, <1>9 DEF vars, producerVars, consumerVars, StillRight
    <2>5. EarlyRight'
      BY <1>1, <1>9 DEF vars, producerVars, consumerVars, EarlyRight
    <2>. QED
      BY <1>2, <2>1, <2>2, <2>3, <2>4, <2>5
  <1>. QED
    BY <1>6, <1>7, <1>8, <1>9 DEF Next, ConsumerStep

\* Inv holds always.
THEOREM Invariance == Spec => []Inv
  BY InitInv, NextInv, PTL DEF Spec

\* Every variable has its type, whatever the bounds and the consumers do.
THEOREM TypeCorrect == Spec => []TypeOK
  <1>1. Inv => TypeOK
    BY DEF Inv, Typed
  <1>. QED
    BY <1>1, Invariance, PTL
-----------------------------------------------------------------------------
(* Retry requests.                                                         *)

RetryInv == Inv /\ OwnersRight /\ Conserved

\* At first nobody has asked for a retry.
LEMMA InitRetries == Init => RetryInv
  <1>. SUFFICES ASSUME Init PROVE RetryInv
    OBVIOUS
  <1>1. /\ asked = {} /\ log = {} /\ retry_queue = {} /\ mover = NULL /\ sub_seq = 0
        /\ \A c \in Consumer : subscription[c] # NULL => subscription[c].id = <<c, 0>>
    BY DEF Init
  <1>2. OwnersRight
    BY <1>1 DEF OwnersRight
  <1>3. \A o, i : AskedFor(o, i) = {} /\ Moved(o, i) = {} /\ Waiting(o, i) = 0
    BY <1>1 DEF AskedFor, Moved, Waiting
  <1>4. \A o, i : ConservedFor(o, i)
    BY <1>3, FS_EmptySet DEF ConservedFor
  <1>. QED
    BY <1>2, <1>4, InitInv DEF RetryInv, Conserved

\* The types of what requests are about.
LEMMA RetryTypes ==
  ASSUME Typed
  PROVE  /\ sub_seq \in Nat /\ used.retries \in Nat
         /\ \A c \in Consumer : subscription[c] # NULL =>
              subscription[c] \in SubscriptionType
         /\ retry_queue \subseteq RequestType
         /\ asked \subseteq [ev_owner : Consumer \X Nat, ev_id : IdType \X Nat]
         /\ \A r \in log : r.ev_owner # NULL => r.ev_owner \in Consumer \X Nat
         /\ NULL \notin Consumer \X Nat /\ NULL \notin RequestType
  BY PgQAssumption DEF Typed, TypeOK, UsedRight, HistoryRight, RowType

\* Subscriptions with the same id are one.
LEMMA IdsApart ==
  ASSUME OwnersRight
  PROVE  \A c, d \in Consumer : subscription[c] # NULL /\ subscription[d] # NULL
           /\ subscription[c].id = subscription[d].id => c = d
  BY Zenon DEF OwnersRight

\* What holds for the id of each subscription holds for each subscription.
LEMMA ConservedNext ==
  ASSUME \A o, i : (\E c \in Consumer : subscription'[c] # NULL /\ subscription'[c].id = o) /\ i \in IdType
           => ConservedFor(o, i)'
  PROVE  Conserved'
  <1>1. SUFFICES ASSUME NEW c \in Consumer, subscription'[c] # NULL, NEW i \in IdType
                 PROVE  ConservedFor(subscription[c].id, i)'
    BY DEF Conserved
  <1>2. PICK o : o = subscription'[c].id
    OBVIOUS
  <1>3. ConservedFor(o, i)'
    BY <1>1, <1>2, Zenon
  <1>. QED
    BY <1>2, <1>3 DEF ConservedFor, AskedFor, Moved, Waiting

\* Steps that change no subscription's id, no request and no request's event.
LEMMA RetriesSame ==
  ASSUME Typed, OwnersRight, Conserved, UNCHANGED <<asked, retry_queue, sub_seq>>,
         used'.retries = used.retries,
         \A c \in Consumer : subscription'[c] # NULL =>
           subscription[c] # NULL /\ subscription'[c].id = subscription[c].id,
         log \subseteq log', \A r \in log' : r.ev_owner # NULL => r \in log,
         mover' # NULL => \A q \in mover'.rows \cup ({mover'.row} \ {NULL}) :
           q \in retry_queue \/ (mover # NULL /\ q \in mover.rows \cup ({mover.row} \ {NULL}))
  PROVE  OwnersRight' /\ Conserved'
  <1>1. OwnersRight'
    <2>1. mover' # NULL => \A q \in mover'.rows \cup ({mover'.row} \ {NULL}) :
             /\ q.ev_owner[2] <= sub_seq
             /\ \A c \in Consumer : subscription[c] # NULL /\ subscription[c].id = q.ev_owner => q \in retry_queue
      BY Zenon DEF OwnersRight
    <2>2. \A c \in Consumer : subscription'[c] # NULL =>
             subscription'[c].id[1] = c /\ subscription'[c].id[2] <= sub_seq
      BY Zenon DEF OwnersRight
    <2>3. \A r \in log' : r.ev_owner # NULL => r.ev_owner[2] <= sub_seq
      BY Zenon DEF OwnersRight
    <2>4. mover' # NULL => \A q \in mover'.rows \cup ({mover'.row} \ {NULL}) :
             /\ q.ev_owner[2] <= sub_seq
             /\ \A c \in Consumer : subscription'[c] # NULL /\ subscription'[c].id = q.ev_owner => q \in retry_queue
      BY <2>1, Zenon
    <2>. QED
      BY <2>2, <2>3, <2>4 DEF OwnersRight
  <1>2. \A o, i : (\E c \in Consumer : subscription'[c] # NULL /\ subscription'[c].id = o) /\ i \in IdType
           => ConservedFor(o, i)'
    <2>1. SUFFICES ASSUME NEW c \in Consumer, subscription'[c] # NULL, NEW o, subscription'[c].id = o, NEW i \in IdType
                   PROVE  ConservedFor(o, i)'
      BY Zenon
    <2>2. subscription[c] # NULL /\ subscription[c].id = o /\ o # NULL
      BY <2>1, RetryTypes
    <2>3. ConservedFor(o, i)
      BY <2>2, Zenon DEF Conserved
    <2>4. Moved(o, i)' = Moved(o, i)
      BY <2>2 DEF Moved
    <2>5. AskedFor(o, i)' = AskedFor(o, i) /\ Waiting(o, i)' = Waiting(o, i)
      BY DEF AskedFor, Waiting
    <2>. QED
      BY <2>3, <2>4, <2>5 DEF ConservedFor
  <1>. QED
    BY <1>1, <1>2, ConservedNext

\* Producers insert for nobody in particular.
LEMMA RetriesProducer ==
  ASSUME RetryInv, NEW p \in Producer, Produce(p)
  PROVE  OwnersRight' /\ Conserved'
  <1>1. Typed /\ OwnersRight /\ Conserved /\ LogRight /\ CallsRight
    BY DEF RetryInv, Inv
  <1>2. /\ UNCHANGED <<subscription, asked, retry_queue, sub_seq, mover>>
        /\ used'.retries = used.retries
    <2>1. UNCHANGED producerUnchanged /\ (UNCHANGED used \/ Use("xacts", MaxXacts))
      BY Zenon DEF Produce, Begin, load_queue_info, pgq_insert_event_raw, Commit, Abort
    <2>. QED
      BY <1>1, <2>1 DEF producerUnchanged, historyVars, Use, Typed, UsedRight
  <1>3. log' = log \/ (log' = log \cup Rows(xact[p].xid) /\ Commit(p))
    BY Zenon DEF Produce, Begin, load_queue_info, pgq_insert_event_raw, Commit, Abort
  <1>4. \A r \in Rows(xact[p].xid) : r.ev_owner = NULL
    BY <1>1 DEF CallsRight, Rows
  <1>. QED
    BY <1>1, <1>2, <1>3, <1>4, RetriesSame

\* The mover's transaction: a request that it moved is one row of it, and no other.
LEMMA MovedOnce ==
  ASSUME RetryInv, maint_retry_events_commits, NEW o, NEW i, NEW c \in Consumer,
         subscription[c] # NULL, subscription[c].id = o, i \in IdType
  PROVE  ConservedFor(o, i)'
  <1>1. Typed /\ OwnersRight /\ LogRight /\ RowsRight /\ MoverRight /\ ConservedFor(o, i)
    BY Zenon DEF RetryInv, Inv, Conserved
  <1>2. /\ mover # NULL /\ UNCHANGED asked /\ retry_queue' = retry_queue \ mover.rows
        /\ log' = log \cup Rows(mover.xid)
    BY DEF maint_retry_events_commits, NotMoved, serverUnchanged, historyVars
  <1>. DEFINE q == [ev_owner |-> o, ev_id |-> i]
              row == [ev_id |-> i, ev_txid |-> mover.xid, ev_owner |-> o]
  <1>3. q.ev_owner = o /\ q.ev_id = i
    OBVIOUS
  <1>4. row.ev_owner = o /\ row.ev_id = i /\ row.ev_txid = mover.xid
    OBVIOUS
  <1>5. \A r \in Rows(mover.xid) : r.ev_owner = o /\ r.ev_id = i => r = row /\ q \in mover.rows
    <2>1. \A r \in Rows(mover.xid) : r.ev_txid = mover.xid /\ \E t \in Table : r \in event[t]
      BY DEF Rows
    <2>2. \A r \in Rows(mover.xid) : [ev_owner |-> r.ev_owner, ev_id |-> r.ev_id] \in mover.rows /\ r \in RowType
      BY <1>1, <1>2, <2>1, RowTypes DEF MoverRight
    <2>. QED
      BY <2>1, <2>2 DEF RowType
  <1>6. q \in mover.rows => row \in Rows(mover.xid)
    <2>1. ASSUME q \in mover.rows PROVE \E t \in Table : row \in event[t]
      BY <1>1, <1>2, <1>3, <2>1, Zenon DEF MoverRight
    <2>. QED
      BY <1>4, <2>1 DEF Rows
  <1>. HIDE DEF q, row
  <1>7. AskedFor(o, i)' = AskedFor(o, i)
    BY <1>2 DEF AskedFor
  <1>8. CASE q \in mover.rows
    <2>1. q \in retry_queue
      BY <1>1, <1>2, <1>3, <1>8 DEF OwnersRight
    <2>2. Waiting(o, i) = 1 /\ Waiting(o, i)' = 0
      BY <1>2, <1>8, <2>1 DEF Waiting, q
    <2>3. Moved(o, i)' = Moved(o, i) \cup {row}
      BY <1>2, <1>4, <1>5, <1>6, <1>8 DEF Moved
    <2>4. row \notin Moved(o, i)
      <3>1. \E t \in Table : row \in event[t]
        BY <1>6, <1>8 DEF Rows
      <3>2. mover.xid # 0
        BY <1>1, <1>4, <3>1, RowTypes DEF RowsRight
      <3>3. mover.xid \in Running
        BY <1>2, <3>2, RunningFacts DEF RunsNow
      <3>. QED
        BY <1>1, <1>4, <3>3 DEF LogRight, Moved
    <2>5. /\ IsFiniteSet(Moved(o, i)')
          /\ Cardinality(Moved(o, i)') = Cardinality(Moved(o, i)) + 1
      BY <1>1, <2>3, <2>4, FS_AddElement DEF ConservedFor
    <2>. QED
      BY <1>1, <1>7, <2>2, <2>5, FS_CardinalityType DEF ConservedFor
  <1>9. CASE q \notin mover.rows
    <2>1. Moved(o, i)' = Moved(o, i)
      BY <1>2, <1>5, <1>9 DEF Moved
    <2>2. Waiting(o, i)' = Waiting(o, i)
      BY <1>2, <1>9 DEF Waiting, q
    <2>. QED
      BY <1>1, <1>7, <2>1, <2>2 DEF ConservedFor
  <1>. QED
    BY <1>8, <1>9

\* What the mover commits are the requests it takes away.
LEMMA RetriesServer ==
  ASSUME RetryInv, Pgqd
  PROVE  OwnersRight' /\ Conserved'
  <1>1. Typed /\ OwnersRight /\ Conserved /\ MoverRight
    BY DEF RetryInv, Inv
  <1>2. /\ UNCHANGED <<subscription, asked, sub_seq>>
        /\ used'.retries = used.retries
    <2>1. /\ UNCHANGED serverUnchanged
          /\ UNCHANGED used \/ Use("idle", MaxIdleTicks) \/ Use("rotations", MaxRotations) \/ Use("crashes", MaxCrashes)
      BY Zenon DEF Pgqd, ticker_inserts, ticker_commits, maint_rotate_tables_step1, maint_rotate_tables_step2,
       maint_commits, maint_retry_events_loads, maint_retry_events_moves, maint_retry_events_commits, pgqd_dies
    <2>. QED
      BY <1>1, <2>1 DEF serverUnchanged, historyVars, Use, Typed, UsedRight
  <1>3. ASSUME UNCHANGED <<retry_queue, log>>, mover' \in {mover, NULL} PROVE OwnersRight' /\ Conserved'
    BY <1>1, <1>2, <1>3, RetriesSame
  <1>4. CASE \/ ticker_inserts \/ ticker_commits \/ maint_rotate_tables_step1 \/ maint_rotate_tables_step2
             \/ maint_commits
    BY <1>3, <1>4 DEF ticker_inserts, ticker_commits, maint_rotate_tables_step1, maint_rotate_tables_step2, maint_commits
  <1>5. ASSUME NEW q \in retry_queue, maint_retry_events_loads(q) PROVE OwnersRight' /\ Conserved'
    <2>1. UNCHANGED <<retry_queue, log>>
      BY <1>5 DEF maint_retry_events_loads
    <2>2. mover'.rows = (IF mover = NULL THEN {} ELSE mover.rows) /\ mover'.row = q
      BY <1>1, <1>5, LoadsEffect
    <2>. QED
      BY <1>1, <1>2, <2>1, <2>2, RetriesSame
  <1>6. CASE maint_retry_events_moves
    <2>1. UNCHANGED <<retry_queue, log>>
      BY <1>6 DEF maint_retry_events_moves
    <2>2. mover # NULL /\ mover.row \in RequestType /\ mover'.rows = mover.rows \cup {mover.row} /\ mover'.row = NULL
      BY <1>1, <1>6, MovesEffect
    <2>3. mover.row # NULL
      BY <1>1, <2>2, RetryTypes
    <2>. QED
      BY <1>1, <1>2, <2>1, <2>2, <2>3, RetriesSame
  <1>7. CASE maint_retry_events_commits
    <2>1. /\ mover # NULL /\ mover' = NULL /\ retry_queue' = retry_queue \ mover.rows
          /\ log' = log \cup Rows(mover.xid)
      BY <1>7 DEF maint_retry_events_commits, NotMoved
    <2>2. \A r \in Rows(mover.xid) : r.ev_owner # NULL => r.ev_owner[2] <= sub_seq
      <3>1. \A r \in Rows(mover.xid) : r.ev_txid = mover.xid /\ \E t \in Table : r \in event[t]
        BY DEF Rows
      <3>2. \A r \in Rows(mover.xid) : [ev_owner |-> r.ev_owner, ev_id |-> r.ev_id] \in mover.rows
        BY <1>1, <2>1, <3>1 DEF MoverRight
      <3>3. \A q \in mover.rows : q.ev_owner[2] <= sub_seq
        BY <1>1, <2>1 DEF OwnersRight
      <3>. QED
        BY <3>2, <3>3
    <2>3. OwnersRight'
      BY <1>1, <1>2, <2>1, <2>2 DEF OwnersRight
    <2>4. Conserved'
      BY <1>2, <1>7, MovedOnce, ConservedNext
    <2>. QED
      BY <2>3, <2>4
  <1>8. CASE pgqd_dies
    <2>1. UNCHANGED <<retry_queue, log>> /\ mover' \in {mover, NULL}
      BY <1>8 DEF pgqd_dies
    <2>. QED
      BY <1>3, <2>1
  <1>. QED
    BY <1>4, <1>5, <1>6, <1>7, <1>8 DEF Pgqd

\* New requests are added to those kept and to those asked for.
LEMMA RetriesAccepted ==
  ASSUME RetryInv, NEW c \in Consumer, got[c] # NULL, NEW qs \in SUBSET RequestType,
         \A q \in qs : q.ev_owner = subscription[c].id, Accept(qs), Use("retries", MaxRetries),
         UNCHANGED <<subscription, sub_seq, mover, log>>
  PROVE  OwnersRight' /\ Conserved'
  <1>. DEFINE n == used.retries
              new == {[q EXCEPT !.ev_id = <<@, n>>] : q \in qs \ retry_queue}
  <1>1. Typed /\ OwnersRight /\ Conserved /\ subscription[c] # NULL /\ n \in Nat
    BY RetryTypes DEF RetryInv, Inv, OpenRight, Active
  <1>2. used'.retries = n + 1
    BY <1>1 DEF Use, Typed, UsedRight
  <1>3. asked' = asked \cup new /\ retry_queue' = retry_queue \cup qs
    BY DEF Accept
  <1>4. \A a : a \in new <=> \E q \in qs \ retry_queue : a = [ev_owner |-> q.ev_owner, ev_id |-> <<q.ev_id, n>>]
    <2>1. \A q \in RequestType : [q EXCEPT !.ev_id = <<@, n>>] = [ev_owner |-> q.ev_owner, ev_id |-> <<q.ev_id, n>>]
      BY DEF RequestType
    <2>. QED
      BY <2>1
  <1>. HIDE DEF new
  <1>5. \A a \in new : a.ev_owner = subscription[c].id /\ a.ev_id[2] = n
    BY <1>4
  <1>6. OwnersRight'
    <2>1. subscription[c].id[2] <= sub_seq
      BY <1>1 DEF OwnersRight
    <2>2. \A a \in asked' : a.ev_owner[2] <= sub_seq /\ a.ev_id[2] < n + 1
      <3>1. \A a \in asked : a.ev_owner[2] <= sub_seq /\ a.ev_id[2] < n /\ a.ev_id[2] \in Nat
        BY <1>1, RetryTypes DEF OwnersRight
      <3>. QED
        BY <1>1, <1>3, <1>5, <2>1, <3>1
    <2>3. \A q \in retry_queue' : q.ev_owner[2] <= sub_seq
      BY <1>1, <1>3, <2>1 DEF OwnersRight
    <2>4. mover # NULL => \A q \in mover.rows \cup ({mover.row} \ {NULL}) :
             /\ q.ev_owner[2] <= sub_seq
             /\ \A d \in Consumer : subscription[d] # NULL /\ subscription[d].id = q.ev_owner => q \in retry_queue'
      BY <1>1, <1>3 DEF OwnersRight
    <2>. QED
      BY <1>1, <1>2, <2>2, <2>3, <2>4 DEF OwnersRight
  <1>7. \A o, i : (\E d \in Consumer : subscription'[d] # NULL /\ subscription'[d].id = o) /\ i \in IdType
           => ConservedFor(o, i)'
    <2>1. SUFFICES ASSUME NEW d \in Consumer, subscription'[d] # NULL, NEW o, subscription'[d].id = o, NEW i \in IdType
                   PROVE  ConservedFor(o, i)'
      BY Zenon
    <2>2. ConservedFor(o, i)
      BY <1>1, <2>1 DEF Conserved
    <2>3. Moved(o, i)' = Moved(o, i)
      BY DEF Moved
    <2>. DEFINE q == [ev_owner |-> o, ev_id |-> i]
                a == [ev_owner |-> o, ev_id |-> <<i, n>>]
    <2>4. q.ev_owner = o /\ q.ev_id = i /\ a.ev_owner = o /\ a.ev_id[1] = i /\ a.ev_id[2] = n
      OBVIOUS
    <2>5. \A b \in new : b.ev_owner = o /\ b.ev_id[1] = i => b = a /\ q \in qs \ retry_queue
      <3>1. \A r \in qs : r \in RequestType
        OBVIOUS
      <3>2. \A r \in RequestType : r.ev_owner = o /\ r.ev_id = i => r = q
        BY DEF RequestType
      <3>. QED
        BY <1>4, <3>1, <3>2
    <2>6. q \in qs \ retry_queue => a \in new
      BY <1>4, <2>4
    <2>. HIDE DEF q, a
    <2>7. CASE q \in qs \ retry_queue
      <3>1. AskedFor(o, i)' = AskedFor(o, i) \cup {a}
        BY <1>3, <2>4, <2>5, <2>6, <2>7 DEF AskedFor
      <3>2. a \notin AskedFor(o, i)
        BY <1>1, <2>4 DEF AskedFor, OwnersRight
      <3>3. IsFiniteSet(AskedFor(o, i)') /\ Cardinality(AskedFor(o, i)') = Cardinality(AskedFor(o, i)) + 1
        BY <2>2, <3>1, <3>2, FS_AddElement DEF ConservedFor
      <3>4. Waiting(o, i) = 0 /\ Waiting(o, i)' = 1
        BY <1>3, <2>7 DEF Waiting, q
      <3>. QED
        BY <2>2, <2>3, <3>3, <3>4, FS_CardinalityType DEF ConservedFor
    <2>8. CASE q \notin qs \ retry_queue
      <3>1. AskedFor(o, i)' = AskedFor(o, i)
        BY <1>3, <2>5, <2>8 DEF AskedFor
      <3>2. Waiting(o, i)' = Waiting(o, i)
        BY <1>3, <2>8 DEF Waiting, q
      <3>. QED
        BY <2>2, <2>3, <3>1, <3>2 DEF ConservedFor
    <2>. QED
      BY <2>7, <2>8
  <1>. QED
    BY <1>6, <1>7, ConservedNext

\* A request is accepted if it is not there.
LEMMA RetriesConsumer ==
  ASSUME RetryInv, NEW c \in Consumer, ConsumerStep(c)
  PROVE  OwnersRight' /\ Conserved'
  <1>1. Typed /\ OwnersRight /\ Conserved /\ UNCHANGED <<mover, log>>
    BY ConsumerLeaves DEF RetryInv, Inv, consumerUnchanged
  <1>2. subscription \in [Consumer -> {NULL} \cup SubscriptionType] /\ sub_seq \in Nat
    BY <1>1 DEF Typed, TypeOK
  <1>3. ASSUME UNCHANGED <<asked, retry_queue, sub_seq>>, used'.retries = used.retries,
               \A d \in Consumer : subscription'[d] # NULL =>
                 subscription[d] # NULL /\ subscription'[d].id = subscription[d].id
        PROVE  OwnersRight' /\ Conserved'
    BY <1>1, <1>3, RetriesSame
  <1>4. Use("registers", MaxRegisters) \/ Use("crashes", MaxCrashes) => used'.retries = used.retries
    BY <1>1 DEF Use, Typed, UsedRight
  <1>5. ASSUME NEW t \in tick, next_batch_custom(c, t) PROVE OwnersRight' /\ Conserved'
    <2>1. /\ UNCHANGED <<asked, retry_queue, sub_seq, used>> /\ subscription[c] # NULL
          /\ subscription' = [subscription EXCEPT ![c].next = t.id]
      BY <1>5 DEF next_batch_custom, historyVars
    <2>. QED
      BY <1>2, <1>3, <2>1
  <1>6. CASE find_batch(c) \/ get_batch_events(c) \/ consumer_dies(c) \/ \E t \in tick : register_consumer_at(c, t)
    <2>1. /\ UNCHANGED <<asked, retry_queue, sub_seq, subscription>>
          /\ UNCHANGED used \/ Use("crashes", MaxCrashes) \/ Use("registers", MaxRegisters)
      BY <1>6, Zenon DEF find_batch, get_batch_events, consumer_dies, register_consumer_at, historyVars
    <2>. QED
      BY <1>3, <1>4, <2>1
  <1>7. CASE finish_batch(c)
    <2>1. /\ UNCHANGED <<asked, retry_queue, sub_seq, used>> /\ subscription[c] # NULL
          /\ subscription' = [subscription EXCEPT ![c].last = subscription[c].next, ![c].next = 0]
      BY <1>7 DEF finish_batch, Active
    <2>2. TypeOK
      BY <1>1 DEF Typed
    <2>3. PICK r : /\ subscription' = [subscription EXCEPT ![c] = r]
                   /\ r = [id |-> subscription[c].id, last |-> subscription[c].next, next |-> 0]
      BY <2>1, <2>2, FinishedIs, Zenon
    <2>4. r.id = subscription[c].id
      BY <2>3
    <2>. QED
      BY <1>2, <1>3, <2>1, <2>3, <2>4
  <1>8. CASE registered(c)
    <2>1. /\ subscription' = [subscription EXCEPT ![c] = Subscribed(c)] /\ UNCHANGED <<asked, retry_queue, used>>
          /\ sub_seq' = IF subscription[c] = NULL THEN sub_seq + 1 ELSE sub_seq
      BY <1>8 DEF registered
    <2>2. Subscribed(c).id = IF subscription[c] = NULL THEN <<c, sub_seq + 1>> ELSE subscription[c].id
      BY DEF Subscribed
    <2>3. CASE subscription[c] # NULL
      BY <1>2, <1>3, <2>1, <2>2, <2>3
    <2>4. CASE subscription[c] = NULL
      <3>. DEFINE o == <<c, sub_seq + 1>>
      <3>1. sub_seq' = sub_seq + 1 /\ subscription'[c].id = o
            /\ \A d \in Consumer : d # c => subscription'[d] = subscription[d]
        BY <1>2, <2>1, <2>2, <2>4
      <3>2. o[1] = c /\ o[2] = sub_seq + 1
        OBVIOUS
      <3>. HIDE DEF o
      <3>3. /\ \A a \in asked : a.ev_owner[2] <= sub_seq /\ a.ev_owner[2] \in Nat
            /\ \A q \in retry_queue : q.ev_owner[2] <= sub_seq /\ q.ev_owner[2] \in Nat
            /\ \A r \in log : r.ev_owner # NULL => r.ev_owner[2] <= sub_seq /\ r.ev_owner[2] \in Nat
            /\ \A d \in Consumer : subscription[d] # NULL =>
                  subscription[d].id[1] = d /\ subscription[d].id[2] <= sub_seq /\ subscription[d].id[2] \in Nat
        BY <1>1, RetryTypes DEF OwnersRight, RequestType
      <3>4. mover # NULL => \A q \in mover.rows \cup ({mover.row} \ {NULL}) :
              /\ q.ev_owner[2] <= sub_seq /\ q.ev_owner[2] \in Nat
              /\ \A d \in Consumer : subscription[d] # NULL /\ subscription[d].id = q.ev_owner => q \in retry_queue
        <4>1. mover # NULL => \A q \in mover.rows \cup ({mover.row} \ {NULL}) : q \in RequestType
          BY <1>1 DEF Typed, TypeOK, MoverType
        <4>. QED
          BY <1>1, <4>1 DEF OwnersRight, RequestType
      <3>5. o # NULL /\ o \in Consumer \X Nat
        BY <1>1, <1>2, RetryTypes DEF o
      <3>6. OwnersRight'
        <4>1. \A d \in Consumer : subscription'[d] # NULL =>
                subscription'[d].id[1] = d /\ subscription'[d].id[2] <= sub_seq'
          BY <1>2, <3>1, <3>2, <3>3
        <4>2. /\ \A a \in asked : a.ev_owner[2] <= sub_seq' /\ a.ev_id[2] < used.retries
              /\ \A q \in retry_queue : q.ev_owner[2] <= sub_seq'
              /\ \A r \in log : r.ev_owner # NULL => r.ev_owner[2] <= sub_seq'
          BY <1>1, <1>2, <3>1, <3>3 DEF OwnersRight
        <4>3. mover # NULL => \A q \in mover.rows \cup ({mover.row} \ {NULL}) :
                /\ q.ev_owner[2] <= sub_seq'
                /\ \A d \in Consumer : subscription'[d] # NULL /\ subscription'[d].id = q.ev_owner => q \in retry_queue
          <5>1. mover # NULL => \A q \in mover.rows \cup ({mover.row} \ {NULL}) : q.ev_owner # o
            BY <1>2, <3>2, <3>4
          <5>. QED
            BY <1>2, <3>1, <3>4, <5>1
        <4>. QED
          BY <1>1, <2>1, <4>1, <4>2, <4>3 DEF OwnersRight
      <3>7. \A i : AskedFor(o, i) = {} /\ Moved(o, i) = {} /\ Waiting(o, i) = 0
        <4>1. /\ \A a \in asked : a.ev_owner # o
              /\ \A r \in log : r.ev_owner # o
              /\ \A q \in retry_queue : q.ev_owner # o
          BY <1>2, <3>2, <3>3, <3>5
        <4>2. \A i : [ev_owner |-> o, ev_id |-> i] \notin retry_queue
          BY <4>1
        <4>. QED
          BY <4>1, <4>2 DEF AskedFor, Moved, Waiting
      <3>8. \A i : ConservedFor(o, i)
        BY <3>7, FS_EmptySet DEF ConservedFor
      <3>9. \A p, i : ConservedFor(p, i) => ConservedFor(p, i)'
        BY <1>1, <2>1 DEF ConservedFor, AskedFor, Moved, Waiting
      <3>10. \A p, i : (\E d \in Consumer : subscription'[d] # NULL /\ subscription'[d].id = p) /\ i \in IdType
               => ConservedFor(p, i)
        BY <1>1, <3>1, <3>8 DEF Conserved
      <3>11. Conserved'
        BY <3>9, <3>10, ConservedNext
      <3>. QED
        BY <3>6, <3>11
    <2>. QED
      BY <2>3, <2>4
  <1>9. CASE unregister_consumer(c)
    <2>1. /\ subscription' = [subscription EXCEPT ![c] = NULL] /\ UNCHANGED <<asked, sub_seq>>
          /\ retry_queue' = {q \in retry_queue : q.ev_owner # subscription[c].id} /\ subscription[c] # NULL
          /\ used'.retries = used.retries
      BY <1>4, <1>9 DEF unregister_consumer
    <2>2. \A d \in Consumer : subscription'[d] # NULL =>
            subscription[d] # NULL /\ subscription'[d] = subscription[d] /\ subscription[d].id # subscription[c].id
      BY <1>1, <1>2, <2>1, IdsApart
    <2>3. OwnersRight'
      BY <1>1, <2>1, <2>2 DEF OwnersRight
    <2>4. \A o, i : o # subscription[c].id /\ ConservedFor(o, i) => ConservedFor(o, i)'
      <3>1. SUFFICES ASSUME NEW o, NEW i, o # subscription[c].id, ConservedFor(o, i) PROVE ConservedFor(o, i)'
        OBVIOUS
      <3>2. AskedFor(o, i)' = AskedFor(o, i) /\ Moved(o, i)' = Moved(o, i)
        BY <1>1, <2>1 DEF AskedFor, Moved
      <3>3. [ev_owner |-> o, ev_id |-> i] \in retry_queue' <=> [ev_owner |-> o, ev_id |-> i] \in retry_queue
        BY <2>1, <3>1
      <3>4. Waiting(o, i)' = Waiting(o, i)
        BY <3>3 DEF Waiting
      <3>. QED
        BY <3>1, <3>2, <3>4 DEF ConservedFor
    <2>5. \A o, i : (\E d \in Consumer : subscription'[d] # NULL /\ subscription'[d].id = o) /\ i \in IdType
               => o # subscription[c].id /\ ConservedFor(o, i)
      BY <1>1, <2>2 DEF Conserved
    <2>6. Conserved'
      BY <2>4, <2>5, ConservedNext
    <2>. QED
      BY <2>3, <2>6
  <1>a. ASSUME got[c] # NULL
        PROVE  \A r \in got[c] : Request(c, r.ev_id) \in RequestType /\ Request(c, r.ev_id).ev_owner = subscription[c].id
    <2>1. subscription[c] \in SubscriptionType
      BY <1>1, <1>a, RetryTypes DEF RetryInv, Inv, OpenRight, Active
    <2>2. got[c] \subseteq RowType
      BY <1>1, <1>a DEF Typed, TypeOK
    <2>. QED
      BY <2>1, <2>2 DEF Request, RequestType, RowType
  <1>b. CASE batch_retry(c)
    <2>. DEFINE qs == {Request(c, r.ev_id) : r \in got[c]}
    <2>1. got[c] # NULL /\ Use("retries", MaxRetries) /\ Accept(qs) /\ UNCHANGED <<subscription, sub_seq>>
      BY <1>b DEF batch_retry
    <2>2. qs \in SUBSET RequestType /\ \A q \in qs : q.ev_owner = subscription[c].id
      BY <1>a, <2>1
    <2>. HIDE DEF qs
    <2>. QED
      BY <1>1, <2>1, <2>2, RetriesAccepted
  <1>c. ASSUME NEW id \in EventIds(c), event_retry(c, id) PROVE OwnersRight' /\ Conserved'
    <2>1. PICK qs \in {{}, {Request(c, id)}} : Accept(qs)
      BY <1>c DEF event_retry
    <2>2. got[c] # NULL /\ Use("retries", MaxRetries) /\ UNCHANGED <<subscription, sub_seq>>
      BY <1>c DEF event_retry
    <2>3. qs \in SUBSET RequestType /\ \A q \in qs : q.ev_owner = subscription[c].id
      BY <1>a, <2>1, <2>2 DEF EventIds
    <2>. QED
      BY <1>1, <2>1, <2>2, <2>3, RetriesAccepted
  <1>. QED
    BY <1>5, <1>6, <1>7, <1>8, <1>9, <1>b, <1>c DEF ConsumerStep, Consume

\* So none is lost and none is moved twice.
LEMMA NextRetries == RetryInv /\ [Next]_vars => RetryInv'
  <1>. SUFFICES ASSUME RetryInv, [Next]_vars PROVE RetryInv'
    OBVIOUS
  <1>1. Inv'
    BY NextInv DEF RetryInv
  <1>2. CASE UNCHANGED vars
    <2>1. Typed /\ OwnersRight /\ Conserved
      BY DEF RetryInv, Inv
    <2>. QED
      BY <1>1, <1>2, <2>1, RetriesSame DEF RetryInv, vars, historyVars
  <1>3. CASE Next
    BY <1>1, <1>3, RetriesProducer, RetriesServer, RetriesConsumer DEF RetryInv, Next, ConsumerStep
  <1>. QED
    BY <1>2, <1>3

\* A retry request is either still in retry_queue or has become one new event:
\* none is dropped and none is moved twice, whatever job dies.
THEOREM RetriesConservedCorrect == Spec => []RetriesConserved
  <1>1. Spec => []RetryInv
    BY InitRetries, NextRetries, PTL DEF Spec
  <1>2. RetryInv => RetriesConserved
    <2>. SUFFICES ASSUME RetryInv, NEW c \in Consumer, subscription[c] # NULL, NEW a \in asked
                  PROVE  Cardinality({b \in asked : b.ev_owner = subscription[c].id /\ b.ev_id[1] = a.ev_id[1]})
                         = Cardinality({r \in log : r.ev_owner = subscription[c].id /\ r.ev_id = a.ev_id[1]})
                           + (IF [ev_owner |-> subscription[c].id, ev_id |-> a.ev_id[1]] \in retry_queue THEN 1 ELSE 0)
      BY DEF RetriesConserved
    <2>1. a.ev_id[1] \in IdType
      BY RetryTypes DEF RetryInv, Inv
    <2>2. ConservedFor(subscription[c].id, a.ev_id[1])
      BY <2>1 DEF RetryInv, Conserved
    <2>. QED
      BY <2>2 DEF ConservedFor, AskedFor, Moved, Waiting
  <1>. QED
    BY <1>1, <1>2, PTL
=============================================================================

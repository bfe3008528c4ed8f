-------------------------------- MODULE PgQ --------------------------------
(***************************************************************************)
(* PgQ, the transactional queue of Skytools (sql/pgq): producers insert    *)
(* events into the current one of queue_ntables tables, the ticker records *)
(* snapshots, a batch is what became visible between two ticks, and the    *)
(* tables are rotated once every consumer is past the previous one.        *)
(*                                                                         *)
(* One queue in a READ COMMITTED database.  A function is one step up to   *)
(* its commit, unless another transaction may change what it has read: the *)
(* transactions that write events, ticks and the queue's row are split at  *)
(* the statements that take a txid or a snapshot.  Time is left out: what  *)
(* waits for an interval may happen at once or never.  A null number is 0.  *)
(***************************************************************************)
EXTENDS Integers, FiniteSets

CONSTANTS
  Producer,
  Bare,          \* producers whose transaction writes nothing before insert_event
  Consumer,
  Registered,    \* the consumers registered when the queue was created
  NTables,       \* queue_ntables
  RangeSlack,    \* 100 in batch_event_sql
  PerTxLimit,    \* queue_per_tx_limit, -1 for null
  MaxXacts,      \* bound: transactions of producers
  MaxPerTx,      \* bound: calls of insert_event in a transaction
  MaxIdleTicks,  \* bound: ticks taken when there is no event to show
  MaxRotations,  \* bound: rotations
  MaxRetries,    \* bound: retry requests
  MaxRegisters,  \* bound: registrations and repositionings
  MaxCrashes,    \* bound: consumers, tickers and maintenance jobs that die
  NULL

Table == 0..(NTables - 1)

SnapshotType == [xmin : Nat, xmax : Nat, xip : SUBSET Nat]
IdType == Nat \X Nat
RowType == [ev_id : IdType, ev_txid : Nat, ev_owner : {NULL} \cup (Consumer \X Nat)]
RequestType == [ev_owner : Consumer \X Nat, ev_id : IdType]
SubscriptionType == [id : Consumer \X Nat, last : Nat, next : Nat]
TickType == [id : Nat, event_seq : Nat, snapshot : SnapshotType]
TickerType == [xid : Nat, id : Nat, event_seq : Nat, snapshot : SnapshotType]
MaintType == [step : {1, 2}, xid : Nat, nr : Table, dead : SUBSET TickType]
MoverType == [xid : Nat, state : {"open", "loaded"}, table : Table,
              rows : SUBSET RequestType, row : {NULL} \cup RequestType]

ASSUME PgQAssumption ==
  /\ NTables \in Nat /\ NTables >= 2
  /\ RangeSlack \in Nat /\ PerTxLimit \in Nat \cup {-1}
  /\ Bare \subseteq Producer /\ Registered \subseteq Consumer
  /\ NULL \notin (Consumer \X Nat) \cup SubscriptionType \cup RequestType
                  \cup TickerType \cup MaintType \cup MoverType

VARIABLES
  \* PostgreSQL's transactions
  nextXid, latestCompletedXid,
  \* tables of the schema, as committed
  queue,          \* the queue's row: cur_table, switch_step1, switch_step2
  tick,           \* rows of pgq.tick
  subscription,   \* consumer -> its row of pgq.subscription, or NULL
  retry_queue,    \* rows of pgq.retry_queue: owner and event id
  event,          \* table -> its rows, those of running transactions included
  event_seq,      \* how many event ids have been taken
  tick_seq, sub_seq,
  \* open transactions
  xact,           \* producer -> its transaction
  entry,          \* producer -> its InsertCacheEntry
  ticker,         \* the tick the ticker has inserted, or NULL
  maint,          \* the rotation step in progress, or NULL
  mover,          \* maint_retry_events in progress, or NULL
  registering,    \* consumer -> the tick it is about to start from, or NULL
  batch,          \* consumer -> what batch_event_sql has found out, or NULL
  got,            \* consumer -> the events of its batch, or NULL
  \* history
  log,            \* the rows ever committed
  start,          \* consumer -> snapshot of the tick it started from
  seen,           \* consumer -> rows of the batches it finished
  again,          \* consumer -> it got a row twice
  asked,          \* the retry requests ever accepted
  used            \* what has been used up of the bounds

xidVars == <<nextXid, latestCompletedXid>>
producerVars == <<xact, entry>>
consumerVars == <<registering, batch, got>>
historyVars == <<start, seen, again, asked>>
vars == <<xidVars, queue, tick, subscription, retry_queue, event, event_seq, tick_seq, sub_seq,
          producerVars, ticker, maint, mover, consumerVars, log, historyVars, used>>
-----------------------------------------------------------------------------
(* Transactions and snapshots.                                             *)

NoXact == [state |-> "idle", xid |-> 0, table |-> 0, calls |-> 0]
Pending == {ticker, maint, mover} \ {NULL}
Running == ({xact[p].xid : p \in Producer} \cup {x.xid : x \in Pending}) \ {0}

Lowest(S) == CHOOSE x \in S : \A y \in S : x <= y
Completed(x) == latestCompletedXid' = IF x > latestCompletedXid THEN x ELSE latestCompletedXid

\* txid_current_snapshot: what GetSnapshotData has found.
Snapshot ==
  LET xmax == latestCompletedXid + 1
      xip == {x \in Running : x < xmax}
  IN [xmin |-> Lowest(xip \cup {xmax}), xmax |-> xmax, xip |-> xip]

\* txid_visible_in_snapshot: is_visible_txid.
Visible(x, s) == x < s.xmin \/ (x < s.xmax /\ x \notin s.xip)

TickRow(id) == CHOOSE t \in tick : t.id = id
HasTick(id) == \E t \in tick : t.id = id
LastTick == {t \in tick : \A u \in tick : u.id <= t.id}   \* empty if there is none

\* create_queue, in transaction 1, with its first tick; some consumers have
\* registered.
Init ==
  LET first == [xmin |-> 1, xmax |-> 1, xip |-> {}] IN
  /\ nextXid = 2 /\ latestCompletedXid = 1
  /\ queue = [cur_table |-> 0, switch_step1 |-> 1, switch_step2 |-> 1]
  /\ tick = {[id |-> 1, event_seq |-> 1, snapshot |-> first]}
  /\ subscription = [c \in Consumer |->
       IF c \in Registered THEN [id |-> <<c, 0>>, last |-> 1, next |-> 0] ELSE NULL]
  /\ retry_queue = {} /\ event = [t \in Table |-> {}]
  /\ event_seq = 0 /\ tick_seq = 1 /\ sub_seq = 0
  /\ xact = [p \in Producer |-> NoXact]
  /\ entry = [p \in Producer |-> [cur_table |-> NULL, last_xid |-> 0, last_count |-> 0]]
  /\ ticker = NULL /\ maint = NULL /\ mover = NULL
  /\ registering = [c \in Consumer |-> NULL]
  /\ batch = [c \in Consumer |-> NULL] /\ got = [c \in Consumer |-> NULL]
  /\ log = {}
  /\ start = [c \in Consumer |-> first]
  /\ seen = [c \in Consumer |-> {}] /\ again = [c \in Consumer |-> FALSE]
  /\ asked = {}
  /\ used = [xacts |-> 0, idle |-> 0, rotations |-> 0, retries |-> 0, registers |-> 0, crashes |-> 0]

Use(what, max) == used[what] < max /\ used' = [used EXCEPT ![what] = @ + 1]
-----------------------------------------------------------------------------
(* Producers.                                                              *)

producerUnchanged ==
  <<queue, tick, subscription, retry_queue, tick_seq, sub_seq, ticker, maint, mover,
    consumerVars, historyVars>>

\* A transaction that changes the user's tables first, as one whose triggers
\* queue events does, has a txid before it looks at the queue.
Begin(p) ==
  /\ xact[p].state = "idle" /\ Use("xacts", MaxXacts)
  /\ IF p \in Bare
     THEN xact' = [xact EXCEPT ![p].state = "open"] /\ UNCHANGED nextXid
     ELSE xact' = [xact EXCEPT ![p].state = "open", ![p].xid = nextXid] /\ nextXid' = nextXid + 1
  /\ UNCHANGED <<producerUnchanged, latestCompletedXid, event, event_seq, entry, log>>

\* load_queue_info: which table is the current one, and nextval for the ticker to
\* notice, whoever inserts and whatever becomes of the transaction.
load_queue_info(p) ==
  /\ xact[p].state = "open" /\ xact[p].calls < MaxPerTx
  /\ xact' = [xact EXCEPT ![p].state = "loaded", ![p].table = queue.cur_table, ![p].calls = @ + 1]
  /\ event_seq' = event_seq + 1
  /\ UNCHANGED <<producerUnchanged, xidVars, event, entry, log, used>>

\* The table is locked by a rotation that is about to empty it.
Locked(t) == maint # NULL /\ maint.step = 1 /\ maint.nr = t

\* load_insert_plan: the plan for the table, and how many events this
\* transaction has inserted with it.
load_insert_plan(p, x) ==
  LET e == entry[p]
      count == IF e.cur_table = xact[p].table /\ e.last_xid = x THEN e.last_count ELSE 0
  IN [cur_table |-> xact[p].table, last_xid |-> x, last_count |-> count + 1]

\* pgq_insert_event_raw, once the queue has been looked at.  A new event's id
\* stands for the number nextval gave it.
pgq_insert_event_raw(p) ==
  LET x == IF xact[p].xid = 0 THEN nextXid ELSE xact[p].xid
      plan == load_insert_plan(p, x)
  IN /\ xact[p].state = "loaded" /\ ~Locked(xact[p].table)
     /\ PerTxLimit >= 0 => plan.last_count <= PerTxLimit
     /\ nextXid' = IF xact[p].xid = 0 THEN nextXid + 1 ELSE nextXid
     /\ event' = [event EXCEPT ![xact[p].table] =
                    @ \cup {[ev_id |-> <<x, xact[p].calls>>, ev_txid |-> x, ev_owner |-> NULL]}]
     /\ xact' = [xact EXCEPT ![p].state = "open", ![p].xid = x]
     /\ entry' = IF PerTxLimit >= 0 THEN [entry EXCEPT ![p] = plan] ELSE entry
     /\ UNCHANGED <<producerUnchanged, latestCompletedXid, event_seq, log, used>>

Rows(x) == {r \in UNION {event[t] : t \in Table} : r.ev_txid = x}
Without(x) == [t \in Table |-> {r \in event[t] : r.ev_txid # x}]

Commit(p) ==
  /\ xact[p].state = "open" /\ xact[p].xid # 0
  /\ log' = log \cup Rows(xact[p].xid)
  /\ Completed(xact[p].xid)
  /\ xact' = [xact EXCEPT ![p] = NoXact]
  /\ UNCHANGED <<producerUnchanged, nextXid, event, event_seq, entry, used>>

\* A rollback, or an error: too many events, a disabled queue.
Abort(p) ==
  /\ xact[p].state # "idle"
  /\ event' = IF xact[p].xid = 0 THEN event ELSE Without(xact[p].xid)
  /\ Completed(xact[p].xid)
  /\ xact' = [xact EXCEPT ![p] = NoXact]
  /\ UNCHANGED <<producerUnchanged, nextXid, event_seq, entry, log, used>>
-----------------------------------------------------------------------------
(* pgqd: the ticker, the maintenance jobs and the mover of retry events.   *)

serverUnchanged == <<subscription, sub_seq, producerVars, consumerVars, historyVars>>

\* The last value of the sequence of event ids, 1 before it is first used as well.
seq_getval == IF event_seq = 0 THEN 1 ELSE event_seq

\* Is there no tick, or has an id been taken since the last one looked?
NewEvents == \A t \in LastTick : seq_getval > t.event_seq

\* For the bound and for fairness: a committed event that the last tick does not show.
Unshown == \A t \in LastTick : \E r \in log : ~Visible(r.ev_txid, t.snapshot)

\* Mutant: no tick without new ids.
IdlePeriodNeverOver == FALSE

\* Without new ids the ticker waits for the idle period.  Time is left out: like
\* max_lag with new ids, it may be over at any time.
IdlePeriodOver == TRUE

\* pgq.ticker inserts a tick: its txid is taken and, with the row, its snapshot ...
ticker_inserts ==
  /\ ticker = NULL
  /\ NewEvents \/ IdlePeriodOver
  /\ IF Unshown THEN UNCHANGED used ELSE Use("idle", MaxIdleTicks)
  /\ ticker' = [xid |-> nextXid, id |-> tick_seq + 1, event_seq |-> seq_getval,
                snapshot |-> Snapshot]
  /\ nextXid' = nextXid + 1 /\ tick_seq' = tick_seq + 1
  /\ UNCHANGED <<serverUnchanged, latestCompletedXid, queue, tick, retry_queue, event, event_seq,
                 maint, mover, log>>

\* ... and commits it.
ticker_commits ==
  /\ ticker # NULL
  /\ tick' = tick \cup {[id |-> ticker.id, event_seq |-> ticker.event_seq,
                        snapshot |-> ticker.snapshot]}
  /\ Completed(ticker.xid) /\ ticker' = NULL
  /\ UNCHANGED <<serverUnchanged, nextXid, queue, retry_queue, event, event_seq, tick_seq, maint,
                 mover, log, used>>

Stands == {subscription[c].last : c \in {d \in Consumer : subscription[d] # NULL}}

\* Mutant: the txid of the wrong step.
OnPreviousStep1 ==
  /\ Stands # {}
  /\ ~HasTick(Lowest(Stands)) \/ TickRow(Lowest(Stands)).snapshot.xmin <= queue.switch_step1

\* Is the slowest consumer still on the previous table?
OnPrevious ==
  /\ Stands # {}
  /\ ~HasTick(Lowest(Stands)) \/ TickRow(Lowest(Stands)).snapshot.xmin <= queue.switch_step2

\* maint_rotate_tables_step1 up to its commit; the lock on the table it empties
\* must be free at once.
maint_rotate_tables_step1 ==
  LET nr == (queue.cur_table + 1) % NTables IN
  /\ maint = NULL /\ Use("rotations", MaxRotations)
  /\ queue.switch_step2 # 0 /\ ~OnPrevious
  /\ \A r \in event[nr] : r.ev_txid \notin Running
  /\ maint' = [step |-> 1, xid |-> nextXid, nr |-> nr,
               dead |-> {t \in tick : t.snapshot.xmin < queue.switch_step2}]
  /\ nextXid' = nextXid + 1
  /\ UNCHANGED <<serverUnchanged, latestCompletedXid, queue, tick, retry_queue, event, event_seq,
                 tick_seq, ticker, mover, log>>

\* maint_rotate_tables_step2, in a transaction of its own.
maint_rotate_tables_step2 ==
  /\ maint = NULL /\ queue.switch_step2 = 0
  /\ maint' = [step |-> 2, xid |-> nextXid, nr |-> queue.cur_table, dead |-> {}]
  /\ nextXid' = nextXid + 1
  /\ UNCHANGED <<serverUnchanged, latestCompletedXid, queue, tick, retry_queue, event, event_seq,
                 tick_seq, ticker, mover, log, used>>

\* Mutant: both steps in one transaction.
SwitchedAtOnce == [cur_table |-> maint.nr, switch_step1 |-> maint.xid, switch_step2 |-> maint.xid]

\* The queue's row after a rotation step.
Switched ==
  IF maint.step = 1 THEN [cur_table |-> maint.nr, switch_step1 |-> maint.xid, switch_step2 |-> 0]
                    ELSE [queue EXCEPT !.switch_step2 = maint.xid]

maint_commits ==
  /\ maint # NULL
  /\ queue' = Switched
  /\ event' = IF maint.step = 1 THEN [event EXCEPT ![maint.nr] = {}] ELSE event
  /\ tick' = tick \ maint.dead
  /\ Completed(maint.xid) /\ maint' = NULL
  /\ UNCHANGED <<serverUnchanged, nextXid, retry_queue, event_seq, tick_seq, ticker, mover, log,
                 used>>

\* maint_retry_events: its loop looks at the queue for the next event, and takes
\* an id, ...
maint_retry_events_loads(q) ==
  LET m == IF mover = NULL THEN [xid |-> 0, state |-> "open", table |-> 0, rows |-> {}, row |-> NULL]
                           ELSE mover
  IN /\ m.state = "open" /\ q \notin m.rows
     /\ mover' = [m EXCEPT !.state = "loaded", !.table = queue.cur_table, !.row = q]
     /\ event_seq' = event_seq + 1
     /\ UNCHANGED <<serverUnchanged, xidVars, queue, tick, retry_queue, event, tick_seq, ticker,
                    maint, log, used>>

\* ... inserts it again, for its owner, and deletes the request, ...
maint_retry_events_moves ==
  LET x == IF mover.xid = 0 THEN nextXid ELSE mover.xid IN
  /\ mover # NULL /\ mover.state = "loaded" /\ ~Locked(mover.table)
  /\ nextXid' = IF mover.xid = 0 THEN nextXid + 1 ELSE nextXid
  /\ event' = [event EXCEPT ![mover.table] =
                 @ \cup {[ev_id |-> mover.row.ev_id, ev_txid |-> x, ev_owner |-> mover.row.ev_owner]}]
  /\ mover' = [mover EXCEPT !.xid = x, !.state = "open", !.rows = @ \cup {mover.row}, !.row = NULL]
  /\ UNCHANGED <<serverUnchanged, latestCompletedXid, queue, tick, retry_queue, event_seq, tick_seq,
                 ticker, maint, log, used>>

\* Mutant: the requests stay.
StillRequested == retry_queue

\* The requests it leaves.
NotMoved == retry_queue \ mover.rows

\* ... and commits after some of them.
maint_retry_events_commits ==
  /\ mover # NULL /\ mover.state = "open"
  /\ retry_queue' = NotMoved
  /\ log' = log \cup Rows(mover.xid)
  /\ Completed(mover.xid) /\ mover' = NULL
  /\ UNCHANGED <<serverUnchanged, nextXid, queue, tick, event, event_seq, tick_seq, ticker,
                 maint, used>>

\* A connection of pgqd is lost: what it has not committed is undone.
pgqd_dies ==
  /\ Use("crashes", MaxCrashes)
  /\ \/ ticker # NULL /\ Completed(ticker.xid) /\ ticker' = NULL /\ UNCHANGED <<maint, mover, event>>
     \/ maint # NULL /\ Completed(maint.xid) /\ maint' = NULL /\ UNCHANGED <<ticker, mover, event>>
     \/ /\ mover # NULL /\ Completed(mover.xid) /\ mover' = NULL
        /\ event' = IF mover.xid = 0 THEN event ELSE Without(mover.xid)
        /\ UNCHANGED <<ticker, maint>>
  /\ UNCHANGED <<serverUnchanged, nextXid, queue, tick, retry_queue, event_seq, tick_seq, log>>
-----------------------------------------------------------------------------
(* Consumers.                                                              *)

consumerUnchanged ==
  <<xidVars, queue, tick, event, event_seq, tick_seq, producerVars, ticker, maint, mover, log>>
Active(c) == subscription[c] # NULL /\ subscription[c].next # 0
Last(c) == TickRow(subscription[c].last).snapshot
Cur(c) == TickRow(subscription[c].next).snapshot
HasTicks(c) == HasTick(subscription[c].last) /\ HasTick(subscription[c].next)

\* register_consumer_at: the tick has been found; a new consumer that asks for
\* none starts from the last.
register_consumer_at(c, t) ==
  /\ registering[c] = NULL /\ Use("registers", MaxRegisters)
  /\ registering' = [registering EXCEPT ![c] = t]
  /\ UNCHANGED <<consumerUnchanged, subscription, retry_queue, sub_seq, batch, got, historyVars>>

\* Mutant: the batch is kept.
SubscribedInBatch(c) ==
  IF subscription[c] = NULL THEN [id |-> <<c, sub_seq + 1>>, last |-> registering[c].id, next |-> 0]
                            ELSE [subscription[c] EXCEPT !.last = registering[c].id]

\* The subscription that is made, or moved to the tick without its batch.
Subscribed(c) ==
  [id |-> IF subscription[c] = NULL THEN <<c, sub_seq + 1>> ELSE subscription[c].id,
   last |-> registering[c].id, next |-> 0]

registered(c) ==
  /\ registering[c] # NULL
  /\ sub_seq' = IF subscription[c] = NULL THEN sub_seq + 1 ELSE sub_seq
  /\ subscription' = [subscription EXCEPT ![c] = Subscribed(c)]
  /\ registering' = [registering EXCEPT ![c] = NULL]
  /\ batch' = [batch EXCEPT ![c] = NULL] /\ got' = [got EXCEPT ![c] = NULL]
  /\ start' = [start EXCEPT ![c] = registering[c].snapshot]
  /\ seen' = [seen EXCEPT ![c] = {}] /\ again' = [again EXCEPT ![c] = FALSE]
  /\ UNCHANGED <<consumerUnchanged, retry_queue, asked, used>>

\* unregister_consumer, with the consumer's retry requests; those that are being
\* moved are waited for.
unregister_consumer(c) ==
  /\ subscription[c] # NULL /\ registering[c] = NULL /\ Use("registers", MaxRegisters)
  /\ mover # NULL => \A q \in mover.rows : q.ev_owner # subscription[c].id
  /\ retry_queue' = {q \in retry_queue : q.ev_owner # subscription[c].id}
  /\ subscription' = [subscription EXCEPT ![c] = NULL]
  /\ batch' = [batch EXCEPT ![c] = NULL] /\ got' = [got EXCEPT ![c] = NULL]
  /\ seen' = [seen EXCEPT ![c] = {}] /\ again' = [again EXCEPT ![c] = FALSE]
  /\ UNCHANGED <<consumerUnchanged, sub_seq, registering, start, asked>>

\* next_batch_custom.  The next tick, or, depending on the times of the ticks
\* and what the caller asks for, any later one.
next_batch_custom(c, t) ==
  /\ subscription[c] # NULL /\ ~Active(c) /\ HasTick(subscription[c].last)
  /\ t.id > subscription[c].last
  /\ subscription' = [subscription EXCEPT ![c].next = t.id]
  /\ UNCHANGED <<consumerUnchanged, retry_queue, sub_seq, consumerVars, historyVars, used>>

\* Mutant: no wraparound.
PreviousNoWrap(t) == t - 1

Previous(t) == (t - 1) % NTables

\* batch_event_tables: the tables the events of the batch may be in.
batch_event_tables(last, cur) ==
  IF cur.xmax < queue.switch_step1 THEN {Previous(queue.cur_table)}
  ELSE IF queue.switch_step2 # 0 /\ last.xmin > queue.switch_step2 THEN {queue.cur_table}
  ELSE {Previous(queue.cur_table), queue.cur_table}

\* get_batch_events finds the batch and its tables ...
find_batch(c) ==
  /\ Active(c) /\ HasTicks(c) /\ batch[c] = NULL /\ got[c] = NULL
  /\ batch' = [batch EXCEPT ![c] =
       [last |-> Last(c), cur |-> Cur(c), tables |-> batch_event_tables(Last(c), Cur(c))]]
  /\ UNCHANGED <<consumerUnchanged, subscription, retry_queue, sub_seq, registering, got,
                 historyVars, used>>

\* Transactions open at the last tick and closed at the current one, and those of
\* them that are near enough to its xmax to be searched for as a range.
Older(last, cur) == last.xip \ cur.xip
InRange(last, cur, i) ==
  \A k \in Older(last, cur) : k >= i =>
    \E j \in Older(last, cur) \cup {last.xmax} : j > k /\ j - RangeSlack <= k

\* batch_event_sql: which rows each part of the union selects.
ByRange(last, cur, x) ==
  /\ x >= Lowest({last.xmax} \cup {i \in Older(last, cur) : InRange(last, cur, i)})
  /\ x <= cur.xmax /\ Visible(x, cur) /\ ~Visible(x, last)

\* Mutant: those of the range are listed as well.
InLongList(last, cur, x) == x \in Older(last, cur)

InList(last, cur, x) == x \in Older(last, cur) /\ ~InRange(last, cur, x)

\* Mutant: only what nobody asked for.
NobodysEvent(c, r) == r.ev_owner = NULL

retry_expr(c, r) == r.ev_owner = NULL \/ r.ev_owner = subscription[c].id

\* The rows it returns, each with where it comes from.  The range part joins the
\* two ticks once more.
batch_event_sql(c, b) ==
  LET rows(t) == {r \in event[t] : r.ev_txid \notin Running /\ retry_expr(c, r)}
      range(t) == {r \in rows(t) : HasTicks(c) /\ ByRange(b.last, b.cur, r.ev_txid)}
      list(t) == {r \in rows(t) : InList(b.last, b.cur, r.ev_txid)}
  IN UNION {({<<t, "range">>} \X range(t)) \cup ({<<t, "list">>} \X list(t)) : t \in b.tables}

RowsOf(result) == {x[2] : x \in result}
Twice(result) == \E x, y \in result : x # y /\ x[2] = y[2]

\* ... and runs the query.
get_batch_events(c) ==
  LET result == batch_event_sql(c, batch[c]) IN
  /\ Active(c) /\ batch[c] # NULL /\ \A t \in batch[c].tables : ~Locked(t)
  /\ got' = [got EXCEPT ![c] = RowsOf(result)]
  /\ again' = [again EXCEPT ![c] = @ \/ RowsOf(result) \cap seen[c] # {} \/ Twice(result)]
  /\ batch' = [batch EXCEPT ![c] = NULL]
  /\ UNCHANGED <<consumerUnchanged, subscription, retry_queue, sub_seq, registering, start, seen,
                 asked, used>>

Request(c, id) == [ev_owner |-> subscription[c].id, ev_id |-> id]
Accept(qs) ==
  /\ retry_queue' = retry_queue \cup qs
  /\ asked' = asked \cup {[q EXCEPT !.ev_id = <<@, used.retries>>] : q \in qs \ retry_queue}

EventIds(c) == IF got[c] = NULL THEN {} ELSE {r.ev_id : r \in got[c]}

\* event_retry.  A request that is just being moved away is waited for; if it is
\* there, or the batch has the event twice, the key of retry_queue is violated
\* and nothing is inserted.
event_retry(c, id) ==
  /\ got[c] # NULL /\ Use("retries", MaxRetries)
  /\ mover # NULL => Request(c, id) \notin mover.rows
  /\ Accept(IF Cardinality({r \in got[c] : r.ev_id = id}) > 1 THEN {} ELSE {Request(c, id)})
  /\ UNCHANGED <<consumerUnchanged, subscription, sub_seq, consumerVars, start, seen, again>>

\* batch_retry, for the events it sees no request for.  Two rows with one id are
\* merged, or make it fail.
batch_retry(c) ==
  /\ got[c] # NULL /\ Use("retries", MaxRetries)
  /\ Accept({Request(c, r.ev_id) : r \in got[c]})
  /\ UNCHANGED <<consumerUnchanged, subscription, sub_seq, consumerVars, start, seen, again>>

\* finish_batch, for the events the consumer got and dealt with.
finish_batch(c) ==
  /\ Active(c) /\ got[c] # NULL
  /\ subscription' = [subscription EXCEPT ![c].last = subscription[c].next, ![c].next = 0]
  /\ seen' = [seen EXCEPT ![c] = @ \cup got[c]]
  /\ got' = [got EXCEPT ![c] = NULL]
  /\ UNCHANGED <<consumerUnchanged, retry_queue, sub_seq, registering, batch, start, again,
                 asked, used>>

\* A consumer dies with its batch half done and will get it again.
consumer_dies(c) ==
  /\ Use("crashes", MaxCrashes) /\ (batch[c] # NULL \/ got[c] # NULL)
  /\ batch' = [batch EXCEPT ![c] = NULL] /\ got' = [got EXCEPT ![c] = NULL]
  /\ UNCHANGED <<consumerUnchanged, subscription, retry_queue, sub_seq, registering, historyVars>>
-----------------------------------------------------------------------------
Produce(p) ==
  Begin(p) \/ load_queue_info(p) \/ pgq_insert_event_raw(p) \/ Commit(p) \/ Abort(p)

Pgqd ==
  \/ ticker_inserts \/ ticker_commits
  \/ maint_rotate_tables_step1 \/ maint_rotate_tables_step2 \/ maint_commits
  \/ \E q \in retry_queue : maint_retry_events_loads(q)
  \/ maint_retry_events_moves \/ maint_retry_events_commits \/ pgqd_dies

Consume(c) ==
  \/ \E t \in tick : next_batch_custom(c, t)
  \/ find_batch(c) \/ get_batch_events(c) \/ finish_batch(c)

Next ==
  \/ \E p \in Producer : Produce(p)
  \/ Pgqd
  \/ \E c \in Consumer :
       \/ Consume(c) \/ consumer_dies(c)
       \/ \E t \in tick : register_consumer_at(c, t)
       \/ registered(c) \/ unregister_consumer(c)
       \/ batch_retry(c) \/ \E id \in EventIds(c) : event_retry(c, id)

Spec == Init /\ [][Next]_vars

\* pgqd and the consumers go on; nothing is asked of the producers.
FairSpec ==
  /\ Spec
  /\ WF_vars(Unshown /\ ticker_inserts) /\ WF_vars(ticker_commits) /\ WF_vars(maint_commits)
  /\ \A c \in Consumer : WF_vars(Consume(c))
-----------------------------------------------------------------------------
(* Properties.                                                             *)

\* Every variable has its type.
TypeOK ==
  /\ nextXid \in Nat /\ latestCompletedXid \in Nat
  /\ queue \in [cur_table : Table, switch_step1 : Nat, switch_step2 : Nat]
  /\ tick \subseteq TickType
  /\ subscription \in [Consumer -> {NULL} \cup SubscriptionType]
  /\ retry_queue \subseteq RequestType
  /\ event \in [Table -> SUBSET RowType]
  /\ event_seq \in Nat /\ tick_seq \in Nat /\ sub_seq \in Nat
  /\ xact \in [Producer -> [state : {"idle", "open", "loaded"}, xid : Nat, table : Table, calls : Nat]]
  /\ entry \in [Producer -> [cur_table : {NULL} \cup Table, last_xid : Nat, last_count : Nat]]
  /\ ticker \in {NULL} \cup TickerType
  /\ maint \in {NULL} \cup MaintType
  /\ mover \in {NULL} \cup MoverType
  /\ registering \in [Consumer -> {NULL} \cup TickType]
  /\ batch \in [Consumer -> {NULL} \cup [last : SnapshotType, cur : SnapshotType, tables : SUBSET Table]]
  /\ got \in [Consumer -> {NULL} \cup SUBSET RowType]

\* What a consumer is due between two snapshots.
IsFor(c, r) == r.ev_owner \in {NULL, subscription[c].id}
Due(c, from, to) ==
  {r \in log : IsFor(c, r) /\ Visible(r.ev_txid, to) /\ ~Visible(r.ev_txid, from)}

\* From its registration on a consumer sees every event, and once: its batches,
\* however they were cut and wherever the events were stored, cover just what was
\* committed between the tick it started from and the one it has reached.
Delivered ==
  \A c \in Consumer : subscription[c] # NULL /\ HasTick(subscription[c].last) =>
    seen[c] = Due(c, start[c], Last(c)) /\ ~again[c]

\* The tables found for a batch stay the right ones until they have been read.
TablesRight ==
  \A c \in Consumer : batch[c] # NULL /\ HasTicks(c) =>
    RowsOf(batch_event_sql(c, batch[c])) = Due(c, Last(c), Cur(c))

\* A retry request is either still in retry_queue or has become one new event:
\* none is dropped and none is moved twice, whatever job dies.
RetriesConserved ==
  \A c \in Consumer : subscription[c] # NULL =>
    LET me == subscription[c].id IN
    \A i \in {a.ev_id[1] : a \in asked} :
      Cardinality({a \in asked : a.ev_owner = me /\ a.ev_id[1] = i})
        = Cardinality({r \in log : r.ev_owner = me /\ r.ev_id = i})
          + (IF [ev_owner |-> me, ev_id |-> i] \in retry_queue THEN 1 ELSE 0)

\* Every committed event reaches every consumer that stays registered.
EveryEventDelivered ==
  \A c \in Consumer : []<>(subscription[c] = NULL \/
    \A r \in log : IsFor(c, r) /\ ~Visible(r.ev_txid, start[c]) => r \in seen[c])

\* The sanity check of next_batch_custom: a consumer sees the tick it is on; a
\* rotation never deletes it.
SeesItsTick ==
  \A c \in Consumer : subscription[c] # NULL => HasTick(subscription[c].last)
=============================================================================

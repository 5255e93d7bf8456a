--------------------------- MODULE MatchingEngine ---------------------------
(***************************************************************************)
(* The matching engine's loop and the snapshot worker, with the Redis      *)
(* streams between them.  The engine reads one message at a time from      *)
(* "orders", changes its books in memory, publishes to "fills", "cancels"  *)
(* and "book-updates" with one await each, and acknowledges; the snapshot  *)
(* worker stores the published books, and a restarted engine begins from   *)
(* what is stored.                                                         *)
(*                                                                         *)
(* Every await may fail: the command is lost, or it is carried out and the *)
(* answer is lost.  The engine's catch then drops the message it was       *)
(* handling and reads the next one.  Either process may be restarted at    *)
(* any await.  A process that is down for a while is one that takes no     *)
(* step, so crash and restart are one action.                              *)
(***************************************************************************)
EXTENDS OrderBook

CONSTANTS
  Orders,       \* the order rows the backend has committed
  Markets,
  MaxPublish,   \* bound: times one order's order.created is published
  MaxCancels,   \* bound: cancel requests for one order
  MaxMessages,  \* bound: messages on "orders"
  MaxBacklog,   \* bound: messages on "orders" not delivered yet
  MaxFailures,  \* bound: failing awaits
  MaxCrashes,   \* bound: restarts of the engine and of the snapshot worker
  BatchSize     \* COUNT of the snapshot worker's read (10 in the source)

\* What POST /api/order lets through: an id of its own, a positive quantity and,
\* for a limit order, a positive price.
ASSUME OrdersAssumption ==
  /\ \A x, y \in Orders : x.orderId = y.orderId => x = y
  /\ \A o \in Orders :
       /\ o \in [orderId : {o.orderId}, userId : {o.userId}, marketId : Markets, side : Sides,
                 orderType : {"LIMIT", "MARKET"}, price : Nat, qty : Nat \ {0}]
       /\ o.orderType = "LIMIT" <=> o.price # 0
ASSUME BoundsAssumption ==
  /\ {MaxPublish, MaxCancels, MaxMessages, MaxFailures, MaxCrashes} \subseteq Nat
  /\ {MaxBacklog, BatchSize} \subseteq Nat \ {0}

VARIABLES
  orders,         \* stream "orders": messages in the order Redis added them
  delivered,      \* how many of them Redis has delivered to engine-group
  pending,        \* the delivered ones not acknowledged
  phase,          \* where the engine is between two awaits
  books, processed,                           \* its memory
  job,                                        \* locals of the message being handled
  fills, cancels, updates,                    \* the streams it publishes to
  read, batch, stopped, snapshots,   \* snapshot worker: updates delivered, batch in hand,
                            \* whether its loop has ended; the stored books
  failures, crashes,        \* used-up bounds
  placed,                   \* history: the orders matched, in order
  intact,                   \* history: no fault has broken atomicity so far
  missed                    \* history: markets whose last book a fault kept from storage

engineVars   == <<phase, books, processed, job>>
snapshotVars == <<read, batch, stopped, snapshots>>
vars == <<orders, delivered, pending, engineVars, fills, cancels, updates, snapshotVars,
          failures, crashes, placed, intact, missed>>

Phases   == {"read", "handle", "fills", "cancel", "rest", "update", "ack"}
Outcomes == {"ok", "lost", "unanswered"}   \* of one awaited Redis command

Message(type, order) == [type |-> type, order |-> order]
\* What match() returned, how many of its fills are published, and the
\* quantity whose cancel is still to be published.
NoJob == [fills |-> <<>>, sent |-> 0, remainingQty |-> 0, released |-> 0]

Current     == orders[delivered]           \* COUNT 1: the last one delivered
Count(msg)  == Cardinality({i \in DOMAIN orders : orders[i] = msg})
PlacedIds   == {o.orderId : o \in ToSet(placed)}
LastUpdate(market) ==      \* index of the newest book published for a market, 0 if none
  SelectLastInSeq(updates, LAMBDA u : u.marketId = market)

-----------------------------------------------------------------------------
(* Awaited commands. *)

\* XADD with some outcome.
XAdd(stream, msg, outcome) == IF outcome = "lost" THEN stream ELSE Append(stream, msg)

Faults(outcome) ==
  /\ outcome # "ok" => failures < MaxFailures
  /\ failures' = IF outcome = "ok" THEN failures ELSE failures + 1

\* Faulty: the catch block goes back to the message instead of dropping it.
Proceed_Again(outcome, next) == phase' = IF outcome = "ok" THEN next ELSE "handle"

\* The next phase, or the catch block: log and read on.
Proceed(outcome, next) == phase' = IF outcome = "ok" THEN next ELSE "read"

-----------------------------------------------------------------------------
Init ==
  /\ orders = <<>> /\ delivered = 0 /\ pending = {}
  /\ phase = "read" /\ books = [m \in Markets |-> EmptyBook] /\ processed = {}
  /\ job = NoJob
  /\ fills = <<>> /\ cancels = <<>> /\ updates = <<>>
  /\ read = 0 /\ batch = <<>> /\ stopped = FALSE /\ snapshots = [m \in Markets |-> EmptyBook]
  /\ failures = 0 /\ crashes = 0
  /\ placed = <<>> /\ intact = TRUE /\ missed = {}

(* The backend: publishes an order, again when it is not sure the first    *)
(* time got through, and passes on cancel requests, at any time.           *)

Room == Len(orders) < MaxMessages /\ Len(orders) - delivered < MaxBacklog

PublishOrder(order) ==
  /\ Room
  /\ Count(Message("order.created", order)) < MaxPublish
  /\ orders' = Append(orders, Message("order.created", order))
  /\ UNCHANGED <<delivered, pending, engineVars, fills, cancels, updates, snapshotVars,
                 failures, crashes, placed, intact, missed>>

PublishCancel(order) ==
  /\ Room
  /\ Count(Message("order.cancel", order)) < MaxCancels
  /\ orders' = Append(orders, Message("order.cancel", order))
  /\ UNCHANGED <<delivered, pending, engineVars, fills, cancels, updates, snapshotVars,
                 failures, crashes, placed, intact, missed>>

-----------------------------------------------------------------------------
(* The engine. *)

\* xReadGroup with id ">": the next message never delivered before.
Read(outcome) ==
  /\ phase = "read" /\ delivered < Len(orders)
  /\ outcome # "lost"     \* a read that did not happen changes nothing
  /\ Faults(outcome)
  /\ delivered' = delivered + 1
  /\ pending' = pending \cup {delivered + 1}
  /\ Proceed(outcome, "handle")
  /\ UNCHANGED <<orders, books, processed, job,
                 fills, cancels, updates, snapshotVars, crashes, placed, intact, missed>>

\* Faulty: an order that is not in the book is waited for.
AfterRemoval_Wait(removed) == IF removed = {} THEN "handle" ELSE "cancel"

\* The cancel of an order that is not in the book is only acknowledged.
AfterRemoval(removed) == IF removed = {} THEN "ack" ELSE "cancel"

HandleCancel ==
  LET o       == Current.order
      removed == RemovedOrders(books[o.marketId], o.side, o.price, o.orderId)
  IN
  /\ phase = "handle" /\ Current.type = "order.cancel"
  /\ books' = [books EXCEPT ![o.marketId] = RemoveOrder(@, o.side, o.price, o.orderId)]
  /\ job' = [NoJob EXCEPT !.released = SumSet({Fillable(r) : r \in removed})]
  /\ phase' = AfterRemoval(removed)
  /\ UNCHANGED <<orders, delivered, pending, processed, fills,
                 cancels, updates, snapshotVars, failures, crashes, placed, intact, missed>>

IsDuplicate_Never(order) == FALSE     \* faulty: nothing is remembered

IsDuplicate(order) == order.orderId \in processed

SkipDuplicate ==
  /\ phase = "handle" /\ Current.type = "order.created"
  /\ IsDuplicate(Current.order)
  /\ phase' = "ack"
  /\ UNCHANGED <<orders, delivered, pending, books, processed, job, fills,
                 cancels, updates, snapshotVars, failures, crashes, placed, intact, missed>>

\* Where a matched order goes when `sent` of its fills are published.
AfterFills(j) == IF j.sent < Len(j.fills) THEN "fills"
                 ELSE IF j.released > 0 THEN "cancel" ELSE "rest"

\* match() changes the book before anything is published.
HandleOrder ==
  LET o == Current.order
      m == Match(books[o.marketId], o)
  IN
  /\ phase = "handle" /\ Current.type = "order.created"
  /\ ~IsDuplicate(o)
  /\ books' = [books EXCEPT ![o.marketId] = m.book]
  /\ job' = [fills |-> m.fills, sent |-> 0, remainingQty |-> m.remainingQty,
             released |-> IF o.orderType = "MARKET" THEN m.remainingQty ELSE 0]
  /\ phase' = AfterFills(job')
  /\ placed' = Append(placed, o)
  /\ intact' = (intact /\ ~(o.orderId \in PlacedIds /\ crashes > 0))
  /\ UNCHANGED <<orders, delivered, pending, processed, fills, cancels, updates,
                 snapshotVars, failures, crashes, missed>>

\* One XADD to "fills"; after the last one, on to the remainder.
PublishFill(outcome) ==
  /\ phase = "fills"
  /\ Faults(outcome)
  /\ fills' = XAdd(fills, job.fills[job.sent + 1], outcome)
  /\ job' = IF outcome = "ok" THEN [job EXCEPT !.sent = @ + 1] ELSE NoJob
  /\ Proceed(outcome, AfterFills(job'))
  /\ intact' = (intact /\ outcome = "ok")
  /\ missed' = IF outcome = "ok" THEN missed ELSE missed \cup {Current.order.marketId}
  /\ UNCHANGED <<orders, delivered, pending, books, processed, cancels,
                 updates, snapshotVars, crashes, placed>>

\* Faulty: the book is not published after a cancel.
AfterCancelled_NoUpdate(type) == IF type = "order.cancel" THEN "ack" ELSE "rest"

AfterCancelled(type) == IF type = "order.cancel" THEN "update" ELSE "rest"

\* The XADD to "cancels", of a cancel request or of a market order's remainder.
PublishCancelled(outcome) ==
  /\ phase = "cancel"
  /\ Faults(outcome)
  /\ cancels' = XAdd(cancels, [orderId |-> Current.order.orderId,
                               unfilledQty |-> job.released], outcome)
  /\ job' = IF outcome = "ok" THEN [job EXCEPT !.released = 0] ELSE NoJob
  /\ Proceed(outcome, AfterCancelled(Current.type))
  /\ intact' = (intact /\ outcome = "ok")
  /\ missed' = IF outcome = "ok" THEN missed ELSE missed \cup {Current.order.marketId}
  /\ UNCHANGED <<orders, delivered, pending, books, processed, fills, updates,
                 snapshotVars, crashes, placed>>

\* The leftover rests, the last price is set, the order counts as processed.
Rest ==
  LET o == Current.order IN
  /\ phase = "rest"
  /\ books' = [books EXCEPT ![o.marketId] =
                 SetLastTrade(RestLeftover(@, o, job.remainingQty), job.fills)]
  /\ processed' = processed \cup {o.orderId}
  /\ job' = NoJob
  /\ phase' = "update"
  /\ UNCHANGED <<orders, delivered, pending, fills, cancels,
                 updates, snapshotVars, failures, crashes, placed, intact, missed>>

\* XADD of the whole book of the market to "book-updates".
PublishBook(outcome) ==
  LET market == Current.order.marketId IN
  /\ phase = "update"
  /\ Faults(outcome)
  /\ updates' = XAdd(updates, [marketId |-> market, book |-> books[market]], outcome)
  /\ Proceed(outcome, "ack")
  /\ missed' = IF outcome = "lost" THEN missed \cup {market} ELSE missed \ {market}
  /\ UNCHANGED <<orders, delivered, pending, books, processed, job, fills, cancels,
                 snapshotVars, crashes, placed, intact>>

Ack(outcome) ==
  /\ phase = "ack"
  /\ Faults(outcome)
  /\ pending' = IF outcome = "lost" THEN pending ELSE pending \ {delivered}
  /\ phase' = "read"
  /\ UNCHANGED <<orders, delivered, books, processed, job, fills, cancels,
                 updates, snapshotVars, crashes, placed, intact, missed>>

\* The process dies and a new one starts: its memory is the stored books, and
\* what was being handled is forgotten.
RestartEngine ==
  /\ crashes < MaxCrashes
  /\ crashes' = crashes + 1
  /\ phase' = "read"
  /\ books' = snapshots
  /\ processed' = {}
  /\ job' = NoJob
  /\ intact' = (intact /\ phase \in {"read", "handle", "update", "ack"} /\ snapshots = books)
  /\ missed' = {m \in Markets :
                  LET last == LastUpdate(m)
                  IN  snapshots[m] # IF last = 0 THEN EmptyBook ELSE updates[last].book}
  /\ UNCHANGED <<orders, delivered, pending, fills, cancels, updates, snapshotVars,
                 failures, placed>>

-----------------------------------------------------------------------------
(* The snapshot worker. *)

\* xReadGroup with COUNT: as many as are there, up to BatchSize.
SnapshotRead ==
  LET upto == Min({read + BatchSize, Len(updates)}) IN
  /\ ~stopped /\ batch = <<>> /\ read < Len(updates)
  /\ batch' = SubSeq(updates, read + 1, upto)
  /\ read' = upto
  /\ UNCHANGED <<orders, delivered, pending, engineVars, fills, cancels, updates, stopped,
                 snapshots, failures, crashes, placed, intact, missed>>

\* SET of one book.  Its xAck frees nothing anybody reads again.
SnapshotStore ==
  /\ ~stopped /\ batch # <<>>
  /\ snapshots' = [snapshots EXCEPT ![Head(batch).marketId] = Head(batch).book]
  /\ batch' = Tail(batch)
  /\ UNCHANGED <<orders, delivered, pending, engineVars, fills, cancels, updates, read,
                 stopped, failures, crashes, placed, intact, missed>>

\* Nothing catches a failing command here: the loop is over, while the process
\* may live on with the other loops (worker.ts).  A SET carried out before that
\* is SnapshotStore.
SnapshotFail ==
  /\ ~stopped /\ failures < MaxFailures
  /\ failures' = failures + 1
  /\ stopped' = TRUE
  /\ UNCHANGED <<orders, delivered, pending, engineVars, fills, cancels, updates, read, batch,
                 snapshots, crashes, placed, intact, missed>>

\* Delivered updates are not read again, so a restart drops the batch in hand.
RestartSnapshot ==
  /\ crashes < MaxCrashes /\ (stopped \/ batch # <<>>)
  /\ crashes' = crashes + 1
  /\ batch' = <<>> /\ stopped' = FALSE
  /\ missed' = missed \cup {m \in Markets :
                              LastUpdate(m) \in read - Len(batch) + 1 .. read}
  /\ UNCHANGED <<orders, delivered, pending, engineVars, fills, cancels, updates, read,
                 snapshots, failures, placed, intact>>

-----------------------------------------------------------------------------
Backend == \E o \in Orders : PublishOrder(o) \/ PublishCancel(o)

\* Every step of the engine but the one that matches.
Awaits ==
  \/ HandleCancel \/ SkipDuplicate \/ Rest
  \/ \E outcome \in Outcomes :
       Read(outcome) \/ PublishFill(outcome) \/ PublishCancelled(outcome)
         \/ PublishBook(outcome) \/ Ack(outcome)

Snapshot == SnapshotRead \/ SnapshotStore

Next ==
  \/ Backend \/ Awaits \/ HandleOrder \/ Snapshot
  \/ SnapshotFail \/ RestartEngine \/ RestartSnapshot

Spec == Init /\ [][Next]_vars

\* The engine and the worker are infinite loops that Redis wakes up: weak
\* fairness of their steps.  For HandleOrder it is written out, with the
\* condition that enables it, because TLC would redo the match to find it.
OrderReady ==
  phase = "handle" /\ Current.type = "order.created" /\ ~IsDuplicate(Current.order)
FairSpec ==
  /\ Spec
  /\ WF_vars(Awaits) /\ WF_vars(Snapshot)
  /\ (<>[]OrderReady => []<><<HandleOrder>>_vars)

-----------------------------------------------------------------------------
LevelType(level) ==
  /\ level.availableQty \in Nat
  /\ \A o \in ToSet(level.openOrders) : o.qty \in Nat /\ o.filledQty \in 0..o.qty

BookType(book) ==
  \A l \in Ladders : \A p \in DOMAIN book[l] : p \in Nat \ {0} /\ LevelType(book[l][p])

\* The engine's memory and the streams hold what the source's types say, and
\* an answer can only be owed for a message Redis has delivered.
TypeOK ==
  /\ phase \in Phases
  /\ delivered \in 0..Len(orders) /\ pending \subseteq 1..delivered
  /\ \A m \in Markets : BookType(books[m]) /\ BookType(snapshots[m])
  /\ job.sent \in 0..Len(job.fills) /\ job.remainingQty \in Nat /\ job.released \in Nat
  /\ read \in 0..Len(updates) /\ Len(batch) <= BatchSize /\ stopped \in BOOLEAN
  /\ ToSet(placed) \subseteq Orders /\ missed \subseteq Markets

\* Whatever faults happen, at whatever await, the books in memory and in
\* storage are well formed: levels add up, nothing spent or empty stays, and
\* no two users' resting orders cross.
BooksSound ==
  \A b \in {books[m] : m \in Markets} \cup {snapshots[m] : m \in Markets} :
    LevelsConsistent(b) /\ Uncrossed(b)

\* When the engine waits for a message and the worker has nothing to do, the
\* stored book of a market is the engine's own, cancels included, unless a
\* fault kept its last update from being stored (index.ts: the publication
\* after a cancel, "a restart restores it into the book where it can fill").
SnapshotCatchesUp ==
  phase = "read" /\ batch = <<>> /\ read = Len(updates) =>
    \A m \in Markets \ missed : snapshots[m] = books[m]

\* What `id` traded and had cancelled, as published.
UsedQty(id) == TradedQty(fills, id) + CancelledQty(cancels, id)

\* What is published of an order, trades and cancels, is within its quantity.
NoOverfill == \A o \in Orders : UsedQty(o.orderId) <= o.qty

\* README.md:21, "the order book is snapshotted to Redis after every match and
\* restored by the matching engine on restart", so that "a crashed service
\* resumes exactly where it left off": no order trades more than its quantity.
\* The code does not keep it: the stored book can be older than fills already
\* published, and a maker that was filled is back in it, whole, and is filled
\* again by the next taker.
NoDoubleFill == \A o \in Orders : TradedQty(fills, o.orderId) <= o.qty

\* A failing await can only lose fills and cancels: without a restart, and
\* without an order published twice, no order is ever used beyond its quantity,
\* although match() and removeOrder() change the book before the command that
\* fails and the message is dropped half way.
FailuresNeverOverfill ==
  crashes = 0 /\ (\A o \in Orders : Count(Message("order.created", o)) <= 1) => NoOverfill

-----------------------------------------------------------------------------
(* The loop implements Matching.  An order counts as handled from match()  *)
(* on: its unsent fills and cancel are trades and cancels already, and the *)
(* leftover that is about to rest rests.                                   *)

Matched == \/ phase \in {"fills", "rest"}
           \/ phase = "cancel" /\ Current.type = "order.created"

MatchedBooks ==
  IF Matched
  THEN [books EXCEPT ![Current.order.marketId] =
          SetLastTrade(RestLeftover(@, Current.order, job.remainingQty), job.fills)]
  ELSE books

Abstract == INSTANCE Matching WITH
  OrderIds <- {o.orderId : o \in Orders}, Users <- {o.userId : o \in Orders},
  Prices <- {o.price : o \in Orders} \ {0}, Quantities <- {o.qty : o \in Orders},
  books <- MatchedBooks, placed <- placed,
  trades <- fills \o SubSeq(job.fills, job.sent + 1, Len(job.fills)),
  cancels <- IF job.released > 0
             THEN Append(cancels, [orderId |-> Current.order.orderId, unfilledQty |-> job.released])
             ELSE cancels

\* As long as no fault hit between match() and the last publication, no
\* restart found the stored books behind, and no order was matched again, the
\* loop with all its awaits, duplicates and harmless faults is Matching: each
\* order matched once, in one step, in the order of the stream.
AtomicWhileIntact ==
  Abstract!Init /\ [][intact' => [Abstract!Next]_(Abstract!vars)]_vars

\* Whatever fails, and whatever the messages are, the engine comes to the end of
\* its stream (index.ts: the catch that logs and reads on), and the snapshot
\* worker to the end of its own unless a failed command has ended its loop.
Drains ==
  <>[]( /\ phase = "read" /\ delivered = Len(orders)
        /\ stopped \/ (batch = <<>> /\ read = Len(updates)) )
=============================================================================

------------------------------ MODULE Settlement ------------------------------
(***************************************************************************)
(* Postgres behind the exchange: orders, balances, positions and Fill rows,*)
(* the backend transaction that places an order, and the two loops of the  *)
(* db-worker that settle fills and cancels.  The engine is reduced to what *)
(* it may publish: trades between an arriving order and a resting one, and *)
(* cancels.  Each database transaction is one step, except POST /api/order *)
(* whose read of the position is not locked and may be stale when it locks *)
(* the margin.                                                             *)
(*                                                                         *)
(* Redis remembers, for the consumer group, what it has delivered and what *)
(* of it was not acknowledged.  The fills loop reads its own unacknowledged*)
(* messages when it starts and claims idle ones after each new batch; the  *)
(* cancels loop only ever reads new messages.  A read that fails ends      *)
(* either loop.                                                            *)
(***************************************************************************)
EXTENDS Positions, Sequences

CONSTANTS
  Users, Markets,
  OrderIds,      \* a set of positive naturals
  Requests,      \* the order a user may place under each id
  Deposit,       \* the collateral every user has on-ramped
  MaxQty,        \* bound: quantity of an order
  FillsBatch, CancelsBatch,   \* COUNT of the two reads (10 in the source)
  MaxAborts,     \* bound: calls of the db-worker that fail
  MaxCrashes     \* bound: restarts of the worker

Request == [userId : Users, marketId : Markets, side : {"BUY", "SELL"},
            orderType : {"LIMIT", "MARKET"}, price : Nat \ {0}, qty : 1..MaxQty,
            leverage : Nat \ {0}]

ASSUME RequestsAssumption == Requests \in [OrderIds -> Request]
ASSUME BoundsAssumption ==
  /\ OrderIds \subseteq Nat \ {0} /\ Deposit \in Nat /\ MaxQty \in Nat
  /\ FillsBatch \in Nat \ {0} /\ CancelsBatch \in Nat \ {0}
  /\ MaxAborts \in Nat /\ MaxCrashes \in Nat

VARIABLES
  orders,              \* rows: what of an order changes; status "NONE" is no row
  position,            \* by account
  available, locked,   \* balance, by user
  fillRows,            \* ids of the Fill rows
  placing,             \* the POST /api/order between its read and its lock
  live,                \* what the engine still has of an order
  resting,             \* the orders the engine has in its book
  fills, cancels,      \* the streams; an id is an index
  fillsRead, fillsPending, work, source, phase,   \* fills loop
  cancelsRead, cancelsInHand, cancelsStopped,       \* cancels loop
  aborts, crashes,     \* used-up bounds
  cancelledQty,        \* history: quantity whose cancel is settled, by order
  crossed,             \* history: users whose reserving order closed a position
  lostCancels          \* history: cancels whose read, transaction or worker was lost

database  == <<orders, position, available, locked, fillRows>>
engine    == <<live, resting, fills, cancels>>
fillsLoop == <<fillsRead, fillsPending, work, source, phase>>
cancelsLoop == <<cancelsRead, cancelsInHand, cancelsStopped>>
history   == <<cancelledQty, crossed, lostCancels>>
vars == <<database, placing, engine, fillsLoop, cancelsLoop, aborts, crashes, history>>

Accounts == Users \X Markets
AccountOf(id)   == <<Requests[id].userId, Requests[id].marketId>>
Dir(id)         == DirectionOf(Requests[id].side)
Statuses        == {"NONE", "OPEN", "PARTIALLY_FILLED", "FILLED", "CANCELLED"}
NotPlacing      == [orderId |-> 0, margin |-> 0]
Outcomes        == {"ok", "aborted", "unanswered"}
\* Where the fills in hand come from, and what is done with the first of them:
\* settle it, acknowledge it, or acknowledge it because it was settled before.
\* "stopped" is a loop that an error nobody catches has ended.
Sources         == {"recovery", "new", "claimed"}
Phases          == {"settle", "ack", "reack", "stopped"}

\* A batch is the set of its ids; Redis hands it over in ascending order.
IsNext(i, batch) == i \in batch /\ \A j \in batch : i <= j

-----------------------------------------------------------------------------
Init ==
  /\ orders = [o \in OrderIds |-> [status |-> "NONE", initialMargin |-> 0, filledQty |-> 0]]
  /\ position = [a \in Accounts |-> NoPosition]
  /\ available = [u \in Users |-> Deposit] /\ locked = [u \in Users |-> 0]
  /\ fillRows = {}
  /\ placing = NotPlacing
  /\ live = [o \in OrderIds |-> 0] /\ resting = {}
  /\ fills = <<>> /\ cancels = <<>>
  /\ fillsRead = 0 /\ fillsPending = {} /\ work = {} /\ source = "recovery"
  /\ phase = "settle"
  /\ cancelsRead = 0 /\ cancelsInHand = {} /\ cancelsStopped = FALSE
  /\ aborts = 0 /\ crashes = 0
  /\ cancelledQty = [o \in OrderIds |-> 0] /\ crossed = {}
  /\ lostCancels = {}

-----------------------------------------------------------------------------
(* POST /api/order. *)

\* The read of the position, and the margin computed from it.
PlaceRead(id) ==
  LET r == Requests[id] IN
  /\ placing = NotPlacing /\ orders[id].status = "NONE"
  /\ placing' = [orderId |-> id,
                 margin |-> RequiredMargin(position[AccountOf(id)], Dir(id), r.qty, r.price,
                                           r.leverage)]
  /\ UNCHANGED <<database, engine, fillsLoop, cancelsLoop, aborts, crashes, history>>

\* The conditional lock, the row, and the publication to the engine.
PlaceCommit ==
  LET id == placing.orderId
      u  == Requests[id].userId
  IN
  /\ placing # NotPlacing
  /\ available[u] >= placing.margin
  /\ available' = [available EXCEPT ![u] = @ - placing.margin]
  /\ locked' = [locked EXCEPT ![u] = @ + placing.margin]
  /\ orders' = [orders EXCEPT ![id] =
                  [status |-> "OPEN", initialMargin |-> placing.margin, filledQty |-> 0]]
  /\ live' = [live EXCEPT ![id] = Requests[id].qty]
  /\ placing' = NotPlacing
  /\ UNCHANGED <<position, fillRows, resting, fills, cancels, fillsLoop, cancelsLoop,
                 aborts, crashes, history>>

\* NOT_ENOUGH_BALANCE, or the transaction fails.
PlaceFail ==
  /\ placing # NotPlacing
  /\ placing' = NotPlacing
  /\ UNCHANGED <<database, engine, fillsLoop, cancelsLoop, aborts, crashes, history>>

-----------------------------------------------------------------------------
(* The engine, as far as settlement sees it. *)

Accepts(taker, price) ==
  \/ Requests[taker].orderType = "MARKET"
  \/ Requests[taker].side = "BUY"  /\ price <= Requests[taker].price
  \/ Requests[taker].side = "SELL" /\ price >= Requests[taker].price

Trade(taker, maker) ==
  LET qty   == IF live[taker] < live[maker] THEN live[taker] ELSE live[maker]
      price == Requests[maker].price
  IN
  /\ maker \in resting /\ taker \notin resting /\ qty > 0
  /\ Requests[maker].marketId = Requests[taker].marketId
  /\ Requests[maker].userId # Requests[taker].userId
  /\ Requests[maker].side # Requests[taker].side
  /\ Accepts(taker, price)
  /\ fills' = Append(fills, [takerOrderId |-> taker, makerOrderId |-> maker,
                             qty |-> qty, price |-> price])
  /\ live' = [live EXCEPT ![taker] = @ - qty, ![maker] = @ - qty]
  /\ UNCHANGED <<database, placing, resting, cancels, fillsLoop, cancelsLoop, aborts,
                 crashes, history>>

Cancelled(id) ==
  /\ cancels' = Append(cancels, [orderId |-> id, unfilledQty |-> live[id]])
  /\ live' = [live EXCEPT ![id] = 0]

\* The leftover of a limit order rests; that of a market order is cancelled.
EndOfMatch(taker) ==
  /\ taker \notin resting /\ live[taker] > 0
  /\ IF Requests[taker].orderType = "LIMIT"
     THEN resting' = resting \cup {taker} /\ UNCHANGED <<cancels, live>>
     ELSE Cancelled(taker) /\ UNCHANGED resting
  /\ UNCHANGED <<database, placing, fills, fillsLoop, cancelsLoop, aborts, crashes, history>>

EngineCancel(id) ==
  /\ id \in resting /\ live[id] > 0
  /\ Cancelled(id)
  /\ UNCHANGED <<database, placing, resting, fills, fillsLoop, cancelsLoop, aborts, crashes,
                 history>>

-----------------------------------------------------------------------------
(* settleFill: one transaction. *)

Fails(outcome) ==
  /\ outcome # "ok" => aborts < MaxAborts
  /\ aborts' = IF outcome = "ok" THEN aborts ELSE aborts + 1

StatusAfter(filledQty, qty) == IF filledQty >= qty THEN "FILLED" ELSE "PARTIALLY_FILLED"

\* The order's row after the fill.
FilledRow(id, qty) ==
  LET filled == orders[id].filledQty + qty
  IN  [status |-> StatusAfter(filled, Requests[id].qty),
       initialMargin |-> orders[id].initialMargin, filledQty |-> filled]

\* The account of an order's user after the fill.
AccountAfter(id, fill) ==
  LET a == AccountOf(id)
  IN ApplyPositionUpdate(
       [position |-> position[a], available |-> available[a[1]], locked |-> locked[a[1]]],
       [direction |-> Dir(id), qty |-> fill.qty, price |-> fill.price,
        leverage |-> Requests[id].leverage, reservation |-> orders[id].initialMargin,
        orderQty |-> Requests[id].qty])

\* An order that reserved margin meets a position it closes.
Crosses(id) ==
  LET pos == position[AccountOf(id)]
  IN  orders[id].initialMargin > 0 /\ pos.qty > 0 /\ pos.side # Dir(id)

Apply(i) ==
  LET f     == fills[i]
      t     == f.takerOrderId
      m     == f.makerOrderId
      taker == AccountAfter(t, f)
      maker == AccountAfter(m, f)
      ut    == Requests[t].userId
      um    == Requests[m].userId
  IN
  /\ fillRows' = fillRows \cup {i}
  /\ orders' = [orders EXCEPT ![t] = FilledRow(t, f.qty), ![m] = FilledRow(m, f.qty)]
  /\ position' = [position EXCEPT ![AccountOf(t)] = taker.position,
                                  ![AccountOf(m)] = maker.position]
  /\ available' = [available EXCEPT ![ut] = taker.available, ![um] = maker.available]
  /\ locked' = [locked EXCEPT ![ut] = taker.locked, ![um] = maker.locked]
  /\ crossed' = crossed \cup {Requests[o].userId : o \in {x \in {t, m} : Crosses(x)}}

-----------------------------------------------------------------------------
(* consumeFills. *)

Upto(delivered, stream, count) ==
  IF delivered + count < Len(stream) THEN delivered + count ELSE Len(stream)

\* Nothing catches a read or a claim that fails.
AfterRead(outcome) == IF outcome = "ok" THEN "settle" ELSE "stopped"

ReadFills(outcome) ==
  LET upto  == Upto(fillsRead, fills, FillsBatch)
      batch == fillsRead + 1 .. upto
  IN
  /\ phase = "settle" /\ work = {} /\ source # "new" /\ fillsRead < Len(fills)
  /\ Fails(outcome)
  /\ IF outcome = "aborted" THEN UNCHANGED <<fillsRead, fillsPending>>
     ELSE fillsRead' = upto /\ fillsPending' = fillsPending \cup batch
  /\ IF outcome = "ok" THEN work' = batch /\ source' = "new" ELSE UNCHANGED <<work, source>>
  /\ phase' = AfterRead(outcome)
  /\ UNCHANGED <<database, placing, engine, cancelsLoop, crashes, history>>

\* After a new batch, xAutoClaim takes over whatever has been pending for a
\* minute.
ClaimIdle(outcome) ==
  /\ phase = "settle" /\ work = {} /\ source = "new"
  /\ Fails(outcome)
  /\ IF outcome = "ok" THEN work' \in SUBSET fillsPending ELSE UNCHANGED work
  /\ source' = "claimed"
  /\ phase' = AfterRead(outcome)
  /\ UNCHANGED <<database, placing, engine, fillsRead, fillsPending, cancelsLoop, crashes,
                 history>>

HasRow_Never(i) == FALSE     \* faulty: no unique key on the stream id

\* Creating the Fill row fails with P2002.
HasRow(i) == i \in fillRows

\* Settle the fill in hand; one that does not commit, or seems not to, is left
\* pending.
SettleFill(i, outcome) ==
  /\ phase = "settle" /\ IsNext(i, work) /\ ~HasRow(i)
  /\ Fails(outcome)
  /\ IF outcome = "aborted" THEN UNCHANGED <<database, crossed>> ELSE Apply(i)
  /\ IF outcome = "ok" THEN phase' = "ack" /\ UNCHANGED work
                       ELSE work' = work \ {i} /\ UNCHANGED phase
  /\ UNCHANGED <<placing, engine, fillsRead, fillsPending, source, cancelsLoop, crashes,
                 cancelledQty, lostCancels>>

AlreadySettled(i) ==
  /\ phase = "settle" /\ IsNext(i, work) /\ HasRow(i)
  /\ phase' = "reack"
  /\ UNCHANGED <<database, placing, engine, fillsRead, fillsPending, work, source,
                 cancelsLoop, aborts, crashes, history>>

\* Nothing catches the acknowledgement made in the catch block: when that one
\* fails the loop is over, with what it has in hand.
AckFill(i, outcome) ==
  LET ends == phase = "reack" /\ outcome # "ok" IN
  /\ phase \in {"ack", "reack"} /\ IsNext(i, work)
  /\ Fails(outcome)
  /\ fillsPending' = IF outcome = "aborted" THEN fillsPending ELSE fillsPending \ {i}
  /\ IF ends THEN phase' = "stopped" /\ UNCHANGED work
             ELSE phase' = "settle" /\ work' = work \ {i}
  /\ UNCHANGED <<database, placing, engine, fillsRead, source, cancelsLoop, crashes, history>>

-----------------------------------------------------------------------------
(* consumeCancels. *)

\* Nothing catches the read: when it fails the loop is over, and a batch that
\* was delivered all the same is pending for good.
ReadCancels(outcome) ==
  LET upto  == Upto(cancelsRead, cancels, CancelsBatch)
      batch == cancelsRead + 1 .. upto
  IN
  /\ source = "recovery" => work = {}     \* the loops start after the recovery
  /\ ~cancelsStopped /\ cancelsInHand = {} /\ cancelsRead < Len(cancels)
  /\ Fails(outcome)
  /\ cancelsRead' = IF outcome = "aborted" THEN cancelsRead ELSE upto
  /\ cancelsInHand' = IF outcome = "ok" THEN batch ELSE {}
  /\ lostCancels' = IF outcome = "unanswered" THEN lostCancels \cup batch ELSE lostCancels
  /\ cancelsStopped' = (outcome # "ok")
  /\ UNCHANGED <<database, placing, engine, fillsLoop, crashes, cancelledQty, crossed>>

\* Faulty: the whole reservation is released, filled part included.
Released_Whole(id, unfilledQty) == orders[id].initialMargin

Released(id, unfilledQty) ==
  (orders[id].initialMargin * unfilledQty) \div Requests[id].qty

\* Faulty: the failure of one is caught outside of the loop over the batch.
RestOfBatch_Dropped(i, outcome) == IF outcome = "ok" THEN cancelsInHand \ {i} ELSE {}

\* The failure of one is logged, and the next one is taken.
RestOfBatch(i, outcome) == cancelsInHand \ {i}

\* settleCancel.  Neither a failed one nor an unacknowledged one is read again.
SettleCancel(i, outcome) ==
  LET c == cancels[i]
      u == Requests[c.orderId].userId
      r == Released(c.orderId, c.unfilledQty)
  IN
  /\ IsNext(i, cancelsInHand)
  /\ Fails(outcome) /\ outcome # "unanswered"
  /\ cancelsInHand' = RestOfBatch(i, outcome)
  /\ lostCancels' = IF outcome = "aborted" THEN lostCancels \cup {i} ELSE lostCancels
  /\ IF outcome = "aborted" THEN UNCHANGED <<orders, available, locked, cancelledQty>>
     ELSE /\ available' = [available EXCEPT ![u] = @ + r]
          /\ locked' = [locked EXCEPT ![u] = @ - r]
          /\ orders' = [orders EXCEPT ![c.orderId].status = "CANCELLED"]
          /\ cancelledQty' = [cancelledQty EXCEPT ![c.orderId] = @ + c.unfilledQty]
  /\ UNCHANGED <<position, fillRows, placing, engine, fillsLoop, cancelsRead, cancelsStopped,
                 crashes, crossed>>

-----------------------------------------------------------------------------
Replayed_None == {}     \* faulty: the new worker starts with new messages

\* The recovery read of id "0" (COUNT 1000, more than can be pending here).
Replayed == fillsPending

\* The worker dies and starts again: pending fills are read again (id "0"),
\* the cancels in hand are not.  Both loops run again.
Restart ==
  /\ crashes < MaxCrashes
  /\ crashes' = crashes + 1
  /\ work' = Replayed /\ source' = "recovery"
  /\ phase' = "settle"
  /\ cancelsInHand' = {} /\ lostCancels' = lostCancels \cup cancelsInHand
  /\ cancelsStopped' = FALSE
  /\ UNCHANGED <<database, placing, engine, fillsRead, fillsPending, cancelsRead, aborts,
                 cancelledQty, crossed>>

Place   == PlaceCommit \/ PlaceFail \/ \E id \in OrderIds : PlaceRead(id)
Engine  == \E id \in OrderIds : EndOfMatch(id) \/ EngineCancel(id)
                                \/ \E maker \in OrderIds : Trade(id, maker)
ConsumeFills ==
  \/ \E outcome \in Outcomes : ReadFills(outcome) \/ ClaimIdle(outcome)
  \/ \E i \in work : \/ AlreadySettled(i)
                     \/ \E outcome \in Outcomes : SettleFill(i, outcome) \/ AckFill(i, outcome)
ConsumeCancels ==
  \E outcome \in Outcomes : \/ ReadCancels(outcome)
                            \/ \E i \in cancelsInHand : SettleCancel(i, outcome)

Next == Place \/ Engine \/ ConsumeFills \/ ConsumeCancels \/ Restart

Spec == Init /\ [][Next]_vars

\* Each loop goes on for as long as Redis has something for it.
FairSpec == Spec /\ WF_vars(ConsumeFills) /\ WF_vars(ConsumeCancels)

-----------------------------------------------------------------------------
Position == [side : Directions, qty : Nat \ {0}, entryPrice : Int, margin : Int] \cup {NoPosition}

FillMessage == [takerOrderId : OrderIds, makerOrderId : OrderIds, qty : 1..MaxQty, price : Nat]
CancelMessage == [orderId : OrderIds, unfilledQty : 1..MaxQty]

DatabaseTypes ==
  /\ orders \in [OrderIds -> [status : Statuses, initialMargin : Int, filledQty : Nat]]
  /\ position \in [Accounts -> Position]
  /\ available \in [Users -> Int] /\ locked \in [Users -> Int]
  /\ placing \in [orderId : OrderIds, margin : Int] \cup {NotPlacing}
  /\ cancelledQty \in [OrderIds -> Nat] /\ crossed \subseteq Users
  /\ aborts \in 0..MaxAborts /\ crashes \in 0..MaxCrashes

EngineTypes ==
  /\ live \in [OrderIds -> 0..MaxQty] /\ resting \subseteq OrderIds
  /\ fills \in Seq(FillMessage)
  /\ cancels \in Seq(CancelMessage)

FillsLoopTypes ==
  /\ fillsRead \in 0..Len(fills)
  /\ fillRows \subseteq 1..fillsRead
  /\ fillsPending \subseteq 1..fillsRead /\ work \subseteq 1..fillsRead
  /\ source \in Sources /\ phase \in Phases

CancelsLoopTypes ==
  /\ cancelsRead \in 0..Len(cancels) /\ cancelsInHand \subseteq 1..cancelsRead
  /\ cancelsStopped \in BOOLEAN /\ lostCancels \subseteq 1..cancelsRead

\* The rows have the columns of schema.prisma, a position row is never empty,
\* and the loops only hold what Redis has delivered to them.
TypeOK == DatabaseTypes /\ EngineTypes /\ FillsLoopTypes /\ CancelsLoopTypes

-----------------------------------------------------------------------------
(* Settlement implements NetPositions: opening, averaging, reducing,       *)
(* closing and flipping a position are one signed addition, redelivered    *)
(* and half-acknowledged fills change nothing, and both sides of a fill    *)
(* move in the same step.                                                  *)

Buys(id) == Requests[id].side = "BUY"
Buyer(f)  == IF Buys(f.takerOrderId) THEN f.takerOrderId ELSE f.makerOrderId
Seller(f) == IF Buys(f.takerOrderId) THEN f.makerOrderId ELSE f.takerOrderId

TradeOf(f) == [buyer |-> AccountOf(Buyer(f)), seller |-> AccountOf(Seller(f)), qty |-> f.qty]

Promise == INSTANCE NetPositions WITH
  Quantities <- 1..MaxQty,
  log <- [i \in 1..Len(fills) |-> TradeOf(fills[i])],
  settled <- fillRows,
  net <- [a \in Accounts |-> Net(position[a])]

ImplementsNetPositions == Promise!Spec
=============================================================================

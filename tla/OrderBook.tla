------------------------------ MODULE OrderBook ------------------------------
(***************************************************************************)
(* The order book of one market as a value, and the operations the         *)
(* matching engine applies to it: book.ts (rest, remove) and helper.ts     *)
(* (match).  The operations are synchronous JavaScript, so each of them is *)
(* one operator from a book to a book.                                     *)
(*                                                                         *)
(* A ladder (Record<string, Level> in the source) is a function from the   *)
(* prices that have a level to levels.  Leverage rides along with an order *)
(* untouched and never decides anything in the book; it is left out.       *)
(***************************************************************************)
EXTENDS Integers, Sequences, FiniteSets, SequencesExt

Sides == {"BUY", "SELL"}
Opposite(side) == IF side = "BUY" THEN "SELL" ELSE "BUY"

\* The side of the book an order rests on.
LadderOf(side) == IF side = "BUY" THEN "bids" ELSE "asks"

EmptyLadder == [p \in {} |-> p]
EmptyLevel  == [availableQty |-> 0, openOrders |-> <<>>]
EmptyBook   == [asks |-> EmptyLadder, bids |-> EmptyLadder, lastTradePrice |-> 0]

Fillable(order) == order.qty - order.filledQty

-----------------------------------------------------------------------------
(* Faulty variants of the definitions below, for the mutation runs only.   *)

Push_Front(level, order) ==
  [availableQty |-> level.availableQty + Fillable(order),
   openOrders   |-> <<order>> \o level.openOrders]

Crosses_Strict(taker, levelPrice) ==
  \/ taker.orderType = "MARKET"
  \/ taker.side = "BUY"  /\ levelPrice < taker.price
  \/ taker.side = "SELL" /\ levelPrice > taker.price

Take_SelfTrade(taker, remaining, order) == Min({remaining, Fillable(order)})

Unlist_KeepAvailable(level, i) ==
  [availableQty |-> level.availableQty,
   openOrders   |-> RemoveAt(level.openOrders, i)]

-----------------------------------------------------------------------------
(* book.ts *)

Push(level, order) ==
  [availableQty |-> level.availableQty + Fillable(order),
   openOrders   |-> Append(level.openOrders, order)]

RestOrder(book, side, price, order) ==
  LET levels == book[LadderOf(side)]
      level  == IF price \in DOMAIN levels THEN levels[price] ELSE EmptyLevel
  IN  [book EXCEPT ![LadderOf(side)] =
         [p \in DOMAIN levels \cup {price} |->
            IF p = price THEN Push(level, order) ELSE levels[p]]]

\* Put `level` back at `price`, or delete the key when no order is left in it.
SetLevel(levels, price, level) ==
  IF level.openOrders = <<>>
  THEN Restrict(levels, DOMAIN levels \ {price})
  ELSE [levels EXCEPT ![price] = level]

\* Where an order sits in the queue of its level; 0 when it is not there.
QueueIndex(levels, price, orderId) ==
  IF price \in DOMAIN levels
  THEN SelectInSeq(levels[price].openOrders, LAMBDA o : o.orderId = orderId)
  ELSE 0

Unlist(level, i) ==
  [availableQty |-> Max({0, level.availableQty - Fillable(level.openOrders[i])}),
   openOrders   |-> RemoveAt(level.openOrders, i)]

\* The orders removeOrder returns: none (undefined) or the one it took out.
RemovedOrders(book, side, price, orderId) ==
  LET levels == book[LadderOf(side)]
      i      == QueueIndex(levels, price, orderId)
  IN  IF i = 0 THEN {} ELSE {levels[price].openOrders[i]}

RemoveOrder(book, side, price, orderId) ==
  LET levels == book[LadderOf(side)]
      i      == QueueIndex(levels, price, orderId)
  IN  IF i = 0 THEN book
      ELSE [book EXCEPT ![LadderOf(side)] =
              SetLevel(levels, price, Unlist(levels[price], i))]

-----------------------------------------------------------------------------
(* helper.ts.  A taker is a record [orderId, userId, side, orderType,      *)
(* price, qty].  A market order is matched at price Infinity (BUY) or 0    *)
(* (SELL), which every level satisfies.                                    *)

Crosses(taker, levelPrice) ==
  \/ taker.orderType = "MARKET"
  \/ taker.side = "BUY"  /\ levelPrice <= taker.price
  \/ taker.side = "SELL" /\ levelPrice >= taker.price

\* Best price first: lowest ask for a buyer, highest bid for a seller.
SortedPrices(prices, side) ==
  CHOOSE s \in [1..Cardinality(prices) -> prices] :
    \A i, j \in DOMAIN s : i < j => IF side = "BUY" THEN s[i] < s[j] ELSE s[i] > s[j]

\* How much the taker takes from one resting order; a user's own is skipped.
Take(taker, remaining, order) ==
  IF order.userId = taker.userId THEN 0 ELSE Min({remaining, Fillable(order)})

\* One order of a level's queue: it gives what it can, and stays where it is.
Visit(taker, price, acc, order) ==
  LET take == Take(taker, acc.remainingQty, order)
  IN  [remainingQty |-> acc.remainingQty - take,
       level |-> [availableQty |-> Max({0, acc.level.availableQty - take}),
                  openOrders   |-> Append(acc.level.openOrders,
                                          [order EXCEPT !.filledQty = @ + take])],
       fills |-> IF take = 0 THEN acc.fills
                 ELSE Append(acc.fills, [makerOrderId |-> order.orderId,
                                         takerOrderId |-> taker.orderId,
                                         qty |-> take, price |-> price])]

\* The filter at the end of a level: fully filled orders go.
Unfilled(orders) ==
  FoldLeft(LAMBDA left, o : IF o.filledQty < o.qty THEN Append(left, o) ELSE left, <<>>, orders)

\* The inner loop, over the queue of one level, if there is one.
MatchLevel(taker, price, acc) ==
  IF price \notin DOMAIN acc.levels THEN acc
  ELSE LET level   == acc.levels[price]
           visited == FoldLeft(LAMBDA a, order : Visit(taker, price, a, order),
                        [remainingQty |-> acc.remainingQty, fills |-> acc.fills,
                         level |-> [level EXCEPT !.openOrders = <<>>]],
                        level.openOrders)
       IN  [remainingQty |-> visited.remainingQty, fills |-> visited.fills,
            levels |-> SetLevel(acc.levels, price,
                                [visited.level EXCEPT !.openOrders = Unfilled(@)])]

\* The outer loop, over the levels the taker's price reaches.
MatchSide(levels, taker) ==
  FoldLeft(LAMBDA acc, price : MatchLevel(taker, price, acc),
           [remainingQty |-> taker.qty, fills |-> <<>>, levels |-> levels],
           SortedPrices({p \in DOMAIN levels : Crosses(taker, p)}, taker.side))

\* Match a taker against the other side of the book.
Match(book, taker) ==
  LET side == LadderOf(Opposite(taker.side))
      m    == MatchSide(book[side], taker)
  IN  [book |-> [book EXCEPT ![side] = m.levels],
       fills |-> m.fills, remainingQty |-> m.remainingQty]

\* Faulty: the leftover of a market order rests too.
RestLeftover_AnyType(book, taker, remaining) ==
  IF remaining > 0
  THEN RestOrder(book, taker.side, taker.price,
         [userId |-> taker.userId, orderId |-> taker.orderId,
          qty |-> remaining, filledQty |-> 0])
  ELSE book

\* index.ts: the leftover of a limit order rests, that of a market order does
\* not (its remainder goes to the cancels stream).
RestLeftover(book, taker, remaining) ==
  IF remaining > 0 /\ taker.orderType = "LIMIT"
  THEN RestOrder(book, taker.side, taker.price,
         [userId |-> taker.userId, orderId |-> taker.orderId,
          qty |-> remaining, filledQty |-> 0])
  ELSE book

SetLastTrade(book, fills) ==
  IF fills = <<>> THEN book ELSE [book EXCEPT !.lastTradePrice = Last(fills).price]

-----------------------------------------------------------------------------
(* What the properties say about a book. *)

QtyOf(orders)   == FoldLeft(LAMBDA n, o : n + Fillable(o), 0, orders)
Ladders         == {"bids", "asks"}

\* Every level is what its queue says: availableQty is the sum of what its
\* orders still want, no order is spent, and no level is empty.
LevelsConsistent(book) ==
  \A l \in Ladders : \A p \in DOMAIN book[l] :
    LET level == book[l][p] IN
    /\ level.openOrders # <<>>
    /\ level.availableQty = QtyOf(level.openOrders)
    /\ \A i \in DOMAIN level.openOrders : Fillable(level.openOrders[i]) > 0

\* No two users' resting orders could trade with each other.
Uncrossed(book) ==
  \A b \in DOMAIN book.bids, a \in DOMAIN book.asks :
    b >= a => \A x \in ToSet(book.bids[b].openOrders), y \in ToSet(book.asks[a].openOrders) :
                x.userId = y.userId

\* What order `id` still has resting, anywhere in the book.
QueueQty(orders, id) ==
  SumFunction([i \in DOMAIN orders |-> IF orders[i].orderId = id THEN Fillable(orders[i]) ELSE 0])
LadderQty(levels, id) == SumFunction([p \in DOMAIN levels |-> QueueQty(levels[p].openOrders, id)])
RestingQty(book, id)  == LadderQty(book.bids, id) + LadderQty(book.asks, id)

\* What order `id` traded in a sequence of fills.
TradedQty(fills, id) ==
  SumFunction([i \in DOMAIN fills |-> IF id \in {fills[i].makerOrderId, fills[i].takerOrderId}
                                     THEN fills[i].qty ELSE 0])

\* What was cancelled of order `id`, in a sequence of cancels.
CancelledQty(cancels, id) ==
  SumFunction([i \in DOMAIN cancels |-> IF cancels[i].orderId = id THEN cancels[i].unfilledQty ELSE 0])

=============================================================================

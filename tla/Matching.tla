------------------------------ MODULE Matching ------------------------------
(***************************************************************************)
(* What the matching engine promises: every order it handles is matched in *)
(* one indivisible step against the book of its market, and a cancel takes *)
(* what is left of an order out of the book.  This is the abstract         *)
(* specification that MatchingEngine (the loop with its reads, awaits and  *)
(* crashes) is shown to implement while nothing fails.                     *)
(***************************************************************************)
EXTENDS OrderBook

CONSTANTS
  OrderIds,     \* ids the backend may give to orders
  Users,
  Markets,
  Prices,       \* limit prices, positive
  Quantities    \* order quantities, positive

ASSUME PricesAssumption     == Prices \subseteq Nat \ {0}
ASSUME QuantitiesAssumption == Quantities \subseteq Nat \ {0}

VARIABLES
  books,    \* the engine's Map of books, one per market
  placed,   \* the orders handled so far, in the order they were handled
  trades,   \* the fills produced so far
  cancels   \* the cancels produced so far

vars == <<books, placed, trades, cancels>>

\* An order message.  A market order carries no price that matters: 0.
Order == [orderId : OrderIds, userId : Users, marketId : Markets, side : Sides,
          orderType : {"LIMIT"}, price : Prices, qty : Quantities]
    \cup [orderId : OrderIds, userId : Users, marketId : Markets, side : Sides,
          orderType : {"MARKET"}, price : {0}, qty : Quantities]

PlacedIds == {o.orderId : o \in ToSet(placed)}

-----------------------------------------------------------------------------
(* The cancel messages one handled order, or one cancel request, yields.   *)

CancelMsg(id, unfilledQty) == [orderId |-> id, unfilledQty |-> unfilledQty]

\* Faulty: forgets to release the market remainder.
MarketRemainder_Dropped(order, remaining) == <<>>

\* index.ts: what a market order could not take is cancelled outright.
MarketRemainder(order, remaining) ==
  IF remaining > 0 /\ order.orderType = "MARKET"
  THEN <<CancelMsg(order.orderId, remaining)>> ELSE <<>>

-----------------------------------------------------------------------------
Init ==
  /\ books = [m \in Markets |-> EmptyBook]
  /\ placed = <<>>
  /\ trades = <<>>
  /\ cancels = <<>>

Handle(order) ==
  LET m == Match(books[order.marketId], order) IN
  /\ order.orderId \notin PlacedIds
  /\ placed' = Append(placed, order)
  /\ books' = [books EXCEPT ![order.marketId] =
                 SetLastTrade(RestLeftover(m.book, order, m.remainingQty), m.fills)]
  /\ trades' = trades \o m.fills
  /\ cancels' = cancels \o MarketRemainder(order, m.remainingQty)

\* Faulty: the cancel leaves the order in the book.
Cancel_LeavesOrder(order) ==
  \E removed \in RemovedOrders(books[order.marketId], order.side, order.price, order.orderId) :
    /\ cancels' = Append(cancels, CancelMsg(order.orderId, Fillable(removed)))
    /\ UNCHANGED <<books, placed, trades>>

Cancel(order) ==
  \E removed \in RemovedOrders(books[order.marketId], order.side, order.price, order.orderId) :
    /\ books' = [books EXCEPT ![order.marketId] =
                   RemoveOrder(@, order.side, order.price, order.orderId)]
    /\ cancels' = Append(cancels, CancelMsg(order.orderId, Fillable(removed)))
    /\ UNCHANGED <<placed, trades>>

Next ==
  \/ \E order \in Order : Handle(order)
  \/ \E order \in ToSet(placed) : Cancel(order)

Spec == Init /\ [][Next]_vars

-----------------------------------------------------------------------------
OrderOf(id)    == placed[SelectInSeq(placed, LAMBDA o : o.orderId = id)]
Sequenced(id)  == SelectInSeq(placed, LAMBDA o : o.orderId = id)

LevelType(level) ==
  /\ level.availableQty \in Nat
  /\ \A o \in ToSet(level.openOrders) :
       /\ o.userId \in Users /\ o.orderId \in OrderIds
       /\ o.qty \in Nat /\ o.filledQty \in 0..o.qty

BookType(book) ==
  /\ book.lastTradePrice \in Prices \cup {0}
  /\ \A l \in Ladders : /\ DOMAIN book[l] \subseteq Prices
                        /\ \A p \in DOMAIN book[l] : LevelType(book[l][p])

\* The quantity of an order is never lost and never used twice: what traded,
\* what rests and what was cancelled add up to what was asked for, whatever
\* mix of makers, partial fills and cancels the order went through.
QtyConserved ==
  \A o \in ToSet(placed) :
    o.qty = TradedQty(trades, o.orderId) + RestingQty(books[o.marketId], o.orderId)
            + CancelledQty(cancels, o.orderId)

Reaches(order, price) ==
  \/ order.orderType = "MARKET"
  \/ order.side = "BUY"  /\ price <= order.price
  \/ order.side = "SELL" /\ price >= order.price

\* Every trade is one both owners agreed to: two users of one market, opposite
\* sides, the maker's own limit price, and within the taker's limit
\* (helper.ts: users cannot trade against themselves; the break of the loop).
LegalTrades ==
  \A f \in ToSet(trades) :
    LET maker == OrderOf(f.makerOrderId)
        taker == OrderOf(f.takerOrderId)
    IN  /\ f.qty > 0
        /\ maker.userId # taker.userId
        /\ maker.marketId = taker.marketId
        /\ maker.side = Opposite(taker.side)
        /\ maker.orderType = "LIMIT" /\ f.price = maker.price
        /\ Reaches(taker, f.price)

\* The figure the book shows for a level is what its queue adds up to, and
\* neither spent orders nor empty levels stay behind, although match, rest and
\* remove each maintain availableQty by their own increments.
BooksConsistent == \A m \in Markets : LevelsConsistent(books[m])

\* A book never stands crossed: two users' resting orders whose prices meet
\* have always been matched before either of them came to rest.
NeverCrossed == \A m \in Markets : Uncrossed(books[m])

-----------------------------------------------------------------------------
\* The orders resting in a market that `order` could trade with.
Eligible(order) ==
  {o \in ToSet(placed) :
     /\ o.marketId = order.marketId /\ o.userId # order.userId
     /\ o.side = Opposite(order.side) /\ Reaches(order, o.price)
     /\ RestingQty(books[o.marketId], o.orderId) > 0}

\* x is served before y: a better price for the taker, or the same and earlier.
Before(x, y, side) ==
  \/ IF side = "BUY" THEN x.price < y.price ELSE x.price > y.price
  \/ x.price = y.price /\ Sequenced(x.orderId) < Sequenced(y.orderId)

\* Price-time priority: when an order trades, no maker gets anything while an
\* eligible maker that comes before it (better price, or same price and
\* handled earlier) keeps some quantity, and the order is left over only when
\* no eligible maker is (helper.ts: sorted levels, queue order, skip of own).
PriceTimePriority ==
  [][Len(placed') > Len(placed) =>
       LET order    == Last(placed')
           got(o)   == TradedQty(trades', o.orderId) - TradedQty(trades, o.orderId)
           full(o)  == got(o) = RestingQty(books[o.marketId], o.orderId)
           eligible == Eligible(order)   \* in the books before the step
       IN  /\ \A x, y \in eligible : Before(x, y, order.side) /\ got(y) > 0 => full(x)
           /\ TradedQty(trades', order.orderId) < order.qty => \A x \in eligible : full(x)]_vars

\* A cancel is final: an order leaves the book with it, so nothing trades,
\* rests or is cancelled under that id afterwards.
CancelIsFinal ==
  [][\A o \in ToSet(placed) : CancelledQty(cancels, o.orderId) > 0 =>
       /\ TradedQty(trades', o.orderId) = TradedQty(trades, o.orderId)
       /\ CancelledQty(cancels', o.orderId) = CancelledQty(cancels, o.orderId)]_vars

=============================================================================

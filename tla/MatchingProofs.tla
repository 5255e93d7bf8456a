---------------------------- MODULE MatchingProofs ----------------------------
(***************************************************************************)
(* Proofs about Matching, for every set of ids, users, markets, prices and *)
(* quantities: the books are consistent and never crossed, every trade is  *)
(* one that both its owners agreed to, an order's quantities add up, a     *)
(* cancel is final, and better prices and older orders are served first.   *)
(***************************************************************************)
EXTENDS Matching, OrderBookProofs

\* A fill between two of the orders handled that they both agreed to.
Legal(f, S) ==
  \E maker, taker \in S :
    /\ f.makerOrderId = maker.orderId /\ f.takerOrderId = taker.orderId
    /\ f.qty > 0 /\ maker.userId # taker.userId /\ maker.marketId = taker.marketId
    /\ maker.side = Opposite(taker.side)
    /\ maker.orderType = "LIMIT" /\ f.price = maker.price
    /\ Reaches(taker, f.price)

Books == Book(Users, OrderIds, Prices)

\* The inductive invariant: types, one handled order per id, and books that
\* hold only what was handled.
MInv ==
  /\ books \in [Markets -> Books]
  /\ placed \in Seq(Order) /\ trades \in Seq(Fill(OrderIds, Prices))
  /\ \A i, j \in 1..Len(placed) : placed[i].orderId = placed[j].orderId => i = j
  /\ \A m \in Markets : Uncrossed(books[m]) /\ Stems(books[m], ToSet(placed), m)
  /\ \A f \in ToSet(trades) : Legal(f, ToSet(placed))

\* The prices are naturals.
LEMMA PricesAreNat == Prices \subseteq Nat
  BY PricesAssumption

\* A handled order is one that may be matched.
LEMMA OrderIsTaker ==
  ASSUME NEW order \in Order
  PROVE  /\ Taker(order, Users, OrderIds, Prices) /\ order.marketId \in Markets
         /\ order.qty \in Nat \ {0} /\ order.orderId \in OrderIds
         /\ order.side \in Sides
  BY QuantitiesAssumption DEF Order, Taker

\* A fill that the taker may have is legal once it is handled.
LEMMA AgreedIsLegal ==
  ASSUME NEW book, NEW S, NEW T, S \subseteq T, NEW taker \in T, taker.side \in Sides,
         Stems(book, S, taker.marketId), NEW f,
         Agreed(f, taker, book[LadderOf(Opposite(taker.side))])
  PROVE  Legal(f, T)
<1> DEFINE side == Opposite(taker.side)
           L == book[LadderOf(side)]
<1>1. side \in Sides
  BY DEF Opposite, Sides
<1>2. /\ f.price \in DOMAIN L /\ Crosses(taker, f.price)
      /\ \E i \in 1..Len(L[f.price].openOrders) :
           FillFrom(f, taker, f.price, L[f.price].openOrders[i])
  BY DEF Agreed
<1>3. PICK i \in 1..Len(L[f.price].openOrders) :
             FillFrom(f, taker, f.price, L[f.price].openOrders[i])
  BY <1>2
<1>4. PICK maker \in S : /\ maker.orderId = L[f.price].openOrders[i].orderId
                         /\ maker.userId = L[f.price].openOrders[i].userId
                         /\ maker.side = side /\ maker.price = f.price
                         /\ maker.orderType = "LIMIT" /\ maker.marketId = taker.marketId
  BY <1>1, <1>2, <1>3 DEF Stems
<1>5. Reaches(taker, f.price)
  BY <1>2 DEF Crosses, Reaches
<1>6. QED
  BY <1>3, <1>4, <1>5 DEF FillFrom, Legal

\* A fill that was legal stays so.
LEMMA LegalGrows ==
  ASSUME NEW f, NEW S, NEW T, S \subseteq T, Legal(f, S)
  PROVE  Legal(f, T)
  BY DEF Legal

\* Nothing has happened yet.
LEMMA MInit == Init => MInv
<1> SUFFICES ASSUME Init PROVE MInv
  OBVIOUS
<1>1. /\ books = [m \in Markets |-> EmptyBook] /\ placed = <<>> /\ trades = <<>>
  BY DEF Init
<1>2. EmptyBook \in Books /\ Uncrossed(EmptyBook)
  BY EmptyBookIs DEF Books
<1>3. books \in [Markets -> Books] /\ \A m \in Markets : Uncrossed(books[m])
  BY <1>1, <1>2
<1>4. placed \in Seq(Order) /\ trades \in Seq(Fill(OrderIds, Prices)) /\ Len(placed) = 0
  BY <1>1, EmptySeq
<1>5. ToSet(trades) = {}
  BY <1>1 DEF ToSet
<1>6. \A m \in Markets : Stems(books[m], ToSet(placed), m)
  BY <1>1 DEF Stems, EmptyBook, EmptyLadder, LadderOf
<1>7. QED
  BY <1>3, <1>4, <1>5, <1>6 DEF MInv

\* An order is handled.
LEMMA MHandle ==
  ASSUME MInv, NEW order \in Order, Handle(order)
  PROVE  MInv'
<1> DEFINE k == order.marketId
           book == books[k]
           m == Match(book, order)
           rested == RestLeftover(m.book, order, m.remainingQty)
           new == SetLastTrade(rested, m.fills)
           S == ToSet(placed)
           T == ToSet(placed')
<1>1. /\ Taker(order, Users, OrderIds, Prices) /\ k \in Markets
      /\ order.side \in Sides
  BY OrderIsTaker
<1>2. book \in Books
  BY <1>1 DEF MInv
<1>3. /\ order.orderId \notin PlacedIds
      /\ placed' = Append(placed, order)
      /\ books' = [books EXCEPT ![k] = new]
      /\ trades' = trades \o m.fills
  BY DEF Handle
<1>4. BookMatched(m, book, order, Users, OrderIds, Prices)
  <2> HIDE DEF book
  <2>1. QED
    BY <1>1, <1>2, PricesAreNat, MatchSound DEF Books
<1> HIDE DEF m
<1>5. /\ m.book \in Books /\ m.remainingQty \in Nat
      /\ m.fills \in Seq(Fill(OrderIds, Prices))
      /\ FromBook(m.book, book) /\ Clear(m.book, order, m.remainingQty)
      /\ Uncrossed(book) => Uncrossed(m.book)
      /\ \A f \in ToSet(m.fills) : Agreed(f, order, book[LadderOf(Opposite(order.side))])
  BY <1>4 DEF BookMatched, Books
<1>6. RestDone(rested, m.book, order, m.remainingQty, Users, OrderIds, Prices)
  BY <1>1, <1>5, PricesAreNat, RestSound DEF Books
<1> HIDE DEF rested
<1>7. rested \in Books /\ (Uncrossed(book) => Uncrossed(rested))
  BY <1>5, <1>6 DEF RestDone, Books
<1>8. new \in Books /\ new.bids = rested.bids /\ new.asks = rested.asks
  BY <1>5, <1>7, LastTradeSet DEF Books
<1>9. Uncrossed(new)
  BY <1>1, <1>7, <1>8 DEF Uncrossed, MInv
<1>10. placed \in Seq(Order) /\ Len(placed) \in Nat
  BY LenProperties DEF MInv
<1>11. T = S \cup {order}
  BY <1>3, <1>10, ToSetAppend
<1>12. Stems(new, T, k)
  <2>1. Stems(book, S, k)
    BY <1>1 DEF MInv
  <2>2. Stems(m.book, T, k)
    <3> HIDE DEF S, T, book
    <3>1. QED
      BY <1>5, <1>11, <2>1, StemsFrom
  <2>3. Stems(rested, T, k)
    <3> HIDE DEF T
    <3>1. QED
      BY <1>1, <1>6, <1>11, <2>2, StemsRest
  <2>4. FromBook(new, rested)
    BY <1>8, FromItself DEF FromBook
  <2>5. QED
    <3> HIDE DEF new, T
    <3>1. QED
      BY <2>3, <2>4, StemsFrom
<1> HIDE DEF new
<1>13. books' \in [Markets -> Books]
  BY <1>1, <1>3, <1>8 DEF MInv
<1>14. placed' \in Seq(Order) /\ trades' \in Seq(Fill(OrderIds, Prices))
  BY <1>3, <1>5, <1>10, AppendProperties, ConcatProperties DEF MInv
<1>15. \A i, j \in 1..Len(placed') : placed'[i].orderId = placed'[j].orderId => i = j
  <2>1. /\ Len(placed') = Len(placed) + 1 /\ placed'[Len(placed) + 1] = order
        /\ \A i \in 1..Len(placed) : placed'[i] = placed[i]
    BY <1>3, <1>10, AppendProperties
  <2>2. \A i \in 1..Len(placed) : placed[i].orderId # order.orderId
    <3>1. \A i \in 1..Len(placed) : placed[i] \in ToSet(placed)
      BY <1>10, Placed
    <3>2. QED
      BY <1>3, <3>1 DEF PlacedIds
  <2>3. ASSUME NEW i \in 1..Len(placed'), NEW j \in 1..Len(placed'),
               placed'[i].orderId = placed'[j].orderId
        PROVE  i = j
    <3>1. /\ i \in 1..Len(placed) \/ i = Len(placed) + 1
          /\ j \in 1..Len(placed) \/ j = Len(placed) + 1
      BY <1>10, <2>1
    <3>2. CASE i \in 1..Len(placed) /\ j \in 1..Len(placed)
      BY <2>1, <2>3, <3>2 DEF MInv
    <3>3. CASE i = Len(placed) + 1 /\ j \in 1..Len(placed)
      BY <2>1, <2>2, <2>3, <3>3
    <3>4. CASE i \in 1..Len(placed) /\ j = Len(placed) + 1
      BY <2>1, <2>2, <2>3, <3>4
    <3>5. QED
      BY <3>1, <3>2, <3>3, <3>4
  <2>4. QED
    BY <2>3
<1>16. \A x \in Markets : Uncrossed(books'[x]) /\ Stems(books'[x], T, x)
  <2>1. ASSUME NEW x \in Markets PROVE Uncrossed(books'[x]) /\ Stems(books'[x], T, x)
    <3>1. CASE x = k
      <4>1. books'[x] = new
        BY <1>1, <1>3, <3>1 DEF MInv
      <4>2. QED
        BY <1>9, <1>12, <3>1, <4>1
    <3>2. CASE x # k
      <4>1. books'[x] = books[x]
        BY <1>3, <3>2 DEF MInv
      <4>2. Uncrossed(books[x]) /\ Stems(books[x], S, x)
        BY DEF MInv
      <4>3. FromBook(books[x], books[x])
        BY FromItself DEF FromBook
      <4>4. Stems(books[x], T, x)
        <5> DEFINE bx == books[x]
        <5> HIDE DEF bx, S, T
        <5>1. FromBook(bx, bx) /\ Stems(bx, S, x) /\ S \subseteq T
          BY <1>11, <4>2, <4>3 DEF bx
        <5>2. Stems(bx, T, x)
          BY <5>1, StemsFrom
        <5>3. QED
          BY <5>2 DEF bx
      <4>5. QED
        BY <4>1, <4>2, <4>4
    <3>3. QED
      BY <3>1, <3>2
  <2>2. QED
    BY <2>1
<1>17. \A f \in ToSet(trades') : Legal(f, T)
  <2>1. ToSet(trades') = ToSet(trades) \cup ToSet(m.fills)
    BY <1>3, <1>5, ToSetConcat DEF MInv
  <2>2. ASSUME NEW f \in ToSet(trades) PROVE Legal(f, T)
    <3>1. Legal(f, S)
      BY DEF MInv
    <3> HIDE DEF S, T
    <3>2. QED
      BY <1>11, <3>1, LegalGrows
  <2>3. ASSUME NEW f \in ToSet(m.fills) PROVE Legal(f, T)
    <3>1. Stems(book, S, k) /\ Agreed(f, order, book[LadderOf(Opposite(order.side))])
      BY <1>1, <1>5 DEF MInv
    <3> HIDE DEF S, T, book
    <3>2. QED
      BY <1>1, <1>11, <3>1, AgreedIsLegal
  <2>4. QED
    BY <2>1, <2>2, <2>3
<1>18. QED
  BY <1>13, <1>14, <1>15, <1>16, <1>17 DEF MInv

\* A cancel is handled.
LEMMA MCancel ==
  ASSUME MInv, NEW order \in ToSet(placed), Cancel(order)
  PROVE  MInv'
<1> DEFINE k == order.marketId
           book == books[k]
           new == RemoveOrder(book, order.side, order.price, order.orderId)
           S == ToSet(placed)
<1>1. order \in Order
  BY Placed, ElementOfSeq DEF MInv
<1>2. k \in Markets /\ order.side \in Sides
  BY <1>1, OrderIsTaker
<1>3. book \in Books /\ Uncrossed(book) /\ Stems(book, S, k)
  BY <1>2 DEF MInv
<1>4. books' = [books EXCEPT ![k] = new] /\ placed' = placed /\ trades' = trades
  BY DEF Cancel
<1> HIDE DEF book
<1>5. new \in Books /\ FromBook(new, book) /\ Uncrossed(new)
  <2> DEFINE side == order.side
             price == order.price
             id == order.orderId
             r == RemoveOrder(book, side, price, id)
  <2>1. side \in Sides
    BY <1>2
  <2> HIDE DEF side, price, id
  <2>2. r \in Books /\ FromBook(r, book) /\ Uncrossed(r)
    BY <1>3, <2>1, RemoveSound DEF Books
  <2>3. QED
    BY <2>2 DEF side, price, id
<1> HIDE DEF new
<1>6. Stems(new, S, k)
  <2> HIDE DEF S
  <2>1. QED
    BY <1>3, <1>5, StemsFrom
<1>7. books' \in [Markets -> Books]
  BY <1>2, <1>4, <1>5 DEF MInv
<1>8. \A x \in Markets : Uncrossed(books'[x]) /\ Stems(books'[x], S, x)
  <2>1. \A x \in Markets : books'[x] = IF x = k THEN new ELSE books[x]
    BY <1>4 DEF MInv
  <2>2. \A x \in Markets : Uncrossed(books[x]) /\ Stems(books[x], S, x)
    BY DEF MInv
  <2> HIDE DEF S
  <2>3. QED
    BY <1>5, <1>6, <2>1, <2>2
<1>9. QED
  BY <1>4, <1>7, <1>8 DEF MInv

\* No step breaks the invariant.
LEMMA MNext == MInv /\ [Next]_vars => MInv'
<1> SUFFICES ASSUME MInv, [Next]_vars PROVE MInv'
  OBVIOUS
<1>1. CASE \E order \in Order : Handle(order)
  BY <1>1, MHandle
<1>2. CASE \E order \in ToSet(placed) : Cancel(order)
  BY <1>2, MCancel
<1>3. CASE UNCHANGED vars
  BY <1>3 DEF vars, MInv, Stems, Books
<1>4. QED
  BY <1>1, <1>2, <1>3 DEF Next

\* MInv holds in every reachable state.
LEMMA MAlways == Spec => []MInv
<1>1. QED
  BY MInit, MNext, PTL DEF Spec

\* Every level of every book shows what its queue adds up to, and is neither
\* empty nor holds a spent order, after any matches, rests and removals
\* (book.ts, helper.ts: three separate increments of availableQty).
THEOREM LevelsAddUp == Spec => []BooksConsistent
<1>1. MInv => BooksConsistent
  BY BookIsConsistent DEF MInv, BooksConsistent, Books
<1>2. QED
  BY <1>1, MAlways, PTL

\* No book ever stands crossed between two users (helper.ts: the loop ends only
\* when the order is used up or nothing of another user is within its reach).
THEOREM BooksNeverCross == Spec => []NeverCrossed
<1>1. MInv => NeverCrossed
  BY DEF MInv, NeverCrossed
<1>2. QED
  BY <1>1, MAlways, PTL

\* The order of an id, when every id has one.
LEMMA TheOrder ==
  ASSUME MInv, NEW o \in ToSet(placed)
  PROVE  OrderOf(o.orderId) = o
<1>1. placed \in Seq(Order) /\ Len(placed) \in Nat
  BY LenProperties DEF MInv
<1>2. PICK k \in 1..Len(placed) : placed[k] = o
  BY <1>1, Placed
<1> DEFINE id == o.orderId
           B == {i \in 1..Len(placed) : placed[i].orderId = id}
<1>3. OrderOf(id) = placed[IF B # {} THEN Min(B) ELSE 0]
  BY DEF OrderOf, SelectInSeq
<1>4. B = {k}
  BY <1>2 DEF MInv
<1>5. Min({k}) = k
  BY DEF Min
<1> HIDE DEF B
<1>6. QED
  BY <1>2, <1>3, <1>4, <1>5

\* Every trade is between two users' orders of one market and opposite sides,
\* at the maker's limit and within the taker's (helper.ts: own orders are
\* skipped, the loop breaks at the taker's price).
THEOREM TradesAreLegal == Spec => []LegalTrades
<1>1. ASSUME MInv PROVE LegalTrades
  <2>1. ASSUME NEW f \in ToSet(trades)
        PROVE  /\ f.qty > 0
               /\ OrderOf(f.makerOrderId).userId # OrderOf(f.takerOrderId).userId
               /\ OrderOf(f.makerOrderId).marketId = OrderOf(f.takerOrderId).marketId
               /\ OrderOf(f.makerOrderId).side = Opposite(OrderOf(f.takerOrderId).side)
               /\ OrderOf(f.makerOrderId).orderType = "LIMIT"
               /\ f.price = OrderOf(f.makerOrderId).price
               /\ Reaches(OrderOf(f.takerOrderId), f.price)
    <3>1. PICK maker \in ToSet(placed), taker \in ToSet(placed) :
            /\ f.makerOrderId = maker.orderId /\ f.takerOrderId = taker.orderId
            /\ f.qty > 0 /\ maker.userId # taker.userId /\ maker.marketId = taker.marketId
            /\ maker.side = Opposite(taker.side)
            /\ maker.orderType = "LIMIT" /\ f.price = maker.price
            /\ Reaches(taker, f.price)
      BY <1>1 DEF MInv, Legal
    <3>2. OrderOf(f.makerOrderId) = maker /\ OrderOf(f.takerOrderId) = taker
      BY <1>1, <3>1, TheOrder
    <3>3. QED
      BY <3>1, <3>2
  <2>2. QED
    BY <2>1 DEF LegalTrades
<1>2. QED
  BY <1>1, MAlways, PTL

-----------------------------------------------------------------------------
(* The quantities of orders. *)

\* What has become of the quantities: cancels are of handled orders, and every
\* order adds up.
CInv ==
  /\ cancels \in Seq(CancelMsgs(OrderIds))
  /\ \A i \in 1..Len(cancels) : cancels[i].orderId \in PlacedIds
  /\ QtyConserved

\* Two handled orders with one id are the same.
LEMMA OneOrder ==
  ASSUME MInv, NEW x \in ToSet(placed), NEW y \in ToSet(placed), x.orderId = y.orderId
  PROVE  x = y
<1>1. placed \in Seq(Order)
  BY DEF MInv
<1>2. PICK i \in 1..Len(placed) : placed[i] = x
  BY <1>1, Placed
<1>3. PICK j \in 1..Len(placed) : placed[j] = y
  BY <1>1, Placed
<1>4. QED
  BY <1>2, <1>3 DEF MInv

\* Nothing was handled yet, and every order adds up.
LEMMA CInit == Init => CInv
<1> SUFFICES ASSUME Init PROVE CInv
  OBVIOUS
<1>1. cancels = <<>> /\ placed = <<>>
  BY DEF Init
<1>2. cancels \in Seq(CancelMsgs(OrderIds)) /\ Len(cancels) = 0
  BY <1>1, EmptySeq
<1>3. ToSet(placed) = {}
  BY <1>1 DEF ToSet
<1>4. QED
  BY <1>2, <1>3 DEF CInv, QtyConserved

\* What a handled order makes of the quantity of any order: what was traded,
\* rests and was released afterwards is what rested, and what is new.
LEMMA HandleHolds ==
  ASSUME MInv, CInv, NEW order \in Order, Handle(order), NEW id
  PROVE  LET k == order.marketId
             F == Match(books[k], order).fills
         IN  /\ k \in Markets /\ F \in Seq(Fill(OrderIds, Prices)) /\ trades' = trades \o F
             /\ TradedQty(F, id) \in Nat /\ RestingQty(books[k], id) \in Nat
             /\ RestingQty(books'[k], id) \in Nat
             /\ cancels' \in Seq(CancelMsgs(OrderIds))
             /\ id = order.orderId /\ order.orderType = "MARKET" => RestingQty(books'[k], id) = 0
             /\ \E c \in Nat : /\ CancelledQty(cancels', id) = CancelledQty(cancels, id) + c
                               /\ c > 0 => id = order.orderId /\ order.orderType = "MARKET"
                               /\ TradedQty(F, id) + RestingQty(books'[k], id) + c
                                    = RestingQty(books[k], id) + Asked(order, order.qty, id)
<1> DEFINE k == order.marketId
           book == books[k]
           m == Match(book, order)
           new == SetLastTrade(RestLeftover(m.book, order, m.remainingQty), m.fills)
           S == ToSet(placed)
           c == IF order.orderType = "MARKET" THEN Asked(order, m.remainingQty, id) ELSE 0
<1>1. /\ Taker(order, Users, OrderIds, Prices) /\ k \in Markets /\ order.orderId \in OrderIds
      /\ order.orderType \in {"LIMIT", "MARKET"} /\ Prices \in SUBSET Nat
  <2>1. order.orderType \in {"LIMIT", "MARKET"}
    BY DEF Order
  <2>2. QED
    BY <2>1, OrderIsTaker, PricesAreNat
<1>2. book \in Books /\ books \in [Markets -> Books]
  BY <1>1 DEF MInv
<1>3. /\ order.orderId \notin PlacedIds
      /\ books' = [books EXCEPT ![k] = new]
      /\ trades' = trades \o m.fills
      /\ cancels' = cancels \o MarketRemainder(order, m.remainingQty)
  BY DEF Handle
<1>4. Absent(book, order.orderId)
  <2>1. Stems(book, S, k)
    BY <1>1 DEF MInv
  <2>2. \A o \in S : o.orderId # order.orderId
    BY <1>3 DEF PlacedIds
  <2> HIDE DEF book, S
  <2>3. QED
    BY <2>1, <2>2, NotThere
<1>5. /\ m.fills \in Seq(Fill(OrderIds, Prices)) /\ m.remainingQty \in Nat
      /\ TradedQty(m.fills, id) \in Nat
      /\ RestingQty(book, id) \in Nat /\ RestingQty(new, id) \in Nat
      /\ TradedQty(m.fills, id) + RestingQty(new, id) + c
           = RestingQty(book, id) + Asked(order, order.qty, id)
      /\ id = order.orderId /\ order.orderType = "MARKET" => RestingQty(new, id) = 0
  <2> HIDE DEF book
  <2>1. QED
    BY <1>1, <1>2, <1>4, OrderHolds DEF Books
<1> HIDE DEF m
<1>6. c \in Nat /\ (c > 0 => id = order.orderId /\ order.orderType = "MARKET")
  BY <1>5 DEF Asked
<1>7. /\ cancels' \in Seq(CancelMsgs(OrderIds))
      /\ CancelledQty(cancels', id) = CancelledQty(cancels, id) + c
  <2>1. cancels \in Seq(CancelMsgs(OrderIds)) /\ CancelledQty(cancels, id) \in Nat
    BY CancelledValues DEF CInv
  <2>2. CASE m.remainingQty > 0 /\ order.orderType = "MARKET"
    <3> DEFINE x == CancelMsg(order.orderId, m.remainingQty)
    <3>1. x \in CancelMsgs(OrderIds) /\ InCancel(x, id) = c
      BY <1>1, <1>5, <2>2 DEF CancelMsg, CancelMsgs, InCancel, Asked
    <3>2. cancels' = Append(cancels, x)
      BY <1>3, <2>1, <2>2, AppendIsConcat DEF MarketRemainder
    <3> HIDE DEF x, c
    <3>3. CancelledQty(Append(cancels, x), id) = CancelledQty(cancels, id) + InCancel(x, id)
      BY <2>1, <3>1, CancelledAppend
    <3>4. QED
      BY <2>1, <3>1, <3>2, <3>3, AppendProperties
  <2>3. CASE ~(m.remainingQty > 0 /\ order.orderType = "MARKET")
    <3>1. cancels' = cancels
      BY <1>3, <2>1, <2>3, ConcatEmptySeq DEF MarketRemainder
    <3>2. c = 0
      BY <1>5, <2>3 DEF Asked
    <3> HIDE DEF c
    <3>3. QED
      BY <2>1, <3>1, <3>2
  <2>4. QED
    BY <2>2, <2>3
<1> HIDE DEF new, c
<1>8. books'[k] = new
  BY <1>1, <1>2, <1>3
<1>9. QED
  BY <1>1, <1>3, <1>5, <1>6, <1>7, <1>8 DEF m

\* An order is handled.
LEMMA CHandle ==
  ASSUME MInv, CInv, NEW order \in Order, Handle(order)
  PROVE  CInv'
<1> DEFINE k == order.marketId
           F == Match(books[k], order).fills
           S == ToSet(placed)
           T(id) == TradedQty(trades, id)
           T1(id) == TradedQty(trades', id)
           t(id) == TradedQty(F, id)
           R(x, id) == RestingQty(books[x], id)
           R1(x, id) == RestingQty(books'[x], id)
           C(id) == CancelledQty(cancels, id)
           C1(id) == CancelledQty(cancels', id)
           A(id) == Asked(order, order.qty, id)
<1>1. /\ placed' = Append(placed, order) /\ order.orderId \notin PlacedIds
      /\ \A x \in Markets : x # k => books'[x] = books[x]
  BY DEF Handle, MInv
<1>2. placed \in Seq(Order) /\ trades \in Seq(Fill(OrderIds, Prices)) /\ books \in [Markets -> Books]
  BY DEF MInv
<1>3. ToSet(placed') = S \cup {order}
  BY <1>1, <1>2, ToSetAppend
<1>4. ASSUME NEW id
      PROVE  /\ k \in Markets /\ t(id) \in Nat /\ R(k, id) \in Nat /\ R1(k, id) \in Nat
             /\ F \in Seq(Fill(OrderIds, Prices)) /\ T1(id) = T(id) + t(id)
             /\ cancels' \in Seq(CancelMsgs(OrderIds))
             /\ \E c \in Nat : C1(id) = C(id) + c /\ t(id) + R1(k, id) + c = R(k, id) + A(id)
  <2>1. /\ k \in Markets /\ F \in Seq(Fill(OrderIds, Prices)) /\ trades' = trades \o F
        /\ t(id) \in Nat /\ R(k, id) \in Nat /\ R1(k, id) \in Nat
        /\ cancels' \in Seq(CancelMsgs(OrderIds))
        /\ \E c \in Nat : C1(id) = C(id) + c /\ t(id) + R1(k, id) + c = R(k, id) + A(id)
    BY HandleHolds
  <2> HIDE DEF F
  <2>2. T1(id) = T(id) + t(id)
    BY <1>2, <2>1, TradedConcat
  <2> HIDE DEF t, R, R1, C, C1, A, k, T, T1
  <2>3. QED
    BY <2>1, <2>2
<1>5. \A id : T(id) \in Nat /\ C(id) \in Nat
  <2>1. cancels \in Seq(CancelMsgs(OrderIds))
    BY DEF CInv
  <2>2. QED
    BY <1>2, <2>1, TradedNat, CancelledValues
<1>6. \A x \in Markets : Stems(books[x], S, x) /\ books[x] \in Books
  BY <1>2 DEF MInv
<1>7. ASSUME NEW id, NEW x \in Markets, \A o \in S : o.orderId = id => o.marketId # x
      PROVE  R(x, id) = 0
  <2> DEFINE book == books[x]
  <2>1. Stems(book, S, x) /\ book \in Book(Users, OrderIds, Prices)
    BY <1>6 DEF Books
  <2> HIDE DEF book, S
  <2>2. Absent(book, id)
    BY <1>7, <2>1, NotThere
  <2>3. RestingQty(book, id) = 0
    BY <2>1, <2>2, AbsentRests
  <2>4. QED
    BY <2>3 DEF book
<1>8. \A o \in S : o.orderId # order.orderId
  BY <1>1 DEF PlacedIds
<1>9. order.orderId \in OrderIds /\ order.qty \in Nat /\ k \in Markets
  BY OrderIsTaker
<1>10. order.qty = T1(order.orderId) + R1(k, order.orderId) + C1(order.orderId)
  <2> DEFINE id == order.orderId
  <2>1. T(id) = 0
    <3>1. \A i \in 1..Len(trades) : InFill(trades[i], id) = 0
      <4>1. ASSUME NEW i \in 1..Len(trades) PROVE InFill(trades[i], id) = 0
        <5>1. trades[i] \in ToSet(trades)
          BY <1>2, Placed
        <5>2. PICK maker \in S, taker \in S :
                     trades[i].makerOrderId = maker.orderId /\ trades[i].takerOrderId = taker.orderId
          BY <5>1 DEF MInv, Legal
        <5>3. QED
          BY <1>8, <5>2 DEF InFill
      <4>2. QED
        BY <4>1
    <3> HIDE DEF id
    <3>2. QED
      BY <1>2, <3>1, TradedNone
  <2>2. C(id) = 0
    <3>1. cancels \in Seq(CancelMsgs(OrderIds)) /\ \A i \in 1..Len(cancels) : cancels[i].orderId # id
      BY <1>1 DEF CInv
    <3> HIDE DEF id
    <3>2. QED
      BY <3>1, CancelledNone
  <2>3. R(k, id) = 0
    BY <1>7, <1>8, <1>9
  <2>4. A(id) = order.qty
    BY DEF Asked
  <2> HIDE DEF id, T, C, R, A, k, t, T1, R1, C1
  <2>5. PICK c \in Nat : C1(id) = C(id) + c /\ t(id) + R1(k, id) + c = R(k, id) + A(id)
    BY <1>4
  <2>6. t(id) \in Nat /\ R1(k, id) \in Nat /\ T1(id) = T(id) + t(id)
    BY <1>4
  <2>7. order.qty = T1(id) + R1(k, id) + C1(id)
    BY <1>9, <2>1, <2>2, <2>3, <2>4, <2>5, <2>6
  <2>8. QED
    BY <2>7 DEF id
<1>11. ASSUME NEW o \in S
       PROVE  o.qty = T1(o.orderId) + R1(o.marketId, o.orderId) + C1(o.orderId)
  <2> DEFINE id == o.orderId
             x == o.marketId
  <2>1. o.qty = T(id) + R(x, id) + C(id)
    BY DEF CInv, QtyConserved
  <2>2. A(id) = 0
    BY <1>8 DEF Asked
  <2>3. x \in Markets
    <3>1. o \in Order
      BY <1>2, Placed, ElementOfSeq
    <3>2. QED
      BY <3>1, OrderIsTaker
  <2>4. R(x, id) \in Nat
    <3> DEFINE book == books[x]
    <3>1. book \in Book(Users, OrderIds, Prices)
      BY <1>6, <2>3 DEF Books
    <3> HIDE DEF book
    <3>2. RestingQty(book, id) \in Nat
      BY <3>1, RestingNat
    <3>3. QED
      BY <3>2 DEF book
  <2>5. x # k => R(k, id) = 0 /\ R1(x, id) = R(x, id)
    <3>1. ASSUME x # k PROVE R(k, id) = 0
      <4>1. \A y \in S : y.orderId = id => y.marketId # k
        BY <3>1, OneOrder
      <4>2. QED
        BY <1>7, <1>9, <4>1
    <3>2. QED
      BY <1>1, <2>3, <3>1
  <2> HIDE DEF id, T, C, R, A, t, T1, R1, C1, k, x
  <2>6. PICK c \in Nat : C1(id) = C(id) + c /\ t(id) + R1(k, id) + c = R(k, id) + A(id)
    BY <1>4
  <2>7. /\ t(id) \in Nat /\ R1(k, id) \in Nat /\ R(k, id) \in Nat /\ T1(id) = T(id) + t(id)
        /\ T(id) \in Nat /\ C(id) \in Nat
    BY <1>4, <1>5
  <2>8. CASE x = k
    BY <2>1, <2>2, <2>4, <2>6, <2>7, <2>8 DEF id, x
  <2>9. CASE x # k
    <3>1. t(id) = 0 /\ c = 0
      BY <2>2, <2>5, <2>6, <2>7, <2>9
    <3>2. QED
      BY <2>1, <2>4, <2>5, <2>6, <2>7, <2>9, <3>1 DEF id, x
  <2>10. QED
    BY <2>8, <2>9
<1>12. QtyConserved'
  <2>1. ASSUME NEW o \in ToSet(placed')
        PROVE  o.qty = T1(o.orderId) + R1(o.marketId, o.orderId) + C1(o.orderId)
    BY <1>3, <1>10, <1>11
  <2>2. QED
    BY <2>1 DEF QtyConserved
<1>13. \A i \in 1..Len(cancels') : \E o \in ToSet(placed') : o.orderId = cancels'[i].orderId
  <2> DEFINE n == Match(books[k], order).remainingQty
  <2>1. cancels' = cancels \o MarketRemainder(order, n)
    BY DEF Handle
  <2>2. cancels \in Seq(CancelMsgs(OrderIds)) /\ Len(cancels) \in Nat
    BY LenProperties DEF CInv
  <2>3. \A i \in 1..Len(cancels) : \E o \in ToSet(placed') : o.orderId = cancels[i].orderId
    BY <1>3 DEF CInv, PlacedIds
  <2> HIDE DEF n
  <2>4. CASE MarketRemainder(order, n) = <<>>
    <3>1. cancels' = cancels
      BY <2>1, <2>2, <2>4, ConcatEmptySeq
    <3>2. QED
      BY <2>3, <3>1
  <2>5. CASE MarketRemainder(order, n) # <<>>
    <3> DEFINE x == CancelMsg(order.orderId, n)
    <3>1. cancels' = Append(cancels, x)
      BY <2>1, <2>2, <2>5, AppendIsConcat DEF MarketRemainder
    <3>2. order \in ToSet(placed') /\ x.orderId = order.orderId
      BY <1>3 DEF CancelMsg
    <3> HIDE DEF x
    <3>3. /\ Len(cancels') = Len(cancels) + 1 /\ cancels'[Len(cancels) + 1] = x
          /\ \A i \in 1..Len(cancels) : cancels'[i] = cancels[i]
      BY <2>2, <3>1, AppendProperties
    <3>4. \A i \in 1..Len(cancels') : i \in 1..Len(cancels) \/ i = Len(cancels) + 1
      BY <2>2, <3>3
    <3>5. QED
      BY <2>3, <3>2, <3>3, <3>4
  <2>6. QED
    BY <2>4, <2>5
<1>14. cancels' \in Seq(CancelMsgs(OrderIds))
  BY <1>4
<1>15. QED
  <2>1. \A i \in 1..Len(cancels') : cancels'[i].orderId \in PlacedIds'
    BY <1>13 DEF PlacedIds
  <2>2. QED
    BY <1>12, <1>14, <2>1 DEF CInv

\* What a cancel makes of the quantity of any order: what it takes out of the book
\* it announces.
LEMMA CancelHolds ==
  ASSUME MInv, CInv, NEW order \in ToSet(placed), NEW id,
         NEW x \in RemovedOrders(books[order.marketId], order.side, order.price, order.orderId),
         cancels' = Append(cancels, CancelMsg(order.orderId, Fillable(x)))
  PROVE  LET k == order.marketId
             new == RemoveOrder(books[k], order.side, order.price, order.orderId)
         IN  /\ k \in Markets /\ order.side \in Sides
             /\ x \in Row(Users, OrderIds) /\ x.orderId = order.orderId
             /\ new \in Book(Users, OrderIds, Prices)
             /\ CancelMsg(order.orderId, Fillable(x)) \in CancelMsgs(OrderIds)
             /\ RestingQty(books[k], id) = RestingQty(new, id) + OfOrder(x, id)
             /\ CancelledQty(cancels', id) = CancelledQty(cancels, id) + OfOrder(x, id)
<1> DEFINE k == order.marketId
           book == books[k]
           new == RemoveOrder(book, order.side, order.price, order.orderId)
<1>1. k \in Markets /\ order.side \in Sides /\ order.orderId \in OrderIds
  <2>1. order \in Order
    BY Placed, ElementOfSeq DEF MInv
  <2>2. QED
    BY <2>1, OrderIsTaker
<1>2. book \in Book(Users, OrderIds, Prices)
  BY <1>1 DEF MInv, Books
<1>3. /\ x \in Row(Users, OrderIds) /\ x.orderId = order.orderId
      /\ RestingQty(book, id) = RestingQty(new, id) + OfOrder(x, id)
  <2> DEFINE side == order.side
             price == order.price
             oid == order.orderId
  <2>1. side \in Sides /\ x \in RemovedOrders(book, side, price, oid)
    BY <1>1
  <2> HIDE DEF side, price, oid, book, new
  <2>2. /\ x \in Row(Users, OrderIds) /\ x.orderId = oid
        /\ RestingQty(book, id) = RestingQty(RemoveOrder(book, side, price, oid), id) + OfOrder(x, id)
    BY <1>2, <2>1, RemoveHolds
  <2>3. QED
    BY <2>2 DEF side, price, oid, new
<1>4. new \in Book(Users, OrderIds, Prices)
  <2> DEFINE side == order.side
             price == order.price
             oid == order.orderId
  <2>1. side \in Sides
    BY <1>1
  <2> HIDE DEF side, price, oid, book
  <2>2. RemoveOrder(book, side, price, oid) \in Book(Users, OrderIds, Prices)
    BY <1>2, <2>1, RemoveSound
  <2>3. QED
    BY <2>2 DEF side, price, oid
<1> DEFINE c == CancelMsg(order.orderId, Fillable(x))
<1>5. c \in CancelMsgs(OrderIds) /\ InCancel(c, id) = OfOrder(x, id)
  <2>1. Fillable(x) \in Nat /\ x.orderId = order.orderId
    BY <1>3, RowWants
  <2>2. QED
    BY <1>1, <2>1 DEF CancelMsg, CancelMsgs, InCancel, OfOrder
<1>6. cancels \in Seq(CancelMsgs(OrderIds)) /\ cancels' = Append(cancels, c)
  BY DEF CInv
<1> HIDE DEF c
<1>7. CancelledQty(cancels', id) = CancelledQty(cancels, id) + OfOrder(x, id)
  <2>1. CancelledQty(Append(cancels, c), id) = CancelledQty(cancels, id) + InCancel(c, id)
    BY <1>5, <1>6, CancelledAppend
  <2>2. QED
    BY <1>5, <1>6, <2>1
<1>8. QED
  BY <1>1, <1>3, <1>4, <1>5, <1>7 DEF c

\* A cancel is handled.
LEMMA CCancel ==
  ASSUME MInv, CInv, NEW order \in ToSet(placed), Cancel(order)
  PROVE  CInv'
<1> DEFINE k == order.marketId
           book == books[k]
           new == RemoveOrder(book, order.side, order.price, order.orderId)
           S == ToSet(placed)
<1>1. PICK x \in RemovedOrders(book, order.side, order.price, order.orderId) :
         /\ books' = [books EXCEPT ![k] = new]
         /\ cancels' = Append(cancels, CancelMsg(order.orderId, Fillable(x)))
         /\ placed' = placed /\ trades' = trades
  BY DEF Cancel
<1> DEFINE c == CancelMsg(order.orderId, Fillable(x))
<1>2. ASSUME NEW id
      PROVE  /\ k \in Markets /\ x \in Row(Users, OrderIds) /\ x.orderId = order.orderId
             /\ new \in Book(Users, OrderIds, Prices) /\ c \in CancelMsgs(OrderIds)
             /\ RestingQty(book, id) = RestingQty(new, id) + OfOrder(x, id)
             /\ CancelledQty(cancels', id) = CancelledQty(cancels, id) + OfOrder(x, id)
  BY <1>1, CancelHolds
<1>3. books \in [Markets -> Books]
  BY DEF MInv
<1>4. \A id : RestingQty(book, id) = RestingQty(new, id) + OfOrder(x, id)
  BY <1>2
<1>5. k \in Markets /\ x \in Row(Users, OrderIds) /\ x.orderId = order.orderId
      /\ new \in Book(Users, OrderIds, Prices)
  BY <1>2
<1>6. c \in CancelMsgs(OrderIds) /\ c.orderId = order.orderId
  BY <1>2 DEF CancelMsg
<1>7. cancels \in Seq(CancelMsgs(OrderIds)) /\ Len(cancels) \in Nat
  BY LenProperties DEF CInv
<1>8. cancels' = Append(cancels, c)
  BY <1>1
<1> HIDE DEF c
<1>9. \A id : CancelledQty(cancels', id) = CancelledQty(cancels, id) + OfOrder(x, id)
  BY <1>2
<1>10. ASSUME NEW o \in S
       PROVE  o.qty = TradedQty(trades, o.orderId) + RestingQty(books'[o.marketId], o.orderId)
                      + CancelledQty(cancels', o.orderId)
  <2> DEFINE id == o.orderId
             T == TradedQty(trades, id)
             R == RestingQty(books[o.marketId], id)
             R1 == RestingQty(books'[o.marketId], id)
             C == CancelledQty(cancels, id)
             C1 == CancelledQty(cancels', id)
             w == OfOrder(x, id)
  <2>1. o.qty = T + R + C /\ C1 = C + w
    BY <1>9 DEF CInv, QtyConserved
  <2>2. T \in Nat /\ C \in Nat
    BY <1>7, TradedNat, CancelledValues DEF MInv
  <2>3. o.marketId \in Markets
    <3>1. o \in Order
      BY Placed, ElementOfSeq DEF MInv
    <3>2. QED
      BY <3>1, OrderIsTaker
  <2>4. w \in Nat
    BY <1>5, RowWants DEF OfOrder
  <2>5. CASE o.marketId = k
    <3>1. books'[o.marketId] = new
      BY <1>1, <1>3, <1>5, <2>5
    <3>2. R = R1 + w
      BY <1>4, <2>5, <3>1
    <3>3. R1 \in Nat
      <4> HIDE DEF new
      <4>1. RestingQty(new, id) \in Nat
        BY <1>5, RestingNat
      <4>2. QED
        BY <3>1, <4>1
    <3> HIDE DEF T, R, R1, C, C1, w
    <3>4. o.qty = T + R1 + C1
      BY <2>1, <2>2, <2>4, <3>2, <3>3
    <3>5. QED
      BY <3>4 DEF T, R1, C1
  <2>6. CASE o.marketId # k
    <3>1. books'[o.marketId] = books[o.marketId]
      BY <1>1, <1>3, <2>3, <2>6
    <3>2. w = 0
      <4>1. id # order.orderId
        BY <2>6, OneOrder
      <4>2. QED
        BY <1>5, <4>1 DEF OfOrder
    <3>3. R1 = R
      BY <3>1
    <3> HIDE DEF T, R, R1, C, C1, w
    <3>4. o.qty = T + R1 + C1
      BY <2>1, <2>2, <3>2, <3>3
    <3>5. QED
      BY <3>4 DEF T, R1, C1
  <2>7. QED
    BY <2>5, <2>6
<1>11. QtyConserved'
  BY <1>1, <1>10 DEF QtyConserved
<1>12. \A i \in 1..Len(cancels') : cancels'[i].orderId \in PlacedIds
  <2>1. /\ Len(cancels') = Len(cancels) + 1 /\ cancels'[Len(cancels) + 1] = c
        /\ \A i \in 1..Len(cancels) : cancels'[i] = cancels[i]
    BY <1>6, <1>7, <1>8, AppendProperties
  <2>2. c.orderId \in PlacedIds
    BY <1>6 DEF PlacedIds
  <2>3. \A i \in 1..Len(cancels') : i \in 1..Len(cancels) \/ i = Len(cancels) + 1
    BY <1>7, <2>1
  <2>4. QED
    BY <2>1, <2>2, <2>3 DEF CInv
<1>13. cancels' \in Seq(CancelMsgs(OrderIds))
  BY <1>6, <1>7, <1>8, AppendProperties
<1>14. PlacedIds' = PlacedIds
  BY <1>1 DEF PlacedIds
<1>15. QED
  BY <1>11, <1>12, <1>13, <1>14 DEF CInv

\* No step breaks the invariant.
LEMMA CNext == MInv /\ CInv /\ [Next]_vars => CInv'
<1> SUFFICES ASSUME MInv, CInv, [Next]_vars PROVE CInv'
  OBVIOUS
<1>1. CASE \E order \in Order : Handle(order)
  BY <1>1, CHandle
<1>2. CASE \E order \in ToSet(placed) : Cancel(order)
  BY <1>2, CCancel
<1>3. CASE UNCHANGED vars
  BY <1>3 DEF vars, CInv, PlacedIds, QtyConserved
<1>4. QED
  BY <1>1, <1>2, <1>3 DEF Next

\* What an order traded, what of it rests and what was cancelled of it add up
\* to its quantity, for any number of orders, partial fills and cancels
\* (helper.ts: match counts remainingQty, filledQty and availableQty apart).
THEOREM QuantitiesAddUp == Spec => []QtyConserved
<1>1. CInv => QtyConserved
  BY DEF CInv
<1>2. QED
  BY <1>1, MAlways, CInit, CNext, PTL DEF Spec

-----------------------------------------------------------------------------
(* Cancels are final. *)

\* The orders of s have an id each.
Unique(s) == \A i, j \in 1..Len(s) : s[i].orderId = s[j].orderId => i = j

\* When the orders of s were handled.
RanksIn(s) == [id \in OrderIds |-> SelectInSeq(s, LAMBDA o : o.orderId = id)]

\* The queues are in the order the orders were handled, and nothing rests of an
\* order that something was cancelled of.
FInv ==
  /\ \A m \in Markets : RankedBook(books[m], RanksIn(placed))
  /\ \A o \in ToSet(placed) :
       CancelledQty(cancels, o.orderId) > 0 => RestingQty(books[o.marketId], o.orderId) = 0

\* The rank of an order is its place.
LEMMA RankIsPlace ==
  ASSUME NEW s \in Seq(Order), Unique(s)
  PROVE  /\ RanksIn(s) \in [OrderIds -> Nat]
         /\ \A k \in 1..Len(s) : s[k].orderId \in OrderIds /\ RanksIn(s)[s[k].orderId] = k
<1>1. Len(s) \in Nat /\ \A k \in 1..Len(s) : s[k] \in Order
  BY LenProperties, ElementOfSeq
<1> DEFINE B(id) == {i \in 1..Len(s) : s[i].orderId = id}
<1>2. \A id \in OrderIds : RanksIn(s)[id] = IF B(id) # {} THEN Min(B(id)) ELSE 0
  BY DEF RanksIn, SelectInSeq
<1>3. \A k \in 1..Len(s) : B(s[k].orderId) = {k}
  BY DEF Unique
<1>4. \A id : B(id) # {} => \E k \in 1..Len(s) : id = s[k].orderId
  OBVIOUS
<1> HIDE DEF B
<1>5. \A k \in 1..Len(s) : Min({k}) = k
  BY DEF Min
<1>6. \A k \in 1..Len(s) : s[k].orderId \in OrderIds
  BY <1>1, OrderIsTaker
<1>7. \A k \in 1..Len(s) : RanksIn(s)[s[k].orderId] = k
  BY <1>2, <1>3, <1>5, <1>6
<1>8. \A id \in OrderIds : RanksIn(s)[id] \in Nat
  <2>1. ASSUME NEW id \in OrderIds PROVE RanksIn(s)[id] \in Nat
    <3>1. CASE B(id) = {}
      BY <1>2, <3>1
    <3>2. CASE B(id) # {}
      <4>1. PICK k \in 1..Len(s) : id = s[k].orderId
        BY <1>4, <3>2
      <4>2. QED
        BY <1>7, <4>1
    <3>3. QED
      BY <3>1, <3>2
  <2>2. QED
    BY <2>1
<1>9. RanksIn(s) \in [OrderIds -> Nat]
  BY <1>8 DEF RanksIn
<1>10. QED
  BY <1>6, <1>7, <1>9

\* An order that is handled comes after those handled before, whose ranks stay.
LEMMA RanksGrow ==
  ASSUME NEW s \in Seq(Order), Unique(s), NEW order \in Order,
         NEW t \in Seq(Order), Unique(t), t = Append(s, order)
  PROVE  \A o \in ToSet(s) : /\ RanksIn(t)[o.orderId] = RanksIn(s)[o.orderId]
                             /\ RanksIn(t)[o.orderId] < RanksIn(t)[order.orderId]
<1>1. Len(t) = Len(s) + 1 /\ t[Len(s) + 1] = order /\ \A i \in 1..Len(s) : t[i] = s[i]
  BY AppendProperties
<1>2. Len(s) \in Nat
  BY LenProperties
<1>3. \A k \in 1..Len(s) : RanksIn(s)[s[k].orderId] = k
  BY RankIsPlace
<1>4. \A k \in 1..Len(t) : RanksIn(t)[t[k].orderId] = k
  BY RankIsPlace
<1>5. RanksIn(t)[order.orderId] = Len(s) + 1
  BY <1>1, <1>2, <1>4
<1>6. ASSUME NEW o \in ToSet(s)
      PROVE  /\ RanksIn(t)[o.orderId] = RanksIn(s)[o.orderId]
             /\ RanksIn(t)[o.orderId] < RanksIn(t)[order.orderId]
  <2>1. PICK k \in 1..Len(s) : s[k] = o
    BY Placed
  <2>2. k \in 1..Len(t) /\ t[k] = o
    BY <1>1, <1>2, <2>1
  <2>3. RanksIn(s)[o.orderId] = k /\ RanksIn(t)[o.orderId] = k
    BY <1>3, <1>4, <2>1, <2>2
  <2>4. QED
    BY <1>2, <1>5, <2>3
<1>7. QED
  BY <1>6

\* The ids of a book are those of the orders its rows stem from.
LEMMA StemsIds ==
  ASSUME NEW book, NEW S, NEW k, Stems(book, S, k)
  PROVE  Everywhere(book, {o.orderId : o \in S})
<1>1. ASSUME NEW l \in Ladders, NEW p \in DOMAIN book[l], NEW i \in 1..Len(book[l][p].openOrders)
      PROVE  book[l][p].openOrders[i].orderId \in {o.orderId : o \in S}
  <2>1. PICK side \in Sides : l = LadderOf(side)
    BY DEF Ladders, Sides, LadderOf
  <2>2. PICK o \in S : o.orderId = book[LadderOf(side)][p].openOrders[i].orderId
    BY <2>1 DEF Stems
  <2>3. QED
    BY <2>1, <2>2
<1>2. QED
  BY <1>1 DEF Everywhere

\* Nothing rests yet.
LEMMA FInit == Init => FInv
<1> SUFFICES ASSUME Init PROVE FInv
  OBVIOUS
<1>1. books = [m \in Markets |-> EmptyBook] /\ placed = <<>>
  BY DEF Init
<1>2. ToSet(placed) = {}
  BY <1>1 DEF ToSet
<1>3. \A rank : RankedBook(EmptyBook, rank)
  BY DEF RankedBook, EmptyBook, EmptyLadder, Ladders
<1>4. QED
  BY <1>1, <1>2, <1>3 DEF FInv

\* What a handled order makes of its market's book: the leftover goes to the end
\* of its queue.
LEMMA HandleRanked ==
  ASSUME MInv, FInv, NEW order \in Order, Handle(order), MInv'
  PROVE  \A m \in Markets : RankedBook(books'[m], RanksIn(placed'))
<1> DEFINE k == order.marketId
           book == books[k]
           m == Match(book, order)
           rested == RestLeftover(m.book, order, m.remainingQty)
           new == SetLastTrade(rested, m.fills)
           S == ToSet(placed)
           ids == {o.orderId : o \in S}
           r0 == RanksIn(placed)
           r1 == RanksIn(placed')
<1>1. /\ Taker(order, Users, OrderIds, Prices) /\ k \in Markets /\ order.side \in Sides
  BY OrderIsTaker
<1>2. book \in Books /\ books \in [Markets -> Books]
  BY <1>1 DEF MInv
<1>3. placed' = Append(placed, order) /\ books' = [books EXCEPT ![k] = new]
  BY DEF Handle
<1>4. \A id \in ids : r1[id] = r0[id] /\ r1[id] < r1[order.orderId]
  <2> DEFINE t == placed'
  <2>1. /\ placed \in Seq(Order) /\ t \in Seq(Order) /\ t = Append(placed, order)
        /\ Unique(placed) /\ Unique(t)
    BY <1>3 DEF MInv, Unique
  <2> HIDE DEF t
  <2>2. \A o \in ToSet(placed) : /\ RanksIn(t)[o.orderId] = RanksIn(placed)[o.orderId]
                               /\ RanksIn(t)[o.orderId] < RanksIn(t)[order.orderId]
    BY <2>1, RanksGrow
  <2>3. QED
    BY <2>2 DEF t
<1>5. ASSUME NEW x \in Markets PROVE RankedBook(books[x], r1) /\ Everywhere(books[x], ids)
  <2> DEFINE b == books[x]
  <2>1. Stems(b, S, x) /\ RankedBook(b, r0)
    BY DEF MInv, FInv
  <2> HIDE DEF b, S, r0, r1
  <2>2. Everywhere(b, ids)
    BY <2>1, StemsIds
  <2> HIDE DEF ids
  <2>3. RankedBook(b, r1)
    BY <1>4, <2>1, <2>2, RankedAgain
  <2>4. QED
    BY <2>2, <2>3 DEF b
<1> HIDE DEF S, ids, r0, r1
<1>6. RankedBook(book, r1) /\ Everywhere(book, ids)
  BY <1>1, <1>5
<1> HIDE DEF book
<1>7. BookMatched(m, book, order, Users, OrderIds, Prices)
  BY <1>1, <1>2, PricesAreNat, MatchSound DEF Books
<1> HIDE DEF m
<1>8. /\ m.book \in Books /\ m.remainingQty \in Nat /\ FromBook(m.book, book)
      /\ m.fills \in Seq(Fill(OrderIds, Prices))
  BY <1>7 DEF BookMatched, Books
<1>9. RankedBook(m.book, r1) /\ Everywhere(m.book, ids)
  BY <1>6, <1>8, RankedFrom, EverywhereFrom
<1>10. RankedBook(rested, r1)
  <2> DEFINE b == m.book
  <2>1. b \in Book(Users, OrderIds, Prices) /\ RankedBook(b, r1) /\ Everywhere(b, ids)
    BY <1>8, <1>9 DEF Books
  <2> HIDE DEF b
  <2>2. RankedBook(RestLeftover(b, order, m.remainingQty), r1)
    BY <1>1, <1>4, <1>8, <2>1, RankedRest
  <2>3. QED
    BY <2>2 DEF b
<1>11. RestDone(rested, m.book, order, m.remainingQty, Users, OrderIds, Prices)
  BY <1>1, <1>8, PricesAreNat, RestSound DEF Books
<1> HIDE DEF rested
<1>12. rested \in Books
  BY <1>11 DEF RestDone, Books
<1>13. new.bids = rested.bids /\ new.asks = rested.asks
  BY <1>8, <1>12, LastTradeSet DEF Books
<1> HIDE DEF new
<1>14. FromBook(new, rested)
  BY <1>13, FromItself DEF FromBook
<1>15. RankedBook(new, r1)
  BY <1>10, <1>14, RankedFrom
<1>16. \A x \in Markets : books'[x] = IF x = k THEN new ELSE books[x]
  BY <1>2, <1>3
<1>17. \A x \in Markets : RankedBook(books'[x], r1)
  BY <1>5, <1>15, <1>16
<1>18. QED
  BY <1>17 DEF r1

\* An order is handled.
LEMMA FHandle ==
  ASSUME MInv, CInv, FInv, NEW order \in Order, Handle(order), MInv'
  PROVE  FInv'
<1> DEFINE k == order.marketId
           F == Match(books[k], order).fills
           S == ToSet(placed)
           t(id) == TradedQty(F, id)
           R(x, id) == RestingQty(books[x], id)
           R1(x, id) == RestingQty(books'[x], id)
           C(id) == CancelledQty(cancels, id)
           C1(id) == CancelledQty(cancels', id)
           A(id) == Asked(order, order.qty, id)
<1>1. /\ placed' = Append(placed, order) /\ order.orderId \notin PlacedIds
      /\ \A x \in Markets : x # k => books'[x] = books[x]
  BY DEF Handle, MInv
<1>2. ToSet(placed') = S \cup {order}
  BY <1>1, ToSetAppend DEF MInv
<1>3. ASSUME NEW id
      PROVE  /\ t(id) \in Nat /\ R(k, id) \in Nat /\ R1(k, id) \in Nat
             /\ id = order.orderId /\ order.orderType = "MARKET" => R1(k, id) = 0
             /\ \E c \in Nat : /\ C1(id) = C(id) + c
                               /\ c > 0 => id = order.orderId /\ order.orderType = "MARKET"
                               /\ t(id) + R1(k, id) + c = R(k, id) + A(id)
  BY HandleHolds
<1>4. \A o \in S : o.orderId # order.orderId
  BY <1>1 DEF PlacedIds
<1>5. ASSUME NEW id PROVE C(id) \in Nat
  BY CancelledValues DEF CInv
<1>6. C1(order.orderId) > 0 => R1(k, order.orderId) = 0
  <2> DEFINE id == order.orderId
  <2>1. C(id) = 0
    <3>1. cancels \in Seq(CancelMsgs(OrderIds)) /\ \A i \in 1..Len(cancels) : cancels[i].orderId # id
      BY <1>1 DEF CInv
    <3> HIDE DEF id
    <3>2. QED
      BY <3>1, CancelledNone
  <2> HIDE DEF t, R, R1, C, C1, A, k
  <2>2. PICK c \in Nat : /\ C1(id) = C(id) + c
                         /\ c > 0 => id = order.orderId /\ order.orderType = "MARKET"
    BY <1>3
  <2>3. CASE c > 0
    BY <1>3, <2>2, <2>3
  <2>4. CASE ~(c > 0)
    BY <2>1, <2>2, <2>4
  <2>5. QED
    BY <2>3, <2>4
<1>7. ASSUME NEW o \in S, C1(o.orderId) > 0 PROVE R1(o.marketId, o.orderId) = 0
  <2> DEFINE id == o.orderId
             x == o.marketId
  <2>1. id # order.orderId /\ A(id) = 0
    BY <1>4 DEF Asked
  <2>2. x \in Markets
    <3>1. o \in Order
      BY Placed, ElementOfSeq DEF MInv
    <3>2. QED
      BY <3>1, OrderIsTaker
  <2>3. C(id) > 0 => R(x, id) = 0
    BY DEF FInv
  <2>4. x # k => R1(x, id) = R(x, id)
    BY <1>1, <2>2
  <2>5. C1(id) > 0
    BY <1>7
  <2> HIDE DEF t, R, R1, C, C1, A, k, id, x
  <2>6. PICK c \in Nat : /\ C1(id) = C(id) + c
                         /\ c > 0 => id = order.orderId /\ order.orderType = "MARKET"
                         /\ t(id) + R1(k, id) + c = R(k, id) + A(id)
    BY <1>3
  <2>7. c = 0 /\ C(id) > 0
    BY <1>5, <2>1, <2>5, <2>6
  <2>8. R(x, id) = 0
    BY <2>3, <2>7
  <2>9. CASE x = k
    <3>1. t(id) \in Nat /\ R1(k, id) \in Nat
      BY <1>3
    <3>2. R1(k, id) = 0
      BY <2>1, <2>6, <2>7, <2>8, <2>9, <3>1
    <3>3. QED
      BY <2>9, <3>2 DEF id, x
  <2>10. CASE x # k
    BY <2>4, <2>8, <2>10 DEF id, x
  <2>11. QED
    BY <2>9, <2>10
<1>8. \A o \in ToSet(placed') : C1(o.orderId) > 0 => R1(o.marketId, o.orderId) = 0
  BY <1>2, <1>6, <1>7
<1>9. QED
  BY <1>8, HandleRanked DEF FInv

\* A cancelled order is gone from its book: it rested once, where its side and
\* price say.
LEMMA CancelledIsGone ==
  ASSUME MInv, FInv, NEW order \in ToSet(placed),
         NEW x \in RemovedOrders(books[order.marketId], order.side, order.price, order.orderId)
  PROVE  Absent(RemoveOrder(books[order.marketId], order.side, order.price, order.orderId),
                order.orderId)
<1> DEFINE k == order.marketId
           book == books[k]
           side == order.side
           price == order.price
           id == order.orderId
           rank == RanksIn(placed)
           S == ToSet(placed)
<1>1. k \in Markets /\ side \in Sides
  <2>1. order \in Order
    BY Placed, ElementOfSeq DEF MInv
  <2>2. QED
    BY <2>1, OrderIsTaker
<1>2. book \in Book(Users, OrderIds, Prices) /\ Stems(book, S, k) /\ RankedBook(book, rank)
  BY <1>1 DEF MInv, Books, FInv
<1>3. rank \in [OrderIds -> Nat]
  BY RankIsPlace DEF MInv, Unique
<1>4. \A o \in S : o.orderId = id => o = order
  BY OneOrder
<1>5. x \in RemovedOrders(book, side, price, id)
  OBVIOUS
<1>6. \A o \in S : o.orderId = id => o.side = side /\ o.price = price
  BY <1>4
<1> HIDE DEF book, side, price, id, rank, S
<1>7. ASSUME NEW l \in Ladders, NEW p \in DOMAIN book[l], ~(l = LadderOf(side) /\ p = price),
             NEW i \in 1..Len(book[l][p].openOrders)
      PROVE  book[l][p].openOrders[i].orderId # id
  <2>1. PICK s \in Sides : l = LadderOf(s)
    BY DEF Ladders, Sides, LadderOf
  <2>2. PICK o \in S : /\ o.orderId = book[l][p].openOrders[i].orderId
                       /\ o.side = s /\ o.price = p
    BY <1>2, <2>1 DEF Stems
  <2>3. QED
    BY <1>6, <1>7, <2>1, <2>2
<1>8. Absent(RemoveOrder(book, side, price, id), id)
  BY <1>1, <1>2, <1>3, <1>5, <1>7, RemovedIsGone
<1>9. QED
  BY <1>8 DEF book, side, price, id

\* A cancel is handled.
LEMMA FCancel ==
  ASSUME MInv, CInv, FInv, NEW order \in ToSet(placed), Cancel(order)
  PROVE  FInv'
<1> DEFINE k == order.marketId
           book == books[k]
           new == RemoveOrder(book, order.side, order.price, order.orderId)
           S == ToSet(placed)
<1>1. PICK x \in RemovedOrders(book, order.side, order.price, order.orderId) :
         /\ books' = [books EXCEPT ![k] = new]
         /\ cancels' = Append(cancels, CancelMsg(order.orderId, Fillable(x)))
         /\ placed' = placed
  BY DEF Cancel
<1>2. ASSUME NEW id
      PROVE  /\ k \in Markets /\ order.side \in Sides
             /\ x \in Row(Users, OrderIds) /\ x.orderId = order.orderId
             /\ new \in Book(Users, OrderIds, Prices)
             /\ RestingQty(book, id) = RestingQty(new, id) + OfOrder(x, id)
             /\ CancelledQty(cancels', id) = CancelledQty(cancels, id) + OfOrder(x, id)
  BY <1>1, CancelHolds
<1>3. /\ k \in Markets /\ order.side \in Sides
      /\ x \in Row(Users, OrderIds) /\ x.orderId = order.orderId
      /\ new \in Book(Users, OrderIds, Prices)
  BY <1>2
<1>4. Absent(new, order.orderId)
  BY <1>1, CancelledIsGone
<1>5. FromBook(new, book) /\ RankedBook(book, RanksIn(placed))
  <2> DEFINE side == order.side
             price == order.price
             oid == order.orderId
  <2>1. side \in Sides /\ book \in Book(Users, OrderIds, Prices) /\ RankedBook(book, RanksIn(placed))
    BY <1>3 DEF MInv, FInv, Books
  <2> HIDE DEF side, price, oid, book
  <2>2. FromBook(RemoveOrder(book, side, price, oid), book)
    BY <2>1, RemoveSound
  <2>3. QED
    BY <2>1, <2>2 DEF side, price, oid
<1>6. \A m \in Markets : books'[m] = IF m = k THEN new ELSE books[m]
  BY <1>1, <1>3 DEF MInv
<1> HIDE DEF new
<1>7. ASSUME NEW m \in Markets PROVE RankedBook(books'[m], RanksIn(placed))
  <2>1. CASE m = k
    <3> HIDE DEF book
    <3>1. RankedBook(new, RanksIn(placed))
      BY <1>5, RankedFrom
    <3>2. QED
      BY <1>6, <2>1, <3>1
  <2>2. CASE m # k
    BY <1>6, <2>2 DEF FInv
  <2>3. QED
    BY <2>1, <2>2
<1>8. ASSUME NEW o \in S, CancelledQty(cancels', o.orderId) > 0
      PROVE  RestingQty(books'[o.marketId], o.orderId) = 0
  <2> DEFINE id == o.orderId
             m == o.marketId
  <2>1. CASE o = order
    <3>1. RestingQty(new, order.orderId) = 0
      <4> DEFINE oid == order.orderId
      <4>1. Absent(new, oid) /\ new \in Book(Users, OrderIds, Prices)
        BY <1>3, <1>4
      <4> HIDE DEF oid
      <4>2. RestingQty(new, oid) = 0
        BY <4>1, AbsentRests
      <4>3. QED
        BY <4>2 DEF oid
    <3>2. QED
      BY <1>3, <1>6, <2>1, <3>1
  <2>2. CASE o # order
    <3>1. id # order.orderId
      BY <2>2, OneOrder
    <3>2. OfOrder(x, id) = 0
      BY <1>3, <3>1 DEF OfOrder
    <3>3. CancelledQty(cancels, id) \in Nat
      BY CancelledValues DEF CInv
    <3>4. RestingQty(new, id) \in Nat
      BY <1>3, RestingNat
    <3>5. CancelledQty(cancels', id) = CancelledQty(cancels, id) + 0
      BY <1>2, <3>2
    <3>6. RestingQty(book, id) = RestingQty(new, id) + 0
      BY <1>2, <3>2
    <3>7. RestingQty(books[m], id) = 0
      BY <1>8, <3>3, <3>5 DEF FInv
    <3>8. m \in Markets
      <4>1. o \in Order
        BY Placed, ElementOfSeq DEF MInv
      <4>2. QED
        BY <4>1, OrderIsTaker
    <3>9. QED
      BY <1>6, <3>4, <3>6, <3>7, <3>8
  <2>3. QED
    BY <2>1, <2>2
<1>9. QED
  BY <1>1, <1>7, <1>8 DEF FInv

\* No step breaks the invariant.
LEMMA FNext == MInv /\ MInv' /\ CInv /\ FInv /\ [Next]_vars => FInv'
<1> SUFFICES ASSUME MInv, MInv', CInv, FInv, [Next]_vars PROVE FInv'
  OBVIOUS
<1>1. CASE \E order \in Order : Handle(order)
  BY <1>1, FHandle
<1>2. CASE \E order \in ToSet(placed) : Cancel(order)
  BY <1>2, FCancel
<1>3. CASE UNCHANGED vars
  BY <1>3 DEF vars, FInv
<1>4. QED
  BY <1>1, <1>2, <1>3 DEF Next

\* What was traded and cancelled of an order only grows.
LEMMA NothingTakenBack ==
  ASSUME MInv, CInv, [Next]_vars, NEW id
  PROVE  /\ \E t \in Nat : TradedQty(trades', id) = TradedQty(trades, id) + t
         /\ \E c \in Nat : CancelledQty(cancels', id) = CancelledQty(cancels, id) + c
<1>1. /\ TradedQty(trades, id) \in Nat /\ CancelledQty(cancels, id) \in Nat
      /\ trades \in Seq(Fill(OrderIds, Prices))
  BY TradedNat, CancelledValues DEF MInv, CInv
<1>2. CASE UNCHANGED <<trades, cancels>>
  <2>1. /\ TradedQty(trades', id) = TradedQty(trades, id) + 0
        /\ CancelledQty(cancels', id) = CancelledQty(cancels, id) + 0
    BY <1>1, <1>2
  <2>2. QED
    BY <2>1
<1>3. CASE \E order \in Order : Handle(order)
  <2>1. PICK order \in Order : Handle(order)
    BY <1>3
  <2> DEFINE F == Match(books[order.marketId], order).fills
  <2>2. /\ F \in Seq(Fill(OrderIds, Prices)) /\ trades' = trades \o F /\ TradedQty(F, id) \in Nat
        /\ \E c \in Nat : CancelledQty(cancels', id) = CancelledQty(cancels, id) + c
    BY <2>1, HandleHolds
  <2> HIDE DEF F
  <2>3. TradedQty(trades', id) = TradedQty(trades, id) + TradedQty(F, id)
    BY <1>1, <2>2, TradedConcat
  <2>4. QED
    BY <2>2, <2>3
<1>4. CASE \E order \in ToSet(placed) : Cancel(order)
  <2>1. PICK order \in ToSet(placed) : Cancel(order)
    BY <1>4
  <2>2. PICK x \in RemovedOrders(books[order.marketId], order.side, order.price, order.orderId) :
           /\ cancels' = Append(cancels, CancelMsg(order.orderId, Fillable(x)))
           /\ trades' = trades
    BY <2>1 DEF Cancel
  <2>3. /\ x \in Row(Users, OrderIds)
        /\ CancelledQty(cancels', id) = CancelledQty(cancels, id) + OfOrder(x, id)
    BY <2>2, CancelHolds
  <2>4. OfOrder(x, id) \in Nat
    BY <2>3, RowWants DEF OfOrder
  <2>5. TradedQty(trades', id) = TradedQty(trades, id) + 0
    BY <1>1, <2>2
  <2>6. QED
    BY <2>3, <2>4, <2>5
<1>5. QED
  BY <1>2, <1>3, <1>4 DEF Next, vars

\* Nothing is traded of an order that something was cancelled of, and nothing more
\* is cancelled of it, whatever else is handled (book.ts: removeOrder takes an
\* order out whole; index.ts: the remainder of a market order does not rest).
THEOREM CancelsAreFinal == Spec => CancelIsFinal
<1>1. ASSUME MInv, CInv, FInv, MInv', CInv', [Next]_vars,
             NEW o \in ToSet(placed), CancelledQty(cancels, o.orderId) > 0
      PROVE  /\ TradedQty(trades', o.orderId) = TradedQty(trades, o.orderId)
             /\ CancelledQty(cancels', o.orderId) = CancelledQty(cancels, o.orderId)
  <2> DEFINE id == o.orderId
             m == o.marketId
             T == TradedQty(trades, id)
             T1 == TradedQty(trades', id)
             C == CancelledQty(cancels, id)
             C1 == CancelledQty(cancels', id)
             R == RestingQty(books[m], id)
             R1 == RestingQty(books'[m], id)
  <2>1. R = 0 /\ o.qty = T + R + C
    BY <1>1 DEF FInv, CInv, QtyConserved
  <2>2. o \in ToSet(placed')
    <3>1. placed \in Seq(Order)
      BY <1>1 DEF MInv
    <3>2. placed' = placed \/ \E order \in Order : placed' = Append(placed, order)
      BY <1>1 DEF Next, Handle, Cancel, vars
    <3>3. CASE placed' = placed
      BY <1>1, <3>3
    <3>4. CASE \E order \in Order : placed' = Append(placed, order)
      <4>1. PICK order \in Order : placed' = Append(placed, order)
        BY <3>4
      <4>2. ToSet(Append(placed, order)) = ToSet(placed) \cup {order}
        BY <3>1, ToSetAppend
      <4>3. QED
        BY <1>1, <4>1, <4>2
    <3>5. QED
      BY <3>2, <3>3, <3>4
  <2>3. o.qty = T1 + R1 + C1
    BY <1>1, <2>2 DEF CInv, QtyConserved
  <2>4. R1 \in Nat
    <3> DEFINE book == books'[m]
    <3>1. m \in Markets
      <4>1. o \in Order
        BY <1>1, Placed, ElementOfSeq DEF MInv
      <4>2. QED
        BY <4>1, OrderIsTaker
    <3>2. book \in Book(Users, OrderIds, Prices)
      BY <1>1, <3>1 DEF MInv, Books
    <3> HIDE DEF book, m
    <3>3. RestingQty(book, id) \in Nat
      BY <3>2, RestingNat
    <3>4. QED
      BY <3>3 DEF book
  <2>5. T \in Nat /\ C \in Nat
    BY <1>1, TradedNat, CancelledValues DEF MInv, CInv
  <2>6. PICK t \in Nat : T1 = T + t
    BY <1>1, NothingTakenBack
  <2>7. PICK c \in Nat : C1 = C + c
    BY <1>1, NothingTakenBack
  <2> HIDE DEF T, T1, C, C1, R, R1, id
  <2>8. T1 = T /\ C1 = C
    BY <2>1, <2>3, <2>4, <2>5, <2>6, <2>7
  <2>9. QED
    BY <2>8 DEF T, T1, C, C1, id
<1>2. MInv /\ CInv /\ FInv /\ MInv' /\ CInv' /\ [Next]_vars =>
        [\A o \in ToSet(placed) : CancelledQty(cancels, o.orderId) > 0 =>
           /\ TradedQty(trades', o.orderId) = TradedQty(trades, o.orderId)
           /\ CancelledQty(cancels', o.orderId) = CancelledQty(cancels, o.orderId)]_vars
  BY <1>1
<1>3. QED
  BY <1>2, MAlways, CInit, CNext, FInit, FNext, PTL DEF Spec, CancelIsFinal
-----------------------------------------------------------------------------
(* Price-time priority. *)

\* A row of an order's id in a book is where the order rests, and its owner's.
LEMMA RowIsOf ==
  ASSUME MInv, NEW b, NEW k, Stems(b, ToSet(placed), k), NEW x \in ToSet(placed),
         NEW side \in Sides, NEW p \in DOMAIN b[LadderOf(side)],
         NEW i \in 1..Len(b[LadderOf(side)][p].openOrders),
         b[LadderOf(side)][p].openOrders[i].orderId = x.orderId
  PROVE  side = x.side /\ p = x.price /\ b[LadderOf(side)][p].openOrders[i].userId = x.userId
<1>1. PICK o \in ToSet(placed) :
             /\ o.orderId = b[LadderOf(side)][p].openOrders[i].orderId
             /\ o.userId = b[LadderOf(side)][p].openOrders[i].userId
             /\ o.side = side /\ o.price = p
  BY DEF Stems
<1>2. o = x
  BY <1>1, OneOrder
<1>3. QED
  BY <1>1, <1>2

\* No row of the queue at x's place is x's.
Gone(b, x) ==
  x.price \in DOMAIN b[LadderOf(x.side)] =>
    \A i \in 1..Len(b[LadderOf(x.side)][x.price].openOrders) :
      b[LadderOf(x.side)][x.price].openOrders[i].orderId # x.orderId

\* A match of an order that is new.
LEMMA NewMatch ==
  ASSUME MInv, NEW order \in Order, order.orderId \notin PlacedIds
  PROVE  LET book == books[order.marketId]
             m == Match(book, order)
         IN  /\ order.marketId \in Markets /\ book \in Books
             /\ Stems(book, ToSet(placed), order.marketId)
             /\ BookMatched(m, book, order, Users, OrderIds, Prices)
             /\ m.book \in Books /\ m.fills \in Seq(Fill(OrderIds, Prices))
             /\ m.remainingQty \in Nat /\ FromBook(m.book, book)
             /\ Stems(m.book, ToSet(placed), order.marketId)
             /\ Absent(book, order.orderId)
             /\ \A id : TradedQty(m.fills, id) + RestingQty(m.book, id)
                          + Asked(order, m.remainingQty, id)
                        = RestingQty(book, id) + Asked(order, order.qty, id)
<1> DEFINE k == order.marketId
           book == books[k]
           m == Match(book, order)
           S == ToSet(placed)
<1>1. Taker(order, Users, OrderIds, Prices) /\ k \in Markets /\ Prices \in SUBSET Nat
  BY OrderIsTaker, PricesAreNat
<1>2. book \in Books /\ Stems(book, S, k)
  BY <1>1 DEF MInv
<1>3. \A o \in S : o.orderId # order.orderId
  BY DEF PlacedIds
<1> HIDE DEF book, S
<1>4. BookMatched(m, book, order, Users, OrderIds, Prices)
  BY <1>1, <1>2, PricesAreNat, MatchSound DEF Books
<1>5. Absent(book, order.orderId)
  BY <1>2, <1>3, NotThere
<1>6. ASSUME NEW id
      PROVE  TradedQty(m.fills, id) + RestingQty(m.book, id) + Asked(order, m.remainingQty, id)
               = RestingQty(book, id) + Asked(order, order.qty, id)
  <2>1. OwnBook(book, order)
    BY <1>5, AbsentIsOwn
  <2>2. QED
    BY <1>1, <1>2, <2>1, MatchHolds DEF Books
<1> HIDE DEF m
<1>7. /\ m.book \in Books /\ m.remainingQty \in Nat /\ FromBook(m.book, book)
      /\ m.fills \in Seq(Fill(OrderIds, Prices))
  BY <1>4 DEF BookMatched, Books
<1>8. Stems(m.book, S, k)
  BY <1>2, <1>7, StemsFrom
<1>9. QED
  BY <1>1, <1>2, <1>4, <1>5, <1>6, <1>7, <1>8 DEF m, book, S

\* An order that is gone from its place has traded all that rested of it.
LEMMA GoneIsFull ==
  ASSUME MInv, NEW order \in Order, order.orderId \notin PlacedIds, NEW x \in ToSet(placed),
         x.marketId = order.marketId, Gone(Match(books[order.marketId], order).book, x)
  PROVE  TradedQty(Match(books[order.marketId], order).fills, x.orderId)
           = RestingQty(books[x.marketId], x.orderId)
<1> DEFINE k == order.marketId
           book == books[k]
           m == Match(book, order)
           b == m.book
           id == x.orderId
<1>1. /\ book \in Books /\ b \in Books /\ m.fills \in Seq(Fill(OrderIds, Prices))
      /\ Stems(b, ToSet(placed), k)
      /\ TradedQty(m.fills, id) + RestingQty(b, id) + Asked(order, m.remainingQty, id)
           = RestingQty(book, id) + Asked(order, order.qty, id)
  BY NewMatch
<1>2. Gone(b, x) /\ x.marketId = k
  OBVIOUS
<1>3. id # order.orderId
  BY DEF PlacedIds
<1> HIDE DEF b
<1>4. ASSUME NEW l \in Ladders, NEW p \in DOMAIN b[l], NEW i \in 1..Len(b[l][p].openOrders)
      PROVE  b[l][p].openOrders[i].orderId # id
  <2>1. PICK side \in Sides : l = LadderOf(side)
    BY DEF Ladders, Sides, LadderOf
  <2>2. b[l][p].openOrders[i].orderId = id => side = x.side /\ p = x.price
    BY <1>1, <2>1, RowIsOf
  <2>3. QED
    BY <1>2, <2>1, <2>2 DEF Gone
<1>5. Absent(b, id)
  BY <1>4 DEF Absent
<1> HIDE DEF id, m, book
<1>6. RestingQty(b, id) = 0
  BY <1>1, <1>5, AbsentRests DEF Books
<1>7. TradedQty(m.fills, id) \in Nat /\ RestingQty(book, id) \in Nat
  BY <1>1, TradedNat, RestingNat DEF Books
<1>8. Asked(order, m.remainingQty, id) = 0 /\ Asked(order, order.qty, id) = 0
  BY <1>3 DEF Asked
<1>9. TradedQty(m.fills, id) = RestingQty(book, id)
  BY <1>1, <1>6, <1>7, <1>8
<1>10. QED
  BY <1>2, <1>9 DEF id, m, book

\* When something is left over of an order, everything it could trade with is gone.
LEMMA LeftoverIsLast ==
  ASSUME MInv, NEW order \in Order, order.orderId \notin PlacedIds, NEW x \in Eligible(order),
         Match(books[order.marketId], order).remainingQty > 0
  PROVE  Gone(Match(books[order.marketId], order).book, x)
<1> DEFINE k == order.marketId
           m == Match(books[k], order)
           l == LadderOf(x.side)
<1>1. /\ x \in ToSet(placed) /\ x.marketId = k /\ x.userId # order.userId
      /\ x.side = Opposite(order.side) /\ Reaches(order, x.price)
  BY DEF Eligible
<1>2. Stems(m.book, ToSet(placed), k) /\ BookMatched(m, books[k], order, Users, OrderIds, Prices)
  BY NewMatch
<1>3. m.remainingQty > 0
  OBVIOUS
<1>4. x.side \in Sides /\ Crosses(order, x.price)
  BY <1>1 DEF Sides, Opposite, Reaches, Crosses
<1> HIDE DEF m
<1>5. ASSUME x.price \in DOMAIN m.book[l], NEW i \in 1..Len(m.book[l][x.price].openOrders)
      PROVE  m.book[l][x.price].openOrders[i].orderId # x.orderId
  <2>1. Own(m.book[l][x.price].openOrders, order.userId)
    BY <1>1, <1>2, <1>3, <1>4, <1>5 DEF BookMatched, Clear
  <2>2. m.book[l][x.price].openOrders[i].userId = order.userId
    BY <1>5, <2>1 DEF Own
  <2>3. m.book[l][x.price].openOrders[i].orderId = x.orderId =>
          m.book[l][x.price].openOrders[i].userId = x.userId
    BY <1>1, <1>2, <1>4, <1>5, RowIsOf
  <2>4. QED
    BY <1>1, <2>2, <2>3
<1>6. Gone(m.book, x)
  BY <1>5 DEF Gone
<1>7. QED
  BY <1>6 DEF m

\* When an order trades, everything that comes before its maker is gone.
LEMMA EarlierIsGone ==
  ASSUME MInv, FInv, NEW order \in Order, order.orderId \notin PlacedIds,
         NEW x \in Eligible(order), NEW y \in Eligible(order), Before(x, y, order.side),
         TradedQty(Match(books[order.marketId], order).fills, y.orderId) > 0
  PROVE  Gone(Match(books[order.marketId], order).book, x)
<1> DEFINE k == order.marketId
           book == books[k]
           m == Match(book, order)
           S == ToSet(placed)
           rank == RanksIn(placed)
           side == Opposite(order.side)
           L == book[LadderOf(side)]
           M == m.book[LadderOf(side)]
           F == m.fills
<1>1. /\ x \in S /\ x.marketId = k /\ x.userId # order.userId /\ x.side = side
      /\ y \in S /\ y.marketId = k /\ y.side = side
  BY DEF Eligible
<1>2. /\ k \in Markets /\ book \in Books /\ Stems(book, S, k) /\ Stems(m.book, S, k)
      /\ BookMatched(m, book, order, Users, OrderIds, Prices)
      /\ F \in Seq(Fill(OrderIds, Prices))
  BY NewMatch
<1>3. x \in Order /\ y \in Order /\ side \in Sides
  <2>1. placed \in Seq(Order)
    BY DEF MInv
  <2>2. x \in Order /\ y \in Order
    BY <1>1, <2>1, Placed, ElementOfSeq
  <2>3. QED
    BY <1>1, <2>2, OrderIsTaker
<1>4. x.price \in Nat /\ y.price \in Nat /\ Limited(order)
  <2>1. \A o \in Order : o.price \in Nat
    <3>1. \A o \in Order : o.price \in Prices \/ o.price = 0
      BY DEF Order
    <3>2. 0 \in Nat
      OBVIOUS
    <3>3. QED
      BY <3>1, <3>2, PricesAreNat, Zenon
  <2>2. QED
    BY <1>3, <2>1 DEF Limited
<1>5. /\ rank[x.orderId] = Sequenced(x.orderId) /\ rank[y.orderId] = Sequenced(y.orderId)
      /\ rank[x.orderId] \in Nat /\ rank[y.orderId] \in Nat
  <2>1. x.orderId \in OrderIds /\ y.orderId \in OrderIds
    BY <1>3, OrderIsTaker
  <2>2. rank \in [OrderIds -> Nat]
    BY RankIsPlace DEF MInv, Unique
  <2>3. QED
    BY <2>1, <2>2 DEF RanksIn, Sequenced
<1>6. x.orderId # y.orderId /\ y.orderId # order.orderId
  <2>1. x.orderId = y.orderId => x = y
    BY <1>1, OneOrder
  <2>2. x # y
    BY <1>4, <1>5 DEF Before
  <2>3. y.orderId # order.orderId
    BY <1>1 DEF PlacedIds
  <2>4. QED
    BY <2>1, <2>2, <2>3
<1>7. \/ Better(x.price, y.price, order.side)
      \/ x.price = y.price /\ rank[x.orderId] < rank[y.orderId]
  BY <1>5 DEF Before, Better
<1>8. RankedBook(book, rank) /\ TradedQty(F, y.orderId) > 0
  BY <1>2 DEF FInv
<1> HIDE DEF S, rank, m
<1>9. AllServed(F, order, M, L) /\ \A f \in ToSet(F) : Agreed(f, order, L)
  BY <1>2, <1>4 DEF BookMatched
<1>10. \A p \in DOMAIN L : Ranked(L[p].openOrders, rank)
  BY <1>3, <1>8 DEF RankedBook, Ladders, LadderOf
<1>11. PICK f \in ToSet(F) : y.orderId \in {f.makerOrderId, f.takerOrderId}
  <2> DEFINE id == y.orderId
  <2>1. \E i \in 1..Len(F) : InFill(F[i], id) # 0
    <3> HIDE DEF F, id
    <3>1. TradedQty(F, id) # 0
      BY <1>8 DEF id
    <3>2. QED
      BY <1>2, <3>1, TradedNone
  <2>2. PICK i \in 1..Len(F) : InFill(F[i], id) # 0
    BY <2>1
  <2>3. F[i] \in ToSet(F)
    BY <1>2, Placed
  <2>4. QED
    BY <2>2, <2>3 DEF InFill
<1>12. FirstServed(f, order, M, rank)
  BY <1>9, <1>10 DEF AllServed
<1>13. PICK j \in 1..Len(L[f.price].openOrders) : FillFrom(f, order, f.price, L[f.price].openOrders[j])
  BY <1>9, <1>11 DEF Agreed
<1>14. /\ f.price \in DOMAIN L /\ f.makerOrderId = y.orderId
       /\ L[f.price].openOrders[j].orderId = y.orderId
  BY <1>6, <1>9, <1>11, <1>13 DEF Agreed, FillFrom
<1>15. f.price = y.price
  BY <1>1, <1>2, <1>3, <1>13, <1>14, RowIsOf DEF S
<1>16. ASSUME x.price \in DOMAIN M, NEW i \in 1..Len(M[x.price].openOrders)
       PROVE  M[x.price].openOrders[i].orderId # x.orderId
  <2>1. SUFFICES ASSUME M[x.price].openOrders[i].orderId = x.orderId PROVE FALSE
    OBVIOUS
  <2>2. M[x.price].openOrders[i].userId = x.userId
    BY <1>1, <1>2, <1>3, <1>16, <2>1, RowIsOf DEF S
  <2>3. CASE Better(x.price, y.price, order.side)
    <3>1. Own(M[x.price].openOrders, order.userId)
      BY <1>12, <1>15, <1>16, <2>3 DEF FirstServed
    <3>2. QED
      BY <1>1, <1>16, <2>2, <3>1 DEF Own
  <2>4. CASE x.price = y.price /\ rank[x.orderId] < rank[y.orderId]
    <3>1. NotPassed(f, M[x.price].openOrders, order, rank)
      BY <1>12, <1>15, <1>16, <2>4 DEF FirstServed
    <3>2. rank[y.orderId] < rank[x.orderId]
      BY <1>1, <1>6, <1>14, <1>16, <2>1, <2>2, <3>1 DEF NotPassed
    <3>3. QED
      BY <1>5, <2>4, <3>2
  <2>5. QED
    BY <1>7, <2>3, <2>4
<1>17. Gone(m.book, x)
  BY <1>1, <1>16 DEF Gone
<1>18. QED
  BY <1>17 DEF m

\* Nothing was traded of an order that was not handled yet.
LEMMA NotTraded ==
  ASSUME MInv, NEW id, id \notin PlacedIds
  PROVE  TradedQty(trades, id) = 0
<1>1. trades \in Seq(Fill(OrderIds, Prices))
  BY DEF MInv
<1>2. ASSUME NEW i \in 1..Len(trades) PROVE InFill(trades[i], id) = 0
  <2>1. trades[i] \in ToSet(trades)
    BY <1>1, Placed
  <2>2. PICK maker \in ToSet(placed), taker \in ToSet(placed) :
               trades[i].makerOrderId = maker.orderId /\ trades[i].takerOrderId = taker.orderId
    BY <2>1 DEF MInv, Legal
  <2>3. QED
    BY <2>2 DEF InFill, PlacedIds
<1>3. QED
  BY <1>1, <1>2, TradedNone

\* When an order is handled, makers are served in their order, all of each before
\* the next, and something is left of it only when all of them are (helper.ts: the
\* sorted prices, the order of the queue, the skip of own orders; book.ts: push).
THEOREM BestServedFirst == Spec => PriceTimePriority
<1>1. ASSUME MInv, FInv, NEW order \in Order, Handle(order)
      PROVE  LET got(o)   == TradedQty(trades', o.orderId) - TradedQty(trades, o.orderId)
                 full(o)  == got(o) = RestingQty(books[o.marketId], o.orderId)
                 eligible == Eligible(order)
             IN  /\ \A x, y \in eligible : Before(x, y, order.side) /\ got(y) > 0 => full(x)
                 /\ TradedQty(trades', order.orderId) < order.qty => \A x \in eligible : full(x)
  <2> DEFINE m == Match(books[order.marketId], order)
             F == m.fills
             got(o) == TradedQty(trades', o.orderId) - TradedQty(trades, o.orderId)
  <2>1. order.orderId \notin PlacedIds /\ trades' = trades \o F
    BY <1>1 DEF Handle
  <2>2. F \in Seq(Fill(OrderIds, Prices)) /\ trades \in Seq(Fill(OrderIds, Prices))
    BY <1>1, <2>1, NewMatch DEF MInv
  <2>3. ASSUME NEW id
        PROVE  /\ TradedQty(trades', id) = TradedQty(trades, id) + TradedQty(F, id)
               /\ TradedQty(trades, id) \in Nat /\ TradedQty(F, id) \in Nat
    <3> HIDE DEF F
    <3>1. QED
      BY <2>1, <2>2, TradedConcat, TradedNat
  <2>4. \A o : got(o) = TradedQty(F, o.orderId)
    BY <2>3
  <2>5. ASSUME NEW x \in Eligible(order), Gone(m.book, x)
        PROVE  got(x) = RestingQty(books[x.marketId], x.orderId)
    <3>1. x \in ToSet(placed) /\ x.marketId = order.marketId
      BY DEF Eligible
    <3>2. TradedQty(F, x.orderId) = RestingQty(books[x.marketId], x.orderId)
      BY <1>1, <2>1, <2>5, <3>1, GoneIsFull
    <3>3. QED
      BY <2>4, <3>2
  <2>6. ASSUME NEW x \in Eligible(order), NEW y \in Eligible(order),
               Before(x, y, order.side), got(y) > 0
        PROVE  Gone(m.book, x)
    <3>1. TradedQty(F, y.orderId) > 0
      BY <2>4, <2>6
    <3>2. QED
      BY <1>1, <2>1, <2>6, <3>1, EarlierIsGone
  <2>7. ASSUME TradedQty(trades', order.orderId) < order.qty PROVE m.remainingQty > 0
    <3> DEFINE id == order.orderId
               book == books[order.marketId]
    <3>1. /\ book \in Books /\ m.book \in Books /\ m.remainingQty \in Nat
          /\ FromBook(m.book, book) /\ Absent(book, id)
          /\ TradedQty(F, id) + RestingQty(m.book, id) + Asked(order, m.remainingQty, id)
               = RestingQty(book, id) + Asked(order, order.qty, id)
      BY <1>1, <2>1, NewMatch
    <3>2. TradedQty(trades, id) = 0
      BY <1>1, <2>1, NotTraded
    <3>3. Asked(order, m.remainingQty, id) = m.remainingQty /\ Asked(order, order.qty, id) = order.qty
      BY DEF Asked
    <3>4. order.qty \in Nat
      BY OrderIsTaker
    <3>5. TradedQty(trades', id) < order.qty
      BY <2>7
    <3> HIDE DEF id, m, F, book
    <3>6. RestingQty(book, id) = 0
      BY <3>1, AbsentRests DEF Books
    <3>7. RestingQty(m.book, id) = 0
      <4>1. Absent(m.book, id)
        BY <3>1, AbsentFrom
      <4>2. QED
        BY <3>1, <4>1, AbsentRests DEF Books
    <3>8. TradedQty(F, id) < order.qty /\ TradedQty(F, id) \in Nat
      BY <2>3, <3>2, <3>5
    <3>9. TradedQty(F, id) + m.remainingQty = order.qty
      BY <3>1, <3>3, <3>4, <3>6, <3>7, <3>8
    <3>10. QED
      BY <3>1, <3>4, <3>8, <3>9
  <2>8. ASSUME TradedQty(trades', order.orderId) < order.qty, NEW x \in Eligible(order)
        PROVE  Gone(m.book, x)
    BY <1>1, <2>1, <2>7, <2>8, LeftoverIsLast
  <2> HIDE DEF m
  <2>9. QED
    BY <2>5, <2>6, <2>8
<1>2. ASSUME MInv, FInv, [Next]_vars, Len(placed') > Len(placed)
      PROVE  LET order    == Last(placed')
                 got(o)   == TradedQty(trades', o.orderId) - TradedQty(trades, o.orderId)
                 full(o)  == got(o) = RestingQty(books[o.marketId], o.orderId)
                 eligible == Eligible(order)
             IN  /\ \A x, y \in eligible : Before(x, y, order.side) /\ got(y) > 0 => full(x)
                 /\ TradedQty(trades', order.orderId) < order.qty => \A x \in eligible : full(x)
  <2>1. placed \in Seq(Order) /\ Len(placed) \in Nat
    BY <1>2, LenProperties DEF MInv
  <2>2. PICK order \in Order : Handle(order)
    <3>1. placed' # placed
      BY <1>2, <2>1
    <3>2. QED
      BY <1>2, <3>1 DEF Next, Cancel, vars
  <2>3. Last(placed') = order
    <3>1. placed' = Append(placed, order)
      BY <2>2 DEF Handle
    <3>2. Len(Append(placed, order)) = Len(placed) + 1 /\ Append(placed, order)[Len(placed) + 1] = order
      BY <2>1, AppendProperties
    <3>3. QED
      BY <3>1, <3>2 DEF Last
  <2>4. QED
    BY <1>1, <1>2, <2>2, <2>3
<1>3. MInv /\ FInv /\ [Next]_vars =>
        [Len(placed') > Len(placed) =>
           LET order    == Last(placed')
               got(o)   == TradedQty(trades', o.orderId) - TradedQty(trades, o.orderId)
               full(o)  == got(o) = RestingQty(books[o.marketId], o.orderId)
               eligible == Eligible(order)
           IN  /\ \A x, y \in eligible : Before(x, y, order.side) /\ got(y) > 0 => full(x)
               /\ TradedQty(trades', order.orderId) < order.qty => \A x \in eligible : full(x)]_vars
  BY <1>2
<1>4. QED
  BY <1>3, MAlways, CInit, CNext, FInit, FNext, PTL DEF Spec, PriceTimePriority
=============================================================================

--------------------------- MODULE SettlementProofs ---------------------------
(***************************************************************************)
(* Proofs about Settlement, Accounting and Liquidation, for every set of   *)
(* users, markets and order requests, every batch size and every bound on  *)
(* faults: types are kept, settlement implements NetPositions, every fill  *)
(* is counted once, no money appears or disappears, what is locked is what *)
(* positions and open orders ask for, and a position's margin is what its  *)
(* entry value asks for.  Most of it is about sums, and rests on what a    *)
(* sum over a finite set is: an induction over its subsets, in the form of *)
(* a smallest counterexample.                                              *)
(***************************************************************************)
EXTENDS Liquidation, FiniteSetTheorems, SequenceTheorems, TLAPS

Account == [position : Position, available : Int, locked : Int]

Row == [status : Statuses, initialMargin : Int, filledQty : Nat]

FillOfOrder == [direction : Directions, qty : Nat \ {0}, price : Int,
                leverage : Nat \ {0}, reservation : Int, orderQty : Nat \ {0}]

(* The arithmetic of a position. *)

\* Dividing by a leverage or a quantity gives an amount.
LEMMA DivIsInt ==
  ASSUME NEW a \in Int, NEW b \in Nat \ {0}
  PROVE  a \div b \in Int
  OBVIOUS

\* A position that has a row has a direction.
LEMMA PositionHasSide ==
  ASSUME NEW pos \in Position, pos.qty # 0
  PROVE  pos \in [side : Directions, qty : Nat \ {0}, entryPrice : Int, margin : Int]
  BY DEF Position, NoPosition

\* Margins, shares and pnl are amounts.
LEMMA AmountsAreInt ==
  ASSUME NEW account \in Account, NEW fill \in FillOfOrder, NEW qty \in Int
  PROVE  /\ MarginFor(fill, qty) \in Int
         /\ ReservationShare(fill) \in Int
         /\ Pnl(account.position, fill, qty) \in Int
<1>1. fill.price * qty \in Int /\ fill.leverage \in Nat \ {0}
  BY DEF FillOfOrder
<1>2. fill.reservation * fill.qty \in Int /\ fill.orderQty \in Nat \ {0}
  BY DEF FillOfOrder
<1>3. account.position.entryPrice \in Int
  BY DEF Account, Position, NoPosition
<1>4. (fill.price - account.position.entryPrice) * qty \in Int
      /\ (account.position.entryPrice - fill.price) * qty \in Int
  BY <1>3 DEF FillOfOrder
<1>5. QED
  BY <1>1, <1>2, <1>4, DivIsInt DEF MarginFor, ReservationShare, Pnl

\* What each of the five branches does: it yields an account and moves the
\* net position by the signed quantity of the fill.
Moved(account, fill, result) ==
  /\ result \in Account
  /\ Net(result.position) = Net(account.position) + Signed(fill.direction, fill.qty)

\* Without a row: the fill becomes the position.
LEMMA OpenMoves ==
  ASSUME NEW account \in Account, NEW fill \in FillOfOrder, account.position.qty = 0
  PROVE  Moved(account, fill, Open(account, fill))
<1>1. MarginFor(fill, fill.qty) \in Int /\ ReservationShare(fill) \in Int
  BY AmountsAreInt DEF FillOfOrder
<1>2. account.position = NoPosition
  BY DEF Account, Position
<1>3. Open(account, fill) \in Account
  BY <1>1 DEF Open, Account, FillOfOrder, Position
<1>4. Net(Open(account, fill).position) = Signed(fill.direction, fill.qty)
  BY DEF Open, Net, Signed
<1>5. Net(account.position) = 0
  BY <1>2 DEF Net, NoPosition
<1>6. QED
  BY <1>3, <1>4, <1>5 DEF Moved, Signed, FillOfOrder

\* On the same side: the fill is added and the entry averaged; the sum it is
\* divided by is never zero.
LEMMA IncreaseMoves ==
  ASSUME NEW account \in Account, NEW fill \in FillOfOrder,
         account.position.qty # 0, account.position.side = fill.direction
  PROVE  Moved(account, fill, Increase(account, fill))
<1> DEFINE pos    == account.position
           newQty == pos.qty + fill.qty
           value  == pos.qty * pos.entryPrice + fill.qty * fill.price
<1>1. MarginFor(fill, fill.qty) \in Int /\ ReservationShare(fill) \in Int
  BY AmountsAreInt DEF FillOfOrder
<1>2. pos \in [side : Directions, qty : Nat \ {0}, entryPrice : Int, margin : Int]
  BY PositionHasSide DEF Account
<1>3. newQty \in Nat \ {0} /\ value \in Int
  BY <1>2 DEF FillOfOrder
<1>4. value \div newQty \in Int
  BY <1>3, DivIsInt
<1>5. Increase(account, fill).position =
        [side |-> pos.side, qty |-> newQty, entryPrice |-> value \div newQty,
         margin |-> pos.margin + MarginFor(fill, fill.qty)]
  BY <1>2 DEF Increase
<1>6. Increase(account, fill) \in Account
  BY <1>1, <1>2, <1>3, <1>4, <1>5 DEF Increase, Account, Position
<1>7. Net(Increase(account, fill).position) = Net(pos) + Signed(fill.direction, fill.qty)
  BY <1>2, <1>5 DEF Net, Signed, FillOfOrder
<1>8. QED
  BY <1>6, <1>7 DEF Moved

\* An opposite fill of the position's own size leaves no row.
LEMMA CloseMoves ==
  ASSUME NEW account \in Account, NEW fill \in FillOfOrder,
         account.position.qty # 0, account.position.side # fill.direction,
         fill.qty = account.position.qty
  PROVE  Moved(account, fill, Close(account, fill))
<1> DEFINE pos == account.position
<1>1. Pnl(pos, fill, fill.qty) \in Int
  BY AmountsAreInt DEF FillOfOrder
<1>2. pos \in [side : Directions, qty : Nat \ {0}, entryPrice : Int, margin : Int]
  BY PositionHasSide DEF Account
<1>3. Close(account, fill) \in Account
  BY <1>1, <1>2 DEF Close, Account, Position
<1>4. Net(pos) = -Signed(fill.direction, fill.qty)
  BY <1>2 DEF Net, Signed, FillOfOrder, Directions
<1>5. Net(Close(account, fill).position) = 0
  BY DEF Close, Net, NoPosition
<1>6. QED
  BY <1>3, <1>4, <1>5 DEF Moved, Signed, FillOfOrder

\* A smaller opposite fill leaves a row that is not empty.
LEMMA ReduceMoves ==
  ASSUME NEW account \in Account, NEW fill \in FillOfOrder,
         account.position.qty # 0, account.position.side # fill.direction,
         fill.qty < account.position.qty
  PROVE  Moved(account, fill, Reduce(account, fill))
<1> DEFINE pos      == account.position
           released == (pos.margin * fill.qty) \div pos.qty
<1>1. Pnl(pos, fill, fill.qty) \in Int
  BY AmountsAreInt DEF FillOfOrder
<1>2. pos \in [side : Directions, qty : Nat \ {0}, entryPrice : Int, margin : Int]
  BY PositionHasSide DEF Account
<1>3. pos.margin * fill.qty \in Int
  BY <1>2 DEF FillOfOrder
<1>4. released \in Int
  BY <1>2, <1>3, DivIsInt
<1>5. pos.qty - fill.qty \in Nat \ {0}
  BY <1>2 DEF FillOfOrder
<1>6. Reduce(account, fill) \in Account
  BY <1>1, <1>2, <1>4, <1>5 DEF Reduce, Account, Position
<1>7. Net(Reduce(account, fill).position) = Net(pos) + Signed(fill.direction, fill.qty)
  BY <1>2 DEF Reduce, Net, Signed, FillOfOrder, Directions
<1>8. QED
  BY <1>6, <1>7 DEF Moved

\* A larger opposite fill leaves a row on the other side.
LEMMA FlipMoves ==
  ASSUME NEW account \in Account, NEW fill \in FillOfOrder,
         account.position.qty # 0, account.position.side # fill.direction,
         fill.qty > account.position.qty
  PROVE  Moved(account, fill, Flip(account, fill))
<1> DEFINE pos    == account.position
           newQty == fill.qty - pos.qty
<1>1. pos \in [side : Directions, qty : Nat \ {0}, entryPrice : Int, margin : Int]
  BY PositionHasSide DEF Account
<1>2. newQty \in Nat \ {0}
  BY <1>1 DEF FillOfOrder
<1>3. Pnl(pos, fill, pos.qty) \in Int /\ MarginFor(fill, newQty) \in Int
  BY <1>1, <1>2, AmountsAreInt
<1>4. Flip(account, fill) \in Account
  BY <1>1, <1>2, <1>3 DEF Flip, Account, FillOfOrder, Position
<1>5. Net(Flip(account, fill).position) = Net(pos) + Signed(fill.direction, fill.qty)
  BY <1>1 DEF Flip, Net, Signed, FillOfOrder, Directions
<1>6. QED
  BY <1>4, <1>5 DEF Moved

\* The five branches of applyPositionUpdate are one signed addition.
THEOREM PositionUpdateAdds ==
  ASSUME NEW account \in Account, NEW fill \in FillOfOrder
  PROVE  Moved(account, fill, ApplyPositionUpdate(account, fill))
<1>1. account.position.qty \in Nat /\ fill.qty \in Nat
  BY DEF Account, Position, NoPosition, FillOfOrder
<1>2. CASE account.position.qty = 0
  BY <1>2, OpenMoves DEF ApplyPositionUpdate
<1>3. CASE account.position.qty # 0 /\ account.position.side = fill.direction
  BY <1>3, IncreaseMoves DEF ApplyPositionUpdate
<1>4. CASE /\ account.position.qty # 0 /\ account.position.side # fill.direction
           /\ fill.qty = account.position.qty
  BY <1>4, CloseMoves DEF ApplyPositionUpdate
<1>5. CASE /\ account.position.qty # 0 /\ account.position.side # fill.direction
           /\ fill.qty < account.position.qty
  BY <1>1, <1>5, ReduceMoves DEF ApplyPositionUpdate
<1>6. CASE /\ account.position.qty # 0 /\ account.position.side # fill.direction
           /\ fill.qty > account.position.qty
  BY <1>1, <1>6, FlipMoves DEF ApplyPositionUpdate
<1>7. QED
  BY <1>1, <1>2, <1>3, <1>4, <1>5, <1>6

-----------------------------------------------------------------------------
(* The invariant.  Types alone do not say that the two sides of a fill are  *)
(* different accounts, on which both EXCEPTs of a settlement rest.         *)

FillsMatchOrders ==
  \A i \in 1..Len(fills) :
    LET t == fills[i].takerOrderId
        m == fills[i].makerOrderId
    IN  /\ Requests[t].userId # Requests[m].userId
        /\ Requests[t].side # Requests[m].side

IInv == TypeOK /\ FillsMatchOrders

\* The requests users may place are well formed.
LEMMA RequestTypes ==
  ASSUME NEW id \in OrderIds
  PROVE  /\ Requests[id] \in Request
         /\ AccountOf(id) \in Accounts /\ Requests[id].userId \in Users
         /\ Dir(id) \in Directions
         /\ Requests[id].qty \in 1..MaxQty /\ Requests[id].qty \in Nat \ {0}
         /\ Requests[id].leverage \in Nat \ {0} /\ Requests[id].price \in Nat
<1>1. Requests[id] \in Request /\ MaxQty \in Nat
  BY RequestsAssumption, BoundsAssumption
<1>2. QED
  BY <1>1 DEF Request, AccountOf, Accounts, Dir, DirectionOf, Directions

\* What one order of a fill does to its user's account.
LEMMA AccountAfterMoves ==
  ASSUME TypeOK, NEW id \in OrderIds, NEW fill \in FillMessage
  PROVE  /\ AccountAfter(id, fill) \in Account
         /\ Net(AccountAfter(id, fill).position)
              = Net(position[AccountOf(id)]) + Signed(Dir(id), fill.qty)
<1> DEFINE a == AccountOf(id)
           account == [position |-> position[a], available |-> available[a[1]],
                       locked |-> locked[a[1]]]
           side == [direction |-> Dir(id), qty |-> fill.qty, price |-> fill.price,
                    leverage |-> Requests[id].leverage,
                    reservation |-> orders[id].initialMargin, orderQty |-> Requests[id].qty]
<1>1. a[1] \in Users /\ a \in Accounts
  BY RequestTypes DEF AccountOf
<1>2. account \in Account
  BY <1>1 DEF TypeOK, DatabaseTypes, Account
<1>3. side \in FillOfOrder
  BY RequestTypes, BoundsAssumption DEF TypeOK, DatabaseTypes, FillMessage, FillOfOrder
<1>4. AccountAfter(id, fill) = ApplyPositionUpdate(account, side)
  BY DEF AccountAfter
<1>5. Moved(account, side, AccountAfter(id, fill))
  BY <1>2, <1>3, <1>4, PositionUpdateAdds
<1>6. QED
  BY <1>5 DEF Moved

\* One settled fill: rows, positions and balances keep their types.
LEMMA ApplyTypes ==
  ASSUME IInv, NEW i \in 1..Len(fills), Apply(i)
  PROVE  /\ orders' \in [OrderIds -> Row]
         /\ position' \in [Accounts -> Position]
         /\ available' \in [Users -> Int] /\ locked' \in [Users -> Int]
         /\ fillRows' = fillRows \cup {i}
         /\ crossed' \subseteq Users
<1> DEFINE f == fills[i]
           t == f.takerOrderId
           m == f.makerOrderId
<1>1. f \in FillMessage
  BY DEF IInv, TypeOK, EngineTypes
<1>2. t \in OrderIds /\ m \in OrderIds /\ f.qty \in Nat
  BY <1>1, BoundsAssumption DEF FillMessage
<1>3. AccountAfter(t, f) \in Account /\ AccountAfter(m, f) \in Account
  BY <1>1, <1>2, AccountAfterMoves DEF IInv
<1>4. FilledRow(t, f.qty) \in Row /\ FilledRow(m, f.qty) \in Row
  <2>1. ASSUME NEW id \in OrderIds PROVE FilledRow(id, f.qty) \in Row
    <3>1. orders[id] \in Row
      BY DEF IInv, TypeOK, DatabaseTypes, Row
    <3>2. orders[id].initialMargin \in Int /\ orders[id].filledQty + f.qty \in Nat
      BY <1>2, <3>1 DEF Row
    <3>3. StatusAfter(orders[id].filledQty + f.qty, Requests[id].qty) \in Statuses
      BY DEF StatusAfter, Statuses
    <3>4. QED
      BY <3>2, <3>3 DEF FilledRow, Row
  <2>2. QED
    BY <1>2, <2>1
<1>5. orders' = [orders EXCEPT ![t] = FilledRow(t, f.qty), ![m] = FilledRow(m, f.qty)]
  BY DEF Apply
<1>6. orders' \in [OrderIds -> Row]
  BY <1>2, <1>4, <1>5 DEF IInv, TypeOK, DatabaseTypes, Row
<1>7. position' \in [Accounts -> Position] /\ available' \in [Users -> Int]
      /\ locked' \in [Users -> Int]
  BY <1>2, <1>3, RequestTypes DEF Apply, IInv, TypeOK, DatabaseTypes, Account
<1>8. crossed' \subseteq Users
  BY <1>2, RequestTypes DEF Apply, IInv, TypeOK, DatabaseTypes
<1>9. fillRows' = fillRows \cup {i}
  BY DEF Apply
<1>10. QED
  BY <1>6, <1>7, <1>8, <1>9

\* Initially nobody holds anything and nothing has been published.
LEMMA InitIInv == Init => IInv
<1> SUFFICES ASSUME Init PROVE IInv
  OBVIOUS
<1> USE BoundsAssumption
<1>1. orders \in [OrderIds -> Row] /\ position \in [Accounts -> Position]
  BY DEF Init, Row, Statuses, Position
<1>2. /\ available \in [Users -> Int] /\ locked \in [Users -> Int]
      /\ live \in [OrderIds -> 0..MaxQty] /\ cancelledQty \in [OrderIds -> Nat]
  BY DEF Init
<1>3. /\ placing \in [orderId : OrderIds, margin : Int] \cup {NotPlacing}
      /\ fills \in Seq(FillMessage)
      /\ cancels \in Seq(CancelMessage)
  BY DEF Init
<1>4. /\ fillRows = {} /\ resting = {} /\ crossed = {}
      /\ fillsRead = 0 /\ fillsPending = {} /\ work = {}
      /\ Len(fills) = 0 /\ Len(cancels) = 0
      /\ source \in Sources /\ phase \in Phases
      /\ cancelsRead = 0 /\ cancelsInHand = {} /\ cancelsStopped \in BOOLEAN /\ lostCancels = {}
      /\ aborts = 0 /\ crashes = 0
  BY DEF Init, Sources, Phases
<1>5. TypeOK
  <2>1. CancelsLoopTypes
    BY <1>4 DEF CancelsLoopTypes
  <2>2. DatabaseTypes /\ EngineTypes /\ FillsLoopTypes
    BY <1>1, <1>2, <1>3, <1>4 DEF DatabaseTypes, EngineTypes, FillsLoopTypes, Row
  <2>3. QED
    BY <2>1, <2>2 DEF TypeOK
<1>6. FillsMatchOrders
  BY <1>4 DEF FillsMatchOrders
<1>7. QED
  BY <1>5, <1>6 DEF IInv

-----------------------------------------------------------------------------
(* Each group of actions keeps the invariant. *)

\* Placing an order: the margin the backend computes is an amount.
LEMMA PlaceKeeps ==
  ASSUME IInv, Place PROVE IInv'
<1> USE DEF IInv, database, engine, fillsLoop, cancelsLoop, history
<1>1. ASSUME NEW id \in OrderIds, PlaceRead(id) PROVE IInv'
  <2> DEFINE r   == Requests[id]
             pos == position[AccountOf(id)]
  <2>1. pos \in Position /\ Dir(id) \in Directions /\ r.qty \in Nat /\ r.price \in Nat
        /\ r.leverage \in Nat \ {0}
    BY RequestTypes DEF TypeOK, DatabaseTypes
  <2>2. pos.qty \in Nat
    BY <2>1 DEF Position, NoPosition
  <2>3. OpeningQty(pos, Dir(id), r.qty) \in Int
    BY <2>1, <2>2 DEF OpeningQty
  <2>4. r.price * OpeningQty(pos, Dir(id), r.qty) \in Int
    BY <2>1, <2>3
  <2>5. RequiredMargin(pos, Dir(id), r.qty, r.price, r.leverage) \in Int
    BY <2>1, <2>4, DivIsInt DEF RequiredMargin
  <2>6. placing' \in [orderId : OrderIds, margin : Int]
    BY <1>1, <2>5 DEF PlaceRead
  <2>7. QED
    BY <1>1, <2>6 DEF PlaceRead, TypeOK, DatabaseTypes, EngineTypes, FillsLoopTypes,
       CancelsLoopTypes, FillsMatchOrders
<1>2. ASSUME PlaceCommit PROVE IInv'
  <2> DEFINE id == placing.orderId
             u  == Requests[id].userId
  <2>1. id \in OrderIds /\ placing.margin \in Int
    BY <1>2 DEF PlaceCommit, TypeOK, DatabaseTypes
  <2>2. u \in Users /\ Requests[id].qty \in 0..MaxQty
    <3>1. u \in Users /\ Requests[id].qty \in 1..MaxQty
      BY <2>1, RequestTypes
    <3>2. QED
      BY <3>1, BoundsAssumption
  <2>3. available' \in [Users -> Int] /\ locked' \in [Users -> Int]
    BY <1>2, <2>1, <2>2 DEF PlaceCommit, TypeOK, DatabaseTypes
  <2>4. [status |-> "OPEN", initialMargin |-> placing.margin, filledQty |-> 0] \in Row
    BY <2>1 DEF Row, Statuses
  <2>5. orders' \in [OrderIds -> Row]
    BY <1>2, <2>4 DEF PlaceCommit, TypeOK, DatabaseTypes, Row
  <2>6. live' \in [OrderIds -> 0..MaxQty]
    BY <1>2, <2>2 DEF PlaceCommit, TypeOK, EngineTypes
  <2>7. placing' = NotPlacing
    BY <1>2 DEF PlaceCommit
  <2>8. QED
    BY <1>2, <2>3, <2>5, <2>6, <2>7 DEF PlaceCommit, TypeOK, DatabaseTypes,
       EngineTypes, FillsLoopTypes, CancelsLoopTypes, FillsMatchOrders, Row
<1>3. ASSUME PlaceFail PROVE IInv'
  BY <1>3 DEF PlaceFail, TypeOK, DatabaseTypes, EngineTypes, FillsLoopTypes, CancelsLoopTypes,
     FillsMatchOrders
<1>4. QED
  BY <1>1, <1>2, <1>3 DEF Place

\* What the engine still has of an order is only ever reduced, and a trade is
\* between two orders of different users and sides.
LEMMA EngineKeeps ==
  ASSUME IInv, Engine PROVE IInv'
<1> USE DEF IInv, TypeOK, database, engine, fillsLoop, cancelsLoop, history
<1>1. Len(fills) \in Nat /\ Len(cancels) \in Nat
  BY DEF EngineTypes
<1>2. ASSUME NEW id \in OrderIds, live[id] > 0, Cancelled(id)
      PROVE  /\ cancels' \in Seq(CancelMessage)
             /\ Len(cancels') = Len(cancels) + 1
             /\ live' \in [OrderIds -> 0..MaxQty]
  <2>1. live[id] \in 1..MaxQty
    BY <1>2 DEF EngineTypes
  <2>2. [orderId |-> id, unfilledQty |-> live[id]] \in CancelMessage
    BY <2>1 DEF CancelMessage
  <2>3. QED
    BY <1>2, <2>2, BoundsAssumption DEF Cancelled, EngineTypes
<1>3. ASSUME NEW id \in OrderIds, EndOfMatch(id) PROVE IInv'
  <2>1. CASE Requests[id].orderType = "LIMIT"
    BY <1>3, <2>1 DEF EndOfMatch, DatabaseTypes, EngineTypes, FillsLoopTypes, CancelsLoopTypes,
       FillsMatchOrders
  <2>2. CASE Requests[id].orderType # "LIMIT"
    <3>1. live[id] > 0 /\ Cancelled(id)
      BY <1>3, <2>2 DEF EndOfMatch
    <3>2. EngineTypes'
      BY <1>2, <1>3, <2>2, <3>1 DEF EndOfMatch, EngineTypes
    <3>3. CancelsLoopTypes'
      BY <1>1, <1>2, <1>3, <3>1 DEF EndOfMatch, CancelsLoopTypes
    <3>4. DatabaseTypes' /\ FillsLoopTypes' /\ FillsMatchOrders'
      BY <1>3 DEF EndOfMatch, DatabaseTypes, FillsLoopTypes, FillsMatchOrders
    <3>5. QED
      BY <3>2, <3>3, <3>4
  <2>3. QED
    BY <2>1, <2>2
<1>4. ASSUME NEW id \in OrderIds, EngineCancel(id) PROVE IInv'
  <2>1. live[id] > 0 /\ Cancelled(id)
    BY <1>4 DEF EngineCancel
  <2>2. EngineTypes'
    BY <1>2, <1>4, <2>1 DEF EngineCancel, EngineTypes
  <2>3. CancelsLoopTypes'
    BY <1>1, <1>2, <1>4, <2>1 DEF EngineCancel, CancelsLoopTypes
  <2>4. DatabaseTypes' /\ FillsLoopTypes' /\ FillsMatchOrders'
    BY <1>4 DEF EngineCancel, DatabaseTypes, FillsLoopTypes, FillsMatchOrders
  <2>5. QED
    BY <2>2, <2>3, <2>4
<1>5. ASSUME NEW t \in OrderIds, NEW m \in OrderIds, Trade(t, m) PROVE IInv'
  <2> DEFINE qty  == IF live[t] < live[m] THEN live[t] ELSE live[m]
             fill == [takerOrderId |-> t, makerOrderId |-> m, qty |-> qty,
                      price |-> Requests[m].price]
  <2>1. qty \in 1..MaxQty /\ live[t] - qty \in 0..MaxQty /\ live[m] - qty \in 0..MaxQty
    BY <1>5, BoundsAssumption DEF Trade, EngineTypes
  <2>2. fill \in FillMessage
    BY <2>1, RequestTypes DEF FillMessage
  <2>3. fills' = Append(fills, fill)
    BY <1>5 DEF Trade
  <2>4. /\ fills' \in Seq(FillMessage) /\ Len(fills') = Len(fills) + 1
        /\ fills'[Len(fills) + 1] = fill
        /\ \A i \in 1..Len(fills) : fills'[i] = fills[i]
    BY <2>2, <2>3 DEF EngineTypes
  <2>5. t # m
    BY <1>5 DEF Trade
  <2>6. live' \in [OrderIds -> 0..MaxQty]
    BY <1>5, <2>1, <2>5 DEF Trade, EngineTypes
  <2>7. EngineTypes'
    BY <1>5, <2>4, <2>6 DEF Trade, EngineTypes
  <2>8. FillsLoopTypes'
    BY <1>1, <1>5, <2>4 DEF Trade, FillsLoopTypes
  <2>9. DatabaseTypes' /\ CancelsLoopTypes'
    BY <1>5 DEF Trade, DatabaseTypes, CancelsLoopTypes
  <2>10. FillsMatchOrders'
    <3> SUFFICES ASSUME NEW i \in 1..Len(fills')
                 PROVE  /\ Requests[fills'[i].takerOrderId].userId
                             # Requests[fills'[i].makerOrderId].userId
                        /\ Requests[fills'[i].takerOrderId].side
                             # Requests[fills'[i].makerOrderId].side
      BY DEF FillsMatchOrders
    <3>1. CASE i = Len(fills) + 1
      BY <1>5, <2>4, <3>1 DEF Trade
    <3>2. CASE i \in 1..Len(fills)
      BY <2>4, <3>2 DEF FillsMatchOrders
    <3>3. Len(fills) \in Nat
      BY DEF EngineTypes
    <3>4. QED
      BY <2>4, <3>1, <3>2, <3>3
  <2>11. QED
    BY <2>7, <2>8, <2>9, <2>10
<1>6. QED
  BY <1>3, <1>4, <1>5 DEF Engine

\* The fills loop only ever holds what Redis has delivered to it.
LEMMA ConsumeFillsKeeps ==
  ASSUME IInv, ConsumeFills PROVE IInv'
<1> USE DEF IInv, TypeOK, Sources, Phases, database, engine, fillsLoop, cancelsLoop, history
<1>1. ASSUME NEW outcome \in Outcomes, ReadFills(outcome) PROVE IInv'
  <2> DEFINE upto == Upto(fillsRead, fills, FillsBatch)
  <2>1. upto \in fillsRead..Len(fills) /\ fillsRead \in Nat /\ Len(fills) \in Nat
    <3>1. fillsRead \in 0..Len(fills) /\ Len(fills) \in Nat /\ FillsBatch \in Nat
      BY BoundsAssumption DEF FillsLoopTypes, EngineTypes
    <3>2. QED
      BY <3>1 DEF Upto
  <2>2. upto \in 0..Len(fills) /\ 1..fillsRead \subseteq 1..upto
        /\ (fillsRead + 1 .. upto) \subseteq 1..upto
    BY <2>1
  <2>3. /\ \/ fillsRead' = fillsRead /\ fillsPending' = fillsPending
           \/ fillsRead' = upto /\ fillsPending' = fillsPending \cup (fillsRead + 1 .. upto)
        /\ \/ work' = work
           \/ work' = fillsRead + 1 .. upto /\ fillsRead' = upto
        /\ source' \in Sources /\ phase' \in Phases
        /\ UNCHANGED <<fills, fillRows>>
    BY <1>1 DEF ReadFills, AfterRead, FillsLoopTypes
  <2>4. FillsLoopTypes'
    BY <2>2, <2>3 DEF FillsLoopTypes
  <2>5. aborts' \in 0..MaxAborts
    BY <1>1, BoundsAssumption DEF ReadFills, Fails, DatabaseTypes
  <2>6. DatabaseTypes' /\ EngineTypes' /\ CancelsLoopTypes' /\ FillsMatchOrders'
    BY <1>1, <2>5 DEF ReadFills, DatabaseTypes, EngineTypes, CancelsLoopTypes, FillsMatchOrders
  <2>7. QED
    BY <2>4, <2>6
<1>2. ASSUME NEW outcome \in Outcomes, ClaimIdle(outcome) PROVE IInv'
  <2>1. aborts' \in 0..MaxAborts
    BY <1>2, BoundsAssumption DEF ClaimIdle, Fails, DatabaseTypes
  <2>2. FillsLoopTypes'
    BY <1>2 DEF ClaimIdle, AfterRead, FillsLoopTypes
  <2>3. DatabaseTypes' /\ EngineTypes' /\ CancelsLoopTypes' /\ FillsMatchOrders'
    BY <1>2, <2>1 DEF ClaimIdle, DatabaseTypes, EngineTypes, CancelsLoopTypes, FillsMatchOrders
  <2>4. QED
    BY <2>2, <2>3
<1>3. ASSUME NEW i \in work, AlreadySettled(i) PROVE IInv'
  BY <1>3 DEF AlreadySettled, DatabaseTypes, EngineTypes, FillsLoopTypes, CancelsLoopTypes,
     FillsMatchOrders
<1>4. ASSUME NEW i \in work, NEW outcome \in Outcomes, SettleFill(i, outcome) PROVE IInv'
  <2>1. i \in 1..fillsRead /\ i \in 1..Len(fills)
    BY DEF FillsLoopTypes, EngineTypes
  <2>2. aborts' \in 0..MaxAborts
    BY <1>4, BoundsAssumption DEF SettleFill, Fails, DatabaseTypes
  <2>3. work' \subseteq work /\ phase' \in Phases
    BY <1>4 DEF SettleFill, FillsLoopTypes
  <2>4. CASE outcome = "aborted"
    BY <1>4, <2>2, <2>3, <2>4 DEF SettleFill, DatabaseTypes, EngineTypes, FillsLoopTypes,
       CancelsLoopTypes, FillsMatchOrders
  <2>5. CASE outcome # "aborted"
    <3>1. Apply(i)
      BY <1>4, <2>5 DEF SettleFill
    <3>2. DatabaseTypes'
      BY <1>4, <2>1, <2>2, <3>1, ApplyTypes DEF SettleFill, DatabaseTypes, Row
    <3>3. FillsLoopTypes'
      BY <1>4, <2>1, <2>3, <3>1, ApplyTypes DEF SettleFill, FillsLoopTypes
    <3>4. EngineTypes' /\ CancelsLoopTypes' /\ FillsMatchOrders'
      BY <1>4 DEF SettleFill, EngineTypes, CancelsLoopTypes, FillsMatchOrders
    <3>5. QED
      BY <3>2, <3>3, <3>4
  <2>6. QED
    BY <2>4, <2>5
<1>5. ASSUME NEW i \in work, NEW outcome \in Outcomes, AckFill(i, outcome) PROVE IInv'
  <2>1. aborts' \in 0..MaxAborts
    BY <1>5, BoundsAssumption DEF AckFill, Fails, DatabaseTypes
  <2>2. DatabaseTypes'
    BY <1>5, <2>1 DEF AckFill, DatabaseTypes
  <2>3. FillsLoopTypes'
    BY <1>5 DEF AckFill, FillsLoopTypes
  <2>4. EngineTypes' /\ CancelsLoopTypes' /\ FillsMatchOrders'
    BY <1>5 DEF AckFill, EngineTypes, CancelsLoopTypes, FillsMatchOrders
  <2>5. QED
    BY <2>2, <2>3, <2>4
<1>6. QED
  BY <1>1, <1>2, <1>3, <1>4, <1>5 DEF ConsumeFills

\* So does the cancels loop, and a release is an amount.
LEMMA ConsumeCancelsKeeps ==
  ASSUME IInv, ConsumeCancels PROVE IInv'
<1> USE DEF IInv, TypeOK, Sources, Phases, database, engine, fillsLoop, cancelsLoop, history
<1>1. ASSUME NEW outcome \in Outcomes, ReadCancels(outcome) PROVE IInv'
  <2> DEFINE upto == Upto(cancelsRead, cancels, CancelsBatch)
  <2>1. upto \in cancelsRead..Len(cancels) /\ cancelsRead \in Nat /\ Len(cancels) \in Nat
    <3>1. cancelsRead \in 0..Len(cancels) /\ Len(cancels) \in Nat /\ CancelsBatch \in Nat
      BY BoundsAssumption DEF CancelsLoopTypes, EngineTypes
    <3>2. QED
      BY <3>1 DEF Upto
  <2>2. /\ upto \in 0..Len(cancels) /\ (cancelsRead + 1 .. upto) \subseteq 1..upto
        /\ 1..cancelsRead \subseteq 1..upto
    BY <2>1
  <2>3. /\ cancelsRead' = IF outcome = "aborted" THEN cancelsRead ELSE upto
        /\ cancelsInHand' = IF outcome = "ok" THEN cancelsRead + 1 .. upto ELSE {}
        /\ lostCancels' = IF outcome = "unanswered" THEN lostCancels \cup (cancelsRead + 1 .. upto)
                          ELSE lostCancels
        /\ cancelsStopped' \in BOOLEAN /\ cancels' = cancels
    BY <1>1 DEF ReadCancels
  <2>4. CancelsLoopTypes'
    <3> HIDE DEF upto
    <3>1. CASE outcome = "aborted"
      BY <2>3, <3>1 DEF CancelsLoopTypes
    <3>2. CASE outcome # "aborted"
      <4>1. lostCancels' \subseteq 1..upto /\ cancelsInHand' \subseteq 1..upto
        BY <2>2, <2>3 DEF CancelsLoopTypes
      <4>2. QED
        BY <2>2, <2>3, <3>2, <4>1 DEF CancelsLoopTypes
    <3>3. QED
      BY <3>1, <3>2
  <2>5. aborts' \in 0..MaxAborts
    BY <1>1, BoundsAssumption DEF ReadCancels, Fails, DatabaseTypes
  <2>6. DatabaseTypes' /\ EngineTypes' /\ FillsLoopTypes' /\ FillsMatchOrders'
    BY <1>1, <2>5 DEF ReadCancels, DatabaseTypes, EngineTypes, FillsLoopTypes, FillsMatchOrders
  <2>7. QED
    BY <2>4, <2>6
<1>2. ASSUME NEW i \in cancelsInHand, NEW outcome \in Outcomes, SettleCancel(i, outcome)
      PROVE  IInv'
  <2> DEFINE c  == cancels[i]
             id == c.orderId
  <2>1. c \in CancelMessage
    <3>1. cancels \in Seq(CancelMessage)
          /\ Len(cancels) \in Nat
      BY DEF EngineTypes
    <3>2. i \in 1..Len(cancels)
      BY <3>1 DEF CancelsLoopTypes
    <3>3. QED
      BY <3>1, <3>2
  <2>2. id \in OrderIds /\ c.unfilledQty \in Nat
    BY <2>1, BoundsAssumption DEF CancelMessage
  <2>3. Released(id, c.unfilledQty) \in Int
    <3>1. orders[id].initialMargin * c.unfilledQty \in Int
      BY <2>2 DEF DatabaseTypes
    <3>2. QED
      BY <2>2, <3>1, RequestTypes, DivIsInt DEF Released
  <2>4. aborts' \in 0..MaxAborts
    BY <1>2, BoundsAssumption DEF SettleCancel, Fails, DatabaseTypes
  <2>5. EngineTypes' /\ FillsLoopTypes' /\ CancelsLoopTypes' /\ FillsMatchOrders'
    BY <1>2 DEF SettleCancel, RestOfBatch, EngineTypes, FillsLoopTypes, CancelsLoopTypes,
                FillsMatchOrders
  <2>6. CASE outcome = "aborted"
    BY <1>2, <2>4, <2>5, <2>6 DEF SettleCancel, DatabaseTypes
  <2>7. CASE outcome # "aborted"
    <3>1. available' \in [Users -> Int] /\ locked' \in [Users -> Int]
      BY <1>2, <2>3, <2>7 DEF SettleCancel, DatabaseTypes
    <3>2. cancelledQty' \in [OrderIds -> Nat]
      BY <1>2, <2>2, <2>7 DEF SettleCancel, DatabaseTypes
    <3>3. orders' \in [OrderIds -> Row]
      BY <1>2, <2>2, <2>7 DEF SettleCancel, DatabaseTypes, Row, Statuses
    <3>4. DatabaseTypes'
      BY <1>2, <2>4, <3>1, <3>2, <3>3 DEF SettleCancel, DatabaseTypes, Row
    <3>5. QED
      BY <2>5, <3>4
  <2>8. QED
    BY <2>6, <2>7
<1>3. QED
  BY <1>1, <1>2 DEF ConsumeCancels

\* The new worker starts from what Redis still has pending for the group.
LEMMA RestartKeeps ==
  ASSUME IInv, Restart PROVE IInv'
<1> USE DEF IInv, TypeOK, Sources, Phases, database, engine, fillsLoop, cancelsLoop, history
<1>1. crashes' \in 0..MaxCrashes
  BY BoundsAssumption DEF Restart, DatabaseTypes
<1>2. DatabaseTypes'
  BY <1>1 DEF Restart, DatabaseTypes
<1>3. FillsLoopTypes' /\ CancelsLoopTypes'
  BY DEF Restart, Replayed, FillsLoopTypes, CancelsLoopTypes
<1>4. EngineTypes' /\ FillsMatchOrders'
  BY DEF Restart, EngineTypes, FillsMatchOrders
<1>5. QED
  BY <1>2, <1>3, <1>4

\* No step breaks the invariant.
LEMMA Inductive == IInv /\ [Next]_vars => IInv'
<1> SUFFICES ASSUME IInv, [Next]_vars PROVE IInv'
  OBVIOUS
<1>1. CASE Next
  BY <1>1, PlaceKeeps, EngineKeeps, ConsumeFillsKeeps, ConsumeCancelsKeeps, RestartKeeps
     DEF Next
<1>2. CASE UNCHANGED vars
  BY <1>2 DEF vars, database, engine, fillsLoop, cancelsLoop, history, IInv, TypeOK,
     DatabaseTypes, EngineTypes, FillsLoopTypes, CancelsLoopTypes, FillsMatchOrders
<1>3. QED
  BY <1>1, <1>2

\* Every reachable state of settlement is well typed.
THEOREM TypeCorrect == Spec => []TypeOK
<1>1. IInv => TypeOK
  BY DEF IInv
<1>2. QED
  BY <1>1, InitIInv, Inductive, PTL DEF Spec

-----------------------------------------------------------------------------
(* Refinement.  Only a trade and a fill that commits are visible to        *)
(* NetPositions; every other step leaves its three variables alone.        *)

Log       == [i \in 1..Len(fills) |-> TradeOf(fills[i])]
NetOf     == [a \in Accounts |-> Net(position[a])]
Invisible == UNCHANGED <<fills, fillRows, position>>

\* What a step can look like to NetPositions.
LEMMA VisibleSteps ==
  ASSUME IInv, [Next]_vars
  PROVE  \/ Invisible
         \/ \E t, m \in OrderIds : Trade(t, m)
         \/ \E i \in work : Apply(i) /\ i \notin fillRows /\ UNCHANGED fills
<1> USE DEF database, engine, fillsLoop, cancelsLoop, history, Invisible
<1>1. CASE Place
  BY <1>1 DEF Place, PlaceRead, PlaceCommit, PlaceFail
<1>2. CASE Engine
  BY <1>2 DEF Engine, EndOfMatch, EngineCancel, Cancelled
<1>3. CASE ConsumeFills
  <2>1. ASSUME NEW outcome \in Outcomes, ReadFills(outcome) \/ ClaimIdle(outcome)
        PROVE  Invisible
    BY <2>1 DEF ReadFills, ClaimIdle
  <2>2. ASSUME NEW i \in work, AlreadySettled(i) PROVE Invisible
    BY <2>2 DEF AlreadySettled
  <2>3. ASSUME NEW i \in work, NEW outcome \in Outcomes, AckFill(i, outcome) PROVE Invisible
    BY <2>3 DEF AckFill
  <2>4. ASSUME NEW i \in work, NEW outcome \in Outcomes, SettleFill(i, outcome)
        PROVE  Invisible \/ (Apply(i) /\ i \notin fillRows /\ UNCHANGED fills)
    BY <2>4 DEF SettleFill, HasRow
  <2>5. QED
    BY <1>3, <2>1, <2>2, <2>3, <2>4 DEF ConsumeFills
<1>4. CASE ConsumeCancels
  BY <1>4 DEF ConsumeCancels, ReadCancels, SettleCancel
<1>5. CASE Restart
  BY <1>5 DEF Restart
<1>6. CASE UNCHANGED vars
  BY <1>6 DEF vars
<1>7. QED
  BY <1>1, <1>2, <1>3, <1>4, <1>5, <1>6 DEF Next

\* The buyer and the seller of a fill are different accounts, and each of the
\* two orders stands for one of them.
LEMMA SidesOfFill ==
  ASSUME NEW t \in OrderIds, NEW m \in OrderIds,
         Requests[t].userId # Requests[m].userId, Requests[t].side # Requests[m].side
  PROVE  /\ AccountOf(t) # AccountOf(m)
         /\ Requests[t].side = "BUY" => /\ Dir(t) = "LONG" /\ Dir(m) = "SHORT"
         /\ Requests[t].side # "BUY" => /\ Dir(t) = "SHORT" /\ Dir(m) = "LONG"
<1>1. Requests[t].side \in {"BUY", "SELL"} /\ Requests[m].side \in {"BUY", "SELL"}
  BY RequestTypes DEF Request
<1>2. QED
  BY <1>1 DEF AccountOf, Dir, DirectionOf

\* A trade of the engine is a trade of NetPositions.
LEMMA TradeIsPublish ==
  ASSUME IInv, IInv', NEW t \in OrderIds, NEW m \in OrderIds, Trade(t, m)
  PROVE  Promise!Publish
<1> DEFINE n == Len(fills)
           f == fills'[n + 1]
<1>1. fills \in Seq(FillMessage) /\ n \in Nat
  BY DEF IInv, TypeOK, EngineTypes
<1>2. Len(fills') = n + 1 /\ \A i \in 1..n : fills'[i] = fills[i]
  BY <1>1 DEF Trade
<1>3. f.takerOrderId = t /\ f.makerOrderId = m /\ f \in FillMessage
  <2>1. f.takerOrderId = t /\ f.makerOrderId = m
    BY <1>1 DEF Trade
  <2>2. fills' \in Seq(FillMessage)
    BY DEF IInv, TypeOK, EngineTypes
  <2>3. QED
    BY <1>1, <1>2, <2>1, <2>2
<1>4. TradeOf(f) \in Promise!Trade
  BY <1>3, RequestTypes DEF TradeOf, Buyer, Seller, FillMessage, Promise!Trade
<1>5. TradeOf(f).buyer # TradeOf(f).seller
  BY <1>3, SidesOfFill DEF Trade, TradeOf, Buyer, Seller, Buys
<1>6. Log' = Append(Log, TradeOf(f))
  BY <1>1, <1>2 DEF Log
<1>7. fillRows' = fillRows /\ NetOf' = NetOf
  BY DEF Trade, database, NetOf
<1>8. QED
  BY <1>4, <1>5, <1>6, <1>7 DEF Promise!Publish, Log, NetOf

\* A fill that commits moves its quantity from the seller to the buyer.
LEMMA ApplyIsSettle ==
  ASSUME IInv, NEW i \in work, Apply(i), i \notin fillRows, UNCHANGED fills
  PROVE  Promise!Settle
<1> DEFINE f == fills[i]
           t == f.takerOrderId
           m == f.makerOrderId
           b == TradeOf(f).buyer
           s == TradeOf(f).seller
<1>1. i \in 1..Len(fills) /\ f \in FillMessage
  BY DEF IInv, TypeOK, FillsLoopTypes, EngineTypes
<1>2. t \in OrderIds /\ m \in OrderIds /\ f.qty \in Nat
  BY <1>1, BoundsAssumption DEF FillMessage
<1>3. Requests[t].userId # Requests[m].userId /\ Requests[t].side # Requests[m].side
  BY <1>1 DEF IInv, FillsMatchOrders
<1>4. /\ AccountOf(t) # AccountOf(m)
      /\ AccountOf(t) \in Accounts /\ AccountOf(m) \in Accounts
  BY <1>2, <1>3, SidesOfFill, RequestTypes
<1>5. position \in [Accounts -> Position]
  BY DEF IInv, TypeOK, DatabaseTypes
<1>6. position' = [position EXCEPT ![AccountOf(t)] = AccountAfter(t, f).position,
                                   ![AccountOf(m)] = AccountAfter(m, f).position]
  BY DEF Apply
<1>7. /\ position'[AccountOf(t)] = AccountAfter(t, f).position
      /\ position'[AccountOf(m)] = AccountAfter(m, f).position
      /\ \A a \in Accounts \ {AccountOf(t), AccountOf(m)} : position'[a] = position[a]
  BY <1>4, <1>5, <1>6
<1>8. /\ NetOf'[AccountOf(t)] = NetOf[AccountOf(t)] + Signed(Dir(t), f.qty)
      /\ NetOf'[AccountOf(m)] = NetOf[AccountOf(m)] + Signed(Dir(m), f.qty)
      /\ \A a \in Accounts \ {AccountOf(t), AccountOf(m)} : NetOf'[a] = NetOf[a]
  BY <1>1, <1>2, <1>4, <1>7, AccountAfterMoves DEF NetOf, IInv
<1>9. \A a \in Accounts : NetOf[a] \in Int
  BY <1>5 DEF NetOf, Net, Position, NoPosition
<1>10. /\ {b, s} = {AccountOf(t), AccountOf(m)} /\ b # s
       /\ NetOf'[b] = NetOf[b] + f.qty /\ NetOf'[s] = NetOf[s] - f.qty
  BY <1>2, <1>3, <1>4, <1>8, <1>9, SidesOfFill DEF TradeOf, Buyer, Seller, Buys, Signed
<1>11. NetOf' = [NetOf EXCEPT ![b] = NetOf[b] + f.qty, ![s] = NetOf[s] - f.qty]
  BY <1>4, <1>8, <1>10 DEF NetOf
<1>12. i \in (1..Len(Log)) \ fillRows /\ Log[i] = TradeOf(f)
  BY <1>1 DEF Log, IInv, TypeOK, EngineTypes
<1>13. fillRows' = fillRows \cup {i} /\ Log' = Log
  BY DEF Apply, Log
<1>14. TradeOf(f).qty = f.qty
  BY DEF TradeOf
<1>15. NetOf' = [NetOf EXCEPT ![b] = @ + f.qty, ![s] = @ - f.qty]
  BY <1>9, <1>10, <1>11 DEF NetOf
<1>16. /\ fillRows' = fillRows \cup {i}
       /\ NetOf' = [NetOf EXCEPT ![Log[i].buyer] = @ + Log[i].qty,
                                 ![Log[i].seller] = @ - Log[i].qty]
  BY <1>12, <1>13, <1>14, <1>15
<1>17. \E j \in (1..Len(Log)) \ fillRows :
         /\ fillRows' = fillRows \cup {j}
         /\ NetOf' = [NetOf EXCEPT ![Log[j].buyer] = @ + Log[j].qty,
                                   ![Log[j].seller] = @ - Log[j].qty]
  BY <1>12, <1>16, Zenon
<1>18. QED
  BY <1>13, <1>17, Zenon DEF Promise!Settle, Log, NetOf

\* Settlement implements NetPositions: whatever is redelivered, retried or
\* left behind by a crash, a fill moves its quantity once, for both sides.
THEOREM Implements == Spec => ImplementsNetPositions
<1>1. Init => Promise!Init
  <2> SUFFICES ASSUME Init PROVE Promise!Init
    OBVIOUS
  <2>1. Log = <<>>
    BY DEF Init, Log
  <2>2. fillRows = {} /\ NetOf = [a \in Accounts |-> 0]
    BY DEF Init, NetOf, Net, NoPosition
  <2>3. QED
    BY <2>1, <2>2 DEF Promise!Init, Log, NetOf
<1>2. IInv /\ IInv' /\ [Next]_vars => [Promise!Next]_Promise!vars
  <2> SUFFICES ASSUME IInv, IInv', [Next]_vars PROVE [Promise!Next]_Promise!vars
    OBVIOUS
  <2>1. CASE Invisible
    BY <2>1 DEF Invisible, Promise!vars
  <2>2. ASSUME NEW t \in OrderIds, NEW m \in OrderIds, Trade(t, m)
        PROVE  Promise!Next
    BY <2>2, TradeIsPublish DEF Promise!Next
  <2>3. ASSUME NEW i \in work, Apply(i), i \notin fillRows, UNCHANGED fills
        PROVE  Promise!Next
    BY <2>3, ApplyIsSettle DEF Promise!Next
  <2>4. QED
    BY <2>1, <2>2, <2>3, VisibleSteps
<1>3. QED
  BY <1>1, <1>2, InitIInv, Inductive, PTL DEF Spec, ImplementsNetPositions, Promise!Spec

-----------------------------------------------------------------------------
(* Sums. *)

\* What OrderBookProofs shows of the library's sums is stated again here, for
\* the sums of Accounting.
Sums == INSTANCE OrderBookProofs

\* They are the same sums.
LEMMA SameSums ==
  /\ \A f : Sums!SumFunction(f) = SumFunction(f)
  /\ \A S : Sums!IsFiniteSet(S) = IsFiniteSet(S)
<1>1. \A f : Sums!SumFunction(f) = SumFunction(f)
  BY DEF SumFunction, SumFunctionOnSet, FoldFunctionOnSet, MapThenFoldSet,
         Sums!SumFunction, Sums!SumFunctionOnSet, Sums!FoldFunctionOnSet, Sums!MapThenFoldSet
<1>2. \A S : Sums!IsFiniteSet(S) = IsFiniteSet(S)
  BY DEF IsFiniteSet, Sums!IsFiniteSet
<1>3. QED
  BY <1>1, <1>2

\* It is an integer.
LEMMA TotalInt ==
  ASSUME NEW S, IsFiniteSet(S), NEW f \in [S -> Int]
  PROVE  SumFunction(f) \in Int
  BY SameSums, Sums!TotalInt

\* It is zero when all values are.
LEMMA TotalZero ==
  ASSUME NEW S, IsFiniteSet(S), NEW f \in [S -> Int], \A x \in S : f[x] = 0
  PROVE  SumFunction(f) = 0
  BY SameSums, Sums!TotalZero

\* It follows the one value that changes.
LEMMA TotalChange ==
  ASSUME NEW S, IsFiniteSet(S), NEW f \in [S -> Int], NEW g \in [S -> Int],
         NEW x \in S, \A y \in S \ {x} : g[y] = f[y]
  PROVE  SumFunction(g) = SumFunction(f) + (g[x] - f[x])
  BY SameSums, Sums!TotalChange

\* It grows by the value of an element that is added.
LEMMA TotalExtend ==
  ASSUME NEW S, IsFiniteSet(S), NEW x, x \notin S,
         NEW f \in [S -> Int], NEW g \in [S \cup {x} -> Int],
         \A y \in S : g[y] = f[y]
  PROVE  SumFunction(g) = SumFunction(f) + g[x]
  BY SameSums, Sums!TotalExtend

\* It is no smaller than the sum over a part, if no value is negative.
LEMMA TotalOfPart ==
  ASSUME NEW S, IsFiniteSet(S), NEW T \in SUBSET S,
         NEW f \in [S -> Nat], NEW g \in [T -> Nat], \A x \in T : g[x] = f[x]
  PROVE  SumFunction(g) <= SumFunction(f)
  BY SameSums, Sums!TotalOfPart

\* It is not negative then.
LEMMA TotalNat ==
  ASSUME NEW S, IsFiniteSet(S), NEW f \in [S -> Nat]
  PROVE  f \in [S -> Int] /\ SumFunction(f) \in Nat
  BY SameSums, Sums!TotalNat

-----------------------------------------------------------------------------
(* What is left of an order.  Its quantity is what the engine still has of *)
(* it, what has traded, and what was cancelled; the rows count what of     *)
(* that has been settled.                                                  *)

FillsOf(s, o, ids)    == {i \in ids : o \in {s[i].takerOrderId, s[i].makerOrderId}}
QtyOfFills(s, o, ids) == SumFunction([i \in FillsOf(s, o, ids) |-> s[i].qty])
QtyFor(f, o)          == IF o \in {f.takerOrderId, f.makerOrderId} THEN f.qty ELSE 0
Published(o)          == QtyOfFills(fills, o, 1..Len(fills))
CancelIds             == 1..Len(cancels)

\* Only orders that have a row reach the engine, and one is being placed as
\* long as it has none.
OnlyPlaced ==
  /\ \A o \in OrderIds : orders[o].status = "NONE" => live[o] = 0
  /\ \A i \in 1..Len(fills) : /\ orders[fills[i].takerOrderId].status # "NONE"
                             /\ orders[fills[i].makerOrderId].status # "NONE"
  /\ \A i \in CancelIds : orders[cancels[i].orderId].status # "NONE"
  /\ placing # NotPlacing => orders[placing.orderId].status = "NONE"

\* A row counts the fills that are settled.
RowsCount == \A o \in OrderIds : orders[o].filledQty = QtyOfFills(fills, o, fillRows)

\* What the engine has left does not exceed what has not traded.
WithinQty == \A o \in OrderIds : live[o] + Published(o) <= Requests[o].qty

\* A cancel takes all that was left, so an order has one at most.
CancelsAreFinal ==
  /\ \A i \in CancelIds :
       LET o == cancels[i].orderId
       IN  live[o] = 0 /\ cancels[i].unfilledQty + Published(o) <= Requests[o].qty
  /\ \A i, j \in CancelIds : cancels[i].orderId = cancels[j].orderId => i = j

\* What is cancelled in the database was cancelled by the engine, once.
CancelledOnce ==
  \A o \in OrderIds : cancelledQty[o] = 0 \/
    \E i \in (1..cancelsRead) \ cancelsInHand :
      cancels[i].orderId = o /\ cancelledQty[o] = cancels[i].unfilledQty

AInv == OnlyPlaced /\ RowsCount /\ WithinQty /\ CancelsAreFinal /\ CancelledOnce

\* A sum over the members of a set that an order or a user has a part in grows
\* by what the new member brings, if it is one of them.
LEMMA PartGrows ==
  ASSUME NEW Q, IsFiniteSet(Q), NEW x, x \notin Q,
         NEW P, P = Q \/ P = Q \cup {x},
         NEW f \in [Q -> Int], NEW g \in [P -> Int], \A y \in Q : g[y] = f[y]
  PROVE  SumFunction(g) = SumFunction(f) + (IF x \in P THEN g[x] ELSE 0)
<1>1. CASE P = Q \cup {x}
  <2>1. SumFunction(g) = SumFunction(f) + g[x]
    BY <1>1, TotalExtend
  <2>2. QED
    BY <1>1, <2>1
<1>2. CASE P = Q
  <2>1. f = g
    BY <1>2
  <2>2. SumFunction(f) \in Int
    BY TotalInt
  <2>3. QED
    BY <1>2, <2>1, <2>2
<1>3. QED
  BY <1>1, <1>2

\* The quantities of an order's fills add up to a quantity.
LEMMA QtyIsNat ==
  ASSUME NEW s \in Seq(FillMessage), NEW ids \in SUBSET (1..Len(s)), NEW o
  PROVE  /\ IsFiniteSet(ids)
         /\ [i \in FillsOf(s, o, ids) |-> s[i].qty] \in [FillsOf(s, o, ids) -> Nat]
         /\ QtyOfFills(s, o, ids) \in Nat
<1>1. IsFiniteSet(ids)
  <2>1. Len(s) \in Int /\ 1 \in Int
    BY LenProperties
  <2>2. IsFiniteSet(1..Len(s))
    BY <2>1, FS_Interval
  <2>3. QED
    BY <2>2, FS_Subset
<1>2. \A i \in ids : s[i].qty \in Nat
  <2>1. TAKE i \in ids
  <2>2. i \in 1..Len(s)
    OBVIOUS
  <2>3. s[i] \in FillMessage
    BY <2>2, ElementOfSeq
  <2>4. s[i].qty \in 1..MaxQty
    BY <2>3 DEF FillMessage
  <2>5. QED
    BY <2>4, BoundsAssumption
<1> DEFINE P == FillsOf(s, o, ids)
           q == [i \in P |-> s[i].qty]
<1>3. P \subseteq ids
  BY DEF FillsOf
<1>4. IsFiniteSet(P)
  BY <1>1, <1>3, FS_Subset
<1>5. q \in [P -> Nat]
  BY <1>2, <1>3
<1>6. SumFunction(q) \in Nat
  <2> HIDE DEF P, q
  <2>1. q \in [P -> Nat]
    BY <1>5
  <2>2. QED
    BY <1>4, <2>1, TotalNat
<1>7. QED
  BY <1>1, <1>5, <1>6 DEF QtyOfFills

\* A fill more, published or settled, counts for its two orders.
LEMMA QtyGrows ==
  ASSUME NEW s \in Seq(FillMessage), NEW r \in Seq(FillMessage),
         NEW ids \in SUBSET (1..Len(s)), NEW i \in 1..Len(r), i \notin ids,
         ids \subseteq 1..Len(r), \A j \in ids : r[j] = s[j], NEW o
  PROVE  QtyOfFills(r, o, ids \cup {i}) = QtyOfFills(s, o, ids) + QtyFor(r[i], o)
<1> DEFINE P == FillsOf(r, o, ids \cup {i})
           f == [j \in FillsOf(s, o, ids) |-> s[j].qty]
           g == [j \in P |-> r[j].qty]
<1> DEFINE Q == FillsOf(s, o, ids)
<1>1. IsFiniteSet(Q) /\ f \in [Q -> Nat]
  <2>1. IsFiniteSet(ids) /\ f \in [Q -> Nat]
    BY QtyIsNat
  <2>2. Q \subseteq ids
    BY DEF FillsOf
  <2>3. QED
    BY <2>1, <2>2, FS_Subset
<1>2. g \in [P -> Nat]
  <2>1. ids \cup {i} \in SUBSET (1..Len(r))
    OBVIOUS
  <2>2. QED
    BY <2>1, QtyIsNat
<1>3. i \notin Q /\ (P = Q \/ P = Q \cup {i})
  BY DEF FillsOf
<1>4. \A j \in Q : g[j] = f[j]
  BY DEF FillsOf
<1>5. SumFunction(g) = SumFunction(f) + (IF i \in P THEN g[i] ELSE 0)
  <2> HIDE DEF f, g, P, Q
  <2>1. f \in [Q -> Int] /\ g \in [P -> Int]
    BY <1>1, <1>2
  <2>2. QED
    BY <1>1, <1>3, <1>4, <2>1, PartGrows
<1>6. (i \in P) = (o \in {r[i].takerOrderId, r[i].makerOrderId})
  BY DEF FillsOf
<1>7. (IF i \in P THEN g[i] ELSE 0) = QtyFor(r[i], o)
  BY <1>6 DEF QtyFor
<1>8. QED
  BY <1>5, <1>7 DEF QtyOfFills

\* It does not depend on the rest of the stream.
LEMMA QtySame ==
  ASSUME NEW s, NEW r, NEW ids, \A i \in ids : r[i] = s[i], NEW o
  PROVE  QtyOfFills(r, o, ids) = QtyOfFills(s, o, ids)
<1>1. FillsOf(r, o, ids) = FillsOf(s, o, ids)
  BY DEF FillsOf
<1>2. FillsOf(s, o, ids) \subseteq ids
  BY DEF FillsOf
<1>3. [i \in FillsOf(r, o, ids) |-> r[i].qty] = [i \in FillsOf(s, o, ids) |-> s[i].qty]
  BY <1>1, <1>2
<1>4. QED
  BY <1>3 DEF QtyOfFills

\* An order without fills has none of their quantity.
LEMMA QtyOfNone ==
  ASSUME NEW s, NEW ids, NEW o,
         \A i \in ids : o # s[i].takerOrderId /\ o # s[i].makerOrderId
  PROVE  QtyOfFills(s, o, ids) = 0
<1> DEFINE q == [i \in FillsOf(s, o, ids) |-> s[i].qty]
<1>1. FillsOf(s, o, ids) = {}
  BY DEF FillsOf
<1>2. q \in [{} -> Int] /\ \A i \in {} : q[i] = 0
  BY <1>1
<1>3. SumFunction(q) = 0
  <2> HIDE DEF q
  <2>1. QED
    BY <1>2, FS_EmptySet, TotalZero
<1>4. QED
  BY <1>3 DEF QtyOfFills

\* No more of an order is settled than has traded.
LEMMA SettledWithinPublished ==
  ASSUME IInv, NEW o
  PROVE  /\ Published(o) \in Nat
         /\ QtyOfFills(fills, o, fillRows) \in Nat
         /\ QtyOfFills(fills, o, fillRows) <= Published(o)
<1> DEFINE S == FillsOf(fills, o, 1..Len(fills))
           T == FillsOf(fills, o, fillRows)
           f == [i \in S |-> fills[i].qty]
           g == [i \in T |-> fills[i].qty]
<1>1. /\ fills \in Seq(FillMessage) /\ fillRows \subseteq 1..Len(fills)
  <2>1. fillsRead \in 0..Len(fills) /\ fillRows \subseteq 1..fillsRead
    BY DEF IInv, TypeOK, FillsLoopTypes
  <2>2. fills \in Seq(FillMessage) /\ Len(fills) \in Nat
    BY LenProperties DEF IInv, TypeOK, EngineTypes
  <2>3. QED
    BY <2>1, <2>2
<1>2. /\ IsFiniteSet(1..Len(fills)) /\ f \in [S -> Nat] /\ Published(o) \in Nat
  BY <1>1, QtyIsNat DEF Published
<1>3. g \in [T -> Nat] /\ QtyOfFills(fills, o, fillRows) \in Nat
  BY <1>1, QtyIsNat
<1>4. T \in SUBSET S /\ S \subseteq 1..Len(fills)
  BY <1>1 DEF FillsOf
<1>5. \A i \in T : g[i] = f[i]
  BY <1>4
<1>6. SumFunction(g) <= SumFunction(f)
  <2> HIDE DEF f, g, S, T
  <2>1. IsFiniteSet(S)
    BY <1>2, <1>4, FS_Subset
  <2>2. QED
    BY <1>2, <1>3, <1>4, <1>5, <2>1, TotalOfPart
<1>7. QED
  BY <1>2, <1>3, <1>6 DEF QtyOfFills, Published

\* What is in the streams, and how far the worker has got with them.
LEMMA StreamTypes ==
  ASSUME IInv
  PROVE  /\ fills \in Seq(FillMessage) /\ Len(fills) \in Nat
         /\ \A i \in 1..Len(fills) : /\ fills[i].takerOrderId \in OrderIds
                                    /\ fills[i].makerOrderId \in OrderIds
                                    /\ fills[i].qty \in Nat \ {0} /\ fills[i].price \in Nat
                                    /\ fills[i].takerOrderId # fills[i].makerOrderId
         /\ fillRows \subseteq 1..Len(fills)
         /\ cancels \in Seq(CancelMessage) /\ Len(cancels) \in Nat
         /\ \A i \in CancelIds : /\ cancels[i].orderId \in OrderIds
                                 /\ cancels[i].unfilledQty \in Nat \ {0}
         /\ cancelsRead \in Nat /\ cancelsRead <= Len(cancels)
<1>1. /\ fills \in Seq(FillMessage) /\ Len(fills) \in Nat
      /\ cancels \in Seq(CancelMessage) /\ Len(cancels) \in Nat
  BY LenProperties DEF IInv, TypeOK, EngineTypes
<1>2. /\ \A i \in 1..Len(fills) : fills[i] \in FillMessage
      /\ \A i \in CancelIds : cancels[i] \in CancelMessage
  BY <1>1, ElementOfSeq DEF CancelIds
<1>3. /\ \A i \in 1..Len(fills) : /\ fills[i].takerOrderId \in OrderIds
                                 /\ fills[i].makerOrderId \in OrderIds
                                 /\ fills[i].qty \in Nat \ {0} /\ fills[i].price \in Nat
      /\ \A i \in CancelIds : /\ cancels[i].orderId \in OrderIds
                              /\ cancels[i].unfilledQty \in Nat \ {0}
  BY <1>2, BoundsAssumption DEF FillMessage, CancelMessage
<1>4. \A i \in 1..Len(fills) : fills[i].takerOrderId # fills[i].makerOrderId
  BY DEF IInv, FillsMatchOrders
<1>5. fillRows \subseteq 1..Len(fills) /\ cancelsRead \in Nat /\ cancelsRead <= Len(cancels)
  BY <1>1 DEF IInv, TypeOK, FillsLoopTypes, CancelsLoopTypes
<1>6. QED
  BY <1>1, <1>3, <1>4, <1>5

-----------------------------------------------------------------------------
(* Each kind of step keeps it. *)

\* Most steps change none of it, or take a cancel out of the hands of the
\* cancels loop.
Quiet ==
  /\ UNCHANGED <<orders, live, fills, cancels, fillRows, cancelledQty>>
  /\ placing' = placing \/ placing' = NotPlacing
  /\ (1..cancelsRead) \ cancelsInHand \subseteq ((1..cancelsRead) \ cancelsInHand)'

LEMMA QuietKeeps ==
  ASSUME AInv, Quiet PROVE AInv'
<1>1. OnlyPlaced'
  BY DEF AInv, Quiet, OnlyPlaced, CancelIds
<1>2. RowsCount' /\ WithinQty'
  BY DEF AInv, Quiet, RowsCount, WithinQty, Published
<1>3. CancelsAreFinal'
  BY DEF AInv, Quiet, CancelsAreFinal, CancelIds, Published
<1>4. CancelledOnce'
  <2>1. SUFFICES ASSUME NEW o \in OrderIds, cancelledQty[o] # 0
        PROVE  \E i \in ((1..cancelsRead) \ cancelsInHand)' :
                 cancels[i].orderId = o /\ cancelledQty[o] = cancels[i].unfilledQty
    BY DEF Quiet, CancelledOnce
  <2>2. PICK i \in (1..cancelsRead) \ cancelsInHand :
          cancels[i].orderId = o /\ cancelledQty[o] = cancels[i].unfilledQty
    BY <2>1 DEF AInv, CancelledOnce
  <2>3. i \in ((1..cancelsRead) \ cancelsInHand)'
    BY DEF Quiet
  <2>4. QED
    BY <2>2, <2>3
<1>5. QED
  BY <1>1, <1>2, <1>3, <1>4 DEF AInv

\* Reading the position for an order that has no row.
LEMMA PlaceReadKeeps ==
  ASSUME IInv, AInv, NEW id \in OrderIds, PlaceRead(id) PROVE AInv'
<1>1. UNCHANGED <<orders, live, fills, cancels, fillRows, cancelledQty, cancelsRead, cancelsInHand>>
  BY DEF PlaceRead, database, engine, cancelsLoop, history
<1>2. orders[id].status = "NONE" /\ placing'.orderId = id
  BY DEF PlaceRead
<1>3. OnlyPlaced'
  BY <1>1, <1>2 DEF AInv, OnlyPlaced, CancelIds
<1>4. RowsCount' /\ WithinQty' /\ CancelsAreFinal' /\ CancelledOnce'
  BY <1>1 DEF AInv, RowsCount, WithinQty, Published, CancelsAreFinal, CancelIds, CancelledOnce
<1>5. QED
  BY <1>3, <1>4 DEF AInv

\* The order's row, and its whole quantity for the engine.
LEMMA PlaceCommitKeeps ==
  ASSUME IInv, AInv, PlaceCommit PROVE AInv'
<1> DEFINE id == placing.orderId
<1>1. id \in OrderIds /\ orders[id].status = "NONE"
  BY DEF PlaceCommit, AInv, OnlyPlaced, IInv, TypeOK, DatabaseTypes
<1>2. UNCHANGED <<fills, cancels, fillRows, cancelledQty, cancelsRead, cancelsInHand>>
  BY DEF PlaceCommit, cancelsLoop, history
<1>3. /\ orders'[id].status = "OPEN" /\ orders'[id].filledQty = 0
      /\ \A o \in OrderIds \ {id} : orders'[o] = orders[o]
  BY <1>1 DEF PlaceCommit, IInv, TypeOK, DatabaseTypes
<1>4. live'[id] = Requests[id].qty /\ \A o \in OrderIds \ {id} : live'[o] = live[o]
  BY <1>1 DEF PlaceCommit, IInv, TypeOK, EngineTypes
<1>5. /\ \A i \in 1..Len(fills) : id # fills[i].takerOrderId /\ id # fills[i].makerOrderId
      /\ \A i \in CancelIds : id # cancels[i].orderId
  BY <1>1 DEF AInv, OnlyPlaced
<1>6. Published(id) = 0 /\ QtyOfFills(fills, id, fillRows) = 0
  <2>1. Published(id) = 0
    BY <1>5, QtyOfNone DEF Published
  <2>2. QED
    BY <2>1, SettledWithinPublished
<1>7. OnlyPlaced'
  <2>1. placing' = NotPlacing
    BY DEF PlaceCommit
  <2>2. QED
    BY <1>2, <1>3, <1>4, <2>1, StreamTypes DEF AInv, OnlyPlaced, CancelIds
<1>8. RowsCount'
  BY <1>2, <1>3, <1>6 DEF AInv, RowsCount
<1>9. WithinQty'
  <2>1. \A o \in OrderIds : Published(o)' = Published(o)
    BY <1>2 DEF Published
  <2>2. live'[id] + Published(id) <= Requests[id].qty
    BY <1>1, <1>4, <1>6, RequestTypes
  <2>3. QED
    BY <1>4, <2>1, <2>2 DEF AInv, WithinQty
<1>10. CancelsAreFinal'
  <2>1. \A i \in CancelIds : live'[cancels[i].orderId] = live[cancels[i].orderId]
    BY <1>4, <1>5, StreamTypes
  <2>2. \A o : Published(o)' = Published(o)
    BY <1>2 DEF Published
  <2>3. QED
    BY <1>2, <2>1, <2>2 DEF AInv, CancelsAreFinal, CancelIds
<1>11. CancelledOnce'
  BY <1>2 DEF AInv, CancelledOnce
<1>12. QED
  BY <1>7, <1>8, <1>9, <1>10, <1>11 DEF AInv

\* A trade: what the engine no longer has of its two orders is in the fill.
\* Neither order was cancelled, since there was something left of it.
LEMMA TradeKeeps ==
  ASSUME IInv, AInv, NEW t \in OrderIds, NEW m \in OrderIds, Trade(t, m) PROVE AInv'
<1> DEFINE qty == IF live[t] < live[m] THEN live[t] ELSE live[m]
           f   == [takerOrderId |-> t, makerOrderId |-> m, qty |-> qty,
                   price |-> Requests[m].price]
           n   == Len(fills)
<1>1. UNCHANGED <<orders, cancels, fillRows, cancelledQty, placing, cancelsRead, cancelsInHand>>
  BY DEF Trade, database, cancelsLoop, history
<1>2. /\ live \in [OrderIds -> 0..MaxQty] /\ MaxQty \in Nat /\ t # m
      /\ qty \in Nat \ {0} /\ fills' = Append(fills, f)
      /\ live' = [live EXCEPT ![t] = @ - qty, ![m] = @ - qty]
  BY BoundsAssumption DEF Trade, IInv, TypeOK, EngineTypes
<1>3. \A o \in OrderIds : /\ live[o] \in Nat
                          /\ QtyFor(f, o) \in Nat
                          /\ live'[o] = live[o] - QtyFor(f, o)
                          /\ o \notin {t, m} => QtyFor(f, o) = 0
  BY <1>2 DEF QtyFor
<1>4. live[t] # 0 /\ live[m] # 0
  BY <1>2, <1>3
<1>5. /\ n \in Nat /\ Len(fills') = n + 1 /\ fills'[n + 1] = f
      /\ \A i \in 1..n : fills'[i] = fills[i]
  BY <1>2, StreamTypes, AppendProperties
<1>6. fills' \in Seq(FillMessage)
  BY EngineKeeps DEF Engine, IInv, TypeOK, EngineTypes
<1>7. \A o : Published(o)' = Published(o) + QtyFor(f, o)
  <2>1. TAKE o
  <2>2. 1..Len(fills') = (1..n) \cup {n + 1} /\ n + 1 \notin 1..n
    BY <1>5
  <2>3. /\ 1..n \in SUBSET (1..Len(fills)) /\ n + 1 \in 1..Len(fills')
        /\ 1..n \subseteq 1..Len(fills')
    BY <1>5
  <2>4. QtyOfFills(fills', o, (1..n) \cup {n + 1})
          = QtyOfFills(fills, o, 1..n) + QtyFor(fills'[n + 1], o)
    <3> DEFINE ids == 1..n
               k   == n + 1
    <3>1. /\ ids \in SUBSET (1..Len(fills)) /\ ids \subseteq 1..Len(fills')
          /\ k \in 1..Len(fills') /\ k \notin ids
          /\ \A i \in ids : fills'[i] = fills[i]
      BY <1>5, <2>2, <2>3
    <3>2. fills \in Seq(FillMessage) /\ fills' \in Seq(FillMessage)
      BY <1>6, StreamTypes
    <3> HIDE DEF ids, k
    <3>3. QtyOfFills(fills', o, ids \cup {k}) = QtyOfFills(fills, o, ids) + QtyFor(fills'[k], o)
      BY <3>1, <3>2, QtyGrows
    <3>4. QED
      BY <3>3 DEF ids, k
  <2>5. QED
    BY <1>5, <2>2, <2>4 DEF Published
<1>8. OnlyPlaced'
  <2>1. orders[t].status # "NONE" /\ orders[m].status # "NONE"
    BY <1>4 DEF AInv, OnlyPlaced
  <2>2. \A i \in 1..Len(fills') : /\ orders[fills'[i].takerOrderId].status # "NONE"
                                  /\ orders[fills'[i].makerOrderId].status # "NONE"
    BY <1>5, <2>1 DEF AInv, OnlyPlaced
  <2>3. \A o \in OrderIds : orders[o].status = "NONE" => live'[o] = 0
    BY <1>3, <2>1 DEF AInv, OnlyPlaced
  <2>4. QED
    BY <1>1, <2>2, <2>3 DEF AInv, OnlyPlaced, CancelIds
<1>9. RowsCount'
  <2>1. \A i \in fillRows : fills'[i] = fills[i]
    BY <1>5, StreamTypes
  <2>2. \A o \in OrderIds : QtyOfFills(fills', o, fillRows) = QtyOfFills(fills, o, fillRows)
    BY <2>1, QtySame
  <2>3. QED
    BY <1>1, <2>2 DEF AInv, RowsCount
<1>10. \A o \in OrderIds : Published(o) \in Nat /\ Requests[o].qty \in Nat
  BY SettledWithinPublished, RequestTypes
<1>11. WithinQty'
  <2>1. ASSUME NEW o \in OrderIds PROVE live'[o] + Published(o)' <= Requests[o].qty
    <3>1. live[o] + Published(o) <= Requests[o].qty
      BY DEF AInv, WithinQty
    <3>2. live'[o] + Published(o)' = live[o] + Published(o)
      <4> HIDE DEF f
      <4>1. QED
        BY <1>3, <1>7, <1>10
    <3>3. QED
      BY <3>1, <3>2
  <2>2. QED
    BY <2>1 DEF WithinQty
<1>12. CancelsAreFinal'
  <2>1. ASSUME NEW i \in CancelIds
        PROVE  /\ live'[cancels[i].orderId] = 0
               /\ Published(cancels[i].orderId)' = Published(cancels[i].orderId)
    <3>1. cancels[i].orderId \in OrderIds /\ live[cancels[i].orderId] = 0
      BY <2>1, StreamTypes DEF AInv, CancelsAreFinal
    <3>2. cancels[i].orderId \notin {t, m}
      BY <1>4, <3>1
    <3>3. QED
      BY <1>1, <1>3, <1>7, <1>10, <3>1, <3>2
  <2>2. QED
    BY <1>1, <2>1 DEF AInv, CancelsAreFinal, CancelIds
<1>13. CancelledOnce'
  BY <1>1 DEF AInv, CancelledOnce
<1>14. QED
  BY <1>8, <1>9, <1>11, <1>12, <1>13 DEF AInv

\* A cancel takes all that the engine still has of an order that was not
\* cancelled before.
LEMMA CancelledKeeps ==
  ASSUME IInv, AInv, NEW id \in OrderIds, live[id] > 0, Cancelled(id),
         UNCHANGED <<orders, fills, fillRows, cancelledQty, placing, cancelsRead, cancelsInHand>>
  PROVE  AInv'
<1> DEFINE c == [orderId |-> id, unfilledQty |-> live[id]]
           n == Len(cancels)
<1>1. /\ live \in [OrderIds -> 0..MaxQty] /\ MaxQty \in Nat
      /\ \A o \in OrderIds : live[o] \in Nat
  BY BoundsAssumption DEF IInv, TypeOK, EngineTypes
<1>2. /\ n \in Nat /\ Len(cancels') = n + 1 /\ cancels'[n + 1] = c
      /\ \A i \in 1..n : cancels'[i] = cancels[i]
  BY StreamTypes, AppendProperties DEF Cancelled
<1>3. live'[id] = 0 /\ \A o \in OrderIds \ {id} : live'[o] = live[o]
  BY <1>1 DEF Cancelled
<1>4. \A o : Published(o)' = Published(o)
  BY DEF Published
<1>5. \A o \in OrderIds : Published(o) \in Nat /\ Requests[o].qty \in Nat
  BY SettledWithinPublished, RequestTypes
<1>6. OnlyPlaced'
  <2>1. orders[id].status # "NONE"
    BY <1>1 DEF AInv, OnlyPlaced
  <2>2. \A i \in 1..Len(cancels') : orders[cancels'[i].orderId].status # "NONE"
    BY <1>2, <2>1 DEF AInv, OnlyPlaced, CancelIds
  <2>3. \A o \in OrderIds : orders[o].status = "NONE" => live'[o] = 0
    BY <1>3, <2>1 DEF AInv, OnlyPlaced
  <2>4. QED
    BY <2>2, <2>3 DEF AInv, OnlyPlaced, CancelIds
<1>7. RowsCount'
  BY DEF AInv, RowsCount
<1>8. WithinQty'
  <2>1. ASSUME NEW o \in OrderIds PROVE live'[o] + Published(o) <= Requests[o].qty
    BY <1>1, <1>3, <1>5 DEF AInv, WithinQty
  <2>2. QED
    BY <1>4, <2>1 DEF WithinQty
<1>9. \A i \in 1..n : cancels[i].orderId \in OrderIds /\ cancels[i].orderId # id
  BY <1>1, StreamTypes DEF AInv, CancelsAreFinal, CancelIds
<1>10. CancelsAreFinal'
  <2>1. ASSUME NEW i \in 1..n + 1
        PROVE  LET o == cancels'[i].orderId
               IN  live'[o] = 0 /\ cancels'[i].unfilledQty + Published(o) <= Requests[o].qty
    <3>1. CASE i = n + 1
      BY <1>2, <1>3, <3>1 DEF AInv, WithinQty
    <3>2. CASE i \in 1..n
      BY <1>2, <1>3, <1>9, <3>2 DEF AInv, CancelsAreFinal, CancelIds
    <3>3. QED
      BY <1>2, <2>1, <3>1, <3>2
  <2>2. \A i, j \in 1..n + 1 : cancels'[i].orderId = cancels'[j].orderId => i = j
    BY <1>2, <1>9 DEF AInv, CancelsAreFinal, CancelIds
  <2>3. QED
    BY <1>2, <1>4, <2>1, <2>2 DEF CancelsAreFinal, CancelIds
<1>11. CancelledOnce'
  <2>1. (1..cancelsRead) \ cancelsInHand \subseteq 1..n
    BY <1>2, StreamTypes
  <2>2. QED
    BY <1>2, <2>1 DEF AInv, CancelledOnce
<1>12. QED
  BY <1>6, <1>7, <1>8, <1>10, <1>11 DEF AInv

\* A fill that is settled: both rows count it.
LEMMA ApplyKeeps ==
  ASSUME IInv, AInv, NEW i \in 1..Len(fills), i \notin fillRows, Apply(i),
         UNCHANGED <<live, fills, cancels, cancelledQty, placing, cancelsRead, cancelsInHand>>
  PROVE  AInv'
<1> DEFINE f == fills[i]
           t == f.takerOrderId
           m == f.makerOrderId
<1>1. t \in OrderIds /\ m \in OrderIds /\ t # m /\ f.qty \in Nat \ {0}
  BY StreamTypes
<1>2. orders \in [OrderIds -> Row]
  BY DEF IInv, TypeOK, DatabaseTypes, Row
<1>3. /\ orders'[t] = FilledRow(t, f.qty) /\ orders'[m] = FilledRow(m, f.qty)
      /\ \A o \in OrderIds \ {t, m} : orders'[o] = orders[o]
  BY <1>1, <1>2 DEF Apply
<1>4. \A o \in OrderIds : /\ orders[o].filledQty \in Nat
                          /\ orders'[o].filledQty
                               = orders[o].filledQty + QtyFor(f, o)
                          /\ orders'[o].status = "NONE" <=> orders[o].status = "NONE"
  <2>1. orders[t].status # "NONE" /\ orders[m].status # "NONE"
    BY DEF AInv, OnlyPlaced
  <2>2. \A o \in OrderIds : orders[o].filledQty \in Nat
    BY <1>2 DEF Row
  <2>3. ASSUME NEW o \in {t, m}
        PROVE  /\ orders'[o].filledQty = orders[o].filledQty + f.qty
               /\ orders'[o].status # "NONE"
    BY <1>3, <2>3 DEF FilledRow, StatusAfter
  <2>4. QED
    BY <1>1, <1>3, <2>1, <2>2, <2>3 DEF QtyFor
<1>5. fillRows' = fillRows \cup {i}
  BY DEF Apply
<1>6. OnlyPlaced'
  BY <1>4, StreamTypes DEF AInv, OnlyPlaced, CancelIds, IInv, TypeOK, DatabaseTypes
<1>7. RowsCount'
  <2>1. ASSUME NEW o \in OrderIds
        PROVE  QtyOfFills(fills, o, fillRows \cup {i})
                 = QtyOfFills(fills, o, fillRows) + QtyFor(f, o)
    <3>1. fills \in Seq(FillMessage) /\ fillRows \in SUBSET (1..Len(fills))
      BY StreamTypes
    <3>2. QED
      BY <3>1, QtyGrows
  <2>2. QED
    BY <1>4, <1>5, <2>1 DEF AInv, RowsCount
<1>8. WithinQty' /\ CancelsAreFinal' /\ CancelledOnce'
  BY DEF AInv, WithinQty, CancelsAreFinal, CancelIds, CancelledOnce, Published
<1>9. QED
  BY <1>6, <1>7, <1>8 DEF AInv

\* The cancel in hand is the only one of its order, so nothing of the order is
\* cancelled in the database yet.
LEMMA NotYetCancelled ==
  ASSUME IInv, AInv, NEW i \in cancelsInHand
  PROVE  i \in CancelIds /\ cancels[i].orderId \in OrderIds /\ cancelledQty[cancels[i].orderId] = 0
<1>1. i \in 1..cancelsRead /\ i \in CancelIds
  <2>1. /\ cancelsRead \in 0..Len(cancels) /\ cancelsInHand \subseteq 1..cancelsRead
        /\ Len(cancels) \in Nat
    BY StreamTypes DEF IInv, TypeOK, CancelsLoopTypes
  <2>2. i \in 1..cancelsRead /\ cancelsRead \in Nat /\ cancelsRead <= Len(cancels)
    BY <2>1
  <2>3. QED
    BY <2>1, <2>2 DEF CancelIds
<1>2. cancels[i].orderId \in OrderIds
  BY <1>1, StreamTypes
<1>3. ASSUME cancelledQty[cancels[i].orderId] # 0 PROVE FALSE
  <2>1. PICK j \in (1..cancelsRead) \ cancelsInHand : cancels[j].orderId = cancels[i].orderId
    BY <1>2, <1>3 DEF AInv, CancelledOnce
  <2>2. j \in CancelIds
    BY StreamTypes DEF CancelIds
  <2>3. QED
    BY <1>1, <2>1, <2>2 DEF AInv, CancelsAreFinal
<1>4. QED
  BY <1>1, <1>2, <1>3

\* A cancel that is settled.
LEMMA SettleCancelKeeps ==
  ASSUME IInv, AInv, NEW i \in cancelsInHand, NEW outcome \in Outcomes, SettleCancel(i, outcome)
  PROVE  AInv'
<1> DEFINE c == cancels[i]
           o == c.orderId
<1>1. UNCHANGED <<live, fills, cancels, fillRows, placing, cancelsRead>>
      /\ cancelsInHand' = cancelsInHand \ {i}
  BY DEF SettleCancel, RestOfBatch, engine
<1>2. CASE outcome = "aborted"
  <2>1. Quiet
    BY <1>1, <1>2 DEF SettleCancel, Quiet
  <2>2. QED
    BY <2>1, QuietKeeps
<1>3. CASE outcome # "aborted"
  <2>1. i \in CancelIds /\ o \in OrderIds /\ cancelledQty[o] = 0 /\ c.unfilledQty \in Nat \ {0}
    BY NotYetCancelled, StreamTypes
  <2>2. /\ orders' = [orders EXCEPT ![o].status = "CANCELLED"]
        /\ cancelledQty' = [cancelledQty EXCEPT ![o] = @ + c.unfilledQty]
    BY <1>3 DEF SettleCancel
  <2>3. orders \in [OrderIds -> Row] /\ cancelledQty \in [OrderIds -> Nat]
    BY DEF IInv, TypeOK, DatabaseTypes, Row
  <2>4. /\ \A p \in OrderIds : orders'[p].filledQty = orders[p].filledQty
        /\ orders'[o].status = "CANCELLED"
        /\ \A p \in OrderIds \ {o} : orders'[p].status = orders[p].status
    BY <2>1, <2>2, <2>3 DEF Row
  <2>5. cancelledQty'[o] = c.unfilledQty
        /\ \A p \in OrderIds \ {o} : cancelledQty'[p] = cancelledQty[p]
    BY <2>1, <2>2, <2>3
  <2>6. orders[o].status # "NONE"
    BY <2>1 DEF AInv, OnlyPlaced
  <2>7. \A p \in OrderIds : orders'[p].status = "NONE" <=> orders[p].status = "NONE"
    BY <2>4, <2>6
  <2>8. OnlyPlaced'
    BY <1>1, <2>7, StreamTypes DEF AInv, OnlyPlaced, CancelIds, IInv, TypeOK, DatabaseTypes
  <2>9. RowsCount'
    BY <1>1, <2>4 DEF AInv, RowsCount
  <2>10. WithinQty' /\ CancelsAreFinal'
    BY <1>1 DEF AInv, WithinQty, CancelsAreFinal, CancelIds, Published
  <2>11. i \in (1..cancelsRead) \ cancelsInHand'
    BY <1>1 DEF IInv, TypeOK, CancelsLoopTypes
  <2>12. CancelledOnce'
    <3>1. ASSUME NEW p \in OrderIds, cancelledQty'[p] # 0
          PROVE  \E j \in (1..cancelsRead) \ cancelsInHand' :
                   cancels[j].orderId = p /\ cancelledQty'[p] = cancels[j].unfilledQty
      <4>1. CASE p = o
        BY <2>5, <2>11, <4>1
      <4>2. CASE p # o
        BY <1>1, <2>5, <3>1, <4>2 DEF AInv, CancelledOnce
      <4>3. QED
        BY <4>1, <4>2
    <3>2. QED
      BY <1>1, <3>1 DEF CancelledOnce
  <2>13. QED
    BY <2>8, <2>9, <2>10, <2>12 DEF AInv
<1>4. QED
  BY <1>2, <1>3

\* Reading cancels puts in hand only what was not read before.
LEMMA ReadCancelsKeeps ==
  ASSUME IInv, AInv, NEW outcome \in Outcomes, ReadCancels(outcome) PROVE AInv'
<1> DEFINE upto == Upto(cancelsRead, cancels, CancelsBatch)
<1>1. /\ cancelsInHand = {} /\ cancelsRead < Len(cancels)
      /\ cancelsRead' \in {cancelsRead, upto}
      /\ cancelsInHand' \in {{}, cancelsRead + 1 .. upto}
      /\ UNCHANGED <<database, placing, engine, cancelledQty>>
  BY DEF ReadCancels
<1>2. cancelsRead \in Nat /\ upto \in Nat /\ cancelsRead <= upto
  BY <1>1, StreamTypes, BoundsAssumption DEF Upto
<1>3. (1..cancelsRead) \ cancelsInHand \subseteq (1..cancelsRead') \ cancelsInHand'
  <2> HIDE DEF upto
  <2>1. QED
    BY <1>1, <1>2
<1>4. Quiet
  BY <1>1, <1>3 DEF Quiet, database, engine
<1>5. QED
  BY <1>4, QuietKeeps

\* No step breaks it.
LEMMA AInvKept == IInv /\ AInv /\ [Next]_vars => AInv'
<1> SUFFICES ASSUME IInv, AInv, [Next]_vars PROVE AInv'
  OBVIOUS
<1> USE DEF database, engine, fillsLoop, cancelsLoop, history
<1>1. CASE Place
  <2>1. ASSUME NEW id \in OrderIds, PlaceRead(id) PROVE AInv'
    BY <2>1, PlaceReadKeeps
  <2>2. ASSUME PlaceFail PROVE AInv'
    BY <2>2, QuietKeeps DEF PlaceFail, Quiet
  <2>3. QED
    BY <1>1, <2>1, <2>2, PlaceCommitKeeps DEF Place
<1>2. CASE Engine
  <2>1. ASSUME NEW t \in OrderIds, NEW m \in OrderIds, Trade(t, m) PROVE AInv'
    BY <2>1, TradeKeeps
  <2>2. ASSUME NEW id \in OrderIds, EngineCancel(id) PROVE AInv'
    BY <2>2, CancelledKeeps DEF EngineCancel
  <2>3. ASSUME NEW id \in OrderIds, EndOfMatch(id) PROVE AInv'
    <3>1. CASE Requests[id].orderType = "LIMIT"
      BY <2>3, <3>1, QuietKeeps DEF EndOfMatch, Quiet
    <3>2. CASE Requests[id].orderType # "LIMIT"
      BY <2>3, <3>2, CancelledKeeps DEF EndOfMatch
    <3>3. QED
      BY <3>1, <3>2
  <2>4. QED
    BY <1>2, <2>1, <2>2, <2>3 DEF Engine
<1>3. CASE ConsumeFills
  <2>1. ASSUME NEW outcome \in Outcomes, ReadFills(outcome) PROVE AInv'
    BY <2>1, QuietKeeps DEF ReadFills, Quiet
  <2>2. ASSUME NEW outcome \in Outcomes, ClaimIdle(outcome) PROVE AInv'
    BY <2>2, QuietKeeps DEF ClaimIdle, Quiet
  <2>3. ASSUME NEW i \in work, AlreadySettled(i) PROVE AInv'
    BY <2>3, QuietKeeps DEF AlreadySettled, Quiet
  <2>4. ASSUME NEW i \in work, NEW outcome \in Outcomes, AckFill(i, outcome) PROVE AInv'
    BY <2>4, QuietKeeps DEF AckFill, Quiet
  <2>5. ASSUME NEW i \in work, NEW outcome \in Outcomes, SettleFill(i, outcome) PROVE AInv'
    <3>1. CASE outcome = "aborted"
      BY <2>5, <3>1, QuietKeeps DEF SettleFill, Quiet
    <3>2. CASE outcome # "aborted"
      <4>1. /\ Apply(i) /\ i \notin fillRows
            /\ UNCHANGED <<live, fills, cancels, cancelledQty, placing, cancelsRead,
                           cancelsInHand>>
        BY <2>5, <3>2 DEF SettleFill, HasRow
      <4>2. i \in 1..Len(fills)
        BY StreamTypes DEF IInv, TypeOK, FillsLoopTypes
      <4>3. QED
        BY <4>1, <4>2, ApplyKeeps
    <3>3. QED
      BY <3>1, <3>2
  <2>6. QED
    BY <1>3, <2>1, <2>2, <2>3, <2>4, <2>5 DEF ConsumeFills
<1>4. CASE ConsumeCancels
  BY <1>4, ReadCancelsKeeps, SettleCancelKeeps DEF ConsumeCancels
<1>5. CASE Restart
  BY <1>5, QuietKeeps DEF Restart, Quiet
<1>6. CASE UNCHANGED vars
  BY <1>6, QuietKeeps DEF vars, Quiet
<1>7. QED
  BY <1>1, <1>2, <1>3, <1>4, <1>5, <1>6 DEF Next

\* Before anything is placed, traded or cancelled all of it is zero.
LEMMA InitAInv == Init => AInv
<1> SUFFICES ASSUME Init PROVE AInv
  OBVIOUS
<1>1. Len(fills) = 0 /\ Len(cancels) = 0 /\ fillRows = {} /\ placing = NotPlacing
  BY DEF Init
<1>2. \A o \in OrderIds : /\ live[o] = 0 /\ orders[o].filledQty = 0 /\ cancelledQty[o] = 0
                          /\ Requests[o].qty \in Nat
  BY RequestTypes DEF Init
<1>3. \A o : Published(o) = 0 /\ QtyOfFills(fills, o, fillRows) = 0
  BY <1>1, QtyOfNone DEF Published
<1>4. QED
  BY <1>1, <1>2, <1>3
     DEF AInv, OnlyPlaced, RowsCount, WithinQty, CancelsAreFinal, CancelledOnce, CancelIds

\* An order's row counts every settled fill once, and with what was cancelled
\* no more than the order's quantity: redelivery, aborted and unanswered
\* transactions and restarts change nothing of it.
THEOREM FillsCountOnce == Spec => []FilledExactlyOnce
<1>1. IInv /\ AInv => FilledExactlyOnce
  <2> SUFFICES ASSUME IInv, AInv, NEW o \in OrderIds
               PROVE  /\ orders[o].filledQty = SettledQty(o)
                      /\ orders[o].filledQty + cancelledQty[o] <= Requests[o].qty
    BY DEF FilledExactlyOnce
  <2>1. orders[o].filledQty = QtyOfFills(fills, o, fillRows)
    BY DEF AInv, RowsCount
  <2>2. SettledQty(o) = QtyOfFills(fills, o, fillRows)
    BY DEF SettledQty, OrderFills, QtyOfFills, FillsOf
  <2>3. /\ Published(o) \in Nat /\ QtyOfFills(fills, o, fillRows) \in Nat
        /\ QtyOfFills(fills, o, fillRows) <= Published(o)
    BY SettledWithinPublished
  <2>4. /\ live[o] \in Nat /\ Requests[o].qty \in Nat
        /\ live[o] + Published(o) <= Requests[o].qty
    BY RequestTypes, BoundsAssumption DEF AInv, WithinQty, IInv, TypeOK, EngineTypes
  <2>5. orders[o].filledQty + cancelledQty[o] <= Requests[o].qty
    <3>1. CASE cancelledQty[o] = 0
      BY <2>1, <2>3, <2>4, <3>1
    <3>2. CASE cancelledQty[o] # 0
      <4>1. PICK i \in (1..cancelsRead) \ cancelsInHand :
              cancels[i].orderId = o /\ cancelledQty[o] = cancels[i].unfilledQty
        BY <3>2 DEF AInv, CancelledOnce
      <4>2. i \in CancelIds
        BY StreamTypes DEF CancelIds
      <4>3. cancelledQty[o] + Published(o) <= Requests[o].qty /\ cancelledQty[o] \in Nat
        BY <4>1, <4>2, StreamTypes DEF AInv, CancelsAreFinal
      <4>4. QED
        BY <2>1, <2>3, <2>4, <4>3
    <3>3. QED
      BY <3>1, <3>2
  <2>6. QED
    BY <2>1, <2>2, <2>5
<1>2. QED
  BY <1>1, InitIInv, InitAInv, Inductive, AInvKept, PTL DEF Spec

-----------------------------------------------------------------------------
(* Money.  An average entry price is a quotient; what it loses when it does *)
(* not come out even is gone from the books, so what follows is about       *)
(* executions in which it does.                                             *)

AverageIsEven(pos, direction, qty, price) ==
  pos.qty > 0 /\ pos.side = direction
    => (pos.qty * pos.entryPrice + qty * price) % (pos.qty + qty) = 0

\* An account's money, less what its position has cost.
Worth(account) == account.available + account.locked - EntryValue(account.position)

\* A quotient that comes out even is exact.
LEMMA EvenQuotient ==
  ASSUME NEW a \in Int, NEW b \in Nat \ {0}, a % b = 0
  PROVE  a \div b \in Int /\ b * (a \div b) = a
  OBVIOUS

\* A signed amount follows the sums of what it is the sign of.
LEMMA SignedAdds ==
  ASSUME NEW direction, NEW a \in Int, NEW b \in Int
  PROVE  /\ Signed(direction, a) \in Int
         /\ Signed(direction, a + b) = Signed(direction, a) + Signed(direction, b)
         /\ Signed(direction, a - b) = Signed(direction, a) - Signed(direction, b)
  BY DEF Signed

\* What a position has cost is the value at entry, by its side.
LEMMA EntryValueIsSigned ==
  ASSUME NEW pos \in Position
  PROVE  /\ EntryValue(pos) \in Int
         /\ pos.qty = 0 => EntryValue(pos) = 0
         /\ pos.qty # 0 => EntryValue(pos) = Signed(pos.side, pos.entryPrice * pos.qty)
<1>1. CASE pos = NoPosition
  BY <1>1 DEF EntryValue, Net, NoPosition
<1>2. CASE pos \in [side : Directions, qty : Nat \ {0}, entryPrice : Int, margin : Int]
  BY <1>2 DEF EntryValue, Net, Signed
<1>3. QED
  BY <1>1, <1>2 DEF Position

\* What is realized on a part of a position that a fill closes is what the
\* part fetches less what it has cost.
LEMMA PnlOfPart ==
  ASSUME NEW account \in Account, account.position.qty # 0,
         NEW fill \in FillOfOrder, account.position.side # fill.direction, NEW n \in Nat
  PROVE  Pnl(account.position, fill, n)
           = -Signed(account.position.side, account.position.entryPrice * n)
             - Signed(fill.direction, fill.price * n)
<1> DEFINE pos == account.position
           e   == pos.entryPrice
           p   == fill.price
<1>1. e \in Int /\ pos.side \in Directions
  BY PositionHasSide DEF Account
<1>2. p \in Int /\ fill.direction \in Directions
  BY DEF FillOfOrder
<1>3. (p - e) * n = p * n - e * n /\ (e - p) * n = e * n - p * n /\ p * n \in Int /\ e * n \in Int
  BY <1>1, <1>2
<1>4. CASE pos.side = "LONG"
  <2>1. fill.direction = "SHORT"
    BY <1>2, <1>4 DEF Directions
  <2>2. QED
    BY <1>3, <1>4, <2>1 DEF Pnl, Signed
<1>5. CASE pos.side = "SHORT"
  <2>1. fill.direction = "LONG"
    BY <1>2, <1>5 DEF Directions
  <2>2. QED
    BY <1>3, <1>5, <2>1 DEF Pnl, Signed
<1>6. QED
  BY <1>1, <1>4, <1>5 DEF Directions

\* Every fill costs its volume: what it adds to the position at entry and
\* what it realizes make up for what it takes from the balance.
LEMMA UpdatePays ==
  ASSUME NEW account \in Account, NEW fill \in FillOfOrder,
         AverageIsEven(account.position, fill.direction, fill.qty, fill.price)
  PROVE  Worth(ApplyPositionUpdate(account, fill))
           = Worth(account) - Signed(fill.direction, fill.price * fill.qty)
<1> DEFINE pos == account.position
           q   == fill.qty
           p   == fill.price
           e   == pos.entryPrice
           dir == fill.direction
           r   == ApplyPositionUpdate(account, fill)
           paid == Signed(dir, p * q)
<1>1. /\ pos \in Position /\ account.available \in Int /\ account.locked \in Int
      /\ pos.qty \in Nat /\ e \in Int /\ pos.margin \in Int
  BY DEF Account, Position, NoPosition
<1>2. q \in Nat \ {0} /\ p \in Int /\ dir \in Directions /\ fill.reservation \in Int
  BY DEF FillOfOrder
<1>3. /\ r.position \in Position /\ r.available \in Int /\ r.locked \in Int
      /\ EntryValue(r.position) \in Int
  BY PositionUpdateAdds, EntryValueIsSigned DEF Moved, Account
<1>4. p * q \in Int /\ e * pos.qty \in Int /\ e * q \in Int /\ p * pos.qty \in Int
  BY <1>1, <1>2
<1>5. \A n \in Int : MarginFor(fill, n) \in Int /\ ReservationShare(fill) \in Int
  BY AmountsAreInt
<1>6. paid \in Int /\ EntryValue(pos) \in Int
  BY <1>1, <1>4, SignedAdds, EntryValueIsSigned
<1>7. SUFFICES r.available + r.locked - EntryValue(r.position)
                 = account.available + account.locked - EntryValue(pos) - paid
  BY <1>1, <1>3, <1>6 DEF Worth
<1>8. CASE pos.qty = 0
  <2>1. r = Open(account, fill)
    BY <1>8 DEF ApplyPositionUpdate
  <2>2. r.available + r.locked = account.available + account.locked
    BY <1>1, <1>2, <1>5, <2>1 DEF Open
  <2>3. r.position.side = dir /\ r.position.qty = q /\ r.position.entryPrice = p
    BY <2>1 DEF Open
  <2>4. EntryValue(r.position) = paid /\ EntryValue(pos) = 0
    BY <1>1, <1>2, <1>3, <1>8, <2>3, EntryValueIsSigned
  <2> HIDE DEF r, paid
  <2>5. QED
    BY <1>1, <1>3, <1>6, <2>2, <2>4
<1>9. CASE pos.qty # 0 /\ pos.side = dir
  <2> DEFINE value == pos.qty * e + q * p
             n     == pos.qty + q
  <2>1. r = Increase(account, fill)
    BY <1>9 DEF ApplyPositionUpdate
  <2>2. r.available + r.locked = account.available + account.locked
    BY <1>1, <1>2, <1>5, <2>1 DEF Increase
  <2>3. r.position.side = dir /\ r.position.qty = n /\ r.position.entryPrice = value \div n
    BY <1>9, <2>1 DEF Increase
  <2>4. n \in Nat \ {0} /\ value \in Int /\ value % n = 0
    BY <1>1, <1>2, <1>9 DEF AverageIsEven
  <2>5. (value \div n) * n = value
    <3> HIDE DEF n, value
    <3>1. n * (value \div n) = value /\ value \div n \in Int
      BY <2>4, EvenQuotient
    <3>2. QED
      BY <2>4, <3>1
  <2>6. value = e * pos.qty + p * q
    BY <1>1, <1>2
  <2>7. EntryValue(r.position) = Signed(dir, e * pos.qty + p * q)
    BY <1>3, <2>3, <2>4, <2>5, <2>6, EntryValueIsSigned
  <2>8. EntryValue(r.position) = EntryValue(pos) + paid
    <3>1. EntryValue(pos) = Signed(dir, e * pos.qty)
      BY <1>1, <1>9, EntryValueIsSigned
    <3> DEFINE held  == e * pos.qty
               added == p * q
               after == EntryValue(r.position)
               was   == EntryValue(pos)
    <3>2. /\ held \in Int /\ added \in Int
          /\ after = Signed(dir, held + added) /\ was = Signed(dir, held) /\ paid = Signed(dir, added)
      BY <1>4, <2>7, <3>1
    <3> HIDE DEF held, added, after, was, paid, dir
    <3>3. after = was + paid
      BY <3>2, SignedAdds
    <3>4. QED
      BY <3>3 DEF after, was
  <2> HIDE DEF r, paid
  <2>9. QED
    BY <1>1, <1>3, <1>6, <2>2, <2>8
<1>10. CASE pos.qty # 0 /\ pos.side # dir /\ q = pos.qty
  <2>1. r = Close(account, fill)
    BY <1>10 DEF ApplyPositionUpdate
  <2>2. /\ r.available = account.available + pos.margin + Pnl(pos, fill, q)
        /\ r.locked = account.locked - pos.margin /\ r.position = NoPosition
    BY <2>1 DEF Close
  <2>3. EntryValue(r.position) = 0
    BY <2>2 DEF EntryValue, Net, NoPosition
  <2>4. Pnl(pos, fill, q) = -EntryValue(pos) - paid
    BY <1>1, <1>2, <1>10, PnlOfPart, EntryValueIsSigned
  <2> HIDE DEF r, paid
  <2>5. QED
    BY <1>1, <1>3, <1>6, <2>2, <2>3, <2>4
<1>11. CASE pos.qty # 0 /\ pos.side # dir /\ q < pos.qty
  <2> DEFINE released == (pos.margin * q) \div pos.qty
             kept     == pos.qty - q
             cost     == Signed(pos.side, e * q)
  <2>1. r = Reduce(account, fill)
    BY <1>1, <1>2, <1>11 DEF ApplyPositionUpdate
  <2>2. released \in Int /\ kept \in Nat \ {0}
    BY <1>1, <1>2, <1>11
  <2>3. /\ r.available = account.available + released + Pnl(pos, fill, q)
        /\ r.locked = account.locked - released
        /\ r.position.side = pos.side /\ r.position.qty = kept /\ r.position.entryPrice = e
    BY <2>1 DEF Reduce
  <2>4. e * kept = e * pos.qty - e * q
    BY <1>1, <1>2
  <2>5. EntryValue(r.position) = EntryValue(pos) - cost /\ cost \in Int
    <3>1. EntryValue(pos) = Signed(pos.side, e * pos.qty)
      BY <1>1, <1>11, EntryValueIsSigned
    <3>2. EntryValue(r.position) = Signed(pos.side, e * pos.qty - e * q)
      BY <1>3, <2>2, <2>3, <2>4, EntryValueIsSigned
    <3>3. cost \in Int /\ Signed(pos.side, e * pos.qty - e * q) = Signed(pos.side, e * pos.qty) - cost
      BY <1>4, SignedAdds
    <3>4. QED
      BY <3>1, <3>2, <3>3
  <2>6. Pnl(pos, fill, q) = -cost - paid
    BY <1>2, <1>11, PnlOfPart
  <2> HIDE DEF r, paid, cost, released
  <2>7. QED
    BY <1>1, <1>3, <1>6, <2>2, <2>3, <2>5, <2>6
<1>12. CASE pos.qty # 0 /\ pos.side # dir /\ q > pos.qty
  <2> DEFINE opened == q - pos.qty
             extra  == MarginFor(fill, opened) - fill.reservation
             closed == Signed(dir, p * pos.qty)
  <2>1. r = Flip(account, fill)
    BY <1>1, <1>2, <1>12 DEF ApplyPositionUpdate
  <2>2. opened \in Nat \ {0} /\ extra \in Int
    BY <1>1, <1>2, <1>5, <1>12
  <2>3. /\ r.available = account.available + pos.margin + Pnl(pos, fill, pos.qty) - extra
        /\ r.locked = account.locked - pos.margin + extra
        /\ r.position.side = dir /\ r.position.qty = opened /\ r.position.entryPrice = p
    BY <2>1 DEF Flip
  <2>4. p * opened = p * q - p * pos.qty
    BY <1>1, <1>2
  <2>5. EntryValue(r.position) = paid - closed /\ closed \in Int
    <3>1. EntryValue(r.position) = Signed(dir, p * q - p * pos.qty)
      BY <1>3, <2>2, <2>3, <2>4, EntryValueIsSigned
    <3>2. QED
      BY <1>4, <3>1, SignedAdds
  <2>6. Pnl(pos, fill, pos.qty) = -EntryValue(pos) - closed
    BY <1>1, <1>12, PnlOfPart, EntryValueIsSigned
  <2> HIDE DEF r, paid, closed, extra
  <2>7. QED
    BY <1>1, <1>3, <1>6, <2>2, <2>3, <2>5, <2>6
<1>13. QED
  BY <1>1, <1>2, <1>8, <1>9, <1>10, <1>11, <1>12

\* What a fill moves for one of its orders.
VolumeFor(f, o) == IF o \in {f.takerOrderId, f.makerOrderId} THEN f.price * f.qty ELSE 0

\* The volume of an order grows with each settled fill of it.
LEMMA VolumeGrows ==
  ASSUME IInv, NEW i \in 1..Len(fills), i \notin fillRows,
         fillRows' = fillRows \cup {i}, fills' = fills, NEW o
  PROVE  Volume(o) \in Int /\ Volume(o)' = Volume(o) + VolumeFor(fills[i], o)
<1> DEFINE P == FillsOf(fills, o, fillRows \cup {i})
           Q == FillsOf(fills, o, fillRows)
           f == [j \in Q |-> fills[j].price * fills[j].qty]
           g == [j \in P |-> fills[j].price * fills[j].qty]
<1>1. IsFiniteSet(Q)
  <2>1. fillRows \in SUBSET (1..Len(fills)) /\ fills \in Seq(FillMessage) /\ Q \subseteq fillRows
    BY StreamTypes DEF FillsOf
  <2>2. IsFiniteSet(fillRows)
    BY <2>1, QtyIsNat
  <2>3. QED
    BY <2>1, <2>2, FS_Subset
<1>2. \A j \in fillRows \cup {i} : fills[j].price * fills[j].qty \in Int
  BY StreamTypes
<1>3. Q \subseteq fillRows /\ P \subseteq fillRows \cup {i}
  BY DEF FillsOf
<1>4. f \in [Q -> Int] /\ g \in [P -> Int] /\ \A j \in Q : g[j] = f[j]
  BY <1>2, <1>3 DEF FillsOf
<1>5. i \notin Q /\ (P = Q \/ P = Q \cup {i})
  BY DEF FillsOf
<1>6. SumFunction(g) = SumFunction(f) + (IF i \in P THEN g[i] ELSE 0) /\ SumFunction(f) \in Int
  <2> HIDE DEF f, g, P, Q
  <2>1. QED
    BY <1>1, <1>4, <1>5, PartGrows, TotalInt
<1>7. (IF i \in P THEN g[i] ELSE 0) = VolumeFor(fills[i], o)
  BY DEF VolumeFor, FillsOf
<1>8. Volume(o) = SumFunction(f) /\ Volume(o)' = SumFunction(g)
  BY DEF Volume, OrderFills, FillsOf
<1>9. QED
  BY <1>6, <1>7, <1>8

\* What a user has paid is an amount, and so is what the positions have cost.
LEMMA MoneyTypes ==
  ASSUME IInv, NEW u \in Users
  PROVE  /\ IsFiniteSet(OrdersOf(u))
         /\ [o \in OrdersOf(u) |-> -Signed(Dir(o), Volume(o))] \in [OrdersOf(u) -> Int]
         /\ Cash(u) \in Int
         /\ [m \in Markets |-> EntryValue(position[<<u, m>>])] \in [Markets -> Int]
         /\ AtEntry(u) \in Int
         /\ available[u] \in Int /\ locked[u] \in Int /\ Deposit \in Int
<1> DEFINE paid == [o \in OrdersOf(u) |-> -Signed(Dir(o), Volume(o))]
           cost == [m \in Markets |-> EntryValue(position[<<u, m>>])]
<1>1. IsFiniteSet(OrdersOf(u))
  BY FiniteAssumption, FS_Subset DEF OrdersOf
<1>2. \A o \in OrderIds : Volume(o) \in Int
  <2> TAKE o \in OrderIds
  <2> DEFINE Q == FillsOf(fills, o, fillRows)
             f == [j \in Q |-> fills[j].price * fills[j].qty]
  <2>1. fillRows \in SUBSET (1..Len(fills)) /\ fills \in Seq(FillMessage) /\ Q \subseteq fillRows
    BY StreamTypes DEF FillsOf
  <2>2. IsFiniteSet(Q)
    BY <2>1, QtyIsNat, FS_Subset
  <2>3. f \in [Q -> Int]
    <3>1. \A j \in fillRows : fills[j].price * fills[j].qty \in Int
      BY StreamTypes
    <3>2. Q \subseteq fillRows
      BY <2>1
    <3>3. QED
      BY <3>1, <3>2
  <2>4. SumFunction(f) \in Int
    BY <2>2, <2>3, TotalInt
  <2>5. QED
    BY <2>4 DEF Volume, OrderFills, FillsOf
<1>3. paid \in [OrdersOf(u) -> Int]
  <2>1. \A o \in OrdersOf(u) : -Signed(Dir(o), Volume(o)) \in Int
    BY <1>2 DEF OrdersOf, Signed
  <2>2. QED
    BY <2>1
<1>4. cost \in [Markets -> Int]
  <2>1. \A m \in Markets : position[<<u, m>>] \in Position
    BY DEF IInv, TypeOK, DatabaseTypes, Accounts
  <2>2. \A m \in Markets : EntryValue(position[<<u, m>>]) \in Int
    BY <2>1, EntryValueIsSigned
  <2>3. QED
    BY <2>2
<1>5. SumFunction(paid) \in Int /\ SumFunction(cost) \in Int
  <2> HIDE DEF paid, cost
  <2>1. QED
    BY <1>1, <1>3, <1>4, FiniteAssumption, TotalInt
<1>6. QED
  BY <1>1, <1>3, <1>4, <1>5, BoundsAssumption DEF Cash, AtEntry, IInv, TypeOK, DatabaseTypes

\* The position of one account follows in what all its user's have cost.
LEMMA AtEntryFollows ==
  ASSUME position \in [Accounts -> Position], position' \in [Accounts -> Position],
         NEW u \in Users, NEW m \in Markets,
         \A n \in Markets \ {m} : position'[<<u, n>>] = position[<<u, n>>]
  PROVE  AtEntry(u)' = AtEntry(u) + (EntryValue(position'[<<u, m>>]) - EntryValue(position[<<u, m>>]))
<1> DEFINE f == [n \in Markets |-> EntryValue(position[<<u, n>>])]
           g == [n \in Markets |-> EntryValue(position'[<<u, n>>])]
<1>1. \A n \in Markets : position[<<u, n>>] \in Position /\ position'[<<u, n>>] \in Position
  BY DEF Accounts
<1>2. f \in [Markets -> Int] /\ g \in [Markets -> Int]
  <2>1. \A n \in Markets : EntryValue(position[<<u, n>>]) \in Int
                           /\ EntryValue(position'[<<u, n>>]) \in Int
    BY <1>1, EntryValueIsSigned
  <2>2. QED
    BY <2>1
<1>3. \A n \in Markets \ {m} : g[n] = f[n]
  OBVIOUS
<1>4. SumFunction(g) = SumFunction(f) + (g[m] - f[m])
  <2> HIDE DEF f, g
  <2>1. QED
    BY <1>2, <1>3, FiniteAssumption, TotalChange
<1>5. QED
  BY <1>4 DEF AtEntry

\* A user pays for the one order of the fill that is his.
LEMMA CashFollows ==
  ASSUME IInv, IInv', NEW i \in 1..Len(fills), i \notin fillRows,
         fillRows' = fillRows \cup {i}, fills' = fills, NEW u \in Users
  PROVE  LET f == fills[i] IN
         /\ \A o \in {f.takerOrderId, f.makerOrderId} :
              Requests[o].userId = u => Cash(u)' = Cash(u) - Signed(Dir(o), f.price * f.qty)
         /\ (\A o \in {f.takerOrderId, f.makerOrderId} : Requests[o].userId # u)
              => Cash(u)' = Cash(u)
<1> DEFINE fill == fills[i]
           S    == OrdersOf(u)
           f    == [o \in S |-> -Signed(Dir(o), Volume(o))]
           g    == [o \in S |-> -Signed(Dir(o), Volume(o)')]
           both == {fill.takerOrderId, fill.makerOrderId}
<1>1. IsFiniteSet(S) /\ f \in [S -> Int]
  BY MoneyTypes
<1>2. \A o : Volume(o) \in Int /\ Volume(o)' = Volume(o) + VolumeFor(fill, o)
  BY VolumeGrows
<1>3. both \subseteq OrderIds /\ fill.price * fill.qty \in Int
  BY StreamTypes
<1>4. \A o \in both, p \in both : o # p => Requests[o].userId # Requests[p].userId
  BY DEF IInv, FillsMatchOrders
<1>5. \A o : VolumeFor(fill, o) \in Int /\ (o \in both => VolumeFor(fill, o) = fill.price * fill.qty)
             /\ (o \notin both => VolumeFor(fill, o) = 0)
  BY <1>3 DEF VolumeFor
<1>6. g \in [S -> Int]
  <2>1. \A o \in S : -Signed(Dir(o), Volume(o)') \in Int
    BY <1>2, <1>5 DEF Signed
  <2>2. QED
    BY <2>1
<1>7. Cash(u) = SumFunction(f) /\ Cash(u)' = SumFunction(g)
  BY DEF Cash, OrdersOf
<1>8. \A o \in S \ both : g[o] = f[o]
  BY <1>2, <1>5
<1>9. ASSUME NEW o \in both, Requests[o].userId = u
      PROVE  Cash(u)' = Cash(u) - Signed(Dir(o), fill.price * fill.qty)
  <2>1. o \in S /\ \A p \in S \ {o} : p \notin both
    BY <1>3, <1>4, <1>9 DEF OrdersOf
  <2>2. \A p \in S \ {o} : g[p] = f[p]
    BY <1>8, <2>1
  <2>3. g[o] = f[o] - Signed(Dir(o), fill.price * fill.qty)
        /\ f[o] \in Int /\ Signed(Dir(o), fill.price * fill.qty) \in Int
    <3> DEFINE d == fill.price * fill.qty
    <3>1. d \in Int /\ Volume(o) \in Int /\ Volume(o)' = Volume(o) + d
      BY <1>2, <1>3, <1>5
    <3> HIDE DEF d
    <3>2. /\ Signed(Dir(o), Volume(o) + d) = Signed(Dir(o), Volume(o)) + Signed(Dir(o), d)
          /\ Signed(Dir(o), Volume(o)) \in Int /\ Signed(Dir(o), d) \in Int
      BY <3>1, SignedAdds
    <3>3. f[o] = -Signed(Dir(o), Volume(o)) /\ g[o] = -Signed(Dir(o), Volume(o) + d)
      BY <2>1, <3>1
    <3>4. g[o] = f[o] - Signed(Dir(o), d) /\ f[o] \in Int
      BY <3>2, <3>3
    <3>5. QED
      BY <3>2, <3>4 DEF d
  <2>4. SumFunction(g) = SumFunction(f) + (g[o] - f[o]) /\ SumFunction(f) \in Int
    <3> HIDE DEF f, g, S
    <3>1. QED
      BY <1>1, <1>6, <2>1, <2>2, TotalChange, TotalInt
  <2>5. QED
    BY <1>7, <2>3, <2>4
<1>10. ASSUME \A o \in both : Requests[o].userId # u PROVE Cash(u)' = Cash(u)
  <2>1. S \cap both = {}
    BY <1>10 DEF OrdersOf
  <2>2. \A o \in S : g[o] = f[o]
    BY <1>8, <2>1
  <2>3. g = f
    BY <2>2
  <2>4. QED
    BY <1>7, <2>3
<1>11. QED
  BY <1>9, <1>10

\* What a settled fill leaves: the accounts of its two orders as
\* applyPositionUpdate computes them, everything else as it was.
LEMMA ApplyAccounts ==
  ASSUME IInv, NEW i \in 1..Len(fills), Apply(i)
  PROVE  LET f == fills[i]
             both == {f.takerOrderId, f.makerOrderId}
         IN  /\ \A o \in both :
                  /\ available'[Requests[o].userId] = AccountAfter(o, f).available
                  /\ locked'[Requests[o].userId] = AccountAfter(o, f).locked
                  /\ position'[AccountOf(o)] = AccountAfter(o, f).position
             /\ \A u \in Users : (\A o \in both : Requests[o].userId # u) =>
                  available'[u] = available[u] /\ locked'[u] = locked[u]
             /\ \A a \in Accounts : (\A o \in both : AccountOf(o) # a) => position'[a] = position[a]
<1> DEFINE f == fills[i]
           t == f.takerOrderId
           m == f.makerOrderId
           ut == Requests[t].userId
           um == Requests[m].userId
<1>1. t \in OrderIds /\ m \in OrderIds
  BY StreamTypes
<1>2. /\ ut # um /\ AccountOf(t) # AccountOf(m)
      /\ ut \in Users /\ um \in Users /\ AccountOf(t) \in Accounts /\ AccountOf(m) \in Accounts
  BY <1>1, RequestTypes DEF IInv, FillsMatchOrders, AccountOf
<1>3. /\ available \in [Users -> Int] /\ locked \in [Users -> Int]
      /\ position \in [Accounts -> Position]
  BY DEF IInv, TypeOK, DatabaseTypes
<1>4. /\ available' = [available EXCEPT ![ut] = AccountAfter(t, f).available,
                                        ![um] = AccountAfter(m, f).available]
      /\ locked' = [locked EXCEPT ![ut] = AccountAfter(t, f).locked,
                                  ![um] = AccountAfter(m, f).locked]
      /\ position' = [position EXCEPT ![AccountOf(t)] = AccountAfter(t, f).position,
                                      ![AccountOf(m)] = AccountAfter(m, f).position]
  BY DEF Apply
<1>5. QED
  BY <1>2, <1>3, <1>4

\* The two averages a fill asks for, where it adds to positions, come out even.
EvenFill(f) == \A o \in {f.takerOrderId, f.makerOrderId} :
                 AverageIsEven(position[AccountOf(o)], Dir(o), f.qty, f.price)

\* What MoneyConserved compares.
Drift(u) == available[u] + locked[u] - Deposit - Cash(u) - AtEntry(u)

\* An order's side of a fill costs its user its volume.
LEMMA AccountAfterPays ==
  ASSUME IInv, NEW o \in OrderIds, NEW f \in FillMessage,
         AverageIsEven(position[AccountOf(o)], Dir(o), f.qty, f.price)
  PROVE  LET u == Requests[o].userId
             r == AccountAfter(o, f)
         IN  /\ r \in Account
             /\ r.available + r.locked - EntryValue(r.position)
                  = available[u] + locked[u] - EntryValue(position[AccountOf(o)])
                    - Signed(Dir(o), f.price * f.qty)
<1> DEFINE a == AccountOf(o)
           account == [position |-> position[a], available |-> available[a[1]],
                       locked |-> locked[a[1]]]
           side == [direction |-> Dir(o), qty |-> f.qty, price |-> f.price,
                    leverage |-> Requests[o].leverage,
                    reservation |-> orders[o].initialMargin, orderQty |-> Requests[o].qty]
<1>1. a[1] = Requests[o].userId /\ a[1] \in Users /\ a \in Accounts
  BY RequestTypes DEF AccountOf
<1>2. account \in Account
  BY <1>1 DEF IInv, TypeOK, DatabaseTypes, Account
<1>3. side \in FillOfOrder
  BY RequestTypes, BoundsAssumption DEF IInv, TypeOK, DatabaseTypes, FillMessage, FillOfOrder
<1>4. AccountAfter(o, f) = ApplyPositionUpdate(account, side)
  BY DEF AccountAfter
<1>5. AverageIsEven(account.position, side.direction, side.qty, side.price)
  OBVIOUS
<1>6. Worth(ApplyPositionUpdate(account, side))
        = Worth(account) - Signed(side.direction, side.price * side.qty)
  <2> HIDE DEF account, side
  <2>1. QED
    BY <1>2, <1>3, <1>5, UpdatePays
<1> DEFINE r == AccountAfter(o, f)
<1>7. /\ r \in Account /\ r.available \in Int /\ r.locked \in Int /\ EntryValue(r.position) \in Int
      /\ available[a[1]] \in Int /\ locked[a[1]] \in Int /\ EntryValue(position[a]) \in Int
      /\ Signed(Dir(o), f.price * f.qty) \in Int
  <2>1. r \in Account
    BY AccountAfterMoves DEF IInv
  <2>2. f.price * f.qty \in Int
    BY BoundsAssumption DEF FillMessage
  <2>3. r.position \in Position /\ position[a] \in Position
    BY <1>2, <2>1 DEF Account
  <2>4. QED
    BY <1>2, <2>1, <2>2, <2>3, EntryValueIsSigned DEF Account, Signed
<1>8. Worth(account) = available[a[1]] + locked[a[1]] - EntryValue(position[a])
  BY DEF Worth
<1>9. Worth(AccountAfter(o, f)) = Worth(account) - Signed(Dir(o), f.price * f.qty)
  BY <1>4, <1>6
<1>10. r.available + r.locked - EntryValue(r.position)
         = available[a[1]] + locked[a[1]] - EntryValue(position[a]) - Signed(Dir(o), f.price * f.qty)
  BY <1>7, <1>8, <1>9 DEF Worth
<1>11. QED
  BY <1>1, <1>7, <1>10

\* What a user has, less what it should be, when one position moves.
LEMMA DriftKept ==
  ASSUME NEW u, NEW old \in Int, NEW new \in Int, NEW paid \in Int, Deposit \in Int,
         available[u] \in Int, locked[u] \in Int, Cash(u) \in Int, AtEntry(u) \in Int,
         available'[u] \in Int, locked'[u] \in Int,
         AtEntry(u)' = AtEntry(u) + (new - old), Cash(u)' = Cash(u) - paid,
         available'[u] + locked'[u] - new = available[u] + locked[u] - old - paid
  PROVE  Drift(u)' = Drift(u)
<1> DEFINE a  == available[u]
           l  == locked[u]
           c  == Cash(u)
           n  == AtEntry(u)
           a1 == available'[u]
           l1 == locked'[u]
           c1 == Cash(u)'
           n1 == AtEntry(u)'
<1>1. /\ a \in Int /\ l \in Int /\ c \in Int /\ n \in Int /\ a1 \in Int /\ l1 \in Int
      /\ n1 = n + (new - old) /\ c1 = c - paid /\ a1 + l1 - new = a + l - old - paid
  OBVIOUS
<1> HIDE DEF a, l, c, n, a1, l1, c1, n1
<1>2. a1 + l1 - Deposit - c1 - n1 = a + l - Deposit - c - n
  BY <1>1
<1>3. QED
  BY <1>2 DEF Drift, a, l, c, n, a1, l1, c1, n1

\* A settled fill leaves every user's money where it has to be.
LEMMA ApplyConserves ==
  ASSUME IInv, IInv', NEW i \in 1..Len(fills), i \notin fillRows, Apply(i), fills' = fills,
         EvenFill(fills[i]), NEW u \in Users
  PROVE  Drift(u)' = Drift(u)
<1> DEFINE f == fills[i]
           both == {f.takerOrderId, f.makerOrderId}
<1>1. fillRows' = fillRows \cup {i}
  BY DEF Apply
<1>2. /\ Cash(u) \in Int /\ AtEntry(u) \in Int /\ available[u] \in Int /\ locked[u] \in Int
      /\ available'[u] \in Int /\ locked'[u] \in Int /\ Deposit \in Int
  BY MoneyTypes DEF IInv, TypeOK, DatabaseTypes
<1>3. both \subseteq OrderIds /\ f \in FillMessage
  BY StreamTypes, ElementOfSeq
<1>4. position \in [Accounts -> Position] /\ position' \in [Accounts -> Position]
  BY DEF IInv, TypeOK, DatabaseTypes
<1>5. ASSUME NEW o \in both, Requests[o].userId = u PROVE Drift(u)' = Drift(u)
  <2> DEFINE m == Requests[o].marketId
             r == AccountAfter(o, f)
             paid == Signed(Dir(o), f.price * f.qty)
             old == EntryValue(position[<<u, m>>])
             new == EntryValue(position'[<<u, m>>])
  <2>1. AccountOf(o) = <<u, m>> /\ m \in Markets
    BY <1>3, <1>5, RequestTypes DEF AccountOf, Accounts
  <2>2. \A n \in Markets \ {m} : position'[<<u, n>>] = position[<<u, n>>]
    <3>1. \A n \in Markets \ {m} : \A p \in both : AccountOf(p) # <<u, n>>
      BY <1>5, <2>1 DEF AccountOf, IInv, FillsMatchOrders
    <3>2. QED
      BY <3>1, ApplyAccounts DEF Accounts
  <2>3. AtEntry(u)' = AtEntry(u) + (new - old)
    BY <1>4, <2>1, <2>2, AtEntryFollows
  <2>4. Cash(u)' = Cash(u) - paid
    BY <1>1, <1>5, CashFollows
  <2>5. available'[u] = r.available /\ locked'[u] = r.locked /\ new = EntryValue(r.position)
    BY <1>5, <2>1, ApplyAccounts
  <2>6. r.available + r.locked - EntryValue(r.position) = available[u] + locked[u] - old - paid
    BY <1>3, <1>5, <2>1, AccountAfterPays DEF EvenFill
  <2>7. old \in Int /\ new \in Int /\ paid \in Int
    <3>1. position[<<u, m>>] \in Position /\ position'[<<u, m>>] \in Position
      BY <1>4, <2>1 DEF Accounts
    <3>2. f.price * f.qty \in Int
      BY StreamTypes
    <3>3. QED
      BY <3>1, <3>2, EntryValueIsSigned DEF Signed
  <2>8. available'[u] + locked'[u] - new = available[u] + locked[u] - old - paid
    BY <2>5, <2>6
  <2> HIDE DEF r, paid, old, new
  <2>9. QED
    BY <1>2, <2>3, <2>4, <2>7, <2>8, DriftKept
<1>6. ASSUME \A o \in both : Requests[o].userId # u PROVE Drift(u)' = Drift(u)
  <2>1. available'[u] = available[u] /\ locked'[u] = locked[u]
    BY <1>6, ApplyAccounts
  <2>2. Cash(u)' = Cash(u)
    BY <1>1, <1>6, CashFollows
  <2>3. \A m \in Markets : position'[<<u, m>>] = position[<<u, m>>]
    BY <1>6, ApplyAccounts DEF Accounts, AccountOf
  <2>4. AtEntry(u)' = AtEntry(u)
    BY <2>3 DEF AtEntry
  <2>5. QED
    BY <2>1, <2>2, <2>4 DEF Drift
<1>7. QED
  BY <1>5, <1>6

\* Nothing but a settled fill touches a position, and every other step moves
\* money between free and locked only.
MoneyStill ==
  /\ UNCHANGED <<fillRows, position>>
  /\ \A i \in fillRows : fills'[i] = fills[i]
  /\ \A u \in Users : available'[u] + locked'[u] = available[u] + locked[u]

LEMMA MoneySteps ==
  ASSUME IInv, [Next]_vars
  PROVE  \/ MoneyStill
         \/ \E i \in 1..Len(fills) : Apply(i) /\ i \notin fillRows /\ fills' = fills
<1> USE DEF database, engine, fillsLoop, cancelsLoop, history
<1>1. available \in [Users -> Int] /\ locked \in [Users -> Int]
  BY DEF IInv, TypeOK, DatabaseTypes
<1>2. ASSUME UNCHANGED <<fillRows, position, fills, available, locked>> PROVE MoneyStill
  BY <1>2 DEF MoneyStill
<1>3. CASE Place
  <2>1. ASSUME PlaceCommit PROVE MoneyStill
    <3>1. placing.margin \in Int /\ Requests[placing.orderId].userId \in Users
      BY <2>1, RequestTypes DEF PlaceCommit, IInv, TypeOK, DatabaseTypes
    <3>2. \A u \in Users : available'[u] + locked'[u] = available[u] + locked[u]
      BY <1>1, <2>1, <3>1 DEF PlaceCommit
    <3>3. QED
      BY <2>1, <3>2 DEF PlaceCommit, MoneyStill
  <2>2. ASSUME PlaceFail \/ \E id \in OrderIds : PlaceRead(id) PROVE MoneyStill
    BY <1>2, <2>2 DEF PlaceFail, PlaceRead
  <2>3. QED
    BY <1>3, <2>1, <2>2 DEF Place
<1>4. CASE Engine
  <2>1. ASSUME NEW t \in OrderIds, NEW m \in OrderIds, Trade(t, m) PROVE MoneyStill
    <3>1. \A i \in 1..Len(fills) : fills'[i] = fills[i]
      BY <2>1, StreamTypes, AppendProperties DEF Trade
    <3>2. QED
      BY <2>1, <3>1, StreamTypes DEF Trade, MoneyStill
  <2>2. ASSUME NEW id \in OrderIds, EngineCancel(id) \/ EndOfMatch(id) PROVE MoneyStill
    BY <1>2, <2>2 DEF EngineCancel, EndOfMatch
  <2>3. QED
    BY <1>4, <2>1, <2>2 DEF Engine
<1>5. CASE ConsumeFills
  <2>1. ASSUME NEW outcome \in Outcomes, ReadFills(outcome) \/ ClaimIdle(outcome) PROVE MoneyStill
    BY <1>2, <2>1 DEF ReadFills, ClaimIdle
  <2>2. ASSUME NEW i \in work, AlreadySettled(i) PROVE MoneyStill
    BY <1>2, <2>2 DEF AlreadySettled
  <2>3. ASSUME NEW i \in work, NEW outcome \in Outcomes, AckFill(i, outcome) PROVE MoneyStill
    BY <1>2, <2>3 DEF AckFill
  <2>4. ASSUME NEW i \in work, NEW outcome \in Outcomes, SettleFill(i, outcome)
        PROVE  MoneyStill \/ \E j \in 1..Len(fills) : Apply(j) /\ j \notin fillRows /\ fills' = fills
    <3>1. CASE outcome = "aborted"
      BY <1>2, <2>4, <3>1 DEF SettleFill
    <3>2. CASE outcome # "aborted"
      <4>1. Apply(i) /\ i \notin fillRows /\ fills' = fills
        BY <2>4, <3>2 DEF SettleFill, HasRow
      <4>2. i \in 1..Len(fills)
        BY StreamTypes DEF IInv, TypeOK, FillsLoopTypes
      <4>3. QED
        BY <4>1, <4>2
    <3>3. QED
      BY <3>1, <3>2
  <2>5. QED
    BY <1>5, <2>1, <2>2, <2>3, <2>4 DEF ConsumeFills
<1>6. CASE ConsumeCancels
  <2>1. ASSUME NEW outcome \in Outcomes, ReadCancels(outcome) PROVE MoneyStill
    BY <1>2, <2>1 DEF ReadCancels
  <2>2. ASSUME NEW i \in cancelsInHand, NEW outcome \in Outcomes, SettleCancel(i, outcome)
        PROVE  MoneyStill
    <3>1. CASE outcome = "aborted"
      BY <1>2, <2>2, <3>1 DEF SettleCancel
    <3>2. CASE outcome # "aborted"
      <4> DEFINE o == cancels[i].orderId
                 u == Requests[o].userId
                 r == Released(o, cancels[i].unfilledQty)
      <4>1. o \in OrderIds /\ cancels[i].unfilledQty \in Nat
        BY StreamTypes DEF IInv, TypeOK, CancelsLoopTypes, CancelIds
      <4>2. u \in Users /\ r \in Int
        <5>1. orders[o].initialMargin \in Int /\ Requests[o].qty \in Nat \ {0} /\ u \in Users
          BY <4>1, RequestTypes DEF IInv, TypeOK, DatabaseTypes
        <5>2. orders[o].initialMargin * cancels[i].unfilledQty \in Int
          BY <4>1, <5>1
        <5>3. QED
          BY <5>1, <5>2, DivIsInt DEF Released
      <4>3. /\ available' = [available EXCEPT ![u] = @ + r] /\ locked' = [locked EXCEPT ![u] = @ - r]
            /\ UNCHANGED <<fillRows, position, fills>>
        BY <2>2, <3>2 DEF SettleCancel
      <4> HIDE DEF u, r
      <4>4. \A v \in Users : available'[v] + locked'[v] = available[v] + locked[v]
        BY <1>1, <4>2, <4>3
      <4>5. QED
        BY <4>3, <4>4 DEF MoneyStill
    <3>3. QED
      BY <3>1, <3>2
  <2>3. QED
    BY <1>6, <2>1, <2>2 DEF ConsumeCancels
<1>7. CASE Restart
  BY <1>2, <1>7 DEF Restart
<1>8. CASE UNCHANGED vars
  BY <1>2, <1>8 DEF vars
<1>9. QED
  BY <1>3, <1>4, <1>5, <1>6, <1>7, <1>8 DEF Next

\* The averages of the fills that a step settles come out even.
EvenAverages == \A i \in fillRows' \ fillRows : EvenFill(fills[i])

\* So every step leaves every user's money where it has to be.
LEMMA StepConserves ==
  ASSUME IInv, IInv', [Next]_vars, EvenAverages, NEW u \in Users
  PROVE  Drift(u)' = Drift(u)
<1>1. CASE MoneyStill
  <2>1. \A o : Volume(o)' = Volume(o)
    <3> TAKE o
    <3> DEFINE Q == FillsOf(fills, o, fillRows)
    <3>1. FillsOf(fills', o, fillRows') = Q /\ Q \subseteq fillRows
      BY <1>1 DEF MoneyStill, FillsOf
    <3>2. [i \in Q |-> fills'[i].price * fills'[i].qty] = [i \in Q |-> fills[i].price * fills[i].qty]
      BY <1>1, <3>1 DEF MoneyStill
    <3>3. QED
      BY <3>1, <3>2 DEF Volume, OrderFills, FillsOf
  <2>2. Cash(u)' = Cash(u)
    BY <2>1 DEF Cash, OrdersOf
  <2>3. AtEntry(u)' = AtEntry(u)
    BY <1>1 DEF MoneyStill, AtEntry
  <2>4. /\ available'[u] + locked'[u] = available[u] + locked[u]
        /\ available[u] \in Int /\ locked[u] \in Int /\ available'[u] \in Int /\ locked'[u] \in Int
        /\ Cash(u) \in Int /\ AtEntry(u) \in Int /\ Deposit \in Int
    BY <1>1, MoneyTypes DEF MoneyStill, IInv, TypeOK, DatabaseTypes
  <2>5. QED
    BY <2>2, <2>3, <2>4 DEF Drift
<1>2. ASSUME NEW i \in 1..Len(fills), Apply(i), i \notin fillRows, fills' = fills
      PROVE  Drift(u)' = Drift(u)
  <2>1. EvenFill(fills[i])
    BY <1>2 DEF EvenAverages, Apply
  <2>2. QED
    BY <1>2, <2>1, ApplyConserves
<1>3. QED
  BY <1>1, <1>2, MoneySteps

\* Users start with their deposit and nothing else.
LEMMA InitDrift ==
  ASSUME Init, NEW u \in Users
  PROVE  Drift(u) = 0
<1>1. IInv
  BY InitIInv
<1>2. Cash(u) = 0
  <2> DEFINE f == [o \in OrdersOf(u) |-> -Signed(Dir(o), Volume(o))]
  <2>1. \A o : Volume(o) = 0
    <3> TAKE o
    <3> DEFINE v == [i \in OrderFills(o) |-> fills[i].price * fills[i].qty]
    <3>1. OrderFills(o) = {}
      BY DEF Init, OrderFills
    <3>2. v \in [{} -> Int] /\ \A i \in {} : v[i] = 0
      BY <3>1
    <3>3. SumFunction(v) = 0
      <4> HIDE DEF v
      <4>1. QED
        BY <3>2, FS_EmptySet, TotalZero
    <3>4. QED
      BY <3>3 DEF Volume
  <2>2. \A o \in OrdersOf(u) : f[o] = 0
    BY <2>1 DEF Signed
  <2>3. IsFiniteSet(OrdersOf(u)) /\ f \in [OrdersOf(u) -> Int]
    BY <1>1, MoneyTypes
  <2>4. SumFunction(f) = 0
    <3> HIDE DEF f
    <3>1. QED
      BY <2>2, <2>3, TotalZero
  <2>5. QED
    BY <2>4 DEF Cash
<1>3. AtEntry(u) = 0
  <2> DEFINE f == [m \in Markets |-> EntryValue(position[<<u, m>>])]
  <2>1. \A m \in Markets : f[m] = 0
    BY DEF Init, Accounts, EntryValue, Net, NoPosition
  <2>2. f \in [Markets -> Int]
    BY <1>1, MoneyTypes
  <2>3. SumFunction(f) = 0
    <3> HIDE DEF f
    <3>1. QED
      BY <2>1, <2>2, FiniteAssumption, TotalZero
  <2>4. QED
    BY <2>3 DEF AtEntry
<1>4. QED
  BY <1>2, <1>3, BoundsAssumption DEF Init, Drift

\* Money is conserved, in every execution whose averages come out even: free
\* and locked money is the deposit, the settled trades and the positions at
\* entry, whatever is redelivered, aborted, unanswered or cut short.
THEOREM MoneyIsConserved == Spec /\ [][EvenAverages]_vars => []MoneyConserved
<1> DEFINE Balanced == \A u \in Users : Drift(u) = 0
<1>1. Init => Balanced
  BY InitDrift
<1>2. IInv /\ IInv' /\ Balanced /\ [Next]_vars /\ [EvenAverages]_vars => Balanced'
  <2> SUFFICES ASSUME IInv, IInv', Balanced, [Next]_vars, [EvenAverages]_vars, NEW u \in Users
               PROVE  Drift(u)' = 0
    OBVIOUS
  <2>1. EvenAverages
    <3>1. CASE UNCHANGED vars
      BY <3>1 DEF EvenAverages, vars, database
    <3>2. QED
      BY <3>1
  <2>2. QED
    BY <2>1, StepConserves
<1>3. IInv /\ Balanced => MoneyConserved
  <2> SUFFICES ASSUME IInv, Balanced, NEW u \in Users
               PROVE  available[u] + locked[u] = Deposit + Cash(u) + AtEntry(u)
    BY DEF MoneyConserved
  <2>1. Drift(u) = 0
    OBVIOUS
  <2>2. QED
    BY <2>1, MoneyTypes DEF Drift
<1>4. QED
  <2> HIDE DEF Balanced
  <2>1. QED
    BY <1>1, <1>2, <1>3, InitIInv, Inductive, PTL DEF Spec

-----------------------------------------------------------------------------
(* What is locked.  A share of a reservation is a quotient as well: what    *)
(* follows is about executions in which every reservation divides evenly by *)
(* the quantity it is for.                                                  *)

EvenReservations == \A o \in OrderIds : orders[o].initialMargin % Requests[o].qty = 0

\* Reservations are never negative.
Reserves ==
  /\ \A o \in OrderIds : orders[o].initialMargin \in Nat
  /\ placing.margin \in Nat

\* What is reserved for the part of an order that is neither filled nor
\* cancelled.
Reservation(o) == (orders[o].initialMargin * Unused(o)) \div Requests[o].qty

\* What LockedIsExact compares.
LockDrift(u) == locked[u] - Margins(u) - Reserved(u)

\* The quotient of a multiple is the factor.
LEMMA MultipleDivides ==
  ASSUME NEW n \in Nat \ {0}, NEW k \in Int
  PROVE  (n * k) \div n = k
<1> DEFINE a == n * k
           q == a \div n
<1>1. a \in Int /\ q \in Int
  <2>1. a \in Int
    OBVIOUS
  <2> HIDE DEF a
  <2>2. QED
    BY <2>1, DivIsInt
<1>2. n * q <= a /\ a < n * q + n
  <2> HIDE DEF a
  <2>1. QED
    BY <1>1
<1> HIDE DEF q
<1>3. n * (k - q) = a - n * q
  BY <1>1
<1> DEFINE d == k - q
<1>4. d \in Int /\ n * d >= 0 /\ n * d < n
  BY <1>1, <1>2, <1>3
<1> HIDE DEF d
<1>5. ~(d >= 1)
  <2> SUFFICES ASSUME d >= 1 PROVE FALSE
    OBVIOUS
  <2>1. n * d = n + n * (d - 1) /\ n * (d - 1) >= 0
    BY <1>4
  <2>2. QED
    BY <1>4, <2>1
<1>6. ~(d <= -1)
  <2> SUFFICES ASSUME d <= -1 PROVE FALSE
    OBVIOUS
  <2>1. n * d = -(n * (-d)) /\ n * (-d) > 0
    BY <1>4
  <2>2. QED
    BY <1>4, <2>1
<1>7. d = 0
  BY <1>4, <1>5, <1>6
<1>8. QED
  BY <1>1, <1>7 DEF d, q

\* The shares of an amount that divides evenly are multiples of one rate.
LEMMA ShareIsExact ==
  ASSUME NEW a \in Int, NEW n \in Nat \ {0}, a % n = 0, NEW x \in Int
  PROVE  a \div n \in Int /\ (a * x) \div n = (a \div n) * x
<1> DEFINE r == a \div n
<1>1. r \in Int /\ n * r = a
  BY EvenQuotient
<1> HIDE DEF r
<1>2. a * x = n * (r * x) /\ r * x \in Int
  BY <1>1
<1>3. (n * (r * x)) \div n = r * x
  BY <1>2, MultipleDivides
<1>4. QED
  BY <1>1, <1>2, <1>3 DEF r

\* Shares of the parts are the share of the whole.
Share(a, n, x) == (a * x) \div n

LEMMA SharesAdd ==
  ASSUME NEW a \in Int, NEW n \in Nat \ {0}, a % n = 0, NEW x \in Int, NEW y \in Int
  PROVE  /\ Share(a, n, x) \in Int /\ Share(a, n, y) \in Int
         /\ Share(a, n, x - y) = Share(a, n, x) - Share(a, n, y)
<1> DEFINE r == a \div n
<1>1. r \in Int /\ Share(a, n, x) = r * x /\ Share(a, n, y) = r * y /\ Share(a, n, x - y) = r * (x - y)
  <2>1. x - y \in Int
    OBVIOUS
  <2>2. QED
    BY <2>1, ShareIsExact DEF Share
<1> HIDE DEF r
<1>2. r * (x - y) = r * x - r * y /\ r * x \in Int /\ r * y \in Int
  BY <1>1
<1>3. QED
  BY <1>1, <1>2

\* No settled fill gives back or takes more than the share of its order and
\* the margin of its position, unless an order that reserved margin closes.
LEMMA UpdateLocks ==
  ASSUME NEW account \in Account, NEW fill \in FillOfOrder,
         fill.reservation = 0 \/ account.position.qty = 0 \/ account.position.side = fill.direction
  PROVE  LET r == ApplyPositionUpdate(account, fill)
         IN  r.locked - r.position.margin
               = account.locked - account.position.margin - ReservationShare(fill)
<1> DEFINE pos   == account.position
           share == ReservationShare(fill)
           r     == ApplyPositionUpdate(account, fill)
<1> SUFFICES r.locked - r.position.margin = account.locked - pos.margin - share
  OBVIOUS
<1>1. /\ account.locked \in Int /\ pos.qty \in Nat /\ pos.margin \in Int
      /\ fill.qty \in Nat \ {0} /\ fill.reservation \in Int /\ fill.orderQty \in Nat \ {0}
  BY DEF Account, Position, NoPosition, FillOfOrder
<1>2. share \in Int /\ \A n \in Int : MarginFor(fill, n) \in Int
  BY <1>1, AmountsAreInt
<1>3. CASE pos.qty = 0
  <2>1. r = Open(account, fill) /\ pos.margin = 0
    BY <1>3 DEF ApplyPositionUpdate, Account, Position, NoPosition
  <2> DEFINE M == MarginFor(fill, fill.qty)
  <2>2. r.locked = account.locked + (M - share) /\ r.position.margin = M /\ M \in Int
    BY <1>1, <1>2, <2>1 DEF Open
  <2> HIDE DEF M, r, share
  <2>3. QED
    BY <1>1, <1>2, <2>1, <2>2
<1>4. CASE pos.qty # 0 /\ pos.side = fill.direction
  <2> DEFINE M == MarginFor(fill, fill.qty)
  <2>1. r = Increase(account, fill)
    BY <1>4 DEF ApplyPositionUpdate
  <2>2. r.locked = account.locked + (M - share) /\ r.position.margin = pos.margin + M /\ M \in Int
    BY <1>1, <1>2, <2>1 DEF Increase
  <2> HIDE DEF M, r, share
  <2>3. QED
    BY <1>1, <1>2, <2>2
<1>5. CASE pos.qty # 0 /\ pos.side # fill.direction
  <2>1. fill.reservation = 0
    BY <1>5
  <2>2. share = 0
    <3>1. fill.reservation * fill.qty = fill.orderQty * 0 /\ 0 \in Int
      BY <1>1, <2>1
    <3>2. QED
      BY <1>1, <3>1, MultipleDivides DEF ReservationShare
  <2>3. CASE fill.qty = pos.qty
    <3>1. r = Close(account, fill)
      BY <1>5, <2>3 DEF ApplyPositionUpdate
    <3>2. r.locked = account.locked - pos.margin /\ r.position.margin = 0
      BY <3>1 DEF Close, NoPosition
    <3> HIDE DEF r, share
    <3>3. QED
      BY <1>1, <2>2, <3>2
  <2>4. CASE fill.qty < pos.qty
    <3> DEFINE released == (pos.margin * fill.qty) \div pos.qty
    <3>1. r = Reduce(account, fill)
      BY <1>1, <1>5, <2>4 DEF ApplyPositionUpdate
    <3>2. r.locked = account.locked - released /\ r.position.margin = pos.margin - released
      BY <3>1 DEF Reduce
    <3>3. released \in Int
      <4>1. pos.margin * fill.qty \in Int /\ pos.qty \in Nat \ {0}
        BY <1>1, <1>5
      <4>2. QED
        BY <4>1, DivIsInt
    <3> HIDE DEF r, share, released
    <3>4. QED
      BY <1>1, <2>2, <3>2, <3>3
  <2>5. CASE fill.qty > pos.qty
    <3> DEFINE M == MarginFor(fill, fill.qty - pos.qty)
    <3>1. r = Flip(account, fill)
      BY <1>1, <1>5, <2>5 DEF ApplyPositionUpdate
    <3>2. r.locked = account.locked - pos.margin + (M - fill.reservation)
          /\ r.position.margin = M /\ M \in Int
      BY <1>1, <1>2, <3>1 DEF Flip
    <3> HIDE DEF r, share, M
    <3>3. QED
      BY <1>1, <2>1, <2>2, <3>2
  <2>6. QED
    BY <1>1, <2>3, <2>4, <2>5
<1>6. QED
  BY <1>3, <1>4, <1>5

\* One order of a fill: what its user has locked follows the margin of the
\* position and the reservation of the order.
LEMMA AccountAfterLocks ==
  ASSUME IInv, NEW o \in OrderIds, NEW f \in FillMessage,
         orders[o].initialMargin \in Nat, ~Crosses(o)
  PROVE  LET u == Requests[o].userId
             r == AccountAfter(o, f)
         IN  /\ r \in Account
             /\ r.locked - r.position.margin
                  = locked[u] - position[AccountOf(o)].margin
                    - ((orders[o].initialMargin * f.qty) \div Requests[o].qty)
<1> DEFINE a == AccountOf(o)
           account == [position |-> position[a], available |-> available[a[1]],
                       locked |-> locked[a[1]]]
           side == [direction |-> Dir(o), qty |-> f.qty, price |-> f.price,
                    leverage |-> Requests[o].leverage,
                    reservation |-> orders[o].initialMargin, orderQty |-> Requests[o].qty]
           r == AccountAfter(o, f)
<1>1. a[1] = Requests[o].userId /\ a[1] \in Users /\ a \in Accounts
  BY RequestTypes DEF AccountOf
<1>2. account \in Account
  BY <1>1 DEF IInv, TypeOK, DatabaseTypes, Account
<1>3. side \in FillOfOrder
  BY RequestTypes, BoundsAssumption DEF IInv, TypeOK, DatabaseTypes, FillMessage, FillOfOrder
<1>4. r = ApplyPositionUpdate(account, side)
  BY DEF AccountAfter
<1>5. \/ side.reservation = 0
      \/ account.position.qty = 0
      \/ account.position.side = side.direction
  <2>1. position[a].qty \in Nat
    BY <1>2 DEF Account, Position, NoPosition
  <2>2. QED
    BY <2>1 DEF Crosses
<1>6. ApplyPositionUpdate(account, side).locked - ApplyPositionUpdate(account, side).position.margin
        = account.locked - account.position.margin - ReservationShare(side)
  <2> HIDE DEF account, side
  <2>1. QED
    BY <1>2, <1>3, <1>5, UpdateLocks
<1>7. /\ account.locked = locked[Requests[o].userId] /\ account.position.margin = position[a].margin
      /\ ReservationShare(side) = (orders[o].initialMargin * f.qty) \div Requests[o].qty
  BY <1>1 DEF ReservationShare
<1>8. r \in Account
  BY AccountAfterMoves DEF IInv
<1> HIDE DEF account, side, r
<1>9. QED
  BY <1>4, <1>6, <1>7, <1>8 DEF r

\* Margins and reservations are amounts.
LEMMA LockTypes ==
  ASSUME IInv, NEW u \in Users
  PROVE  /\ IsFiniteSet(PlacedBy(u)) /\ PlacedBy(u) \subseteq OrderIds
         /\ \A o \in OrderIds : /\ Reservation(o) \in Int /\ Unused(o) \in Int
                                /\ orders[o].initialMargin \in Int
         /\ [o \in PlacedBy(u) |-> Reservation(o)] \in [PlacedBy(u) -> Int]
         /\ [m \in Markets |-> position[<<u, m>>].margin] \in [Markets -> Int]
         /\ Margins(u) \in Int /\ Reserved(u) \in Int /\ locked[u] \in Int
<1> DEFINE f == [o \in PlacedBy(u) |-> Reservation(o)]
           g == [m \in Markets |-> position[<<u, m>>].margin]
<1>1. PlacedBy(u) \subseteq OrderIds
  BY DEF PlacedBy, OrdersOf
<1>2. IsFiniteSet(PlacedBy(u))
  BY <1>1, FiniteAssumption, FS_Subset
<1>3. \A o \in OrderIds : Unused(o) \in Int /\ orders[o].initialMargin \in Int
  BY RequestTypes DEF Unused, IInv, TypeOK, DatabaseTypes
<1>4. \A o \in OrderIds : Reservation(o) \in Int
  <2> TAKE o \in OrderIds
  <2>1. orders[o].initialMargin * Unused(o) \in Int /\ Requests[o].qty \in Nat \ {0}
    BY <1>3, RequestTypes
  <2>2. QED
    BY <2>1, DivIsInt DEF Reservation
<1>5. f \in [PlacedBy(u) -> Int]
  BY <1>1, <1>4
<1>6. g \in [Markets -> Int]
  <2>1. \A m \in Markets : position[<<u, m>>] \in Position
    BY DEF IInv, TypeOK, DatabaseTypes, Accounts
  <2>2. \A pos \in Position : pos.margin \in Int
    BY DEF Position, NoPosition
  <2>3. QED
    BY <2>1, <2>2
<1>7. SumFunction(f) \in Int /\ SumFunction(g) \in Int
  <2> HIDE DEF f, g
  <2>1. QED
    BY <1>2, <1>5, <1>6, FiniteAssumption, TotalInt
<1>8. Reserved(u) = SumFunction(f) /\ Margins(u) = SumFunction(g)
  BY DEF Reserved, Reservation, Margins
<1>9. locked[u] \in Int
  BY DEF IInv, TypeOK, DatabaseTypes
<1>10. QED
  BY <1>1, <1>2, <1>3, <1>4, <1>5, <1>6, <1>7, <1>8, <1>9

\* What a user has reserved follows the one order that changes.
LEMMA ReservedFollows ==
  ASSUME IInv, IInv', NEW u \in Users, PlacedBy(u)' = PlacedBy(u), NEW o \in PlacedBy(u),
         \A p \in PlacedBy(u) \ {o} : Reservation(p)' = Reservation(p)
  PROVE  Reserved(u)' = Reserved(u) + (Reservation(o)' - Reservation(o))
<1> DEFINE S == PlacedBy(u)
           f == [p \in S |-> Reservation(p)]
           g == [p \in S |-> Reservation(p)']
<1>1. IsFiniteSet(S) /\ f \in [S -> Int] /\ g \in [S -> Int]
  <2>1. IsFiniteSet(S) /\ f \in [S -> Int] /\ S \subseteq OrderIds
    BY LockTypes
  <2>2. ASSUME NEW p \in OrderIds PROVE Reservation(p)' \in Int
    <3>1. /\ orders'[p].initialMargin \in Int /\ orders'[p].filledQty \in Nat
          /\ cancelledQty'[p] \in Nat /\ Requests[p].qty \in Nat \ {0}
      BY RequestTypes DEF IInv, TypeOK, DatabaseTypes
    <3>2. orders'[p].initialMargin * Unused(p)' \in Int
      BY <3>1 DEF Unused
    <3>3. QED
      BY <3>1, <3>2, DivIsInt DEF Reservation
  <2>3. QED
    BY <2>1, <2>2
<1>2. o \in S /\ (\A p \in S \ {o} : g[p] = f[p]) /\ g[o] - f[o] = Reservation(o)' - Reservation(o)
  OBVIOUS
<1>3. SumFunction(g) = SumFunction(f) + (g[o] - f[o])
  <2> HIDE DEF f, g, S
  <2>1. QED
    BY <1>1, <1>2, TotalChange
<1>4. Reserved(u) = SumFunction(f) /\ Reserved(u)' = SumFunction(g)
  BY DEF Reserved, Reservation
<1>5. QED
  BY <1>2, <1>3, <1>4

\* It stays when none does.
LEMMA ReservedStays ==
  ASSUME NEW u, PlacedBy(u)' = PlacedBy(u), \A p \in PlacedBy(u) : Reservation(p)' = Reservation(p)
  PROVE  Reserved(u)' = Reserved(u)
<1> DEFINE f == [p \in PlacedBy(u) |-> Reservation(p)]
           g == [p \in PlacedBy(u)' |-> Reservation(p)']
<1>1. f = g
  OBVIOUS
<1>2. Reserved(u) = SumFunction(f) /\ Reserved(u)' = SumFunction(g)
  BY DEF Reserved, Reservation
<1> HIDE DEF f, g
<1>3. QED
  BY <1>1, <1>2

\* The margin of one position follows in all its user's margins.
LEMMA MarginsFollow ==
  ASSUME IInv, IInv', NEW u \in Users, NEW m \in Markets,
         \A n \in Markets \ {m} : position'[<<u, n>>] = position[<<u, n>>]
  PROVE  Margins(u)' = Margins(u) + (position'[<<u, m>>].margin - position[<<u, m>>].margin)
<1> DEFINE f == [n \in Markets |-> position[<<u, n>>].margin]
           g == [n \in Markets |-> position'[<<u, n>>].margin]
<1>1. f \in [Markets -> Int] /\ g \in [Markets -> Int]
  <2>1. \A n \in Markets : position[<<u, n>>] \in Position /\ position'[<<u, n>>] \in Position
    BY DEF IInv, TypeOK, DatabaseTypes, Accounts
  <2>2. \A pos \in Position : pos.margin \in Int
    BY DEF Position, NoPosition
  <2>3. QED
    BY <2>1, <2>2
<1>2. (\A n \in Markets \ {m} : g[n] = f[n])
      /\ g[m] - f[m] = position'[<<u, m>>].margin - position[<<u, m>>].margin
  OBVIOUS
<1>3. SumFunction(g) = SumFunction(f) + (g[m] - f[m])
  <2> HIDE DEF f, g
  <2>1. QED
    BY <1>1, <1>2, FiniteAssumption, TotalChange
<1>4. Margins(u) = SumFunction(f) /\ Margins(u)' = SumFunction(g)
  BY DEF Margins
<1>5. QED
  BY <1>2, <1>3, <1>4

\* Four kinds of step touch orders, margins or what is locked: the lock of a
\* new order, a settled fill, and a settled cancel; all others leave them be.
LockStill ==
  /\ UNCHANGED <<orders, position, locked, cancelledQty, crossed>>
  /\ placing' \in {placing, NotPlacing} \/ \E id \in OrderIds : PlaceRead(id)

LEMMA LockSteps ==
  ASSUME IInv, [Next]_vars
  PROVE  \/ LockStill
         \/ PlaceCommit
         \/ \E i \in 1..Len(fills) : Apply(i) /\ i \notin fillRows /\ UNCHANGED <<cancelledQty, placing>>
         \/ \E i \in cancelsInHand : SettleCancel(i, "ok")
<1> USE DEF database, engine, fillsLoop, cancelsLoop, history
<1>1. CASE Place
  BY <1>1 DEF Place, PlaceFail, PlaceRead, LockStill
<1>2. CASE Engine
  <2>1. ASSUME NEW id \in OrderIds, EndOfMatch(id) PROVE LockStill
    BY <2>1 DEF EndOfMatch, LockStill
  <2>2. ASSUME NEW id \in OrderIds, EngineCancel(id) PROVE LockStill
    BY <2>2 DEF EngineCancel, LockStill
  <2>3. ASSUME NEW id \in OrderIds, NEW maker \in OrderIds, Trade(id, maker) PROVE LockStill
    BY <2>3 DEF Trade, LockStill
  <2>4. QED
    BY <1>2, <2>1, <2>2, <2>3 DEF Engine
<1>3. CASE ConsumeFills
  <2>1. ASSUME NEW outcome \in Outcomes, ReadFills(outcome) \/ ClaimIdle(outcome) PROVE LockStill
    BY <2>1 DEF ReadFills, ClaimIdle, LockStill
  <2>2. ASSUME NEW i \in work, AlreadySettled(i) PROVE LockStill
    BY <2>2 DEF AlreadySettled, LockStill
  <2>3. ASSUME NEW i \in work, NEW outcome \in Outcomes, AckFill(i, outcome) PROVE LockStill
    BY <2>3 DEF AckFill, LockStill
  <2>4. ASSUME NEW i \in work, NEW outcome \in Outcomes, SettleFill(i, outcome)
        PROVE  LockStill \/ \E j \in 1..Len(fills) : /\ Apply(j) /\ j \notin fillRows
                                                     /\ UNCHANGED <<cancelledQty, placing>>
    <3>1. CASE outcome = "aborted"
      BY <2>4, <3>1 DEF SettleFill, LockStill
    <3>2. CASE outcome # "aborted"
      <4>1. Apply(i) /\ i \notin fillRows /\ UNCHANGED <<cancelledQty, placing>>
        BY <2>4, <3>2 DEF SettleFill, HasRow
      <4>2. i \in 1..Len(fills)
        BY StreamTypes DEF IInv, TypeOK, FillsLoopTypes
      <4>3. QED
        BY <4>1, <4>2
    <3>3. QED
      BY <3>1, <3>2
  <2>5. QED
    BY <1>3, <2>1, <2>2, <2>3, <2>4 DEF ConsumeFills
<1>4. CASE ConsumeCancels
  <2>1. ASSUME NEW outcome \in Outcomes, ReadCancels(outcome) PROVE LockStill
    BY <2>1 DEF ReadCancels, LockStill
  <2>2. ASSUME NEW i \in cancelsInHand, NEW outcome \in Outcomes, SettleCancel(i, outcome)
        PROVE  LockStill \/ SettleCancel(i, "ok")
    <3>1. CASE outcome = "aborted"
      BY <2>2, <3>1 DEF SettleCancel, LockStill
    <3>2. CASE outcome = "ok"
      BY <2>2, <3>2
    <3>3. QED
      BY <2>2, <3>1, <3>2 DEF SettleCancel, Outcomes
  <2>3. QED
    BY <1>4, <2>1, <2>2 DEF ConsumeCancels
<1>5. CASE Restart
  BY <1>5 DEF Restart, LockStill
<1>6. CASE UNCHANGED vars
  BY <1>6 DEF vars, LockStill
<1>7. QED
  BY <1>1, <1>2, <1>3, <1>4, <1>5, <1>6 DEF Next

\* The margin of a new order is not negative.
LEMMA ReadReserves ==
  ASSUME IInv, NEW id \in OrderIds, PlaceRead(id)
  PROVE  placing'.margin \in Nat
<1> DEFINE r   == Requests[id]
           pos == position[AccountOf(id)]
           opened == OpeningQty(pos, Dir(id), r.qty)
<1>1. pos \in Position /\ r.qty \in Nat /\ r.price \in Nat /\ r.leverage \in Nat \ {0}
  BY RequestTypes DEF IInv, TypeOK, DatabaseTypes
<1>2. pos.qty \in Nat
  BY <1>1 DEF Position, NoPosition
<1>3. opened \in Nat
  BY <1>1, <1>2 DEF OpeningQty
<1>4. r.price * opened \in Nat
  <2> HIDE DEF opened
  <2>1. QED
    BY <1>1, <1>3
<1>5. placing'.margin = (r.price * opened) \div r.leverage
  BY DEF PlaceRead, RequiredMargin
<1> HIDE DEF opened
<1>6. \A a \in Nat, b \in Nat \ {0} : a \div b \in Nat
  OBVIOUS
<1>7. QED
  BY <1>1, <1>4, <1>5, <1>6

\* Reservations stay what they were when the order was placed.
LEMMA ReservesKept == IInv /\ Reserves /\ [Next]_vars => Reserves'
<1> SUFFICES ASSUME IInv, Reserves, [Next]_vars PROVE Reserves'
  OBVIOUS
<1>1. orders \in [OrderIds -> Row] /\ NotPlacing.margin \in Nat
  BY DEF IInv, TypeOK, DatabaseTypes, Row, NotPlacing
<1>2. CASE LockStill
  BY <1>1, <1>2, ReadReserves DEF LockStill, Reserves
<1>3. CASE PlaceCommit
  BY <1>1, <1>3 DEF PlaceCommit, Reserves
<1>4. ASSUME NEW i \in 1..Len(fills), Apply(i), UNCHANGED placing PROVE Reserves'
  <2> DEFINE t == fills[i].takerOrderId
             m == fills[i].makerOrderId
  <2>1. orders' = [orders EXCEPT ![t] = FilledRow(t, fills[i].qty), ![m] = FilledRow(m, fills[i].qty)]
    BY <1>4 DEF Apply
  <2>2. t \in OrderIds /\ m \in OrderIds
    BY StreamTypes
  <2>3. \A o \in OrderIds : orders'[o].initialMargin = orders[o].initialMargin
    BY <1>1, <2>1, <2>2 DEF FilledRow
  <2>4. QED
    BY <1>4, <2>3 DEF Reserves
<1>5. ASSUME NEW i \in cancelsInHand, SettleCancel(i, "ok") PROVE Reserves'
  <2>1. orders' = [orders EXCEPT ![cancels[i].orderId].status = "CANCELLED"] /\ placing' = placing
    BY <1>5 DEF SettleCancel
  <2>2. \A o \in OrderIds : orders'[o].initialMargin = orders[o].initialMargin
    BY <1>1, <2>1 DEF Row
  <2>3. QED
    BY <2>1, <2>2 DEF Reserves
<1>6. QED
  BY <1>2, <1>3, <1>4, <1>5, LockSteps

\* An order that is placed locks what it reserves.
LEMMA PlaceLocks ==
  ASSUME IInv, IInv', AInv, PlaceCommit, NEW id, id = placing.orderId, NEW u \in Users
  PROVE  LockDrift(u)' = LockDrift(u)
<1> DEFINE v  == Requests[id].userId
           S  == PlacedBy(u)
           T  == PlacedBy(u)'
           f  == [o \in S |-> Reservation(o)]
           g  == [o \in T |-> Reservation(o)']
<1>1. id \in OrderIds /\ orders[id].status = "NONE" /\ placing.margin \in Int
  BY DEF PlaceCommit, AInv, OnlyPlaced, IInv, TypeOK, DatabaseTypes
<1>2. /\ orders \in [OrderIds -> Row] /\ locked \in [Users -> Int]
      /\ Requests[id].qty \in Nat \ {0} /\ v \in Users
  BY <1>1, RequestTypes DEF IInv, TypeOK, DatabaseTypes, Row
<1>3. /\ orders' = [orders EXCEPT ![id] = [status |-> "OPEN", initialMargin |-> placing.margin,
                                           filledQty |-> 0]]
      /\ locked' = [locked EXCEPT ![v] = @ + placing.margin]
      /\ UNCHANGED <<position, cancelledQty>>
  BY DEF PlaceCommit, history
<1>4. cancelledQty[id] = 0
  <2>1. \A i \in (1..cancelsRead) \ cancelsInHand : i \in CancelIds
    BY StreamTypes DEF CancelIds
  <2>2. QED
    BY <1>1, <2>1 DEF AInv, OnlyPlaced, CancelledOnce
<1>5. Margins(u)' = Margins(u)
  BY <1>3 DEF Margins
<1>6. \A o \in OrderIds \ {id} : orders'[o] = orders[o] /\ Reservation(o)' = Reservation(o)
  BY <1>1, <1>2, <1>3 DEF Reservation, Unused
<1>7. IsFiniteSet(S) /\ S \subseteq OrderIds \ {id} /\ f \in [S -> Int] /\ Reserved(u) = SumFunction(f)
  <2>1. IsFiniteSet(S) /\ f \in [S -> Int] /\ S \subseteq OrderIds
    BY LockTypes
  <2>2. id \notin S
    BY <1>1 DEF PlacedBy
  <2>3. QED
    BY <2>1, <2>2 DEF Reserved, Reservation
<1>8. Margins(u) \in Int /\ Reserved(u) \in Int /\ locked[u] \in Int
  BY LockTypes
<1>9. Reserved(u)' = SumFunction(g)
  BY DEF Reserved, Reservation
<1>10. CASE u = v
  <2>1. T = S \cup {id} /\ id \notin S
    BY <1>1, <1>2, <1>3, <1>6, <1>10 DEF PlacedBy, OrdersOf
  <2>2. Reservation(id)' = placing.margin
    <3>1. orders'[id] = [status |-> "OPEN", initialMargin |-> placing.margin, filledQty |-> 0]
      BY <1>1, <1>2, <1>3
    <3>2. cancelledQty'[id] = 0
      BY <1>3, <1>4
    <3>3. Unused(id)' = Requests[id].qty
      BY <1>2, <3>1, <3>2 DEF Unused
    <3>4. Reservation(id)' = (placing.margin * Requests[id].qty) \div Requests[id].qty
      BY <3>1, <3>3 DEF Reservation
    <3>5. placing.margin * Requests[id].qty = Requests[id].qty * placing.margin
      BY <1>1, <1>2
    <3>6. (Requests[id].qty * placing.margin) \div Requests[id].qty = placing.margin
      BY <1>1, <1>2, MultipleDivides
    <3>7. QED
      BY <3>4, <3>5, <3>6
  <2>3. \A o \in S : Reservation(o)' = Reservation(o) /\ Reservation(o) \in Int
    BY <1>6, <1>7, LockTypes
  <2>4. SumFunction(g) = SumFunction(f) + placing.margin
    <3> HIDE DEF S, T
    <3>1. g \in [S \cup {id} -> Int] /\ (\A o \in S : g[o] = f[o]) /\ g[id] = placing.margin
      BY <1>1, <2>1, <2>2, <2>3
    <3>2. IsFiniteSet(S) /\ f \in [S -> Int] /\ id \notin S
      BY <1>7, <2>1
    <3> HIDE DEF f, g
    <3>3. SumFunction(g) = SumFunction(f) + g[id]
      BY <3>1, <3>2, TotalExtend
    <3>4. QED
      BY <3>1, <3>3
  <2>5. locked'[u] = locked[u] + placing.margin
    BY <1>2, <1>3, <1>10
  <2>6. Reserved(u)' = Reserved(u) + placing.margin
    BY <1>7, <1>9, <2>4
  <2>7. QED
    BY <1>1, <1>5, <1>8, <2>5, <2>6 DEF LockDrift
<1>11. CASE u # v
  <2>1. T = S
    BY <1>1, <1>2, <1>3, <1>6, <1>11 DEF PlacedBy, OrdersOf
  <2>2. Reserved(u)' = Reserved(u)
    BY <1>6, <1>7, <2>1, ReservedStays
  <2>3. locked'[u] = locked[u]
    BY <1>2, <1>3, <1>11
  <2>4. QED
    BY <1>5, <2>2, <2>3 DEF LockDrift
<1>12. QED
  BY <1>10, <1>11

\* The sums of a step that takes a share of one order's reservation.
LEMMA LockBalance ==
  ASSUME NEW l \in Int, NEW m \in Int, NEW r \in Int, NEW share \in Int,
         NEW l1 \in Int, NEW m1 \in Int, l1 - m1 = l - m - share
  PROVE  l1 - m1 - (r - share) = l - m - r
  OBVIOUS

\* A settled fill locks the position's margin for its share of the order's
\* reservation.
LEMMA ApplyLocks ==
  ASSUME IInv, IInv', AInv, Reserves, EvenReservations, UNCHANGED cancelledQty,
         NEW i \in 1..Len(fills), Apply(i), NEW u \in Users \ crossed'
  PROVE  LockDrift(u)' = LockDrift(u)
<1> DEFINE f == fills[i]
           both == {f.takerOrderId, f.makerOrderId}
<1>1. both \subseteq OrderIds /\ f \in FillMessage /\ f.qty \in Nat
  BY StreamTypes, ElementOfSeq
<1>2. /\ orders \in [OrderIds -> Row] /\ f.takerOrderId # f.makerOrderId
      /\ orders' = [orders EXCEPT ![f.takerOrderId] = FilledRow(f.takerOrderId, f.qty),
                                  ![f.makerOrderId] = FilledRow(f.makerOrderId, f.qty)]
  BY StreamTypes DEF Apply, IInv, TypeOK, DatabaseTypes, Row
<1>3. /\ \A o \in both : orders'[o] = FilledRow(o, f.qty)
      /\ \A o \in OrderIds \ both : orders'[o] = orders[o]
  BY <1>1, <1>2
<1>4. \A o \in OrderIds : orders'[o].status = "NONE" <=> orders[o].status = "NONE"
  <2>1. \A o \in both : orders[o].status # "NONE"
    BY DEF AInv, OnlyPlaced
  <2>2. \A o \in both : orders'[o].status # "NONE"
    BY <1>3 DEF FilledRow, StatusAfter
  <2>3. QED
    BY <1>3, <2>1, <2>2
<1>5. PlacedBy(u)' = PlacedBy(u) /\ PlacedBy(u) \subseteq OrderIds
  BY <1>4 DEF PlacedBy, OrdersOf
<1>6. \A o \in OrderIds \ both : Reservation(o)' = Reservation(o)
  BY <1>3 DEF Reservation, Unused
<1>7. /\ Margins(u) \in Int /\ Reserved(u) \in Int /\ locked[u] \in Int
      /\ locked' \in [Users -> Int] /\ position' \in [Accounts -> Position]
      /\ position \in [Accounts -> Position]
  BY LockTypes DEF IInv, TypeOK, DatabaseTypes
<1>8. ASSUME NEW o \in both, Requests[o].userId = u PROVE LockDrift(u)' = LockDrift(u)
  <2> DEFINE m     == Requests[o].marketId
             r     == AccountAfter(o, f)
             share == (orders[o].initialMargin * f.qty) \div Requests[o].qty
             old   == position[<<u, m>>].margin
             new   == position'[<<u, m>>].margin
  <2>1. AccountOf(o) = <<u, m>> /\ m \in Markets /\ o \in OrderIds
        /\ Requests[o].qty \in Nat \ {0}
    BY <1>1, <1>8, RequestTypes DEF AccountOf, Accounts
  <2>2. ~Crosses(o)
    BY <1>8 DEF Apply
  <2>3. r \in Account /\ r.locked - r.position.margin = locked[u] - old - share
    <3>1. orders[o].initialMargin \in Nat
      BY <2>1 DEF Reserves
    <3>2. QED
      BY <1>1, <1>8, <2>1, <2>2, <3>1, AccountAfterLocks
  <2>4. locked'[u] = r.locked /\ new = r.position.margin
    BY <1>8, <2>1, ApplyAccounts
  <2>5. Margins(u)' = Margins(u) + (new - old)
    <3>1. \A n \in Markets \ {m} : \A p \in both : AccountOf(p) # <<u, n>>
      BY <1>8, <2>1 DEF AccountOf, IInv, FillsMatchOrders
    <3>2. \A n \in Markets \ {m} : position'[<<u, n>>] = position[<<u, n>>]
      BY <3>1, ApplyAccounts DEF Accounts
    <3>3. QED
      BY <2>1, <3>2, MarginsFollow
  <2>6. Reservation(o)' = Reservation(o) - share /\ share \in Int /\ Reservation(o) \in Int
    <3> DEFINE a == orders[o].initialMargin
               n == Requests[o].qty
               x == Unused(o)
    <3>1. a \in Int /\ n \in Nat \ {0} /\ a % n = 0 /\ x \in Int /\ f.qty \in Int
      BY <1>1, <2>1, LockTypes DEF EvenReservations
    <3>2. orders'[o].initialMargin = a /\ Unused(o)' = x - f.qty
      <4>1. orders[o].filledQty \in Nat /\ cancelledQty[o] \in Nat
        BY <2>1 DEF IInv, TypeOK, DatabaseTypes
      <4>2. orders'[o].initialMargin = a /\ orders'[o].filledQty = orders[o].filledQty + f.qty
        BY <1>3 DEF FilledRow
      <4>3. QED
        BY <1>1, <2>1, <4>1, <4>2 DEF Unused
    <3>3. /\ Share(a, n, x) \in Int /\ Share(a, n, f.qty) \in Int
          /\ Share(a, n, x - f.qty) = Share(a, n, x) - Share(a, n, f.qty)
      <4> HIDE DEF a, n, x
      <4>1. QED
        BY <3>1, SharesAdd
    <3>4. QED
      BY <3>2, <3>3 DEF Reservation, Share
  <2>7. o \in PlacedBy(u) /\ \A p \in PlacedBy(u) \ {o} : p \notin both
    BY <1>8, <2>1 DEF PlacedBy, OrdersOf, AInv, OnlyPlaced, IInv, FillsMatchOrders
  <2>8. Reserved(u)' = Reserved(u) + (Reservation(o)' - Reservation(o))
    BY <1>5, <1>6, <2>7, ReservedFollows
  <2>9. old \in Int /\ new \in Int
    <3>1. position[<<u, m>>] \in Position /\ position'[<<u, m>>] \in Position
      BY <1>7, <2>1 DEF Accounts
    <3>2. QED
      BY <3>1 DEF Position, NoPosition
  <2>10. Reserved(u)' = Reserved(u) - share
    <3> HIDE DEF share
    <3>1. QED
      BY <1>7, <2>6, <2>8
  <2>11. locked'[u] - Margins(u)' = locked[u] - Margins(u) - share /\ locked'[u] \in Int
         /\ Margins(u)' \in Int
    <3>1. locked'[u] \in Int /\ locked'[u] - new = locked[u] - old - share
      BY <1>7, <2>3, <2>4
    <3> DEFINE l  == locked[u]
               l1 == locked'[u]
               k  == Margins(u)
               k1 == Margins(u)'
    <3>2. /\ l \in Int /\ l1 \in Int /\ k \in Int /\ new \in Int /\ old \in Int /\ share \in Int
          /\ k1 = k + (new - old) /\ l1 - new = l - old - share
      BY <1>7, <2>5, <2>6, <2>9, <3>1
    <3> HIDE DEF share, new, old, l, l1, k, k1
    <3>3. l1 - k1 = l - k - share /\ l1 \in Int /\ k1 \in Int
      BY <3>2
    <3>4. QED
      BY <3>3 DEF l, l1, k, k1
  <2> HIDE DEF share
  <2>12. locked'[u] - Margins(u)' - (Reserved(u) - share) = locked[u] - Margins(u) - Reserved(u)
    BY <1>7, <2>6, <2>11, LockBalance
  <2>13. QED
    BY <2>10, <2>12 DEF LockDrift
<1>9. ASSUME \A o \in both : Requests[o].userId # u PROVE LockDrift(u)' = LockDrift(u)
  <2>1. locked'[u] = locked[u]
    BY <1>9, ApplyAccounts
  <2>2. \A m \in Markets : position'[<<u, m>>] = position[<<u, m>>]
    BY <1>9, ApplyAccounts DEF Accounts, AccountOf
  <2>3. Margins(u)' = Margins(u)
    BY <2>2 DEF Margins
  <2>4. \A o \in PlacedBy(u) : Reservation(o)' = Reservation(o)
    BY <1>6, <1>9 DEF PlacedBy, OrdersOf
  <2>5. Reserved(u)' = Reserved(u)
    BY <1>5, <2>4, ReservedStays
  <2>6. QED
    BY <2>1, <2>3, <2>5 DEF LockDrift
<1>10. QED
  BY <1>8, <1>9

\* A settled cancel unlocks the share of what was not filled.
LEMMA CancelLocks ==
  ASSUME IInv, IInv', AInv, EvenReservations, NEW i \in cancelsInHand, SettleCancel(i, "ok"),
         NEW o, o = cancels[i].orderId, NEW u \in Users
  PROVE  LockDrift(u)' = LockDrift(u)
<1> DEFINE q     == cancels[i].unfilledQty
           v     == Requests[o].userId
           share == Released(o, q)
<1>1. /\ i \in CancelIds /\ o \in OrderIds /\ q \in Nat /\ v \in Users
      /\ Requests[o].qty \in Nat \ {0} /\ orders[o].status # "NONE"
  <2>1. i \in CancelIds /\ o \in OrderIds
    BY NotYetCancelled
  <2>2. QED
    BY <2>1, StreamTypes, RequestTypes DEF AInv, OnlyPlaced
<1>2. /\ orders \in [OrderIds -> Row] /\ locked \in [Users -> Int]
      /\ cancelledQty \in [OrderIds -> Nat]
  BY DEF IInv, TypeOK, DatabaseTypes, Row
<1>3. /\ orders' = [orders EXCEPT ![o].status = "CANCELLED"]
      /\ locked' = [locked EXCEPT ![v] = @ - share]
      /\ cancelledQty' = [cancelledQty EXCEPT ![o] = @ + q]
      /\ UNCHANGED position
  BY DEF SettleCancel
<1>4. /\ orders'[o].initialMargin = orders[o].initialMargin
      /\ orders'[o].filledQty = orders[o].filledQty /\ orders'[o].status = "CANCELLED"
      /\ cancelledQty'[o] = cancelledQty[o] + q
      /\ \A p \in OrderIds \ {o} : orders'[p] = orders[p] /\ cancelledQty'[p] = cancelledQty[p]
  BY <1>1, <1>2, <1>3 DEF Row
<1>5. \A p \in OrderIds \ {o} : Reservation(p)' = Reservation(p)
  BY <1>4 DEF Reservation, Unused
<1>6. PlacedBy(u)' = PlacedBy(u) /\ PlacedBy(u) \subseteq OrderIds
  BY <1>1, <1>4 DEF PlacedBy, OrdersOf
<1>7. Reservation(o)' = Reservation(o) - share /\ share \in Int /\ Reservation(o) \in Int
  <2> DEFINE a == orders[o].initialMargin
             n == Requests[o].qty
             x == Unused(o)
  <2>1. a \in Int /\ n \in Nat \ {0} /\ a % n = 0 /\ x \in Int /\ q \in Int
    BY <1>1, LockTypes DEF EvenReservations
  <2>2. orders'[o].initialMargin = a /\ Unused(o)' = x - q
    <3>1. orders[o].filledQty \in Nat /\ cancelledQty[o] \in Nat
      BY <1>1 DEF IInv, TypeOK, DatabaseTypes
    <3>2. QED
      BY <1>1, <1>4, <3>1 DEF Unused
  <2>3. /\ Share(a, n, x) \in Int /\ Share(a, n, q) \in Int
        /\ Share(a, n, x - q) = Share(a, n, x) - Share(a, n, q)
    <3> HIDE DEF a, n, x, q
    <3>1. QED
      BY <2>1, SharesAdd
  <2>4. QED
    BY <2>2, <2>3 DEF Reservation, Released, Share
<1>8. Margins(u)' = Margins(u)
  BY <1>3 DEF Margins
<1>9. Margins(u) \in Int /\ Reserved(u) \in Int /\ locked[u] \in Int
  BY LockTypes
<1> HIDE DEF share
<1>10. CASE u = v
  <2>1. o \in PlacedBy(u)
    BY <1>1, <1>10 DEF PlacedBy, OrdersOf
  <2>2. Reserved(u)' = Reserved(u) + (Reservation(o)' - Reservation(o))
    BY <1>5, <1>6, <2>1, ReservedFollows
  <2>3. locked'[u] = locked[u] - share
    BY <1>2, <1>3, <1>10
  <2>4. Reserved(u)' = Reserved(u) - share
    BY <1>7, <1>9, <2>2
  <2>5. QED
    BY <1>7, <1>8, <1>9, <2>3, <2>4 DEF LockDrift
<1>11. CASE u # v
  <2>1. o \notin PlacedBy(u)
    BY <1>11 DEF PlacedBy, OrdersOf
  <2>2. Reserved(u)' = Reserved(u)
    BY <1>5, <1>6, <2>1, ReservedStays
  <2>3. locked'[u] = locked[u]
    BY <1>2, <1>3, <1>11
  <2>4. QED
    BY <1>8, <2>2, <2>3 DEF LockDrift
<1>12. QED
  BY <1>10, <1>11

\* No step of settlement changes what LockedIsExact compares.
LEMMA StepLocks ==
  ASSUME IInv, IInv', AInv, Reserves, EvenReservations, [Next]_vars, NEW u \in Users \ crossed'
  PROVE  LockDrift(u)' = LockDrift(u) /\ u \notin crossed
<1>1. CASE LockStill
  BY <1>1 DEF LockStill, LockDrift, Margins, Reserved, PlacedBy, OrdersOf, Unused
<1>2. CASE PlaceCommit
  <2>1. crossed' = crossed
    BY <1>2 DEF PlaceCommit, history
  <2>2. QED
    BY <1>2, <2>1, PlaceLocks
<1>3. ASSUME NEW i \in 1..Len(fills), Apply(i), UNCHANGED cancelledQty
      PROVE  LockDrift(u)' = LockDrift(u) /\ u \notin crossed
  <2>1. u \notin crossed
    BY <1>3 DEF Apply
  <2>2. QED
    BY <1>3, <2>1, ApplyLocks
<1>4. ASSUME NEW i \in cancelsInHand, SettleCancel(i, "ok")
      PROVE  LockDrift(u)' = LockDrift(u) /\ u \notin crossed
  <2>1. crossed' = crossed
    BY <1>4 DEF SettleCancel
  <2>2. QED
    BY <1>4, <2>1, CancelLocks
<1>5. QED
  BY <1>1, <1>2, <1>3, <1>4, LockSteps

\* Initially nothing is locked and nothing asks for it.
LEMMA InitLocks ==
  ASSUME Init, NEW u \in Users
  PROVE  Reserves /\ LockDrift(u) = 0
<1>1. IInv
  BY InitIInv
<1>2. Reserves
  BY DEF Init, Reserves, NotPlacing
<1> DEFINE f == [o \in PlacedBy(u) |-> Reservation(o)]
           g == [m \in Markets |-> position[<<u, m>>].margin]
<1>3. PlacedBy(u) = {}
  BY DEF Init, PlacedBy, OrdersOf
<1>4. IsFiniteSet(PlacedBy(u)) /\ f \in [PlacedBy(u) -> Int] /\ g \in [Markets -> Int]
  BY <1>1, LockTypes
<1>5. (\A o \in PlacedBy(u) : f[o] = 0) /\ (\A m \in Markets : g[m] = 0)
  BY <1>3 DEF Init, Accounts, NoPosition
<1>6. SumFunction(f) = 0 /\ SumFunction(g) = 0
  <2> HIDE DEF f, g
  <2>1. QED
    BY <1>4, <1>5, FiniteAssumption, TotalZero
<1>7. Reserved(u) = 0 /\ Margins(u) = 0 /\ locked[u] = 0
  BY <1>6 DEF Reserved, Reservation, Margins, Init
<1>8. QED
  BY <1>2, <1>7 DEF LockDrift

\* What is locked is exactly the margin of the positions and the reservation
\* of what is neither filled nor cancelled, in every execution whose
\* reservations divide evenly, in whatever order the two loops settle and
\* whatever is redelivered, aborted, unanswered or cut short.
THEOREM LocksAreExact == Spec /\ []EvenReservations => []LockedIsExact
<1> DEFINE Exact == \A u \in Users \ crossed : LockDrift(u) = 0
<1>1. Init => Reserves /\ Exact
  <2>1. Init => Reserves
    BY DEF Init, Reserves, NotPlacing
  <2>2. QED
    BY <2>1, InitLocks
<1>2. IInv /\ IInv' /\ AInv /\ Reserves /\ EvenReservations /\ Exact /\ [Next]_vars => Exact'
  BY StepLocks
<1>3. IInv /\ Exact => LockedIsExact
  <2> SUFFICES ASSUME IInv, Exact, NEW u \in Users \ crossed
               PROVE  locked[u] = Margins(u) + Reserved(u)
    BY DEF LockedIsExact
  <2>1. LockDrift(u) = 0
    OBVIOUS
  <2>2. QED
    BY <2>1, LockTypes DEF LockDrift
<1>4. QED
  <2> HIDE DEF Exact
  <2>1. QED
    BY <1>1, <1>2, <1>3, InitIInv, InitAInv, Inductive, AInvKept, ReservesKept, PTL DEF Spec

-----------------------------------------------------------------------------
(* The margin of a position.  It is a sum of quotients by leverages, of    *)
(* which a reduction takes a quotient by the quantity: what follows is      *)
(* about executions in which these come out even, and the averages too.     *)

MarginIsEven(pos, direction, qty, price, leverage) ==
  /\ (price * OpeningQty(pos, direction, qty)) % leverage = 0
  /\ pos.qty > qty /\ pos.side # direction => (pos.margin * qty) % pos.qty = 0

\* The margin is what the entry value asks for at leverages of the set: no less
\* than at one of them, no more than at another.
Backed(pos, leverages) ==
  /\ pos.margin \in Nat /\ pos.entryPrice \in Nat
  /\ pos.qty > 0 => /\ \E l \in leverages : pos.margin * l >= pos.entryPrice * pos.qty
                    /\ \E l \in leverages : pos.margin * l <= pos.entryPrice * pos.qty

\* A product grows with its factor.
LEMMA TimesGrows ==
  ASSUME NEW a \in Nat, NEW b \in Int, NEW c \in Int, b <= c
  PROVE  a * b \in Int /\ a * c \in Int /\ a * b <= a * c
<1>1. c - b \in Nat
  OBVIOUS
<1>2. a * (c - b) \in Nat
  BY <1>1
<1>3. a * (c - b) = a * c - a * b /\ a * b \in Int /\ a * c \in Int
  OBVIOUS
<1>4. QED
  BY <1>2, <1>3

\* A common factor does not change the order.
LEMMA FactorCancels ==
  ASSUME NEW n \in Nat \ {0}, NEW x \in Int, NEW y \in Int, n * y <= n * x
  PROVE  y <= x
<1> SUFFICES ASSUME x + 1 <= y PROVE FALSE
  OBVIOUS
<1>1. n * (x + 1) <= n * y
  BY TimesGrows
<1>2. n * (x + 1) = n * x + n /\ n * x \in Int /\ n * y \in Int
  OBVIOUS
<1>3. QED
  BY <1>1, <1>2

\* Two margins together are bounded by what both ask for, at the higher or at
\* the lower of their leverages.
LEMMA MarginsAdd ==
  ASSUME NEW m \in Nat, NEW n \in Nat, NEW k \in Nat, NEW l \in Nat, NEW v \in Int, NEW w \in Int
  PROVE  /\ m * k >= v /\ n * l >= w => \E x \in {k, l} : (m + n) * x >= v + w
         /\ m * k <= v /\ n * l <= w => \E x \in {k, l} : (m + n) * x <= v + w
<1>1. /\ (m + n) * k = m * k + n * k /\ (m + n) * l = m * l + n * l
      /\ m * k \in Int /\ n * k \in Int /\ m * l \in Int /\ n * l \in Int
  OBVIOUS
<1>2. CASE k <= l
  <2>1. m * k <= m * l /\ n * k <= n * l
    BY <1>2, TimesGrows
  <2> DEFINE mk == m * k
             ml == m * l
             nk == n * k
             nl == n * l
  <2>2. /\ (m + n) * k = mk + nk /\ (m + n) * l = ml + nl /\ mk <= ml /\ nk <= nl
        /\ mk \in Int /\ nk \in Int /\ ml \in Int /\ nl \in Int
    BY <1>1, <2>1
  <2> HIDE DEF mk, ml, nk, nl
  <2>3. mk >= v /\ nl >= w => (m + n) * l >= v + w
    BY <2>2
  <2>4. mk <= v /\ nl <= w => (m + n) * k <= v + w
    BY <2>2
  <2>5. QED
    BY <2>3, <2>4 DEF mk, nl
<1>3. CASE l <= k
  <2>1. m * l <= m * k /\ n * l <= n * k
    BY <1>3, TimesGrows
  <2> DEFINE mk == m * k
             ml == m * l
             nk == n * k
             nl == n * l
  <2>2. /\ (m + n) * k = mk + nk /\ (m + n) * l = ml + nl /\ ml <= mk /\ nl <= nk
        /\ mk \in Int /\ nk \in Int /\ ml \in Int /\ nl \in Int
    BY <1>1, <2>1
  <2> HIDE DEF mk, ml, nk, nl
  <2>3. mk >= v /\ nl >= w => (m + n) * k >= v + w
    BY <2>2
  <2>4. mk <= v /\ nl <= w => (m + n) * l <= v + w
    BY <2>2
  <2>5. QED
    BY <2>3, <2>4 DEF mk, nl
<1>4. QED
  BY <1>2, <1>3

\* What is left of a margin after an even share is gone is in proportion.
LEMMA MarginShrinks ==
  ASSUME NEW m \in Nat, NEW r \in Int, NEW n \in Nat \ {0}, NEW q \in Nat, q < n,
         n * r = m * q, NEW e \in Nat, NEW l \in Nat
  PROVE  /\ m - r \in Nat
         /\ m * l >= e * n => (m - r) * l >= e * (n - q)
         /\ m * l <= e * n => (m - r) * l <= e * (n - q)
<1> DEFINE c == n - q
           x == (m - r) * l
           y == e * c
<1>1. c \in Nat /\ m - r \in Int /\ x \in Int /\ y \in Int /\ m * l \in Int /\ e * n \in Int
  OBVIOUS
<1>2. n * (m - r) = m * c
  <2>1. n * (m - r) = n * m - n * r /\ m * c = m * n - m * q /\ n * m = m * n
    OBVIOUS
  <2>2. QED
    BY <2>1
<1>3. m - r \in Nat
  <2>1. n * 0 <= n * (m - r)
    <3>1. m * c \in Nat /\ n * 0 = 0
      BY <1>1
    <3>2. QED
      BY <1>2, <3>1
  <2>2. 0 <= m - r
    BY <1>1, <2>1, FactorCancels
  <2>3. QED
    BY <1>1, <2>2
<1>4. n * x = c * (m * l) /\ n * y = c * (e * n)
  <2>1. n * x = (n * (m - r)) * l
    BY <1>1
  <2>2. (m * c) * l = c * (m * l)
    BY <1>1
  <2>3. n * y = c * (e * n)
    BY <1>1
  <2>4. QED
    BY <1>2, <2>1, <2>2, <2>3
<1>5. ASSUME m * l >= e * n PROVE x >= y
  <2>1. c * (e * n) <= c * (m * l)
    BY <1>1, <1>5, TimesGrows
  <2> HIDE DEF x, y, c
  <2>2. QED
    BY <1>1, <1>4, <2>1, FactorCancels
<1>6. ASSUME m * l <= e * n PROVE x <= y
  <2>1. c * (m * l) <= c * (e * n)
    BY <1>1, <1>6, TimesGrows
  <2> HIDE DEF x, y, c
  <2>2. QED
    BY <1>1, <1>4, <2>1, FactorCancels
<1>7. QED
  BY <1>3, <1>5, <1>6

\* A margin that comes out even is exactly what its part asks for.
LEMMA EvenMarginIsExact ==
  ASSUME NEW fill \in FillOfOrder, fill.price \in Nat, NEW n \in Nat,
         (fill.price * n) % fill.leverage = 0
  PROVE  MarginFor(fill, n) \in Nat /\ MarginFor(fill, n) * fill.leverage = fill.price * n
<1> DEFINE v == fill.price * n
           l == fill.leverage
<1>1. v \in Nat /\ l \in Nat \ {0} /\ v % l = 0
  BY DEF FillOfOrder
<1>2. v \div l \in Int /\ l * (v \div l) = v
  <2> HIDE DEF v, l
  <2>1. QED
    BY <1>1, EvenQuotient
<1>3. v \div l \in Nat
  <2> HIDE DEF v, l
  <2>1. QED
    BY <1>1
<1>4. (v \div l) * l = l * (v \div l)
  <2> HIDE DEF v
  <2>1. QED
    BY <1>1, <1>2
<1>5. MarginFor(fill, n) = v \div l
  BY DEF MarginFor
<1>6. QED
  BY <1>2, <1>3, <1>4, <1>5

\* A position that a fill opens is backed at the leverage of its order.
LEMMA OpeningBacks ==
  ASSUME NEW fill \in FillOfOrder, fill.price \in Nat, NEW n \in Nat \ {0},
         (fill.price * n) % fill.leverage = 0, NEW leverages, fill.leverage \in leverages,
         NEW pos, pos.qty = n, pos.entryPrice = fill.price, pos.margin = MarginFor(fill, n)
  PROVE  Backed(pos, leverages)
<1>1. pos.margin \in Nat /\ pos.margin * fill.leverage = pos.entryPrice * pos.qty
  BY EvenMarginIsExact
<1>2. pos.entryPrice * pos.qty \in Nat
  OBVIOUS
<1> DEFINE asked == pos.entryPrice * pos.qty
<1>3. asked >= asked /\ asked <= asked
  BY <1>2
<1>4. /\ pos.margin * fill.leverage >= pos.entryPrice * pos.qty
      /\ pos.margin * fill.leverage <= pos.entryPrice * pos.qty
  BY <1>1, <1>3
<1>5. QED
  BY <1>1, <1>4 DEF Backed

\* Every branch leaves a backed position backed, if what it divides is even.
LEMMA UpdateBacks ==
  ASSUME NEW account \in Account, NEW fill \in FillOfOrder, fill.price \in Nat,
         NEW leverages \in SUBSET (Nat \ {0}), fill.leverage \in leverages,
         Backed(account.position, leverages),
         AverageIsEven(account.position, fill.direction, fill.qty, fill.price),
         MarginIsEven(account.position, fill.direction, fill.qty, fill.price, fill.leverage)
  PROVE  Backed(ApplyPositionUpdate(account, fill).position, leverages)
<1> DEFINE pos == account.position
           q   == fill.qty
           p   == fill.price
           e   == pos.entryPrice
           r   == ApplyPositionUpdate(account, fill)
<1>1. pos.qty \in Nat /\ e \in Nat /\ pos.margin \in Nat
  BY DEF Backed, Account, Position, NoPosition
<1>2. q \in Nat \ {0} /\ p \in Nat
  BY DEF FillOfOrder
<1>3. (p * OpeningQty(pos, fill.direction, q)) % fill.leverage = 0
  BY DEF MarginIsEven
<1>4. CASE pos.qty = 0
  <2>1. r = Open(account, fill)
    BY <1>4 DEF ApplyPositionUpdate
  <2>2. OpeningQty(pos, fill.direction, q) = q
    BY <1>4 DEF OpeningQty
  <2>3. r.position.qty = q /\ r.position.entryPrice = p /\ r.position.margin = MarginFor(fill, q)
    BY <2>1 DEF Open
  <2>4. QED
    BY <1>2, <1>3, <2>2, <2>3, OpeningBacks
<1>5. CASE pos.qty # 0 /\ pos.side = fill.direction
  <2> DEFINE M     == MarginFor(fill, q)
             n     == pos.qty + q
             value == pos.qty * e + q * p
             held  == e * pos.qty
             added == p * q
  <2>1. r = Increase(account, fill)
    BY <1>5 DEF ApplyPositionUpdate
  <2>2. OpeningQty(pos, fill.direction, q) = q
    BY <1>5 DEF OpeningQty
  <2>3. M \in Nat /\ M * fill.leverage = added
    BY <1>2, <1>3, <2>2, EvenMarginIsExact
  <2>4. /\ r.position.qty = n /\ r.position.entryPrice = value \div n
        /\ r.position.margin = pos.margin + M
    BY <2>1 DEF Increase
  <2>5. n \in Nat \ {0} /\ value \in Nat /\ value % n = 0
    BY <1>1, <1>2, <1>5 DEF AverageIsEven
  <2>6. value \div n \in Nat /\ (value \div n) * n = value
    <3> HIDE DEF n, value
    <3>1. value \div n \in Int /\ n * (value \div n) = value /\ value \div n \in Nat
      BY <2>5, EvenQuotient
    <3>2. (value \div n) * n = n * (value \div n)
      BY <2>5, <3>1
    <3>3. QED
      BY <3>1, <3>2
  <2>7. value = held + added /\ held \in Int /\ added \in Int
    BY <1>1, <1>2
  <2>8. r.position.entryPrice * r.position.qty = held + added
    BY <2>4, <2>6, <2>7
  <2>9. PICK k \in leverages : pos.margin * k >= held
    BY <1>1, <1>5 DEF Backed
  <2>10. PICK l \in leverages : pos.margin * l <= held
    BY <1>1, <1>5 DEF Backed
  <2>11. M * fill.leverage >= added /\ M * fill.leverage <= added
    <3> HIDE DEF M, added
    <3>1. QED
      BY <2>3, <2>7
  <2>12. k \in Nat /\ l \in Nat /\ fill.leverage \in Nat
    BY <2>9, <2>10
  <2> HIDE DEF M, held, added, n, value, r
  <2>13. \E x \in {k, fill.leverage} : (pos.margin + M) * x >= held + added
    BY <1>1, <2>3, <2>7, <2>9, <2>11, <2>12, MarginsAdd
  <2>14. \E x \in {l, fill.leverage} : (pos.margin + M) * x <= held + added
    BY <1>1, <2>3, <2>7, <2>10, <2>11, <2>12, MarginsAdd
  <2>15. /\ \E x \in leverages : r.position.margin * x >= r.position.entryPrice * r.position.qty
         /\ \E x \in leverages : r.position.margin * x <= r.position.entryPrice * r.position.qty
    BY <2>4, <2>8, <2>13, <2>14
  <2>16. r.position.margin \in Nat /\ r.position.entryPrice \in Nat
    BY <1>1, <2>3, <2>4, <2>6
  <2>17. QED
    BY <2>15, <2>16 DEF Backed, r
<1>6. CASE pos.qty # 0 /\ pos.side # fill.direction /\ q = pos.qty
  <2>1. r.position = NoPosition
    BY <1>6 DEF ApplyPositionUpdate, Close
  <2>2. QED
    BY <2>1 DEF Backed, NoPosition
<1>7. CASE pos.qty # 0 /\ pos.side # fill.direction /\ q < pos.qty
  <2> DEFINE share    == pos.margin * q
             released == share \div pos.qty
             kept     == pos.qty - q
             M        == pos.margin - released
  <2>1. r = Reduce(account, fill)
    BY <1>1, <1>2, <1>7 DEF ApplyPositionUpdate
  <2>2. r.position.qty = kept /\ r.position.entryPrice = e /\ r.position.margin = M
    BY <2>1 DEF Reduce
  <2>3. share % pos.qty = 0 /\ share \in Nat /\ pos.qty \in Nat \ {0}
    BY <1>1, <1>2, <1>7 DEF MarginIsEven
  <2>4. released \in Int /\ pos.qty * released = share
    <3> DEFINE held == pos.qty
    <3>1. share \in Int /\ held \in Nat \ {0} /\ share % held = 0
      BY <2>3
    <3> HIDE DEF share, held
    <3>2. share \div held \in Int /\ held * (share \div held) = share
      BY <3>1, EvenQuotient
    <3>3. QED
      BY <3>2 DEF held
  <2>5. /\ M \in Nat
        /\ \A l \in Nat : /\ pos.margin * l >= e * pos.qty => M * l >= e * kept
                          /\ pos.margin * l <= e * pos.qty => M * l <= e * kept
    <3> HIDE DEF released
    <3>1. q \in Nat /\ q < pos.qty /\ pos.qty * released = pos.margin * q
      BY <1>2, <1>7, <2>4
    <3>2. QED
      BY <1>1, <2>3, <2>4, <3>1, MarginShrinks
  <2>6. /\ \E l \in leverages : pos.margin * l >= e * pos.qty
        /\ \E l \in leverages : pos.margin * l <= e * pos.qty
    BY <1>1, <1>7 DEF Backed
  <2> HIDE DEF M, kept, r
  <2>7. (\E l \in leverages : M * l >= e * kept) /\ (\E l \in leverages : M * l <= e * kept)
    BY <2>5, <2>6
  <2>8. QED
    BY <1>1, <2>2, <2>5, <2>7 DEF Backed, r
<1>8. CASE pos.qty # 0 /\ pos.side # fill.direction /\ q > pos.qty
  <2> DEFINE n == q - pos.qty
  <2>1. r = Flip(account, fill)
    BY <1>1, <1>2, <1>8 DEF ApplyPositionUpdate
  <2>2. OpeningQty(pos, fill.direction, q) = n /\ n \in Nat \ {0}
    BY <1>1, <1>2, <1>8 DEF OpeningQty
  <2>3. r.position.qty = n /\ r.position.entryPrice = p /\ r.position.margin = MarginFor(fill, n)
    BY <2>1 DEF Flip
  <2>4. QED
    BY <1>2, <1>3, <2>2, <2>3, OpeningBacks
<1>9. QED
  BY <1>1, <1>2, <1>4, <1>5, <1>6, <1>7, <1>8

\* The margins of the fills that a step settles come out even.
EvenMargins ==
  \A i \in fillRows' \ fillRows : \A o \in {fills[i].takerOrderId, fills[i].makerOrderId} :
    MarginIsEven(position[AccountOf(o)], Dir(o), fills[i].qty, fills[i].price,
                 Requests[o].leverage)

Leverages(u) == {Requests[o].leverage : o \in PlacedBy(u)}

AllBacked == \A u \in Users, m \in Markets : Backed(position[<<u, m>>], Leverages(u))

\* One order of a fill: its user's position stays backed.
LEMMA AccountAfterBacks ==
  ASSUME IInv, NEW o \in OrderIds, NEW f \in FillMessage,
         NEW leverages \in SUBSET (Nat \ {0}), Requests[o].leverage \in leverages,
         Backed(position[AccountOf(o)], leverages),
         AverageIsEven(position[AccountOf(o)], Dir(o), f.qty, f.price),
         MarginIsEven(position[AccountOf(o)], Dir(o), f.qty, f.price, Requests[o].leverage)
  PROVE  Backed(AccountAfter(o, f).position, leverages)
<1> DEFINE a == AccountOf(o)
           account == [position |-> position[a], available |-> available[a[1]],
                       locked |-> locked[a[1]]]
           side == [direction |-> Dir(o), qty |-> f.qty, price |-> f.price,
                    leverage |-> Requests[o].leverage,
                    reservation |-> orders[o].initialMargin, orderQty |-> Requests[o].qty]
<1>1. a[1] \in Users /\ a \in Accounts
  BY RequestTypes DEF AccountOf
<1>2. account \in Account
  BY <1>1 DEF IInv, TypeOK, DatabaseTypes, Account
<1>3. side \in FillOfOrder /\ side.price \in Nat
  BY RequestTypes, BoundsAssumption DEF IInv, TypeOK, DatabaseTypes, FillMessage, FillOfOrder
<1>4. AccountAfter(o, f) = ApplyPositionUpdate(account, side)
  BY DEF AccountAfter
<1>5. /\ side.leverage \in leverages /\ Backed(account.position, leverages)
      /\ AverageIsEven(account.position, side.direction, side.qty, side.price)
      /\ MarginIsEven(account.position, side.direction, side.qty, side.price, side.leverage)
  OBVIOUS
<1>6. Backed(ApplyPositionUpdate(account, side).position, leverages)
  <2> HIDE DEF account, side
  <2>1. QED
    BY <1>2, <1>3, <1>5, UpdateBacks
<1>7. QED
  BY <1>4, <1>6

\* Leverages are positive numbers, and more of them back no less.
LEMMA BackedByMore ==
  ASSUME NEW pos, NEW few, NEW many, few \subseteq many, Backed(pos, few)
  PROVE  Backed(pos, many)
  BY DEF Backed

LEMMA LeveragesArePositive ==
  ASSUME NEW u
  PROVE  Leverages(u) \in SUBSET (Nat \ {0})
  BY RequestTypes DEF Leverages, PlacedBy, OrdersOf

\* An order that is placed stays placed.
LEMMA PlacedGrows ==
  ASSUME IInv, AInv, [Next]_vars, NEW u
  PROVE  Leverages(u) \subseteq Leverages(u)'
<1>1. SUFFICES ASSUME NEW o \in OrderIds, orders[o].status # "NONE" PROVE orders'[o].status # "NONE"
  BY DEF Leverages, PlacedBy, OrdersOf
<1>2. orders \in [OrderIds -> Row]
  BY DEF IInv, TypeOK, DatabaseTypes, Row
<1>3. CASE LockStill
  BY <1>1, <1>3 DEF LockStill
<1>4. CASE PlaceCommit
  BY <1>1, <1>2, <1>4 DEF PlaceCommit
<1>5. ASSUME NEW i \in 1..Len(fills), Apply(i) PROVE orders'[o].status # "NONE"
  <2> DEFINE t == fills[i].takerOrderId
             m == fills[i].makerOrderId
  <2>1. orders' = [orders EXCEPT ![t] = FilledRow(t, fills[i].qty), ![m] = FilledRow(m, fills[i].qty)]
    BY <1>5 DEF Apply
  <2>2. FilledRow(t, fills[i].qty).status # "NONE" /\ FilledRow(m, fills[i].qty).status # "NONE"
    BY DEF FilledRow, StatusAfter
  <2> HIDE DEF t, m
  <2>3. QED
    BY <1>1, <1>2, <2>1, <2>2
<1>6. ASSUME NEW i \in cancelsInHand, SettleCancel(i, "ok") PROVE orders'[o].status # "NONE"
  <2>1. orders' = [orders EXCEPT ![cancels[i].orderId].status = "CANCELLED"]
    BY <1>6 DEF SettleCancel
  <2>2. QED
    BY <1>1, <1>2, <2>1 DEF Row
<1>7. QED
  BY <1>3, <1>4, <1>5, <1>6, LockSteps

\* A settled fill leaves all positions backed.
LEMMA ApplyBacks ==
  ASSUME IInv, AInv, NEW i \in 1..Len(fills), Apply(i), EvenFill(fills[i]),
         \A o \in {fills[i].takerOrderId, fills[i].makerOrderId} :
           MarginIsEven(position[AccountOf(o)], Dir(o), fills[i].qty, fills[i].price,
                        Requests[o].leverage),
         NEW u \in Users, NEW m \in Markets, Backed(position[<<u, m>>], Leverages(u))
  PROVE  Backed(position'[<<u, m>>], Leverages(u))
<1> DEFINE f == fills[i]
           both == {f.takerOrderId, f.makerOrderId}
<1>1. both \subseteq OrderIds /\ f \in FillMessage
  BY StreamTypes, ElementOfSeq
<1>2. ASSUME NEW o \in both, AccountOf(o) = <<u, m>>
      PROVE  Backed(position'[<<u, m>>], Leverages(u))
  <2>1. Requests[o].userId = u /\ orders[o].status # "NONE" /\ o \in OrderIds
    BY <1>1, <1>2 DEF AccountOf, AInv, OnlyPlaced
  <2>2. Requests[o].leverage \in Leverages(u)
    BY <2>1 DEF Leverages, PlacedBy, OrdersOf
  <2>3. /\ AverageIsEven(position[AccountOf(o)], Dir(o), f.qty, f.price)
        /\ MarginIsEven(position[AccountOf(o)], Dir(o), f.qty, f.price, Requests[o].leverage)
    BY <1>2 DEF EvenFill
  <2>4. Backed(AccountAfter(o, f).position, Leverages(u))
    <3>1. Backed(position[AccountOf(o)], Leverages(u))
      BY <1>2
    <3> HIDE DEF f
    <3>2. QED
      BY <1>1, <2>1, <2>2, <2>3, <3>1, LeveragesArePositive, AccountAfterBacks
  <2>5. position'[AccountOf(o)] = AccountAfter(o, f).position
    BY <1>2, ApplyAccounts
  <2>6. QED
    BY <1>2, <2>4, <2>5
<1>3. ASSUME \A o \in both : AccountOf(o) # <<u, m>> PROVE position'[<<u, m>>] = position[<<u, m>>]
  BY <1>3, ApplyAccounts DEF Accounts
<1>4. QED
  BY <1>2, <1>3

\* So does every step.
LEMMA StepBacks ==
  ASSUME IInv, AInv, AllBacked, [Next]_vars, EvenAverages, EvenMargins
  PROVE  AllBacked'
<1> SUFFICES ASSUME NEW u \in Users, NEW m \in Markets
             PROVE  Backed(position'[<<u, m>>], Leverages(u)')
  BY DEF AllBacked, Backed
<1>1. Backed(position[<<u, m>>], Leverages(u))
  BY DEF AllBacked
<1>2. SUFFICES Backed(position'[<<u, m>>], Leverages(u))
  BY PlacedGrows, BackedByMore
<1>3. CASE LockStill \/ PlaceCommit
  BY <1>1, <1>3 DEF LockStill, PlaceCommit
<1>4. ASSUME NEW i \in 1..Len(fills), Apply(i), i \notin fillRows
      PROVE  Backed(position'[<<u, m>>], Leverages(u))
  <2>1. i \in fillRows' \ fillRows
    BY <1>4 DEF Apply
  <2>2. QED
    BY <1>1, <1>4, <2>1, ApplyBacks DEF EvenAverages, EvenMargins
<1>5. ASSUME NEW i \in cancelsInHand, SettleCancel(i, "ok")
      PROVE  Backed(position'[<<u, m>>], Leverages(u))
  BY <1>1, <1>5 DEF SettleCancel
<1>6. QED
  BY <1>3, <1>4, <1>5, LockSteps

\* There is a highest and a lowest leverage among those of some orders.
LEMMA HighestExists ==
  ASSUME NEW S, IsFiniteSet(S), S # {}, NEW r, \A x \in S : r[x] \in Nat
  PROVE  \E x \in S : \A y \in S : r[y] <= r[x]
<1> DEFINE B == {s \in SUBSET S : s # {} /\ ~\E x \in s : \A y \in s : r[y] <= r[x]}
<1>1. SUFFICES ASSUME B # {} PROVE FALSE
  OBVIOUS
<1>2. PICK s \in B : \A t \in SUBSET s : t # s => t \notin B
  <2>1. B \subseteq SUBSET S /\ Sums!IsFiniteSet(S)
    BY SameSums
  <2> HIDE DEF B
  <2>2. QED
    BY <1>1, <2>1, Sums!SmallestSubset
<1>3. PICK z \in s : TRUE
  BY <1>2
<1>4. CASE s = {z}
  BY <1>2, <1>4
<1>5. CASE s # {z}
  <2>1. s \ {z} # {} /\ s \ {z} \in SUBSET s /\ s \ {z} # s /\ s \in SUBSET S
    BY <1>2, <1>3, <1>5
  <2>2. PICK x \in s \ {z} : \A y \in s \ {z} : r[y] <= r[x]
    BY <1>2, <2>1
  <2>3. r[z] \in Nat /\ \A y \in s : r[y] \in Nat
    BY <1>3, <2>1
  <2>4. CASE r[z] <= r[x]
    BY <1>2, <2>2, <2>3, <2>4
  <2>5. CASE r[x] <= r[z]
    <3>1. \A y \in s : r[y] <= r[z]
      BY <2>2, <2>3, <2>5
    <3>2. QED
      BY <1>2, <1>3, <3>1
  <2>6. QED
    BY <2>2, <2>3, <2>4, <2>5
<1>6. QED
  BY <1>4, <1>5

LEMMA Extremes ==
  ASSUME NEW u, Leverages(u) # {}
  PROVE  LET L == Leverages(u)
         IN  /\ Max(L) \in Nat /\ \A l \in L : l <= Max(L)
             /\ Min(L) \in Nat /\ \A l \in L : Min(L) <= l
<1> DEFINE L == Leverages(u)
           r == [o \in PlacedBy(u) |-> Requests[o].leverage]
<1>1. L \subseteq Nat
  BY LeveragesArePositive
<1>2. \E x \in L : \A y \in L : x >= y
  <2>1. PlacedBy(u) # {} /\ IsFiniteSet(PlacedBy(u))
    BY FiniteAssumption, FS_Subset DEF Leverages, PlacedBy, OrdersOf
  <2>2. \A o \in PlacedBy(u) : r[o] \in Nat
    BY <1>1 DEF Leverages
  <2>3. PICK x \in PlacedBy(u) : \A y \in PlacedBy(u) : r[y] <= r[x]
    <3> HIDE DEF r
    <3>1. QED
      BY <2>1, <2>2, HighestExists
  <2>4. r[x] \in L /\ \A l \in L : r[x] >= l
    BY <1>1, <2>2, <2>3 DEF Leverages
  <2>5. QED
    BY <2>4
<1>3. \E x \in L : \A y \in L : x <= y
  BY <1>1, Sums!Least
<1> HIDE DEF L
<1>4. /\ Max(L) \in L /\ \A l \in L : Max(L) >= l
      /\ Min(L) \in L /\ \A l \in L : Min(L) <= l
  BY <1>2, <1>3 DEF Max, Min
<1>5. /\ Max(L) \in Nat /\ \A l \in L : l <= Max(L)
      /\ Min(L) \in Nat /\ \A l \in L : Min(L) <= l
  BY <1>1, <1>4
<1>6. QED
  BY <1>5 DEF L

\* A position's margin stays what its entry value asks for at the leverages of
\* its owner's orders, in every execution whose averages and margins come out
\* even: through averaging, partial closes and flips, and whatever of it is
\* redelivered, aborted, unanswered or cut short.
THEOREM MarginsMatchEntry == Spec /\ [][EvenAverages /\ EvenMargins]_vars => []MarginMatchesEntry
<1>1. Init => AllBacked
  BY DEF Init, AllBacked, Backed, NoPosition, Accounts
<1>2. IInv /\ AInv /\ AllBacked /\ [Next]_vars /\ [EvenAverages /\ EvenMargins]_vars => AllBacked'
  <2> SUFFICES ASSUME IInv, AInv, AllBacked, [Next]_vars, [EvenAverages /\ EvenMargins]_vars
               PROVE  AllBacked'
    OBVIOUS
  <2>1. EvenAverages /\ EvenMargins
    <3>1. CASE UNCHANGED vars
      BY <3>1 DEF EvenAverages, EvenMargins, vars, database
    <3>2. QED
      BY <3>1
  <2>2. QED
    BY <2>1, StepBacks
<1>3. IInv /\ AllBacked => MarginMatchesEntry
  <2> SUFFICES ASSUME IInv, AllBacked, NEW u \in Users, NEW m \in Markets, position[<<u, m>>].qty > 0
               PROVE  LET pos == position[<<u, m>>]
                          L   == Leverages(u)
                      IN  /\ pos.margin * Max(L) >= pos.entryPrice * pos.qty
                          /\ pos.margin * Min(L) <= pos.entryPrice * pos.qty
    BY DEF MarginMatchesEntry, Leverages
  <2> DEFINE M     == position[<<u, m>>].margin
             value == position[<<u, m>>].entryPrice * position[<<u, m>>].qty
             L     == Leverages(u)
  <2>1. /\ M \in Nat
        /\ \E l \in L : M * l >= value
        /\ \E l \in L : M * l <= value
    BY DEF AllBacked, Backed
  <2>2. value \in Int
    <3>1. position[<<u, m>>] \in Position
      BY DEF IInv, TypeOK, DatabaseTypes, Accounts
    <3>2. position[<<u, m>>].qty \in Nat /\ position[<<u, m>>].entryPrice \in Int
      BY <3>1 DEF Position, NoPosition
    <3>3. QED
      BY <3>2
  <2>3. PICK k \in L : M * k >= value
    BY <2>1
  <2>4. PICK l \in L : M * l <= value
    BY <2>1
  <2>5. L # {} /\ L \subseteq Nat
    BY <2>3, LeveragesArePositive
  <2>6. /\ Max(L) \in Nat /\ \A x \in L : x <= Max(L)
        /\ Min(L) \in Nat /\ \A x \in L : Min(L) <= x
    BY <2>5, Extremes
  <2> HIDE DEF M, value, L
  <2>7. M * k <= M * Max(L) /\ M * k \in Int /\ M * Max(L) \in Int
    BY <2>1, <2>3, <2>5, <2>6, TimesGrows
  <2>8. M * Min(L) <= M * l /\ M * l \in Int /\ M * Min(L) \in Int
    BY <2>1, <2>4, <2>5, <2>6, TimesGrows
  <2>9. M * Max(L) >= value /\ M * Min(L) <= value
    BY <2>2, <2>3, <2>4, <2>7, <2>8
  <2>10. QED
    BY <2>9 DEF M, value, L
<1>4. QED
  BY <1>1, <1>2, <1>3, InitIInv, InitAInv, Inductive, AInvKept, PTL DEF Spec

-----------------------------------------------------------------------------
(* Liquidation next to settlement. *)

RowOfPosition == [account : Accounts, id : Nat, position : Position]
OfSweep       == [todo : SUBSET RowOfPosition, due : SUBSET RowOfPosition]

\* The sweeps hold rows as they were read.
LiquidatorTypes ==
  /\ rowId \in [Accounts -> Nat]
  /\ sweeps \in [Sweeps -> OfSweep]
  /\ liquidated \subseteq [read : RowOfPosition, deleted : RowOfPosition]
  /\ IsFiniteSet(liquidated)

\* A row that was deleted is not there any more: the account has none, or one
\* with a later id.
DeletedOnce ==
  \A l \in liquidated :
    LET a == l.deleted.account IN
    /\ l.read.account = a
    /\ l.deleted.id < rowId[a] \/ (l.deleted.id = rowId[a] /\ ~HasPosition(a))

LInv == IInv /\ LiquidatorTypes /\ DeletedOnce

\* A step of settlement, of which the liquidator sees only new rows.
LEMMA SettlesKeeps ==
  ASSUME LInv, IInv', [Next]_vars, UNCHANGED liquidator,
         \/ rowId' = [a \in Accounts |-> IF HasPosition(a)' /\ ~HasPosition(a)
                                          THEN rowId[a] + 1 ELSE rowId[a]]
         \/ UNCHANGED <<rowId, position>>
  PROVE  LInv'
<1>1. rowId' \in [Accounts -> Nat]
  BY DEF LInv, LiquidatorTypes
<1>2. LiquidatorTypes'
  BY <1>1 DEF LInv, LiquidatorTypes, liquidator
<1>3. DeletedOnce'
  <2>1. SUFFICES ASSUME NEW l \in liquidated
                 PROVE  LET a == l.deleted.account IN
                        /\ l.read.account = a
                        /\ l.deleted.id < rowId'[a] \/ (l.deleted.id = rowId'[a] /\ ~HasPosition(a)')
    BY DEF DeletedOnce, liquidator
  <2> DEFINE a == l.deleted.account
  <2>2. a \in Accounts /\ rowId[a] \in Nat /\ l.deleted.id \in Nat
    BY DEF LInv, LiquidatorTypes, RowOfPosition
  <2>3. l.read.account = a /\ (l.deleted.id < rowId[a] \/ (l.deleted.id = rowId[a] /\ ~HasPosition(a)))
    BY DEF LInv, DeletedOnce
  <2>4. CASE rowId' = [b \in Accounts |-> IF HasPosition(b)' /\ ~HasPosition(b)
                                          THEN rowId[b] + 1 ELSE rowId[b]]
    <3>1. CASE HasPosition(a)' /\ ~HasPosition(a)
      BY <2>2, <2>3, <2>4, <3>1
    <3>2. CASE ~(HasPosition(a)' /\ ~HasPosition(a))
      BY <2>2, <2>3, <2>4, <3>2
    <3>3. QED
      BY <3>1, <3>2
  <2>5. CASE UNCHANGED <<rowId, position>>
    BY <2>3, <2>5 DEF HasPosition
  <2>6. QED
    BY <2>4, <2>5
<1>4. QED
  BY <1>2, <1>3 DEF LInv

\* A step of a sweep that leaves the database alone.
LEMMA SweepKeeps ==
  ASSUME LInv, IInv', UNCHANGED <<position, rowId, liquidated>>, sweeps' \in [Sweeps -> OfSweep]
  PROVE  LInv'
  BY DEF LInv, LiquidatorTypes, DeletedOnce, HasPosition

\* What a sweep may go on with.
LEMMA SweepTypes ==
  ASSUME LInv
  PROVE  /\ Idle \in OfSweep /\ Rows \subseteq RowOfPosition
         /\ \A s \in Sweeps : sweeps[s] \in OfSweep
  <1>1. Rows \subseteq RowOfPosition
    BY DEF Rows, RowOfPosition, LInv, LiquidatorTypes, IInv, TypeOK, DatabaseTypes
  <1>2. QED
    BY <1>1 DEF Idle, OfSweep, LInv, LiquidatorTypes

\* The row a liquidation deletes is the one its history says it has deleted.
LEMMA DeletionOfRow ==
  ASSUME LInv, NEW row \in RowOfPosition, StillThere(row)
  PROVE  LET a == row.account
             l == [read |-> row, deleted |-> [account |-> a, id |-> rowId[a], position |-> position[a]]]
         IN  Deletion(row) = {l} /\ l \notin liquidated /\ l.deleted \in RowOfPosition
<1> DEFINE a == row.account
           d == [account |-> a, id |-> rowId[a], position |-> position[a]]
           l == [read |-> row, deleted |-> d]
<1>1. a \in Accounts /\ HasPosition(a) /\ rowId[a] \in Nat
  BY DEF RowOfPosition, StillThere, LInv, LiquidatorTypes
<1>2. d \in RowOfPosition
  BY <1>1 DEF RowOfPosition, LInv, IInv, TypeOK, DatabaseTypes
<1>3. {r \in Rows : r.account = a} = {d}
  BY <1>1 DEF Rows
<1>4. Deletion(row) = {l}
  BY <1>3 DEF Deletion
<1>5. l \notin liquidated
  <2>1. \A k \in liquidated : k.deleted.account = a => k.deleted.id < rowId[a]
    BY <1>1 DEF LInv, DeletedOnce
  <2>2. l.deleted.account = a /\ l.deleted.id = rowId[a]
    OBVIOUS
  <2>3. QED
    BY <1>1, <2>1, <2>2
<1>6. QED
  BY <1>2, <1>4, <1>5

\* Nothing of settlement's but the position, what is locked and the count of
\* failed calls changes.
LEMMA SettlementTypesKept ==
  ASSUME IInv, UNCHANGED <<orders, available, fillRows, placing, engine, fillsLoop, cancelsLoop,
                           crashes, history>>,
         position' \in [Accounts -> Position], locked' \in [Users -> Int],
         aborts' \in 0..MaxAborts
  PROVE  IInv'
  BY DEF IInv, TypeOK, DatabaseTypes, EngineTypes, FillsLoopTypes, CancelsLoopTypes,
     FillsMatchOrders, engine, fillsLoop, cancelsLoop, history

\* The bound on failing calls is kept.
LEMMA FailsBounded ==
  ASSUME IInv, NEW outcome, Fails(outcome)
  PROVE  aborts' \in 0..MaxAborts
  BY BoundsAssumption DEF Fails, IInv, TypeOK, DatabaseTypes

\* A liquidation takes the margin that was read and the row that is there.
LEMMA LiquidateKeeps ==
  ASSUME LInv, NEW s \in Sweeps, NEW row \in sweeps[s].due, NEW outcome \in Outcomes,
         Liquidate(s, row, outcome)
  PROVE  LInv'
<1> DEFINE u == row.account[1]
           a == row.account
<1>1. row \in RowOfPosition /\ u \in Users /\ a \in Accounts /\ row.position.margin \in Int
  BY SweepTypes DEF OfSweep, RowOfPosition, Accounts, Position, NoPosition
<1>2. position \in [Accounts -> Position] /\ locked \in [Users -> Int] /\ NoPosition \in Position
  BY DEF LInv, IInv, TypeOK, DatabaseTypes, Position
<1>3. IInv'
  <2>1. position' \in [Accounts -> Position] /\ locked' \in [Users -> Int]
    BY <1>1, <1>2 DEF Liquidate
  <2>2. aborts' \in 0..MaxAborts
    BY FailsBounded DEF Liquidate, LInv
  <2>3. QED
    BY <2>1, <2>2, SettlementTypesKept DEF Liquidate, LInv
<1>4. sweeps' \in [Sweeps -> OfSweep]
  <2>1. Idle \in OfSweep /\ [sweeps[s] EXCEPT !.due = {}] \in OfSweep
    BY SweepTypes DEF OfSweep
  <2>2. QED
    BY <2>1 DEF Liquidate, LInv, LiquidatorTypes
<1>5. CASE outcome = "aborted"
  <2>1. UNCHANGED <<position, rowId, liquidated>>
    BY <1>5 DEF Liquidate
  <2>2. QED
    BY <1>3, <1>4, <2>1, SweepKeeps
<1>6. CASE outcome # "aborted"
  <2> DEFINE d == [account |-> a, id |-> rowId[a], position |-> position[a]]
             l == [read |-> row, deleted |-> d]
  <2>1. StillThere(row) /\ liquidated' = liquidated \cup Deletion(row) /\ rowId' = rowId
        /\ position' = [position EXCEPT ![a] = NoPosition]
    BY <1>6 DEF Liquidate
  <2>2. Deletion(row) = {l} /\ d \in RowOfPosition
    BY <1>1, <2>1, DeletionOfRow
  <2>3. liquidated' = liquidated \cup {l} /\ l \in [read : RowOfPosition, deleted : RowOfPosition]
    BY <1>1, <2>1, <2>2
  <2>4. LiquidatorTypes'
    <3>1. IsFiniteSet(liquidated')
      <4>1. IsFiniteSet(liquidated)
        BY DEF LInv, LiquidatorTypes
      <4> HIDE DEF l
      <4>2. QED
        BY <2>3, <4>1, FS_AddElement
    <3>2. liquidated' \subseteq [read : RowOfPosition, deleted : RowOfPosition]
      BY <2>3 DEF LInv, LiquidatorTypes
    <3>3. QED
      BY <1>4, <2>1, <3>1, <3>2 DEF LInv, LiquidatorTypes
  <2>5. ~HasPosition(a)' /\ \A b \in Accounts \ {a} : HasPosition(b)' = HasPosition(b)
    BY <1>1, <1>2, <2>1 DEF HasPosition, NoPosition
  <2>6. DeletedOnce'
    <3>1. ASSUME NEW k \in liquidated
          PROVE  LET b == k.deleted.account IN
                 /\ k.read.account = b
                 /\ k.deleted.id < rowId[b] \/ (k.deleted.id = rowId[b] /\ ~HasPosition(b)')
      <4>1. k.deleted.account \in Accounts
        BY DEF LInv, LiquidatorTypes, RowOfPosition
      <4>2. QED
        BY <2>5, <4>1 DEF LInv, DeletedOnce
    <3>2. l.read.account = a /\ l.deleted.account = a /\ l.deleted.id = rowId[a]
      OBVIOUS
    <3> HIDE DEF l
    <3>3. QED
      BY <2>1, <2>3, <2>5, <3>1, <3>2 DEF DeletedOnce
  <2>7. QED
    BY <1>3, <2>4, <2>6 DEF LInv
<1>7. QED
  BY <1>5, <1>6

\* No step of the exchange breaks the invariant.
LEMMA LiquidationInductive == LInv /\ [LiquidationNext]_allVars => LInv'
<1> SUFFICES ASSUME LInv, [LiquidationNext]_allVars PROVE LInv'
  OBVIOUS
<1> USE DEF LInv
<1>1. CASE Settles
  <2>1. Next
    BY <1>1 DEF Settles, Next
  <2>2. QED
    BY <1>1, <2>1, Inductive, SettlesKeeps DEF Settles
<1>2. CASE Mark
  BY <1>2, Inductive, SweepKeeps DEF Mark, LiquidatorTypes, vars, database
<1>3. CASE WorkerRestarts
  <2>1. IInv' /\ UNCHANGED <<position, rowId, liquidated>>
    BY <1>3, Inductive DEF WorkerRestarts, Next, Restart, database
  <2>2. sweeps' \in [Sweeps -> OfSweep]
    BY <1>3, SweepTypes DEF WorkerRestarts
  <2>3. QED
    BY <2>1, <2>2, SweepKeeps
<1>4. ASSUME NEW s \in Sweeps, Sweep(s) PROVE LInv'
  <2>1. CASE StartSweep(s)
    <3>1. [sweeps[s] EXCEPT !.todo = Rows] \in OfSweep
      BY SweepTypes DEF OfSweep
    <3>2. sweeps' \in [Sweeps -> OfSweep]
      BY <2>1, <3>1 DEF StartSweep, LiquidatorTypes
    <3>3. QED
      BY <2>1, <3>2, Inductive, SweepKeeps DEF StartSweep, vars, database
  <2>2. ASSUME NEW row \in sweeps[s].todo, Look(s, row) PROVE LInv'
    <3>1. /\ [todo |-> sweeps[s].todo \ {row}, due |-> {row}] \in OfSweep
          /\ [todo |-> sweeps[s].todo \ {row}, due |-> {}] \in OfSweep
      BY SweepTypes DEF OfSweep
    <3>2. sweeps' \in [Sweeps -> OfSweep]
      BY <2>2, <3>1 DEF Look, LiquidatorTypes
    <3>3. QED
      BY <2>2, <3>2, Inductive, SweepKeeps DEF Look, vars, database
  <2>3. ASSUME NEW row \in sweeps[s].due, AlreadyGone(s, row) PROVE LInv'
    <3>1. sweeps' \in [Sweeps -> OfSweep]
      BY <2>3, SweepTypes DEF AlreadyGone, LiquidatorTypes
    <3>2. QED
      BY <2>3, <3>1, Inductive, SweepKeeps DEF AlreadyGone, vars, database
  <2>4. ASSUME NEW row \in sweeps[s].due, NEW outcome \in Outcomes, Liquidate(s, row, outcome)
        PROVE  LInv'
    BY <2>4, LiquidateKeeps
  <2>5. QED
    BY <1>4, <2>1, <2>2, <2>3, <2>4 DEF Sweep
<1>5. ASSUME NEW s \in Sweeps, LookFails(s) PROVE LInv'
  <2>1. sweeps' \in [Sweeps -> OfSweep]
    BY <1>5, SweepTypes DEF LookFails, LiquidatorTypes
  <2>2. aborts' \in 0..MaxAborts
    BY <1>5, FailsBounded DEF LookFails
  <2>3. UNCHANGED <<position, locked>>
    BY <1>5 DEF LookFails, database
  <2>4. IInv'
    BY <1>5, <2>2, <2>3, SettlementTypesKept
       DEF LookFails, database, IInv, TypeOK, DatabaseTypes
  <2>5. QED
    BY <1>5, <2>1, <2>3, <2>4, SweepKeeps DEF LookFails
<1>6. CASE UNCHANGED allVars
  BY <1>6, Inductive, SweepKeeps DEF allVars, liquidator, LiquidatorTypes, vars, database
<1>7. QED
  BY <1>1, <1>2, <1>3, <1>4, <1>5, <1>6 DEF LiquidationNext

\* Initially nothing was liquidated.
LEMMA InitLInv == LiquidationInit => LInv
<1> SUFFICES ASSUME LiquidationInit PROVE LInv
  OBVIOUS
<1>1. Idle \in OfSweep
  BY DEF Idle, OfSweep
<1>2. LiquidatorTypes /\ DeletedOnce
  BY <1>1, FS_EmptySet DEF LiquidationInit, LiquidatorTypes, DeletedOnce
<1>3. QED
  BY <1>2, InitIInv DEF LInv, LiquidationInit

\* What the margins taken so far came to, and what the deleted positions had
\* cost.
LEMMA LiquidatedTypes ==
  ASSUME LInv, NEW u
  PROVE  /\ IsFiniteSet(LiquidationsOf(u))
         /\ [l \in LiquidationsOf(u) |-> l.read.position.margin] \in [LiquidationsOf(u) -> Int]
         /\ [l \in LiquidationsOf(u) |-> l.deleted.position.margin] \in [LiquidationsOf(u) -> Int]
         /\ [l \in LiquidationsOf(u) |-> EntryValue(l.deleted.position)] \in [LiquidationsOf(u) -> Int]
         /\ MarginRead(u) \in Int /\ MarginDeleted(u) \in Int /\ ValueDeleted(u) \in Int
<1> DEFINE S == LiquidationsOf(u)
           f == [l \in S |-> l.read.position.margin]
           g == [l \in S |-> l.deleted.position.margin]
           h == [l \in S |-> EntryValue(l.deleted.position)]
<1>1. S \subseteq liquidated /\ IsFiniteSet(liquidated)
  BY DEF LiquidationsOf, LInv, LiquidatorTypes
<1>2. IsFiniteSet(S)
  BY <1>1, FS_Subset
<1>3. \A l \in S : l.read.position \in Position /\ l.deleted.position \in Position
  BY <1>1 DEF LInv, LiquidatorTypes, RowOfPosition
<1>4. \A l \in S : /\ l.read.position.margin \in Int /\ l.deleted.position.margin \in Int
                   /\ EntryValue(l.deleted.position) \in Int
  <2>1. \A pos \in Position : pos.margin \in Int
    BY DEF Position, NoPosition
  <2>2. QED
    BY <1>3, <2>1, EntryValueIsSigned
<1>5. f \in [S -> Int] /\ g \in [S -> Int] /\ h \in [S -> Int]
  BY <1>4
<1>6. SumFunction(f) \in Int /\ SumFunction(g) \in Int /\ SumFunction(h) \in Int
  <2> HIDE DEF f, g, h, S
  <2>1. QED
    BY <1>2, <1>5, TotalInt
<1>7. QED
  BY <1>2, <1>5, <1>6 DEF MarginRead, MarginDeleted, ValueDeleted

\* A liquidation more counts for its user.
LEMMA LiquidatedGrows ==
  ASSUME LInv, LInv', NEW l, l \notin liquidated, liquidated' = liquidated \cup {l}, NEW u
  PROVE  /\ l.read.account[1] = u
              => /\ MarginRead(u)' = MarginRead(u) + l.read.position.margin
                 /\ MarginDeleted(u)' = MarginDeleted(u) + l.deleted.position.margin
                 /\ ValueDeleted(u)' = ValueDeleted(u) + EntryValue(l.deleted.position)
         /\ l.read.account[1] # u
              => /\ MarginRead(u)' = MarginRead(u)
                 /\ MarginDeleted(u)' = MarginDeleted(u)
                 /\ ValueDeleted(u)' = ValueDeleted(u)
<1> DEFINE S == LiquidationsOf(u)
           T == {k \in liquidated' : k.read.account[1] = u}
           f == [k \in S |-> k.read.position.margin]
           g == [k \in S |-> k.deleted.position.margin]
           h == [k \in S |-> EntryValue(k.deleted.position)]
           f1 == [k \in T |-> k.read.position.margin]
           g1 == [k \in T |-> k.deleted.position.margin]
           h1 == [k \in T |-> EntryValue(k.deleted.position)]
<1>1. /\ MarginRead(u)' = SumFunction(f1) /\ MarginDeleted(u)' = SumFunction(g1)
      /\ ValueDeleted(u)' = SumFunction(h1)
  BY DEF MarginRead, MarginDeleted, ValueDeleted, LiquidationsOf
<1>2. /\ MarginRead(u) = SumFunction(f) /\ MarginDeleted(u) = SumFunction(g)
      /\ ValueDeleted(u) = SumFunction(h)
  BY DEF MarginRead, MarginDeleted, ValueDeleted
<1>3. IsFiniteSet(S) /\ f \in [S -> Int] /\ g \in [S -> Int] /\ h \in [S -> Int]
  BY LiquidatedTypes
<1>4. CASE l.read.account[1] = u
  <2>1. T = S \cup {l} /\ l \notin S
    BY <1>4 DEF LiquidationsOf
  <2>2. l \in liquidated'
    OBVIOUS
  <2>3. l.read.position \in Position /\ l.deleted.position \in Position
    BY <2>2 DEF LInv, LiquidatorTypes, RowOfPosition
  <2>4. l.read.position.margin \in Int /\ l.deleted.position.margin \in Int
        /\ EntryValue(l.deleted.position) \in Int
    BY <2>3, EntryValueIsSigned DEF Position, NoPosition
  <2>5. f1 \in [S \cup {l} -> Int] /\ g1 \in [S \cup {l} -> Int] /\ h1 \in [S \cup {l} -> Int]
    BY <1>3, <2>1, <2>4
  <2>6. \A k \in S : f1[k] = f[k] /\ g1[k] = g[k] /\ h1[k] = h[k]
    BY <2>1
  <2>7. f1[l] = l.read.position.margin /\ g1[l] = l.deleted.position.margin
        /\ h1[l] = EntryValue(l.deleted.position)
    BY <2>1
  <2> HIDE DEF f, g, h, f1, g1, h1, S, T
  <2>8. SumFunction(f1) = SumFunction(f) + f1[l]
    BY <1>3, <2>1, <2>5, <2>6, TotalExtend
  <2>9. SumFunction(g1) = SumFunction(g) + g1[l]
    BY <1>3, <2>1, <2>5, <2>6, TotalExtend
  <2>10. SumFunction(h1) = SumFunction(h) + h1[l]
    BY <1>3, <2>1, <2>5, <2>6, TotalExtend
  <2>11. QED
    BY <1>1, <1>2, <1>4, <2>7, <2>8, <2>9, <2>10
<1>5. CASE l.read.account[1] # u
  <2>1. T = S
    BY <1>5 DEF LiquidationsOf
  <2>2. QED
    BY <1>1, <1>2, <1>5, <2>1
<1>6. QED
  BY <1>4, <1>5

\* The sums of a liquidation.
LEMMA LiquidationBalance ==
  ASSUME NEW a \in Int, NEW l \in Int, NEW d \in Int, NEW c \in Int, NEW e \in Int,
         NEW v \in Int, NEW r \in Int, NEW margin \in Int, NEW cost \in Int
  PROVE  (a + (l - margin) - d - c - (e - cost)) - (v + cost) + (r + margin)
           = (a + l - d - c - e) - v + r
  OBVIOUS

\* A liquidation takes from its user the margin it read, and with the position
\* what the position had cost.
LEMMA LiquidateCosts ==
  ASSUME LInv, LInv', NEW s \in Sweeps, NEW row \in sweeps[s].due, NEW outcome \in Outcomes,
         Liquidate(s, row, outcome), NEW u \in Users
  PROVE  Drift(u)' - ValueDeleted(u)' + MarginRead(u)' = Drift(u) - ValueDeleted(u) + MarginRead(u)
<1>1. /\ Cash(u) \in Int /\ AtEntry(u) \in Int /\ available[u] \in Int /\ locked[u] \in Int
      /\ Deposit \in Int /\ MarginRead(u) \in Int /\ ValueDeleted(u) \in Int
  BY MoneyTypes, LiquidatedTypes DEF LInv
<1>2. Cash(u)' = Cash(u) /\ available' = available
  BY DEF Liquidate, Cash, Volume, OrderFills, OrdersOf, engine
<1>3. CASE outcome = "aborted"
  <2>1. UNCHANGED <<locked, position, liquidated>>
    BY <1>3 DEF Liquidate
  <2>2. QED
    BY <1>2, <2>1 DEF Drift, AtEntry, ValueDeleted, MarginRead, LiquidationsOf
<1>4. CASE outcome # "aborted"
  <2> DEFINE a == row.account
             d == [account |-> a, id |-> rowId[a], position |-> position[a]]
             l == [read |-> row, deleted |-> d]
  <2>1. /\ row \in RowOfPosition /\ a \in Accounts /\ a[1] \in Users /\ a[2] \in Markets
        /\ a = <<a[1], a[2]>> /\ row.position.margin \in Int
    BY SweepTypes DEF OfSweep, RowOfPosition, Accounts, Position, NoPosition
  <2>2. /\ StillThere(row) /\ liquidated' = liquidated \cup Deletion(row)
        /\ position' = [position EXCEPT ![a] = NoPosition]
        /\ locked' = [locked EXCEPT ![a[1]] = @ - row.position.margin]
    BY <1>4 DEF Liquidate
  <2>3. liquidated' = liquidated \cup {l} /\ l \notin liquidated
    BY <2>1, <2>2, DeletionOfRow
  <2>4. /\ l.read.account[1] = a[1] /\ l.read.position.margin = row.position.margin
        /\ EntryValue(l.deleted.position) = EntryValue(position[a])
    OBVIOUS
  <2>5. position \in [Accounts -> Position] /\ position' \in [Accounts -> Position]
        /\ locked \in [Users -> Int]
    BY DEF LInv, IInv, TypeOK, DatabaseTypes
  <2>6. EntryValue(position[a]) \in Int
    BY <2>1, <2>5, EntryValueIsSigned
  <2>7. CASE u = a[1]
    <3>1. locked'[u] = locked[u] - row.position.margin
      BY <2>2, <2>5, <2>7
    <3>2. AtEntry(u)' = AtEntry(u) + (EntryValue(position'[a]) - EntryValue(position[a]))
      <4>1. \A n \in Markets \ {a[2]} : position'[<<u, n>>] = position[<<u, n>>]
        BY <2>1, <2>2, <2>5, <2>7 DEF Accounts
      <4>2. <<u, a[2]>> = a
        BY <2>1, <2>7
      <4>3. QED
        BY <2>1, <2>5, <4>1, <4>2, AtEntryFollows
    <3>3. EntryValue(position'[a]) = 0
      BY <2>1, <2>2, <2>5 DEF EntryValue, Net, NoPosition
    <3>4. MarginRead(u)' = MarginRead(u) + row.position.margin
          /\ ValueDeleted(u)' = ValueDeleted(u) + EntryValue(position[a])
      <4> HIDE DEF l
      <4>1. QED
        BY <2>3, <2>4, <2>7, LiquidatedGrows
    <3>5. AtEntry(u)' = AtEntry(u) - EntryValue(position[a])
      BY <1>1, <2>6, <3>2, <3>3
    <3>6. QED
      BY <1>1, <1>2, <2>1, <2>6, <3>1, <3>4, <3>5, LiquidationBalance DEF Drift
  <2>8. CASE u # a[1]
    <3>1. locked'[u] = locked[u]
      BY <2>1, <2>2, <2>5, <2>8
    <3>2. AtEntry(u)' = AtEntry(u)
      <4>1. \A n \in Markets : position'[<<u, n>>] = position[<<u, n>>]
        BY <2>1, <2>2, <2>5, <2>8 DEF Accounts
      <4>2. QED
        BY <4>1 DEF AtEntry
    <3>3. MarginRead(u)' = MarginRead(u) /\ ValueDeleted(u)' = ValueDeleted(u)
      <4> HIDE DEF l
      <4>1. QED
        BY <2>3, <2>4, <2>8, LiquidatedGrows
    <3>4. QED
      BY <1>2, <3>1, <3>2, <3>3 DEF Drift
  <2>9. QED
    BY <2>7, <2>8
<1>5. QED
  BY <1>3, <1>4

\* To a user's money a step of the exchange is one of settlement, one of a
\* sweep that leaves the database alone, or a liquidation.
LEMMA LiquidationSteps ==
  ASSUME [LiquidationNext]_allVars
  PROVE  \/ [Next]_vars /\ UNCHANGED liquidated
         \/ UNCHANGED <<database, placing, engine, fillsLoop, cancelsLoop, history, liquidated>>
         \/ \E s \in Sweeps : \E row \in sweeps[s].due, outcome \in Outcomes :
              Liquidate(s, row, outcome)
<1>1. CASE Settles
  BY <1>1 DEF Settles, Next, liquidator
<1>2. CASE WorkerRestarts
  BY <1>2 DEF WorkerRestarts, Next
<1>3. CASE Mark
  BY <1>3 DEF Mark, vars
<1>4. ASSUME NEW s \in Sweeps, Sweep(s)
      PROVE  \/ [Next]_vars /\ UNCHANGED liquidated
             \/ \E row \in sweeps[s].due, outcome \in Outcomes : Liquidate(s, row, outcome)
  BY <1>4 DEF Sweep, StartSweep, Look, AlreadyGone
<1>5. ASSUME NEW s \in Sweeps, LookFails(s)
      PROVE  UNCHANGED <<database, placing, engine, fillsLoop, cancelsLoop, history, liquidated>>
  BY <1>5 DEF LookFails
<1>6. CASE UNCHANGED allVars
  BY <1>6 DEF allVars, liquidator
<1>7. QED
  BY <1>1, <1>2, <1>3, <1>4, <1>5, <1>6 DEF LiquidationNext

\* A liquidation costs its user the margin its sweep had read, once, and
\* nothing else, in every execution whose averages come out even: however
\* sweeps overlap with each other and with settlement.
THEOREM LiquidationsCost == LiquidationSpec /\ [][EvenAverages]_allVars => []LiquidationCosts
<1> DEFINE Owed(u) == Drift(u) - ValueDeleted(u) + MarginRead(u)
           Balanced == \A u \in Users : Owed(u) = 0
<1>1. LiquidationInit => Balanced
  <2> SUFFICES ASSUME LiquidationInit, NEW u \in Users PROVE Owed(u) = 0
    OBVIOUS
  <2> DEFINE f == [l \in LiquidationsOf(u) |-> l.read.position.margin]
             h == [l \in LiquidationsOf(u) |-> EntryValue(l.deleted.position)]
  <2>1. LiquidationsOf(u) = {} /\ Drift(u) = 0
    BY InitDrift DEF LiquidationInit, LiquidationsOf
  <2>2. f \in [{} -> Int] /\ h \in [{} -> Int] /\ \A l \in {} : f[l] = 0 /\ h[l] = 0
    BY <2>1
  <2>3. SumFunction(f) = 0 /\ SumFunction(h) = 0
    <3> HIDE DEF f, h
    <3>1. QED
      BY <2>2, FS_EmptySet, TotalZero
  <2>4. MarginRead(u) = 0 /\ ValueDeleted(u) = 0
    BY <2>3 DEF MarginRead, ValueDeleted
  <2>5. QED
    BY <2>1, <2>4
<1>2. LInv /\ LInv' /\ Balanced /\ [LiquidationNext]_allVars /\ [EvenAverages]_allVars => Balanced'
  <2> SUFFICES ASSUME LInv, LInv', Balanced, [LiquidationNext]_allVars, [EvenAverages]_allVars,
                      NEW u \in Users
               PROVE  Owed(u)' = Owed(u)
    OBVIOUS
  <2>1. EvenAverages
    BY DEF EvenAverages, allVars, vars, database
  <2>2. ASSUME [Next]_vars, UNCHANGED liquidated PROVE Owed(u)' = Owed(u)
    <3>1. Drift(u)' = Drift(u)
      BY <2>1, <2>2, StepConserves DEF LInv
    <3>2. QED
      BY <2>2, <3>1 DEF ValueDeleted, MarginRead, LiquidationsOf
  <2>3. ASSUME UNCHANGED <<database, placing, engine, fillsLoop, cancelsLoop, history, liquidated>>
        PROVE  Owed(u)' = Owed(u)
    BY <2>3 DEF database, engine, Drift, Cash, Volume, OrderFills, OrdersOf, AtEntry, ValueDeleted,
       MarginRead, LiquidationsOf
  <2>4. ASSUME NEW s \in Sweeps, NEW row \in sweeps[s].due, NEW outcome \in Outcomes,
               Liquidate(s, row, outcome)
        PROVE  Owed(u)' = Owed(u)
    BY <2>4, LiquidateCosts
  <2>5. QED
    BY <2>2, <2>3, <2>4, LiquidationSteps
<1>3. LInv /\ Balanced => LiquidationCosts
  <2> SUFFICES ASSUME LInv, Balanced, NEW u \in Users
               PROVE  available[u] + locked[u]
                        = Deposit + Cash(u) + AtEntry(u) + ValueDeleted(u) - MarginRead(u)
    BY DEF LiquidationCosts
  <2>1. Drift(u) - ValueDeleted(u) + MarginRead(u) = 0
    OBVIOUS
  <2>2. QED
    BY <2>1, MoneyTypes, LiquidatedTypes DEF Drift, LInv
<1>4. QED
  <2> HIDE DEF Balanced
  <2>1. QED
    BY <1>1, <1>2, <1>3, InitLInv, LiquidationInductive, PTL DEF LiquidationSpec
\* Nothing a sweep does concerns orders, fills or cancels.
LEMMA LiquidationOrders ==
  ASSUME LInv, AInv, Reserves, [LiquidationNext]_allVars
  PROVE  AInv' /\ Reserves'
<1>1. CASE [Next]_vars
  BY <1>1, AInvKept, ReservesKept DEF LInv
<1>2. ASSUME UNCHANGED <<orders, fillRows, placing, engine, fillsLoop, cancelsLoop, history>>
      PROVE  AInv' /\ Reserves'
  <2>1. Quiet
    BY <1>2 DEF Quiet, engine, cancelsLoop, history
  <2>2. QED
    BY <1>2, <2>1, QuietKeeps DEF Reserves
<1>3. ASSUME NEW s \in Sweeps, NEW row \in sweeps[s].due, NEW outcome \in Outcomes,
             Liquidate(s, row, outcome)
      PROVE  AInv' /\ Reserves'
  BY <1>2, <1>3 DEF Liquidate
<1>4. QED
  BY <1>1, <1>2, <1>3, LiquidationSteps DEF database

\* The sums of a liquidation, of what is locked.
LEMMA StaleBalance ==
  ASSUME NEW l \in Int, NEW m \in Int, NEW k \in Int, NEW d \in Int, NEW r \in Int,
         NEW was \in Int, NEW is \in Int
  PROVE  ((l - was) - (m - is) - k) - (d + is) + (r + was) = (l - m - k) - d + r
  OBVIOUS

\* A liquidation unlocks the margin it read, and takes the margin of the
\* position that is there out of the margins.
LEMMA LiquidateLocks ==
  ASSUME LInv, LInv', NEW s \in Sweeps, NEW row \in sweeps[s].due, NEW outcome \in Outcomes,
         Liquidate(s, row, outcome), NEW u \in Users
  PROVE  LockDrift(u)' - MarginDeleted(u)' + MarginRead(u)'
           = LockDrift(u) - MarginDeleted(u) + MarginRead(u)
<1>1. /\ Margins(u) \in Int /\ Reserved(u) \in Int /\ locked[u] \in Int
      /\ MarginRead(u) \in Int /\ MarginDeleted(u) \in Int
  BY LockTypes, LiquidatedTypes DEF LInv
<1>2. Reserved(u)' = Reserved(u)
  BY DEF Liquidate, history, Reserved, PlacedBy, OrdersOf, Unused
<1>3. CASE outcome = "aborted"
  <2>1. UNCHANGED <<locked, position, liquidated>>
    BY <1>3 DEF Liquidate
  <2>2. QED
    BY <1>2, <2>1 DEF LockDrift, Margins, MarginDeleted, MarginRead, LiquidationsOf
<1>4. CASE outcome # "aborted"
  <2> DEFINE a == row.account
             d == [account |-> a, id |-> rowId[a], position |-> position[a]]
             l == [read |-> row, deleted |-> d]
             was == row.position.margin
             is  == position[a].margin
  <2>1. /\ row \in RowOfPosition /\ a \in Accounts /\ a[1] \in Users /\ a[2] \in Markets
        /\ a = <<a[1], a[2]>> /\ was \in Int
    BY SweepTypes DEF OfSweep, RowOfPosition, Accounts, Position, NoPosition
  <2>2. /\ StillThere(row) /\ liquidated' = liquidated \cup Deletion(row)
        /\ position' = [position EXCEPT ![a] = NoPosition]
        /\ locked' = [locked EXCEPT ![a[1]] = @ - was]
    BY <1>4 DEF Liquidate
  <2>3. liquidated' = liquidated \cup {l} /\ l \notin liquidated
    BY <2>1, <2>2, DeletionOfRow
  <2>4. l.read.account[1] = a[1] /\ l.read.position.margin = was /\ l.deleted.position.margin = is
    OBVIOUS
  <2>5. position \in [Accounts -> Position] /\ locked \in [Users -> Int]
    BY DEF LInv, IInv, TypeOK, DatabaseTypes
  <2>6. is \in Int
    <3>1. position[a] \in Position
      BY <2>1, <2>5
    <3>2. QED
      BY <3>1 DEF Position, NoPosition
  <2>7. CASE u = a[1]
    <3>1. locked'[u] = locked[u] - was
      BY <2>2, <2>5, <2>7
    <3>2. Margins(u)' = Margins(u) - is
      <4>1. \A n \in Markets \ {a[2]} : position'[<<u, n>>] = position[<<u, n>>]
        BY <2>1, <2>2, <2>5, <2>7 DEF Accounts
      <4>2. <<u, a[2]>> = a /\ position'[a].margin = 0
        BY <2>1, <2>2, <2>5, <2>7 DEF NoPosition
      <4>3. Margins(u)' = Margins(u) + (position'[<<u, a[2]>>].margin - position[<<u, a[2]>>].margin)
        BY <2>1, <4>1, MarginsFollow DEF LInv
      <4>4. QED
        BY <1>1, <2>6, <4>2, <4>3
    <3>3. MarginRead(u)' = MarginRead(u) + was /\ MarginDeleted(u)' = MarginDeleted(u) + is
      <4> HIDE DEF l
      <4>1. QED
        BY <2>3, <2>4, <2>7, LiquidatedGrows
    <3> HIDE DEF was, is
    <3>4. QED
      BY <1>1, <1>2, <2>1, <2>6, <3>1, <3>2, <3>3, StaleBalance DEF LockDrift
  <2>8. CASE u # a[1]
    <3>1. locked'[u] = locked[u]
      BY <2>1, <2>2, <2>5, <2>8
    <3>2. Margins(u)' = Margins(u)
      <4>1. \A n \in Markets : position'[<<u, n>>] = position[<<u, n>>]
        BY <2>1, <2>2, <2>5, <2>8 DEF Accounts
      <4>2. QED
        BY <4>1 DEF Margins
    <3>3. MarginRead(u)' = MarginRead(u) /\ MarginDeleted(u)' = MarginDeleted(u)
      <4> HIDE DEF l
      <4>1. QED
        BY <2>3, <2>4, <2>8, LiquidatedGrows
    <3>4. QED
      BY <1>2, <3>1, <3>2, <3>3 DEF LockDrift
  <2>9. QED
    BY <2>7, <2>8
<1>5. QED
  BY <1>3, <1>4

\* What is locked stays explained by positions and open orders, up to the
\* margins that the sweeps read and those they deleted, in every execution
\* whose reservations divide evenly: a stale read is all a sweep adds.
THEOREM LocksUpToStale == LiquidationSpec /\ []EvenReservations => []LockedUpToStale
<1> DEFINE Stale(u) == LockDrift(u) - MarginDeleted(u) + MarginRead(u)
           Exact == \A u \in Users \ crossed : Stale(u) = 0
<1>1. LiquidationInit => AInv /\ Reserves /\ Exact
  <2> SUFFICES ASSUME LiquidationInit PROVE AInv /\ Reserves /\ Exact
    OBVIOUS
  <2>1. AInv /\ Reserves
    BY InitAInv DEF LiquidationInit, Init, Reserves, NotPlacing
  <2>2. ASSUME NEW u \in Users PROVE Stale(u) = 0
    <3> DEFINE f == [l \in LiquidationsOf(u) |-> l.read.position.margin]
               g == [l \in LiquidationsOf(u) |-> l.deleted.position.margin]
    <3>1. LiquidationsOf(u) = {} /\ LockDrift(u) = 0
      BY InitLocks DEF LiquidationInit, LiquidationsOf
    <3>2. f \in [{} -> Int] /\ g \in [{} -> Int] /\ \A l \in {} : f[l] = 0 /\ g[l] = 0
      BY <3>1
    <3>3. SumFunction(f) = 0 /\ SumFunction(g) = 0
      <4> HIDE DEF f, g
      <4>1. QED
        BY <3>2, FS_EmptySet, TotalZero
    <3>4. MarginRead(u) = 0 /\ MarginDeleted(u) = 0
      BY <3>3 DEF MarginRead, MarginDeleted
    <3>5. QED
      BY <3>1, <3>4
  <2>3. QED
    BY <2>1, <2>2
<1>2. LInv /\ AInv /\ Reserves /\ [LiquidationNext]_allVars => AInv' /\ Reserves'
  BY LiquidationOrders
<1>3. /\ LInv /\ LInv' /\ AInv /\ Reserves /\ EvenReservations /\ Exact
      /\ [LiquidationNext]_allVars
      => Exact'
  <2> SUFFICES ASSUME LInv, LInv', AInv, Reserves, EvenReservations, Exact,
                      [LiquidationNext]_allVars, NEW u \in Users \ crossed'
               PROVE  Stale(u)' = Stale(u) /\ u \notin crossed
    OBVIOUS
  <2>1. ASSUME [Next]_vars, UNCHANGED liquidated PROVE Stale(u)' = Stale(u) /\ u \notin crossed
    <3>1. LockDrift(u)' = LockDrift(u) /\ u \notin crossed
      BY <2>1, StepLocks DEF LInv
    <3>2. QED
      BY <2>1, <3>1 DEF MarginDeleted, MarginRead, LiquidationsOf
  <2>2. ASSUME UNCHANGED <<database, placing, engine, fillsLoop, cancelsLoop, history, liquidated>>
        PROVE  Stale(u)' = Stale(u) /\ u \notin crossed
    BY <2>2 DEF database, history, LockDrift, Margins, Reserved, PlacedBy, OrdersOf, Unused,
       MarginDeleted, MarginRead, LiquidationsOf
  <2>3. ASSUME NEW s \in Sweeps, NEW row \in sweeps[s].due, NEW outcome \in Outcomes,
               Liquidate(s, row, outcome)
        PROVE  Stale(u)' = Stale(u) /\ u \notin crossed
    <3>1. crossed' = crossed
      BY <2>3 DEF Liquidate, history
    <3>2. QED
      BY <2>3, <3>1, LiquidateLocks
  <2>4. QED
    BY <2>1, <2>2, <2>3, LiquidationSteps
<1>4. LInv /\ Exact => LockedUpToStale
  <2> SUFFICES ASSUME LInv, Exact, NEW u \in Users \ crossed
               PROVE  locked[u] = Margins(u) + Reserved(u) + MarginDeleted(u) - MarginRead(u)
    BY DEF LockedUpToStale
  <2>1. Stale(u) = 0
    OBVIOUS
  <2>2. QED
    BY <2>1, LockTypes, LiquidatedTypes DEF LockDrift, LInv
<1>5. QED
  <2> HIDE DEF Exact
  <2>1. QED
    BY <1>1, <1>2, <1>3, <1>4, InitLInv, LiquidationInductive, PTL DEF LiquidationSpec
=============================================================================

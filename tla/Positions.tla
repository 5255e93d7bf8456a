------------------------------ MODULE Positions ------------------------------
(***************************************************************************)
(* The arithmetic of one account in one market: what the backend locks for *)
(* a new order, and what applyPositionUpdate does to a position and to the *)
(* balance behind it.  Amounts are integers; Prisma.Decimal divides to 20  *)
(* digits, and the instances checked are scaled so that every division     *)
(* comes out even.                                                         *)
(*                                                                         *)
(* A position that has no row is NoPosition.  An account is a record       *)
(* [position, available, locked]; a settled fill, from the side of one of  *)
(* its two orders, is a record [direction, qty, price, leverage,           *)
(* reservation, orderQty].                                                 *)
(***************************************************************************)
EXTENDS Integers

Directions      == {"LONG", "SHORT"}
DirectionOf(side) == IF side = "BUY" THEN "LONG" ELSE "SHORT"

NoPosition == [side |-> "NONE", qty |-> 0, entryPrice |-> 0, margin |-> 0]

\* A position as one signed number.
Net(position) == IF position.side = "LONG" THEN position.qty ELSE 0 - position.qty
Signed(direction, qty) == IF direction = "LONG" THEN qty ELSE 0 - qty

-----------------------------------------------------------------------------
(* backend: POST /api/order *)

\* Only what goes beyond an opposite position opens anything.
OpeningQty(position, direction, qty) ==
  IF position.qty > 0 /\ position.side # direction
  THEN IF qty > position.qty THEN qty - position.qty ELSE 0
  ELSE qty

RequiredMargin(position, direction, qty, price, leverage) ==
  (price * OpeningQty(position, direction, qty)) \div leverage

-----------------------------------------------------------------------------
(* db-worker: applyPositionUpdate, one operator per branch. *)

MarginFor(fill, qty) == (fill.price * qty) \div fill.leverage

\* What the backend locked for this part of the order.
ReservationShare(fill) == (fill.reservation * fill.qty) \div fill.orderQty

\* Realized when `qty` of a position is closed at the fill's price.
Pnl(position, fill, qty) ==
  IF position.side = "LONG" THEN (fill.price - position.entryPrice) * qty
                            ELSE (position.entryPrice - fill.price) * qty

Open(account, fill) ==
  LET M     == MarginFor(fill, fill.qty)
      extra == M - ReservationShare(fill)
  IN [position  |-> [side |-> fill.direction, qty |-> fill.qty,
                     entryPrice |-> fill.price, margin |-> M],
      available |-> account.available - extra,
      locked    |-> account.locked + extra]

\* Faulty: the new entry is the fill's price, not the average.
Increase_LastPrice(account, fill) ==
  LET pos   == account.position
      M     == MarginFor(fill, fill.qty)
      extra == M - ReservationShare(fill)
  IN [position  |-> [pos EXCEPT !.qty = @ + fill.qty, !.entryPrice = fill.price,
                                !.margin = @ + M],
      available |-> account.available - extra,
      locked    |-> account.locked + extra]

Increase(account, fill) ==
  LET pos    == account.position
      newQty == pos.qty + fill.qty
      M      == MarginFor(fill, fill.qty)
      extra  == M - ReservationShare(fill)
  IN [position  |-> [side |-> pos.side, qty |-> newQty, margin |-> pos.margin + M,
                     entryPrice |-> (pos.qty * pos.entryPrice + fill.qty * fill.price)
                                      \div newQty],
      available |-> account.available - extra,
      locked    |-> account.locked + extra]

Close(account, fill) ==
  LET pos == account.position
  IN [position  |-> NoPosition,
      available |-> account.available + pos.margin + Pnl(pos, fill, fill.qty),
      locked    |-> account.locked - pos.margin]

\* Faulty: the released share stays in the position's margin as well.
Reduce_KeepMargin(account, fill) ==
  LET pos      == account.position
      released == (pos.margin * fill.qty) \div pos.qty
  IN [position  |-> [pos EXCEPT !.qty = @ - fill.qty],
      available |-> account.available + released + Pnl(pos, fill, fill.qty),
      locked    |-> account.locked - released]

Reduce(account, fill) ==
  LET pos      == account.position
      released == (pos.margin * fill.qty) \div pos.qty
  IN [position  |-> [side |-> pos.side, qty |-> pos.qty - fill.qty,
                     entryPrice |-> pos.entryPrice, margin |-> pos.margin - released],
      available |-> account.available + released + Pnl(pos, fill, fill.qty),
      locked    |-> account.locked - released]

\* Closes all of the position and opens the rest the other way.  Unlike Open
\* and Increase it takes the whole reservation of the order as this fill's.
Flip(account, fill) ==
  LET pos    == account.position
      newQty == fill.qty - pos.qty
      M      == MarginFor(fill, newQty)
      extra  == M - fill.reservation
  IN [position  |-> [side |-> fill.direction, qty |-> newQty,
                     entryPrice |-> fill.price, margin |-> M],
      available |-> account.available + pos.margin + Pnl(pos, fill, pos.qty) - extra,
      locked    |-> account.locked - pos.margin + extra]

\* Faulty: a position reduced to nothing keeps its row.
ApplyPositionUpdate_NeverCloses(account, fill) ==
  LET pos == account.position IN
  IF pos.qty = 0 THEN Open(account, fill)
  ELSE IF pos.side = fill.direction THEN Increase(account, fill)
  ELSE IF fill.qty <= pos.qty THEN Reduce(account, fill)
  ELSE Flip(account, fill)

ApplyPositionUpdate(account, fill) ==
  LET pos == account.position IN
  IF pos.qty = 0 THEN Open(account, fill)
  ELSE IF pos.side = fill.direction THEN Increase(account, fill)
  ELSE IF fill.qty = pos.qty THEN Close(account, fill)
  ELSE IF fill.qty < pos.qty THEN Reduce(account, fill)
  ELSE Flip(account, fill)

=============================================================================

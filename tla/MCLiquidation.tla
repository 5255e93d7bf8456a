---------------------------- MODULE MCLiquidation ----------------------------
(* Instances of Liquidation: u1 is long with leverage when the price halves,*)
(* and the trade that halves it adds to the position.                      *)
EXTENDS Liquidation

Ask(user, type, side, price, qty, leverage) ==
  [userId |-> user, marketId |-> "m1", orderType |-> type, side |-> side,
   price |-> price, qty |-> qty, leverage |-> leverage]

Falling == <<
  Ask("u1", "LIMIT", "BUY", 72, 1, 2), Ask("u1", "LIMIT", "BUY", 36, 1, 1),
  Ask("u2", "MARKET", "SELL", 36, 2, 2) >>

\* u1 is long two, and sells one at half the price: that order reduces what the
\* sweeps have left, or opens a short position after them.
Sold == <<
  Ask("u1", "LIMIT", "BUY", 72, 2, 2), Ask("u2", "MARKET", "SELL", 72, 2, 2),
  Ask("u2", "LIMIT", "BUY", 36, 1, 1), Ask("u1", "MARKET", "SELL", 36, 1, 1) >>
=============================================================================

---------------------------- MODULE MCSettlement ----------------------------
(* Instances of Settlement.  Prices are multiples of 36, so that margins,  *)
(* shares and average entries of these quantities are whole.               *)
EXTENDS Accounting

Ask(user, type, side, price, qty, leverage) ==
  [userId |-> user, marketId |-> "m1", orderType |-> type, side |-> side,
   price |-> price, qty |-> qty, leverage |-> leverage]

\* Two users who open, add, reduce, close and flip against each other.
TwoUsers == <<
  Ask("u1", "LIMIT", "BUY", 72, 2, 1),   Ask("u2", "LIMIT", "SELL", 36, 1, 2),
  Ask("u2", "MARKET", "SELL", 36, 2, 2), Ask("u1", "LIMIT", "SELL", 72, 3, 1),
  Ask("u2", "LIMIT", "BUY", 72, 2, 1) >>

FourOrders == <<TwoUsers[1], TwoUsers[2], TwoUsers[4], TwoUsers[5]>>
=============================================================================

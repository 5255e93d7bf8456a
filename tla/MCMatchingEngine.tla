-------------------------- MODULE MCMatchingEngine --------------------------
(* Instances of MatchingEngine: two makers at two prices, and a taker that *)
(* takes both and wants more; and one maker for two takers that both want  *)
(* all of it.                                                              *)
EXTENDS MatchingEngine

LimitOrder(id, user, side, price, qty) ==
  [orderId |-> id, userId |-> user, marketId |-> "m1", side |-> side,
   orderType |-> "LIMIT", price |-> price, qty |-> qty]
MarketOrder(id, user, side, qty) ==
  [orderId |-> id, userId |-> user, marketId |-> "m1", side |-> side,
   orderType |-> "MARKET", price |-> 0, qty |-> qty]

Makers == {LimitOrder("o1", "u1", "SELL", 1, 1), LimitOrder("o2", "u2", "SELL", 2, 1)}

\* A taker whose leftover rests, and one whose remainder is cancelled.
LimitTaker  == Makers \cup {LimitOrder("o3", "u3", "BUY", 2, 3)}
MarketTaker == Makers \cup {MarketOrder("o3", "u3", "BUY", 3)}

TwoTakers == {LimitOrder("o1", "u1", "SELL", 1, 1), LimitOrder("o2", "u2", "BUY", 1, 1),
              LimitOrder("o3", "u3", "BUY", 1, 1)}
=============================================================================

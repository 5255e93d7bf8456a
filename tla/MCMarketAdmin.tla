---------------------------- MODULE MCMarketAdmin ----------------------------
(* Instances of MarketAdmin: two orders for the market that is there, one  *)
(* for the market that is created.                                         *)
EXTENDS MarketAdmin
ThreeOrders == [o \in {"o1", "o2", "o3"} |-> IF o = "o3" THEN "m2" ELSE "m1"]
=============================================================================

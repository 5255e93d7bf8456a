----------------------------- MODULE MCMatching -----------------------------
(* Instance of Matching: orders of two users in two markets, every mix     *)
(* of sides, types, two prices and three quantities.                      *)
EXTENDS Matching, TLC

Symmetric == Permutations(OrderIds) \cup Permutations(Users) \cup Permutations(Markets)
=============================================================================

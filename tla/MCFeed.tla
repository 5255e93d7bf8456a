------------------------------- MODULE MCFeed -------------------------------
(* Instance of Feed: three fills in two markets, and two calls that may    *)
(* overtake each other about the market with two of the fills.             *)
EXTENDS Feed
ThreeFills == <<"m1", "m2", "m1">>
TwoAsks == [m \in Markets |-> IF m = "m1" THEN 2 ELSE 1]
=============================================================================

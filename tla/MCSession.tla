------------------------------ MODULE MCSession ------------------------------
(* Instance of Session: two tabs, one of which makes one call at a time,   *)
(* opened by a user with a stored token, and another user who signs up.    *)
EXTENDS Session
ThreeTokens == [k \in {"a1", "a2", "b1"} |-> IF k = "b1" THEN "b" ELSE "a"]
TwoTabs == [t \in {"t1", "t2"} |-> IF t = "t1" THEN 2 ELSE 1]
=============================================================================

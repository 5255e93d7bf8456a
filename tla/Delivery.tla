------------------------------ MODULE Delivery ------------------------------
(***************************************************************************)
(* What the backend promises of the event of a committed order: only a     *)
(* committed order is announced, and an order is marked as announced       *)
(* (eventPublished, which takes it out of the sweep for good) only when it *)
(* has been.                                                               *)
(***************************************************************************)
CONSTANT Orders
VARIABLES committed, sent, marked

Init == committed = {} /\ sent = {} /\ marked = {}

Commit(o) == committed' = committed \cup {o} /\ UNCHANGED <<sent, marked>>
Send(o)   == o \in committed /\ sent' = sent \cup {o} /\ UNCHANGED <<committed, marked>>
Mark(o)   == o \in sent /\ marked' = marked \cup {o} /\ UNCHANGED <<committed, sent>>

Next == \E o \in Orders : Commit(o) \/ Send(o) \/ Mark(o)
Spec == Init /\ [][Next]_<<committed, sent, marked>>
=============================================================================

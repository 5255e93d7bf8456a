---------------------------- MODULE NetPositions ----------------------------
(***************************************************************************)
(* What settlement promises: a fill moves its quantity from the seller's   *)
(* net position to the buyer's, in one step, and does it once, in whatever *)
(* order fills are settled and however often they are delivered.  How      *)
(* positions are opened, averaged, reduced, closed and flipped is left to  *)
(* Settlement, which is proved to implement this specification.            *)
(***************************************************************************)
EXTENDS Integers, Sequences

CONSTANTS
  Accounts,       \* a user in a market
  Quantities      \* what a trade may move

VARIABLES
  log,        \* the trades the engine has published, in stream order
  settled,    \* those whose Fill row exists
  net         \* signed position of every account

vars == <<log, settled, net>>

Trade == [buyer : Accounts, seller : Accounts, qty : Quantities]

Init ==
  /\ log = <<>>
  /\ settled = {}
  /\ net = [a \in Accounts |-> 0]

Publish ==
  /\ \E t \in Trade : t.buyer # t.seller /\ log' = Append(log, t)
  /\ UNCHANGED <<settled, net>>

Settle ==
  /\ \E i \in (1..Len(log)) \ settled :
       /\ settled' = settled \cup {i}
       /\ net' = [net EXCEPT ![log[i].buyer]  = @ + log[i].qty,
                             ![log[i].seller] = @ - log[i].qty]
  /\ UNCHANGED log

Next == Publish \/ Settle

Spec == Init /\ [][Next]_vars
=============================================================================

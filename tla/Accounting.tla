------------------------------ MODULE Accounting ------------------------------
(***************************************************************************)
(* What settlement must add up to: the balances, positions and orders of   *)
(* Settlement against the fills and cancels that were settled.  Sums are   *)
(* kept out of Settlement itself.                                          *)
(***************************************************************************)
EXTENDS Settlement, FiniteSetsExt

\* Sums range over orders and markets.
ASSUME FiniteAssumption == IsFiniteSet(OrderIds) /\ IsFiniteSet(Markets)

OrdersOf(u)    == {o \in OrderIds : Requests[o].userId = u}
PlacedBy(u)    == {o \in OrdersOf(u) : orders[o].status # "NONE"}
OrderFills(o)  == {i \in fillRows : o \in {fills[i].takerOrderId, fills[i].makerOrderId}}
SettledQty(o)  == SumFunction([i \in OrderFills(o) |-> fills[i].qty])

\* An order's row counts every settled fill once, whatever was redelivered,
\* aborted or answered late, and it is never filled beyond its quantity
\* together with what was cancelled (db-worker: Fill row and P2002).
FilledExactlyOnce ==
  \A o \in OrderIds : /\ orders[o].filledQty = SettledQty(o)
                      /\ orders[o].filledQty + cancelledQty[o] <= Requests[o].qty

\* Money is conserved: what a user has, free and locked, is the deposit, less
\* what the settled fills bought, plus what they sold, plus the position at
\* its entry price.  It ties the averaged entry, the realized pnl of the three
\* closing branches and the moves between locked and available together.
Volume(o) == SumFunction([i \in OrderFills(o) |-> fills[i].price * fills[i].qty])
Cash(u)   == SumFunction([o \in OrdersOf(u) |-> -Signed(Dir(o), Volume(o))])
EntryValue(pos) == Net(pos) * pos.entryPrice
AtEntry(u) == SumFunction([m \in Markets |-> EntryValue(position[<<u, m>>])])

MoneyConserved ==
  \A u \in Users : available[u] + locked[u] = Deposit + Cash(u) + AtEntry(u)

\* A position's margin stays what its entry value asks for at the leverages of
\* its owner's orders, through averaging, partial closes and flips: it is what
\* the liquidation price entry -+ margin/qty is computed from.
MarginMatchesEntry ==
  \A u \in Users, m \in Markets :
    LET pos       == position[<<u, m>>]
        leverages == {Requests[o].leverage : o \in PlacedBy(u)}
    IN  pos.qty > 0 => /\ pos.margin * Max(leverages) >= pos.entryPrice * pos.qty
                       /\ pos.margin * Min(leverages) <= pos.entryPrice * pos.qty

Margins(u)  == SumFunction([m \in Markets |-> position[<<u, m>>].margin])
Unused(o)   == Requests[o].qty - orders[o].filledQty - cancelledQty[o]
Reserved(u) == SumFunction([o \in PlacedBy(u) |->
                              (orders[o].initialMargin * Unused(o)) \div Requests[o].qty])

\* What is locked is exactly the margin of the positions and the reservation
\* of what is neither filled nor cancelled, whatever the order in which the
\* two loops settle, as long as no order that reserved margin has met a
\* position it closes.
LockedIsExact == \A u \in Users \ crossed : locked[u] = Margins(u) + Reserved(u)

\* README.md:19, "an order that closes or reduces a position releases margin
\* at settlement instead"; db-worker/index.ts:251, "amount backend already
\* locked for this fill".  A user with no position and nothing left to fill or
\* cancel has nothing locked.  The code does not keep it: closing and reducing
\* give no share of the order's own reservation back, and a flip gives back
\* all of it whatever part of the order is filled.
NothingStranded ==
  \A u \in Users :
    (\A m \in Markets : position[<<u, m>>].qty = 0) /\ (\A o \in PlacedBy(u) : Unused(o) = 0)
      => locked[u] = 0

-----------------------------------------------------------------------------
\* Every published fill is settled in the end, however restarts interrupt the
\* worker between reading, committing and acknowledging (db-worker: the replay
\* of its own unacknowledged fills).  After a call that failed the loop may have
\* ended with it (db-worker/index.ts:132, what the catch itself awaits), or what
\* is not settled is pending still, to be claimed after the next batch or
\* replayed at the next start: nothing drops out unsettled.
FillsSettle ==
  []<>(\/ fillRows = 1..Len(fills)
       \/ /\ aborts > 0
          /\ phase = "stopped" \/ fillRows \cup fillsPending = 1..Len(fills))

\* The cancels loop goes on: no failed read has ended it, nor has the worker
\* ended before it, in its recovery.
CancelsLoopRuns ==
  ~cancelsStopped /\ ~(phase = "stopped" /\ source = "recovery" /\ work # {})

IsReleased(i) == cancelledQty[cancels[i].orderId] > 0

\* While the cancels loop goes on, every published cancel is settled in the end
\* but those that were lost themselves: in hand when the worker died, in a read
\* whose answer was lost, or in a transaction that failed.  Neither the rest of
\* their batch nor what comes after them is lost with them, whatever failed and
\* restarted before (db-worker/index.ts:104 to :116).
CancelsSettle ==
  []<>(CancelsLoopRuns => \A i \in (1..Len(cancels)) \ lostCancels : IsReleased(i))
=============================================================================

----------------------------- MODULE Liquidation -----------------------------
(***************************************************************************)
(* The mark-price service next to settlement: it turns published fills into*)
(* mark prices and sweeps the positions every second.  A sweep reads all   *)
(* positions at once and then, position by position, a mark price and, when*)
(* the position it read has crossed its liquidation price, a transaction   *)
(* that takes the margin it read and deletes the row by its id.  Nothing   *)
(* keeps a slow sweep from overlapping the next, and settlement goes on    *)
(* between any two of these steps.  Two transactions on one position leave *)
(* what one after the other leaves, or one of them aborts: settleFill      *)
(* updates or deletes the row it has read, which must still be there.      *)
(***************************************************************************)
EXTENDS Accounting

CONSTANTS
  Sweeps,       \* bound: sweeps that run at the same time
  MarksBatch    \* COUNT of the read of fills (10 in the source)

ASSUME SweepsAssumption == Sweeps # {} /\ MarksBatch \in Nat \ {0}

VARIABLES
  rowId,        \* by account: the id of its position row; a new row has a new one
  marked,       \* how many fills have been turned into mark prices
  markPrice,    \* by market, 0 when there is none
  sweeps,       \* by sweep: the rows read and not looked at, the one to liquidate
  liquidated    \* history: the row as the sweep read it, and as it was deleted

liquidator == <<marked, markPrice, sweeps, liquidated>>
allVars    == <<vars, rowId, liquidator>>

Idle == [todo |-> {}, due |-> {}]
HasPosition(a) == position[a].qty > 0
Rows == {[account |-> a, id |-> rowId[a], position |-> position[a]] :
           a \in {x \in Accounts : HasPosition(x)}}

-----------------------------------------------------------------------------
LiquidationInit ==
  /\ Init
  /\ rowId = [a \in Accounts |-> 0]
  /\ marked = 0 /\ markPrice = [m \in Markets |-> 0]
  /\ sweeps = [s \in Sweeps |-> Idle]
  /\ liquidated = {}

\* A step of the backend, the engine or the db-worker.  A position that is
\* flipped keeps its row, one that is opened gets a new one.
Settles ==
  /\ Place \/ Engine \/ ConsumeFills \/ ConsumeCancels
  /\ rowId' = [a \in Accounts |->
                 IF HasPosition(a)' /\ ~HasPosition(a) THEN rowId[a] + 1 ELSE rowId[a]]
  /\ UNCHANGED liquidator

\* The loop over "fills": the last trade price becomes the mark price.
Mark ==
  LET fill   == fills[marked + 1]
      market == Requests[fill.makerOrderId].marketId
  IN
  /\ marked < Len(fills)
  /\ marked' = marked + 1
  /\ markPrice' = [markPrice EXCEPT ![market] = fill.price]
  /\ UNCHANGED <<vars, rowId, sweeps, liquidated>>

-----------------------------------------------------------------------------
(* A sweep. *)

\* Faulty: a position exactly at its liquidation price is left alone.
ShouldLiquidate_Past(pos, mark) ==
  IF pos.side = "LONG" THEN mark * pos.qty < pos.entryPrice * pos.qty - pos.margin
                       ELSE mark * pos.qty > pos.entryPrice * pos.qty + pos.margin

\* The mark against entry -+ margin/qty, both multiplied by the quantity.
ShouldLiquidate(pos, mark) ==
  IF pos.side = "LONG" THEN mark * pos.qty <= pos.entryPrice * pos.qty - pos.margin
                       ELSE mark * pos.qty >= pos.entryPrice * pos.qty + pos.margin

\* position.findMany()
StartSweep(s) ==
  /\ sweeps[s] = Idle
  /\ sweeps' = [sweeps EXCEPT ![s].todo = Rows]
  /\ UNCHANGED <<vars, rowId, marked, markPrice, liquidated>>

\* The mark price is read now, the position was read when the sweep began.
Look(s, row) ==
  LET mark == markPrice[row.account[2]]
      due  == mark # 0 /\ ShouldLiquidate(row.position, mark)
  IN
  /\ sweeps[s].due = {}
  /\ sweeps' = [sweeps EXCEPT ![s] = [todo |-> @.todo \ {row},
                                      due  |-> IF due THEN {row} ELSE {}]]
  /\ UNCHANGED <<vars, rowId, marked, markPrice, liquidated>>

\* Faulty: the row is deleted by its user and market, wherever it comes from,
\* and one that is gone is no error.
StillThere_AnyRow(row) == TRUE

StillThere(row) == HasPosition(row.account) /\ rowId[row.account] = row.id

\* History of a liquidation: what was read, and the row, if any, that goes.
Deletion(row) == {[read |-> row, deleted |-> r] : r \in {x \in Rows : x.account = row.account}}

\* The transaction: the margin that was read leaves the locked balance, and the
\* row is deleted.
Liquidate(s, row, outcome) ==
  LET u == row.account[1] IN
  /\ StillThere(row)
  /\ Fails(outcome)
  /\ IF outcome = "aborted" THEN UNCHANGED <<locked, position, liquidated>>
     ELSE /\ locked' = [locked EXCEPT ![u] = @ - row.position.margin]
          /\ position' = [position EXCEPT ![row.account] = NoPosition]
          /\ liquidated' = liquidated \cup Deletion(row)
  /\ sweeps' = [sweeps EXCEPT ![s] = IF outcome = "ok" THEN [@ EXCEPT !.due = {}] ELSE Idle]
  /\ UNCHANGED <<orders, available, fillRows, placing, engine, fillsLoop, cancelsLoop,
                 crashes, history, rowId, marked, markPrice>>

\* Deleting a row that is gone rolls the transaction back, and the error ends
\* the sweep for every row after it.
AlreadyGone(s, row) ==
  /\ ~StillThere(row)
  /\ sweeps' = [sweeps EXCEPT ![s] = Idle]
  /\ UNCHANGED <<vars, rowId, marked, markPrice, liquidated>>

\* A mark price that cannot be read ends it as well.
LookFails(s) ==
  /\ sweeps[s].todo # {} /\ sweeps[s].due = {}
  /\ Fails("aborted")
  /\ sweeps' = [sweeps EXCEPT ![s] = Idle]
  /\ UNCHANGED <<database, placing, engine, fillsLoop, cancelsLoop, crashes, history,
                 rowId, marked, markPrice, liquidated>>

Sweep(s) ==
  \/ StartSweep(s)
  \/ \E row \in sweeps[s].todo : Look(s, row)
  \/ \E row \in sweeps[s].due :
       AlreadyGone(s, row) \/ \E outcome \in Outcomes : Liquidate(s, row, outcome)

-----------------------------------------------------------------------------
\* All loops of the worker die together.  Fills it had read and not marked are
\* not read again.
WorkerRestarts ==
  /\ Restart
  /\ marked' \in marked..Upto(marked, fills, MarksBatch)
  /\ sweeps' = [s \in Sweeps |-> Idle]
  /\ UNCHANGED <<rowId, markPrice, liquidated>>

LiquidationNext == Settles \/ Mark \/ WorkerRestarts \/ \E s \in Sweeps : Sweep(s) \/ LookFails(s)

LiquidationSpec == LiquidationInit /\ [][LiquidationNext]_allVars

\* The timer fires every second, so sweeps go on for as long as the worker runs.
LiquidationFairSpec == LiquidationSpec /\ \A s \in Sweeps : WF_allVars(Sweep(s))

-----------------------------------------------------------------------------
LiquidationsOf(u)  == {l \in liquidated : l.read.account[1] = u}
MarginRead(u)      == SumFunction([l \in LiquidationsOf(u) |-> l.read.position.margin])
MarginDeleted(u)   == SumFunction([l \in LiquidationsOf(u) |-> l.deleted.position.margin])
ValueDeleted(u)    == SumFunction([l \in LiquidationsOf(u) |-> EntryValue(l.deleted.position)])

\* A liquidation costs the margin its sweep had read, once, and nothing else,
\* however sweeps overlap, whatever settlement does to the position between the
\* read and the transaction, and whichever call fails: free and locked money is
\* the deposit, the settled fills and the positions at entry, those deleted
\* included, less the margins taken.
LiquidationCosts ==
  \A u \in Users :
    available[u] + locked[u] = Deposit + Cash(u) + AtEntry(u) + ValueDeleted(u) - MarginRead(u)

\* What is locked stays explained by positions and open orders, up to the
\* difference between the margins the sweeps read and those they deleted.
LockedUpToStale ==
  \A u \in Users \ crossed :
    locked[u] = Margins(u) + Reserved(u) + MarginDeleted(u) - MarginRead(u)

\* What is left of the margin at the mark price.
Crossed(a) ==
  /\ HasPosition(a) /\ markPrice[a[2]] # 0
  /\ position[a].margin + Net(position[a]) * (markPrice[a[2]] - position[a].entryPrice) <= 0

\* A position that has lost its margin does not stay: whatever ends or delays
\* a sweep, a later one gets to it (README.md:20, "force-closes anything that's
\* crossed").
CrossedIsClosed == \A a \in Accounts : []<>~Crossed(a)
=============================================================================

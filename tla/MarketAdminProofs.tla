-------------------------- MODULE MarketAdminProofs --------------------------
(***************************************************************************)
(* Proofs about MarketAdmin, for every set of markets and orders and every *)
(* bound on requests and faults: its types are kept, and a market is       *)
(* deleted flat unless it was used during the deletion.                    *)
(***************************************************************************)
EXTENDS MarketAdmin, TLAPS

\* What a deletion has counted is still so, or the market was used since.
CountsHold ==
  \A m \in Markets \ raced :
    /\ "orders" \in deletion[m] => OpenIn(m) = {}
    /\ "positions" \in deletion[m] => m \notin positions

IInv == TypeOK /\ CountsHold /\ DeletedFlat

\* The initial states satisfy the invariant.
LEMMA InitIInv == Init => IInv
  BY MarketsAssumption DEF Init, IInv, TypeOK, CountsHold, DeletedFlat, Flat, Open, Counts

-----------------------------------------------------------------------------
(* Types. *)

Deletions == [Markets -> SUBSET (Counts \cup {"asked", "gone"})]

\* Every step keeps the requests to delete: each has counted before it deletes.
LEMMA DeletionsKept ==
  ASSUME TypeOK, [Next]_vars
  PROVE  /\ deletion' \in Deletions
         /\ \A m \in Markets : "gone" \in deletion'[m] => Counts \subseteq deletion'[m]
<1> DEFINE Goal == /\ deletion' \in Deletions
                   /\ \A m \in Markets : "gone" \in deletion'[m] => Counts \subseteq deletion'[m]
<1>1. /\ deletion \in Deletions
      /\ \A m \in Markets : "gone" \in deletion[m] => Counts \subseteq deletion[m]
  BY DEF TypeOK, Deletions
<1>2. ASSUME NEW m \in Markets, NEW milestone \in Counts \cup {"asked", "gone"},
             Advance(m, milestone), milestone = "gone" => IsCounted(m)
      PROVE  Goal
  BY <1>1, <1>2 DEF Deletions, Advance, IsCounted, Counts
<1>3. ASSUME NEW m \in Markets, Finish(m)
      PROVE  Goal
  BY <1>1, <1>3 DEF Deletions, Finish
<1>4. ASSUME Restart
      PROVE  Goal
  BY <1>4 DEF Restart, Deletions
<1>5. ASSUME UNCHANGED deletion
      PROVE  Goal
  BY <1>1, <1>5
<1>6. ASSUME NEW m \in Markets, AskDeletion(m) \/ (\E kind \in Counts : Count(m, kind))
      PROVE  Goal
  BY <1>2, <1>3, <1>6 DEF AskDeletion, Count, Counts
<1>7. ASSUME NEW m \in Markets, DeleteRow(m) \/ TellDeleted(m)
      PROVE  Goal
  BY <1>2, <1>3, <1>7 DEF DeleteRow, TellDeleted
<1>8. QED
  BY <1>4, <1>5, <1>6, <1>7
  DEF Next, vars, admin, orders, ReadMarkets, Refresh, FinishRefresh, CreateRow, TellCreated,
      CheckMarket, CommitOrder, SettleFill, SettleCancel

\* Every step keeps the types.
LEMMA TypesKept ==
  ASSUME TypeOK, [Next]_vars
  PROVE  TypeOK'
<1>1. market' \in [Markets -> {"none", "listed", "deleted"}]
  BY DEF TypeOK, Next, vars, admin, orders, ReadMarkets, Refresh, FinishRefresh, CreateRow,
         TellCreated, AskDeletion, Count, DeleteRow, TellDeleted, CheckMarket, CommitOrder,
         SettleFill, SettleCancel, Restart
<1>2. marketIds' \subseteq Markets /\ creating' \subseteq Markets /\ refreshes' \subseteq SUBSET Markets
  BY DEF TypeOK, Listed, Next, vars, admin, orders, ReadMarkets, Refresh, FinishRefresh,
         Refreshed, CreateRow, TellCreated, AskDeletion, Count, DeleteRow, TellDeleted,
         CheckMarket, CommitOrder, SettleFill, SettleCancel, Restart
<1>3. request' \in [OrderIds -> {"new", "checked", "over"}]
  BY DEF TypeOK, Next, vars, admin, orders, ReadMarkets, Refresh, FinishRefresh, CreateRow,
         TellCreated, AskDeletion, Count, DeleteRow, TellDeleted, CheckMarket, CommitOrder,
         SettleFill, SettleCancel, Restart
<1>4. status' \in [OrderIds -> Open \cup {"NONE", "CLOSED"}]
  BY DEF TypeOK, Open, Next, vars, admin, orders, ReadMarkets, Refresh, FinishRefresh, CreateRow,
         TellCreated, AskDeletion, Count, DeleteRow, TellDeleted, CheckMarket, CommitOrder,
         SettleFill, SettleCancel, Restart
<1>5. positions' \subseteq Markets /\ raced' \subseteq Markets
  BY MarketsAssumption
  DEF TypeOK, Uses, Next, vars, admin, orders, ReadMarkets, Refresh, FinishRefresh, CreateRow,
      TellCreated, AskDeletion, Count, DeleteRow, TellDeleted, CheckMarket, CommitOrder,
      SettleFill, SettleCancel, Restart
<1>6. events' \in 0..MaxEvents
  <2>1. Event \/ UNCHANGED events
    BY DEF Next, vars, admin, orders, ReadMarkets, Refresh, FinishRefresh, CreateRow, TellCreated,
           AskDeletion, Count, DeleteRow, TellDeleted, CheckMarket, CommitOrder, SettleFill,
           SettleCancel, Restart
  <2>2. QED
    BY <2>1, MarketsAssumption DEF TypeOK, Event
<1>7. QED
  BY <1>1, <1>2, <1>3, <1>4, <1>5, <1>6, DeletionsKept DEF TypeOK, Deletions

-----------------------------------------------------------------------------
(* What a deletion counts. *)

\* How a step changes what is counted: a market that gets an open order or a
\* position has been raced, if its deletion is under way or done.
LEMMA CountsChange ==
  ASSUME TypeOK, [Next]_vars
  PROVE  /\ raced \subseteq raced'
         /\ \A m \in Markets \ raced' :
              deletion[m] # {} \/ market[m] = "deleted" =>
                OpenIn(m)' \subseteq OpenIn(m) /\ (m \in positions' => m \in positions)
<1> DEFINE Goal == /\ raced \subseteq raced'
                   /\ \A m \in Markets \ raced' :
                        deletion[m] # {} \/ market[m] = "deleted" =>
                          OpenIn(m)' \subseteq OpenIn(m) /\ (m \in positions' => m \in positions)
<1>1. ASSUME UNCHANGED <<status, positions, raced>>
      PROVE  Goal
  BY <1>1 DEF OpenIn
<1>2. ASSUME NEW o \in OrderIds, CommitOrder(o)
      PROVE  Goal
  BY <1>2, MarketsAssumption DEF CommitOrder, Uses, OpenIn, TypeOK, admin
<1>3. ASSUME NEW o \in OrderIds, NEW maker \in OrderIds, SettleFill(o, maker)
      PROVE  Goal
  <2>1. /\ \A x \in OrderIds \ {o, maker} : status'[x] = status[x]
        /\ MarketOf[maker] = MarketOf[o] /\ Uses(MarketOf[o])
        /\ \A m \in Markets \ {MarketOf[o]} : m \in positions' => m \in positions
    BY <1>3 DEF SettleFill
  <2>2. QED
    BY <2>1, MarketsAssumption DEF Uses, OpenIn
<1>4. ASSUME NEW o \in OrderIds, SettleCancel(o)
      PROVE  Goal
  BY <1>4 DEF SettleCancel, OpenIn, TypeOK, Open
<1>5. QED
  BY <1>1, <1>2, <1>3, <1>4
  DEF Next, vars, orders, ReadMarkets, Refresh, FinishRefresh, CreateRow, TellCreated,
      AskDeletion, Count, DeleteRow, TellDeleted, CheckMarket, Restart

\* How a step changes a deletion: it forgets what was counted, or counts what
\* there is now; and only one that has counted both deletes.
LEMMA DeletionChange ==
  ASSUME TypeOK, [Next]_vars, NEW m \in Markets
  PROVE  /\ "orders" \in deletion'[m] => "orders" \in deletion[m] \/ OpenIn(m)' = {}
         /\ "positions" \in deletion'[m] => "positions" \in deletion[m] \/ m \notin positions'
         /\ market'[m] = "deleted" => market[m] = "deleted" \/ IsCounted(m)
<1> DEFINE Goal == /\ "orders" \in deletion'[m] => "orders" \in deletion[m] \/ OpenIn(m)' = {}
                   /\ "positions" \in deletion'[m] =>
                        "positions" \in deletion[m] \/ m \notin positions'
                   /\ market'[m] = "deleted" => market[m] = "deleted" \/ IsCounted(m)
<1>1. ASSUME UNCHANGED <<deletion, market>>
      PROVE  Goal
  BY <1>1
<1>2. ASSUME NEW x \in Markets, CreateRow(x) \/ AskDeletion(x) \/ DeleteRow(x) \/ TellDeleted(x)
      PROVE  Goal
  BY <1>2 DEF CreateRow, AskDeletion, DeleteRow, TellDeleted, Advance, Finish, TypeOK
<1>3. ASSUME NEW x \in Markets, NEW kind \in Counts, Count(x, kind)
      PROVE  Goal
  <2>1. UNCHANGED <<market, positions>> /\ OpenIn(m)' = OpenIn(m)
    BY <1>3 DEF Count, orders, OpenIn
  <2>2. QED
    BY <1>3, <2>1 DEF Count, Counts, Advance, Finish, TypeOK
<1>4. ASSUME Restart
      PROVE  Goal
  BY <1>4 DEF Restart
<1>5. QED
  BY <1>1, <1>2, <1>3, <1>4
  DEF Next, vars, admin, ReadMarkets, Refresh, FinishRefresh, TellCreated, CheckMarket,
      CommitOrder, SettleFill, SettleCancel

\* The invariant holds in every reachable state.
LEMMA Inductive == Spec => []IInv
<1>1. IInv /\ [Next]_vars => IInv'
  <2> SUFFICES ASSUME IInv, [Next]_vars PROVE IInv'
    OBVIOUS
  <2>1. TypeOK /\ TypeOK'
    BY TypesKept DEF IInv
  <2>2. CountsHold'
    BY <2>1, CountsChange, DeletionChange DEF IInv, CountsHold
  <2>3. ASSUME NEW m \in Markets, market'[m] = "deleted", m \notin raced'
        PROVE  Flat(m)'
    <3>1. m \notin raced /\ (market[m] = "deleted" \/ IsCounted(m))
      BY <2>1, <2>3, CountsChange, DeletionChange
    <3>2. OpenIn(m) = {} /\ m \notin positions
      BY <3>1 DEF IInv, CountsHold, DeletedFlat, Flat, IsCounted, Counts, OpenIn
    <3>3. deletion[m] # {} \/ market[m] = "deleted"
      BY <3>1 DEF IsCounted, Counts
    <3>4. OpenIn(m)' = {} /\ m \notin positions'
      BY <2>1, <2>3, <3>2, <3>3, CountsChange
    <3>5. QED
      BY <3>4 DEF Flat, OpenIn
  <2>4. DeletedFlat'
    BY <2>3 DEF DeletedFlat
  <2>5. QED
    BY <2>1, <2>2, <2>4 DEF IInv
<1>2. QED
  BY <1>1, InitIInv, PTL DEF Spec

\* Every variable has its type, and a request has counted before it deletes.
THEOREM TypeCorrect == Spec => []TypeOK
<1>1. IInv => TypeOK
  BY DEF IInv
<1>2. QED
  BY <1>1, Inductive, PTL

\* A market that was not used while it was being deleted, or later, is deleted
\* without open orders and positions, although the two counts and the deletion
\* are three statements.
THEOREM DeletedMarketsAreFlat == Spec => []DeletedFlat
<1>1. IInv => DeletedFlat
  BY DEF IInv
<1>2. QED
  BY <1>1, Inductive, PTL
=============================================================================

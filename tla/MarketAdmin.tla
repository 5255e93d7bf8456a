----------------------------- MODULE MarketAdmin -----------------------------
(***************************************************************************)
(* The rows of the market table, the backend's cache of their ids, and the *)
(* orders that are checked against that cache.  The cache is refilled every*)
(* ten seconds by a read whose answer replaces it whole, and is told of a  *)
(* market created or deleted once the table has answered.  A deletion first*)
(* counts, at two different moments, the open orders and the positions.    *)
(* A request with a wrong secret changes nothing and is left out; engine   *)
(* and settlement are here by what they do to the rows that are counted.   *)
(***************************************************************************)
EXTENDS Naturals, FiniteSets

CONSTANTS
  Markets, InitialMarkets,
  OrderIds, MarketOf,
  MaxRefreshes,  \* bound: refreshes that wait for their answer at one time
  MaxEvents      \* bound: admin requests, failing calls and restarts

ASSUME MarketsAssumption ==
  /\ InitialMarkets \subseteq Markets /\ MarketOf \in [OrderIds -> Markets]
  /\ MaxRefreshes \in Nat \ {0} /\ MaxEvents \in Nat

VARIABLES
  market,     \* by market: "none", "listed" (there is a row) or "deleted"
  marketIds,  \* the cache
  refreshes,  \* what the refreshes under way have read
  creating,   \* markets whose row is written and the cache not yet told
  deletion,   \* by market: how far its DELETE request has come, {} for none
  request,    \* by order: "new", "checked" or "over"
  status,     \* by order: "CLOSED" is FILLED or CANCELLED
  positions,  \* markets in which somebody has a position
  raced,      \* history: markets used while or after they were being deleted
  events      \* how many of MaxEvents have happened

admin  == <<market, marketIds, refreshes, creating, deletion>>
orders == <<request, status, positions, raced>>
vars   == <<admin, orders, events>>

Counts == {"orders", "positions"}
Open   == {"OPEN", "PARTIALLY_FILLED"}
Listed == {m \in Markets : market[m] = "listed"}

\* One more of what MaxEvents bounds.
Event == events < MaxEvents /\ events' = events + 1

Init ==
  /\ market = [m \in Markets |-> IF m \in InitialMarkets THEN "listed" ELSE "none"]
  /\ marketIds = InitialMarkets
  /\ refreshes = {} /\ creating = {}
  /\ deletion = [m \in Markets |-> {}]
  /\ request = [o \in OrderIds |-> "new"]
  /\ status = [o \in OrderIds |-> "NONE"]
  /\ positions = {} /\ raced = {}
  /\ events = 0

-----------------------------------------------------------------------------
(* refreshMarkets. *)

ReadMarkets ==
  /\ Cardinality(refreshes) < MaxRefreshes
  /\ refreshes' = refreshes \cup {Listed}
  /\ UNCHANGED <<market, marketIds, creating, deletion, orders, events>>

\* Faulty: the answer is merged into the cache.
Refreshed_Merged(read) == marketIds \cup read

Refreshed(read) == read

\* Answers may come in any order: each replaces the cache with what it read.
FinishRefresh(read) ==
  /\ read \in refreshes
  /\ refreshes' = refreshes \ {read}
  /\ \/ marketIds' = Refreshed(read) /\ UNCHANGED events
     \/ Event /\ UNCHANGED marketIds                    \* the read failed
  /\ UNCHANGED <<market, creating, deletion, orders>>

-----------------------------------------------------------------------------
(* POST /api/admin/market. *)

CreateRow(m) ==
  /\ Event
  /\ market[m] = "none"
  /\ market' = [market EXCEPT ![m] = "listed"]
  /\ creating' \in {creating \cup {m}, creating}        \* answered, or not
  /\ UNCHANGED <<marketIds, refreshes, deletion, orders>>

TellCreated(m) ==
  /\ m \in creating
  /\ creating' = creating \ {m}
  /\ marketIds' = marketIds \cup {m}
  /\ UNCHANGED <<market, refreshes, deletion, orders, events>>

-----------------------------------------------------------------------------
(* DELETE /api/admin/market/:id. *)

Advance(m, milestone) == deletion' = [deletion EXCEPT ![m] = @ \cup {milestone}]
Finish(m)             == deletion' = [deletion EXCEPT ![m] = {}]

AskDeletion(m) ==
  /\ Event
  /\ market[m] # "none" /\ deletion[m] = {}
  /\ Advance(m, "asked")
  /\ UNCHANGED <<market, marketIds, refreshes, creating, orders>>

\* Faulty: partly filled orders are not counted.
OpenIn_Untouched(m) == {o \in OrderIds : MarketOf[o] = m /\ status[o] = "OPEN"}

OpenIn(m) == {o \in OrderIds : MarketOf[o] = m /\ status[o] \in Open}

\* One of the two counts: anything that is counted refuses the request.
Count(m, kind) ==
  LET used == IF kind = "orders" THEN OpenIn(m) # {} ELSE m \in positions IN
  /\ "asked" \in deletion[m] /\ kind \notin deletion[m]
  /\ IF used THEN Finish(m) ELSE Advance(m, kind)
  /\ UNCHANGED <<market, marketIds, refreshes, creating, orders, events>>

\* Faulty: the row goes as soon as the orders are counted.
IsCounted_Orders(m) == "orders" \in deletion[m]

IsCounted(m) == Counts \subseteq deletion[m]

\* deleteMany; it may be carried out without an answer, or find no row (404).
DeleteRow(m) ==
  /\ IsCounted(m) /\ "gone" \notin deletion[m]
  /\ IF market[m] = "listed"
     THEN /\ market' = [market EXCEPT ![m] = "deleted"]
          /\ (Advance(m, "gone") /\ UNCHANGED events) \/ (Finish(m) /\ Event)
     ELSE Finish(m) /\ UNCHANGED <<market, events>>
  /\ UNCHANGED <<marketIds, refreshes, creating, orders>>

TellDeleted(m) ==
  /\ "gone" \in deletion[m]
  /\ Finish(m)
  /\ marketIds' = marketIds \ {m}
  /\ UNCHANGED <<market, refreshes, creating, orders, events>>

-----------------------------------------------------------------------------
(* POST /api/order, and what becomes of the order.                         *)

\* A market is used while a request to delete it is under way, or after.
Uses(m) ==
  raced' = IF deletion[m] # {} \/ market[m] = "deleted" THEN raced \cup {m} ELSE raced

CheckMarket(o) ==
  /\ request[o] = "new"
  /\ request' = [request EXCEPT ![o] = IF MarketOf[o] \in marketIds THEN "checked" ELSE "over"]
  /\ UNCHANGED <<admin, status, positions, raced, events>>

\* The transaction commits, or is refused (NOT_ENOUGH_BALANCE, ORDER_FAILED).
CommitOrder(o) ==
  /\ request[o] = "checked"
  /\ request' = [request EXCEPT ![o] = "over"]
  /\ \/ status' = [status EXCEPT ![o] = "OPEN"] /\ Uses(MarketOf[o])
     \/ UNCHANGED <<status, raced>>
  /\ UNCHANGED <<admin, positions, events>>

\* A fill is settled, which fills one of its orders at least (either may have
\* been cancelled since they were matched): there is a position afterwards, or
\* there was one and the fill closed it.
SettleFill(taker, maker) ==
  LET m == MarketOf[taker] IN
  /\ taker # maker /\ MarketOf[maker] = m
  /\ status[taker] # "NONE" /\ status[maker] # "NONE"
  /\ \E spent \in (SUBSET {taker, maker}) \ {{}} :
       status' = [o \in OrderIds |-> CASE o \in spent -> "CLOSED"
                                       [] o \in {taker, maker} \ spent -> "PARTIALLY_FILLED"
                                       [] OTHER -> status[o]]
  /\ \/ positions' = positions \cup {m}
     \/ m \in positions /\ positions' = positions \ {m}
  /\ Uses(m)
  /\ UNCHANGED <<admin, request, events>>

SettleCancel(o) ==
  /\ status[o] \in Open
  /\ status' = [status EXCEPT ![o] = "CLOSED"]
  /\ UNCHANGED <<admin, request, positions, raced, events>>

-----------------------------------------------------------------------------
\* A new process fills its cache from the table, or starts empty when that
\* read fails; the requests of the old one are over.
Restart ==
  /\ Event
  /\ marketIds' \in {Listed, {}}
  /\ refreshes' = {} /\ creating' = {}
  /\ deletion' = [m \in Markets |-> {}]
  /\ request' = [o \in OrderIds |-> IF request[o] = "checked" THEN "over" ELSE request[o]]
  /\ UNCHANGED <<market, status, positions, raced>>

Refresh == \E read \in refreshes : FinishRefresh(read)

Next ==
  \/ ReadMarkets \/ Refresh \/ Restart
  \/ \E m \in Markets : \/ CreateRow(m) \/ TellCreated(m)
                        \/ AskDeletion(m) \/ DeleteRow(m) \/ TellDeleted(m)
                        \/ \E kind \in Counts : Count(m, kind)
  \/ \E o \in OrderIds : CheckMarket(o) \/ CommitOrder(o) \/ SettleCancel(o)
                         \/ \E maker \in OrderIds : SettleFill(o, maker)

Spec == Init /\ [][Next]_vars

\* The timer goes off for ever and its reads come back.
FairSpec == Spec /\ WF_vars(ReadMarkets) /\ WF_vars(Refresh)

-----------------------------------------------------------------------------
\* Every variable has its type, and a request is counted before it deletes.
TypeOK ==
  /\ market \in [Markets -> {"none", "listed", "deleted"}]
  /\ marketIds \subseteq Markets /\ creating \subseteq Markets
  /\ refreshes \subseteq SUBSET Markets
  /\ deletion \in [Markets -> SUBSET (Counts \cup {"asked", "gone"})]
  /\ \A m \in Markets : "gone" \in deletion[m] => Counts \subseteq deletion[m]
  /\ request \in [OrderIds -> {"new", "checked", "over"}]
  /\ status \in [OrderIds -> Open \cup {"NONE", "CLOSED"}]
  /\ positions \subseteq Markets /\ raced \subseteq Markets
  /\ events \in 0..MaxEvents

\* A deleted market has no open order and no position, unless an order was
\* committed or a fill settled in it after its deletion had been asked for.
\* (index.ts:153 says "refuse until the market is flat" without the condition;
\* the two counts and the deletion are three statements.)
Flat(m) == m \notin positions /\ \A o \in OrderIds : MarketOf[o] = m => status[o] \notin Open
DeletedFlat == \A m \in Markets : market[m] = "deleted" => Flat(m) \/ m \in raced

\* The cache comes to agree with the table, whatever answers were lost, came
\* late or overtook each other (index.ts: refreshMarkets).
CacheSettles == <>[](marketIds = Listed)
=============================================================================

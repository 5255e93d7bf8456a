# perpV2 in TLA+

Models, model-checking runs and proofs for perpV2, a perpetual-futures exchange
built from small Bun processes, Redis Streams and Postgres. The modules are
translated from the source; where a document and the code disagree, the modules
follow the code (see *Disagreements*).

- [The system](#the-system): parts, state, interactions, what is hard
- [The modules](#the-modules): which module is which code
- [The runs](#the-runs): questions, bounds, results
- [Fairness](#fairness)
- [The proofs](#the-proofs)
- [Disagreements](#disagreements-between-the-code-and-its-documents)
- [Abstractions](#abstractions) and [what is not modelled](#not-modelled)
- [Plan](#plan)

Source paths below are relative to the repository's root. `PROJECT.json` lists
the components, runs, hazards and theorems, and maps every definition that
models code to its lines.

## The system

Nothing calls another service. They read and write Redis Streams and Postgres:

```
browser -> backend -> Postgres (orders, balances)
              | orders
              v
        matching-engine --- fills ---> db-worker ----> Postgres (fills, positions,
              |         \-- cancels ->                 orders, balances)
              |          \- fills ---> mark-price-service -> markprice:<m>, liquidations
              |           \ fills ---> ws-server -> browsers
              | book-updates
              v
        snapshot-worker -> orderbook:snapshot:<m> -> matching-engine, on boot
```

Each stream has a consumer group per reader. Redis hands a message to a group
once (`>`), keeps it pending until XACK, and hands a pending one out again only
to a reader that asks (`0`, or XAUTOCLAIM). Which loops ask, and which do not,
decides most of what a crash costs.

| Component | State | Operations | Hard because |
|---|---|---|---|
| matching-engine, book (`src/book.ts`, `helper/helper.ts`) | a book per market: price ladders of levels, each a queue and a kept total | match, rest, remove | totals are kept by increments in three places; own orders are skipped and stay |
| matching-engine, loop (`index.ts`) | books and the set of processed ids, in memory; the message in hand | read one, match, publish fills, cancel, book, acknowledge | the book changes before anything is published; every await can fail; a restart takes a stored, older book; pending messages are not read again |
| snapshot-worker | stored books; the batch in hand | read a batch, SET each book | a batch in hand at a crash is never stored |
| db-worker | Postgres rows; the fills and cancels in hand | recovery read, fills loop with claim, cancels loop, `settleFill`, `settleCancel` | redelivery, aborts, lost answers, two loops on the same rows, five branches of position arithmetic |
| backend, orders | order rows, balances, `eventPublished` | place (lock margin, write, publish, mark), reconcile, request a cancel | unlocked read before a lock; publication apart from commit; retries and the sweep duplicate |
| backend, markets | Market rows; a cache of their ids | create, delete, refresh, check an order's market | a cache that is refilled and told at the same time; a deletion that counts before it deletes |
| backend, accounts | User and Balance rows; signed tokens | sign up, sign in, on-ramp, balance, orders, positions | - |
| mark-price-service | mark prices; no memory between sweeps | set price per fill; every second liquidate | sweeps from stale positions, overlapping sweeps, an exception ends a sweep |
| ws-server | its place in `fills`, the messages in hand, the open sockets | read a batch, broadcast, acknowledge | restarts between broadcast and acknowledgement; sockets come and go meanwhile |
| web, session | the token in localStorage, again in each tab; the tables of each tab | log in, log out, poll, drop an expired token | polls overlap, outlive the session they belong to and carry the token of the moment they were made |
| web, feed | socket, trades, last prices live and asked for | connect, reconnect, receive, ask | gaps between connections; answers that are late, empty or out of order |
| packages/db, worker.ts, render.yaml | schema; process layout | - | four loops in one process die together |

What makes each part correct:

- *book*: quantity is neither lost nor used twice; every trade is within both
  limits and between two users; best price first, then first come; the book
  never stands crossed between two users; a cancel is final.
- *loop and snapshot worker*: while nothing breaks it, the loop with all its
  awaits is one indivisible match per order; whatever fails, books stay well
  formed and a failure alone never overfills; the stored book catches up; both
  processes reach the end of their streams, unless the loop of the second was
  stopped.
- *db-worker and order placement*: a fill counts once, for both sides, and in
  the end; money is conserved; a position's margin fits its entry; what is
  locked is what positions and open orders account for.
- *mark-price-service*: a liquidation costs its margin once and nothing else;
  a position that has crossed its liquidation price does not stay.
- *order publication*: every committed order is put before the engine in the end
  and marked as published only then; however often it is published, a second
  match of it is owed to a fault of the engine; a cancel of an order the engine
  remembers keeps it out of the book.
- *markets*: a market that is deleted leaves nothing open behind; the cache comes
  to agree with the table.
- *session*: every tab comes to show the rows of whoever is signed in, a session
  ends only for a cause, an expired token does not stay.
- *feed*: trades are shown once, in order and, while a connection lasts, all of
  them; prices do not step back; a page that is cut off comes back.

The list of everything in this code that is hard to test, each at its line and
with the properties that watch it, is under `hazards` in `PROJECT.json`.

## The modules

| Module | Code | Kind |
|---|---|---|
| `OrderBook` | `apps/matching-engine/src/book.ts`, `helper/helper.ts`, end of the order branch of `index.ts` | operators on a book |
| `Matching` | what the engine promises | abstract specification |
| `MatchingEngine` | `apps/matching-engine/index.ts`, `apps/snapshot-worker/index.ts`, publications of `apps/backend/index.ts` | processes, faults, restarts; implements `Matching` while intact |
| `Positions` | `applyPositionUpdate` of `apps/db-worker/index.ts`, margin of `POST /api/order` | operators on an account |
| `NetPositions` | what settlement promises | abstract specification |
| `Settlement` | `apps/db-worker/index.ts`, `POST /api/order`, `schema.prisma` | transactions, loops, faults, restarts; implements `NetPositions` |
| `Accounting` | - | the sums settlement must satisfy |
| `Liquidation` | `apps/mark-price-service/index.ts` | sweeps and mark prices next to settlement; the accounts with liquidations in them |
| `Delivery` | what the backend promises of a committed order's event | abstract specification |
| `Outbox` | `POST` and `DELETE /api/order`, `publishOrderCreated`, `reconcileUnpublishedOrders` of `apps/backend/index.ts` | handlers, sweeps, faults, restarts; implements `Delivery` |
| `MarketAdmin` | `refreshMarkets`, `POST` and `DELETE /api/admin/market`, market check of `POST /api/order` | requests and refreshes, faults, restarts |
| `Session` | `apps/web/src/api.ts`, `AuthProvider`, `Login.tsx`, `refresh` of `Trade.tsx`; sign-up, sign-in, `authMiddleware.ts`, account routes | tabs, calls, tokens |
| `Feed` | `apps/ws-server/index.ts`, `FillsProvider`, the prices of `Trade.tsx`, `GET /api/orderbook` | server loop, connections, pages |
| `OrderBookProofs` | - | lemmas: what a match, a rest and a removal make of a book |
| `MatchingProofs`, `MatchingEngineProofs`, `SettlementProofs`, `OutboxProofs`, `MarketAdminProofs`, `SessionProofs`, `FeedProofs` | - | theorems |
| `MCMatching`, `MCMatchingEngine`, `MCSettlement`, `MCLiquidation`, `MCMarketAdmin`, `MCSession`, `MCFeed` | - | instances for TLC |

Composition: `Matching` and `MatchingEngine` both extend `OrderBook`;
`MatchingEngine` instantiates `Matching` under a refinement mapping;
`Settlement` extends `Positions` and instantiates `NetPositions`; `Accounting`
extends `Settlement` with the sums over orders, fills and positions; `Liquidation` extends `Accounting`, and each of its steps is one of
settlement or one of the mark-price service; `Outbox` instantiates `Delivery`.

`Outbox`, `MarketAdmin`, `Session` and `Feed` touch the others at the edges only,
and each has its neighbours in it as the least they may do to what it looks at:
the engine in `Outbox` matches, skips or forgets an order as a whole, settlement
in `MarketAdmin` opens and closes positions, the stream in `Feed` grows.

### OrderBook, Matching

A `Record<string, Level>` is a function from the prices that have a level. The
book operations are synchronous JavaScript, so each is an operator from book to
book: `Push`, `RestOrder`, `RemoveOrder`, `MatchLevel` (inner loop),
`MatchSide` (outer loop), `Match`. The kept total `availableQty` is modelled
with the code's own increments and its `Math.max(0, ...)`, so that
`BooksConsistent` compares it with the queue. `Matching` handles an order, or a
cancel request, in one step.

### MatchingEngine

`phase` says where the loop is between two awaits; each await is an action with
an outcome: `ok`, `lost` (the command was not carried out), `unanswered` (it
was, and the call rejects all the same). Anything but `ok` goes to the loop's
catch, which drops the message and reads on.

| Action | `apps/matching-engine/index.ts` |
|---|---|
| `Read` | `xReadGroup` of `>`, COUNT 1 |
| `HandleCancel`, `PublishCancelled` | `order.cancel`: remove, XADD to `cancels` |
| `SkipDuplicate` | `processed.has(orderId)` |
| `HandleOrder` | `match()`, which changes the book at once |
| `PublishFill`, `PublishCancelled` | one XADD per fill, one for the remainder of a market order |
| `Rest` | rest the leftover, last price, `processed.add` |
| `PublishBook`, `Ack` | XADD to `book-updates`, XACK |
| `RestartEngine` | a new process: books from storage, nothing processed, nothing in hand |
| `SnapshotRead`, `SnapshotStore`, `SnapshotFail`, `RestartSnapshot` | `apps/snapshot-worker/index.ts`; nothing there is caught, so a command that fails ends the loop until the process is started again |
| `PublishOrder`, `PublishCancel` | the backend, at any time, an order more than once |

Three history variables serve the properties: `placed` (orders matched),
`intact` (no fault has hit between a match and its last publication, no restart
found storage behind, no order was matched again after a restart), and `missed`
(markets whose last book a fault kept from storage).

The refinement mapping counts an order as handled from `match()` on: fills not
sent yet are trades already, the remainder not sent yet is cancelled already,
the leftover about to rest rests (`MatchedBooks`).

### Positions, Settlement

`Positions` has one operator per branch of `applyPositionUpdate`: `Open`,
`Increase`, `Close`, `Reduce`, `Flip`.

A transaction is one step. What `settleFill` reads before it writes, `filledQty`
and the position, is written by nobody else here, and one loop runs its
transactions one after the other; balances move by increments, and the row
locks on orders and balances are held to the commit; `settleCancel` reads only
columns that never change (`initialMargin`, `qty`). So interleavings of the two
give nothing that a serial order does not, and where their lock orders differ
Postgres aborts one, which is the outcome `aborted`. The liquidation sweep is a
second writer of positions: what `settleFill` read without a lock may be gone
when it writes, but then its update or delete by key finds no row and throws,
and that is `aborted` again. The exception is `POST /api/order`: its read of the
position takes no lock, so `PlaceRead` and `PlaceCommit` are two steps and the
margin may be stale.

| Action | Code |
|---|---|
| `PlaceRead`, `PlaceCommit`, `PlaceFail` | `apps/backend/index.ts`, `POST /api/order` |
| `Trade`, `EndOfMatch`, `EngineCancel` | what the engine may publish |
| `ReadFills`, `ClaimIdle` | `consumeFills`: new messages, then XAUTOCLAIM |
| `SettleFill`, `AlreadySettled` | `settleFill`, and its P2002 |
| `AckFill` | XACK after the transaction (phase `ack`) or in the catch (`reack`) |
| `ReadCancels`, `SettleCancel`, `RestOfBatch` | `consumeCancels`, `settleCancel`; a failed transaction is logged and the next cancel of the batch taken |
| `Restart` | a new worker: its pending fills are read again, its cancels are not |

Outcomes of a call: `ok`; `aborted`; `unanswered`, carried out although the
client sees an error. The XACK of the catch block, the reads and the claim are
caught by nobody: when one of them throws, the fills loop is over (phase
`stopped`) until `Restart`. Whether such a rejection takes the whole process of
`worker.ts` with it is up to the runtime; the model has both, since the rest may
go on, and `Restart` may come at once. The read of the cancels loop is caught by
nobody either: when it fails, that loop is over (`cancelsStopped`), and when it
was carried out all the same, the batch is lost with its answer.

`cancelledQty` (quantity whose cancel is settled), `crossed` (users whose
order reserved margin and then closed something) and `lostCancels` (cancels lost
with the answer of their read, with their transaction, or in hand with the
worker) are history variables.

### Liquidation

| Action | `apps/mark-price-service/index.ts` |
|---|---|
| `Mark` | one fill of the loop over `fills`: SET of the mark price |
| `StartSweep` | `position.findMany()` of the interval's callback |
| `Look` | the mark price of one position, and the comparison |
| `Liquidate`, `AlreadyGone` | the transaction, and its P2025 when the row is gone |
| `LookFails` | the mark price cannot be read |
| `Settles` | any step of `Settlement` but a restart |
| `WorkerRestarts` | all loops of `worker.ts` at once |

A sweep keeps the rows as `findMany` gave them (`todo`, and `due` between the
comparison and the transaction), and settlement goes on in between. The row's
id matters: a position closed and opened again is another row, a flipped one is
the same. Whatever throws in the callback ends that sweep. `liquidated` is
history: each row deleted, next to the row the sweep had read.

The comparison with `entry -+ margin/qty` is multiplied by the quantity.

### Outbox, Delivery

A handler and a sweep do the same thing to the orders in their list, `job`: up
to three XADDs of the first one, then the update of `eventPublished`. A handler's
list is its order, a sweep's is what its read found. A publication is indifferent
to what has become of the order since.

| Action | `apps/backend/index.ts` |
|---|---|
| `CommitOrder` | the transaction of `POST /api/order`; without an answer, the user is told `ORDER_FAILED` and nothing is published |
| `Publish` | one XADD of `publishOrderCreated`, its outcome, and the next attempt or the end |
| `MarkPublished` | the update that follows: the handler logs a failure, the sweep ends with it |
| `StartSweep` | the read of `reconcileUnpublishedOrders`: at most `Take`, in no order |
| `RequestCancel`, `SendCancel` | `DELETE /api/order/:id`: status read, message sent |
| `Restart` | the backend starts again: handlers and sweeps end where they are |
| `ReadOrder` | `apps/matching-engine/index.ts`: `xReadGroup` of `>`; without an answer the message is delivered and lost |
| `Match` | `match()`: it may fill any resting orders |
| `Remember` | everything is published: the leftover rests, if there is one, and `processed.add` |
| `PublicationFails` | a publication before `processed.add` rejects: the catch drops the order, matched and not remembered |
| `SkipDuplicate`, `HandleCancel` | `processed.has(orderId)`; `order.cancel` |
| `EngineRestart` | the engine starts again: nothing processed, nothing in hand, a stored book |
| `Settle` | the status of a matched order, as settlement may set it |

`Delivery` has three sets, of committed, announced and marked orders, and allows
an order into each only from the one before. The engine is `MatchingEngine`'s
with an order taken as a whole: what is left of its awaits is whether one before
`processed.add` fails, and whether the answer to a read is lost. What fails after
`processed.add` changes nothing here, nor does the failed publication of a cancel:
the order is out of the book by then. `sent`, `matched`, `dropped` and, since the
engine's last start, `matches`, `slips` and `cutAfter` are history. The sweep's
age limit of five seconds is dropped: a handler may well be slower than that,
and is not waited for.

### MarketAdmin

`deletion[m]` collects how far a `DELETE` request for `m` has come: the two
counts of the `Promise.all` happen at two moments, in either order, then
`deleteMany`, then the cache is told. `refreshes` holds what each refresh under
way has read; the answers may come in any order, and each replaces the cache
whole. `creating` holds markets whose row is written and whose handler has not
gone on. An order is checked against the cache (`CheckMarket`) and committed
later (`CommitOrder`). `raced` is history: the markets in which an order was
committed or a fill settled while a deletion was under way, or later.

### Session

A call is a record: what it asks, the token that was stored when it was made
(`carried`), and its answer. It is made, served and finished in three steps, and
a tab has several under way (`Slots`). `Finish` has the 401 branch of `request()`,
the tables the answer goes into, and the next call of the same `refresh`. Rows
are reduced to their user and a version that every deposit, order or fill raises.

| Action | Code |
|---|---|
| `Submit`, `ServeLogin`, `FinishLogin`, `Logout` | `Login.tsx` and `AuthProvider`; `POST /api/signup`, `/api/signin` |
| `PollAsGuest`, `Poll` | `refresh` of `Trade.tsx`, every four seconds, whatever is still under way |
| `Serve` | `authMiddleware.ts`, then `GET /api/orders` and `/position`, or `/balance` |
| `Finish` | the end of `request()`, and `setOrders`, `setPositions`, `setBalance` |
| `Reload` | the page is loaded again |
| `Expire`, `Change` | a token's seven days are over; rows of a user change |

### Feed

A fill is its position in the stream, which is its price as well, so that an
older price is a smaller number. A fill the engine publishes twice is two
entries of the stream.

| Action | Code |
|---|---|
| `Read`, `Broadcast`, `Ack`, `Restart` | the loop of `apps/ws-server/index.ts`; nothing in it is caught |
| `Connect`, `Open`, `Closed` | `connect` and its handlers in `state.tsx`, with the address that `GET /config` gave, or the guess when it failed |
| `Cut` | a connection breaks, and the page does not know yet |
| `Receive` | `onmessage`: the list of trades and the live price |
| `Ask`, `Seed` | `GET /api/orderbook` for every market, and its answers, in any order |
| `Reload` | the page is loaded again |

`since` (the last fill out when a page's socket opened) is history.

## The runs

Times are on two cores; each run ends within five minutes.

| Run | Question | Distinct states | Result |
|---|---|---|---|
| `matching` | Does matching as one step keep quantities, books, limits, price-time priority, for every sequence of three orders and their cancels in two markets? | 762 thousand | holds |
| `engine` | What is left of it when every await can fail or be cut short, messages come twice, and either process restarts? | 3.1 million | holds |
| `engine_liveness` | Do engine and snapshot worker reach the end of their streams? | 133 thousand | holds |
| `settlement` | Do balances, positions and reservations add up through every order of fills and cancels, with a call that fails? | 1.7 million | holds |
| `settlement_restarts` | Is every fill settled once, for both sides, in the end, and every cancel but those lost themselves, when calls fail and the worker restarts anywhere? | 419 thousand | holds |
| `liquidation` | What do liquidations cost, and is every crossed position closed in the end, when two sweeps overlap each other and settlement, a call fails, and the worker restarts? | 772 thousand | holds |
| `outbox` | Is an order marked only when it has been published, is it matched in the end unless it was lost between the stream and the match, and what does the engine make of its copies, when publications are retried, swept again, lost or unanswered, the engine's own calls fail, and either process restarts? | 1.7 million | holds |
| `market_admin` | What can be left behind in a deleted market, and does the cache come to agree with the table? | 475 thousand | holds |
| `session` | Do two tabs with one token end up showing the right rows, and does a session end only for a cause? | 198 thousand | holds |
| `feed` | What does a page show when the ws-server restarts, connections break and answers are late? | 670 thousand | holds |
| `engine_overfill`, `stranded_margin` | see *Disagreements* | | violated |

What the properties say:

- `matching`: `QtyConserved` (asked = traded + resting + cancelled, per order),
  `LegalTrades`, `BooksConsistent`, `NeverCrossed`, `PriceTimePriority` (an
  action property over all makers eligible before the step), `CancelIsFinal`.
- `engine`: `BooksSound` (levels add up and nothing crosses, in memory and in
  storage, after any fault), `SnapshotCatchesUp` (at rest, storage is memory,
  cancels included, unless a fault kept the last update from being stored),
  `FailuresNeverOverfill` (failing awaits alone only lose quantity),
  `AtomicWhileIntact` (the loop implements `Matching`).
- `engine_liveness`: `Drains`.
- `settlement`: `MoneyConserved` (cash plus positions at entry equals the
  deposit, per user), `MarginMatchesEntry`, `LockedIsExact` (locked = margins
  of positions + reservations of what is neither filled nor cancelled, for users
  none of whose reserving orders closed a position).
- `settlement_restarts`: `FilledExactlyOnce`, `ImplementsNetPositions`,
  `FillsSettle` (after a failed call: settled or still pending, unless the loop
  is stopped), `CancelsSettle` (while the cancels loop goes on, whatever is in the
  `cancels` stream is settled in the end, but those cancels that were lost
  themselves: in hand at a restart, in a read whose answer was lost, or in a
  transaction that failed; so neither the rest of a batch nor a later cancel is
  lost with them, whatever else has failed).
- `liquidation`: `LiquidationCosts` (a user's money is `MoneyConserved`'s sum,
  the deleted positions at entry included, less the margin read for each
  deleted row), `LockedUpToStale` (what is locked stays explained, up to the
  difference between margins read and margins deleted), `CrossedIsClosed`.
- `outbox`: `ImplementsDelivery`; `RematchOwed` (one engine matches an order
  once, and once more for each match of it whose publications failed, so retries
  and overlapping sweeps alone never cause a second match); `CancelSticks` (a
  cancel handled after its order, for an order the engine remembers, holds until
  the engine is started again); `Delivered` (the orders left out are those given
  to the engine and lost before they were matched: with the answer of the read,
  or with the engine).
- `market_admin`: `DeletedFlat`, `CacheSettles`.
- `session`: `ScreensHeal`, `ExpiredIsDropped`, and the action property
  `SessionLasts`.
- `feed`: `ShownInOrder` (what is shown and what is under way, together),
  `NothingMissing`, `PriceStays` (an action property), `PricesCatchUp`
  (reconnections included).

Each property of a passing run has a mutant in `PROJECT.json`: a definition of
the model changed as a plausible bug would change the code, under which TLC finds the
property violated. The faulty variants stand in the modules marked as faulty and
are used by nothing else.

### Bounds, and why they are enough

- `matching`: 3 orders, 2 users, 2 markets, prices 1..2, quantities 1..3,
  limit and market, in any order, with any cancels. Three orders make a queue
  at one price, two levels, an own order to skip, a partial fill and a
  leftover; users, markets and order ids are symmetric and declared so.
- `engine`: 2 makers at two prices and a market taker that takes both and wants
  more (so two fills and a remainder are published one by one); each order
  published at most twice, one cancel request per order, 4 messages,
  1 undelivered at a time (`MaxBacklog`: what waits undelivered is seen by
  nobody), 1 failing await, 1 restart of either process, batches of 2.
  Every await can be the one that fails or the last one before a restart.
- `engine_liveness`: the same makers and a limit taker, 3 messages.
- `settlement`: 2 users, 1 market, 5 requests chosen so that positions open,
  grow, shrink, close and flip, limit and market, leverage 1 and 2; one failing
  read, claim, transaction or acknowledgement. Prices are multiples of 36, which makes every
  share, margin and average of these quantities whole.
- `settlement_restarts`: 4 requests, one failure and one restart; batches of 2,
  so that a restart finds fills settled, in hand and unread together, and the
  failure can be any call, the read of the cancels among them.
- `liquidation`: a position of two is opened with leverage 2, the price halves,
  and the order that makes it halve sells one, so settlement reduces what the
  sweeps have read, or opens a short position after them. Two sweeps (a third
  adds nobody new to disagree with), one failing call, one restart.
- `outbox`: 2 orders, one sweep of up to 2 at a time, next to the two handlers:
  the sweep and a handler of the same order overlap as two sweeps would. Two
  attempts, so that one can be followed by another and by none; 2 cancel requests,
  failures and restarts, those of the engine included; one unread message, the
  publishers waiting meanwhile.
- `market_admin`: one market that exists and one that is created, 2 orders in the
  one and 1 in the other, 2 refreshes under way, 3 admin requests, failures and
  restarts, one request at a time to delete a market.
- `session`: 2 tabs, one of which has up to two calls under way; a user who is
  signed in and can sign in again, and one who signs up; 2 of logins, logouts,
  reloads, deposits and fills, expiries and failing calls. A third tab adds
  nobody new: each has the stored token to agree with, and its own.
- `feed`: a page and 3 fills in 2 markets; a list of 2 trades, so that one is
  pushed off it; reads of 2, so that one is in hand while another is on its way;
  2 calls that may overtake each other; 2 of restarts, cuts, reloads and failed
  calls. Pages do not meet, and the proofs are about any number. A ws-server that
  is down is one at which attempts to connect fail.
- The counterexample runs use the smallest instance that shows the case:
  `engine_overfill` a maker and two takers of its whole quantity, each published
  once, no cancels, one restart; `stranded_margin` the requests of `settlement`
  without faults.

Deadlock is not checked: the backend need not place or cancel anything, and the
bounds end every behaviour.

## Fairness

- `MatchingEngine`: weak fairness of the engine's awaits (`Awaits`), of the
  match (`HandleOrder`) and of the snapshot worker (`Snapshot`). They are
  `while (true)` loops whose blocking reads Redis answers when there is a message. A failed
  call of the engine ends in a catch and the loop goes on, so fairness is of the loop's steps and
  says nothing about how a command comes out. The fairness of `HandleOrder` is
  written with the condition that enables it, since TLC would otherwise repeat
  the match to find whether it is enabled.
- `Settlement`: weak fairness of `ConsumeFills` and of `ConsumeCancels`, which
  are such loops too, until a failure nobody catches ends one of them. A worker
  that dies is started again by the platform (`render.yaml`, one always-on
  instance), and a process that is down is one that takes no step: `Restart`
  joins the death and the new start, and has no fairness.
- `Liquidation`: weak fairness of each sweep. The interval fires every second
  whether or not the last callback is done; one that throws is replaced by the
  next. Nothing is assumed of settlement or of the loop that sets mark prices:
  the promise is about the prices that are set.
- `Outbox`: weak fairness of each sweep, its start (`setInterval`, every 15
  seconds) and its steps, and of the engine's loop, failing reads and publications
  among its steps. Not of handlers: a handler that dies or gives up is what the
  sweep is there for.
- `MarketAdmin`: weak fairness of the refresh, its read (`setInterval`, every 10
  seconds) and its answers.
- `Session`: weak fairness of each tab's timer and of the answers to its calls,
  failures included. A tab stays open.
- `Feed`: weak fairness of the server's loop, of each page's connection (it tries
  again two seconds after each close) and of its handling of messages. Not of
  the page's own calls.
- No fairness for the requests users make, for the claim of idle fills (it
  happens only after a new batch arrives, and takes whichever it takes), or for
  restarts. So after a failed call `FillsSettle` asks only that each fill is
  settled or pending: the code leaves a failed one pending until somebody trades
  again. And nothing is asked of a loop that an uncaught failure has ended, until
  a restart.

## The proofs

All theorems hold for every value of the constants that satisfies the named
assumptions of the modules. Where a proof needs more, the theorem says it.

### The book and the engine

`OrderBookProofs` holds the lemmas. The code walks queues and price ladders in
loops, and `OrderBook` writes those loops as folds. Induction over data is out
of the prover's reach, but induction over a range of numbers is not: `Upwards` is
that, from the well-foundedness of finite subsets, and lemmas such as
`QtyOfStates`, `VisitStates` and `SideStates` unroll a fold into the sequence of
states the loop goes through, one per order or price. `LevelVisited` is then the
inner loop's invariant (the queue keeps its order, `availableQty` stays the sum of
what is left, the `Math.max(0, ...)` never bites, and a taker that wants more has
left nothing but its own orders), `SideMatched` the outer loop's, `MatchSound`,
`RestSound` and `RemoveSound` what the three operations do to a sound book.

`MatchingProofs`: `LevelsAddUp`, `BooksNeverCross`, `TradesAreLegal`, that is
`BooksConsistent`, `NeverCrossed` and `LegalTrades`. The invariant `MInv` says
that each book is typed (a level's figure is the sum of its queue), uncrossed,
that each resting order is one that was handled in this market, with its own
side and price (`Stems`), and that every trade is legal. A book stays uncrossed
because a leftover rests only when `match` has run out of orders it could trade with:
had `match` ended for another reason, `BooksNeverCross` would be false.

`QuantitiesAddUp == Spec => []QtyConserved` needs `CInv` beside it: cancels are
of handled orders, and what of any order was traded, rests and was cancelled adds
up to its quantity. The argument follows the quantity of one id through the code:
what rests of an id is a sum over two ladders, each a sum over levels, each a sum
over a queue (`RestingQty`), and `OrderBookProofs` shows of each operation what it
does to that sum. A visit takes from a row what it writes into the fill, the
filter at the end of a level drops rows that want nothing, a level is put back or
deleted without touching the others, and so on out to `MatchHolds`: what the book
loses of an id is what the fills gave to it as a maker. The taker's own side of
each fill is counted by the same sums, under the condition that the rows of its id
are its owner's own (`OwnBook`): a fresh id, which has no rows, meets it. Resting a leftover adds
it, and a removal takes out the one row it returns.

`CancelsAreFinal == Spec => CancelIsFinal` and `BestServedFirst == Spec =>
PriceTimePriority` are action properties, from `MInv` and `FInv`: each queue holds
its orders in the order they were handled in. So no order is in a queue twice, and
with `Stems` it is nowhere but at its own side and price.

- A removal then leaves nothing of the order, a match never takes from it again,
  and a market order's remainder never rests: once an id was cancelled, its sums
  before and after a step are equal by `QtyConserved`, and each can only grow.
- For priority, inside a level, when a row is reached and the taker still wants
  something, all rows before it are spent or the taker's own; on the ladder,
  prices come best first and a level left behind has only the taker's own rows.
  `AllServed` says this of a whole match. `FInv` turns positions in a queue into
  the order of handling; `MatchHolds` shows that what is gone from the book is full.

`MatchingEngineProofs`, for all sets of orders and markets and all fault bounds.
`OrdersAssumption` is that orders have an id each and the columns of the schema,
and a price exactly when they are limit orders.

- `FaultsLeaveBooksSound == Spec => []BooksSound`, `EngineTypes == Spec =>
  []TypeOK`, from `SInv`: the streams and how far they are read (a batch of the
  snapshot worker is the part of the stream just before `read`); every book, in
  memory, stored or on the way to storage, is sound; and for the message in hand,
  that its leftover meets nothing it could trade with (`Clear`). That last part is
  what the engine needs because other than in `Matching` it rests the leftover
  several awaits after the match.
- `StorageCatchesUp == Spec => []SnapshotCatchesUp`, from `CatchInv`: for a market
  no fault has hit, the book that will be stored last (the last update the worker
  has not stored, or else the stored one) is the engine's, unless its update is
  still to be published.
- `LoopImplementsMatching == Spec => AtomicWhileIntact`: while nothing has failed,
  each step of the loop is a step of `Matching` or a stutter. From `RInv`: while
  the engine is intact and was not started again, every order it has matched,
  except the one in hand, is in `processed`.
- `FailuresOnlyLose == Spec => []FailuresNeverOverfill`, from `OInv`: an order's
  share (what it traded, had cancelled and has resting when what is in hand counts
  as done) is at most its quantity, and nothing before it is matched. A match gives
  a share as much as it is due, a cancel moves it from the book to the stream,
  publications leave it alone, and a message that is dropped takes from it. That a
  matched order is not matched again, though a failure can keep it out of
  `processed`, is because it was read from the stream before (`WasRead`).

### Settlement and liquidation

`SettlementProofs`, for all sets of users, and finite ones of markets and order
ids (`FiniteAssumption`, from `Accounting`, for the sums), all requests, batch
sizes, deposits and fault bounds. Assumed are `RequestsAssumption` (requests are
well-formed orders, positive quantity, price and leverage, as `zod/order.ts`
demands), `BoundsAssumption`, and for liquidations `SweepsAssumption`.

- `PositionUpdateAdds`: the five branches of `applyPositionUpdate` always give a
  well-formed account (a row is never empty, whatever is closed or flipped) and
  move the signed position by the signed quantity of the fill. One lemma per branch.
- `TypeCorrect == Spec => []TypeOK`.
- `Implements == Spec => ImplementsNetPositions`: settlement with its loops,
  redelivery, aborts, lost answers and restarts implements `NetPositions`: a
  published fill moves its quantity from seller to buyer at most once, and for
  both in the same step.
- `FillsCountOnce == Spec => []FilledExactlyOnce`.
- `MoneyIsConserved == Spec /\ [][EvenAverages]_vars => []MoneyConserved`.
- `LiquidationsCost == LiquidationSpec /\ [][EvenAverages]_allVars =>
  []LiquidationCosts`.
- `LocksAreExact == Spec /\ []EvenReservations => []LockedIsExact`;
  `LocksUpToStale == LiquidationSpec /\ []EvenReservations => []LockedUpToStale`.
- `MarginsMatchEntry == Spec /\ [][EvenAverages /\ EvenMargins]_vars =>
  []MarginMatchesEntry`.

Its inductive invariant is `IInv == TypeOK /\ FillsMatchOrders`.
`FillsMatchOrders`, that the two orders of a published fill belong to different
users and opposite sides, is needed because `settleFill` writes two positions
and two balances one after the other: were they the same account, the second
write would undo the first. The types alone do not exclude it; the engine's
skip of own orders does, and `Trade` carries it. `TypeOK` is strong enough to be
inductive with it, since it confines each loop to what Redis has delivered
(`fillRows`, `fillsPending`, `work` within `1..fillsRead`, `fillsRead` within
the stream). One lemma per group of actions shows that it is kept.

For the refinement, `VisibleSteps` shows that a step is a trade, a fill that
commits and had no row, or leaves stream, Fill rows and positions alone;
`TradeIsPublish` and `ApplyIsSettle` map the first two. That `Apply` happens
only without a row (`HasRow`, the unique key on the stream id) is where
idempotence enters.

`FilledExactlyOnce` also bounds what was filled, so its invariant `AInv` follows
quantity from the engine to the rows: what the engine has left of an order and
what it has published of it do not exceed the request (`WithinQty`), a cancel
takes all that is left, once (`CancelsAreFinal`), what is cancelled in the
database was cancelled by the engine (`CancelledOnce`), a row has counted the
fills settled (`RowsCount`), and only orders with a row are live (`OnlyPlaced`).

For money, `UpdatePays` shows, again branch by branch, that a position update
changes free and locked money less the position at entry by the fill's volume:
the margin only moves between the two, and the profit of what is closed is what
the volume and the entry leave over. A step then changes one user's sums by one
term (`PartGrows`, `TotalChange`). `EvenAverages` is the condition that when a
fill adds to a position, the average of the two prices has no remainder. The code
averages with `Prisma.Decimal`, which keeps 20 digits; the model with `\div`, and
an average that is cut off moves what the position has cost by that remainder.
So the theorem is about averages that are exact, and with rounded ones the
property does not hold to the last digit, in the model or in the code. The runs
of `Settlement` and `Liquidation` have prices for which every average is exact.
The averages are the only condition of `MoneyIsConserved` and `LiquidationsCost`:
margins and the shares of them may be rounded in any way.

For what is locked, `UpdateLocks` shows of each branch that locked money less the
position's margin falls by the fill's share of the order's reservation, and by
nothing else: margins may be rounded in any way, since what is cut off a margin
is cut off the lock too. It needs that the branch opens or increases or that
nothing was reserved; the closing branches give no share back, which is why a
user in `crossed` is left out (and why `NothingStranded` is violated). Reservations
are released piece by piece, a fill or a cancel at a time, and the pieces of
`reservation * qty / orderQty` add up only if each is exact. `EvenReservations`,
that an order's quantity divides what it reserved, makes them so (`SharesAdd`).
The invariant adds `Reserves`, that a reservation is never negative, and uses
of `AInv` that an order is placed before it is traded or cancelled, and that
nothing is cancelled of one that is placed only now. Of a sweep, `LiquidateLocks`
shows that it takes a row's margin out of the margins and unlocks the one it had
read, which is the difference `LockedUpToStale` allows.

For margins the inductive form is `AllBacked`: a position's margin times the
leverage of some order of its owner is at least its entry value, and times that
of another at most; the highest and the lowest leverage follow (`Extremes`).
`UpdateBacks` shows that each branch keeps it: what a fill opens is exact at its
order's leverage, margins that are added are bounded by the higher and the lower
of both (`MarginsAdd`), and a reduction keeps margin and entry value in
proportion (`MarginShrinks`). The average entry has to be exact too, since it says
what the entry value is. `EvenMargins` says that a margin opened and a share
released by the fills settled have no remainder; one of the first would leave the
margin under what the property allows, one of the second over it. New orders
only add leverages (`PlacedGrows`).

The three conditions on remainders stand for the 20 digits of `Prisma.Decimal`.
They are conditions on an execution, not on the constants, and they are not
empty: on the instances of `settlement` and `settlement_restarts` all of them
hold in every state and step, on that of `liquidation` those of its two theorems do.

For liquidations `LInv` adds that a row that was deleted is not there any more:
the account has none or one with a later id (`DeletedOnce`), so that overlapping
sweeps cannot both take the same margin.

`OutboxProofs`, for all finite sets of orders, all sets of sweeps, batch sizes,
attempts and fault bounds: `TypeCorrect`; `AnnouncesThenMarks == Spec =>
ImplementsDelivery`; `RematchesAreOwed == Spec => []RematchOwed`;
`CancelledStaysOut == Spec => []CancelSticks`. The refinement needs that a job at
its update has an order that was sent. The last two rest on `Owed`: every match
of an order that the engine neither remembers nor is publishing has slipped, so
that the next one is accounted for; the order being published is not remembered;
and what was cancelled after its order is remembered, so that no copy of it is
matched and rests again.

`MarketAdminProofs`, for all sets of markets and orders, any number of refreshes
and events: `TypeCorrect`; `DeletedMarketsAreFlat == Spec => []DeletedFlat`. The
invariant says of each count what it has excluded: once the orders are counted
there are none open unless the market is in `raced`, likewise for the positions,
and a deletion that may go ahead has counted both.

`SessionProofs`, for all sets of tabs, users and tokens: `TypeCorrect`;
`SessionsEndForCause == Spec => SessionLasts`. The invariant is that a call
answered 401 carried no token or one that has expired, and that a token that
has expired is never valid again; so the token that a late 401 drops, when it
is still valid, is not the one the call carried.

`FeedProofs`, for all sets of pages and markets, any stream, batch size, list
length and fault bounds: `TypeCorrect`; `NoGaps == Spec => []NothingMissing`;
`TradesInOrder == Spec => []ShownInOrder`; `PricesNeverStepBack == Spec =>
PriceStays`. The invariant adds that what the server has in hand is consecutive
up to the last fill read, and that a page's channel ascends, its list descends
from below the channel, and its live prices are below the channel too.
`PageSteps` reduces every step of the system to what it does to one page:
nothing, a fill sent, a fill received, a connection ended.

### Only model-checked

- Liveness needs ENABLED: `Drains`, `FillsSettle`, `CancelsSettle`,
  `CrossedIsClosed`, `Delivered`, `CacheSettles`, `ScreensHeal`,
  `ExpiredIsDropped`, `PricesCatchUp`.
- That the quotients of an instance come out even, where a theorem has it as a
  condition (above).

## Disagreements between the code and its documents

Two runs state what a document says and TLC finds it violated:

| Run | Says | The code |
|---|---|---|
| `engine_overfill` | `README.md:21`: the book is snapshotted "after every match and restored by the matching engine on restart", so "a crashed service resumes exactly where it left off" | the stored book lags the published fills; after a restart between the two, a maker that was filled is whole again, and the next taker fills it again, beyond its quantity |
| `stranded_margin` | `README.md:19`: "an order that closes or reduces a position releases margin at settlement instead" | when the closing order had itself reserved margin (placed before the position existed, or its position read stale), closing and reducing give none of it back; a flip gives all of it back whatever part is filled. A flat user with no order left has locked margin |

Others are the conditions in the properties: without its condition each of these
properties is violated, and says what a document or comment says.

| Property, and its condition | Says | The code |
|---|---|---|
| `Delivered`: unless the order was lost between the stream and the match | `README.md:21`: "instead of dropping messages" | the engine only reads `>`: an order it has in hand when it ends, or that a read delivers without an answer, stays pending and is never matched. The order is marked as published, so no sweep takes it up either |
| `CancelsSettle`: but for cancels lost themselves, while the loop goes on | the same line | the cancels loop has no recovery read and no second try: a cancel in hand when the worker ends, delivered without an answer, or in a transaction that fails is never settled, and its margin stays locked. A read that throws ends the loop until a restart |
| `RematchOwed`: by one engine, and but for failed publications | `apps/backend/index.ts:278`: the `processed` set "makes a redundant republish harmless if it actually did get through the first time" | `processed.add` comes after the awaited publications of the fills: when one of them fails, the order is matched and not remembered, and its next copy is matched again, without any restart. A restarted engine has forgotten everything |
| `CancelSticks`: for orders the engine remembers, until it is started again | the same comment | a copy that comes after the cancel of a forgotten order is matched, and rests again |
| `DeletedFlat`: unless the market was used while it was being deleted, or later | `index.ts:153`: "refuse until the market is flat" | two counts and a deletion are three statements, and an order that has been checked is committed later |
| `DeletedFlat`, the same | `index.ts:170`: "stop accepting new orders for it immediately" | a refresh that read before the deletion puts the market back until the next one |
| `LockedUpToStale`: up to what was stale | `apps/mark-price-service/index.ts:43`: "entire margin consumed" | the margin is the one read when the sweep began; after a fill settled since, the deleted row had another |
| `ScreensHeal`: for a tab that is signed in while a token is stored | `apps/web/src/api.ts:55`: "fall back to guest mode instead of every poll failing forever" | a tab that stays signed in when another logs out polls without a token, and its 401s are not looked at (`:57`) |
| `PricesCatchUp`: unless the address was guessed | `apps/web/src/state.tsx:163`: "we can't assume same-origin" | one failed `GET /config` is kept for the page's life |

And settlement can set PARTIALLY_FILLED for good on an order whose cancelled
remainder was settled before one of its fills, where `README.md:18` says "any
unfilled remainder is cancelled outright": each transaction writes the status
from what it knows alone (`apps/db-worker/index.ts:162` and `:430`). No property
is about the final status.

## Abstractions

- *The engine in `Settlement`* may match any two orders whose limits meet, without
  priority, and may cancel what rests at any time. That is more than the engine
  does, so what holds there holds with the engine. It matches each order once:
  the overfill after an engine restart is the subject of `MatchingEngine` and is
  not fed into settlement. Publication of `order.created` is part of `PlaceCommit`
  here, its losses and duplicates are in `MatchingEngine`.
- *Amounts* are integers. `Prisma.Decimal` divides to 20 digits; instances are
  scaled to divide evenly, and the proofs use integer division, of which they need
  that it yields an integer, and where a theorem says so that it is exact
  (`EvenAverages`, `EvenReservations`, `EvenMargins`). Quantities in the engine are
  doubles in the source; their rounding is not modelled.
- *Balances* may go below zero in the model: settlement takes extra margin
  without a check, as in the code.
- *Market orders* carry the price the client sends; it counts for their margin,
  never for matching.
- *Leverage* rides along in the book and is left out there.
- *Redis* neither loses data nor reorders a stream; XAUTOCLAIM's idle minute is
  any moment after a new batch; the recovery read of 1000 is unbounded.
- *Restart* is one step, death and new start joined.
- *In `Outbox`* the quantities are gone: an order rests or not after it is
  matched, any resting orders may be filled by it, and a publication may fail for
  every order that is matched, though one that fills nothing and rests has
  none before `processed.add`.
- *In `Session`* orders and positions are one call, as `Promise.all` joins them;
  either failing is the call failing.
- *In `Feed`* the page's calls are made and served at one moment, since nothing
  on the page depends on when they left, and a failed call is one that is never
  answered. Prices that are not positive numbers do not occur in a fill.

## Not modelled

- A mark-price loop that stops (its SET is not caught): no property asks that
  mark prices be set.
- Validation (`zod/`), password hashes, the aggregation of the book in `GET
  /api/orderbook`, routes that only read: functions of one request.
- `MarketsProvider`: the list of markets of a page, cached in localStorage and
  replaced by an answer. Nothing but the page depends on it.
- The rest of `apps/web`: forms, tables, the wallet, layout; the charts and
  tickers come from Binance and Bybit and meet nothing of the exchange.
- The chart's `series` of `FillsProvider`: the same steps as its list of trades.
- Migrations, connection pools, deployment files. What the process layout
  implies, that all four loops die together, is in the restarts.

## Plan

Done, in this order: `OrderBook` and `Matching` (the exchange's core, and the
abstract specification), `MatchingEngine` (faults and restarts around it),
`Positions` and `Settlement` (where money moves), `Accounting`, the theorems
about settlement, `Liquidation`; then `Outbox` with `Delivery`, `MarketAdmin`,
`Session`, `Feed`, and their theorems; the theorems about books, the engine's
loop, money and liquidations.

Next:

1. `Exchange`: `Outbox`, `Matching`'s promises and `Settlement` composed, on the
   smallest instance, for the end-to-end promise that an order's margin is
   released or becomes a position's.

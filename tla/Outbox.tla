------------------------------- MODULE Outbox --------------------------------
(***************************************************************************)
(* How an order gets from its row to the matching engine.  The backend     *)
(* commits it, publishes order.created with retries and then marks the row *)
(* as published, one await at a time; a sweep every fifteen seconds        *)
(* publishes again what is OPEN and not marked (its age limit of five      *)
(* seconds is dropped: a handler may well take longer).  Cancel requests   *)
(* go into the same stream.  The engine and settlement are here by what    *)
(* they do to an order as a whole, margin and quantities are in Settlement *)
(* and the check of the market is in MarketAdmin.                          *)
(***************************************************************************)
EXTENDS Naturals, FiniteSets, Sequences, SequencesExt

CONSTANTS
  OrderIds,
  Sweeps,     \* bound: sweeps that run at one time
  Take,       \* orders per sweep (50 in the source)
  Attempts,   \* XADDs per publication (3 in the source)
  MaxEvents,  \* bound: cancel requests, failing calls and restarts
  MaxPending  \* bound: messages the engine has not read (a publisher then waits)

ASSUME OutboxAssumption ==
  /\ OrderIds \cap Sweeps = {} /\ IsFiniteSet(OrderIds)
  /\ Take \in Nat \ {0} /\ Attempts \in Nat \ {0} /\ MaxEvents \in Nat
  /\ MaxPending \in Nat \ {0}

VARIABLES
  status, eventPublished,        \* columns of the order rows; "CLOSED" is FILLED or
                                 \* CANCELLED
  job,                           \* by handler and sweep: the publications it has to do
  cancelling,                    \* cancel requests that found the order open
  stream,                        \* of "orders", what the engine has not been given
  inHand, publishing,            \* the message it has; it is between match and the end
  processed, resting,            \* its memory
  sent, matched, dropped,        \* history: orders announced; matched; lost with an answer or
                                 \* an engine
  matches, slips,                \* history, since the engine's start: how often an order was
                                 \* matched, and how often its publications then failed
  cutAfter,                      \* history: cancelled in this engine's memory of them
  events                         \* how many of MaxEvents have happened

memory  == <<inHand, publishing, processed, resting>>
history == <<dropped, matched, matches, slips, cutAfter>>
engine  == <<stream, memory, history>>
vars    == <<status, eventPublished, job, cancelling, engine, sent, events>>

Open      == {"OPEN", "PARTIALLY_FILLED"}
Committed == {o \in OrderIds : status[o] # "NONE"}
Event     == events < MaxEvents /\ events' = events + 1

\* A publication: the orders to publish, the first one at its XADD or at the
\* update of eventPublished, and the attempts left; the update has one.
Work(todo) == [todo |-> todo, at |-> "publish", left |-> IF todo = <<>> THEN 0 ELSE Attempts]
Idle       == Work(<<>>)

Created(o) == [type |-> "order.created", order |-> o]
Cancel(o)  == [type |-> "order.cancel", order |-> o]
NoMessage  == [type |-> "none"]

Init ==
  /\ status = [o \in OrderIds |-> "NONE"]
  /\ eventPublished = [o \in OrderIds |-> FALSE]
  /\ job = [p \in OrderIds \cup Sweeps |-> Idle]
  /\ cancelling = {} /\ stream = <<>>
  /\ inHand = NoMessage /\ publishing = FALSE /\ processed = {} /\ resting = {}
  /\ sent = {} /\ matched = {} /\ dropped = {} /\ cutAfter = {}
  /\ matches = [o \in OrderIds |-> 0] /\ slips = [o \in OrderIds |-> 0]
  /\ events = 0

-----------------------------------------------------------------------------
(* POST /api/order. *)

\* The transaction.  Carried out without an answer it leaves an order that the
\* user is told has failed and that nothing publishes until a sweep.
CommitOrder(o, answered) ==
  /\ status[o] = "NONE"
  /\ IF answered THEN UNCHANGED events ELSE Event
  /\ status' = [status EXCEPT ![o] = "OPEN"]
  /\ job' = IF answered THEN [job EXCEPT ![o] = Work(<<o>>)] ELSE job
  /\ UNCHANGED <<eventPublished, cancelling, engine, sent>>

-----------------------------------------------------------------------------
(* publishOrderCreated and the update that follows it. *)

Announced(j) == [todo |-> j.todo, at |-> "mark", left |-> 1]

\* Faulty: once the attempts are used up the order is marked all the same.
GivenUp_Published(j) == Announced(j)

GivenUp_Again(j) == [j EXCEPT !.left = @ - 1]   \* faulty: one attempt too many

GivenUp(j) == Work(Tail(j.todo))

\* One XADD: "ok", not carried out ("lost"), or carried out without an answer.
Publish(p, outcome) ==
  LET j == job[p]
      o == Head(j.todo)
  IN
  /\ j.todo # <<>> /\ j.at = "publish" /\ Len(stream) < MaxPending
  /\ IF outcome = "ok" THEN UNCHANGED events ELSE Event
  /\ IF outcome = "lost" THEN UNCHANGED <<stream, sent>>
     ELSE stream' = Append(stream, Created(o)) /\ sent' = sent \cup {o}
  /\ job' = [job EXCEPT ![p] = CASE outcome = "ok" -> Announced(j)
                                 [] outcome # "ok" /\ j.left > 1 -> [j EXCEPT !.left = @ - 1]
                                 [] OTHER -> GivenUp(j)]
  /\ UNCHANGED <<status, eventPublished, cancelling, memory, history>>

\* A handler logs a failed update; in a sweep it ends the whole sweep.
MarkPublished(p, outcome) ==
  LET j == job[p] IN
  /\ j.todo # <<>> /\ j.at = "mark"
  /\ IF outcome = "ok" THEN UNCHANGED events ELSE Event
  /\ eventPublished' = IF outcome = "lost" THEN eventPublished
                       ELSE [eventPublished EXCEPT ![Head(j.todo)] = TRUE]
  /\ job' = [job EXCEPT ![p] = IF outcome = "ok" THEN Work(Tail(j.todo)) ELSE Idle]
  /\ UNCHANGED <<status, cancelling, engine, sent>>

-----------------------------------------------------------------------------
(* reconcileUnpublishedOrders. *)

\* Faulty: it takes the orders that are marked.
Stale_Published == {o \in OrderIds : eventPublished[o] /\ status[o] = "OPEN"}

Stale == {o \in OrderIds : ~eventPublished[o] /\ status[o] = "OPEN"}

\* The read has no order: any Take of them, in any order.
StartSweep(s) ==
  /\ job[s] = Idle /\ Stale # {}
  /\ \E batch \in SUBSET Stale :
       /\ Cardinality(batch) = IF Cardinality(Stale) < Take THEN Cardinality(Stale) ELSE Take
       /\ \E todo \in SetToSeqs(batch) : job' = [job EXCEPT ![s] = Work(todo)]
  /\ UNCHANGED <<status, eventPublished, cancelling, engine, sent, events>>

-----------------------------------------------------------------------------
(* DELETE /api/order/:id: the status is read, then the message is sent.    *)

RequestCancel(o) ==
  /\ Event
  /\ status[o] \in Open
  /\ cancelling' = cancelling \cup {o}
  /\ UNCHANGED <<status, eventPublished, job, engine, sent>>

SendCancel(o, outcome) ==
  /\ o \in cancelling /\ Len(stream) < MaxPending
  /\ IF outcome = "ok" THEN UNCHANGED events ELSE Event
  /\ cancelling' = cancelling \ {o}
  /\ stream' = IF outcome = "lost" THEN stream ELSE Append(stream, Cancel(o))
  /\ UNCHANGED <<status, eventPublished, job, sent, memory, history>>

\* The process dies and starts again: handlers and sweeps end where they are.
Restart ==
  /\ Event
  /\ job' = [p \in DOMAIN job |-> Idle]
  /\ cancelling' = {}
  /\ UNCHANGED <<status, eventPublished, engine, sent>>

-----------------------------------------------------------------------------
(* The matching engine: one message of the stream after the other.         *)

Backend == <<status, eventPublished, job, cancelling, sent>>

\* The order that is lost with a message.
LostWith(message) == {o \in OrderIds : message = Created(o)}

\* The next message, delivered once and for all: when the answer is lost the
\* message is too, and the engine reads on.
ReadOrder(answered) ==
  /\ inHand = NoMessage /\ stream # <<>>
  /\ stream' = Tail(stream)
  /\ IF answered THEN inHand' = Head(stream) /\ UNCHANGED <<dropped, events>>
     ELSE Event /\ dropped' = dropped \cup LostWith(Head(stream)) /\ UNCHANGED inHand
  /\ UNCHANGED <<Backend, publishing, processed, resting, matched, matches, slips, cutAfter>>

\* What ends the handling of a message, in the loop or in its catch block.
ReadOn == inHand' = NoMessage /\ publishing' = FALSE

IsDuplicate_Never(o) == FALSE     \* faulty: the set of processed orders is not asked

IsDuplicate(o) == o \in processed

\* match() fills resting orders, before anything of it is published.
Match(o) ==
  /\ inHand = Created(o) /\ ~publishing /\ ~IsDuplicate(o)
  /\ matched' = matched \cup {o} /\ matches' = [matches EXCEPT ![o] = @ + 1]
  /\ \E filled \in SUBSET (resting \ {o}) : resting' = resting \ filled
  /\ publishing' = TRUE
  /\ UNCHANGED <<Backend, stream, inHand, processed, dropped, slips, cutAfter, events>>

\* Everything is published: the leftover rests, if there is one, and only now
\* the order counts as processed.  What fails after that changes nothing here.
Remember(o) ==
  /\ inHand = Created(o) /\ publishing
  /\ \E rests \in SUBSET {o} : resting' = resting \cup rests
  /\ processed' = processed \cup {o}
  /\ ReadOn
  /\ UNCHANGED <<Backend, stream, history, events>>

\* A fill, or the cancel of a market order's remainder, is not published: the
\* catch block drops the order, which is matched but not remembered.
PublicationFails(o) ==
  /\ inHand = Created(o) /\ publishing
  /\ Event
  /\ slips' = [slips EXCEPT ![o] = @ + 1]
  /\ ReadOn
  /\ UNCHANGED <<Backend, stream, processed, resting, dropped, matched, matches, cutAfter>>

SkipDuplicate(o) ==
  /\ inHand = Created(o) /\ ~publishing /\ IsDuplicate(o)
  /\ ReadOn
  /\ UNCHANGED <<Backend, stream, processed, resting, history, events>>

\* An order that does not rest is not there to cancel: it is gone, or not come.
HandleCancel(o) ==
  /\ inHand = Cancel(o)
  /\ resting' = resting \ {o}
  /\ cutAfter' = IF o \in processed THEN cutAfter \cup {o} ELSE cutAfter
  /\ ReadOn
  /\ UNCHANGED <<Backend, stream, processed, dropped, matched, matches, slips, events>>

\* It forgets what it has processed, takes back a stored book, and never sees
\* the message it had in hand again (MatchingEngine).
EngineRestart ==
  /\ Event
  /\ dropped' = IF publishing THEN dropped ELSE dropped \cup LostWith(inHand)
  /\ ReadOn
  /\ processed' = {} /\ cutAfter' = {}
  /\ matches' = [o \in OrderIds |-> 0] /\ slips' = [o \in OrderIds |-> 0]
  /\ resting' \in SUBSET matched
  /\ UNCHANGED <<Backend, stream, matched>>

-----------------------------------------------------------------------------
\* Settlement of some fill or cancel of an order the engine has matched.
Settle(o) ==
  /\ o \in matched
  /\ \E s \in {"PARTIALLY_FILLED", "CLOSED"} : status' = [status EXCEPT ![o] = s]
  /\ UNCHANGED <<eventPublished, job, cancelling, engine, sent, events>>

-----------------------------------------------------------------------------
Outcomes == {"ok", "lost", "unanswered"}

Announce(p) == \E outcome \in Outcomes : Publish(p, outcome) \/ MarkPublished(p, outcome)
CancelOrder(o) == RequestCancel(o) \/ \E outcome \in Outcomes : SendCancel(o, outcome)
Engine ==
  \/ \E answered \in BOOLEAN : ReadOrder(answered)
  \/ \E o \in OrderIds : \/ Match(o) \/ Remember(o) \/ PublicationFails(o)
                         \/ SkipDuplicate(o) \/ HandleCancel(o)

Next ==
  \/ \E o \in OrderIds :
       CancelOrder(o) \/ Announce(o) \/ Settle(o) \/ \E answered \in BOOLEAN : CommitOrder(o, answered)
  \/ \E s \in Sweeps : StartSweep(s) \/ Announce(s)
  \/ Engine \/ EngineRestart \/ Restart

Spec == Init /\ [][Next]_vars

\* The timer of the sweep goes off for ever, and neither a sweep nor the engine
\* stops half-way.
FairSpec == Spec /\ (\A s \in Sweeps : WF_vars(StartSweep(s) \/ Announce(s))) /\ WF_vars(Engine)

-----------------------------------------------------------------------------
OrderTypes ==
  /\ status \in [OrderIds -> Open \cup {"NONE", "CLOSED"}]
  /\ eventPublished \in [OrderIds -> BOOLEAN]
  /\ cancelling \subseteq OrderIds /\ events \in 0..MaxEvents

JobTypes ==
  /\ job \in [OrderIds \cup Sweeps -> [todo : Seq(OrderIds), at : {"publish", "mark"},
                                     left : 0..Attempts]]
  /\ \A p \in DOMAIN job : job[p].todo # <<>> => job[p].left > 0

Messages == [type : {"order.created", "order.cancel"}, order : OrderIds]

EngineTypes ==
  /\ stream \in Seq(Messages) /\ inHand \in Messages \cup {NoMessage}
  /\ publishing \in BOOLEAN
  /\ processed \subseteq OrderIds /\ resting \subseteq OrderIds
  /\ matches \in [OrderIds -> Nat] /\ slips \in [OrderIds -> Nat]
  /\ sent \subseteq OrderIds /\ matched \subseteq OrderIds /\ dropped \subseteq OrderIds
  /\ cutAfter \subseteq OrderIds

\* The columns and messages have their types, and a publication never runs
\* out of attempts before it is given up.
TypeOK == OrderTypes /\ JobTypes /\ EngineTypes

\* eventPublished takes an order out of the sweep for good, so whatever fails,
\* is retried or overlaps, it is set only for an order whose event is in the
\* stream (index.ts: publishOrderCreated, reconcileUnpublishedOrders).
Announcements == INSTANCE Delivery WITH
  Orders <- OrderIds, committed <- Committed, sent <- sent,
  marked <- {o \in OrderIds : eventPublished[o]}
ImplementsDelivery == Announcements!Spec

\* However often its handler and overlapping sweeps publish an order, one engine
\* matches it once, and once more for each match whose publications failed
\* (matching-engine/index.ts:69 and :120: what is processed is asked for first
\* and remembered last).
RematchOwed == \A o \in OrderIds : matches[o] <= 1 + slips[o]

\* A cancel handled after its order, for an order the engine remembers, is for
\* good: no republication brings the order back to the book, whatever failed
\* before or fails later, until the engine is started again.
CancelSticks == resting \cap cutAfter = {}

\* Every committed order is matched in the end, whatever publications and
\* updates failed and whichever process died (index.ts:277, "without this, such
\* an order sits OPEN forever").  It takes that the engine was given the order:
\* not so when the answer to its read is lost, or it dies between read and
\* match, since it never asks for a message again.
Delivered == []<>(Committed \subseteq matched \cup dropped)
=============================================================================

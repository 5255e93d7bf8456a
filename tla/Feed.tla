-------------------------------- MODULE Feed --------------------------------
(***************************************************************************)
(* The public feed of fills: the stream the matching engine writes, the    *)
(* ws-server that reads it through its consumer group and broadcasts it,   *)
(* and the pages that show the trades and the last price of every market.  *)
(* Each time its list of markets changes (the cached list, then the answer *)
(* of GET /markets) a page asks for the last price of every market in it.  *)
(* A call is made and served at one moment, for nothing on the page hangs  *)
(* on when it left, and a call that fails is one that is never answered.   *)
(* A fill is its position in the stream, which stands for its price too.   *)
(***************************************************************************)
EXTENDS Naturals, Sequences, FiniteSetsExt, SequencesExt

CONSTANTS
  Pages, Markets,
  MarketOf,    \* by fill: its market
  Count,       \* COUNT of the ws-server's read
  MaxTrades,   \* MAX_TRADES of the page
  MaxAsks,     \* bound, by market: a page's calls about it under way at one time
  MaxEvents    \* bound: crashes, cuts, reloads and failed calls of /config

MaxFills == Len(MarketOf)  \* bound: the fills there are
Fills    == 1..MaxFills

ASSUME FeedAssumption ==
  /\ MarketOf \in Seq(Markets)
  /\ Count \in Nat \ {0} /\ MaxTrades \in Nat \ {0}
  /\ MaxAsks \in [Markets -> Nat \ {0}] /\ MaxEvents \in Nat

VARIABLES
  published,        \* how many fills are in the stream
  read, hand, told, \* ws-server: last fill its group was given, the messages in
                    \* hand, and whether the first of them has been broadcast
  pending,          \* given to the group and not acknowledged
  host,             \* by page: the server's address, "unknown", "named" or "guessed"
  socket,           \* by page: "closed", "opening", "open" or "cut"
  channel,          \* by page: what its connection has under way
  since,            \* by page: the last fill given out when its socket opened
  trades,           \* by page: its list of trades, newest first
  live, seed,       \* by page and market: the prices it knows, 0 for none
  answers,          \* by page and market: the answers on their way to it
  events            \* how many of MaxEvents have happened

server == <<read, hand, told, pending>>
wire   == <<host, socket, channel, since>>
page   == <<trades, live, seed, answers>>
vars   == <<published, server, wire, page, events>>

Event == events < MaxEvents /\ events' = events + 1

NoPrice   == [m \in Markets |-> 0]
NoAnswers == [m \in Markets |-> <<>>]

Init ==
  /\ published = 0
  /\ read = 0 /\ hand = <<>> /\ told = FALSE /\ pending = {}
  /\ host = [p \in Pages |-> "unknown"]
  /\ socket = [p \in Pages |-> "closed"]
  /\ channel = [p \in Pages |-> <<>>]
  /\ since = [p \in Pages |-> 0]
  /\ trades = [p \in Pages |-> <<>>]
  /\ live = [p \in Pages |-> NoPrice]
  /\ seed = [p \in Pages |-> NoPrice]
  /\ answers = [p \in Pages |-> NoAnswers]
  /\ events = 0

-----------------------------------------------------------------------------
\* The matching engine writes a fill.
Publish ==
  /\ published < MaxFills
  /\ published' = published + 1
  /\ UNCHANGED <<server, wire, page, events>>

-----------------------------------------------------------------------------
(* ws-server.                                                              *)

Read ==
  /\ hand = <<>> /\ read < published
  /\ LET upto == Min({published, read + Count}) IN
     /\ hand' = [i \in 1..(upto - read) |-> read + i]
     /\ pending' = pending \cup (read + 1)..upto
     /\ read' = upto
  /\ UNCHANGED <<published, told, wire, page, events>>

Broadcast ==
  /\ hand # <<>> /\ ~told
  /\ told' = TRUE
  /\ channel' = [p \in Pages |-> IF socket[p] = "open" THEN Append(channel[p], Head(hand))
                                                       ELSE channel[p]]
  /\ UNCHANGED <<published, read, hand, pending, host, socket, since, page, events>>

Ack ==
  /\ told
  /\ pending' = pending \ {Head(hand)}
  /\ hand' = Tail(hand)
  /\ told' = FALSE
  /\ UNCHANGED <<published, read, wire, page, events>>

\* Faulty: after a restart the unacknowledged messages are sent first.
Resumed_Pending == SetToSortSeq(pending, <)

\* The loop asks for new messages only.
Resumed == <<>>

\* The process ends, by a crash or a failed xAck (the loop catches nothing),
\* and is started again.
Restart ==
  /\ Event
  /\ hand' = Resumed /\ told' = FALSE
  /\ socket' = [p \in Pages |-> IF socket[p] = "open" THEN "cut" ELSE socket[p]]
  /\ UNCHANGED <<published, read, pending, host, channel, since, page>>

-----------------------------------------------------------------------------
(* The page's connection: connect() and its handlers.                      *)

\* The server's address is asked for once; when that fails (as when it has none
\* to give) the page keeps to a guess, its own host.
Connect(p) ==
  /\ socket[p] = "closed"
  /\ socket' = [socket EXCEPT ![p] = "opening"]
  /\ \/ host[p] # "unknown" /\ UNCHANGED <<host, events>>
     \/ host[p] = "unknown" /\ host' = [host EXCEPT ![p] = "named"] /\ UNCHANGED events
     \/ host[p] = "unknown" /\ host' = [host EXCEPT ![p] = "guessed"] /\ Event
  /\ UNCHANGED <<published, server, channel, since, page>>

\* The last fill that was broadcast, or that a restart has lost.
Out == read - Len(hand) + (IF told THEN 1 ELSE 0)

\* A socket that is closed is opened again two seconds later.
Dropped == "closed"

\* The server subscribes the socket, or the attempt fails, as it always does at
\* a guessed address: the server runs on a host of its own.
Open(p) ==
  /\ socket[p] = "opening"
  /\ \/ /\ host[p] = "named" /\ UNCHANGED events
        /\ socket' = [socket EXCEPT ![p] = "open"]
        /\ since' = [since EXCEPT ![p] = Out]
     \/ /\ IF host[p] = "named" THEN Event ELSE UNCHANGED events
        /\ socket' = [socket EXCEPT ![p] = Dropped]
        /\ UNCHANGED since
  /\ UNCHANGED <<published, server, host, channel, page>>

\* The connection breaks, and only the server has noticed.
Cut(p) ==
  /\ Event
  /\ socket[p] = "open" /\ socket' = [socket EXCEPT ![p] = "cut"]
  /\ UNCHANGED <<published, server, host, channel, since, page>>

\* onclose of a connection that was open.
Closed(p) ==
  /\ socket[p] = "cut"
  /\ socket' = [socket EXCEPT ![p] = Dropped]
  /\ channel' = [channel EXCEPT ![p] = <<>>]
  /\ UNCHANGED <<published, server, host, since, page, events>>

\* Faulty: the list is cut to its oldest entries.
Listed_Oldest(list) == SubSeq(list, Max({1, Len(list) - MaxTrades + 1}), Len(list))

Listed(list) == SubSeq(list, 1, Min({Len(list), MaxTrades}))

\* onmessage.
Receive(p) ==
  /\ channel[p] # <<>>
  /\ LET x == Head(channel[p]) IN
     /\ trades' = [trades EXCEPT ![p] = Listed(<<x>> \o @)]
     /\ live' = [live EXCEPT ![p][MarketOf[x]] = x]
  /\ channel' = [channel EXCEPT ![p] = Tail(@)]
  /\ UNCHANGED <<published, server, host, socket, since, seed, answers, events>>

-----------------------------------------------------------------------------
(* The page's last prices.                                                 *)

\* GET /orderbook: the price in the book's snapshot, which is written later than
\* the fill and can be lost, or else that of the last fill that is settled.
Offers(m) == {0} \cup {x \in 1..published : MarketOf[x] = m}

Ask(p, m) ==
  /\ Len(answers[p][m]) < MaxAsks[m]
  /\ \E x \in Offers(m) : answers' = [answers EXCEPT ![p][m] = Append(@, x)]
  /\ UNCHANGED <<published, server, wire, trades, live, seed, events>>

\* Faulty: an answer without a price is taken as well.
Taken_All(old, new) == new

\* Only an answer with a price is taken.
Taken(old, new) == IF new > 0 THEN new ELSE old

\* The answers arrive in any order.
Seed(p, m) ==
  /\ \E k \in DOMAIN answers[p][m] :
       /\ seed' = [seed EXCEPT ![p][m] = Taken(@, answers[p][m][k])]
       /\ answers' = [answers EXCEPT ![p][m] = RemoveAt(@, k)]
  /\ UNCHANGED <<published, server, wire, trades, live, events>>

\* Faulty: the snapshot's price wins over the live one.
Price_Seed(p, m) == IF seed[p][m] # 0 THEN seed[p][m] ELSE live[p][m]

\* lastPrice of the trading screen: a live price wins.
Price(p, m) == IF live[p][m] # 0 THEN live[p][m] ELSE seed[p][m]

Reload(p) ==
  /\ Event
  /\ host' = [host EXCEPT ![p] = "unknown"]
  /\ socket' = [socket EXCEPT ![p] = "closed"]
  /\ channel' = [channel EXCEPT ![p] = <<>>]
  /\ trades' = [trades EXCEPT ![p] = <<>>]
  /\ live' = [live EXCEPT ![p] = NoPrice]
  /\ seed' = [seed EXCEPT ![p] = NoPrice]
  /\ answers' = [answers EXCEPT ![p] = NoAnswers]
  /\ UNCHANGED <<published, server, since>>

-----------------------------------------------------------------------------
Loop     == Read \/ Broadcast \/ Ack
Wire(p)  == Connect(p) \/ Open(p) \/ Closed(p)
Calls(p) == \E m \in Markets : Ask(p, m) \/ Seed(p, m)

Next ==
  \/ Publish \/ Loop \/ Restart
  \/ \E p \in Pages :
       Wire(p) \/ Receive(p) \/ Cut(p) \/ Calls(p) \/ Reload(p)

Spec == Init /\ [][Next]_vars

\* The server's loop goes on; a page reconnects every two seconds and handles
\* what its connection brings.
FairSpec ==
  /\ Spec /\ WF_vars(Loop)
  /\ \A p \in Pages : WF_vars(Wire(p)) /\ WF_vars(Receive(p))

-----------------------------------------------------------------------------
StreamTypes ==
  /\ published \in 0..MaxFills /\ read \in 0..published
  /\ pending \subseteq 1..read /\ hand \in Seq(pending)
  /\ told \in BOOLEAN /\ (told => hand # <<>>)
  /\ events \in 0..MaxEvents

WireTypes ==
  /\ host \in [Pages -> {"unknown", "named", "guessed"}]
  /\ socket \in [Pages -> {"closed", "opening", "open", "cut"}]
  /\ channel \in [Pages -> Seq(1..Out)] /\ since \in [Pages -> 0..Out]

PageTypes ==
  /\ trades \in [Pages -> Seq(1..Out)] /\ \A p \in Pages : Len(trades[p]) <= MaxTrades
  /\ live \in [Pages -> [Markets -> 0..Out]] /\ seed \in [Pages -> [Markets -> 0..published]]
  /\ answers \in [Pages -> [Markets -> Seq(0..published)]]

\* Every variable has its type, the server has only what is pending in hand,
\* and nothing reaches a page that has not been broadcast.
TypeOK == StreamTypes /\ WireTypes /\ PageTypes

\* A page shows every trade at most once and newest first, and so it will show
\* what is under way to it, whatever connections were cut and servers started
\* again in between (state.tsx: onmessage; ws-server/index.ts: the loop).
ShownInOrder ==
  \A p \in Pages :
    LET s == Reverse(trades[p]) \o channel[p] IN \A i, j \in DOMAIN s : i < j => s[i] < s[j]

\* As long as a connection lasts no fill is missing from what it has brought:
\* each one broadcast since it opened is on the screen, pushed off it by
\* MaxTrades newer ones, or under way.
NothingMissing ==
  \A p \in Pages : socket[p] = "open" =>
    \A x \in (since[p] + 1)..Out :
      \/ x \in Range(channel[p]) \cup Range(trades[p])
      \/ Len(trades[p]) = MaxTrades /\ \A y \in Range(trades[p]) : y > x

\* A market's price does not vanish from a page, and once it comes from the
\* feed it never steps back to an older fill, whatever the answers to the
\* page's calls bring and in whatever order (Trade.tsx:28 and 82-90).
PriceStays ==
  [][\A p \in Pages, m \in Markets :
       \/ Price(p, m) = 0
       \/ IF live[p][m] # 0 THEN Price(p, m)' >= Price(p, m) ELSE Price(p, m)' # 0
       \/ Reload(p)]_vars

\* Whatever goes down, a page is connected time and again and shows as every
\* market's price its newest fill, when that was published after it connected
\* ("live prices take over as they arrive", Trade.tsx:26), unless it has had to
\* guess where the server is (state.tsx:166-186: a failed GET /config is kept).
\* A price the page has missed is not covered: nothing asks for it again.
Newest(m) == Max({0} \cup {x \in 1..published : MarketOf[x] = m})
UpToDate(p) ==
  /\ socket[p] = "open"
  /\ \A m \in Markets : Newest(m) > since[p] => Price(p, m) = Newest(m)
PricesCatchUp == \A p \in Pages : []<>(UpToDate(p) \/ host[p] = "guessed")
=============================================================================

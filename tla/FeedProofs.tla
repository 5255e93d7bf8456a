------------------------------ MODULE FeedProofs ------------------------------
(***************************************************************************)
(* Proofs about Feed, for any number of pages, markets and fills, every    *)
(* batch size, list length and bound on the faults: a page shows trades in *)
(* order and without gaps, and its prices neither vanish nor step back.    *)
(***************************************************************************)
EXTENDS Feed, SequenceTheorems, TLAPS

Ascending(s)  == \A i, j \in 1..Len(s) : i < j => s[i] < s[j]
Descending(s) == \A i, j \in 1..Len(s) : i < j => s[i] > s[j]

\* The server has consecutive fills in hand, up to the last one it has read.
Consecutive ==
  /\ Len(hand) <= read
  /\ \A i \in 1..Len(hand) : hand[i] = (read - Len(hand)) + i

\* What is under way to a page is in order, and newer than all it shows.
Ordered(p) ==
  /\ Descending(trades[p]) /\ Ascending(channel[p])
  /\ \A j \in 1..Len(channel[p]) :
       /\ \A i \in 1..Len(trades[p]) : trades[p][i] < channel[p][j]
       /\ \A m \in Markets : live[p][m] < channel[p][j]

IInv == TypeOK /\ Consecutive /\ (\A p \in Pages : Ordered(p)) /\ NothingMissing

-----------------------------------------------------------------------------
(* Sequences. *)

\* The parts of a sequence that is not empty.
LEMMA HeadAndTail ==
  ASSUME NEW S, NEW s \in Seq(S), s # <<>>
  PROVE  /\ Len(s) \in Nat /\ Len(s) > 0
         /\ Head(s) = s[1] /\ Head(s) \in S
         /\ Tail(s) \in Seq(S) /\ Len(Tail(s)) = Len(s) - 1
         /\ \A i \in 1..(Len(s) - 1) : Tail(s)[i] = s[i + 1]
  OBVIOUS

\* A sequence over a set is one over every larger set.
LEMMA Widen ==
  ASSUME NEW S, NEW T, S \subseteq T, NEW s \in Seq(S)
  PROVE  s \in Seq(T)
  OBVIOUS

\* A sequence without one of its elements.
LEMMA RemovedIsSeq ==
  ASSUME NEW S, NEW s \in Seq(S), NEW k \in 1..Len(s)
  PROVE  RemoveAt(s, k) \in Seq(S)
<1>1. SubSeq(s, 1, k - 1) \in Seq(S)
  BY SubSeqProperties
<1>2. SubSeq(s, k + 1, Len(s)) \in Seq(S)
  BY SubSeqProperties
<1>3. QED
  BY <1>1, <1>2 DEF RemoveAt

\* The smaller of two numbers.
LEMMA MinOfTwo ==
  ASSUME NEW a \in Nat, NEW b \in Nat
  PROVE  Min({a, b}) = IF a <= b THEN a ELSE b
<1> DEFINE c == IF a <= b THEN a ELSE b
<1>1. c \in {a, b} /\ \A y \in {a, b} : c <= y
  OBVIOUS
<1>2. \A x \in {a, b} : (\A y \in {a, b} : x <= y) => x = c
  OBVIOUS
<1>3. QED
  BY <1>1, <1>2 DEF Min

\* The list of trades after one more: the new one is first, and at most the
\* last of the others is gone, when there were MaxTrades.
LEMMA ListedIs ==
  ASSUME NEW S \in SUBSET Nat, NEW old \in Seq(S), Len(old) <= MaxTrades, NEW x \in S
  PROVE  LET new == Listed(<<x>> \o old) IN
           /\ new \in Seq(S) /\ Len(new) <= MaxTrades
           /\ Len(new) = Len(old) + 1 \/ (Len(new) = MaxTrades /\ Len(old) = MaxTrades)
           /\ new[1] = x /\ \A i \in 2..Len(new) : new[i] = old[i - 1]
<1> DEFINE list == <<x>> \o old
           k    == Min({Len(list), MaxTrades})
<1>1. /\ list \in Seq(S) /\ Len(list) = Len(old) + 1 /\ Len(old) \in Nat
      /\ list[1] = x /\ \A i \in 2..(Len(old) + 1) : list[i] = old[i - 1]
  OBVIOUS
<1>2. k = IF Len(list) <= MaxTrades THEN Len(list) ELSE MaxTrades
  BY <1>1, MinOfTwo, FeedAssumption
<1>3. k \in 1..Len(list) /\ k <= MaxTrades
  BY <1>1, <1>2, FeedAssumption
<1>4. Listed(list) = SubSeq(list, 1, k)
  BY DEF Listed
<1> HIDE DEF list, k
<1>5. /\ SubSeq(list, 1, k) \in Seq(S) /\ Len(SubSeq(list, 1, k)) = k
      /\ \A i \in 1..k : SubSeq(list, 1, k)[i] = list[i]
  <2>1. k \in Nat /\ k \in Int /\ 1 \in Int /\ \A i \in 1..k : list[i] \in S
    BY <1>1, <1>3
  <2>2. /\ SubSeq(list, 1, k) \in Seq(S)
        /\ Len(SubSeq(list, 1, k)) = IF 1 <= k THEN k - 1 + 1 ELSE 0
        /\ \A i \in 1..(k - 1 + 1) : SubSeq(list, 1, k)[i] = list[1 + i - 1]
    BY <2>1, SubSeqProperties
  <2>3. QED
    BY <1>3, <2>1, <2>2
<1>6. k = Len(old) + 1 \/ (k = MaxTrades /\ Len(old) = MaxTrades)
  BY <1>1, <1>2, FeedAssumption
<1>7. \A i \in 2..k : SubSeq(list, 1, k)[i] = old[i - 1]
  BY <1>1, <1>3, <1>5
<1>8. SubSeq(list, 1, k)[1] = x
  BY <1>1, <1>3, <1>5
<1>9. QED
  BY <1>3, <1>4, <1>5, <1>6, <1>7, <1>8 DEF list

-----------------------------------------------------------------------------
(* The server. *)

\* What the server's part of a step must keep: its types, consecutive fills in
\* hand, and the fills that are out.
ServerKept ==
  /\ StreamTypes' /\ Consecutive'
  /\ Out \in Nat /\ Out' \in Nat /\ Out <= Out' /\ Out' <= read'
  /\ published <= published'

\* The last fill that is out is one of those given to the server.
LEMMA OutIsNat ==
  ASSUME IInv
  PROVE  Out \in Nat
<1>1. MaxFills \in Nat /\ StreamTypes
  BY FeedAssumption DEF IInv, TypeOK, MaxFills
<1>2. read \in Nat /\ hand \in Seq(pending) /\ Len(hand) \in Nat /\ Len(hand) <= read
  BY <1>1 DEF IInv, Consecutive, StreamTypes
<1>3. QED
  BY <1>2 DEF Out

\* Every step does.
LEMMA ServerSteps ==
  ASSUME IInv, [Next]_vars
  PROVE  ServerKept
<1>1. /\ MaxFills \in Nat /\ published \in 0..MaxFills /\ read \in 0..published
      /\ pending \subseteq 1..read /\ hand \in Seq(pending) /\ told \in BOOLEAN
      /\ (told => hand # <<>>) /\ events \in 0..MaxEvents /\ MaxEvents \in Nat
      /\ Len(hand) \in Nat /\ Len(hand) <= read
      /\ (hand # <<>> => Len(hand) > 0)
      /\ \A i \in 1..Len(hand) : hand[i] = (read - Len(hand)) + i
  BY FeedAssumption DEF IInv, TypeOK, StreamTypes, Consecutive, MaxFills
<1>2. Out \in Nat /\ Out <= read
  BY <1>1 DEF Out
<1>3. events' \in 0..MaxEvents
  <2>1. Event \/ UNCHANGED events
    BY DEF Next, vars, page, Loop, Publish, Read, Broadcast, Ack, Restart, Wire, Connect, Open,
           Closed, Receive, Cut, Calls, Ask, Seed, Reload
  <2>2. QED
    BY <1>1, <2>1 DEF Event
<1>4. CASE Publish
  BY <1>1, <1>2, <1>3, <1>4 DEF Publish, server, ServerKept, StreamTypes, Consecutive, Out
<1>5. CASE Read
  <2> DEFINE upto == Min({published, read + Count})
             n    == upto - read
  <2>1. upto \in (read + 1)..published
    <3>1. published \in Nat /\ read + Count \in Nat /\ read < published /\ Count > 0
      BY <1>1, <1>5, FeedAssumption DEF Read
    <3>2. upto = IF published <= read + Count THEN published ELSE read + Count
      BY <3>1, MinOfTwo
    <3>3. QED
      BY <1>1, <3>1, <3>2, FeedAssumption
  <2>2. /\ hand' = [i \in 1..n |-> read + i] /\ pending' = pending \cup (read + 1)..upto
        /\ read' = upto /\ UNCHANGED <<published, told>> /\ hand = <<>>
    BY <1>5 DEF Read
  <2> HIDE DEF upto
  <2>3. n \in Nat /\ n > 0 /\ n <= upto
    BY <1>1, <2>1
  <2>4. \A i \in 1..n : read + i \in pending'
    BY <1>1, <2>1, <2>2
  <2>5. hand' \in Seq(pending') /\ Len(hand') = n
    BY <2>2, <2>3, <2>4
  <2>6. Consecutive'
    BY <1>1, <2>1, <2>2, <2>3, <2>5 DEF Consecutive
  <2>7. StreamTypes'
    BY <1>1, <1>3, <2>1, <2>2, <2>3, <2>5 DEF StreamTypes
  <2>8. Out' = Out
    BY <1>1, <2>1, <2>2, <2>5 DEF Out
  <2>9. QED
    BY <1>1, <1>2, <2>1, <2>2, <2>6, <2>7, <2>8 DEF ServerKept
<1>6. CASE Broadcast
  BY <1>1, <1>2, <1>3, <1>6 DEF Broadcast, page, ServerKept, StreamTypes, Consecutive, Out
<1>7. CASE Ack
  <2>1. hand # <<>> /\ told /\ told' = FALSE /\ UNCHANGED <<published, read>>
        /\ hand' = Tail(hand) /\ pending' = pending \ {Head(hand)}
    BY <1>1, <1>7 DEF Ack
  <2>2. /\ Head(hand) = hand[1] /\ hand' \in Seq(pending) /\ Len(hand') = Len(hand) - 1
        /\ \A i \in 1..(Len(hand) - 1) : hand'[i] = hand[i + 1]
    BY <1>1, <2>1, HeadAndTail
  <2>3. \A i \in 1..Len(hand') : hand'[i] \in pending'
    BY <1>1, <2>1, <2>2
  <2>4. hand' \in Seq(pending')
    BY <2>2, <2>3, <1>1
  <2>5. Consecutive'
    BY <1>1, <2>1, <2>2 DEF Consecutive
  <2>6. StreamTypes'
    BY <1>1, <1>3, <2>1, <2>4 DEF StreamTypes
  <2>7. Out' = Out
    BY <1>1, <2>1, <2>2 DEF Out
  <2>8. QED
    BY <1>1, <1>2, <2>1, <2>5, <2>6, <2>7 DEF ServerKept
<1>8. CASE Restart
  <2>1. hand' = <<>> /\ told' = FALSE /\ UNCHANGED <<published, read, pending>>
    BY <1>8 DEF Restart, Resumed
  <2>2. hand' \in Seq(pending') /\ Len(hand') = 0 /\ read' = read
    BY <2>1
  <2>3. StreamTypes' /\ Consecutive'
    <3>1. Consecutive'
      BY <1>1, <2>2 DEF Consecutive
    <3>2. StreamTypes'
      BY <1>1, <1>3, <2>1, <2>2 DEF StreamTypes
    <3>3. QED
      BY <3>1, <3>2
  <2>4. Out' = read
    BY <1>1, <2>1, <2>2 DEF Out
  <2>5. QED
    BY <1>1, <1>2, <2>1, <2>3, <2>4 DEF ServerKept
<1>9. CASE UNCHANGED <<published, server>>
  BY <1>1, <1>2, <1>3, <1>9 DEF server, ServerKept, StreamTypes, Consecutive, Out
<1>10. QED
  BY <1>4, <1>5, <1>6, <1>7, <1>8, <1>9
  DEF Next, vars, Loop, Wire, Connect, Open, Closed, Receive, Cut, Calls, Ask, Seed, Reload

-----------------------------------------------------------------------------
(* One page. *)

\* What a step may do to what a page has and gets: nothing, broadcast the next
\* fill to it, hand it the first fill under way, or end its connection.
Unmoved(q) ==
  channel'[q] = channel[q] /\ trades'[q] = trades[q] /\ live'[q] = live[q]

Sent(q) ==
  /\ Out' = Out + 1 /\ socket[q] = "open"
  /\ channel'[q] = Append(channel[q], Out')
  /\ trades'[q] = trades[q] /\ live'[q] = live[q]

Received(q) ==
  /\ channel[q] # <<>> /\ channel'[q] = Tail(channel[q])
  /\ trades'[q] = Listed(<<Head(channel[q])>> \o trades[q])
  /\ live'[q] = [live[q] EXCEPT ![MarketOf[Head(channel[q])]] = Head(channel[q])]
  /\ Out' = Out

Ended(q) ==
  /\ channel'[q] = <<>> /\ socket'[q] # "open"
  /\ \/ trades'[q] = trades[q] /\ live'[q] = live[q]
     \/ trades'[q] = <<>> /\ live'[q] = NoPrice

\* A connection that is open was open, and has missed nothing, or is new.
Connected(q) ==
  socket'[q] = "open" =>
    \/ socket[q] = "open" /\ since'[q] = since[q] /\ (Out' = Out \/ Sent(q))
    \/ since'[q] = Out' /\ Out' = Out

\* What is known of a page before a step.
LEMMA PageFacts ==
  ASSUME IInv, NEW q \in Pages
  PROVE  /\ channel[q] \in Seq(1..Out) /\ trades[q] \in Seq(1..Out) /\ Len(trades[q]) <= MaxTrades
         /\ live[q] \in [Markets -> 0..Out] /\ since[q] \in 0..Out
         /\ channel \in [Pages -> Seq(1..Out)] /\ trades \in [Pages -> Seq(1..Out)]
         /\ live \in [Pages -> [Markets -> 0..Out]] /\ since \in [Pages -> 0..Out]
         /\ socket \in [Pages -> {"closed", "opening", "open", "cut"}]
  BY DEF IInv, TypeOK, WireTypes, PageTypes

\* What is broadcast is the fill after the last one that is out.
LEMMA BroadcastIsNext ==
  ASSUME IInv, Broadcast
  PROVE  Head(hand) = Out + 1 /\ Out' = Out + 1
<1>1. /\ hand \in Seq(pending) /\ hand # <<>> /\ told = FALSE /\ told' = TRUE
      /\ UNCHANGED <<read, hand>> /\ read \in Nat
  BY FeedAssumption DEF Broadcast, IInv, TypeOK, StreamTypes, MaxFills
<1>2. Head(hand) = hand[1] /\ Len(hand) \in Nat /\ Len(hand) > 0
  BY <1>1, HeadAndTail
<1>3. hand[1] = (read - Len(hand)) + 1
  BY <1>2 DEF IInv, Consecutive
<1>4. QED
  BY <1>1, <1>2, <1>3 DEF Out

\* Every step does one of these to every page.
LEMMA PageSteps ==
  ASSUME IInv, [Next]_vars, NEW q \in Pages
  PROVE  (Unmoved(q) \/ Sent(q) \/ Received(q) \/ Ended(q)) /\ Connected(q)
<1> DEFINE Goal == (Unmoved(q) \/ Sent(q) \/ Received(q) \/ Ended(q)) /\ Connected(q)
<1>1. CASE UNCHANGED <<server, wire, page>>
  BY <1>1 DEF wire, page, server, Out, Unmoved, Connected
<1>2. CASE Read
  <2>1. UNCHANGED <<wire, page>>
    BY <1>2 DEF Read
  <2>2. Out' = Out
    <3>1. hand = <<>> /\ told = FALSE /\ told' = told /\ read \in Nat /\ published \in Nat
      BY <1>2, FeedAssumption DEF Read, IInv, TypeOK, StreamTypes, MaxFills
    <3>2. Min({published, read + Count}) \in Nat /\ Min({published, read + Count}) > read
      <4>1. Min({published, read + Count}) = IF published <= read + Count THEN published ELSE read + Count
        BY <3>1, MinOfTwo, FeedAssumption
      <4>2. QED
        BY <1>2, <3>1, <4>1, FeedAssumption DEF Read
    <3>3. PICK n \in Nat : read' = read + n /\ hand' = [i \in 1..n |-> read + i]
      <4> DEFINE upto == Min({published, read + Count})
      <4>1. upto - read \in Nat /\ read' = read + (upto - read)
            /\ hand' = [i \in 1..(upto - read) |-> read + i]
        BY <1>2, <3>1, <3>2 DEF Read
      <4>2. QED
        BY <4>1
    <3>4. Len(hand') = n
      BY <3>3
    <3>5. QED
      BY <3>1, <3>3, <3>4 DEF Out
  <2>3. QED
    BY <2>1, <2>2 DEF wire, page, Unmoved, Connected
<1>3. CASE Broadcast
  <2>1. /\ Head(hand) = Out + 1 /\ Out' = Out + 1 /\ UNCHANGED <<socket, since, page>>
        /\ channel'[q] = IF socket[q] = "open" THEN Append(channel[q], Head(hand)) ELSE channel[q]
    BY <1>3, BroadcastIsNext DEF Broadcast
  <2>2. QED
    BY <2>1 DEF page, Unmoved, Sent, Connected
<1>4. CASE Ack
  <2>1. UNCHANGED <<wire, page>>
    BY <1>4 DEF Ack
  <2>2. Out' = Out
    <3>1. /\ hand \in Seq(pending) /\ hand # <<>> /\ told /\ ~told' /\ read' = read /\ read \in Nat
          /\ hand' = Tail(hand)
      BY <1>4, FeedAssumption DEF Ack, IInv, TypeOK, StreamTypes, MaxFills
    <3>2. Len(hand) \in Nat /\ Len(hand') = Len(hand) - 1
      BY <3>1, HeadAndTail
    <3>3. QED
      BY <3>1, <3>2 DEF Out
  <2>3. QED
    BY <2>1, <2>2 DEF wire, page, Unmoved, Connected
<1>5. CASE Restart
  <2>1. UNCHANGED <<channel, page>> /\ socket'[q] # "open"
    BY <1>5 DEF Restart
  <2>2. QED
    BY <2>1 DEF page, Unmoved, Connected
<1>6. ASSUME NEW p \in Pages, Connect(p) \/ Open(p) \/ Cut(p)
      PROVE  Goal
  <2>1. UNCHANGED <<server, channel, page>>
    BY <1>6 DEF Connect, Open, Cut
  <2>2. Out' = Out
    BY <2>1 DEF server, Out
  <2>3. /\ q = p \/ (socket'[q] = socket[q] /\ since'[q] = since[q])
        /\ socket'[p] = "open" => since'[p] = Out
    BY <1>6, PageFacts DEF Connect, Open, Cut, Dropped
  <2>4. QED
    BY <2>1, <2>2, <2>3 DEF page, Unmoved, Connected
<1>7. ASSUME NEW p \in Pages, Closed(p) \/ Reload(p)
      PROVE  Goal
  <2>1. UNCHANGED <<server, since>> /\ Out' = Out
    BY <1>7 DEF Closed, Reload, server, Out
  <2>2. CASE q = p
    BY <1>7, <2>1, <2>2, PageFacts DEF Closed, Reload, Dropped, page, Ended, Connected
  <2>3. CASE q # p
    BY <1>7, <2>1, <2>3, PageFacts DEF Closed, Reload, page, Unmoved, Connected
  <2>4. QED
    BY <2>2, <2>3
<1>8. ASSUME NEW p \in Pages, Receive(p)
      PROVE  Goal
  <2>1. UNCHANGED <<server, socket, since>> /\ Out' = Out
    BY <1>8 DEF Receive, server, Out
  <2>2. CASE q = p
    BY <1>8, <2>1, <2>2, PageFacts DEF Receive, Received, Connected
  <2>3. CASE q # p
    BY <1>8, <2>1, <2>3, PageFacts DEF Receive, Unmoved, Connected
  <2>4. QED
    BY <2>2, <2>3
<1>9. ASSUME NEW p \in Pages, Calls(p)
      PROVE  Goal
  <2>1. UNCHANGED <<server, wire, trades, live>> /\ Out' = Out
    BY <1>9 DEF Calls, Ask, Seed, server, Out
  <2>2. QED
    BY <2>1 DEF wire, Unmoved, Connected
<1>10. QED
  BY <1>1, <1>2, <1>3, <1>4, <1>5, <1>6, <1>7, <1>8, <1>9 DEF Next, vars, Loop, Wire, Publish

\* The fills under way to a page, and the last one it shows, stay in order.
LEMMA OrderedKept ==
  ASSUME IInv, [Next]_vars, NEW q \in Pages
  PROVE  Ordered(q)'
<1>1. /\ Out \in Nat /\ channel[q] \in Seq(1..Out) /\ trades[q] \in Seq(1..Out)
      /\ Len(trades[q]) <= MaxTrades /\ live[q] \in [Markets -> 0..Out] /\ Ordered(q)
  BY PageFacts, ServerSteps DEF IInv, ServerKept
<1>2. CASE Unmoved(q)
  BY <1>1, <1>2 DEF Unmoved, Ordered, Ascending, Descending
<1>3. CASE Sent(q)
  <2>1. /\ Len(channel'[q]) = Len(channel[q]) + 1 /\ Len(channel[q]) \in Nat
        /\ channel'[q][Len(channel[q]) + 1] = Out + 1
        /\ \A i \in 1..Len(channel[q]) : channel'[q][i] = channel[q][i] /\ channel[q][i] <= Out
    BY <1>1, <1>3 DEF Sent
  <2>2. \A i \in 1..Len(trades[q]) : trades[q][i] <= Out
    BY <1>1
  <2>3. \A m \in Markets : live[q][m] <= Out /\ live[q][m] \in Nat
    BY <1>1
  <2>4. Ascending(channel'[q])
    <3>1. ASSUME NEW i \in 1..Len(channel'[q]), NEW j \in 1..Len(channel'[q]), i < j
          PROVE  channel'[q][i] < channel'[q][j]
      <4>1. i \in 1..Len(channel[q])
        BY <2>1, <3>1
      <4>2. CASE j \in 1..Len(channel[q])
        BY <1>1, <2>1, <3>1, <4>1, <4>2 DEF Ordered, Ascending
      <4>3. CASE j = Len(channel[q]) + 1
        <5>1. channel[q][i] \in 1..Out
          BY <1>1, <4>1
        <5>2. QED
          BY <1>1, <2>1, <4>1, <4>3, <5>1
      <4>4. QED
        BY <2>1, <4>2, <4>3
    <3>2. QED
      BY <3>1 DEF Ascending
  <2>5. QED
    BY <1>1, <1>3, <2>1, <2>2, <2>3, <2>4 DEF Sent, Ordered, Descending
<1>4. CASE Received(q)
  <2> DEFINE x   == Head(channel[q])
             new == Listed(<<x>> \o trades[q])
  <2>1. /\ x = channel[q][1] /\ x \in 1..Out /\ Len(channel[q]) \in Nat /\ Len(channel[q]) > 0
        /\ Len(channel'[q]) = Len(channel[q]) - 1
        /\ \A i \in 1..(Len(channel[q]) - 1) : channel'[q][i] = channel[q][i + 1]
    BY <1>1, <1>4, HeadAndTail DEF Received
  <2> HIDE DEF x
  <2>2. /\ new \in Seq(1..Out) /\ new[1] = x /\ \A i \in 2..Len(new) : new[i] = trades[q][i - 1]
        /\ Len(new) \in Nat /\ Len(new) <= Len(trades[q]) + 1 /\ Len(trades[q]) \in Nat
    <3>1. 1..Out \in SUBSET Nat
      BY <1>1
    <3>2. /\ new \in Seq(1..Out) /\ Len(new) <= MaxTrades
          /\ \/ Len(new) = Len(trades[q]) + 1
             \/ Len(new) = MaxTrades /\ Len(trades[q]) = MaxTrades
          /\ new[1] = x /\ \A i \in 2..Len(new) : new[i] = trades[q][i - 1]
      BY <1>1, <2>1, <3>1, ListedIs, Zenon
    <3> HIDE DEF new
    <3>3. Len(new) \in Nat /\ Len(trades[q]) \in Nat /\ MaxTrades \in Nat
      BY <1>1, <3>2, FeedAssumption
    <3>4. QED
      BY <3>2, <3>3
  <2> HIDE DEF new
  <2>3. trades'[q] = new /\ channel'[q] = Tail(channel[q])
    BY <1>4 DEF Received, new, x
  <2>4. \A j \in 1..Len(channel'[q]) : channel'[q][j] > x
    <3>1. ASSUME NEW j \in 1..Len(channel'[q])
          PROVE  channel'[q][j] > x
      <4>1. /\ j + 1 \in 1..Len(channel[q]) /\ 1 \in 1..Len(channel[q]) /\ 1 < j + 1
            /\ channel'[q][j] = channel[q][j + 1]
        BY <2>1
      <4>2. channel[q][1] < channel[q][j + 1]
        BY <1>1, <4>1 DEF Ordered, Ascending
      <4>3. channel[q][j + 1] \in Nat
        BY <1>1, <4>1
      <4>4. QED
        BY <1>1, <2>1, <4>1, <4>2, <4>3
    <3>2. QED
      BY <3>1
  <2>5. Ascending(channel'[q])
    BY <1>1, <2>1 DEF Ordered, Ascending
  <2>6. /\ 1 \in 1..Len(channel[q]) /\ x \in Nat
        /\ \A k \in 1..Len(trades[q]) : trades[q][k] \in Nat /\ trades[q][k] < x
    <3>1. 1 \in 1..Len(channel[q]) /\ x \in Nat
      BY <1>1, <2>1
    <3>2. \A k \in 1..Len(trades[q]) : trades[q][k] < channel[q][1]
      BY <1>1, <3>1 DEF Ordered
    <3>3. \A k \in 1..Len(trades[q]) : trades[q][k] \in 1..Out
      BY <1>1
    <3>4. QED
      BY <1>1, <2>1, <3>1, <3>2, <3>3
  <2>7. Descending(new)
    <3>1. ASSUME NEW i \in 1..Len(new), NEW j \in 1..Len(new), i < j
          PROVE  new[i] > new[j]
      <4>1. j - 1 \in 1..Len(trades[q]) /\ new[j] = trades[q][j - 1]
        BY <2>2, <3>1
      <4>2. CASE i = 1
        BY <2>2, <2>6, <4>1, <4>2
      <4>3. CASE i # 1
        <5>1. i - 1 \in 1..Len(trades[q]) /\ new[i] = trades[q][i - 1]
          BY <2>2, <3>1, <4>3
        <5>2. i - 1 < j - 1
          BY <2>2, <3>1
        <5>3. Descending(trades[q])
          BY <1>1 DEF Ordered
        <5>4. trades[q][i - 1] > trades[q][j - 1]
          BY <4>1, <5>1, <5>2, <5>3 DEF Descending
        <5>5. QED
          BY <4>1, <5>1, <5>4
      <4>4. QED
        BY <4>2, <4>3
    <3>2. QED
      BY <3>1 DEF Descending
  <2>8. ASSUME NEW j \in 1..Len(channel'[q]), NEW i \in 1..Len(new)
        PROVE  new[i] < channel'[q][j]
    <3>1. j + 1 \in 1..Len(channel[q]) /\ channel'[q][j] = channel[q][j + 1]
      BY <2>1
    <3>2. CASE i = 1
      BY <2>1, <2>2, <2>4, <3>2, <1>1, <3>1
    <3>3. CASE i # 1
      <4>1. i - 1 \in 1..Len(trades[q]) /\ new[i] = trades[q][i - 1]
        BY <2>2, <3>3
      <4>2. QED
        BY <1>1, <3>1, <4>1 DEF Ordered
    <3>4. QED
      BY <3>2, <3>3
  <2>9. ASSUME NEW j \in 1..Len(channel'[q]), NEW m \in Markets
        PROVE  live'[q][m] < channel'[q][j]
    <3>1. j + 1 \in 1..Len(channel[q]) /\ channel'[q][j] = channel[q][j + 1]
      BY <2>1
    <3>2. live'[q][m] \in {x, live[q][m]}
      BY <1>1, <1>4 DEF Received, x
    <3>3. live[q][m] < channel[q][j + 1] /\ x < channel'[q][j]
      BY <1>1, <2>1, <2>4, <3>1 DEF Ordered
    <3>4. QED
      BY <3>1, <3>2, <3>3
  <2>10. QED
    BY <2>3, <2>5, <2>7, <2>8, <2>9 DEF Ordered
<1>5. CASE Ended(q)
  <2>1. Len(channel'[q]) = 0
    BY <1>5 DEF Ended
  <2>2. Descending(trades'[q])
    BY <1>1, <1>5 DEF Ended, Ordered, Descending
  <2>3. QED
    BY <2>1, <2>2 DEF Ordered, Ascending
<1>6. QED
  BY <1>2, <1>3, <1>4, <1>5, PageSteps

\* What a page has or gets, and what it need not have any more.
Accounted(q, x) ==
  \/ x \in Range(channel[q]) \cup Range(trades[q])
  \/ Len(trades[q]) = MaxTrades /\ \A y \in Range(trades[q]) : y > x

\* The elements of a sequence.
LEMMA RangeIs ==
  ASSUME NEW S, NEW s \in Seq(S), NEW x
  PROVE  x \in Range(s) <=> \E i \in 1..Len(s) : s[i] = x
  BY DEF Range

\* A fill that is accounted for stays so while the connection lasts.
LEMMA AccountedKept ==
  ASSUME IInv, [Next]_vars, NEW q \in Pages, Unmoved(q) \/ Sent(q) \/ Received(q),
         NEW x \in 1..Out, Accounted(q, x)
  PROVE  Accounted(q, x)'
<1>1. /\ Out \in Nat /\ channel[q] \in Seq(1..Out) /\ trades[q] \in Seq(1..Out)
      /\ Len(trades[q]) <= MaxTrades /\ Ordered(q) /\ MaxTrades \in Nat
  BY PageFacts, ServerSteps, FeedAssumption DEF IInv, ServerKept
<1>2. CASE Unmoved(q)
  BY <1>2 DEF Unmoved, Accounted
<1>3. CASE Sent(q)
  <2>1. Range(channel[q]) \subseteq Range(channel'[q])
    <3>1. channel'[q] = Append(channel[q], Out')
      BY <1>3 DEF Sent
    <3>2. \A i \in 1..Len(channel[q]) : i \in 1..Len(channel'[q]) /\ channel'[q][i] = channel[q][i]
      BY <1>1, <3>1
    <3>3. DOMAIN channel[q] = 1..Len(channel[q]) /\ DOMAIN channel'[q] = 1..Len(channel'[q])
      BY <1>1, <3>1
    <3>4. QED
      BY <3>2, <3>3 DEF Range
  <2>2. QED
    BY <1>3, <2>1 DEF Sent, Accounted
<1>4. CASE Received(q)
  <2> DEFINE h   == Head(channel[q])
             new == Listed(<<h>> \o trades[q])
  <2>1. /\ h = channel[q][1] /\ h \in 1..Out /\ Len(channel[q]) \in Nat /\ Len(channel[q]) > 0
        /\ Tail(channel[q]) \in Seq(1..Out) /\ Len(Tail(channel[q])) = Len(channel[q]) - 1
        /\ \A i \in 1..(Len(channel[q]) - 1) : Tail(channel[q])[i] = channel[q][i + 1]
    BY <1>1, <1>4, HeadAndTail DEF Received
  <2>2. 1..Out \in SUBSET Nat
    BY <1>1
  <2> HIDE DEF h
  <2>3. /\ new \in Seq(1..Out) /\ Len(new) <= MaxTrades
        /\ \/ Len(new) = Len(trades[q]) + 1
           \/ Len(new) = MaxTrades /\ Len(trades[q]) = MaxTrades
        /\ new[1] = h /\ \A i \in 2..Len(new) : new[i] = trades[q][i - 1]
    BY <1>1, <2>1, <2>2, ListedIs, Zenon
  <2>4. trades'[q] = new /\ channel'[q] = Tail(channel[q])
    BY <1>4 DEF Received, h
  <2> HIDE DEF new
  <2>5. Len(new) \in Nat /\ Len(trades[q]) \in Nat /\ MaxTrades > 0
    BY <1>1, <2>3, FeedAssumption
  <2>6. Len(new) >= 1 /\ h \in Range(new)
    <3>1. Len(new) >= 1
      BY <2>3, <2>5
    <3>2. QED
      BY <2>3, <3>1, <2>5, RangeIs
  <2>7. \A k \in 1..Len(trades[q]) : trades[q][k] < h /\ trades[q][k] \in Nat
    <3>1. 1 \in 1..Len(channel[q])
      BY <2>1
    <3>2. \A k \in 1..Len(trades[q]) : trades[q][k] < channel[q][1]
      BY <1>1, <3>1 DEF Ordered
    <3>3. \A k \in 1..Len(trades[q]) : trades[q][k] \in 1..Out
      BY <1>1
    <3>4. QED
      BY <2>1, <3>2, <3>3
  <2>8. CASE x \in Range(channel[q])
    <3>1. PICK i \in 1..Len(channel[q]) : channel[q][i] = x
      BY <1>1, <2>8, RangeIs
    <3>2. CASE i = 1
      BY <2>1, <2>4, <2>6, <3>1, <3>2 DEF Accounted
    <3>3. CASE i # 1
      <4>1. i - 1 \in 1..Len(Tail(channel[q])) /\ Tail(channel[q])[i - 1] = x
        BY <2>1, <3>1, <3>3
      <4>2. x \in Range(channel'[q])
        BY <2>1, <2>4, <4>1, RangeIs
      <4>3. QED
        BY <4>2 DEF Accounted
    <3>4. QED
      BY <3>2, <3>3
  <2>9. CASE x \in Range(trades[q])
    <3>1. PICK i \in 1..Len(trades[q]) : trades[q][i] = x
      BY <1>1, <2>9, RangeIs
    <3>2. CASE i + 1 <= Len(new)
      <4>1. i + 1 \in 2..Len(new) /\ new[i + 1] = x
        BY <2>3, <2>5, <3>1, <3>2
      <4>2. x \in Range(new)
        BY <2>3, <4>1, RangeIs, <2>5
      <4>3. QED
        BY <2>4, <4>2 DEF Accounted
    <3>3. CASE ~(i + 1 <= Len(new))
      <4>1. Len(new) = MaxTrades /\ i = Len(trades[q]) /\ Len(trades[q]) = MaxTrades
        BY <2>3, <2>5, <3>1, <3>3
      <4>2. ASSUME NEW y \in Range(new)
            PROVE  y > x
        <5>1. PICK j \in 1..Len(new) : new[j] = y
          BY <2>3, RangeIs
        <5>2. CASE j = 1
          BY <2>3, <2>7, <3>1, <5>1, <5>2, <2>1
        <5>3. CASE j # 1
          <6>1. j - 1 \in 1..Len(trades[q]) /\ y = trades[q][j - 1] /\ j - 1 < i
            BY <2>3, <2>5, <4>1, <5>1, <5>3
          <6>2. QED
            BY <1>1, <3>1, <6>1 DEF Ordered, Descending
        <5>4. QED
          BY <5>2, <5>3
      <4>3. QED
        BY <2>4, <4>1, <4>2 DEF Accounted
    <3>4. QED
      BY <3>2, <3>3
  <2>10. CASE Len(trades[q]) = MaxTrades /\ \A y \in Range(trades[q]) : y > x
    <3>1. Len(new) = MaxTrades
      BY <2>3, <2>5, <2>10
    <3>2. ASSUME NEW y \in Range(new)
          PROVE  y > x
      <4>1. PICK j \in 1..Len(new) : new[j] = y
        BY <2>3, RangeIs
      <4>2. trades[q][1] \in Range(trades[q]) /\ trades[q][1] < h /\ trades[q][1] \in Nat
        <5>1. 1 \in 1..Len(trades[q])
          BY <2>5, <2>10
        <5>2. QED
          BY <1>1, <2>7, <5>1, RangeIs
      <4>3. CASE j = 1
        BY <2>1, <2>3, <2>10, <4>1, <4>2, <4>3
      <4>4. CASE j # 1
        <5>1. j - 1 \in 1..Len(trades[q]) /\ y = trades[q][j - 1]
          BY <2>3, <2>5, <2>10, <3>1, <4>1, <4>4
        <5>2. y \in Range(trades[q])
          BY <1>1, <5>1, RangeIs
        <5>3. QED
          BY <2>10, <5>2
      <4>5. QED
        BY <4>3, <4>4
    <3>3. QED
      BY <2>4, <3>1, <3>2 DEF Accounted
  <2>11. QED
    BY <2>8, <2>9, <2>10 DEF Accounted
<1>5. QED
  BY <1>2, <1>3, <1>4

\* No fill is missed while a connection lasts.
LEMMA NothingMissingKept ==
  ASSUME IInv, [Next]_vars
  PROVE  NothingMissing'
<1> SUFFICES ASSUME NEW q \in Pages, socket'[q] = "open", NEW x \in (since'[q] + 1)..Out'
             PROVE  Accounted(q, x)'
  BY DEF NothingMissing, Accounted
<1>1. Out \in Nat /\ Out' \in Nat /\ since[q] \in 0..Out /\ channel[q] \in Seq(1..Out)
  BY ServerSteps, PageFacts DEF ServerKept
<1>2. /\ Unmoved(q) \/ Sent(q) \/ Received(q)
      /\ socket[q] = "open" /\ since'[q] = since[q] /\ (Out' = Out \/ Sent(q))
  BY <1>1, PageSteps DEF Connected, Ended
<1>3. CASE x <= Out
  <2>1. x \in 1..Out /\ x \in (since[q] + 1)..Out
    BY <1>1, <1>2, <1>3
  <2>2. Accounted(q, x)
    BY <1>2, <2>1 DEF IInv, NothingMissing, Accounted
  <2>3. QED
    BY <1>2, <2>1, <2>2, AccountedKept
<1>4. CASE ~(x <= Out)
  <2>1. Sent(q) /\ x = Out'
    BY <1>1, <1>2, <1>4 DEF Sent
  <2>2. channel'[q] = Append(channel[q], x)
    BY <2>1 DEF Sent
  <2>3. x \in Range(channel'[q])
    <3>1. /\ channel'[q] \in Seq(1..Out \cup {x}) /\ Len(channel[q]) + 1 \in 1..Len(channel'[q])
          /\ channel'[q][Len(channel[q]) + 1] = x
      BY <1>1, <2>2
    <3>2. QED
      BY <3>1, RangeIs
  <2>4. QED
    BY <2>3 DEF Accounted
<1>5. QED
  BY <1>1, <1>2, <1>3, <1>4

\* Every step keeps the types of the connections and of the pages.
LEMMA PagesTyped ==
  ASSUME IInv, [Next]_vars
  PROVE  WireTypes' /\ PageTypes'
<1>1. /\ Out \in Nat /\ Out' \in Nat /\ Out <= Out' /\ published \in Nat /\ published' \in Nat
      /\ published <= published' /\ WireTypes /\ PageTypes /\ MaxTrades \in Nat
  BY ServerSteps, FeedAssumption
  DEF ServerKept, IInv, TypeOK, StreamTypes, MaxFills
<1>2. 1..Out \subseteq 1..Out' /\ 0..Out \subseteq 0..Out' /\ 0..published \subseteq 0..published'
  BY <1>1
<1>3. host' \in [Pages -> {"unknown", "named", "guessed"}]
  BY <1>1 DEF WireTypes, Next, vars, wire, Loop, Publish, Read, Broadcast, Ack, Restart, Wire,
              Connect, Open, Closed, Receive, Cut, Calls, Ask, Seed, Reload
<1>4. socket' \in [Pages -> {"closed", "opening", "open", "cut"}]
  BY <1>1 DEF WireTypes, Dropped, Next, vars, wire, Loop, Publish, Read, Broadcast, Ack, Restart,
              Wire, Connect, Open, Closed, Receive, Cut, Calls, Ask, Seed, Reload
<1>5. since' \in [Pages -> 0..Out']
  <2>1. since' = since \/ \E p \in Pages : since' = [since EXCEPT ![p] = Out]
    BY DEF Next, vars, wire, Loop, Publish, Read, Broadcast, Ack, Restart, Wire, Connect, Open,
           Closed, Receive, Cut, Calls, Ask, Seed, Reload
  <2>2. since \in [Pages -> 0..Out'] /\ Out \in 0..Out'
    BY <1>1, <1>2 DEF WireTypes
  <2>3. QED
    BY <2>1, <2>2
<1>6. \A q \in Pages : /\ channel'[q] \in Seq(1..Out') /\ trades'[q] \in Seq(1..Out')
                       /\ Len(trades'[q]) <= MaxTrades /\ live'[q] \in [Markets -> 0..Out']
  <2> SUFFICES ASSUME NEW q \in Pages
               PROVE  /\ channel'[q] \in Seq(1..Out') /\ trades'[q] \in Seq(1..Out')
                      /\ Len(trades'[q]) <= MaxTrades /\ live'[q] \in [Markets -> 0..Out']
    OBVIOUS
  <2>1. /\ channel[q] \in Seq(1..Out') /\ trades[q] \in Seq(1..Out')
        /\ Len(trades[q]) <= MaxTrades /\ live[q] \in [Markets -> 0..Out']
        /\ channel[q] \in Seq(1..Out) /\ trades[q] \in Seq(1..Out)
    BY <1>2, PageFacts, Widen
  <2>2. CASE Unmoved(q)
    BY <2>1, <2>2 DEF Unmoved
  <2>3. CASE Sent(q)
    <3>1. Out' \in 1..Out'
      BY <1>1, <2>3 DEF Sent
    <3>2. QED
      BY <2>1, <2>3, <3>1 DEF Sent
  <2>4. CASE Received(q)
    <3>1. /\ Head(channel[q]) \in 1..Out' /\ Head(channel[q]) \in 0..Out'
          /\ channel'[q] \in Seq(1..Out')
      <4>1. channel[q] # <<>> /\ channel'[q] = Tail(channel[q])
        BY <2>4 DEF Received
      <4>2. Head(channel[q]) \in 1..Out' /\ Tail(channel[q]) \in Seq(1..Out')
        BY <2>1, <4>1, HeadAndTail
      <4>3. QED
        BY <1>1, <4>1, <4>2
    <3>2. 1..Out' \in SUBSET Nat
      BY <1>1
    <3>3. /\ Listed(<<Head(channel[q])>> \o trades[q]) \in Seq(1..Out')
          /\ Len(Listed(<<Head(channel[q])>> \o trades[q])) <= MaxTrades
      BY <2>1, <3>1, <3>2, ListedIs, Zenon
    <3>4. live'[q] \in [Markets -> 0..Out']
      BY <2>1, <2>4, <3>1 DEF Received
    <3>5. QED
      BY <2>4, <3>1, <3>3, <3>4 DEF Received
  <2>5. CASE Ended(q)
    <3>1. <<>> \in Seq(1..Out') /\ Len(<<>>) <= MaxTrades /\ NoPrice \in [Markets -> 0..Out']
      BY <1>1 DEF NoPrice
    <3>2. QED
      BY <2>1, <2>5, <3>1 DEF Ended
  <2>6. QED
    BY <2>2, <2>3, <2>4, <2>5, PageSteps
<1>7. /\ DOMAIN channel' = Pages /\ DOMAIN trades' = Pages /\ DOMAIN live' = Pages
      /\ channel' = [q \in Pages |-> channel'[q]] /\ trades' = [q \in Pages |-> trades'[q]]
      /\ live' = [q \in Pages |-> live'[q]]
  BY <1>1 DEF WireTypes, PageTypes, Next, vars, wire, page, Loop, Publish, Read, Broadcast, Ack,
              Restart, Wire, Connect, Open, Closed, Receive, Cut, Calls, Ask, Seed, Reload
<1>8. channel' \in [Pages -> Seq(1..Out')] /\ trades' \in [Pages -> Seq(1..Out')]
      /\ live' \in [Pages -> [Markets -> 0..Out']]
  BY <1>6, <1>7
<1>9. answers' \in [Pages -> [Markets -> Seq(0..published')]]
  <2>1. answers \in [Pages -> [Markets -> Seq(0..published')]]
    BY <1>1, <1>2, Widen DEF PageTypes
  <2>2. ASSUME NEW p \in Pages, NEW m \in Markets, NEW s \in Seq(0..published'),
               answers' = [answers EXCEPT ![p][m] = s]
        PROVE  answers' \in [Pages -> [Markets -> Seq(0..published')]]
    BY <2>1, <2>2
  <2>3. ASSUME NEW p \in Pages, NEW m \in Markets, Ask(p, m)
        PROVE  answers' \in [Pages -> [Markets -> Seq(0..published')]]
    <3>1. PICK x \in Offers(m) : answers' = [answers EXCEPT ![p][m] = Append(answers[p][m], x)]
      BY <2>1, <2>3 DEF Ask
    <3>2. x \in 0..published'
      BY <1>1, <1>2 DEF Offers
    <3>3. Append(answers[p][m], x) \in Seq(0..published')
      BY <2>1, <3>2
    <3>4. QED
      BY <2>2, <3>1, <3>3
  <2>4. ASSUME NEW p \in Pages, NEW m \in Markets, Seed(p, m)
        PROVE  answers' \in [Pages -> [Markets -> Seq(0..published')]]
    <3>1. PICK k \in 1..Len(answers[p][m]) :
            answers' = [answers EXCEPT ![p][m] = RemoveAt(answers[p][m], k)]
      <4>1. DOMAIN answers[p][m] = 1..Len(answers[p][m])
        BY <2>1
      <4>2. QED
        BY <2>4, <4>1 DEF Seed
    <3>2. RemoveAt(answers[p][m], k) \in Seq(0..published')
      BY <2>1, <3>1, RemovedIsSeq
    <3>3. QED
      BY <2>2, <3>1, <3>2
  <2>5. ASSUME NEW p \in Pages, Reload(p)
        PROVE  answers' \in [Pages -> [Markets -> Seq(0..published')]]
    <3>1. NoAnswers \in [Markets -> Seq(0..published')]
      BY DEF NoAnswers
    <3>2. QED
      BY <2>1, <2>5, <3>1 DEF Reload
  <2>6. QED
    BY <2>1, <2>3, <2>4, <2>5
    DEF Next, vars, page, Loop, Publish, Read, Broadcast, Ack, Restart, Wire, Connect, Open,
        Closed, Receive, Cut, Calls
<1>10. seed' \in [Pages -> [Markets -> 0..published']]
  <2>1. seed \in [Pages -> [Markets -> 0..published']]
    BY <1>1, <1>2 DEF PageTypes
  <2>2. ASSUME NEW p \in Pages, NEW m \in Markets, Seed(p, m)
        PROVE  seed' \in [Pages -> [Markets -> 0..published']]
    <3>1. PICK k \in DOMAIN answers[p][m] :
            seed' = [seed EXCEPT ![p][m] = Taken(seed[p][m], answers[p][m][k])]
      BY <2>1, <2>2 DEF Seed
    <3>2. answers[p][m] \in Seq(0..published)
      BY <1>1 DEF PageTypes
    <3>3. answers[p][m][k] \in 0..published'
      <4>1. k \in 1..Len(answers[p][m])
        BY <3>1, <3>2
      <4>2. answers[p][m][k] \in 0..published
        BY <3>2, <4>1, ElementOfSeq
      <4>3. QED
        BY <1>2, <4>2
    <3>4. Taken(seed[p][m], answers[p][m][k]) \in 0..published'
      BY <2>1, <3>3 DEF Taken
    <3>5. QED
      BY <2>1, <3>1, <3>4
  <2>3. ASSUME NEW p \in Pages, Reload(p)
        PROVE  seed' \in [Pages -> [Markets -> 0..published']]
    BY <1>1, <2>1, <2>3 DEF Reload, NoPrice
  <2>4. QED
    BY <2>1, <2>2, <2>3
    DEF Next, vars, page, Loop, Publish, Read, Broadcast, Ack, Restart, Wire, Connect, Open,
        Closed, Receive, Cut, Calls, Ask
<1>11. QED
  BY <1>3, <1>4, <1>5, <1>6, <1>8, <1>9, <1>10 DEF WireTypes, PageTypes

-----------------------------------------------------------------------------
\* The initial states satisfy the invariant.
LEMMA InitIInv == Init => IInv
<1> SUFFICES ASSUME Init PROVE IInv
  OBVIOUS
<1>1. \A S : <<>> \in Seq(S)
  OBVIOUS
<1>2. Len(<<>>) = 0 /\ Out = 0 /\ MaxFills \in Nat
  BY FeedAssumption DEF Init, Out, MaxFills
<1>3. StreamTypes
  <2>1. hand \in Seq(pending) /\ ~told /\ told \in BOOLEAN
    BY <1>1 DEF Init
  <2>2. published \in 0..MaxFills /\ read \in 0..published /\ pending \subseteq 1..read
    BY <1>2 DEF Init
  <2>3. events \in 0..MaxEvents
    BY FeedAssumption DEF Init
  <2>4. QED
    BY <2>1, <2>2, <2>3 DEF StreamTypes
<1>4. WireTypes
  BY <1>1, <1>2 DEF Init, WireTypes
<1>5. PageTypes
  BY <1>1, <1>2, FeedAssumption DEF Init, PageTypes, NoPrice, NoAnswers
<1>6. Consecutive
  BY <1>2 DEF Init, Consecutive
<1>7. \A p \in Pages : Ordered(p)
  BY <1>2 DEF Init, Ordered, Ascending, Descending
<1>8. NothingMissing
  BY DEF Init, NothingMissing
<1>9. QED
  BY <1>3, <1>4, <1>5, <1>6, <1>7, <1>8 DEF IInv, TypeOK

\* The invariant holds in every reachable state.
LEMMA Inductive == Spec => []IInv
<1>1. IInv /\ [Next]_vars => IInv'
  <2> SUFFICES ASSUME IInv, [Next]_vars PROVE IInv'
    OBVIOUS
  <2>1. TypeOK' /\ Consecutive'
    BY ServerSteps, PagesTyped DEF ServerKept, TypeOK
  <2>2. \A p \in Pages : Ordered(p)'
    BY OrderedKept
  <2>3. QED
    BY <2>1, <2>2, NothingMissingKept DEF IInv
<1>2. QED
  BY <1>1, InitIInv, PTL DEF Spec

\* The types: what is in hand is pending, and a page has only what is out.
THEOREM TypeCorrect == Spec => []TypeOK
<1>1. IInv => TypeOK
  BY DEF IInv
<1>2. QED
  BY <1>1, Inductive, PTL

\* No fill is missing from what a lasting connection has brought.
THEOREM NoGaps == Spec => []NothingMissing
<1>1. IInv => NothingMissing
  BY DEF IInv
<1>2. QED
  BY <1>1, Inductive, PTL

\* What a reversed sequence, followed by another, has at each place.
LEMMA ReversedThen ==
  ASSUME NEW S, NEW t \in Seq(S), NEW c \in Seq(S)
  PROVE  /\ DOMAIN (Reverse(t) \o c) = 1..(Len(t) + Len(c))
         /\ \A k \in 1..Len(t) : (Reverse(t) \o c)[k] = t[(Len(t) - k) + 1]
         /\ \A k \in (Len(t) + 1)..(Len(t) + Len(c)) : (Reverse(t) \o c)[k] = c[k - Len(t)]
<1> DEFINE r == [k \in 1..Len(t) |-> t[(Len(t) - k) + 1]]
<1>1. Reverse(t) = r
  BY DEF Reverse
<1>2. Len(t) \in Nat /\ Len(c) \in Nat
  OBVIOUS
<1>3. ASSUME NEW k \in 1..Len(t)
      PROVE  r[k] \in S /\ r[k] = t[(Len(t) - k) + 1]
  <2>1. (Len(t) - k) + 1 \in 1..Len(t)
    BY <1>2
  <2>2. t[(Len(t) - k) + 1] \in S
    BY <2>1, ElementOfSeq
  <2>3. QED
    BY <2>2
<1>4. r \in Seq(S) /\ Len(r) = Len(t)
  BY <1>2, <1>3, LenProperties
<1> HIDE DEF r
<1>5. /\ Len(r \o c) = Len(r) + Len(c) /\ r \o c \in Seq(S)
      /\ \A k \in 1..(Len(r) + Len(c)) :
           (r \o c)[k] = IF k <= Len(r) THEN r[k] ELSE c[k - Len(r)]
  BY <1>4, ConcatProperties
<1>6. DOMAIN (r \o c) = 1..(Len(t) + Len(c))
  BY <1>4, <1>5
<1>7. ASSUME NEW k \in 1..Len(t)
      PROVE  (r \o c)[k] = t[(Len(t) - k) + 1]
  BY <1>2, <1>3, <1>4, <1>5
<1>8. ASSUME NEW k \in (Len(t) + 1)..(Len(t) + Len(c))
      PROVE  (r \o c)[k] = c[k - Len(t)]
  BY <1>2, <1>4, <1>5
<1>9. QED
  BY <1>1, <1>6, <1>7, <1>8

\* A descending list read backwards, and then an ascending one above it, ascend.
LEMMA BackAndOn ==
  ASSUME NEW S \in SUBSET Nat, NEW t \in Seq(S), NEW c \in Seq(S),
         \A a, b \in 1..Len(t) : a < b => t[a] > t[b],
         \A a, b \in 1..Len(c) : a < b => c[a] < c[b],
         \A a \in 1..Len(t), b \in 1..Len(c) : t[a] < c[b],
         NEW i \in DOMAIN (Reverse(t) \o c), NEW j \in DOMAIN (Reverse(t) \o c), i < j
  PROVE  (Reverse(t) \o c)[i] < (Reverse(t) \o c)[j]
<1> DEFINE s == Reverse(t) \o c
<1>1. /\ DOMAIN s = 1..(Len(t) + Len(c))
      /\ \A k \in 1..Len(t) : s[k] = t[(Len(t) - k) + 1]
      /\ \A k \in (Len(t) + 1)..(Len(t) + Len(c)) : s[k] = c[k - Len(t)]
  BY ReversedThen
<1>2. i \in DOMAIN s /\ j \in DOMAIN s
  OBVIOUS
<1> HIDE DEF s
<1>3. Len(t) \in Nat /\ Len(c) \in Nat
  OBVIOUS
<1>4. i \in 1..(Len(t) + Len(c)) /\ j \in 1..(Len(t) + Len(c)) /\ i \in Nat /\ j \in Nat
  BY <1>1, <1>2, <1>3
<1>5. CASE j <= Len(t)
  <2>1. /\ (Len(t) - i) + 1 \in 1..Len(t) /\ (Len(t) - j) + 1 \in 1..Len(t)
        /\ (Len(t) - j) + 1 < (Len(t) - i) + 1 /\ i \in 1..Len(t) /\ j \in 1..Len(t)
    BY <1>3, <1>4, <1>5
  <2>2. t[(Len(t) - j) + 1] > t[(Len(t) - i) + 1]
    BY <2>1
  <2>3. t[(Len(t) - j) + 1] \in Nat /\ t[(Len(t) - i) + 1] \in Nat
    BY <2>1, ElementOfSeq
  <2>4. s[i] = t[(Len(t) - i) + 1] /\ s[j] = t[(Len(t) - j) + 1]
    BY <1>1, <2>1
  <2>5. s[i] < s[j]
    BY <2>2, <2>3, <2>4
  <2>6. QED
    BY <2>5 DEF s
<1>6. CASE i <= Len(t) /\ ~(j <= Len(t))
  <2>1. /\ (Len(t) - i) + 1 \in 1..Len(t) /\ j - Len(t) \in 1..Len(c)
        /\ i \in 1..Len(t) /\ j \in (Len(t) + 1)..(Len(t) + Len(c))
    BY <1>3, <1>4, <1>6
  <2>2. s[i] = t[(Len(t) - i) + 1] /\ s[j] = c[j - Len(t)]
    BY <1>1, <2>1
  <2>3. s[i] < s[j]
    BY <2>1, <2>2
  <2>4. QED
    BY <2>3 DEF s
<1>7. CASE ~(i <= Len(t))
  <2>1. /\ i - Len(t) \in 1..Len(c) /\ j - Len(t) \in 1..Len(c) /\ i - Len(t) < j - Len(t)
        /\ i \in (Len(t) + 1)..(Len(t) + Len(c)) /\ j \in (Len(t) + 1)..(Len(t) + Len(c))
    BY <1>3, <1>4, <1>7
  <2>2. s[i] = c[i - Len(t)] /\ s[j] = c[j - Len(t)]
    BY <1>1, <2>1
  <2>3. s[i] < s[j]
    BY <2>1, <2>2
  <2>4. QED
    BY <2>3 DEF s
<1>8. QED
  BY <1>3, <1>4, <1>5, <1>6, <1>7

\* A page shows, and will show, every trade at most once and in order, through
\* any number of reconnections and restarts of the server.
THEOREM TradesInOrder == Spec => []ShownInOrder
<1>1. IInv => ShownInOrder
  <2> SUFFICES ASSUME IInv, NEW p \in Pages,
                      NEW i \in DOMAIN (Reverse(trades[p]) \o channel[p]),
                      NEW j \in DOMAIN (Reverse(trades[p]) \o channel[p]), i < j
               PROVE  (Reverse(trades[p]) \o channel[p])[i] < (Reverse(trades[p]) \o channel[p])[j]
    BY DEF ShownInOrder
  <2>1. trades[p] \in Seq(1..Out) /\ channel[p] \in Seq(1..Out) /\ Out \in Nat /\ Ordered(p)
    BY PageFacts, OutIsNat DEF IInv
  <2>2. 1..Out \in SUBSET Nat
    BY <2>1
  <2>3. /\ \A a, b \in 1..Len(trades[p]) : a < b => trades[p][a] > trades[p][b]
        /\ \A a, b \in 1..Len(channel[p]) : a < b => channel[p][a] < channel[p][b]
        /\ \A a \in 1..Len(trades[p]), b \in 1..Len(channel[p]) : trades[p][a] < channel[p][b]
    BY <2>1 DEF Ordered, Ascending, Descending
  <2>4. QED
    BY <2>1, <2>2, <2>3, BackAndOn
<1>2. QED
  BY <1>1, Inductive, PTL

\* How a step other than a reload changes the prices a page knows.
LEMMA PricesMove ==
  ASSUME IInv, [Next]_vars, NEW p \in Pages, NEW m \in Markets, ~Reload(p)
  PROVE  /\ live'[p][m] = live[p][m] \/ live'[p][m] > live[p][m]
         /\ seed[p][m] # 0 => seed'[p][m] # 0
<1>1. /\ live \in [Pages -> [Markets -> 0..Out]] /\ channel[p] \in Seq(1..Out)
      /\ seed \in [Pages -> [Markets -> 0..published]] /\ published \in Nat
      /\ answers \in [Pages -> [Markets -> Seq(0..published)]] /\ Out \in Nat
  <2>1. Out \in Nat /\ channel[p] \in Seq(1..Out)
    BY PageFacts, OutIsNat
  <2>2. PageTypes /\ StreamTypes /\ MaxFills \in Nat
    BY FeedAssumption DEF IInv, TypeOK, MaxFills
  <2>3. published \in Nat
    BY <2>2 DEF StreamTypes
  <2>4. QED
    BY <2>1, <2>2, <2>3 DEF PageTypes
<1>2. ASSUME NEW q \in Pages, Receive(q)
      PROVE  live'[p][m] = live[p][m] \/ live'[p][m] > live[p][m]
  <2>1. CASE q = p
    <3>1. 1 \in 1..Len(channel[p]) /\ Head(channel[p]) = channel[p][1]
      BY <1>1, <1>2, <2>1, HeadAndTail DEF Receive
    <3>2. live[p][m] < Head(channel[p])
      BY <3>1 DEF IInv, Ordered
    <3>3. live'[p][m] \in {live[p][m], Head(channel[p])}
      BY <1>1, <1>2, <2>1 DEF Receive
    <3>4. live[p][m] \in Nat /\ Head(channel[p]) \in Nat
      BY <1>1, <3>1, ElementOfSeq
    <3>5. QED
      BY <3>2, <3>3, <3>4
  <2>2. CASE q # p
    BY <1>1, <1>2, <2>2 DEF Receive
  <2>3. QED
    BY <2>1, <2>2
<1>3. ASSUME NEW q \in Pages, NEW n \in Markets, Seed(q, n), seed[p][m] # 0
      PROVE  seed'[p][m] # 0
  <2>1. PICK k \in DOMAIN answers[q][n] :
          seed' = [seed EXCEPT ![q][n] = Taken(seed[q][n], answers[q][n][k])]
    BY <1>1, <1>3 DEF Seed
  <2>2. CASE q = p /\ n = m
    <3>1. seed'[p][m] = Taken(seed[p][m], answers[p][m][k])
      BY <1>1, <2>1, <2>2
    <3>2. QED
      BY <1>3, <3>1 DEF Taken
  <2>3. CASE ~(q = p /\ n = m)
    BY <1>1, <1>3, <2>1, <2>3
  <2>4. QED
    BY <2>2, <2>3
<1>4. ASSUME NEW q \in Pages, Reload(q)
      PROVE  live'[p] = live[p] /\ seed'[p] = seed[p]
  BY <1>1, <1>4 DEF Reload
<1>5. QED
  BY <1>2, <1>3, <1>4
  DEF Next, vars, page, Loop, Publish, Read, Broadcast, Ack, Restart, Wire, Connect, Open,
      Closed, Receive, Cut, Calls, Ask, Seed

\* A price does not vanish from a page, and a price from the feed never steps
\* back to an older fill, whatever answers overtake it.
THEOREM PricesNeverStepBack == Spec => PriceStays
<1> DEFINE Kept(p, m) ==
      \/ Price(p, m) = 0
      \/ IF live[p][m] # 0 THEN Price(p, m)' >= Price(p, m) ELSE Price(p, m)' # 0
      \/ Reload(p)
<1>1. IInv /\ [Next]_vars => \A p \in Pages, m \in Markets : Kept(p, m)
  <2> SUFFICES ASSUME IInv, [Next]_vars, NEW p \in Pages, NEW m \in Markets,
                      Price(p, m) # 0, ~Reload(p)
               PROVE  IF live[p][m] # 0 THEN Price(p, m)' >= Price(p, m) ELSE Price(p, m)' # 0
    OBVIOUS
  <2>1. live[p][m] \in Nat
    BY PageFacts, ServerSteps DEF ServerKept
  <2>2. /\ live'[p][m] = live[p][m] \/ live'[p][m] > live[p][m]
        /\ seed[p][m] # 0 => seed'[p][m] # 0
    BY PricesMove
  <2>3. live'[p][m] \in Nat
    BY ServerSteps, PagesTyped DEF ServerKept, PageTypes
  <2>4. QED
    BY <2>1, <2>2, <2>3 DEF Price
<1>2. QED
  BY <1>1, Inductive, PTL DEF Spec, PriceStays
=============================================================================

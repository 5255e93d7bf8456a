------------------------- MODULE MatchingEngineProofs -------------------------
(***************************************************************************)
(* Proofs about MatchingEngine, for every set of orders and markets and    *)
(* every bound: the books in memory and in storage stay sound whatever     *)
(* fails, storage catches up with memory, the loop implements Matching as  *)
(* long as no fault breaks a step in two, and failing awaits never let an  *)
(* order be used beyond its quantity.                                      *)
(***************************************************************************)
EXTENDS MatchingEngine, OrderBookProofs

Us    == {o.userId : o \in Orders}
Ids   == {o.orderId : o \in Orders}
Ps    == {o.price : o \in Orders} \ {0}
Books == Book(Us, Ids, Ps)
Fills == Fill(Ids, Ps)
Msgs  == [type : {"order.created", "order.cancel"}, order : Orders]
Jobs  == [fills : Seq(Fills), sent : Nat, remainingQty : Nat, released : Nat]

\* A book that is fit to be stored.
SoundBook(b, S, m) == b \in Books /\ Uncrossed(b) /\ Stems(b, S, m)

\* The streams, and how far they are read.
StreamsInv ==
  /\ orders \in Seq(Msgs) /\ delivered \in 0..Len(orders) /\ pending \subseteq 1..delivered
  /\ phase \in Phases /\ (phase # "read" => delivered > 0)
  /\ placed \in Seq(Orders) /\ missed \subseteq Markets
  /\ updates \in Seq([marketId : Markets, book : Books])
  /\ read \in 0..Len(updates) /\ batch \in Seq([marketId : Markets, book : Books])
  /\ Len(batch) <= read /\ Len(batch) <= BatchSize
  /\ \A i \in 1..Len(batch) : batch[i] = updates[(read - Len(batch)) + i]
  /\ stopped \in BOOLEAN

\* The books: in memory, stored, and on the way to storage.
BooksInv ==
  /\ books \in [Markets -> Books] /\ snapshots \in [Markets -> Books]
  /\ \A m \in Markets : /\ SoundBook(books[m], ToSet(placed), m)
                        /\ SoundBook(snapshots[m], ToSet(placed), m)
  /\ \A i \in 1..Len(updates) : SoundBook(updates[i].book, ToSet(placed), updates[i].marketId)

\* The message in hand: what is still to be published of it, and that what is
\* left of it meets nothing it could trade with.
JobInv ==
  /\ job \in Jobs /\ job.sent <= Len(job.fills)
  /\ phase \in {"read", "handle", "update", "ack"} => job = NoJob
  /\ phase \in {"fills", "rest"} => Current.type = "order.created"
  /\ phase = "fills" => job.sent < Len(job.fills)
  /\ phase \in {"cancel", "rest"} => job.sent = Len(job.fills)
  /\ phase = "rest" => job.released = 0
  /\ phase = "cancel" => job.released > 0
  /\ phase = "cancel" /\ Current.type = "order.cancel" =>
       job.fills = <<>> /\ job.remainingQty = 0
  /\ Matched => /\ Clear(books[Current.order.marketId], Current.order, job.remainingQty)
                /\ Current.order \in ToSet(placed)

SInv == StreamsInv /\ BooksInv /\ JobInv

-----------------------------------------------------------------------------
(* What the orders, the streams and the message in hand are.               *)

\* The prices of limit orders are naturals.
LEMMA PricesAreNat == Ps \subseteq Nat
  BY OrdersAssumption DEF Ps

\* An order the backend has committed is one that may be matched.
LEMMA OrderIsTaker ==
  ASSUME NEW o \in Orders
  PROVE  /\ Taker(o, Us, Ids, Ps) /\ o.marketId \in Markets
         /\ o.side \in Sides /\ o.qty \in Nat \ {0} /\ o.orderType \in {"LIMIT", "MARKET"}
<1>1. /\ o \in [orderId : {o.orderId}, userId : {o.userId}, marketId : Markets, side : Sides,
               orderType : {"LIMIT", "MARKET"}, price : Nat, qty : Nat \ {0}]
      /\ o.orderType = "LIMIT" <=> o.price # 0
  BY OrdersAssumption
<1>2. /\ o.marketId \in Markets /\ o.side \in Sides /\ o.orderType \in {"LIMIT", "MARKET"}
      /\ o.price \in Nat /\ o.qty \in Nat \ {0}
  BY <1>1
<1>3. o.userId \in Us /\ o.orderId \in Ids
  BY DEF Us, Ids
<1>4. o.orderType = "LIMIT" => o.price \in Ps
  BY <1>1 DEF Ps
<1>5. QED
  BY <1>2, <1>3, <1>4 DEF Taker

\* The message in hand.
LEMMA CurrentIs ==
  ASSUME StreamsInv, delivered > 0
  PROVE  Current \in Msgs /\ Current.order \in Orders
<1>1. delivered \in 1..Len(orders) /\ orders \in Seq(Msgs)
  BY LenProperties DEF StreamsInv
<1>2. Current \in Msgs
  BY <1>1, ElementOfSeq DEF Current
<1>3. QED
  BY <1>2 DEF Msgs

\* The sum of one number.
LEMMA SumOfOne ==
  ASSUME NEW x \in Int
  PROVE  SumSet({x}) = x
<1> DEFINE Step(i) == [s \in SUBSET {x} |->
                         IF s = {} THEN 0
                         ELSE LET y == CHOOSE y \in s : TRUE IN y + i[s \ {y}]]
           it == CHOOSE i : i = Step(i)
           g  == [s \in SUBSET {x} |-> IF s = {} THEN 0 ELSE x + 0]
<1>1. SumSet({x}) = it[{x}]
  BY DEF SumSet, FoldSet, MapThenFoldSet
<1>2. ASSUME NEW s \in SUBSET {x}, s # {}
      PROVE  s = {x} /\ (CHOOSE y \in s : TRUE) = x /\ s \ {x} = {}
  <2>1. s = {x}
    BY <1>2
  <2>2. QED
    BY <2>1
<1>3. g = Step(g)
  BY <1>2
<1>4. it = Step(it)
  BY <1>3
<1>5. it[{}] = 0
  BY <1>4
<1> HIDE DEF it
<1>6. it[{x}] = x + it[{x} \ {x}]
  BY <1>2, <1>4
<1>7. {x} \ {x} = {}
  OBVIOUS
<1>8. it[{x}] = x + 0
  BY <1>5, <1>6, <1>7
<1>9. QED
  BY <1>1, <1>8

\* No quantity at all.
LEMMA SumOfNone == SumSet({}) = 0
<1> DEFINE Step(i) == [s \in SUBSET {} |->
                         IF s = {} THEN 0
                         ELSE LET y == CHOOSE y \in s : TRUE IN y + i[s \ {y}]]
           it == CHOOSE i : i = Step(i)
           g  == [s \in SUBSET {} |-> 0]
<1>1. SumSet({}) = it[{}]
  BY DEF SumSet, FoldSet, MapThenFoldSet
<1>2. g = Step(g)
  OBVIOUS
<1>3. it = Step(it)
  BY <1>2
<1>4. QED
  BY <1>1, <1>3

-----------------------------------------------------------------------------
(* The streams, the books and the message in hand, step by step.           *)

\* Nothing has happened yet.
LEMMA SInit == Init => SInv
<1> SUFFICES ASSUME Init PROVE SInv
  OBVIOUS
<1> USE DEF Init
<1>1. EmptyBook \in Books /\ Uncrossed(EmptyBook)
  BY EmptyBookIs DEF Books
<1>2. Len(<<>>) = 0 /\ \A X : <<>> \in Seq(X)
  BY EmptySeq
<1>3. StreamsInv
  <2>1. /\ Len(orders) = 0 /\ Len(updates) = 0 /\ Len(batch) = 0
        /\ orders \in Seq(Msgs) /\ placed \in Seq(Orders)
        /\ updates \in Seq([marketId : Markets, book : Books])
        /\ batch \in Seq([marketId : Markets, book : Books])
    BY <1>2
  <2>2. BatchSize \in Nat
    BY BoundsAssumption
  <2>3. phase \in Phases /\ pending \subseteq 1..delivered /\ stopped \in BOOLEAN
    BY DEF Phases
  <2>4. QED
    BY <2>1, <2>2, <2>3 DEF StreamsInv
<1>4. \A m \in Markets : Stems(EmptyBook, ToSet(placed), m)
  BY DEF Stems, EmptyBook, EmptyLadder, LadderOf
<1>5. BooksInv
  BY <1>1, <1>2, <1>4 DEF BooksInv, SoundBook
<1>6. JobInv
  BY <1>2 DEF JobInv, Jobs, NoJob, Matched
<1>7. QED
  BY <1>3, <1>5, <1>6 DEF SInv

\* The books invariant reads only these.
LEMMA BooksKept ==
  ASSUME BooksInv, UNCHANGED <<books, snapshots, updates, placed>>
  PROVE  BooksInv'
  BY DEF BooksInv, SoundBook, Books, Stems

\* A message more behind the one in hand changes nothing about it.
LEMMA JobKept ==
  ASSUME SInv, UNCHANGED <<delivered, engineVars, placed>>,
         \/ UNCHANGED orders
         \/ \E msg \in Msgs : orders' = Append(orders, msg)
  PROVE  JobInv'
<1>1. CASE phase = "read"
  <2>1. ~Matched /\ ~Matched'
    BY <1>1 DEF Matched, engineVars
  <2>2. QED
    BY <1>1, <2>1 DEF SInv, JobInv, engineVars, Jobs, Fills
<1>2. CASE phase # "read"
  <2>1. delivered \in 1..Len(orders) /\ orders \in Seq(Msgs)
    BY <1>2, LenProperties DEF SInv, StreamsInv
  <2>2. Current' = Current
    BY <2>1, AppendProperties DEF Current
  <2>3. Matched' <=> Matched
    BY <2>2 DEF Matched, engineVars
  <2> HIDE DEF Current, Matched
  <2>4. QED
    BY <2>2, <2>3 DEF SInv, JobInv, engineVars, Jobs, Fills, Clear
<1>3. QED
  BY <1>1, <1>2

\* The backend publishes a message.
LEMMA SBackend ==
  ASSUME SInv, Backend
  PROVE  SInv'
<1>1. PICK msg \in Msgs : orders' = Append(orders, msg)
  BY DEF Backend, PublishOrder, PublishCancel, Message, Msgs
<1>2. UNCHANGED <<delivered, pending, engineVars, fills, cancels, updates, snapshotVars,
                  failures, crashes, placed, intact, missed>>
  BY DEF Backend, PublishOrder, PublishCancel
<1>3. StreamsInv'
  <2>1. /\ orders' \in Seq(Msgs) /\ Len(orders') = Len(orders) + 1 /\ Len(orders) \in Nat
    BY <1>1, AppendProperties, LenProperties DEF SInv, StreamsInv
  <2>2. QED
    BY <1>2, <2>1 DEF SInv, StreamsInv, engineVars, snapshotVars, Books
<1>4. BooksInv'
  BY <1>2, BooksKept DEF SInv, engineVars, snapshotVars
<1>5. JobInv'
  BY <1>1, <1>2, JobKept
<1>6. QED
  BY <1>3, <1>4, <1>5 DEF SInv

\* The snapshot worker reads a batch.
LEMMA SSnapshotRead ==
  ASSUME SInv, SnapshotRead
  PROVE  SInv'
<1> DEFINE upto == Min({read + BatchSize, Len(updates)})
           X == [marketId : Markets, book : Books]
<1>1. /\ batch = <<>> /\ read < Len(updates)
      /\ batch' = SubSeq(updates, read + 1, upto) /\ read' = upto
      /\ UNCHANGED <<orders, delivered, pending, engineVars, updates, stopped, snapshots, placed,
                     missed>>
  BY DEF SnapshotRead
<1>2. /\ updates \in Seq(X) /\ Len(updates) \in Nat /\ read \in Nat /\ BatchSize \in Nat \ {0}
  BY LenProperties, BoundsAssumption DEF SInv, StreamsInv
<1>3. upto = IF read + BatchSize <= Len(updates) THEN read + BatchSize ELSE Len(updates)
  <2> DEFINE a == read + BatchSize
             b == Len(updates)
  <2>1. a \in Int /\ b \in Int
    BY <1>2
  <2> HIDE DEF a, b
  <2>2. Min({a, b}) = IF a <= b THEN a ELSE b
    BY <2>1, OfTwo
  <2>3. QED
    BY <2>2 DEF a, b
<1>4. upto \in Nat /\ read < upto /\ upto <= Len(updates) /\ upto - read <= BatchSize
  BY <1>1, <1>2, <1>3
<1> HIDE DEF upto
<1>5. \A k \in 1..Len(updates) : updates[k] \in X
  BY <1>2, ElementOfSeq
<1>6. /\ batch' \in Seq(X) /\ Len(batch') = upto - read
      /\ \A i \in 1..(upto - read) : batch'[i] = updates[read + i]
  <2> DEFINE b == SubSeq(updates, read + 1, upto)
  <2>1. /\ read + 1 \in Int /\ upto \in Int
        /\ \A k \in (read + 1)..upto : updates[k] \in X
    BY <1>2, <1>4, <1>5
  <2> HIDE DEF X
  <2>2. /\ b \in Seq(X) /\ Len(b) = IF read + 1 <= upto THEN upto - (read + 1) + 1 ELSE 0
        /\ \A i \in 1..upto - (read + 1) + 1 : b[i] = updates[read + 1 + i - 1]
    BY <2>1, SubSeqProperties
  <2> HIDE DEF b
  <2>3. Len(b) = upto - read /\ upto - (read + 1) + 1 = upto - read
    BY <1>2, <1>4, <2>2
  <2>4. \A i \in 1..(upto - read) : b[i] = updates[read + i]
    BY <1>2, <1>4, <2>2, <2>3
  <2>5. QED
    BY <1>1, <2>2, <2>3, <2>4 DEF b
<1>7. StreamsInv'
  <2>1. /\ read' \in 0..Len(updates') /\ Len(batch') <= read' /\ Len(batch') <= BatchSize
        /\ (read' - Len(batch')) = read
    BY <1>1, <1>2, <1>4, <1>6
  <2>2. \A i \in 1..Len(batch') : batch'[i] = updates'[(read' - Len(batch')) + i]
    BY <1>1, <1>6, <2>1
  <2>3. QED
    BY <1>1, <1>6, <2>1, <2>2 DEF SInv, StreamsInv, engineVars, Books
<1>8. BooksInv'
  BY <1>1, BooksKept DEF SInv, engineVars
<1>9. JobInv'
  BY <1>1, JobKept
<1>10. QED
  BY <1>7, <1>8, <1>9 DEF SInv

\* The first book of the batch in hand, and the rest of it.
LEMMA HeadOfBatch ==
  ASSUME SInv, batch # <<>>
  PROVE  /\ Head(batch) \in [marketId : Markets, book : Books]
         /\ (read - Len(batch)) + 1 \in 1..Len(updates)
         /\ Head(batch) = updates[(read - Len(batch)) + 1]
         /\ Len(batch) \in Nat \ {0} /\ Len(Tail(batch)) = Len(batch) - 1
         /\ Tail(batch) \in Seq([marketId : Markets, book : Books])
         /\ \A i \in 1..Len(Tail(batch)) : Tail(batch)[i] = batch[i + 1]
<1> DEFINE X == [marketId : Markets, book : Books]
<1>1. batch \in Seq(X) /\ read \in Nat /\ Len(batch) <= read /\ read <= Len(updates)
  BY DEF SInv, StreamsInv
<1> HIDE DEF X
<1>2. Len(batch) \in Nat /\ Len(batch) # 0
  BY <1>1, EmptySeq, LenProperties
<1>3. /\ Head(batch) = batch[1] /\ Tail(batch) \in Seq(X) /\ Len(Tail(batch)) = Len(batch) - 1
      /\ \A i \in 1..Len(Tail(batch)) : Tail(batch)[i] = batch[i + 1]
  BY <1>1, <1>2, HeadTailProperties
<1>4. 1 \in 1..Len(batch) /\ batch[1] \in X
  BY <1>1, <1>2, ElementOfSeq
<1>5. batch[1] = updates[(read - Len(batch)) + 1]
  BY <1>4 DEF SInv, StreamsInv
<1>6. Len(updates) \in Nat
  BY LenProperties DEF SInv, StreamsInv
<1>7. (read - Len(batch)) + 1 \in 1..Len(updates)
  BY <1>1, <1>2, <1>6
<1>8. QED
  BY <1>2, <1>3, <1>4, <1>5, <1>7 DEF X

\* The snapshot worker stores a book.
LEMMA SSnapshotStore ==
  ASSUME SInv, SnapshotStore
  PROVE  SInv'
<1> DEFINE n == read - Len(batch)
           h == Head(batch)
<1>1. /\ batch # <<>>
      /\ snapshots' = [snapshots EXCEPT ![h.marketId] = h.book]
      /\ batch' = Tail(batch)
      /\ UNCHANGED <<orders, delivered, pending, engineVars, updates, read, stopped, placed,
                     missed>>
  BY DEF SnapshotStore
<1>2. /\ h \in [marketId : Markets, book : Books] /\ n + 1 \in 1..Len(updates)
      /\ h = updates[n + 1]
      /\ Len(batch) \in Nat \ {0} /\ Len(Tail(batch)) = Len(batch) - 1
      /\ Tail(batch) \in Seq([marketId : Markets, book : Books])
      /\ \A i \in 1..Len(Tail(batch)) : Tail(batch)[i] = batch[i + 1]
  BY <1>1, HeadOfBatch
<1> HIDE DEF h
<1>3. read \in Nat /\ BatchSize \in Nat /\ Len(batch) <= read /\ Len(batch) <= BatchSize
  BY BoundsAssumption DEF SInv, StreamsInv
<1>4. StreamsInv'
  <2>1. Len(batch') <= read /\ Len(batch') <= BatchSize /\ read - Len(batch') = n + 1
    BY <1>1, <1>2, <1>3
  <2>2. \A i \in 1..Len(batch') : batch'[i] = updates[(read - Len(batch')) + i]
    <3>1. ASSUME NEW i \in 1..Len(batch') PROVE batch'[i] = updates[(read - Len(batch')) + i]
      <4>1. i + 1 \in 1..Len(batch) /\ batch'[i] = batch[i + 1]
        BY <1>1, <1>2
      <4>2. batch[i + 1] = updates[n + (i + 1)]
        BY <4>1 DEF SInv, StreamsInv
      <4>3. n + (i + 1) = (n + 1) + i
        BY <1>2, <1>3
      <4>4. QED
        BY <2>1, <4>1, <4>2, <4>3
    <3>2. QED
      BY <3>1
  <2>3. QED
    BY <1>1, <1>2, <2>1, <2>2 DEF SInv, StreamsInv, engineVars, Books
<1>5. BooksInv'
  <2>1. SoundBook(h.book, ToSet(placed), h.marketId)
    BY <1>2 DEF SInv, BooksInv
  <2>2. h.marketId \in Markets /\ h.book \in Books
    BY <1>2
  <2>3. snapshots \in [Markets -> Books]
        /\ \A m \in Markets : SoundBook(snapshots[m], ToSet(placed), m)
    BY DEF SInv, BooksInv
  <2>4. snapshots' \in [Markets -> Books]
        /\ \A m \in Markets : SoundBook(snapshots'[m], ToSet(placed), m)
    BY <1>1, <2>1, <2>2, <2>3
  <2>5. UNCHANGED <<books, updates, placed>>
    BY <1>1 DEF engineVars
  <2>6. QED
    BY <2>4, <2>5 DEF SInv, BooksInv, SoundBook, Books, Stems
<1>6. JobInv'
  BY <1>1, JobKept
<1>7. QED
  BY <1>4, <1>5, <1>6 DEF SInv

\* The snapshot worker's loop ends, or the worker is restarted.
LEMMA SSnapshotStops ==
  ASSUME SInv, SnapshotFail \/ RestartSnapshot
  PROVE  SInv'
<1>1. UNCHANGED <<orders, delivered, pending, engineVars, updates, read, snapshots, placed>>
  BY DEF SnapshotFail, RestartSnapshot
<1>2. (UNCHANGED batch \/ batch' = <<>>) /\ stopped' \in BOOLEAN
  BY DEF SnapshotFail, RestartSnapshot
<1>3. missed' \subseteq Markets
  BY DEF SnapshotFail, RestartSnapshot, SInv, StreamsInv
<1>4. StreamsInv'
  <2>1. CASE UNCHANGED batch
    BY <1>1, <1>2, <1>3, <2>1 DEF SInv, StreamsInv, engineVars, Books
  <2>2. CASE batch' = <<>>
    <3>1. Len(batch') = 0 /\ batch' \in Seq([marketId : Markets, book : Books])
      BY <2>2, EmptySeq
    <3>2. read \in Nat /\ BatchSize \in Nat
      BY BoundsAssumption DEF SInv, StreamsInv
    <3>3. QED
      BY <1>1, <1>2, <1>3, <3>1, <3>2 DEF SInv, StreamsInv, engineVars, Books
  <2>3. QED
    BY <1>2, <2>1, <2>2
<1>5. BooksInv'
  BY <1>1, BooksKept DEF SInv, engineVars
<1>6. JobInv'
  BY <1>1, JobKept
<1>7. QED
  BY <1>4, <1>5, <1>6 DEF SInv

\* What was sound stays so when more orders are placed.
LEMMA SoundGrows ==
  ASSUME NEW b, NEW S, NEW T, S \subseteq T, NEW m, SoundBook(b, S, m)
  PROVE  SoundBook(b, T, m)
<1>1. Stems(b, T, m)
  BY DEF SoundBook, Stems
<1>2. QED
  BY <1>1 DEF SoundBook

\* A book taken from a sound one is sound, when it is not crossed.
LEMMA SoundFrom ==
  ASSUME NEW b1, NEW b0, NEW S, NEW T, S \subseteq T, NEW m, SoundBook(b0, S, m),
         b1 \in Books, Uncrossed(b1), FromBook(b1, b0)
  PROVE  SoundBook(b1, T, m)
<1>1. Stems(b1, T, m)
  BY StemsFrom DEF SoundBook
<1>2. QED
  BY <1>1 DEF SoundBook

\* The book of one market is replaced.
LEMMA BooksReplaced ==
  ASSUME BooksInv, NEW k \in Markets, NEW b, SoundBook(b, ToSet(placed'), k),
         ToSet(placed) \subseteq ToSet(placed'),
         books' = [books EXCEPT ![k] = b], UNCHANGED <<snapshots, updates>>
  PROVE  BooksInv'
<1> DEFINE S == ToSet(placed)
           T == ToSet(placed')
<1>1. b \in Books
  BY DEF SoundBook
<1>2. /\ books' \in [Markets -> Books]
      /\ \A m \in Markets : books'[m] = IF m = k THEN b ELSE books[m]
  BY <1>1 DEF BooksInv
<1>3. \A m \in Markets : SoundBook(books[m], S, m) /\ SoundBook(snapshots[m], S, m)
  BY DEF BooksInv
<1>4. \A i \in 1..Len(updates) : SoundBook(updates[i].book, S, updates[i].marketId)
  BY DEF BooksInv
<1> HIDE DEF S, T
<1>5. S \subseteq T
  BY DEF S, T
<1>6. \A m \in Markets : SoundBook(books[m], T, m) /\ SoundBook(snapshots[m], T, m)
  BY <1>3, <1>5, SoundGrows
<1>7. \A i \in 1..Len(updates) : SoundBook(updates[i].book, T, updates[i].marketId)
  BY <1>4, <1>5, SoundGrows
<1>8. \A m \in Markets : SoundBook(books'[m], T, m)
  BY <1>2, <1>6 DEF T
<1>9. QED
  BY <1>2, <1>6, <1>7, <1>8 DEF BooksInv, SoundBook, Books, Stems, T

\* The engine reads the next message.
LEMMA SRead ==
  ASSUME SInv, NEW outcome \in Outcomes, Read(outcome)
  PROVE  SInv'
<1>1. /\ phase = "read" /\ delivered < Len(orders) /\ delivered' = delivered + 1
      /\ pending' = pending \cup {delivered + 1} /\ phase' \in {"read", "handle"}
      /\ UNCHANGED <<orders, books, job, updates, snapshotVars, placed, missed>>
  BY DEF Read, Proceed
<1>2. delivered \in Nat /\ Len(orders) \in Nat
  BY LenProperties DEF SInv, StreamsInv
<1>3. StreamsInv'
  BY <1>1, <1>2 DEF SInv, StreamsInv, snapshotVars, Phases, Books
<1>4. BooksInv'
  BY <1>1, BooksKept DEF SInv, snapshotVars
<1>5. JobInv'
  BY <1>1 DEF SInv, JobInv, Jobs, Fills, Matched, NoJob
<1>6. QED
  BY <1>3, <1>4, <1>5 DEF SInv

\* A duplicate is skipped.
LEMMA SSkip ==
  ASSUME SInv, SkipDuplicate
  PROVE  SInv'
<1>1. /\ phase = "handle" /\ phase' = "ack"
      /\ UNCHANGED <<orders, delivered, pending, books, job, updates, snapshotVars, placed,
                     missed>>
  BY DEF SkipDuplicate
<1>2. StreamsInv'
  BY <1>1 DEF SInv, StreamsInv, snapshotVars, Phases, Books
<1>3. BooksInv'
  BY <1>1, BooksKept DEF SInv, snapshotVars
<1>4. JobInv'
  BY <1>1 DEF SInv, JobInv, Jobs, Fills, Matched, NoJob
<1>5. QED
  BY <1>2, <1>3, <1>4 DEF SInv

\* An acknowledgement.
LEMMA SAck ==
  ASSUME SInv, NEW outcome \in Outcomes, Ack(outcome)
  PROVE  SInv'
<1>1. /\ phase = "ack" /\ phase' = "read" /\ pending' \subseteq pending
      /\ UNCHANGED <<orders, delivered, books, job, updates, snapshotVars, placed, missed>>
  BY DEF Ack
<1>2. StreamsInv'
  BY <1>1 DEF SInv, StreamsInv, snapshotVars, Phases, Books
<1>3. BooksInv'
  BY <1>1, BooksKept DEF SInv, snapshotVars
<1>4. JobInv'
  BY <1>1 DEF SInv, JobInv, Jobs, Fills, Matched, NoJob
<1>5. QED
  BY <1>2, <1>3, <1>4 DEF SInv

\* The engine starts again from what is stored.
LEMMA SRestart ==
  ASSUME SInv, RestartEngine
  PROVE  SInv'
<1>1. /\ phase' = "read" /\ books' = snapshots /\ job' = NoJob
      /\ UNCHANGED <<orders, delivered, pending, updates, snapshotVars, placed>>
  BY DEF RestartEngine
<1>2. missed' \subseteq Markets
  BY DEF RestartEngine
<1>3. StreamsInv'
  BY <1>1, <1>2 DEF SInv, StreamsInv, snapshotVars, Phases, Books
<1>4. BooksInv'
  BY <1>1 DEF SInv, BooksInv, SoundBook, Books, Stems, snapshotVars
<1>5. JobInv'
  <2>1. job' \in Jobs /\ job'.sent = 0 /\ Len(job'.fills) = 0
    BY <1>1, EmptySeq DEF NoJob, Jobs
  <2>2. QED
    BY <1>1, <2>1 DEF JobInv, Matched, Jobs, Fills
<1>6. QED
  BY <1>3, <1>4, <1>5 DEF SInv

\* What a cancel takes out of a sound book: nothing, or one order that rests
\* there, which was placed under the same id.
LEMMA RemovedIs ==
  ASSUME NEW b, NEW S, S \subseteq Orders, NEW o \in Orders, SoundBook(b, S, o.marketId),
         NEW r, r = RemoveOrder(b, o.side, o.price, o.orderId),
         NEW out, out = RemovedOrders(b, o.side, o.price, o.orderId)
  PROVE  /\ SoundBook(r, S, o.marketId)
         /\ out = {} => r = b
         /\ out # {} => /\ o \in S
                        /\ \E row \in Row(Us, Ids) : out = {row} /\ Fillable(row) > 0
<1> DEFINE side == o.side
           price == o.price
           id == o.orderId
           l == LadderOf(side)
<1>1. side \in Sides /\ b \in Books
  BY OrderIsTaker DEF SoundBook
<1>2. /\ r \in Books /\ FromBook(r, b) /\ (Uncrossed(b) => Uncrossed(r))
      /\ out = {} => r = b
      /\ out # {} => \E row \in Row(Us, Ids) :
                       out = {row} /\ row.orderId = id /\ Fillable(row) > 0
  <2>1. r = RemoveOrder(b, side, price, id) /\ out = RemovedOrders(b, side, price, id)
    OBVIOUS
  <2> HIDE DEF side, price, id
  <2>2. QED
    BY <1>1, <2>1, RemoveSound DEF Books
<1>3. SoundBook(r, S, o.marketId)
  BY <1>2, SoundFrom DEF SoundBook
<1>4. ASSUME out # {} PROVE o \in S
  <2> DEFINE i == QueueIndex(b[l], price, id)
             q == b[l][price].openOrders
  <2>1. i # 0
    BY <1>4 DEF RemovedOrders
  <2>2. price \in DOMAIN b[l]
    BY <2>1 DEF QueueIndex
  <2>3. b[l] \in Ladder(Us, Ids, Ps)
    BY <1>1 DEF Books, Book, LadderOf
  <2>4. b[l][price] \in GoodLevel(Us, Ids)
    BY <2>2, <2>3 DEF Ladder
  <2>5. Len(q) \in Nat
    BY <2>4, LenProperties DEF GoodLevel, Level
  <2>6. i \in 1..Len(q) /\ q[i].orderId = id
    <3> DEFINE L == b[l]
    <3>1. price \in DOMAIN L /\ q = L[price].openOrders /\ QueueIndex(L, price, id) # 0
      BY <2>1, <2>2
    <3>2. i = QueueIndex(L, price, id)
      OBVIOUS
    <3> HIDE DEF L, q, i, price, id
    <3>3. QED
      BY <2>5, <3>1, <3>2, Selected
  <2>7. PICK x \in S : x.orderId = id
    BY <1>1, <2>2, <2>6 DEF SoundBook, Stems
  <2>8. x = o
    BY <2>7, OrdersAssumption
  <2>9. QED
    BY <2>7, <2>8
<1>5. QED
  BY <1>2, <1>3, <1>4

\* The quantity a cancel releases.
LEMMA ReleasedIs ==
  ASSUME NEW out, out = {} \/ \E row \in Row(Us, Ids) : out = {row} /\ Fillable(row) > 0
  PROVE  /\ SumSet({Fillable(r) : r \in out}) \in Nat
         /\ out # {} => SumSet({Fillable(r) : r \in out}) > 0
         /\ \A row : out = {row} => SumSet({Fillable(r) : r \in out}) = Fillable(row)
<1>1. CASE out = {}
  <2>1. {Fillable(r) : r \in out} = {}
    BY <1>1
  <2>2. SumSet({Fillable(r) : r \in out}) = 0
    BY <2>1, SumOfNone
  <2>3. QED
    BY <1>1, <2>2
<1>2. ASSUME NEW row \in Row(Us, Ids), out = {row}, Fillable(row) > 0
      PROVE  /\ SumSet({Fillable(r) : r \in out}) \in Nat
             /\ SumSet({Fillable(r) : r \in out}) > 0
             /\ SumSet({Fillable(r) : r \in out}) = Fillable(row)
  <2>1. Fillable(row) \in Int
    BY DEF Fillable, Row
  <2>2. {Fillable(r) : r \in out} = {Fillable(row)}
    BY <1>2
  <2>3. SumSet({Fillable(r) : r \in out}) = Fillable(row)
    BY <2>1, <2>2, SumOfOne
  <2>4. QED
    BY <1>2, <2>1, <2>3
<1>3. ASSUME NEW row \in Row(Us, Ids), out = {row}, Fillable(row) > 0, NEW x, out = {x}
      PROVE  x = row
  BY <1>3
<1>4. QED
  BY <1>1, <1>2, <1>3

\* A cancel is handled.
LEMMA SCancel ==
  ASSUME SInv, HandleCancel
  PROVE  SInv'
<1> DEFINE o   == Current.order
           k   == o.marketId
           out == RemovedOrders(books[k], o.side, o.price, o.orderId)
           new == RemoveOrder(books[k], o.side, o.price, o.orderId)
           n   == SumSet({Fillable(r) : r \in out})
           S   == ToSet(placed)
<1>1. /\ phase = "handle" /\ Current.type = "order.cancel"
      /\ books' = [books EXCEPT ![k] = new]
      /\ job' = [NoJob EXCEPT !.released = n]
      /\ phase' = AfterRemoval(out)
      /\ UNCHANGED <<orders, delivered, pending, updates, snapshotVars, placed, missed>>
  BY DEF HandleCancel
<1>2. o \in Orders /\ k \in Markets
  BY <1>1, CurrentIs, OrderIsTaker DEF SInv, StreamsInv
<1>3. SoundBook(books[k], S, k)
  BY <1>2 DEF SInv, BooksInv
<1>4. S \subseteq Orders
  BY Placed, ElementOfSeq DEF SInv, StreamsInv
<1>5. /\ SoundBook(new, S, k)
      /\ out = {} \/ \E row \in Row(Us, Ids) : out = {row} /\ Fillable(row) > 0
  <2> HIDE DEF S, o
  <2>1. /\ SoundBook(new, S, o.marketId)
        /\ out # {} => \E row \in Row(Us, Ids) : out = {row} /\ Fillable(row) > 0
    BY <1>2, <1>3, <1>4, RemovedIs
  <2>2. QED
    BY <2>1
<1>6. n \in Nat /\ (out # {} => n > 0)
  <2> HIDE DEF out
  <2>1. QED
    BY <1>5, ReleasedIs
<1> HIDE DEF new, out, n
<1>7. StreamsInv'
  BY <1>1 DEF SInv, StreamsInv, snapshotVars, Phases, Books, AfterRemoval
<1>8. BooksInv'
  BY <1>1, <1>2, <1>5, BooksReplaced DEF SInv, snapshotVars
<1>9. JobInv'
  <2>1. Current' = Current /\ ~Matched'
    BY <1>1 DEF Current, Matched, AfterRemoval
  <2>2. job' = [fills |-> <<>>, sent |-> 0, remainingQty |-> 0, released |-> n]
    BY <1>1 DEF NoJob
  <2>3. job' \in Jobs /\ job'.sent = Len(job'.fills)
    BY <1>6, <2>2, EmptySeq DEF Jobs
  <2>4. CASE out = {}
    <3>1. phase' = "ack" /\ n = 0
      BY <1>1, <2>4, SumOfNone DEF AfterRemoval, n
    <3>2. QED
      BY <2>1, <2>2, <2>3, <3>1 DEF JobInv, NoJob, Jobs, Fills
  <2>5. CASE out # {}
    <3>1. phase' = "cancel"
      BY <1>1, <2>5 DEF AfterRemoval
    <3>2. QED
      BY <1>1, <1>6, <2>1, <2>2, <2>3, <2>5, <3>1 DEF JobInv, Jobs, Fills
  <2>6. QED
    BY <2>4, <2>5
<1>10. QED
  BY <1>7, <1>8, <1>9 DEF SInv

\* Where a job goes from a match or a fill on.
LEMMA AfterFillsIs ==
  ASSUME NEW j, Len(j.fills) \in Nat, j.sent \in Nat, j.released \in Nat
  PROVE  /\ AfterFills(j) \in {"fills", "cancel", "rest"}
         /\ AfterFills(j) = "fills" <=> j.sent < Len(j.fills)
         /\ AfterFills(j) = "cancel" => j.sent >= Len(j.fills) /\ j.released > 0
         /\ AfterFills(j) = "rest" => j.sent >= Len(j.fills) /\ j.released = 0
  BY DEF AfterFills

\* An order is matched.
LEMMA SOrder ==
  ASSUME SInv, HandleOrder
  PROVE  SInv'
<1> DEFINE o == Current.order
           k == o.marketId
           b == books[k]
           m == Match(b, o)
           S == ToSet(placed)
           T == ToSet(placed')
           n == IF o.orderType = "MARKET" THEN m.remainingQty ELSE 0
<1>1. /\ phase = "handle" /\ Current.type = "order.created"
      /\ books' = [books EXCEPT ![k] = m.book]
      /\ job' = [fills |-> m.fills, sent |-> 0, remainingQty |-> m.remainingQty, released |-> n]
      /\ phase' = AfterFills(job') /\ placed' = Append(placed, o)
      /\ UNCHANGED <<orders, delivered, pending, updates, snapshotVars, missed>>
  BY DEF HandleOrder
<1>2. o \in Orders /\ k \in Markets /\ Taker(o, Us, Ids, Ps) /\ delivered > 0
  BY <1>1, CurrentIs, OrderIsTaker DEF SInv, StreamsInv
<1>3. SoundBook(b, S, k)
  BY <1>2 DEF SInv, BooksInv
<1>4. /\ m.book \in Books /\ m.remainingQty \in Nat /\ m.fills \in Seq(Fills)
      /\ FromBook(m.book, b) /\ Clear(m.book, o, m.remainingQty) /\ Uncrossed(m.book)
  <2>1. BookMatched(m, b, o, Us, Ids, Ps)
    <3> HIDE DEF b, o
    <3>1. QED
      BY <1>2, <1>3, PricesAreNat, MatchSound DEF Books, SoundBook
  <2> HIDE DEF m
  <2>2. QED
    BY <1>3, <2>1 DEF BookMatched, Books, Fills, SoundBook
<1> HIDE DEF m
<1>5. placed \in Seq(Orders)
  BY DEF SInv, StreamsInv
<1>6. T = S \cup {o} /\ placed' \in Seq(Orders)
  <2> HIDE DEF o
  <2>1. QED
    BY <1>1, <1>2, <1>5, ToSetAppend, AppendProperties
<1>7. SoundBook(m.book, T, k)
  <2> HIDE DEF b, S, T, k
  <2>1. QED
    BY <1>3, <1>4, <1>6, SoundFrom
<1>8. phase' \in {"fills", "cancel", "rest"} /\ n \in Nat /\ Len(m.fills) \in Nat
  <2>1. n \in Nat /\ Len(m.fills) \in Nat
    BY <1>4, LenProperties
  <2>2. Len(job'.fills) \in Nat /\ job'.sent \in Nat /\ job'.released \in Nat
    BY <1>1, <2>1
  <2>3. QED
    BY <1>1, <2>1, <2>2, AfterFillsIs
<1>9. StreamsInv'
  <2>1. Len(orders) \in Nat
    BY LenProperties DEF SInv, StreamsInv
  <2> HIDE DEF o
  <2>2. QED
    BY <1>1, <1>2, <1>6, <1>8 DEF SInv, StreamsInv, snapshotVars, Phases, Books
<1>10. BooksInv'
  <2> DEFINE new == m.book
  <2>1. books' = [books EXCEPT ![k] = new] /\ SoundBook(new, T, k) /\ S \subseteq T
    BY <1>1, <1>6, <1>7
  <2> HIDE DEF new, k
  <2>2. QED
    BY <1>1, <1>2, <2>1, BooksReplaced DEF SInv, snapshotVars
<1>11. JobInv'
  <2>1. Current' = Current
    BY <1>1 DEF Current
  <2>2. job' \in Jobs
    BY <1>1, <1>4, <1>8 DEF Jobs
  <2>3. /\ job'.sent = 0 /\ Len(job'.fills) \in Nat /\ Len(job'.fills) >= 0
        /\ job'.remainingQty = m.remainingQty /\ job'.released = n
    BY <1>1, <1>8
  <2>4. /\ phase' = "fills" => job'.sent < Len(job'.fills)
        /\ phase' = "cancel" => job'.sent = Len(job'.fills) /\ job'.released > 0
        /\ phase' = "rest" => job'.sent = Len(job'.fills) /\ job'.released = 0
    BY <1>1, <1>8, <2>3, AfterFillsIs
  <2>5. books'[k] = m.book
    BY <1>1, <1>2 DEF SInv, BooksInv
  <2>6. Clear(books'[k], o, job'.remainingQty) /\ o \in T
    BY <1>4, <1>6, <2>3, <2>5
  <2> HIDE DEF Current
  <2>7. QED
    BY <1>1, <1>8, <2>1, <2>2, <2>3, <2>4, <2>6 DEF JobInv, Jobs, Fills, Clear
<1>12. QED
  BY <1>9, <1>10, <1>11 DEF SInv

\* A fill is published, or is not.
LEMMA SFill ==
  ASSUME SInv, NEW outcome \in Outcomes, PublishFill(outcome)
  PROVE  SInv'
<1> DEFINE j == [job EXCEPT !.sent = @ + 1]
<1>1. /\ phase = "fills"
      /\ job' = IF outcome = "ok" THEN j ELSE NoJob
      /\ phase' = IF outcome = "ok" THEN AfterFills(job') ELSE "read"
      /\ missed' = IF outcome = "ok" THEN missed ELSE missed \cup {Current.order.marketId}
      /\ UNCHANGED <<orders, delivered, pending, books, updates, snapshotVars, placed>>
  BY DEF PublishFill, Proceed
<1>2. /\ job \in Jobs /\ job.sent < Len(job.fills) /\ Len(job.fills) \in Nat
      /\ Current.type = "order.created"
  BY <1>1, LenProperties DEF SInv, JobInv, Jobs
<1>3. Current.order \in Orders /\ Current.order.marketId \in Markets
  BY <1>1, CurrentIs, OrderIsTaker DEF SInv, StreamsInv
<1>4. /\ j \in Jobs /\ j.fills = job.fills /\ j.sent = job.sent + 1
      /\ j.remainingQty = job.remainingQty /\ j.released = job.released
  BY <1>2 DEF Jobs
<1> HIDE DEF j
<1>5. outcome = "ok" =>
        /\ phase' \in {"fills", "cancel", "rest"}
        /\ phase' = "fills" => job'.sent < Len(job'.fills)
        /\ phase' = "cancel" => job'.sent = Len(job'.fills) /\ job'.released > 0
        /\ phase' = "rest" => job'.sent = Len(job'.fills) /\ job'.released = 0
  <2>1. /\ j.sent \in Nat /\ j.released \in Nat /\ Len(j.fills) \in Nat
        /\ j.sent <= Len(j.fills)
    BY <1>2, <1>4 DEF Jobs
  <2>2. QED
    BY <1>1, <2>1, AfterFillsIs
<1>6. StreamsInv'
  <2>1. phase' \in Phases /\ missed' \subseteq Markets
    BY <1>1, <1>3, <1>5 DEF Phases, SInv, StreamsInv
  <2>2. QED
    BY <1>1, <2>1 DEF SInv, StreamsInv, snapshotVars, Books
<1>7. BooksInv'
  BY <1>1, BooksKept DEF SInv, snapshotVars
<1>8. Current' = Current
  BY <1>1 DEF Current
<1> HIDE DEF Current
<1>9. JobInv'
  <2>1. CASE outcome = "ok"
    <3>1. job' = j /\ job'.sent <= Len(job'.fills)
      BY <1>1, <1>2, <1>4, <2>1 DEF Jobs
    <3>2. /\ Clear(books[Current.order.marketId], Current.order, job.remainingQty)
          /\ Current.order \in ToSet(placed)
      BY <1>1 DEF SInv, JobInv, Matched
    <3>3. QED
      BY <1>1, <1>2, <1>4, <1>5, <1>8, <2>1, <3>1, <3>2 DEF JobInv, Jobs, Fills, Clear
  <2>2. CASE outcome # "ok"
    <3>1. job' \in Jobs /\ job'.sent = 0 /\ Len(job'.fills) = 0 /\ job' = NoJob
      BY <1>1, <2>2, EmptySeq DEF NoJob, Jobs
    <3>2. phase' = "read"
      BY <1>1, <2>2
    <3>3. QED
      BY <3>1, <3>2 DEF JobInv, Matched, Jobs, Fills
  <2>3. QED
    BY <2>1, <2>2
<1>10. QED
  BY <1>6, <1>7, <1>9 DEF SInv

\* A cancel is published, or is not.
LEMMA SCancelled ==
  ASSUME SInv, NEW outcome \in Outcomes, PublishCancelled(outcome)
  PROVE  SInv'
<1> DEFINE j == [job EXCEPT !.released = 0]
<1>1. /\ phase = "cancel"
      /\ job' = IF outcome = "ok" THEN j ELSE NoJob
      /\ phase' = IF outcome = "ok" THEN AfterCancelled(Current.type) ELSE "read"
      /\ missed' = IF outcome = "ok" THEN missed ELSE missed \cup {Current.order.marketId}
      /\ UNCHANGED <<orders, delivered, pending, books, updates, snapshotVars, placed>>
  BY DEF PublishCancelled, Proceed
<1>2. job \in Jobs /\ job.sent = Len(job.fills) /\ Len(job.fills) \in Nat
  BY <1>1, LenProperties DEF SInv, JobInv, Jobs
<1>3. /\ Current.order \in Orders /\ Current.order.marketId \in Markets
      /\ Current.type \in {"order.created", "order.cancel"}
  BY <1>1, CurrentIs, OrderIsTaker DEF SInv, StreamsInv, Msgs
<1>4. /\ j \in Jobs /\ j.fills = job.fills /\ j.sent = job.sent
      /\ j.remainingQty = job.remainingQty /\ j.released = 0
  BY <1>2 DEF Jobs
<1> HIDE DEF j
<1>5. StreamsInv'
  <2>1. phase' \in Phases /\ missed' \subseteq Markets
    BY <1>1, <1>3 DEF Phases, SInv, StreamsInv, AfterCancelled
  <2>2. QED
    BY <1>1, <2>1 DEF SInv, StreamsInv, snapshotVars, Books
<1>6. BooksInv'
  BY <1>1, BooksKept DEF SInv, snapshotVars
<1>7. Current' = Current
  BY <1>1 DEF Current
<1> HIDE DEF Current
<1>8. JobInv'
  <2>1. CASE outcome = "ok" /\ Current.type = "order.created"
    <3>1. phase' = "rest" /\ job' = j
      BY <1>1, <2>1 DEF AfterCancelled
    <3>2. /\ Clear(books[Current.order.marketId], Current.order, job.remainingQty)
          /\ Current.order \in ToSet(placed)
      BY <1>1, <2>1 DEF SInv, JobInv, Matched
    <3>3. QED
      BY <1>1, <1>2, <1>4, <1>7, <2>1, <3>1, <3>2 DEF JobInv, Jobs, Fills, Clear
  <2>2. CASE outcome = "ok" /\ Current.type = "order.cancel"
    <3>1. phase' = "update" /\ job' = j
      BY <1>1, <2>2 DEF AfterCancelled
    <3>2. job.fills = <<>> /\ Len(job.fills) = 0
      BY <1>1, <2>2, EmptySeq DEF SInv, JobInv
    <3>3. job.remainingQty = 0
      BY <1>1, <2>2 DEF SInv, JobInv
    <3>4. j = NoJob
      BY <1>2, <1>4, <3>2, <3>3 DEF NoJob, Jobs
    <3>5. QED
      BY <1>2, <1>4, <3>1, <3>2, <3>4 DEF JobInv, Matched, Jobs, Fills
  <2>3. CASE outcome # "ok"
    <3>1. job' \in Jobs /\ job'.sent = 0 /\ Len(job'.fills) = 0 /\ job' = NoJob
      BY <1>1, <2>3, EmptySeq DEF NoJob, Jobs
    <3>2. phase' = "read"
      BY <1>1, <2>3
    <3>3. QED
      BY <3>1, <3>2 DEF JobInv, Matched, Jobs, Fills
  <2>4. QED
    BY <1>3, <2>1, <2>2, <2>3
<1>9. QED
  BY <1>5, <1>6, <1>8 DEF SInv

\* The leftover comes to rest.
LEMMA SRest ==
  ASSUME SInv, Rest
  PROVE  SInv'
<1> DEFINE o == Current.order
           k == o.marketId
           b == books[k]
           rested == RestLeftover(b, o, job.remainingQty)
           new == SetLastTrade(rested, job.fills)
           S == ToSet(placed)
<1>1. /\ phase = "rest" /\ phase' = "update" /\ job' = NoJob
      /\ books' = [books EXCEPT ![k] = new]
      /\ UNCHANGED <<orders, delivered, pending, updates, snapshotVars, placed, missed>>
  BY DEF Rest
<1>2. /\ o \in Orders /\ k \in Markets /\ Taker(o, Us, Ids, Ps) /\ o.side \in Sides
  BY <1>1, CurrentIs, OrderIsTaker DEF SInv, StreamsInv
<1>3. /\ job.fills \in Seq(Fills) /\ job.remainingQty \in Nat
      /\ Clear(b, o, job.remainingQty) /\ o \in S
  BY <1>1 DEF SInv, JobInv, Jobs, Matched
<1>4. SoundBook(b, S, k)
  BY <1>2 DEF SInv, BooksInv
<1>5. /\ RestDone(rested, b, o, job.remainingQty, Us, Ids, Ps)
      /\ Stems(rested, S, k)
  <2> DEFINE n == job.remainingQty
  <2>1. n \in Nat /\ rested = RestLeftover(b, o, n)
    BY <1>3
  <2>2. b \in Books /\ Stems(b, S, o.marketId)
    BY <1>4 DEF SoundBook
  <2> HIDE DEF o, b, n, S, rested
  <2>3. RestDone(rested, b, o, n, Us, Ids, Ps)
    BY <1>2, <2>1, <2>2, PricesAreNat, RestSound DEF Books
  <2>4. Stems(rested, S, o.marketId)
    BY <1>2, <1>3, <2>2, <2>3, StemsRest
  <2>5. QED
    BY <2>3, <2>4 DEF n
<1> HIDE DEF rested
<1>6. rested \in Books /\ Uncrossed(rested)
  <2> HIDE DEF b, o
  <2>1. QED
    BY <1>3, <1>4, <1>5 DEF RestDone, Books, SoundBook
<1>7. new \in Books /\ new.bids = rested.bids /\ new.asks = rested.asks
  <2> DEFINE fs == job.fills
  <2>1. fs \in Seq(Fills)
    BY <1>3
  <2> HIDE DEF fs
  <2>2. /\ SetLastTrade(rested, fs) \in Books
        /\ SetLastTrade(rested, fs).bids = rested.bids
        /\ SetLastTrade(rested, fs).asks = rested.asks
    BY <1>6, <2>1, LastTradeSet DEF Books, Fills
  <2>3. QED
    BY <2>2 DEF fs
<1>8. SoundBook(new, S, k)
  <2>1. FromBook(new, rested)
    BY <1>7, FromItself DEF FromBook
  <2>2. Uncrossed(new)
    BY <1>6, <1>7 DEF Uncrossed
  <2> HIDE DEF new, S, k
  <2>3. Stems(new, S, k)
    BY <1>5, <2>1, StemsFrom
  <2>4. QED
    BY <1>7, <2>2, <2>3 DEF SoundBook
<1> HIDE DEF new
<1>9. StreamsInv'
  BY <1>1 DEF SInv, StreamsInv, snapshotVars, Phases, Books
<1>10. BooksInv'
  <2> HIDE DEF k
  <2>1. QED
    BY <1>1, <1>2, <1>8, BooksReplaced DEF SInv, snapshotVars
<1>11. JobInv'
  <2>1. job' \in Jobs /\ job'.sent = 0 /\ Len(job'.fills) = 0
    BY <1>1, EmptySeq DEF NoJob, Jobs
  <2>2. QED
    BY <1>1, <2>1 DEF JobInv, Matched, Jobs, Fills
<1>12. QED
  BY <1>9, <1>10, <1>11 DEF SInv

\* The book is published, or is not.
LEMMA SPublish ==
  ASSUME SInv, NEW outcome \in Outcomes, PublishBook(outcome)
  PROVE  SInv'
<1> DEFINE k == Current.order.marketId
           b == books[k]
           u == [marketId |-> k, book |-> b]
           X == [marketId : Markets, book : Books]
<1>1. /\ phase = "update" /\ phase' \in {"read", "ack"}
      /\ \/ UNCHANGED updates
         \/ updates' = Append(updates, u)
      /\ missed' \in {missed \cup {k}, missed \ {k}}
      /\ UNCHANGED <<orders, delivered, pending, books, job, snapshotVars, placed>>
  BY DEF PublishBook, Proceed, XAdd
<1>2. k \in Markets
  BY <1>1, CurrentIs, OrderIsTaker DEF SInv, StreamsInv
<1>3. SoundBook(b, ToSet(placed), k) /\ u \in X
  BY <1>2 DEF SInv, BooksInv
<1> HIDE DEF k, b
<1>4. /\ updates \in Seq(X) /\ updates' \in Seq(X)
      /\ Len(updates) \in Nat /\ Len(updates') \in Nat /\ Len(updates) <= Len(updates')
      /\ \A i \in 1..Len(updates) : updates'[i] = updates[i]
      /\ \A i \in 1..Len(updates') : i \in 1..Len(updates) \/ updates'[i] = u
  <2> HIDE DEF X, u
  <2>1. updates \in Seq(X) /\ Len(updates) \in Nat
    BY LenProperties DEF SInv, StreamsInv, X
  <2>2. CASE UNCHANGED updates
    BY <2>1, <2>2
  <2>3. CASE updates' = Append(updates, u)
    BY <1>3, <2>1, <2>3, AppendProperties
  <2>4. QED
    BY <1>1, <2>2, <2>3
<1>5. StreamsInv'
  <2>1. /\ read \in Nat /\ read <= Len(updates) /\ batch \in Seq(X) /\ Len(batch) <= read
        /\ \A i \in 1..Len(batch) : batch[i] = updates[(read - Len(batch)) + i]
        /\ UNCHANGED <<read, batch, stopped>>
    BY <1>1 DEF SInv, StreamsInv, snapshotVars
  <2>2. Len(batch) \in Nat
    BY <2>1, LenProperties
  <2>3. \A i \in 1..Len(batch) : (read - Len(batch)) + i \in 1..Len(updates)
    BY <1>4, <2>1, <2>2
  <2>4. \A i \in 1..Len(batch) : batch[i] = updates'[(read - Len(batch)) + i]
    BY <1>4, <2>1, <2>3
  <2>5. read \in 0..Len(updates')
    BY <1>4, <2>1
  <2>6. QED
    BY <1>1, <1>2, <1>4, <2>1, <2>4, <2>5 DEF SInv, StreamsInv, snapshotVars, Phases, Books
<1>6. BooksInv'
  <2>1. ASSUME NEW i \in 1..Len(updates')
        PROVE  SoundBook(updates'[i].book, ToSet(placed), updates'[i].marketId)
    <3>1. CASE i \in 1..Len(updates)
      BY <1>4, <3>1 DEF SInv, BooksInv
    <3>2. CASE updates'[i] = u
      BY <1>3, <3>2
    <3>3. QED
      BY <1>4, <3>1, <3>2
  <2>2. UNCHANGED <<books, snapshots, placed>>
    BY <1>1 DEF snapshotVars
  <2>3. QED
    BY <2>1, <2>2 DEF SInv, BooksInv, SoundBook, Books, Stems
<1>7. JobInv'
  BY <1>1 DEF SInv, JobInv, Jobs, Fills, Matched, NoJob
<1>8. QED
  BY <1>5, <1>6, <1>7 DEF SInv

\* No step breaks the invariant.
LEMMA SNext == SInv /\ [Next]_vars => SInv'
<1> SUFFICES ASSUME SInv, [Next]_vars PROVE SInv'
  OBVIOUS
<1>1. CASE Backend
  BY <1>1, SBackend
<1>2. CASE Awaits
  <2>1. CASE HandleCancel
    BY <2>1, SCancel
  <2>2. CASE SkipDuplicate
    BY <2>2, SSkip
  <2>3. CASE Rest
    BY <2>3, SRest
  <2>4. ASSUME NEW outcome \in Outcomes,
               Read(outcome) \/ PublishFill(outcome) \/ PublishCancelled(outcome)
                 \/ PublishBook(outcome) \/ Ack(outcome)
        PROVE  SInv'
    BY <2>4, SRead, SFill, SCancelled, SPublish, SAck
  <2>5. QED
    BY <1>2, <2>1, <2>2, <2>3, <2>4 DEF Awaits
<1>3. CASE HandleOrder
  BY <1>3, SOrder
<1>4. CASE Snapshot
  BY <1>4, SSnapshotRead, SSnapshotStore DEF Snapshot
<1>5. CASE SnapshotFail \/ RestartSnapshot
  BY <1>5, SSnapshotStops
<1>6. CASE RestartEngine
  BY <1>6, SRestart
<1>7. CASE UNCHANGED vars
  <2>1. /\ UNCHANGED <<orders, delivered, pending, engineVars, updates, snapshotVars, placed,
                       missed>>
    BY <1>7 DEF vars
  <2>2. StreamsInv'
    BY <2>1 DEF SInv, StreamsInv, engineVars, snapshotVars, Books
  <2>3. BooksInv'
    BY <2>1, BooksKept DEF SInv, engineVars, snapshotVars
  <2>4. JobInv'
    BY <2>1, JobKept
  <2>5. QED
    BY <2>2, <2>3, <2>4 DEF SInv
<1>8. QED
  BY <1>1, <1>2, <1>3, <1>4, <1>5, <1>6, <1>7 DEF Next

\* SInv holds in every reachable state.
LEMMA SAlways == Spec => []SInv
<1>1. QED
  BY SInit, SNext, PTL DEF Spec

\* Whatever fails, at whatever await, and whichever process is restarted, every
\* book in memory and in storage is well formed and never crossed (index.ts:
\* the book changes before anything is published, and a restart begins from a
\* book that may be older than the published fills).
THEOREM FaultsLeaveBooksSound == Spec => []BooksSound
<1>1. ASSUME SInv PROVE BooksSound
  <2>1. ASSUME NEW b \in {books[m] : m \in Markets} \cup {snapshots[m] : m \in Markets}
        PROVE  LevelsConsistent(b) /\ Uncrossed(b)
    <3>1. b \in Books /\ Uncrossed(b)
      BY <1>1 DEF SInv, BooksInv, SoundBook
    <3>2. QED
      BY <3>1, BookIsConsistent DEF Books
  <2>2. QED
    BY <2>1 DEF BooksSound
<1>2. QED
  BY <1>1, SAlways, PTL

\* The engine's memory and the streams hold what the source's types say
\* (book.ts, types.ts), and nothing is owed for a message not delivered.
THEOREM EngineTypes == Spec => []TypeOK
<1>1. ASSUME SInv PROVE TypeOK
  <2>1. ASSUME NEW b \in Books PROVE BookType(b)
    <3>1. ASSUME NEW l \in Ladders, NEW p \in DOMAIN b[l]
          PROVE  p \in Nat \ {0} /\ LevelType(b[l][p])
      <4>1. b[l] \in Ladder(Us, Ids, Ps)
        BY <2>1, <3>1 DEF Books, Book, Ladders
      <4>2. p \in Ps /\ b[l][p] \in GoodLevel(Us, Ids)
        BY <3>1, <4>1 DEF Ladder
      <4>3. p \in Nat \ {0}
        BY <4>2, PricesAreNat DEF Ps
      <4> DEFINE level == b[l][p]
      <4>4. level.availableQty \in Nat /\ level.openOrders \in Seq(Row(Us, Ids))
        BY <4>2 DEF GoodLevel, Level
      <4>5. ASSUME NEW o \in ToSet(level.openOrders)
            PROVE  o.qty \in Nat /\ o.filledQty \in 0..o.qty
        <5>1. o \in Row(Us, Ids)
          BY <4>4, Placed, ElementOfSeq
        <5>2. QED
          BY <5>1 DEF Row
      <4>6. QED
        BY <4>3, <4>4, <4>5 DEF LevelType
    <3>2. QED
      BY <3>1 DEF BookType
  <2>2. \A m \in Markets : BookType(books[m]) /\ BookType(snapshots[m])
    BY <1>1, <2>1 DEF SInv, BooksInv
  <2>3. ToSet(placed) \subseteq Orders
    BY <1>1, Placed, ElementOfSeq DEF SInv, StreamsInv
  <2>4. job.sent \in 0..Len(job.fills) /\ job.remainingQty \in Nat /\ job.released \in Nat
    BY <1>1, LenProperties DEF SInv, JobInv, Jobs
  <2>5. QED
    BY <1>1, <2>2, <2>3, <2>4 DEF SInv, StreamsInv, TypeOK
<1>2. QED
  BY <1>1, SAlways, PTL

-----------------------------------------------------------------------------
(* Storage catches up with memory.                                         *)

\* The market whose book has changed since it was last published.
Dirty(m) == phase \in {"fills", "cancel", "rest", "update"} /\ m = Current.order.marketId

\* The book a market will have in storage when the worker has nothing left to do.
Latest(m) ==
  IF LastUpdate(m) > read - Len(batch) THEN updates[LastUpdate(m)].book ELSE snapshots[m]

\* That book is the engine's own, but for a market in hand or one a fault hit.
CatchInv == \A m \in Markets \ missed : Dirty(m) \/ Latest(m) = books[m]

LastOf(us, m) == SelectLastInSeq(us, LAMBDA u : u.marketId = m)

\* The index of a market's last book in a sequence of updates.
LEMMA LastOfIs ==
  ASSUME NEW X, NEW us \in Seq(X), NEW m
  PROVE  /\ LastOf(us, m) \in 0..Len(us)
         /\ LastOf(us, m) # 0 => us[LastOf(us, m)].marketId = m
         /\ \A i \in 1..Len(us) : us[i].marketId = m => i <= LastOf(us, m)
<1> DEFINE I == {i \in 1..Len(us) : us[i].marketId = m}
           n == LastOf(us, m)
<1>1. n = IF I # {} THEN Max(I) ELSE 0
  BY DEF LastOf, SelectLastInSeq
<1>2. Len(us) \in Nat
  BY LenProperties
<1>3. CASE I = {}
  BY <1>1, <1>2, <1>3
<1>4. CASE I # {}
  <2>1. I \in SUBSET (1..Len(us))
    OBVIOUS
  <2>2. Max(I) \in I /\ \A y \in I : Max(I) >= y
    <3> HIDE DEF I
    <3>1. QED
      BY <1>2, <1>4, <2>1, MaxOfSome
  <2>3. n = Max(I)
    BY <1>1, <1>4
  <2> HIDE DEF n
  <2>4. n \in I /\ \A y \in I : n >= y
    BY <2>2, <2>3
  <2>5. n \in 0..Len(us) /\ us[n].marketId = m
    BY <1>2, <2>4
  <2>6. \A i \in 1..Len(us) : us[i].marketId = m => i <= n
    BY <1>2, <2>4
  <2>7. QED
    BY <2>5, <2>6 DEF n
<1>5. QED
  BY <1>3, <1>4

\* That index when one more update is published.
LEMMA LastOfAppended ==
  ASSUME NEW X, NEW us \in Seq(X), NEW u \in X, NEW m
  PROVE  LastOf(Append(us, u), m) = IF u.marketId = m THEN Len(us) + 1 ELSE LastOf(us, m)
<1> DEFINE vs == Append(us, u)
           a == LastOf(us, m)
           b == LastOf(vs, m)
<1>1. /\ vs \in Seq(X) /\ Len(vs) = Len(us) + 1 /\ Len(us) \in Nat /\ vs[Len(us) + 1] = u
      /\ \A i \in 1..Len(us) : vs[i] = us[i]
  BY AppendProperties, LenProperties
<1>2. /\ a \in 0..Len(us) /\ (a # 0 => us[a].marketId = m)
      /\ \A i \in 1..Len(us) : us[i].marketId = m => i <= a
  BY LastOfIs
<1>3. /\ b \in 0..Len(vs) /\ (b # 0 => vs[b].marketId = m)
      /\ \A i \in 1..Len(vs) : vs[i].marketId = m => i <= b
  BY <1>1, LastOfIs
<1> HIDE DEF vs, a, b
<1>4. b = IF u.marketId = m THEN Len(us) + 1 ELSE a
  <2>1. CASE u.marketId = m
    <3>1. Len(us) + 1 \in 1..Len(vs) /\ vs[Len(us) + 1].marketId = m
      BY <1>1, <2>1
    <3>2. Len(us) + 1 <= b
      BY <1>3, <3>1
    <3>3. QED
      BY <1>1, <1>3, <2>1, <3>2
  <2>2. CASE u.marketId # m
    <3>1. b <= Len(us)
      BY <1>1, <1>3, <2>2
    <3>2. b <= a
      <4>1. CASE b = 0
        BY <1>1, <1>2, <4>1
      <4>2. CASE b # 0
        <5>1. b \in 1..Len(us)
          BY <1>1, <1>3, <3>1, <4>2
        <5>2. us[b].marketId = m
          BY <1>1, <1>3, <4>2, <5>1
        <5>3. QED
          BY <1>2, <5>1, <5>2
      <4>3. QED
        BY <4>1, <4>2
    <3>3. a <= b
      <4>1. CASE a = 0
        BY <1>1, <1>3, <4>1
      <4>2. CASE a # 0
        <5>1. a \in 1..Len(us) /\ a \in 1..Len(vs) /\ vs[a] = us[a]
          BY <1>1, <1>2, <4>2
        <5>2. QED
          BY <1>2, <1>3, <4>2, <5>1
      <4>3. QED
        BY <4>1, <4>2
    <3>4. a \in Int /\ b \in Int
      BY <1>1, <1>2, <1>3
    <3>5. QED
      BY <2>2, <3>2, <3>3, <3>4
  <2>3. QED
    BY <2>1, <2>2
<1>5. QED
  BY <1>4 DEF vs, a, b

\* A market's book reaches storage from the same place as long as these stand.
LEMMA LatestKept ==
  ASSUME UNCHANGED <<updates, read, batch, snapshots>>, NEW m
  PROVE  Latest(m)' = Latest(m)
  BY DEF Latest, LastUpdate, SelectLastInSeq

\* The streams are empty and so are the books.
LEMMA CInit == Init => CatchInv
<1> SUFFICES ASSUME Init, NEW m \in Markets PROVE Latest(m) = books[m]
  BY DEF CatchInv
<1>1. updates = <<>> /\ read = 0 /\ batch = <<>> /\ snapshots = books
  BY DEF Init
<1>2. Len(updates) = 0 /\ Len(batch) = 0 /\ updates \in Seq({})
  BY <1>1, EmptySeq
<1>3. LastUpdate(m) = LastOf(updates, m)
  BY DEF LastUpdate, LastOf
<1>4. LastUpdate(m) = 0
  <2>1. LastOf(updates, m) \in 0..Len(updates)
    BY <1>2, LastOfIs
  <2>2. QED
    BY <1>2, <1>3, <2>1
<1>5. QED
  BY <1>1, <1>2, <1>4 DEF Latest

\* The backend, and the engine where no book changes and none is published.
LEMMA CQuiet ==
  ASSUME SInv, CatchInv,
         \/ Backend \/ SkipDuplicate \/ SnapshotFail \/ UNCHANGED vars
         \/ \E outcome \in Outcomes : Read(outcome) \/ Ack(outcome)
  PROVE  CatchInv'
<1>1. UNCHANGED <<books, updates, read, batch, snapshots, missed>>
  BY DEF Backend, PublishOrder, PublishCancel, SkipDuplicate, SnapshotFail, vars, Read, Ack,
     engineVars, snapshotVars
<1>2. ASSUME NEW m \in Markets PROVE Dirty(m) => Dirty(m)'
  <2>1. CASE UNCHANGED <<phase, delivered>> /\ phase # "read"
    <3>1. delivered \in 1..Len(orders) /\ orders \in Seq(Msgs)
      BY <2>1, LenProperties DEF SInv, StreamsInv
    <3>2. Current' = Current
      <4>1. CASE UNCHANGED orders
        BY <2>1, <4>1 DEF Current
      <4>2. CASE \E msg \in Msgs : orders' = Append(orders, msg)
        BY <2>1, <3>1, <4>2, AppendProperties DEF Current
      <4>3. QED
        BY <4>1, <4>2 DEF Backend, PublishOrder, PublishCancel, SkipDuplicate, SnapshotFail,
           vars, Read, Ack, Message, Msgs
    <3>3. QED
      BY <2>1, <3>2 DEF Dirty
  <2>2. CASE phase \in {"read", "handle", "ack"}
    BY <2>2 DEF Dirty
  <2>3. QED
    BY <2>1, <2>2 DEF Backend, PublishOrder, PublishCancel, SkipDuplicate, SnapshotFail, vars,
       Read, Ack, engineVars
<1>3. QED
  BY <1>1, <1>2, LatestKept DEF CatchInv

\* The engine works on the book of the market in hand.
LEMMA CWorks ==
  ASSUME SInv, CatchInv, \/ HandleCancel \/ HandleOrder \/ Rest
                         \/ \E outcome \in Outcomes : PublishFill(outcome) \/ PublishCancelled(outcome)
  PROVE  CatchInv'
<1> DEFINE k == Current.order.marketId
<1>1. /\ \A m \in Markets \ {k} : books'[m] = books[m]
      /\ UNCHANGED <<orders, delivered, updates, read, batch, snapshots>>
      /\ missed \subseteq missed'
  <2>1. books \in [Markets -> Books]
    BY DEF SInv, BooksInv
  <2>2. QED
    BY <2>1 DEF HandleCancel, HandleOrder, Rest, PublishFill, PublishCancelled, snapshotVars
<1>2. \/ Dirty(k)' \/ k \in missed'
      \/ UNCHANGED books /\ ~Dirty(k)
  <2>1. Current' = Current
    BY <1>1 DEF Current
  <2>2. CASE HandleOrder
    <3>1. phase' \in {"fills", "cancel", "rest"}
      BY <2>2 DEF HandleOrder, AfterFills
    <3>2. QED
      BY <2>1, <3>1 DEF Dirty
  <2>3. CASE Rest
    BY <2>1, <2>3 DEF Rest, Dirty
  <2>4. ASSUME NEW outcome \in Outcomes, PublishFill(outcome) \/ PublishCancelled(outcome)
        PROVE  Dirty(k)' \/ k \in missed'
    <3>1. CASE outcome = "ok"
      <4>1. phase' \in {"fills", "cancel", "rest", "update"}
        BY <2>4, <3>1 DEF PublishFill, PublishCancelled, Proceed, AfterFills, AfterCancelled
      <4>2. QED
        BY <2>1, <4>1 DEF Dirty
    <3>2. CASE outcome # "ok"
      BY <2>4, <3>2 DEF PublishFill, PublishCancelled
    <3>3. QED
      BY <3>1, <3>2
  <2>5. CASE HandleCancel
    <3> DEFINE o   == Current.order
               out == RemovedOrders(books[k], o.side, o.price, o.orderId)
               new == RemoveOrder(books[k], o.side, o.price, o.orderId)
    <3>1. /\ phase = "handle" /\ phase' = AfterRemoval(out)
          /\ books' = [books EXCEPT ![k] = new]
      BY <2>5 DEF HandleCancel
    <3>2. out = {} => new = books[k]
      BY DEF RemovedOrders, RemoveOrder
    <3>3. k \in Markets
      BY <3>1, CurrentIs, OrderIsTaker DEF SInv, StreamsInv
    <3> HIDE DEF new, out
    <3>4. CASE out = {}
      BY <3>1, <3>2, <3>3, <3>4 DEF SInv, BooksInv, Dirty
    <3>5. CASE out # {}
      BY <2>1, <3>1, <3>5 DEF AfterRemoval, Dirty
    <3>6. QED
      BY <3>4, <3>5
  <2>6. QED
    BY <2>2, <2>3, <2>4, <2>5
<1>3. ASSUME NEW m \in Markets \ missed' PROVE Dirty(m)' \/ Latest(m)' = books'[m]
  <2>1. Latest(m)' = Latest(m)
    BY <1>1, LatestKept
  <2>2. Dirty(m) \/ Latest(m) = books[m]
    BY <1>1 DEF CatchInv
  <2>3. CASE m = k
    <3>1. Current' = Current
      BY <1>1 DEF Current
    <3>2. (Dirty(k)' => Dirty(m)') /\ (Dirty(m) => Dirty(k))
      BY <2>3, <3>1 DEF Dirty
    <3>3. k \notin missed'
      BY <2>3
    <3>4. CASE Dirty(k)'
      BY <3>2, <3>4
    <3>5. CASE UNCHANGED books /\ ~Dirty(k)
      BY <2>1, <2>2, <3>2, <3>5
    <3>6. QED
      BY <1>2, <3>3, <3>4, <3>5
  <2>4. CASE m # k
    BY <1>1, <2>1, <2>2, <2>4 DEF Dirty
  <2>5. QED
    BY <2>3, <2>4
<1>4. QED
  BY <1>3 DEF CatchInv

\* The last index of a market, as the streams name it.
LEMMA LastUpdateIs ==
  ASSUME StreamsInv, NEW m
  PROVE  /\ LastUpdate(m) \in 0..Len(updates) /\ Len(updates) \in Nat
         /\ LastUpdate(m) # 0 => updates[LastUpdate(m)].marketId = m
         /\ \A i \in 1..Len(updates) : updates[i].marketId = m => i <= LastUpdate(m)
<1> DEFINE X == [marketId : Markets, book : Books]
<1>1. updates \in Seq(X) /\ Len(updates) \in Nat
  BY LenProperties DEF StreamsInv
<1>2. LastUpdate(m) = LastOf(updates, m)
  BY DEF LastUpdate, LastOf
<1> HIDE DEF X
<1>3. /\ LastOf(updates, m) \in 0..Len(updates)
      /\ LastOf(updates, m) # 0 => updates[LastOf(updates, m)].marketId = m
      /\ \A i \in 1..Len(updates) : updates[i].marketId = m => i <= LastOf(updates, m)
  BY <1>1, LastOfIs
<1>4. QED
  BY <1>1, <1>2, <1>3

\* The book is published, or is not.
LEMMA CPublish ==
  ASSUME SInv, CatchInv, NEW outcome \in Outcomes, PublishBook(outcome)
  PROVE  CatchInv'
<1> DEFINE k == Current.order.marketId
           u == [marketId |-> k, book |-> books[k]]
           X == [marketId : Markets, book : Books]
           n == Len(updates)
<1>1. /\ phase = "update" /\ updates' = XAdd(updates, u, outcome)
      /\ missed' = IF outcome = "lost" THEN missed \cup {k} ELSE missed \ {k}
      /\ UNCHANGED <<books, read, batch, snapshots>>
  BY DEF PublishBook, snapshotVars
<1>2. k \in Markets
  BY <1>1, CurrentIs, OrderIsTaker DEF SInv, StreamsInv
<1>3. u \in X /\ updates \in Seq(X) /\ u.marketId = k /\ u.book = books[k]
  BY <1>2 DEF SInv, BooksInv, StreamsInv
<1>4. \A m : Dirty(m) => m = k
  BY DEF Dirty
<1> HIDE DEF k, u, X
<1>5. CASE outcome = "lost"
  <2>1. UNCHANGED updates /\ missed' = missed \cup {k}
    BY <1>1, <1>5 DEF XAdd
  <2>2. ASSUME NEW m \in Markets \ missed' PROVE Latest(m)' = books'[m]
    <3>1. Latest(m)' = Latest(m)
      BY <1>1, <2>1, LatestKept
    <3>2. m # k /\ m \notin missed
      BY <2>1
    <3>3. QED
      BY <1>1, <1>4, <3>1, <3>2 DEF CatchInv
  <2>3. QED
    BY <2>2 DEF CatchInv
<1>6. CASE outcome # "lost"
  <2>1. updates' = Append(updates, u) /\ missed' = missed \ {k}
    BY <1>1, <1>6 DEF XAdd
  <2>2. /\ n \in Nat /\ updates'[n + 1] = u
        /\ \A i \in 1..n : updates'[i] = updates[i]
    BY <1>3, <2>1, AppendProperties, LenProperties
  <2>3. read \in Nat /\ Len(batch) \in Nat /\ read <= n /\ Len(batch) <= read
    BY LenProperties DEF SInv, StreamsInv
  <2>4. ASSUME NEW m \in Markets
        PROVE  LastUpdate(m)' = IF k = m THEN n + 1 ELSE LastUpdate(m)
    <3>1. LastUpdate(m) = LastOf(updates, m) /\ LastUpdate(m)' = LastOf(updates', m)
      BY DEF LastUpdate, LastOf, SelectLastInSeq
    <3>2. LastOf(updates', m) = IF k = m THEN n + 1 ELSE LastOf(updates, m)
      BY <1>3, <2>1, LastOfAppended
    <3>3. QED
      BY <3>1, <3>2
  <2>5. ASSUME NEW m \in Markets \ missed' PROVE Latest(m)' = books'[m]
    <3>1. Latest(m)' = IF LastUpdate(m)' > read - Len(batch)
                       THEN updates'[LastUpdate(m)'].book ELSE snapshots[m]
      BY <1>1 DEF Latest
    <3>2. CASE m = k
      <4>1. LastUpdate(m)' = n + 1 /\ n + 1 > read - Len(batch)
        BY <2>3, <2>2, <2>4, <3>2
      <4>2. Latest(m)' = u.book
        BY <2>2, <3>1, <4>1
      <4>3. QED
        BY <1>1, <1>3, <3>2, <4>2
    <3>3. CASE m # k
      <4>1. LastUpdate(m)' = LastUpdate(m) /\ m \notin missed
        BY <2>1, <2>4, <3>3
      <4>2. LastUpdate(m) \in 0..n
        BY LastUpdateIs DEF SInv
      <4>3. LastUpdate(m) > read - Len(batch) => updates'[LastUpdate(m)] = updates[LastUpdate(m)]
        <5>1. LastUpdate(m) > read - Len(batch) => LastUpdate(m) \in 1..n
          BY <2>2, <2>3, <4>2
        <5>2. QED
          BY <2>2, <5>1
      <4>4. Latest(m)' = Latest(m)
        BY <3>1, <4>1, <4>3 DEF Latest
      <4>5. QED
        BY <1>1, <1>4, <3>3, <4>1, <4>4 DEF CatchInv
    <3>4. QED
      BY <3>2, <3>3
  <2>6. QED
    BY <2>5 DEF CatchInv
<1>7. QED
  BY <1>5, <1>6

\* The snapshot worker reads and stores.
LEMMA CSnapshot ==
  ASSUME SInv, CatchInv, Snapshot
  PROVE  CatchInv'
<1>1. UNCHANGED <<orders, delivered, phase, books, updates, missed>>
  BY DEF Snapshot, SnapshotRead, SnapshotStore, engineVars
<1>2. \A m : Dirty(m)' <=> Dirty(m)
  BY <1>1 DEF Dirty, Current
<1>3. \A m : LastUpdate(m)' = LastUpdate(m)
  BY <1>1 DEF LastUpdate, SelectLastInSeq
<1>4. read \in Nat /\ Len(batch) \in Nat /\ Len(batch) <= read
  BY LenProperties DEF SInv, StreamsInv
<1>5. ASSUME NEW m \in Markets PROVE Latest(m)' = Latest(m)
  <2>1. CASE SnapshotRead
    <3>1. batch = <<>> /\ Len(batch) = 0 /\ UNCHANGED snapshots
      BY <2>1, EmptySeq DEF SnapshotRead
    <3>2. read' - Len(batch') = read
      <4> DEFINE upto == Min({read + BatchSize, Len(updates)})
                 X == [marketId : Markets, book : Books]
      <4>1. /\ batch' = SubSeq(updates, read + 1, upto) /\ read' = upto
            /\ updates \in Seq(X) /\ read < Len(updates) /\ Len(updates) \in Nat
            /\ BatchSize \in Nat \ {0}
        BY <2>1, LenProperties, BoundsAssumption DEF SnapshotRead, SInv, StreamsInv
      <4>2. upto \in Nat /\ read < upto /\ upto <= Len(updates)
        <5> DEFINE a == read + BatchSize
                   b == Len(updates)
        <5>1. a \in Int /\ b \in Int /\ a > read /\ b > read
          BY <1>4, <4>1
        <5> HIDE DEF a, b
        <5>2. upto = IF a <= b THEN a ELSE b
          BY <5>1, OfTwo DEF a, b
        <5>3. upto \in Int /\ upto > read /\ upto <= b
          BY <1>4, <5>1, <5>2
        <5>4. QED
          BY <1>4, <5>3 DEF b
      <4> HIDE DEF upto
      <4>3. \A i \in 1..Len(updates) : updates[i] \in X
        BY <4>1, ElementOfSeq
      <4>4. \A i \in (read + 1)..upto : updates[i] \in X
        BY <1>4, <4>1, <4>2, <4>3
      <4>5. Len(SubSeq(updates, read + 1, upto)) =
              IF read + 1 <= upto THEN upto - (read + 1) + 1 ELSE 0
        <5> HIDE DEF X
        <5>1. read + 1 \in Int /\ upto \in Int
          BY <1>4, <4>2
        <5>2. QED
          BY <4>4, <5>1, SubSeqProperties
      <4>6. QED
        BY <1>4, <4>1, <4>2, <4>5
    <3>3. read - Len(batch) = read
      BY <1>4, <3>1
    <3>4. QED
      BY <1>1, <1>3, <3>1, <3>2, <3>3 DEF Latest
  <2>2. CASE SnapshotStore
    <3> DEFINE h == Head(batch)
               n == read - Len(batch)
               l == LastUpdate(m)
    <3>1. /\ batch # <<>> /\ batch' = Tail(batch) /\ UNCHANGED read
          /\ snapshots' = [snapshots EXCEPT ![h.marketId] = h.book]
      BY <2>2 DEF SnapshotStore
    <3>2. /\ h \in [marketId : Markets, book : Books] /\ n + 1 \in 1..Len(updates)
          /\ h = updates[n + 1] /\ Len(Tail(batch)) = Len(batch) - 1
      BY <3>1, HeadOfBatch
    <3>3. read' - Len(batch') = n + 1 /\ n \in Nat
      BY <1>4, <3>1, <3>2
    <3>4. /\ l \in 0..Len(updates) /\ Len(updates) \in Nat
          /\ l # 0 => updates[l].marketId = m
          /\ \A i \in 1..Len(updates) : updates[i].marketId = m => i <= l
      BY LastUpdateIs DEF SInv
    <3>5. snapshots'[m] = IF h.marketId = m THEN h.book ELSE snapshots[m]
      BY <3>1 DEF SInv, BooksInv
    <3> HIDE DEF h, n, l
    <3>6. Latest(m) = IF l > n THEN updates[l].book ELSE snapshots[m]
      BY DEF Latest, l, n
    <3>7. Latest(m)' = IF l > n + 1 THEN updates[l].book ELSE snapshots'[m]
      BY <1>1, <1>3, <3>3 DEF Latest, l
    <3>8. CASE h.marketId = m
      <4>1. l >= n + 1
        BY <3>2, <3>4, <3>8
      <4>2. CASE l = n + 1
        BY <3>2, <3>3, <3>5, <3>6, <3>7, <3>8, <4>2
      <4>3. CASE l > n + 1
        BY <3>3, <3>4, <3>6, <3>7, <4>3
      <4>4. QED
        BY <3>3, <3>4, <4>1, <4>2, <4>3
    <3>9. CASE h.marketId # m
      <4>1. l # n + 1
        BY <3>2, <3>3, <3>4, <3>9
      <4>2. l > n <=> l > n + 1
        BY <3>3, <3>4, <4>1
      <4>3. QED
        BY <3>5, <3>6, <3>7, <3>9, <4>2
    <3>10. QED
      BY <3>8, <3>9
  <2>3. QED
    BY <2>1, <2>2 DEF Snapshot
<1>6. QED
  BY <1>1, <1>2, <1>5 DEF CatchInv

\* A restart drops the batch in hand, or what the engine had in memory.
LEMMA CRestart ==
  ASSUME SInv, CatchInv, RestartSnapshot \/ RestartEngine
  PROVE  CatchInv'
<1>1. \A m : LastUpdate(m)' = LastUpdate(m)
  BY DEF RestartSnapshot, RestartEngine, LastUpdate, SelectLastInSeq
<1>2. read \in Nat /\ Len(batch) \in Nat /\ Len(batch) <= read
  BY LenProperties DEF SInv, StreamsInv
<1>3. CASE RestartSnapshot
  <2>1. /\ UNCHANGED <<orders, delivered, phase, books, updates, read, snapshots>>
        /\ batch' = <<>> /\ Len(batch') = 0
        /\ missed' = missed \cup {m \in Markets : LastUpdate(m) \in (read - Len(batch)) + 1 .. read}
    BY <1>3, EmptySeq DEF RestartSnapshot, engineVars
  <2>2. ASSUME NEW m \in Markets \ missed' PROVE Dirty(m)' \/ Latest(m)' = books'[m]
    <3> DEFINE l == LastUpdate(m)
               n == read - Len(batch)
    <3>1. m \notin missed /\ ~(l \in n + 1 .. read)
      BY <2>1
    <3>2. Dirty(m)' <=> Dirty(m)
      BY <2>1 DEF Dirty, Current
    <3>3. l \in Nat /\ n \in Nat /\ n <= read
      BY <1>2, LastUpdateIs DEF SInv
    <3>4. Latest(m)' = IF l > read THEN updates[l].book ELSE snapshots[m]
      <4>1. read' - Len(batch') = read
        BY <1>2, <2>1
      <4>2. QED
        BY <1>1, <2>1, <4>1 DEF Latest
    <3> HIDE DEF l, n
    <3>5. l > n <=> l > read
      BY <1>2, <3>1, <3>3
    <3>6. Latest(m)' = Latest(m)
      BY <3>4, <3>5 DEF Latest, l, n
    <3>7. QED
      BY <2>1, <3>1, <3>2, <3>6 DEF CatchInv
  <2>3. QED
    BY <2>2 DEF CatchInv
<1>4. CASE RestartEngine
  <2>1. /\ UNCHANGED <<updates, read, batch, snapshots>> /\ books' = snapshots
        /\ missed' = {m \in Markets :
                        snapshots[m] # IF LastUpdate(m) = 0 THEN EmptyBook
                                       ELSE updates[LastUpdate(m)].book}
    BY <1>4 DEF RestartEngine, snapshotVars
  <2>2. ASSUME NEW m \in Markets \ missed' PROVE Latest(m)' = books'[m]
    <3>1. snapshots[m] = IF LastUpdate(m) = 0 THEN EmptyBook ELSE updates[LastUpdate(m)].book
      BY <2>1
    <3>2. LastUpdate(m) > read - Len(batch) => LastUpdate(m) # 0
      BY <1>2, LastUpdateIs DEF SInv
    <3>3. Latest(m)' = Latest(m)
      BY <2>1, LatestKept
    <3>4. Latest(m) = snapshots[m]
      BY <3>1, <3>2 DEF Latest
    <3>5. QED
      BY <2>1, <3>3, <3>4
  <2>3. QED
    BY <2>2 DEF CatchInv
<1>5. QED
  BY <1>3, <1>4

\* When the engine waits for a message and the worker has nothing to do, every
\* market's stored book is the engine's own, cancels included, unless a fault
\* kept the last one from storage (index.ts: the publication after a cancel;
\* snapshot worker: one SET after the other, in the order of the stream).
THEOREM StorageCatchesUp == Spec => []SnapshotCatchesUp
<1>1. SInv /\ CatchInv /\ [Next]_vars => CatchInv'
  <2> SUFFICES ASSUME SInv, CatchInv, [Next]_vars PROVE CatchInv'
    OBVIOUS
  <2>1. CASE Awaits
    BY <2>1, CQuiet, CWorks, CPublish DEF Awaits
  <2>2. CASE Backend \/ SnapshotFail \/ UNCHANGED vars
    BY <2>2, CQuiet
  <2>3. CASE HandleOrder
    BY <2>3, CWorks
  <2>4. CASE Snapshot
    BY <2>4, CSnapshot
  <2>5. CASE RestartEngine \/ RestartSnapshot
    BY <2>5, CRestart
  <2>6. QED
    BY <2>1, <2>2, <2>3, <2>4, <2>5 DEF Next
<1>2. SInv /\ CatchInv => SnapshotCatchesUp
  <2> SUFFICES ASSUME SInv, CatchInv, phase = "read", batch = <<>>, read = Len(updates),
                      NEW m \in Markets \ missed
               PROVE  snapshots[m] = books[m]
    BY DEF SnapshotCatchesUp
  <2>1. Latest(m) = books[m]
    BY DEF CatchInv, Dirty
  <2>2. /\ Len(batch) = 0 /\ Len(updates) \in Nat
        /\ LastUpdate(m) \in Nat /\ LastUpdate(m) <= Len(updates)
    BY EmptySeq, LastUpdateIs DEF SInv
  <2>3. read - Len(batch) = read
    BY <2>2
  <2>4. ~(LastUpdate(m) > read - Len(batch))
    BY <2>2, <2>3, SMT
  <2>5. QED
    BY <2>1, <2>4 DEF Latest
<1>3. QED
  BY <1>1, <1>2, CInit, SAlways, PTL DEF Spec

-----------------------------------------------------------------------------
(* The loop implements Matching while no fault breaks a step in two.       *)
(* Abstract!X is X of Matching at the values the loop stands for; the      *)
(* operators of the book are the same on both sides.                       *)

\* The fills and the cancels that count as done: published, or still to be.
Done      == fills \o SubSeq(job.fills, job.sent + 1, Len(job.fills))
Cancelled(id) == [orderId |-> id, unfilledQty |-> job.released]
Undone    == IF job.released > 0 THEN Append(cancels, Cancelled(Current.order.orderId)) ELSE cancels

\* The match of one side is the one of Matching.
LEMMA SameMatchSide ==
  ASSUME NEW levels, NEW taker
  PROVE  Abstract!MatchSide(levels, taker) = MatchSide(levels, taker)
  BY DEF MatchSide, Abstract!MatchSide, MatchLevel, Abstract!MatchLevel, Crosses,
     Abstract!Crosses, Visit, Abstract!Visit, Take, Abstract!Take, Fillable, Abstract!Fillable,
     Min, Abstract!Min, Max, Abstract!Max, Unfilled, Abstract!Unfilled, FoldLeft,
     Abstract!FoldLeft, MapThenFoldSet, Abstract!MapThenFoldSet, SetLevel, Abstract!SetLevel,
     Restrict, Abstract!Restrict, SortedPrices, Abstract!SortedPrices, Cardinality,
     Abstract!Cardinality, IsFiniteSet, Abstract!IsFiniteSet

\* So are the match of a book, the rest, the last price and the removal.
LEMMA SameOperations ==
  ASSUME NEW book, NEW taker, NEW remaining, NEW fs, NEW side, NEW price, NEW id
  PROVE  /\ Abstract!Match(book, taker) = Match(book, taker)
         /\ Abstract!SetLastTrade(book, fs) = SetLastTrade(book, fs)
         /\ Abstract!RestLeftover(book, taker, remaining) = RestLeftover(book, taker, remaining)
         /\ Abstract!RemovedOrders(book, side, price, id) = RemovedOrders(book, side, price, id)
         /\ Abstract!RemoveOrder(book, side, price, id) = RemoveOrder(book, side, price, id)
<1>1. Abstract!Match(book, taker) = Match(book, taker)
  BY SameMatchSide DEF Match, Abstract!Match, LadderOf, Abstract!LadderOf, Opposite,
     Abstract!Opposite
<1>2. /\ Abstract!SetLastTrade(book, fs) = SetLastTrade(book, fs)
      /\ Abstract!RestLeftover(book, taker, remaining) = RestLeftover(book, taker, remaining)
  BY DEF SetLastTrade, Abstract!SetLastTrade, Last, Abstract!Last, RestLeftover,
     Abstract!RestLeftover, RestOrder, Abstract!RestOrder, Push, Abstract!Push, EmptyLevel,
     Abstract!EmptyLevel, LadderOf, Abstract!LadderOf, Fillable, Abstract!Fillable
<1>3. /\ Abstract!RemovedOrders(book, side, price, id) = RemovedOrders(book, side, price, id)
      /\ Abstract!RemoveOrder(book, side, price, id) = RemoveOrder(book, side, price, id)
  BY DEF RemovedOrders, Abstract!RemovedOrders, QueueIndex, Abstract!QueueIndex, SelectInSeq,
     Abstract!SelectInSeq, Min, Abstract!Min, LadderOf, Abstract!LadderOf, RemoveOrder,
     Abstract!RemoveOrder, SetLevel, Abstract!SetLevel, Restrict, Abstract!Restrict, Unlist,
     Abstract!Unlist, Fillable, Abstract!Fillable, Max, Abstract!Max, RemoveAt,
     Abstract!RemoveAt
<1>4. QED
  BY <1>1, <1>2, <1>3

\* What Matching sees of the loop.
LEMMA SameVariables ==
  /\ Abstract!vars = <<MatchedBooks, placed, Done, Undone>>
  /\ Abstract!vars' = <<MatchedBooks', placed', Done', Undone'>>
  BY DEF Abstract!vars, Done, Undone, Cancelled

\* Nothing happens that Matching sees.
Idle == UNCHANGED <<MatchedBooks, placed, Done, Undone>>

\* Handling an order, as Matching does it with one that is new.
Handles(o) ==
  LET m == Match(MatchedBooks[o.marketId], o) IN
  /\ placed' = Append(placed, o)
  /\ MatchedBooks' = [MatchedBooks EXCEPT ![o.marketId] =
                        SetLastTrade(RestLeftover(m.book, o, m.remainingQty), m.fills)]
  /\ Done' = Done \o m.fills
  /\ Undone' = Undone \o (IF m.remainingQty > 0 /\ o.orderType = "MARKET"
                          THEN <<[orderId |-> o.orderId, unfilledQty |-> m.remainingQty]>>
                          ELSE <<>>)

\* Handling a cancel, as Matching does it.
Cancels(o) ==
  \E removed \in RemovedOrders(MatchedBooks[o.marketId], o.side, o.price, o.orderId) :
    /\ MatchedBooks' = [MatchedBooks EXCEPT ![o.marketId] =
                          RemoveOrder(@, o.side, o.price, o.orderId)]
    /\ Undone' = Append(Undone, [orderId |-> o.orderId, unfilledQty |-> Fillable(removed)])
    /\ placed' = placed /\ Done' = Done

\* An order committed is one of those Matching handles.
LEMMA OrderIsAbstract ==
  ASSUME NEW o \in Orders
  PROVE  o \in Abstract!Order
<1>1. /\ o \in [orderId : {o.orderId}, userId : {o.userId}, marketId : Markets, side : Sides,
               orderType : {"LIMIT", "MARKET"}, price : Nat, qty : Nat \ {0}]
      /\ o.orderType = "LIMIT" <=> o.price # 0
  BY OrdersAssumption
<1> DEFINE Qs == {x.qty : x \in Orders}
<1>2. o.orderId \in Ids /\ o.userId \in Us /\ o.qty \in Qs
  BY DEF Ids, Us
<1>3. CASE o.orderType = "LIMIT"
  <2>1. o.price \in Ps
    BY <1>1, <1>3 DEF Ps
  <2>2. o \in [orderId : Ids, userId : Us, marketId : Markets, side : Sides,
               orderType : {"LIMIT"}, price : Ps, qty : Qs]
    BY <1>1, <1>2, <1>3, <2>1
  <2>3. QED
    BY <2>2 DEF Abstract!Order, Abstract!Sides, Sides, Ids, Us, Ps
<1>4. CASE o.orderType = "MARKET"
  <2>1. o \in [orderId : Ids, userId : Us, marketId : Markets, side : Sides,
               orderType : {"MARKET"}, price : {0}, qty : Qs]
    BY <1>1, <1>2, <1>4
  <2>2. QED
    BY <2>1 DEF Abstract!Order, Abstract!Sides, Sides, Ids, Us, Ps
<1>5. QED
  BY <1>1, <1>3, <1>4

\* A handled order is a step of Matching.
LEMMA HandlesIsStep ==
  ASSUME NEW o \in Orders, o.orderId \notin PlacedIds, Handles(o)
  PROVE  [Abstract!Next]_(Abstract!vars)
<1>1. o \in Abstract!Order
  BY OrderIsAbstract
<1>2. Abstract!PlacedIds = PlacedIds
  BY DEF Abstract!PlacedIds, PlacedIds, Abstract!ToSet, ToSet
<1>3. Abstract!Handle(o)
  BY <1>2, SameOperations DEF Abstract!Handle, Handles, Abstract!MarketRemainder,
     Abstract!CancelMsg, Done, Undone, Cancelled
<1>4. QED
  BY <1>1, <1>3 DEF Abstract!Next

\* A cancelled order is a step of Matching.
LEMMA CancelsIsStep ==
  ASSUME NEW o \in ToSet(placed), Cancels(o)
  PROVE  [Abstract!Next]_(Abstract!vars)
<1>1. o \in Abstract!ToSet(placed)
  BY DEF Abstract!ToSet, ToSet
<1>2. Abstract!Cancel(o)
  <2> DEFINE b  == MatchedBooks[o.marketId]
             rs == RemovedOrders(b, o.side, o.price, o.orderId)
  <2>1. PICK removed \in rs :
          /\ MatchedBooks' = [MatchedBooks EXCEPT ![o.marketId] =
                                RemoveOrder(@, o.side, o.price, o.orderId)]
          /\ Undone' = Append(Undone, [orderId |-> o.orderId, unfilledQty |-> Fillable(removed)])
          /\ placed' = placed /\ Done' = Done
    BY DEF Cancels
  <2>2. Abstract!RemovedOrders(b, o.side, o.price, o.orderId) = rs
        /\ Abstract!RemoveOrder(b, o.side, o.price, o.orderId) =
              RemoveOrder(b, o.side, o.price, o.orderId)
    BY SameOperations
  <2>3. Abstract!CancelMsg(o.orderId, Abstract!Fillable(removed)) =
          [orderId |-> o.orderId, unfilledQty |-> Fillable(removed)]
    BY DEF Abstract!CancelMsg, Abstract!Fillable, Fillable
  <2>4. removed \in Abstract!RemovedOrders(b, o.side, o.price, o.orderId)
    BY <2>1, <2>2
  <2>5. /\ MatchedBooks' = [MatchedBooks EXCEPT ![o.marketId] =
                              Abstract!RemoveOrder(@, o.side, o.price, o.orderId)]
        /\ Undone' = Append(Undone, Abstract!CancelMsg(o.orderId, Abstract!Fillable(removed)))
        /\ UNCHANGED <<placed, Done>>
    BY <2>1, <2>2, <2>3
  <2> HIDE DEF rs
  <2>6. QED
    BY <2>4, <2>5 DEF Abstract!Cancel, Done, Undone, Cancelled
<1>3. QED
  BY <1>1, <1>2 DEF Abstract!Next

\* A step Matching does not see.
LEMMA IdleIsStep ==
  ASSUME Idle
  PROVE  [Abstract!Next]_(Abstract!vars)
  BY SameVariables DEF Idle

Cancellations == [orderId : Ids, unfilledQty : Nat]

\* What the refinement needs besides SInv: the published streams have their
\* types, and while nothing has failed every order that was matched, except the
\* one in hand, is one the engine remembers.
RInv ==
  /\ fills \in Seq(Fills) /\ cancels \in Seq(Cancellations) /\ crashes \in Nat
  /\ intact /\ crashes = 0 =>
       \A o \in ToSet(placed) : o.orderId \in processed \/ (Matched /\ o = Current.order)

\* A step of the loop that keeps RInv and is a step of Matching or of nothing.
Implements == RInv' /\ (intact' => [Abstract!Next]_(Abstract!vars))

\* Nothing is undone of a message that is not in hand.
LEMMA NothingInHand ==
  ASSUME RInv, job = NoJob
  PROVE  Done = fills /\ Undone = cancels
<1>1. job.fills = <<>> /\ job.sent = 0 /\ ~(job.released > 0) /\ Len(job.fills) = 0
  BY EmptySeq DEF NoJob
<1>2. SubSeq(job.fills, job.sent + 1, Len(job.fills)) = <<>>
  BY <1>1, SubSeqEmpty
<1>3. fills \o <<>> = fills
  BY ConcatEmptySeq DEF RInv
<1>4. QED
  BY <1>1, <1>2, <1>3 DEF Done, Undone

\* A step that leaves the books, the job and its streams alone.
LEMMA QuietIs ==
  ASSUME SInv, RInv, UNCHANGED <<books, processed, job, fills, cancels, placed, intact>>,
         crashes' = crashes \/ crashes' = crashes + 1,
         \/ UNCHANGED <<phase, Current>>
         \/ phase \in {"read", "handle", "update", "ack"}
            /\ phase' \in {"read", "handle", "update", "ack"}
  PROVE  RInv' /\ Idle
<1>1. crashes' \in Nat /\ (crashes' = 0 => crashes = 0)
  BY DEF RInv
<1>2. CASE UNCHANGED <<phase, Current>>
  <2>1. Matched' <=> Matched
    BY <1>2 DEF Matched
  <2> HIDE DEF Current, Matched
  <2>2. RInv'
    BY <1>1, <1>2, <2>1 DEF RInv, Fills, Cancellations
  <2>3. Idle
    BY <1>2, <2>1 DEF Idle, MatchedBooks, Done, Undone, Cancelled
  <2>4. QED
    BY <2>2, <2>3
<1>3. CASE /\ phase \in {"read", "handle", "update", "ack"}
           /\ phase' \in {"read", "handle", "update", "ack"}
  <2>1. ~Matched /\ ~Matched'
    BY <1>3 DEF Matched
  <2>2. job = NoJob
    BY <1>3 DEF SInv, JobInv
  <2> HIDE DEF Current, Matched
  <2>3. RInv'
    BY <1>1, <2>1 DEF RInv, Fills, Cancellations
  <2>4. ~(job.released > 0)
    BY <2>2 DEF NoJob
  <2>5. Idle
    BY <2>1, <2>4 DEF Idle, MatchedBooks, Done, Undone, Cancelled
  <2>6. QED
    BY <2>3, <2>5
<1>4. QED
  BY <1>2, <1>3

\* Everybody else, and the engine where it does nothing Matching sees.
LEMMA RQuiet ==
  ASSUME SInv, RInv,
         \/ Backend \/ SkipDuplicate \/ Snapshot \/ SnapshotFail \/ RestartSnapshot
         \/ UNCHANGED vars
         \/ \E outcome \in Outcomes : Read(outcome) \/ PublishBook(outcome) \/ Ack(outcome)
  PROVE  RInv' /\ Idle
<1>1. /\ UNCHANGED <<books, processed, job, fills, cancels, placed, intact>>
      /\ crashes' = crashes \/ crashes' = crashes + 1
  BY DEF Backend, PublishOrder, PublishCancel, SkipDuplicate, Snapshot, SnapshotRead,
     SnapshotStore, SnapshotFail, RestartSnapshot, vars, Read, PublishBook, Ack, engineVars,
     snapshotVars
<1>2. \/ UNCHANGED <<phase, Current>>
      \/ phase \in {"read", "handle", "update", "ack"}
         /\ phase' \in {"read", "handle", "update", "ack"}
  <2>1. CASE \/ SkipDuplicate
             \/ \E outcome \in Outcomes : Read(outcome) \/ PublishBook(outcome) \/ Ack(outcome)
    BY <2>1 DEF SkipDuplicate, Read, PublishBook, Ack, Proceed
  <2>2. CASE Snapshot \/ SnapshotFail \/ RestartSnapshot \/ UNCHANGED vars
    BY <2>2 DEF Snapshot, SnapshotRead, SnapshotStore, SnapshotFail, RestartSnapshot, vars,
       engineVars, Current
  <2>3. CASE Backend
    <3>1. UNCHANGED <<phase, delivered>> /\ \E msg \in Msgs : orders' = Append(orders, msg)
      BY <2>3 DEF Backend, PublishOrder, PublishCancel, Message, Msgs, engineVars
    <3>2. CASE phase = "read"
      BY <3>1, <3>2
    <3>3. CASE phase # "read"
      <4>1. delivered \in 1..Len(orders) /\ orders \in Seq(Msgs)
        BY <3>3, LenProperties DEF SInv, StreamsInv
      <4>2. QED
        BY <3>1, <4>1, AppendProperties DEF Current
    <3>4. QED
      BY <3>2, <3>3
  <2>4. QED
    BY <2>1, <2>2, <2>3
<1>3. QED
  BY <1>1, <1>2, QuietIs

\* The engine starts again; intact, from the very books it had.
LEMMA RRestart ==
  ASSUME SInv, RInv, RestartEngine
  PROVE  Implements
<1>1. /\ phase' = "read" /\ job' = NoJob /\ books' = snapshots /\ crashes' = crashes + 1
      /\ UNCHANGED <<fills, cancels, placed>>
  BY DEF RestartEngine
<1>2. RInv'
  BY <1>1 DEF RInv, Fills, Cancellations
<1>3. ASSUME intact' PROVE Idle
  <2>1. phase \in {"read", "handle", "update", "ack"} /\ snapshots = books
    BY <1>3 DEF RestartEngine
  <2>2. job = NoJob /\ ~Matched /\ ~Matched'
    BY <1>1, <2>1 DEF SInv, JobInv, Matched
  <2>3. MatchedBooks' = MatchedBooks
    BY <1>1, <2>1, <2>2 DEF MatchedBooks
  <2>4. Done' = Done /\ Undone' = Undone
    <3>1. ~(NoJob.released > 0)
      BY DEF NoJob
    <3>2. QED
      BY <1>1, <2>2, <3>1 DEF Done, Undone
  <2>5. QED
    BY <1>1, <2>3, <2>4 DEF Idle
<1>4. QED
  BY <1>2, <1>3, IdleIsStep DEF Implements

\* A cancel: of nothing, or Matching's.
LEMMA RCancel ==
  ASSUME SInv, RInv, HandleCancel
  PROVE  RInv' /\ (Idle \/ (Current.order \in ToSet(placed) /\ Cancels(Current.order)))
<1> DEFINE o   == Current.order
           k   == o.marketId
           out == RemovedOrders(books[k], o.side, o.price, o.orderId)
           new == RemoveOrder(books[k], o.side, o.price, o.orderId)
           n   == SumSet({Fillable(r) : r \in out})
           S   == ToSet(placed)
<1>1. /\ phase = "handle" /\ Current.type = "order.cancel"
      /\ books' = [books EXCEPT ![k] = new]
      /\ job' = [NoJob EXCEPT !.released = n]
      /\ phase' = AfterRemoval(out)
      /\ UNCHANGED <<orders, delivered, processed, fills, cancels, placed, crashes, intact>>
  BY DEF HandleCancel
<1>2. o \in Orders /\ k \in Markets
  BY <1>1, CurrentIs, OrderIsTaker DEF SInv, StreamsInv
<1>3. /\ out = {} => new = books[k]
      /\ out # {} => /\ o \in S
                     /\ \E row \in Row(Us, Ids) : out = {row} /\ Fillable(row) > 0
  <2>1. SoundBook(books[k], S, k)
    BY <1>2 DEF SInv, BooksInv
  <2>2. S \subseteq Orders
    BY Placed, ElementOfSeq DEF SInv, StreamsInv
  <2> HIDE DEF S, o
  <2> DEFINE b == books[k]
  <2>3. /\ SoundBook(b, S, o.marketId)
        /\ new = RemoveOrder(b, o.side, o.price, o.orderId)
        /\ out = RemovedOrders(b, o.side, o.price, o.orderId)
    BY <2>1
  <2> HIDE DEF b, new, out
  <2>4. /\ SoundBook(new, S, o.marketId)
        /\ out = {} => new = b
        /\ out # {} => /\ o \in S
                       /\ \E row \in Row(Us, Ids) : out = {row} /\ Fillable(row) > 0
    BY <1>2, <2>2, <2>3, RemovedIs
  <2>5. QED
    BY <2>4 DEF b
<1>4. Current' = Current /\ job = NoJob /\ ~Matched
  BY <1>1 DEF Current, SInv, JobInv, Matched
<1>5. ~Matched'
  BY <1>1, <1>4 DEF Matched, AfterRemoval
<1>6. RInv'
  <2> HIDE DEF Current, Matched
  <2>1. QED
    BY <1>1, <1>4, <1>5 DEF RInv, Fills, Cancellations
<1>7. MatchedBooks = books /\ MatchedBooks' = books'
  <2> HIDE DEF Matched
  <2>1. QED
    BY <1>4, <1>5 DEF MatchedBooks
<1>8. Done = fills /\ Undone = cancels
  BY <1>4, NothingInHand
<1>9. /\ job'.fills = <<>> /\ job'.sent = 0 /\ job'.released = n
  BY <1>1 DEF NoJob
<1>10. Done' = fills
  <2>1. SubSeq(job'.fills, job'.sent + 1, Len(job'.fills)) = <<>>
    BY <1>9, EmptySeq, SubSeqEmpty
  <2>2. fills \o <<>> = fills
    BY ConcatEmptySeq DEF RInv
  <2>3. QED
    BY <1>1, <2>1, <2>2 DEF Done
<1>11. CASE out = {}
  <2>1. books' = books
    BY <1>1, <1>2, <1>3, <1>11 DEF SInv, BooksInv
  <2>2. n = 0
    BY <1>11, SumOfNone
  <2>3. Undone' = cancels
    BY <1>1, <1>9, <2>2 DEF Undone
  <2>4. QED
    BY <1>1, <1>6, <1>7, <1>8, <1>10, <2>1, <2>3 DEF Idle
<1>12. CASE out # {}
  <2>1. PICK row \in Row(Us, Ids) : out = {row} /\ Fillable(row) > 0
    BY <1>3, <1>12
  <2>2. n = Fillable(row)
    <3> HIDE DEF out
    <3>1. QED
      BY <2>1, ReleasedIs
  <2>3. Undone' = Append(cancels, [orderId |-> o.orderId, unfilledQty |-> Fillable(row)])
    <3>1. job'.released > 0 /\ job'.released = Fillable(row)
      BY <1>9, <2>1, <2>2
    <3> HIDE DEF n, out
    <3>2. QED
      BY <1>1, <1>4, <3>1 DEF Undone, Cancelled
  <2>4. MatchedBooks' = [MatchedBooks EXCEPT ![k] = RemoveOrder(@, o.side, o.price, o.orderId)]
    BY <1>1, <1>7
  <2>5. row \in RemovedOrders(MatchedBooks[k], o.side, o.price, o.orderId)
    BY <1>7, <2>1
  <2> HIDE DEF out, new, n
  <2>6. Cancels(o)
    BY <1>1, <1>8, <1>10, <2>3, <2>4, <2>5 DEF Cancels
  <2>7. QED
    BY <1>3, <1>6, <1>12, <2>6
<1>13. QED
  BY <1>11, <1>12

\* An order: matched, and published and rested in one step for Matching.
LEMMA ROrder ==
  ASSUME SInv, SInv', RInv, HandleOrder
  PROVE  /\ RInv' /\ Current.order \in Orders /\ Handles(Current.order)
         /\ intact' => Current.order.orderId \notin PlacedIds
<1> DEFINE o == Current.order
           k == o.marketId
           m == Match(books[k], o)
           n == IF o.orderType = "MARKET" THEN m.remainingQty ELSE 0
<1>1. /\ phase = "handle" /\ Current.type = "order.created" /\ o.orderId \notin processed
      /\ books' = [books EXCEPT ![k] = m.book]
      /\ job' = [fills |-> m.fills, sent |-> 0, remainingQty |-> m.remainingQty, released |-> n]
      /\ phase' = AfterFills(job') /\ placed' = Append(placed, o)
      /\ intact' = (intact /\ ~(o.orderId \in PlacedIds /\ crashes > 0))
      /\ UNCHANGED <<orders, delivered, processed, fills, cancels, crashes>>
  BY DEF HandleOrder, IsDuplicate
<1>2. o \in Orders /\ k \in Markets
  BY <1>1, CurrentIs, OrderIsTaker DEF SInv, StreamsInv
<1>3. Current' = Current /\ job = NoJob /\ ~Matched
  BY <1>1 DEF Current, SInv, JobInv, Matched
<1>4. Matched'
  BY <1>1, <1>3 DEF Matched, AfterFills
<1>5. /\ m.fills \in Seq(Fills) /\ m.remainingQty \in Nat
  <2> HIDE DEF m
  <2>1. job' \in Jobs
    BY DEF SInv, JobInv
  <2>2. QED
    BY <1>1, <2>1 DEF Jobs, Fills
<1> HIDE DEF m
<1>6. placed \in Seq(Orders) /\ ToSet(placed') = ToSet(placed) \cup {o}
  <2>1. placed \in Seq(Orders)
    BY DEF SInv, StreamsInv
  <2> HIDE DEF o
  <2>2. QED
    BY <1>1, <1>2, <2>1, ToSetAppend
<1>7. RInv'
  <2> HIDE DEF Current, Matched
  <2>1. QED
    BY <1>1, <1>3, <1>4, <1>6 DEF RInv, Fills, Cancellations
<1>8. ASSUME intact' PROVE o.orderId \notin PlacedIds
  <2>1. CASE crashes = 0
    <3>1. \A x \in ToSet(placed) : x.orderId \in processed
      BY <1>1, <1>3, <1>8, <2>1 DEF RInv
    <3>2. QED
      BY <1>1, <3>1 DEF PlacedIds
  <2>2. CASE crashes > 0
    BY <1>1, <1>8, <2>2
  <2>3. QED
    BY <2>1, <2>2 DEF RInv
<1>9. Handles(o)
  <2>2. MatchedBooks = books
    BY <1>3 DEF MatchedBooks
  <2>3. MatchedBooks' = [MatchedBooks EXCEPT ![k] =
                           SetLastTrade(RestLeftover(m.book, o, m.remainingQty), m.fills)]
    <3>1. books'[k] = m.book /\ job'.remainingQty = m.remainingQty /\ job'.fills = m.fills
      BY <1>1, <1>2 DEF SInv, BooksInv
    <3>2. MatchedBooks' = [books' EXCEPT ![k] =
                             SetLastTrade(RestLeftover(m.book, o, m.remainingQty), m.fills)]
      <4> HIDE DEF Matched
      <4>1. QED
        BY <1>3, <1>4, <3>1 DEF MatchedBooks
    <3>3. QED
      BY <1>1, <2>2, <3>2 DEF SInv, BooksInv
  <2>4. Done = fills /\ Undone = cancels
    BY <1>3, NothingInHand
  <2>5. Done' = Done \o m.fills
    <3>1. SubSeq(m.fills, 1, Len(m.fills)) = m.fills
      BY <1>5, SubSeqFull
    <3>2. job'.fills = m.fills /\ job'.sent + 1 = 1 /\ fills' = fills
      BY <1>1
    <3>3. Done' = fills' \o SubSeq(job'.fills, job'.sent + 1, Len(job'.fills))
      BY DEF Done
    <3>4. QED
      BY <2>4, <3>1, <3>2, <3>3
  <2>6. Undone' = Undone \o (IF m.remainingQty > 0 /\ o.orderType = "MARKET"
                             THEN <<[orderId |-> o.orderId, unfilledQty |-> m.remainingQty]>>
                             ELSE <<>>)
    <3>1. CASE m.remainingQty > 0 /\ o.orderType = "MARKET"
      <4> DEFINE c == [orderId |-> o.orderId, unfilledQty |-> m.remainingQty]
      <4>1. job'.released = m.remainingQty
        BY <1>1, <3>1
      <4>2. Undone' = Append(cancels, c)
        BY <1>1, <1>3, <3>1, <4>1 DEF Undone, Cancelled
      <4>3. c \in Cancellations /\ cancels \in Seq(Cancellations)
        BY <1>2, <1>5 DEF Cancellations, Ids, RInv
      <4> HIDE DEF c
      <4>4. Append(cancels, c) = cancels \o <<c>>
        BY <4>3, AppendIsConcat
      <4>5. QED
        BY <2>4, <3>1, <4>2, <4>4 DEF c
    <3>2. CASE ~(m.remainingQty > 0 /\ o.orderType = "MARKET")
      <4>1. ~(job'.released > 0)
        BY <1>1, <1>5, <3>2
      <4>2. Undone' = cancels
        BY <1>1, <4>1 DEF Undone
      <4>3. cancels \o <<>> = cancels
        BY ConcatEmptySeq DEF RInv
      <4>4. QED
        BY <2>4, <3>2, <4>2, <4>3
    <3>3. QED
      BY <3>1, <3>2
  <2>7. m = Match(MatchedBooks[k], o)
    BY <2>2 DEF m
  <2>8. QED
    BY <1>1, <2>3, <2>5, <2>6, <2>7 DEF Handles
<1>10. QED
  BY <1>2, <1>7, <1>8, <1>9

\* The fills still to be sent, one more of them sent.
LEMMA SendOne ==
  ASSUME NEW X, NEW s \in Seq(X), NEW fs \in Seq(X), NEW i \in Nat, i < Len(fs)
  PROVE  Append(s, fs[i + 1]) \o SubSeq(fs, (i + 1) + 1, Len(fs)) = s \o SubSeq(fs, i + 1, Len(fs))
<1> DEFINE n == Len(fs)
           k == i + 1
           x == fs[k]
           r == SubSeq(fs, k + 1, n)
<1>1. n \in Nat /\ k \in 1..n /\ n \in k..n /\ x \in X
  BY LenProperties, ElementOfSeq
<1>2. SubSeq(fs, k, n) = <<x>> \o r
  <2> HIDE DEF k, n
  <2>1. QED
    BY <1>1, SubSeqRecursiveFirst DEF n
<1>3. r \in Seq(X)
  <2>1. \A j \in (k + 1)..n : fs[j] \in X
    BY <1>1, ElementOfSeq
  <2>2. k + 1 \in Int /\ n \in Int
    BY <1>1
  <2> HIDE DEF k, n
  <2>3. QED
    BY <2>1, <2>2, SubSeqProperties
<1> HIDE DEF r, x
<1>4. Append(s, x) = s \o <<x>> /\ <<x>> \in Seq(X)
  BY <1>1, AppendIsConcat
<1>5. (s \o <<x>>) \o r = s \o (<<x>> \o r)
  BY <1>3, <1>4, ConcatAssociative
<1>6. QED
  BY <1>2, <1>4, <1>5 DEF r, x

\* A fill is published: it was done already.
LEMMA RFill ==
  ASSUME SInv, RInv, NEW outcome \in Outcomes, PublishFill(outcome)
  PROVE  RInv' /\ (outcome = "ok" => Idle) /\ (intact' => outcome = "ok")
<1> DEFINE fill == job.fills[job.sent + 1]
<1>1. /\ phase = "fills" /\ fills' = XAdd(fills, fill, outcome)
      /\ job' = IF outcome = "ok" THEN [job EXCEPT !.sent = @ + 1] ELSE NoJob
      /\ phase' = IF outcome = "ok" THEN AfterFills(job') ELSE "read"
      /\ intact' = (intact /\ outcome = "ok")
      /\ UNCHANGED <<orders, delivered, books, processed, cancels, crashes, placed>>
  BY DEF PublishFill, Proceed
<1>2. /\ job \in Jobs /\ job.sent < Len(job.fills) /\ Len(job.fills) \in Nat
      /\ Current.type = "order.created" /\ Matched
  BY <1>1, LenProperties DEF SInv, JobInv, Jobs, Matched
<1>3. fill \in Fills
  BY <1>2, ElementOfSeq DEF Jobs
<1>4. Current' = Current
  BY <1>1 DEF Current
<1>5. fills' \in Seq(Fills)
  BY <1>1, <1>3, AppendProperties DEF RInv, XAdd
<1>6. CASE outcome = "ok"
  <2>1. /\ job'.sent = job.sent + 1 /\ job'.fills = job.fills
        /\ job'.remainingQty = job.remainingQty /\ job'.released = job.released
        /\ fills' = Append(fills, fill)
    BY <1>1, <1>2, <1>6 DEF Jobs, XAdd
  <2>2. Matched'
    BY <1>1, <1>2, <1>4, <1>6 DEF Matched, AfterFills
  <2> HIDE DEF Current, Matched
  <2>3. RInv'
    BY <1>1, <1>2, <1>4, <1>5, <1>6, <2>2 DEF RInv, Fills, Cancellations
  <2>4. Done' = Done
    <3> DEFINE i  == job.sent
               fs == job.fills
    <3>1. i \in Nat /\ i < Len(fs) /\ fs \in Seq(Fills) /\ fills \in Seq(Fills)
      BY <1>2 DEF Jobs, RInv
    <3>2. /\ Done = fills \o SubSeq(fs, i + 1, Len(fs))
          /\ Done' = Append(fills, fs[i + 1]) \o SubSeq(fs, (i + 1) + 1, Len(fs))
      BY <2>1 DEF Done
    <3> HIDE DEF i, fs
    <3>3. QED
      BY <3>1, <3>2, SendOne
  <2>5. Undone' = Undone
    BY <1>1, <1>4, <2>1 DEF Undone, Cancelled
  <2>6. MatchedBooks' = MatchedBooks
    <3> DEFINE k == Current.order.marketId
               o == Current.order
    <3>1. MatchedBooks = [books EXCEPT ![k] =
                            SetLastTrade(RestLeftover(books[k], o, job.remainingQty), job.fills)]
      BY <1>2 DEF MatchedBooks
    <3>2. MatchedBooks' = [books' EXCEPT ![k'] =
                             SetLastTrade(RestLeftover(books'[k'], o', job'.remainingQty), job'.fills)]
      BY <2>2 DEF MatchedBooks
    <3>3. k' = k /\ o' = o /\ books' = books
      BY <1>1, <1>4
    <3>4. QED
      BY <2>1, <3>1, <3>2, <3>3
  <2>7. QED
    BY <1>1, <1>6, <2>3, <2>4, <2>5, <2>6 DEF Idle
<1>7. CASE outcome # "ok"
  <2>1. ~intact'
    BY <1>1, <1>7
  <2>2. RInv'
    BY <1>1, <1>5, <2>1 DEF RInv, Fills, Cancellations
  <2>3. QED
    BY <1>7, <2>1, <2>2
<1>8. QED
  BY <1>6, <1>7

\* A cancel is published: it was done already.
LEMMA RCancelled ==
  ASSUME SInv, RInv, NEW outcome \in Outcomes, PublishCancelled(outcome)
  PROVE  RInv' /\ (outcome = "ok" => Idle) /\ (intact' => outcome = "ok")
<1> DEFINE c == [orderId |-> Current.order.orderId, unfilledQty |-> job.released]
<1>1. /\ phase = "cancel" /\ cancels' = XAdd(cancels, c, outcome)
      /\ job' = IF outcome = "ok" THEN [job EXCEPT !.released = 0] ELSE NoJob
      /\ phase' = IF outcome = "ok" THEN AfterCancelled(Current.type) ELSE "read"
      /\ intact' = (intact /\ outcome = "ok")
      /\ UNCHANGED <<orders, delivered, books, processed, fills, crashes, placed>>
  BY DEF PublishCancelled, Proceed
<1>2. job \in Jobs /\ job.released > 0
  BY <1>1 DEF SInv, JobInv
<1>3. /\ Current.order \in Orders /\ Current.type \in {"order.created", "order.cancel"}
  BY <1>1, CurrentIs DEF SInv, StreamsInv, Msgs
<1>4. c \in Cancellations
  BY <1>2, <1>3 DEF Cancellations, Ids, Jobs
<1>5. Current' = Current
  BY <1>1 DEF Current
<1>6. cancels' \in Seq(Cancellations)
  <2> HIDE DEF c
  <2>1. QED
    BY <1>1, <1>4, AppendProperties DEF RInv, XAdd
<1>7. CASE outcome = "ok"
  <2>1. /\ job'.sent = job.sent /\ job'.fills = job.fills
        /\ job'.remainingQty = job.remainingQty /\ job'.released = 0
        /\ cancels' = Append(cancels, c)
    BY <1>1, <1>2, <1>7 DEF Jobs, XAdd
  <2>2. Matched' <=> Matched
    BY <1>1, <1>3, <1>5, <1>7 DEF Matched, AfterCancelled
  <2> HIDE DEF Current, Matched
  <2>3. RInv'
    BY <1>1, <1>5, <1>6, <1>7, <2>2 DEF RInv, Fills, Cancellations
  <2>4. Done' = Done
    BY <1>1, <2>1 DEF Done
  <2>5. MatchedBooks' = MatchedBooks
    <3>1. CASE ~Matched
      BY <1>1, <2>2, <3>1 DEF MatchedBooks
    <3>2. CASE Matched
      <4> DEFINE k == Current.order.marketId
                 o == Current.order
      <4>1. MatchedBooks = [books EXCEPT ![k] =
                              SetLastTrade(RestLeftover(books[k], o, job.remainingQty), job.fills)]
        BY <3>2 DEF MatchedBooks
      <4>2. MatchedBooks' = [books' EXCEPT ![k'] =
                               SetLastTrade(RestLeftover(books'[k'], o', job'.remainingQty), job'.fills)]
        BY <2>2, <3>2 DEF MatchedBooks
      <4>3. k' = k /\ o' = o /\ books' = books
        BY <1>1, <1>5
      <4>4. QED
        BY <2>1, <4>1, <4>2, <4>3
    <3>3. QED
      BY <3>1, <3>2
  <2>6. Undone' = Undone
    BY <1>2, <1>5, <2>1 DEF Undone, Cancelled
  <2>7. QED
    BY <1>1, <1>7, <2>3, <2>4, <2>5, <2>6 DEF Idle
<1>8. CASE outcome # "ok"
  <2>1. ~intact'
    BY <1>1, <1>8
  <2>2. RInv'
    BY <1>1, <1>6, <2>1 DEF RInv, Fills, Cancellations
  <2>3. QED
    BY <1>8, <2>1, <2>2
<1>9. QED
  BY <1>7, <1>8

\* The leftover rests: it did already.
LEMMA RRest ==
  ASSUME SInv, RInv, Rest
  PROVE  RInv' /\ Idle
<1> DEFINE o == Current.order
<1>1. /\ phase = "rest" /\ phase' = "update" /\ job' = NoJob
      /\ books' = [books EXCEPT ![o.marketId] =
                     SetLastTrade(RestLeftover(@, o, job.remainingQty), job.fills)]
      /\ processed' = processed \cup {o.orderId}
      /\ UNCHANGED <<orders, delivered, fills, cancels, crashes, placed, intact>>
  BY DEF Rest
<1>2. /\ job \in Jobs /\ job.sent = Len(job.fills) /\ Len(job.fills) \in Nat
      /\ job.released = 0
  BY <1>1, LenProperties DEF SInv, JobInv, Jobs
<1>3. Matched /\ ~Matched'
  BY <1>1 DEF Matched
<1>4. Current' = Current
  BY <1>1 DEF Current
<1> HIDE DEF Current, Matched
<1>5. RInv'
  BY <1>1, <1>3, <1>4 DEF RInv, Fills, Cancellations
<1>6. MatchedBooks' = MatchedBooks
  BY <1>1, <1>3 DEF MatchedBooks
<1>7. Done = fills
  <2>1. SubSeq(job.fills, job.sent + 1, Len(job.fills)) = <<>>
    <3>1. job.sent + 1 \in Int /\ Len(job.fills) \in Int /\ Len(job.fills) < job.sent + 1
      BY <1>2
    <3>2. QED
      BY <3>1, SubSeqEmpty
  <2>2. fills \o <<>> = fills
    BY ConcatEmptySeq DEF RInv
  <2>3. QED
    BY <2>1, <2>2 DEF Done
<1>8. Undone = cancels
  BY <1>2 DEF Undone
<1>9. Done' = fills /\ Undone' = cancels
  <2>1. job'.fills = <<>> /\ job'.sent = 0 /\ ~(job'.released > 0) /\ Len(job'.fills) = 0
    BY <1>1, EmptySeq DEF NoJob
  <2>2. SubSeq(job'.fills, job'.sent + 1, Len(job'.fills)) = <<>>
    BY <2>1, SubSeqEmpty
  <2>3. fills \o <<>> = fills
    BY ConcatEmptySeq DEF RInv
  <2>4. QED
    BY <1>1, <2>1, <2>2, <2>3 DEF Done, Undone
<1>10. QED
  BY <1>1, <1>5, <1>6, <1>7, <1>8, <1>9 DEF Idle

\* Nothing has happened yet, in the loop or in Matching.
LEMMA RStart == Init => RInv /\ Abstract!Init
<1> SUFFICES ASSUME Init PROVE RInv /\ Abstract!Init
  OBVIOUS
<1>1. /\ fills = <<>> /\ cancels = <<>> /\ crashes = 0 /\ placed = <<>> /\ job = NoJob
      /\ phase = "read" /\ books = [m \in Markets |-> EmptyBook]
  BY DEF Init
<1>2. RInv
  <2>1. ToSet(placed) = {}
    BY <1>1 DEF ToSet
  <2>2. fills \in Seq(Fills) /\ cancels \in Seq(Cancellations)
    BY <1>1, EmptySeq
  <2>3. QED
    BY <1>1, <2>1, <2>2 DEF RInv
<1>3. Done = <<>> /\ Undone = <<>>
  BY <1>1, <1>2, NothingInHand
<1>4. MatchedBooks = [m \in Markets |-> Abstract!EmptyBook]
  BY <1>1 DEF MatchedBooks, Matched, EmptyBook, Abstract!EmptyBook, EmptyLadder,
     Abstract!EmptyLadder
<1>5. Abstract!Init
  BY <1>1, <1>3, <1>4 DEF Abstract!Init, Done, Undone, Cancelled
<1>6. QED
  BY <1>2, <1>5

\* Every step keeps RInv and is, while intact, a step of Matching or of nothing.
LEMMA RNext == SInv /\ SInv' /\ RInv /\ [Next]_vars => Implements
<1> SUFFICES ASSUME SInv, SInv', RInv, [Next]_vars PROVE Implements
  OBVIOUS
<1>1. CASE Awaits
  <2>1. CASE HandleCancel
    BY <2>1, RCancel, CancelsIsStep, IdleIsStep DEF Implements
  <2>2. CASE Rest
    BY <2>2, RRest, IdleIsStep DEF Implements
  <2>3. CASE \E outcome \in Outcomes : PublishFill(outcome) \/ PublishCancelled(outcome)
    BY <2>3, RFill, RCancelled, IdleIsStep DEF Implements
  <2>4. CASE \/ SkipDuplicate
             \/ \E outcome \in Outcomes : Read(outcome) \/ PublishBook(outcome) \/ Ack(outcome)
    BY <2>4, RQuiet, IdleIsStep DEF Implements
  <2>5. QED
    BY <1>1, <2>1, <2>2, <2>3, <2>4 DEF Awaits
<1>2. CASE Backend \/ Snapshot \/ SnapshotFail \/ RestartSnapshot \/ UNCHANGED vars
  BY <1>2, RQuiet, IdleIsStep DEF Implements
<1>3. CASE HandleOrder
  BY <1>3, ROrder, HandlesIsStep DEF Implements
<1>4. CASE RestartEngine
  BY <1>4, RRestart
<1>5. QED
  BY <1>1, <1>2, <1>3, <1>4 DEF Next

\* RInv holds in every reachable state.
LEMMA RAlways == Spec => []RInv
<1>1. Implements => RInv'
  BY DEF Implements
<1>2. QED
  BY <1>1, RNext, RStart, SAlways, PTL DEF Spec

\* With all its awaits, duplicates, harmless faults and restarts, the loop is
\* Matching: every order matched once, in one step, in the order of the stream,
\* up to the first fault that hits between match() and the last publication, a
\* restart from stored books that are behind, or an order matched again after
\* one (index.ts, the handler of one message from handle to ack).
THEOREM LoopImplementsMatching == Spec => AtomicWhileIntact
<1>1. Implements => (intact' => [Abstract!Next]_(Abstract!vars))
  BY DEF Implements
<1>2. Spec => [][intact' => [Abstract!Next]_(Abstract!vars)]_vars
  BY <1>1, RNext, RAlways, SAlways, PTL DEF Spec
<1>3. QED
  BY <1>2, RStart, PTL DEF AtomicWhileIntact, Spec
-----------------------------------------------------------------------------
(* Failing awaits only lose fills and cancels.                             *)

\* No order was published twice.
Once ==
  \A o \in Orders : \A i, j \in 1..Len(orders) :
    orders[i] = Message("order.created", o) /\ orders[j] = Message("order.created", o) => i = j

\* What an order has traded, had cancelled and has resting, when what is in hand
\* counts as done; and what it may have: its quantity, from its match on.
Share(o) == TradedQty(Done, o.orderId) + CancelledQty(Undone, o.orderId)
            + RestingQty(MatchedBooks[o.marketId], o.orderId)
Due(o)   == IF o \in ToSet(placed) THEN o.qty ELSE 0

WithinDue == \A o \in Orders : Share(o) <= Due(o)

\* A matched order was read from the stream, before the message in hand unless
\* it is that message.
WasRead ==
  \A o \in ToSet(placed) : \E i \in 1..delivered :
    orders[i] = Message("order.created", o) /\ (phase = "handle" => i # delivered)

OInv == WasRead /\ (crashes = 0 /\ Once => WithinDue)

\* What counts as done has its types, and a leftover in hand only adds to what rests.
DoneTypes ==
  /\ Done \in Seq(Fills) /\ Undone \in Seq(Cancellations)
  /\ MatchedBooks \in [Markets -> Books]
  /\ \A k \in Markets : \A id : RestingQty(books[k], id) <= RestingQty(MatchedBooks[k], id)

\* The fills still to be published are fills.
LEMMA UnsentTypes ==
  ASSUME NEW X, NEW fs \in Seq(X), NEW i \in Nat
  PROVE  SubSeq(fs, i + 1, Len(fs)) \in Seq(X)
<1> DEFINE n == Len(fs)
           k == i + 1
<1>1. n \in Int /\ k \in Int /\ \A j \in k..n : j \in 1..n
  BY LenProperties
<1>2. \A j \in k..n : fs[j] \in X
  BY <1>1, ElementOfSeq
<1> HIDE DEF k, n
<1>3. SubSeq(fs, k, n) \in Seq(X)
  BY <1>1, <1>2, SubSeqProperties
<1>4. QED
  BY <1>3 DEF k, n

\* The leftover rested and the last price set, in a book.
LEMMA LeftoverRests ==
  ASSUME NEW b \in Books, NEW o \in Orders, NEW n \in Nat, NEW fs \in Seq(Fills)
  PROVE  LET new == SetLastTrade(RestLeftover(b, o, n), fs)
         IN  new \in Books /\ \A id : RestingQty(b, id) <= RestingQty(new, id)
<1> DEFINE rested == RestLeftover(b, o, n)
           new == SetLastTrade(rested, fs)
<1>1. Taker(o, Us, Ids, Ps)
  BY OrderIsTaker
<1>2. rested \in Book(Us, Ids, Ps)
  BY <1>1, PricesAreNat, RestSound DEF Books, RestDone
<1>3. ASSUME NEW id
      PROVE  /\ RestingQty(b, id) \in Nat
             /\ RestingQty(rested, id) = RestingQty(b, id)
                  + (IF o.orderType = "LIMIT" THEN Asked(o, n, id) ELSE 0)
  BY <1>1, RestHolds, RestingNat DEF Books
<1> HIDE DEF rested
<1>4. new \in Books /\ new.bids = rested.bids /\ new.asks = rested.asks
  BY <1>2, LastTradeSet DEF Books, Fills
<1> HIDE DEF new
<1>5. ASSUME NEW id PROVE RestingQty(b, id) <= RestingQty(new, id)
  <2>1. RestingQty(new, id) = RestingQty(rested, id)
    BY <1>4 DEF RestingQty
  <2> DEFINE A == IF o.orderType = "LIMIT" THEN Asked(o, n, id) ELSE 0
  <2>2. A \in Nat
    BY DEF Asked
  <2> HIDE DEF A
  <2>3. QED
    BY <1>3, <2>1, <2>2 DEF A
<1>6. QED
  BY <1>4, <1>5 DEF new, rested

\* Those types hold, and resting takes nothing from anybody.
LEMMA DoneIs == SInv /\ RInv => DoneTypes
<1> SUFFICES ASSUME SInv, RInv PROVE DoneTypes
  OBVIOUS
<1>1. job.fills \in Seq(Fills) /\ job.sent \in Nat /\ job.released \in Nat /\ job.remainingQty \in Nat
  BY DEF SInv, JobInv, Jobs
<1>2. Done \in Seq(Fills)
  <2> DEFINE rest == SubSeq(job.fills, job.sent + 1, Len(job.fills))
  <2>1. rest \in Seq(Fills)
    BY <1>1, UnsentTypes
  <2> HIDE DEF rest
  <2>2. fills \o rest \in Seq(Fills)
    BY <2>1, ConcatProperties DEF RInv
  <2>3. QED
    BY <2>2 DEF Done, rest
<1>3. Undone \in Seq(Cancellations)
  <2>1. CASE ~(job.released > 0)
    BY <2>1 DEF Undone, RInv
  <2>2. CASE job.released > 0
    <3>1. delivered > 0
      <4>1. job # NoJob
        BY <2>2 DEF NoJob
      <4>2. QED
        BY <4>1 DEF SInv, JobInv, StreamsInv
    <3>2. Current.order \in Orders
      BY <3>1, CurrentIs DEF SInv
    <3> DEFINE c == Cancelled(Current.order.orderId)
    <3>3. c \in Cancellations
      BY <1>1, <3>2 DEF Cancelled, Cancellations, Ids
    <3> HIDE DEF c
    <3>4. QED
      BY <2>2, <3>3, AppendProperties DEF Undone, RInv, c
  <2>3. QED
    BY <2>1, <2>2
<1>4. books \in [Markets -> Books]
  BY DEF SInv, BooksInv
<1>5. CASE ~Matched
  <2>1. MatchedBooks = books
    BY <1>5 DEF MatchedBooks
  <2>2. \A k \in Markets : \A id : RestingQty(books[k], id) \in Nat
    BY <1>4, RestingNat DEF Books
  <2>3. QED
    BY <1>2, <1>3, <1>4, <2>1, <2>2 DEF DoneTypes
<1>6. CASE Matched
  <2> DEFINE o == Current.order
             b == books[o.marketId]
             n == job.remainingQty
             fs == job.fills
             new == SetLastTrade(RestLeftover(b, o, n), fs)
  <2>1. o \in Orders /\ o.marketId \in Markets
    <3>1. delivered > 0
      BY <1>6 DEF Matched, SInv, StreamsInv
    <3>2. QED
      BY <3>1, CurrentIs, OrderIsTaker DEF SInv
  <2>2. MatchedBooks = [books EXCEPT ![o.marketId] = new]
    BY <1>6 DEF MatchedBooks
  <2>3. b \in Books /\ n \in Nat /\ fs \in Seq(Fills)
    BY <1>1, <1>4, <2>1
  <2>4. new \in Books /\ \A id : RestingQty(b, id) <= RestingQty(new, id)
    <3> HIDE DEF o, b, n, fs
    <3>1. QED
      BY <2>1, <2>3, LeftoverRests
  <2> HIDE DEF new
  <2>5. MatchedBooks \in [Markets -> Books]
    BY <1>4, <2>1, <2>2, <2>4
  <2>6. ASSUME NEW k \in Markets, NEW id
        PROVE  RestingQty(books[k], id) <= RestingQty(MatchedBooks[k], id)
    <3>1. CASE k = o.marketId
      <4>1. MatchedBooks[k] = new /\ books[k] = b
        BY <1>4, <2>2, <3>1
      <4>2. QED
        BY <2>4, <4>1
    <3>2. CASE k # o.marketId
      <4>1. MatchedBooks[k] = books[k]
        BY <1>4, <2>2, <3>2
      <4>2. RestingQty(books[k], id) \in Nat
        <5> DEFINE bk == books[k]
        <5>1. bk \in Book(Us, Ids, Ps)
          BY <1>4 DEF Books
        <5> HIDE DEF bk
        <5>2. RestingQty(bk, id) \in Nat
          BY <5>1, RestingNat
        <5>3. QED
          BY <5>2 DEF bk
      <4>3. QED
        BY <4>1, <4>2
    <3>3. QED
      BY <3>1, <3>2
  <2>7. QED
    BY <1>2, <1>3, <2>5, <2>6 DEF DoneTypes
<1>7. QED
  BY <1>5, <1>6

\* When no message is in hand, what is done is what is published.
LEMMA NothingLeft ==
  ASSUME NEW X, NEW fs \in Seq(X)
  PROVE  /\ fs \o SubSeq(NoJob.fills, NoJob.sent + 1, Len(NoJob.fills)) = fs
         /\ ~(NoJob.released > 0)
<1>1. NoJob.fills = <<>> /\ NoJob.sent = 0 /\ ~(NoJob.released > 0) /\ Len(NoJob.fills) = 0
  BY EmptySeq DEF NoJob
<1>2. SubSeq(NoJob.fills, NoJob.sent + 1, Len(NoJob.fills)) = <<>>
  BY <1>1, SubSeqEmpty
<1>3. QED
  BY <1>1, <1>2, ConcatEmptySeq

\* An order's share is a sum of natural numbers.
LEMMA ShareIs ==
  ASSUME DoneTypes, NEW o \in Orders
  PROVE  /\ TradedQty(Done, o.orderId) \in Nat /\ CancelledQty(Undone, o.orderId) \in Nat
         /\ RestingQty(MatchedBooks[o.marketId], o.orderId) \in Nat
<1> DEFINE b == MatchedBooks[o.marketId]
           id == o.orderId
<1>1. Done \in Seq(Fill(Ids, Ps)) /\ Undone \in Seq(CancelMsgs(Ids))
  BY DEF DoneTypes, Fills, Cancellations, CancelMsgs
<1>2. b \in Book(Us, Ids, Ps)
  BY OrderIsTaker DEF DoneTypes, Books
<1> HIDE DEF b, id
<1>3. TradedQty(Done, id) \in Nat /\ CancelledQty(Undone, id) \in Nat /\ RestingQty(b, id) \in Nat
  BY <1>1, <1>2, TradedNat, CancelledValues, RestingNat
<1>4. QED
  BY <1>3 DEF b, id

\* A message dropped at a fill or a cancel that was not sent, or whose answer was
\* lost, takes from every order's share or leaves it.
LEMMA DroppedShare ==
  ASSUME SInv, RInv, RInv', DoneTypes, NEW outcome \in Outcomes, outcome # "ok",
         PublishFill(outcome) \/ PublishCancelled(outcome), NEW o \in Orders
  PROVE  Share(o)' \in Nat /\ Share(o)' <= Share(o) /\ Due(o)' = Due(o)
<1> DEFINE id == o.orderId
           k == o.marketId
<1>1. /\ job' = NoJob /\ phase' = "read" /\ UNCHANGED <<books, placed>>
      /\ \/ /\ phase = "fills" /\ fills' = XAdd(fills, job.fills[job.sent + 1], outcome)
            /\ cancels' = cancels
         \/ /\ phase = "cancel" /\ fills' = fills
            /\ cancels' = XAdd(cancels, [orderId |-> Current.order.orderId,
                                         unfilledQty |-> job.released], outcome)
  BY DEF PublishFill, PublishCancelled, Proceed
<1>2. Done' = fills' /\ Undone' = cancels'
  <2> DEFINE fs == fills'
  <2>1. fs \in Seq(Fills)
    BY DEF RInv, Fills
  <2> HIDE DEF fs
  <2>2. /\ fs \o SubSeq(NoJob.fills, NoJob.sent + 1, Len(NoJob.fills)) = fs
        /\ ~(NoJob.released > 0)
    BY <2>1, NothingLeft
  <2>3. QED
    BY <1>1, <2>2 DEF Done, Undone, fs
<1>3. MatchedBooks' = books
  BY <1>1 DEF MatchedBooks, Matched
<1>4. /\ job \in Jobs /\ job.fills \in Seq(Fills) /\ job.sent \in Nat /\ job.released \in Nat
      /\ phase = "fills" => job.sent < Len(job.fills)
      /\ fills \in Seq(Fills) /\ cancels \in Seq(Cancellations)
  BY DEF SInv, JobInv, Jobs, RInv
<1> DEFINE rest == SubSeq(job.fills, job.sent + 1, Len(job.fills))
<1>5. rest \in Seq(Fills)
  BY <1>4, UnsentTypes
<1>6. TradedQty(Done', id) <= TradedQty(Done, id)
  <2>1. Done' = fills \/ (phase = "fills" /\ Done' = Append(fills, job.fills[job.sent + 1]))
    BY <1>1, <1>2 DEF XAdd
  <2>2. CASE Done' = fills
    <3>1. Done = fills \o rest
      BY DEF Done
    <3> HIDE DEF rest, id
    <3>2. TradedQty(Done, id) = TradedQty(fills, id) + TradedQty(rest, id)
      BY <1>4, <1>5, <3>1, TradedConcat DEF Fills
    <3>3. TradedQty(fills, id) \in Nat /\ TradedQty(rest, id) \in Nat
      BY <1>4, <1>5, TradedNat DEF Fills
    <3>4. QED
      BY <2>2, <3>2, <3>3
  <2>3. CASE phase = "fills" /\ Done' = Append(fills, job.fills[job.sent + 1])
    <3> DEFINE fs == job.fills
               i == job.sent
               s == Append(fills, fs[i + 1])
               r == SubSeq(fs, (i + 1) + 1, Len(fs))
    <3>1. fs \in Seq(Fills) /\ i \in Nat /\ i < Len(fs) /\ i + 1 \in Nat
      BY <1>4, <2>3
    <3>2. Done' = s /\ Done = fills \o SubSeq(fs, i + 1, Len(fs))
      BY <2>3 DEF Done
    <3> HIDE DEF fs, i
    <3>3. Done = s \o r
      BY <1>4, <3>1, <3>2, SendOne
    <3>4. r \in Seq(Fills)
      BY <3>1, UnsentTypes
    <3>5. s \in Seq(Fills)
      <4>1. i + 1 \in 1..Len(fs)
        BY <3>1, LenProperties
      <4>2. fs[i + 1] \in Fills
        BY <3>1, <4>1, ElementOfSeq
      <4>3. QED
        BY <1>4, <4>2, AppendProperties
    <3> HIDE DEF s, r, id
    <3>6. TradedQty(Done, id) = TradedQty(s, id) + TradedQty(r, id)
      BY <3>3, <3>4, <3>5, TradedConcat DEF Fills
    <3>7. TradedQty(s, id) \in Nat /\ TradedQty(r, id) \in Nat
      BY <3>4, <3>5, TradedNat DEF Fills
    <3>8. QED
      BY <3>2, <3>6, <3>7
  <2>4. QED
    BY <2>1, <2>2, <2>3
<1>7. CancelledQty(Undone', id) <= CancelledQty(Undone, id)
  <2> DEFINE c == Cancelled(Current.order.orderId)
  <2>1. Undone' = cancels \/ (phase = "cancel" /\ Undone' = Append(cancels, c))
    BY <1>1, <1>2 DEF XAdd, Cancelled
  <2>2. phase = "cancel" => job.released > 0
    BY DEF SInv, JobInv
  <2>3. Current.order \in Orders
    <3>1. delivered > 0
      BY <1>1 DEF SInv, StreamsInv
    <3>2. QED
      BY <3>1, CurrentIs DEF SInv
  <2>4. c \in CancelMsgs(Ids)
    BY <1>4, <2>3 DEF Cancelled, CancelMsgs, Ids
  <2>5. Undone = cancels \/ Undone = Append(cancels, c)
    BY DEF Undone
  <2>6. phase = "cancel" => Undone = Append(cancels, c)
    BY <2>2 DEF Undone
  <2>7. cancels \in Seq(CancelMsgs(Ids))
    BY <1>4 DEF Cancellations, CancelMsgs
  <2> DEFINE n == CancelledQty(cancels, id)
             n1 == CancelledQty(Append(cancels, c), id)
  <2> HIDE DEF c
  <2>8. InCancel(c, id) \in Nat
    BY <2>4 DEF InCancel, CancelMsgs
  <2>9. n1 = n + InCancel(c, id) /\ n \in Nat
    BY <2>4, <2>7, CancelledValues, CancelledAppend
  <2>10. n <= n1 /\ n1 <= n1 /\ n <= n
    <3> HIDE DEF n, n1
    <3>1. QED
      BY <2>8, <2>9
  <2>11. QED
    BY <2>1, <2>5, <2>6, <2>10
<1>8. RestingQty(MatchedBooks'[k], id) <= RestingQty(MatchedBooks[k], id)
  BY <1>3, OrderIsTaker DEF DoneTypes
<1>9. Share(o)' \in Nat /\ Share(o)' <= Share(o)
  <2> DEFINE T == TradedQty(Done, id)
             T1 == TradedQty(Done', id)
             C == CancelledQty(Undone, id)
             C1 == CancelledQty(Undone', id)
             R == RestingQty(MatchedBooks[k], id)
             R1 == RestingQty(MatchedBooks'[k], id)
  <2>1. T \in Nat /\ C \in Nat /\ R \in Nat
    BY ShareIs
  <2>2. T1 \in Nat /\ C1 \in Nat /\ R1 \in Nat
    <3>1. Done' \in Seq(Fill(Ids, Ps)) /\ Undone' \in Seq(CancelMsgs(Ids))
      BY <1>2 DEF RInv, Fills, Cancellations, CancelMsgs
    <3> DEFINE b == MatchedBooks'[k]
    <3>2. b \in Book(Us, Ids, Ps)
      BY <1>3, OrderIsTaker DEF SInv, BooksInv, Books
    <3> HIDE DEF b, id
    <3>3. RestingQty(b, id) \in Nat
      BY <3>2, RestingNat
    <3>4. QED
      BY <3>1, <3>3, TradedNat, CancelledValues DEF b
  <2>3. Share(o) = (T + C) + R /\ Share(o)' = (T1 + C1) + R1
    BY DEF Share
  <2>4. T1 <= T /\ C1 <= C /\ R1 <= R
    BY <1>6, <1>7, <1>8
  <2> HIDE DEF T, T1, C, C1, R, R1
  <2>5. (T1 + C1) + R1 \in Nat /\ (T1 + C1) + R1 <= (T + C) + R
    BY <2>1, <2>2, <2>4
  <2>6. QED
    BY <2>3, <2>5
<1>10. Due(o)' = Due(o)
  BY <1>1 DEF Due
<1>11. QED
  BY <1>9, <1>10

\* What a matched order gets, others give: every share grows by what it is due.
LEMMA HandledShare ==
  ASSUME SInv, DoneTypes, NEW o \in Orders, ~Matched, Handles(o), o \notin ToSet(placed),
         NEW x \in Orders
  PROVE  Share(x)' = Share(x) + Asked(o, o.qty, x.orderId) /\ Due(x)' = Due(x) + Asked(o, o.qty, x.orderId)
<1> DEFINE id == x.orderId
           S == ToSet(placed)
           k == o.marketId
           h == x.marketId
           book == books[k]
           m == Match(book, o)
           new == SetLastTrade(RestLeftover(m.book, o, m.remainingQty), m.fills)
           c == IF o.orderType = "MARKET" THEN Asked(o, m.remainingQty, id) ELSE 0
           A == Asked(o, o.qty, id)
<1>1. /\ Taker(o, Us, Ids, Ps) /\ o.orderType \in {"LIMIT", "MARKET"} /\ k \in Markets
      /\ Ps \in SUBSET Nat /\ h \in Markets /\ o.qty \in Nat /\ x.qty \in Nat
  BY OrderIsTaker, PricesAreNat
<1>2. MatchedBooks = books /\ books \in [Markets -> Books]
  BY DEF MatchedBooks, SInv, BooksInv
<1>3. /\ placed' = Append(placed, o)
      /\ MatchedBooks' = [MatchedBooks EXCEPT ![k] = new]
      /\ Done' = Done \o m.fills
      /\ Undone' = Undone \o (IF m.remainingQty > 0 /\ o.orderType = "MARKET"
                              THEN <<[orderId |-> o.orderId, unfilledQty |-> m.remainingQty]>>
                              ELSE <<>>)
  BY <1>2 DEF Handles
<1>4. placed \in Seq(Orders) /\ S \subseteq Orders /\ ToSet(placed') = S \cup {o}
  <2>1. placed \in Seq(Orders)
    BY DEF SInv, StreamsInv
  <2>2. QED
    BY <1>3, <2>1, ToSetAppend, Placed, ElementOfSeq
<1>5. \A y \in Orders : y.orderId = id <=> y = x
  BY OrdersAssumption
<1>6. \A l \in Markets : Stems(books[l], S, l)
  BY DEF SInv, BooksInv, SoundBook
<1>7. Absent(book, o.orderId)
  <2>1. \A y \in S : y.orderId # o.orderId
    BY <1>4, OrdersAssumption
  <2>2. Stems(book, S, k)
    BY <1>1, <1>6
  <2> HIDE DEF book, S
  <2>3. QED
    BY <2>1, <2>2, NotThere
<1> DEFINE T == TradedQty(m.fills, id)
           R0 == RestingQty(book, id)
           R1 == RestingQty(new, id)
<1>8. /\ m.fills \in Seq(Fill(Ids, Ps)) /\ m.remainingQty \in Nat
      /\ T \in Nat /\ R0 \in Nat /\ R1 \in Nat /\ T + R1 + c = R0 + A
  <2> DEFINE b == books[k]
  <2>1. b \in Book(Us, Ids, Ps) /\ Absent(b, o.orderId)
    BY <1>1, <1>2, <1>7 DEF Books
  <2> HIDE DEF b
  <2> DEFINE mm == Match(b, o)
             nn == SetLastTrade(RestLeftover(mm.book, o, mm.remainingQty), mm.fills)
             cc == IF o.orderType = "MARKET" THEN Asked(o, mm.remainingQty, id) ELSE 0
  <2>2. /\ mm.fills \in Seq(Fill(Ids, Ps)) /\ mm.remainingQty \in Nat
        /\ TradedQty(mm.fills, id) \in Nat
        /\ RestingQty(b, id) \in Nat /\ RestingQty(nn, id) \in Nat
        /\ TradedQty(mm.fills, id) + RestingQty(nn, id) + cc = RestingQty(b, id) + A
    BY <1>1, <2>1, OrderHolds
  <2>3. QED
    BY <2>2 DEF b
<1> HIDE DEF m
<1>9. c \in Nat /\ A \in Nat
  BY <1>1, <1>8 DEF Asked
<1>10. TradedQty(Done', id) = TradedQty(Done, id) + T
  BY <1>3, <1>8, TradedConcat DEF DoneTypes, Fills
<1>11. CancelledQty(Undone', id) = CancelledQty(Undone, id) + c
  <2>1. Undone \in Seq(CancelMsgs(Ids)) /\ CancelledQty(Undone, id) \in Nat
    BY CancelledValues DEF DoneTypes, Cancellations, CancelMsgs
  <2>2. CASE m.remainingQty > 0 /\ o.orderType = "MARKET"
    <3> DEFINE msg == [orderId |-> o.orderId, unfilledQty |-> m.remainingQty]
    <3>1. msg \in CancelMsgs(Ids) /\ InCancel(msg, id) = c
      BY <1>1, <1>8, <2>2 DEF CancelMsgs, InCancel, Asked, Taker
    <3>2. Undone' = Undone \o <<msg>>
      BY <1>3, <2>2
    <3> HIDE DEF msg, c
    <3>3. Undone' = Append(Undone, msg)
      BY <2>1, <3>1, <3>2, AppendIsConcat
    <3>4. CancelledQty(Append(Undone, msg), id) = CancelledQty(Undone, id) + InCancel(msg, id)
      BY <2>1, <3>1, CancelledAppend
    <3>5. QED
      BY <3>1, <3>3, <3>4
  <2>3. CASE ~(m.remainingQty > 0 /\ o.orderType = "MARKET")
    <3>1. Undone' = Undone
      BY <1>3, <2>1, <2>3, ConcatEmptySeq
    <3>2. c = 0
      BY <1>8, <2>3 DEF Asked
    <3> HIDE DEF c
    <3>3. QED
      BY <2>1, <3>1, <3>2
  <2>4. QED
    BY <2>2, <2>3
<1> DEFINE RA == RestingQty(MatchedBooks[h], id)
           RB == RestingQty(MatchedBooks'[h], id)
<1>12. T + RB + c = RA + A
  <2>1. CASE h = k
    <3>1. MatchedBooks[h] = book /\ MatchedBooks'[h] = new
      BY <1>1, <1>2, <1>3, <2>1
    <3>2. QED
      BY <1>8, <3>1
  <2>2. CASE h # k
    <3>1. MatchedBooks'[h] = MatchedBooks[h]
      BY <1>1, <1>2, <1>3, <2>2
    <3>2. R0 = 0
      <4> DEFINE b == books[k]
      <4>1. Stems(b, S, k) /\ b \in Book(Us, Ids, Ps)
        BY <1>1, <1>2, <1>6 DEF Books
      <4>2. \A y \in S : y.orderId = id => y.marketId # k
        BY <1>4, <1>5, <2>2
      <4> HIDE DEF b, S, id, k
      <4>3. Absent(b, id)
        BY <4>1, <4>2, NotThere
      <4>4. RestingQty(b, id) = 0
        BY <4>1, <4>3, AbsentRests
      <4>5. QED
        BY <4>4 DEF b, k
    <3>3. A = 0
      BY <2>2, <1>5 DEF Asked
    <3>4. RB = RA /\ RA \in Nat
      BY <3>1, ShareIs
    <3> HIDE DEF RA, RB, T, R0, R1, A, c
    <3>5. T = 0 /\ c = 0
      BY <1>8, <1>9, <3>2, <3>3
    <3>6. QED
      BY <3>3, <3>4, <3>5
  <2>3. QED
    BY <2>1, <2>2
<1>13. RB \in Nat
  <2>1. CASE h = k
    BY <1>1, <1>2, <1>3, <1>8, <2>1
  <2>2. CASE h # k
    <3>1. MatchedBooks'[h] = MatchedBooks[h]
      BY <1>1, <1>2, <1>3, <2>2
    <3>2. QED
      BY <3>1, ShareIs
  <2>3. QED
    BY <2>1, <2>2
<1>14. Share(x)' = Share(x) + A
  <2> DEFINE D == TradedQty(Done, id)
             D1 == TradedQty(Done', id)
             C == CancelledQty(Undone, id)
             C1 == CancelledQty(Undone', id)
  <2>1. Share(x) = (D + C) + RA /\ Share(x)' = (D1 + C1) + RB
    BY DEF Share
  <2>2. D \in Nat /\ C \in Nat /\ RA \in Nat
    BY ShareIs
  <2>3. D1 = D + T /\ C1 = C + c
    BY <1>10, <1>11
  <2> HIDE DEF D, D1, C, C1, RA, RB, T, R0, R1, A, c
  <2>4. (D1 + C1) + RB = ((D + C) + RA) + A
    BY <1>8, <1>9, <1>12, <1>13, <2>2, <2>3
  <2>5. QED
    BY <2>1, <2>4
<1>15. Due(x)' = Due(x) + A
  <2>1. x = o <=> id = o.orderId
    BY <1>5
  <2>2. QED
    BY <1>1, <1>4, <2>1 DEF Due, Asked
<1>16. QED
  BY <1>14, <1>15

\* What a cancel releases, it takes out of the book.
LEMMA CancelledShare ==
  ASSUME SInv, DoneTypes, NEW o \in Orders, Cancels(o), NEW x \in Orders
  PROVE  Share(x)' = Share(x) /\ Due(x)' = Due(x)
<1> DEFINE id == x.orderId
           k == o.marketId
           h == x.marketId
           book == MatchedBooks[k]
           new == RemoveOrder(book, o.side, o.price, o.orderId)
<1>1. PICK row \in RemovedOrders(book, o.side, o.price, o.orderId) :
        /\ MatchedBooks' = [MatchedBooks EXCEPT ![k] = new]
        /\ Undone' = Append(Undone, [orderId |-> o.orderId, unfilledQty |-> Fillable(row)])
        /\ placed' = placed /\ Done' = Done
  BY DEF Cancels
<1>2. k \in Markets /\ h \in Markets /\ o.side \in Sides
  BY OrderIsTaker
<1>3. MatchedBooks \in [Markets -> Books] /\ book \in Book(Us, Ids, Ps)
  BY <1>2 DEF DoneTypes, Books
<1> DEFINE R0 == RestingQty(book, id)
           R1 == RestingQty(new, id)
           w == OfOrder(row, id)
<1>4. /\ row \in Row(Us, Ids) /\ row.orderId = o.orderId /\ R0 = R1 + w
      /\ new \in Book(Us, Ids, Ps)
  <2> DEFINE side == o.side
             price == o.price
             oid == o.orderId
  <2>1. side \in Sides /\ row \in RemovedOrders(book, side, price, oid)
    BY <1>2
  <2> HIDE DEF side, price, oid, book
  <2>2. /\ row \in Row(Us, Ids) /\ row.orderId = oid
        /\ RestingQty(book, id) = RestingQty(RemoveOrder(book, side, price, oid), id) + OfOrder(row, id)
    BY <1>3, <2>1, RemoveHolds
  <2>3. RemoveOrder(book, side, price, oid) \in Book(Us, Ids, Ps)
    BY <1>3, <2>1, RemoveSound
  <2>4. QED
    BY <2>2, <2>3 DEF side, price, oid
<1>5. Fillable(row) \in Nat /\ w \in Nat
  BY <1>4, RowWants DEF OfOrder
<1>6. R1 \in Nat
  <2> HIDE DEF new
  <2>1. QED
    BY <1>4, RestingNat
<1>7. CancelledQty(Undone', id) = CancelledQty(Undone, id) + w
  <2> DEFINE msg == [orderId |-> o.orderId, unfilledQty |-> Fillable(row)]
  <2>1. msg \in CancelMsgs(Ids) /\ InCancel(msg, id) = w
    BY <1>4, <1>5 DEF CancelMsgs, InCancel, OfOrder, Ids
  <2>2. Undone \in Seq(CancelMsgs(Ids)) /\ Undone' = Append(Undone, msg)
    BY <1>1 DEF DoneTypes, Cancellations, CancelMsgs
  <2> HIDE DEF msg, w
  <2>3. CancelledQty(Append(Undone, msg), id) = CancelledQty(Undone, id) + InCancel(msg, id)
    BY <2>1, <2>2, CancelledAppend
  <2>4. QED
    BY <2>1, <2>2, <2>3
<1> DEFINE RA == RestingQty(MatchedBooks[h], id)
           RB == RestingQty(MatchedBooks'[h], id)
<1>8. RA = RB + w /\ RB \in Nat
  <2>1. CASE h = k
    <3>1. MatchedBooks[h] = book /\ MatchedBooks'[h] = new
      BY <1>1, <1>2, <1>3, <2>1
    <3>2. QED
      BY <1>4, <1>6, <3>1
  <2>2. CASE h # k
    <3>1. MatchedBooks'[h] = MatchedBooks[h]
      BY <1>1, <1>2, <1>3, <2>2
    <3>2. id # o.orderId
      BY <2>2, OrdersAssumption
    <3>3. w = 0
      BY <1>4, <3>2 DEF OfOrder
    <3>4. RA \in Nat /\ RB = RA
      BY <3>1, ShareIs
    <3> HIDE DEF w, RA, RB
    <3>5. QED
      BY <3>3, <3>4
  <2>3. QED
    BY <2>1, <2>2
<1>9. Share(x)' = Share(x)
  <2> DEFINE D == TradedQty(Done, id)
             C == CancelledQty(Undone, id)
             C1 == CancelledQty(Undone', id)
  <2>1. Share(x) = (D + C) + RA /\ Share(x)' = (D + C1) + RB
    BY <1>1 DEF Share
  <2>2. D \in Nat /\ C \in Nat
    BY ShareIs
  <2>3. C1 = C + w
    BY <1>7
  <2> HIDE DEF D, C, C1, RA, RB, w
  <2>4. (D + C1) + RB = (D + C) + RA
    BY <1>5, <1>8, <2>2, <2>3
  <2>5. QED
    BY <2>1, <2>4
<1>10. Due(x)' = Due(x)
  BY <1>1 DEF Due
<1>11. QED
  BY <1>9, <1>10

\* The stream grows, and starts go up.
LEMMA OnceBefore ==
  ASSUME SInv, RInv, [Next]_vars
  PROVE  /\ \A i \in 1..Len(orders) : i \in 1..Len(orders') /\ orders'[i] = orders[i]
         /\ Once' => Once
         /\ crashes' = crashes \/ crashes' = crashes + 1
<1>1. orders \in Seq(Msgs)
  BY DEF SInv, StreamsInv
<1>2. orders' = orders \/ \E msg \in Msgs : orders' = Append(orders, msg)
  BY DEF Next, vars, Backend, PublishOrder, PublishCancel, Message, Msgs, Awaits, HandleCancel,
     SkipDuplicate, Rest, Read, PublishFill, PublishCancelled, PublishBook, Ack, HandleOrder,
     Snapshot, SnapshotRead, SnapshotStore, SnapshotFail, RestartEngine, RestartSnapshot
<1>3. \A i \in 1..Len(orders) : i \in 1..Len(orders') /\ orders'[i] = orders[i]
  <2>1. ASSUME NEW msg \in Msgs, orders' = Append(orders, msg)
        PROVE  \A i \in 1..Len(orders) : i \in 1..Len(orders') /\ orders'[i] = orders[i]
    <3>1. Len(orders) \in Nat /\ Len(orders') = Len(orders) + 1
      BY <1>1, <2>1, AppendProperties, LenProperties
    <3>2. \A i \in 1..Len(orders) : orders'[i] = orders[i]
      BY <1>1, <2>1, AppendProperties
    <3>3. \A i \in 1..Len(orders) : i \in 1..Len(orders')
      BY <3>1
    <3>4. QED
      BY <3>2, <3>3
  <2>2. QED
    BY <1>2, <2>1
<1>4. Once' => Once
  BY <1>3 DEF Once, Message
<1>5. crashes' = crashes \/ crashes' = crashes + 1
  BY DEF Next, vars, Backend, PublishOrder, PublishCancel, Awaits, HandleCancel,
     SkipDuplicate, Rest, Read, PublishFill, PublishCancelled, PublishBook, Ack, HandleOrder,
     Snapshot, SnapshotRead, SnapshotStore, SnapshotFail, RestartEngine, RestartSnapshot
<1>6. QED
  BY <1>3, <1>4, <1>5

\* A matched order was read, and not as the message now in hand.
LEMMA WasReadKept ==
  ASSUME SInv, RInv, WasRead, [Next]_vars
  PROVE  WasRead'
<1>1. \A i \in 1..Len(orders) : orders'[i] = orders[i]
  BY OnceBefore
<1>2. orders \in Seq(Msgs) /\ placed \in Seq(Orders) /\ delivered \in 0..Len(orders) /\ Len(orders) \in Nat
  BY LenProperties DEF SInv, StreamsInv
<1>3. CASE HandleOrder
  <2> DEFINE o == Current.order
  <2>1. /\ placed' = Append(placed, o) /\ phase' # "handle" /\ delivered' = delivered
        /\ phase = "handle" /\ Current.type = "order.created"
    BY <1>3 DEF HandleOrder, AfterFills
  <2>2. delivered \in 1..Len(orders) /\ Current \in Msgs /\ o \in Orders
    BY <1>2, <2>1, CurrentIs DEF SInv, StreamsInv
  <2>3. orders[delivered] = Message("order.created", o)
    BY <2>1, <2>2 DEF Current, Msgs, Message
  <2> HIDE DEF o
  <2>4. ToSet(placed') = ToSet(placed) \cup {o}
    BY <1>2, <2>1, <2>2, ToSetAppend
  <2>5. ASSUME NEW x \in ToSet(placed')
        PROVE  \E i \in 1..delivered : orders[i] = Message("order.created", x)
    <3>1. CASE x = o
      BY <2>2, <2>3, <3>1
    <3>2. CASE x # o
      BY <2>4, <3>2 DEF WasRead
    <3>3. QED
      BY <3>1, <3>2
  <2>6. orders' = orders
    BY <1>3 DEF HandleOrder
  <2>7. QED
    BY <2>1, <2>5, <2>6 DEF WasRead, Message
<1>4. CASE ~HandleOrder
  <2>1. /\ placed' = placed
        /\ \/ delivered' = delivered /\ (phase' = "handle" => phase = "handle")
           \/ delivered' = delivered + 1 /\ delivered' \in 1..Len(orders)
    BY <1>2, <1>4 DEF Next, vars, Backend, PublishOrder, PublishCancel, Awaits, HandleCancel,
       SkipDuplicate, Rest, Read, PublishFill, PublishCancelled, PublishBook, Ack,
       Snapshot, SnapshotRead, SnapshotStore, SnapshotFail, RestartEngine, RestartSnapshot,
       engineVars, snapshotVars, Proceed, AfterRemoval, AfterFills, AfterCancelled
  <2>2. ASSUME NEW x \in ToSet(placed)
        PROVE  \E i \in 1..delivered' :
                 orders'[i] = Message("order.created", x) /\ (phase' = "handle" => i # delivered')
    <3>1. PICK i \in 1..delivered :
                 orders[i] = Message("order.created", x) /\ (phase = "handle" => i # delivered)
      BY DEF WasRead
    <3>2. i \in 1..Len(orders) /\ i \in 1..delivered'
      BY <1>2, <2>1, <3>1
    <3>3. orders'[i] = Message("order.created", x)
      BY <1>1, <3>1, <3>2
    <3>4. phase' = "handle" => i # delivered'
      BY <1>2, <2>1, <3>1
    <3>5. QED
      BY <3>2, <3>3, <3>4
  <2>3. QED
    BY <2>1, <2>2 DEF WasRead, Message
<1>5. QED
  BY <1>3, <1>4

\* No step gives an order more than it is due, until a restart.
LEMMA ONext == SInv /\ SInv' /\ RInv /\ RInv' /\ OInv /\ [Next]_vars => OInv'
<1> SUFFICES ASSUME SInv, RInv, RInv', SInv', OInv, [Next]_vars PROVE OInv'
  OBVIOUS
<1>1. WasRead'
  BY WasReadKept DEF OInv
<1>2. ASSUME crashes' = 0, Once' PROVE WithinDue'
  <2>1. crashes = 0 /\ Once /\ WasRead /\ WithinDue
    BY <1>2, OnceBefore DEF RInv, OInv
  <2>2. DoneTypes
    BY DoneIs
  <2>3. ASSUME Idle PROVE WithinDue'
    BY <2>1, <2>3 DEF Idle, WithinDue, Share, Due
  <2>4. CASE Awaits
    <3>1. CASE HandleCancel
      <4>1. CASE Idle
        BY <2>3, <4>1
      <4>2. CASE Current.order \in ToSet(placed) /\ Cancels(Current.order)
        <5> DEFINE o == Current.order
        <5>1. o \in Orders
          <6>1. placed \in Seq(Orders)
            BY DEF SInv, StreamsInv
          <6>2. QED
            BY <4>2, <6>1, Placed, ElementOfSeq
        <5> HIDE DEF o
        <5>2. \A x \in Orders : Share(x)' = Share(x) /\ Due(x)' = Due(x)
          BY <2>2, <4>2, <5>1, CancelledShare DEF o
        <5>3. QED
          BY <2>1, <5>2 DEF WithinDue
      <4>3. QED
        BY <3>1, <4>1, <4>2, RCancel
    <3>2. CASE Rest
      BY <2>3, <3>2, RRest
    <3>3. ASSUME NEW outcome \in Outcomes, PublishFill(outcome) \/ PublishCancelled(outcome)
          PROVE  WithinDue'
      <4>1. CASE outcome = "ok"
        BY <2>3, <3>3, <4>1, RFill, RCancelled
      <4>2. CASE outcome # "ok"
        <5>1. ASSUME NEW x \in Orders PROVE Share(x)' <= Due(x)'
          <6>1. Share(x)' \in Nat /\ Share(x)' <= Share(x) /\ Due(x)' = Due(x)
            BY <2>2, <3>3, <4>2, DroppedShare
          <6>2. Share(x) <= Due(x)
            BY <2>1 DEF WithinDue
          <6>3. Share(x) \in Nat /\ Due(x) \in Nat
            BY <2>2, ShareIs, OrderIsTaker DEF Share, Due
          <6>4. QED
            BY <6>1, <6>2, <6>3
        <5>2. QED
          BY <5>1 DEF WithinDue
      <4>3. QED
        BY <4>1, <4>2
    <3>4. CASE \/ SkipDuplicate
               \/ \E outcome \in Outcomes : Read(outcome) \/ PublishBook(outcome) \/ Ack(outcome)
      BY <2>3, <3>4, RQuiet
    <3>5. QED
      BY <2>4, <3>1, <3>2, <3>3, <3>4 DEF Awaits
  <2>5. CASE Backend \/ Snapshot \/ SnapshotFail \/ RestartSnapshot \/ UNCHANGED vars
    BY <2>3, <2>5, RQuiet
  <2>6. CASE HandleOrder
    <3> DEFINE o == Current.order
    <3>1. /\ RInv' /\ o \in Orders /\ Handles(o) /\ phase = "handle" /\ ~Matched
          /\ Current.type = "order.created"
      BY <2>6, ROrder DEF HandleOrder, Matched
    <3>2. o \notin ToSet(placed)
      <4>1. delivered \in 1..Len(orders) /\ Current \in Msgs
        BY <3>1, CurrentIs DEF SInv, StreamsInv
      <4>2. orders[delivered] = Message("order.created", o)
        BY <3>1, <4>1 DEF Current, Msgs, Message
      <4>3. ASSUME o \in ToSet(placed) PROVE FALSE
        <5>1. PICK i \in 1..delivered : orders[i] = Message("order.created", o) /\ i # delivered
          BY <2>1, <3>1, <4>3 DEF WasRead
        <5>2. i \in 1..Len(orders)
          BY <4>1, <5>1
        <5>3. QED
          BY <2>1, <3>1, <4>1, <4>2, <5>1, <5>2 DEF Once
      <4>4. QED
        BY <4>3
    <3> HIDE DEF o
    <3>3. ASSUME NEW x \in Orders PROVE Share(x)' <= Due(x)'
      <4> DEFINE A == Asked(o, o.qty, x.orderId)
      <4>1. Share(x)' = Share(x) + A /\ Due(x)' = Due(x) + A
        BY <2>2, <3>1, <3>2, HandledShare
      <4>2. Share(x) <= Due(x)
        BY <2>1 DEF WithinDue
      <4>3. Share(x) \in Int /\ Due(x) \in Int /\ A \in Int
        BY <2>2, <3>1, ShareIs, OrderIsTaker DEF Share, Due, Asked
      <4> HIDE DEF A
      <4>4. QED
        BY <4>1, <4>2, <4>3
    <3>4. QED
      BY <3>3 DEF WithinDue
  <2>7. CASE RestartEngine
    BY <1>2, <2>1, <2>7 DEF RestartEngine
  <2>8. QED
    BY <2>4, <2>5, <2>6, <2>7 DEF Next
<1>3. QED
  BY <1>1, <1>2 DEF OInv

\* Nothing is matched yet.
LEMMA OInit == Init => OInv
<1> SUFFICES ASSUME Init PROVE OInv
  OBVIOUS
<1>1. /\ fills = <<>> /\ cancels = <<>> /\ placed = <<>> /\ job = NoJob
      /\ phase = "read" /\ books = [m \in Markets |-> EmptyBook]
  BY DEF Init
<1>2. SInv /\ RInv
  BY SInit, RStart
<1>3. Done = <<>> /\ Undone = <<>>
  BY <1>1, <1>2, NothingInHand
<1>4. ToSet(placed) = {}
  BY <1>1 DEF ToSet
<1>5. ASSUME NEW o \in Orders PROVE Share(o) <= Due(o)
  <2> DEFINE id == o.orderId
             b == MatchedBooks[o.marketId]
             D == Done
             C == Undone
  <2>1. D \in Seq(Fills) /\ C \in Seq(CancelMsgs(Ids)) /\ Len(D) = 0 /\ Len(C) = 0
    BY <1>3, EmptySeq
  <2>2. b = EmptyBook
    BY <1>1, OrderIsTaker DEF MatchedBooks, Matched
  <2>3. b \in Book(Us, Ids, Ps)
    BY <1>2, <2>2, OrderIsTaker, DoneIs DEF DoneTypes, Books
  <2>4. Share(o) = TradedQty(D, id) + CancelledQty(C, id) + RestingQty(b, id)
    BY DEF Share
  <2> HIDE DEF b, id, C, D
  <2>5. TradedQty(D, id) = 0
    <3>1. \A i \in 1..Len(D) : InFill(D[i], id) = 0
      BY <2>1
    <3>2. QED
      BY <2>1, <3>1, TradedNone DEF Fills
  <2>6. CancelledQty(C, id) = 0
    <3>1. \A i \in 1..Len(C) : C[i].orderId # id
      BY <2>1
    <3>2. QED
      BY <2>1, <3>1, CancelledNone
  <2>7. Absent(b, id)
    BY <2>2 DEF Absent, EmptyBook, EmptyLadder, Ladders
  <2>8. RestingQty(b, id) = 0
    BY <2>3, <2>7, AbsentRests
  <2>9. Due(o) = 0
    BY <1>4 DEF Due
  <2>10. QED
    BY <2>4, <2>5, <2>6, <2>8, <2>9
<1>6. QED
  BY <1>4, <1>5 DEF OInv, WasRead, WithinDue

\* A message that was published once at most is in one place.
LEMMA CountedOnce ==
  ASSUME orders \in Seq(Msgs), NEW msg, Count(msg) <= 1,
         NEW i \in 1..Len(orders), NEW j \in 1..Len(orders), orders[i] = msg, orders[j] = msg
  PROVE  i = j
<1> DEFINE S == {k \in DOMAIN orders : orders[k] = msg}
<1> SUFFICES ASSUME i # j PROVE FALSE
  OBVIOUS
<1>1. Len(orders) \in Nat /\ DOMAIN orders = 1..Len(orders)
  BY LenProperties
<1>2. IsFiniteSet(S) /\ {i, j} \subseteq S
  <2>1. IsFiniteSet(1..Len(orders)) /\ S \subseteq 1..Len(orders)
    BY <1>1, FS_Interval
  <2>2. i \in S /\ j \in S
    BY <1>1
  <2> HIDE DEF S
  <2>3. IsFiniteSet(S)
    BY <2>1, FS_Subset
  <2>4. QED
    BY <2>2, <2>3
<1>3. Cardinality({i, j}) = 2
  <2>1. IsFiniteSet({i}) /\ Cardinality({i}) = 1
    BY FS_Singleton
  <2>2. Cardinality({i} \cup {j}) = Cardinality({i}) + 1
    BY <2>1, FS_AddElement
  <2>3. Cardinality({i} \cup {j}) = 1 + 1
    BY <2>1, <2>2, Zenon
  <2>4. {i} \cup {j} = {i, j} /\ 1 + 1 = 2
    OBVIOUS
  <2>5. QED
    BY <2>3, <2>4, Zenon
<1>4. Cardinality(S) <= 1
  BY DEF Count
<1> HIDE DEF S
<1>5. Cardinality({i, j}) <= Cardinality(S) /\ Cardinality(S) \in Nat
  BY <1>2, FS_Subset, FS_CardinalityType
<1>6. QED
  BY <1>3, <1>4, <1>5

\* As long as the engine is not started again and no order is published twice,
\* whatever commands fail: what was published of an order's fills and cancels
\* never exceeds its quantity (index.ts: the catch that drops a message whose
\* book has changed already).
THEOREM FailuresOnlyLose == Spec => []FailuresNeverOverfill
<1>1. Spec => []OInv
  BY OInit, ONext, SAlways, RAlways, PTL DEF Spec
<1>2. ASSUME SInv, RInv, OInv PROVE FailuresNeverOverfill
  <2> SUFFICES ASSUME crashes = 0,
                      \A o \in Orders : Count(Message("order.created", o)) <= 1,
                      NEW o \in Orders
               PROVE  UsedQty(o.orderId) <= o.qty
    BY DEF FailuresNeverOverfill, NoOverfill
  <2>1. Once
    <3>1. orders \in Seq(Msgs)
      BY <1>2 DEF SInv, StreamsInv
    <3>2. ASSUME NEW x \in Orders, NEW i \in 1..Len(orders), NEW j \in 1..Len(orders),
                 orders[i] = Message("order.created", x), orders[j] = Message("order.created", x)
          PROVE  i = j
      <4> DEFINE msg == Message("order.created", x)
      <4>1. Count(msg) <= 1 /\ orders[i] = msg /\ orders[j] = msg
        BY <3>2
      <4> HIDE DEF msg
      <4>2. QED
        BY <3>1, <4>1, CountedOnce
    <3>3. QED
      BY <3>2 DEF Once
  <2>2. Share(o) <= Due(o) /\ DoneTypes
    BY <1>2, <2>1, DoneIs DEF OInv, WithinDue
  <2> DEFINE id == o.orderId
             D == TradedQty(Done, id)
             T == TradedQty(fills, id)
             C == CancelledQty(Undone, id)
             C1 == CancelledQty(cancels, id)
             R == RestingQty(MatchedBooks[o.marketId], id)
  <2>3. D \in Nat /\ C \in Nat /\ R \in Nat
    BY <2>2, ShareIs
  <2>4. T \in Nat /\ T <= D
    <3> DEFINE rest == SubSeq(job.fills, job.sent + 1, Len(job.fills))
    <3>1. fills \in Seq(Fills) /\ job.fills \in Seq(Fills) /\ job.sent \in Nat
      BY <1>2 DEF SInv, JobInv, Jobs, RInv
    <3>2. rest \in Seq(Fills)
      BY <3>1, UnsentTypes
    <3>3. Done = fills \o rest
      BY DEF Done
    <3> HIDE DEF rest, id
    <3>4. TradedQty(Done, id) = TradedQty(fills, id) + TradedQty(rest, id)
      BY <3>1, <3>2, <3>3, TradedConcat DEF Fills
    <3>5. TradedQty(fills, id) \in Nat /\ TradedQty(rest, id) \in Nat
      BY <3>1, <3>2, TradedNat DEF Fills
    <3>6. QED
      BY <3>4, <3>5
  <2>5. C1 \in Nat /\ C1 <= C
    <3>1. cancels \in Seq(CancelMsgs(Ids))
      BY <1>2 DEF RInv, Cancellations, CancelMsgs
    <3>2. CASE ~(job.released > 0)
      <4>1. Undone = cancels
        BY <3>2 DEF Undone
      <4>2. QED
        BY <3>1, <4>1, CancelledValues
    <3>3. CASE job.released > 0
      <4> DEFINE c == Cancelled(Current.order.orderId)
      <4>1. job # NoJob /\ job.released \in Nat
        BY <1>2, <3>3 DEF NoJob, SInv, JobInv, Jobs
      <4>2. Current.order \in Orders
        BY <1>2, <4>1, CurrentIs DEF SInv, JobInv, StreamsInv
      <4>3. c \in CancelMsgs(Ids) /\ Undone = Append(cancels, c)
        BY <3>3, <4>1, <4>2 DEF Undone, Cancelled, CancelMsgs, Ids
      <4> HIDE DEF c
      <4>4. C = C1 + InCancel(c, id) /\ C1 \in Nat
        BY <3>1, <4>3, CancelledAppend, CancelledValues
      <4>5. InCancel(c, id) \in Nat
        BY <4>3 DEF InCancel, CancelMsgs
      <4>6. QED
        BY <4>4, <4>5
    <3>4. QED
      BY <3>2, <3>3
  <2>6. /\ UsedQty(id) = T + C1 /\ Share(o) = (D + C) + R
        /\ Due(o) \in Nat /\ Due(o) <= o.qty /\ o.qty \in Nat
    BY OrderIsTaker DEF UsedQty, Share, Due
  <2> HIDE DEF T, D, C, C1, R
  <2>7. T + C1 <= o.qty
    BY <2>2, <2>3, <2>4, <2>5, <2>6
  <2>8. QED
    BY <2>6, <2>7
<1>3. QED
  BY <1>1, <1>2, SAlways, RAlways, PTL
=============================================================================

----------------------------- MODULE OutboxProofs -----------------------------
(***************************************************************************)
(* Proofs about Outbox, for every set of orders and sweeps and every bound *)
(* on the faults: an order is marked only when its event is in the stream  *)
(* (Delivery), an engine matches an order again only for a failed          *)
(* publication of that order, and a cancelled order that the engine        *)
(* remembers does not come back.                                           *)
(***************************************************************************)
EXTENDS Outbox, FiniteSetTheorems, TLAPS

Jobs == [todo : Seq(OrderIds), at : {"publish", "mark"}, left : 0..Attempts]

\* Only committed orders are published, and an update of eventPublished waits
\* for an XADD that was carried out.
Sound(j, orders, told) ==
  /\ j.todo \in Seq(orders)
  /\ j.todo # <<>> /\ j.at = "mark" => Head(j.todo) \in told

JobsSound == \A p \in OrderIds \cup Sweeps : Sound(job[p], Committed, sent)

MarksSound ==
  /\ sent \subseteq Committed
  /\ \A o \in OrderIds : eventPublished[o] => o \in sent

\* Every match of an order that the engine neither remembers nor is publishing
\* has slipped, and the order being published is not remembered; what the engine
\* has cancelled after the match it remembers.
Owed ==
  /\ cutAfter \subseteq processed
  /\ publishing => \E o \in OrderIds : inHand = Created(o) /\ o \notin processed
  /\ \A o \in OrderIds :
       \/ o \in processed
       \/ publishing /\ inHand = Created(o)
       \/ matches[o] <= slips[o]

\* The engine is given, and matches, announced orders only.
Sayable(told) == {m \in Messages : m.type = "order.created" => m.order \in told}

StreamSound ==
  /\ stream \in Seq(Sayable(sent)) /\ inHand \in Sayable(sent) \cup {NoMessage}
  /\ matched \subseteq sent

IInv == TypeOK /\ JobsSound /\ MarksSound /\ StreamSound /\ Owed /\ RematchOwed /\ CancelSticks

-----------------------------------------------------------------------------
\* The parts of a sequence that is not empty.
LEMMA SeqParts ==
  ASSUME NEW S, NEW s \in Seq(S), s # <<>>
  PROVE  Head(s) \in S /\ Tail(s) \in Seq(S)
  OBVIOUS

\* What the backend sends, and that no order is nothing.
LEMMA Sent ==
  ASSUME NEW o \in OrderIds
  PROVE  /\ Created(o) \in Messages /\ Cancel(o) \in Messages
         /\ Created(o).type = "order.created" /\ Created(o).order = o
         /\ Cancel(o).type = "order.cancel"
         /\ Created(o) # NoMessage /\ Cancel(o) # NoMessage
<1>1. NoMessage.type = "none"
  BY DEF NoMessage
<1>2. Created(o).type = "order.created" /\ Cancel(o).type = "order.cancel"
  BY DEF Created, Cancel
<1>3. QED
  BY <1>1, <1>2 DEF Created, Cancel, Messages

\* A list of work that has not been started is a job.
LEMMA WorkIsJob ==
  ASSUME NEW todo \in Seq(OrderIds)
  PROVE  /\ Work(todo) \in Jobs
         /\ Work(todo).todo = todo /\ Work(todo).at = "publish"
         /\ todo # <<>> => Work(todo).left > 0
  BY OutboxAssumption DEF Work, Jobs

\* A handler or sweep that has nothing to do.
LEMMA IdleIsJob == Idle \in Jobs /\ Idle.todo = <<>>
<1>1. <<>> \in Seq(OrderIds)
  OBVIOUS
<1>2. Work(<<>>) \in Jobs /\ Work(<<>>).todo = <<>>
  BY <1>1, WorkIsJob
<1>3. QED
  BY <1>2 DEF Idle

\* A batch of a sweep is a sequence of the orders it has read.
LEMMA BatchIsSeq ==
  ASSUME NEW batch \in SUBSET OrderIds, NEW todo \in SetToSeqs(batch)
  PROVE  todo \in Seq(batch)
<1>1. IsFiniteSet(batch)
  BY OutboxAssumption, FS_Subset
<1>2. Cardinality(batch) \in Nat
  BY <1>1, FS_CardinalityType
<1>3. todo \in [1..Cardinality(batch) -> batch]
  BY DEF SetToSeqs
<1>4. QED
  BY <1>2, <1>3

\* The initial states satisfy the invariant.
LEMMA InitIInv == Init => IInv
<1> SUFFICES ASSUME Init PROVE IInv
  OBVIOUS
<1>1. OrderTypes
  BY OutboxAssumption DEF Init, OrderTypes
<1>2. JobTypes
  BY IdleIsJob DEF Init, JobTypes, Jobs
<1>3. EngineTypes
  <2>1. <<>> \in Seq(Messages)
    OBVIOUS
  <2>2. QED
    BY <2>1 DEF Init, EngineTypes
<1>4. JobsSound
  <2>1. <<>> \in Seq(Committed)
    OBVIOUS
  <2>2. QED
    BY <2>1, IdleIsJob DEF Init, JobsSound, Sound
<1>5. MarksSound /\ Owed /\ RematchOwed /\ CancelSticks
  BY DEF Init, MarksSound, Owed, RematchOwed, CancelSticks
<1>6. StreamSound
  <2>1. <<>> \in Seq(Sayable(sent))
    OBVIOUS
  <2>2. QED
    BY <2>1 DEF Init, StreamSound
<1>7. QED
  BY <1>1, <1>2, <1>3, <1>4, <1>5, <1>6 DEF IInv, TypeOK

\* Whatever the engine does, it leaves the backend alone.
LEMMA EngineLeaves ==
  ASSUME Engine \/ EngineRestart
  PROVE  /\ UNCHANGED <<status, eventPublished, job, cancelling, sent>>
         /\ Event \/ UNCHANGED events
  BY DEF Engine, ReadOrder, Match, Remember, PublicationFails, SkipDuplicate, HandleCancel,
         EngineRestart, Backend, history

-----------------------------------------------------------------------------
(* Types. *)

\* What is left after a publication, an update or a batch is a job.
LEMMA WorkOfTail ==
  ASSUME NEW j \in Jobs, j.todo # <<>>
  PROVE  /\ Work(Tail(j.todo)) \in Jobs
         /\ Work(Tail(j.todo)).todo = Tail(j.todo)
         /\ Work(Tail(j.todo)).at = "publish"
         /\ Work(Tail(j.todo)).todo # <<>> => Work(Tail(j.todo)).left > 0
<1>1. Tail(j.todo) \in Seq(OrderIds)
  BY DEF Jobs
<1>2. QED
  BY <1>1, WorkIsJob

\* What Publish leaves of a job: it is marked next, tried again or given up.
LEMMA PublishKeepsJob ==
  ASSUME NEW j \in Jobs, j.todo # <<>>, j.left > 0
  PROVE  /\ Announced(j) \in Jobs /\ Announced(j).todo = j.todo /\ Announced(j).left > 0
         /\ j.left > 1 => /\ [j EXCEPT !.left = @ - 1] \in Jobs
                          /\ [j EXCEPT !.left = @ - 1].todo = j.todo
                          /\ [j EXCEPT !.left = @ - 1].at = j.at
                          /\ [j EXCEPT !.left = @ - 1].left > 0
  BY OutboxAssumption DEF Jobs, Announced

\* A job that is replaced by a job leaves all of them jobs.
LEMMA JobReplaced ==
  ASSUME JobTypes, NEW p \in OrderIds \cup Sweeps, NEW j \in Jobs,
         j.todo # <<>> => j.left > 0, job' = [job EXCEPT ![p] = j]
  PROVE  JobTypes'
  BY DEF JobTypes, Jobs

\* Every step keeps the types of the jobs.
LEMMA JobTypesKept ==
  ASSUME TypeOK, [Next]_vars
  PROVE  JobTypes'
<1>1. JobTypes /\ \A p \in OrderIds \cup Sweeps : job[p] \in Jobs
  BY DEF TypeOK, JobTypes, Jobs
<1>2. ASSUME NEW o \in OrderIds, NEW answered \in BOOLEAN, CommitOrder(o, answered)
      PROVE  JobTypes'
  <2>1. <<o>> \in Seq(OrderIds)
    OBVIOUS
  <2>2. CASE answered
    <3>1. job' = [job EXCEPT ![o] = Work(<<o>>)]
      BY <1>2, <2>2 DEF CommitOrder
    <3>2. QED
      BY <1>1, <2>1, <3>1, WorkIsJob, JobReplaced
  <2>3. CASE ~answered
    BY <1>1, <1>2, <2>3 DEF CommitOrder, JobTypes
  <2>4. QED
    BY <2>2, <2>3
<1>3. ASSUME NEW p \in OrderIds \cup Sweeps, NEW outcome \in Outcomes, Publish(p, outcome)
      PROVE  JobTypes'
  <2> DEFINE j == job[p]
  <2>1. j \in Jobs /\ j.todo # <<>> /\ j.left > 0
    BY <1>1, <1>3 DEF Publish, JobTypes
  <2>2. CASE outcome = "ok"
    <3>1. job' = [job EXCEPT ![p] = Announced(j)]
      BY <1>3, <2>2 DEF Publish
    <3>2. QED
      BY <1>1, <2>1, <3>1, PublishKeepsJob, JobReplaced
  <2>3. CASE outcome # "ok" /\ j.left > 1
    <3>1. job' = [job EXCEPT ![p] = [j EXCEPT !.left = @ - 1]]
      BY <1>3, <2>3 DEF Publish
    <3>2. QED
      BY <1>1, <2>1, <2>3, <3>1, PublishKeepsJob, JobReplaced
  <2>4. CASE outcome # "ok" /\ ~(j.left > 1)
    <3>1. job' = [job EXCEPT ![p] = Work(Tail(j.todo))]
      BY <1>3, <2>4 DEF Publish, GivenUp
    <3>2. QED
      BY <1>1, <2>1, <3>1, WorkOfTail, JobReplaced
  <2>5. QED
    BY <2>2, <2>3, <2>4
<1>4. ASSUME NEW p \in OrderIds \cup Sweeps, NEW outcome \in Outcomes,
             MarkPublished(p, outcome)
      PROVE  JobTypes'
  <2> DEFINE next == IF outcome = "ok" THEN Work(Tail(job[p].todo)) ELSE Idle
  <2>1. next \in Jobs /\ (next.todo # <<>> => next.left > 0)
    BY <1>1, <1>4, WorkOfTail, IdleIsJob DEF MarkPublished
  <2>2. job' = [job EXCEPT ![p] = next]
    BY <1>4 DEF MarkPublished
  <2>3. QED
    BY <1>1, <2>1, <2>2, JobReplaced
<1>5. ASSUME NEW s \in Sweeps, StartSweep(s)
      PROVE  JobTypes'
  <2>1. PICK batch \in SUBSET Stale :
          \E todo \in SetToSeqs(batch) : job' = [job EXCEPT ![s] = Work(todo)]
    BY <1>5 DEF StartSweep
  <2>2. PICK todo \in SetToSeqs(batch) : job' = [job EXCEPT ![s] = Work(todo)]
    BY <2>1
  <2>3. batch \in SUBSET OrderIds
    BY DEF Stale
  <2>4. todo \in Seq(OrderIds)
    BY <2>3, BatchIsSeq
  <2>5. QED
    BY <1>1, <2>2, <2>4, WorkIsJob, JobReplaced
<1>6. ASSUME Restart
      PROVE  JobTypes'
  BY <1>1, <1>6, IdleIsJob DEF Restart, JobTypes, Jobs
<1>7. ASSUME UNCHANGED job
      PROVE  JobTypes'
  BY <1>1, <1>7 DEF JobTypes
<1>8. QED
  BY <1>2, <1>3, <1>4, <1>5, <1>6, <1>7, EngineLeaves
  DEF Next, vars, CancelOrder, Announce, RequestCancel, SendCancel, Settle

\* Every step keeps the types of the rows and of the counters.
LEMMA OrderTypesKept ==
  ASSUME TypeOK, [Next]_vars
  PROVE  OrderTypes'
<1>1. OrderTypes
  BY DEF TypeOK
<1>2. events' \in 0..MaxEvents
  <2>1. Event \/ UNCHANGED events
    BY EngineLeaves
    DEF Next, vars, CommitOrder, CancelOrder, RequestCancel, SendCancel, Announce, Publish,
        MarkPublished, StartSweep, Restart, Settle
  <2>2. QED
    BY <1>1, <2>1, OutboxAssumption DEF OrderTypes, Event
<1>3. status' \in [OrderIds -> Open \cup {"NONE", "CLOSED"}]
  BY <1>1, EngineLeaves
  DEF OrderTypes, Open, Next, vars, engine, CommitOrder, CancelOrder, RequestCancel, SendCancel,
      Announce, Publish, MarkPublished, StartSweep, Restart, Settle
<1>4. eventPublished' \in [OrderIds -> BOOLEAN]
  <2>1. CASE UNCHANGED eventPublished
    BY <1>1, <2>1 DEF OrderTypes
  <2>2. ASSUME NEW p \in OrderIds \cup Sweeps, NEW outcome \in Outcomes,
               MarkPublished(p, outcome)
        PROVE  eventPublished' \in [OrderIds -> BOOLEAN]
    BY <1>1, <2>2 DEF OrderTypes, MarkPublished
  <2>3. QED
    BY <2>1, <2>2, EngineLeaves
    DEF Next, vars, CommitOrder, CancelOrder, RequestCancel, SendCancel, Announce, Publish,
        StartSweep, Restart, Settle
<1>5. cancelling' \subseteq OrderIds
  BY <1>1, EngineLeaves
  DEF OrderTypes, Next, vars, engine, CommitOrder, CancelOrder, RequestCancel, SendCancel,
      Announce, Publish, MarkPublished, StartSweep, Restart, Settle
<1>6. QED
  BY <1>2, <1>3, <1>4, <1>5 DEF OrderTypes

\* Whoever else moves leaves the engine's memory and its history alone.
LEMMA EngineIsAlone ==
  ASSUME [Next]_vars
  PROVE  Engine \/ EngineRestart \/ UNCHANGED <<memory, history>>
  BY DEF Next, vars, engine, CommitOrder, CancelOrder, RequestCancel, SendCancel, Announce,
         Publish, MarkPublished, StartSweep, Restart, Settle

\* How the stream changes: it is read, written to by a publication or a cancel,
\* or left alone.
LEMMA StreamSteps ==
  ASSUME TypeOK, [Next]_vars
  PROVE  \/ UNCHANGED stream
         \/ stream # <<>> /\ stream' = Tail(stream)
         \/ \E o \in OrderIds : stream' = Append(stream, Cancel(o))
         \/ \E o \in OrderIds : o \in sent' /\ stream' = Append(stream, Created(o))
<1>1. ASSUME NEW p \in OrderIds \cup Sweeps, NEW outcome \in Outcomes, Publish(p, outcome)
      PROVE  \/ UNCHANGED stream
             \/ \E o \in OrderIds : o \in sent' /\ stream' = Append(stream, Created(o))
  <2>1. Head(job[p].todo) \in OrderIds
    BY <1>1, SeqParts DEF TypeOK, JobTypes, Publish
  <2>2. QED
    BY <1>1, <2>1 DEF Publish
<1>2. QED
  BY <1>1
  DEF Next, vars, engine, CommitOrder, CancelOrder, RequestCancel, SendCancel, Announce,
      MarkPublished, StartSweep, Engine, ReadOrder, Match, Remember, PublicationFails,
      SkipDuplicate, HandleCancel, EngineRestart, Restart, Settle

\* Every step keeps the types of the stream and of the engine's memory.
LEMMA EngineTypesKept ==
  ASSUME TypeOK, [Next]_vars
  PROVE  EngineTypes'
<1>1. EngineTypes
  BY DEF TypeOK
<1>2. stream' \in Seq(Messages)
  <2>1. stream \in Seq(Messages)
    BY <1>1 DEF EngineTypes
  <2>2. ASSUME NEW o \in OrderIds
        PROVE  /\ Append(stream, Created(o)) \in Seq(Messages)
               /\ Append(stream, Cancel(o)) \in Seq(Messages)
    BY <2>1, Sent
  <2>3. stream # <<>> => Tail(stream) \in Seq(Messages)
    BY <2>1, SeqParts
  <2>4. QED
    BY <2>1, <2>2, <2>3, StreamSteps
<1>3. sent' \subseteq OrderIds
  <2>1. ASSUME NEW p \in OrderIds \cup Sweeps, NEW outcome \in Outcomes, Publish(p, outcome)
        PROVE  sent' \subseteq OrderIds
    <3>1. Head(job[p].todo) \in OrderIds
      BY <2>1, SeqParts DEF TypeOK, JobTypes, Publish
    <3>2. QED
      BY <1>1, <2>1, <3>1 DEF Publish, EngineTypes
  <2>2. CASE UNCHANGED sent
    BY <1>1, <2>2 DEF EngineTypes
  <2>3. QED
    BY <2>1, <2>2, EngineLeaves
    DEF Next, vars, CommitOrder, CancelOrder, RequestCancel, SendCancel, Announce,
        MarkPublished, StartSweep, Restart, Settle
<1> DEFINE MemoryTypes ==
             /\ inHand \in Messages \cup {NoMessage} /\ publishing \in BOOLEAN
             /\ processed \subseteq OrderIds /\ resting \subseteq OrderIds
             /\ matches \in [OrderIds -> Nat] /\ slips \in [OrderIds -> Nat]
             /\ matched \subseteq OrderIds /\ cutAfter \subseteq OrderIds
             /\ dropped \subseteq OrderIds
<1>4. MemoryTypes
  BY <1>1 DEF EngineTypes
<1>5. ASSUME NEW answered \in BOOLEAN, ReadOrder(answered)
      PROVE  MemoryTypes'
  <2>1. Head(stream) \in Messages
    BY <1>1, <1>5, SeqParts DEF EngineTypes, ReadOrder
  <2>2. dropped' \subseteq OrderIds
    BY <1>4, <1>5 DEF ReadOrder, LostWith
  <2>3. QED
    BY <1>4, <1>5, <2>1, <2>2 DEF ReadOrder
<1>6. ASSUME NEW o \in OrderIds, Match(o)
      PROVE  MemoryTypes'
  <2>1. matches' \in [OrderIds -> Nat] /\ matched' \subseteq OrderIds
    BY <1>4, <1>6 DEF Match
  <2>2. resting' \subseteq OrderIds
    BY <1>4, <1>6 DEF Match
  <2>3. QED
    BY <1>4, <1>6, <2>1, <2>2 DEF Match
<1>7. ASSUME NEW o \in OrderIds, PublicationFails(o)
      PROVE  MemoryTypes'
  <2>1. slips' \in [OrderIds -> Nat]
    BY <1>4, <1>7 DEF PublicationFails
  <2>2. QED
    BY <1>4, <1>7, <2>1 DEF PublicationFails, ReadOn
<1>8. ASSUME NEW o \in OrderIds, Remember(o) \/ SkipDuplicate(o) \/ HandleCancel(o)
      PROVE  MemoryTypes'
  <2>1. resting' \subseteq OrderIds /\ processed' \subseteq OrderIds /\ cutAfter' \subseteq OrderIds
    BY <1>4, <1>8 DEF Remember, SkipDuplicate, HandleCancel, history
  <2>2. QED
    BY <1>4, <1>8, <2>1 DEF Remember, SkipDuplicate, HandleCancel, history, ReadOn
<1>9. ASSUME EngineRestart
      PROVE  MemoryTypes'
  <2>1. dropped' \subseteq OrderIds /\ resting' \subseteq OrderIds
    BY <1>4, <1>9 DEF EngineRestart, LostWith
  <2>2. /\ inHand' = NoMessage /\ publishing' = FALSE /\ processed' = {} /\ cutAfter' = {}
        /\ matched' = matched
        /\ matches' \in [OrderIds -> Nat] /\ slips' \in [OrderIds -> Nat]
    BY <1>4, <1>9 DEF EngineRestart, ReadOn
  <2>3. QED
    BY <1>4, <2>1, <2>2 DEF NoMessage
<1>10. ASSUME UNCHANGED <<memory, history>>
       PROVE  MemoryTypes'
  BY <1>4, <1>10 DEF memory, history, Messages, NoMessage
<1>11. MemoryTypes'
  <2> HIDE DEF MemoryTypes
  <2>1. QED
    BY <1>5, <1>6, <1>7, <1>8, <1>9, <1>10, EngineIsAlone DEF Engine
<1>12. QED
  BY <1>2, <1>3, <1>11 DEF EngineTypes

-----------------------------------------------------------------------------
(* Announcing. *)

\* A job stays sound while more orders are committed and announced.
LEMMA SoundGrows ==
  ASSUME NEW C, NEW S, NEW D, NEW T, C \subseteq D, S \subseteq T, NEW j, Sound(j, C, S)
  PROVE  Sound(j, D, T)
<1>1. j.todo \in Seq(C) => j.todo \in Seq(D)
  OBVIOUS
<1>2. QED
  BY <1>1 DEF Sound

\* Nothing is uncommitted or taken back from the stream.
LEMMA Growing ==
  ASSUME TypeOK, [Next]_vars
  PROVE  Committed \subseteq Committed' /\ sent \subseteq sent'
<1>1. Committed \subseteq Committed'
  <2>1. CASE UNCHANGED status
    BY <2>1 DEF Committed
  <2>2. ASSUME NEW o \in OrderIds, NEW s \in Open \cup {"CLOSED"},
               status' = [status EXCEPT ![o] = s]
        PROVE  Committed \subseteq Committed'
    BY <2>2 DEF Committed, TypeOK, OrderTypes, Open
  <2>3. ASSUME NEW o \in OrderIds, NEW answered \in BOOLEAN, CommitOrder(o, answered)
        PROVE  Committed \subseteq Committed'
    BY <2>2, <2>3 DEF CommitOrder, Open
  <2>4. ASSUME NEW o \in OrderIds, Settle(o)
        PROVE  Committed \subseteq Committed'
    BY <2>2, <2>4 DEF Settle, Open
  <2>5. QED
    BY <2>1, <2>3, <2>4, EngineLeaves
    DEF Next, vars, CancelOrder, RequestCancel, SendCancel, Announce, Publish, MarkPublished,
        StartSweep, Restart
<1>2. sent \subseteq sent'
  BY EngineLeaves
  DEF Next, vars, CommitOrder, CancelOrder, RequestCancel, SendCancel, Announce, Publish,
      MarkPublished, StartSweep, Restart, Settle
<1>3. QED
  BY <1>1, <1>2

\* A job that is replaced by a sound one leaves all of them sound.
LEMMA SoundReplaced ==
  ASSUME TypeOK, JobsSound, Committed \subseteq Committed', sent \subseteq sent',
         NEW p \in OrderIds \cup Sweeps, NEW j, Sound(j, Committed', sent'),
         job' = [job EXCEPT ![p] = j]
  PROVE  JobsSound'
<1>1. \A q \in OrderIds \cup Sweeps : Sound(job[q], Committed', sent')
  BY SoundGrows DEF JobsSound
<1>2. \A q \in OrderIds \cup Sweeps : job'[q] = IF q = p THEN j ELSE job[q]
  BY DEF TypeOK, JobTypes
<1>3. \A q \in OrderIds \cup Sweeps : Sound(job'[q], Committed', sent')
  BY <1>1, <1>2
<1>4. QED
  BY <1>3 DEF JobsSound

\* Work that has not been started is sound when its orders are committed.
LEMMA WorkIsSound ==
  ASSUME NEW C, NEW S, NEW todo \in Seq(C)
  PROVE  Sound(Work(todo), C, S)
  BY DEF Work, Sound

\* Every step keeps the jobs sound.
LEMMA JobsSoundKept ==
  ASSUME IInv, [Next]_vars
  PROVE  JobsSound'
<1> USE DEF IInv
<1>1. Committed \subseteq Committed' /\ sent \subseteq sent'
  BY Growing
<1>2. \A q \in OrderIds \cup Sweeps : job[q] \in Jobs /\ Sound(job[q], Committed', sent')
  BY <1>1, SoundGrows DEF JobsSound, TypeOK, JobTypes, Jobs
<1>3. ASSUME NEW o \in OrderIds, NEW answered \in BOOLEAN, CommitOrder(o, answered)
      PROVE  JobsSound'
  <2>1. o \in Committed'
    BY <1>3 DEF CommitOrder, Committed, TypeOK, OrderTypes
  <2>2. <<o>> \in Seq(Committed')
    BY <2>1
  <2>3. Sound(Work(<<o>>), Committed', sent')
    BY <2>2, WorkIsSound
  <2>4. CASE answered
    <3>1. job' = [job EXCEPT ![o] = Work(<<o>>)]
      BY <1>3, <2>4 DEF CommitOrder
    <3>2. QED
      BY <1>1, <2>3, <3>1, SoundReplaced
  <2>5. CASE ~answered
    <3>1. job' = job
      BY <1>3, <2>5 DEF CommitOrder
    <3>2. QED
      BY <1>2, <3>1 DEF JobsSound
  <2>6. QED
    BY <2>4, <2>5
<1>4. ASSUME NEW p \in OrderIds \cup Sweeps, NEW outcome \in Outcomes, Publish(p, outcome)
      PROVE  JobsSound'
  <2> DEFINE j == job[p]
  <2>1. /\ j \in Jobs /\ j.todo # <<>> /\ j.left > 0 /\ j.at = "publish"
        /\ j.todo \in Seq(Committed')
    BY <1>2, <1>4 DEF Publish, TypeOK, JobTypes, Sound
  <2>2. CASE outcome = "ok"
    <3>1. job' = [job EXCEPT ![p] = Announced(j)]
      BY <1>4, <2>2 DEF Publish
    <3>2. Head(j.todo) \in sent'
      BY <1>4, <2>2 DEF Publish
    <3>3. Sound(Announced(j), Committed', sent')
      BY <2>1, <3>2, PublishKeepsJob DEF Sound
    <3>4. QED
      BY <1>1, <3>1, <3>3, SoundReplaced
  <2>3. CASE outcome # "ok" /\ j.left > 1
    <3>1. job' = [job EXCEPT ![p] = [j EXCEPT !.left = @ - 1]]
      BY <1>4, <2>3 DEF Publish
    <3>2. Sound([j EXCEPT !.left = @ - 1], Committed', sent')
      BY <2>1, <2>3, PublishKeepsJob DEF Sound
    <3>3. QED
      BY <1>1, <3>1, <3>2, SoundReplaced
  <2>4. CASE outcome # "ok" /\ ~(j.left > 1)
    <3>1. job' = [job EXCEPT ![p] = Work(Tail(j.todo))]
      BY <1>4, <2>4 DEF Publish, GivenUp
    <3>2. Sound(Work(Tail(j.todo)), Committed', sent')
      BY <2>1, SeqParts, WorkIsSound
    <3>3. QED
      BY <1>1, <3>1, <3>2, SoundReplaced
  <2>5. QED
    BY <2>2, <2>3, <2>4
<1>5. ASSUME NEW p \in OrderIds \cup Sweeps, NEW outcome \in Outcomes,
             MarkPublished(p, outcome)
      PROVE  JobsSound'
  <2> DEFINE next == IF outcome = "ok" THEN Work(Tail(job[p].todo)) ELSE Idle
  <2>1. job[p].todo \in Seq(Committed') /\ job[p].todo # <<>>
    BY <1>2, <1>5 DEF Sound, MarkPublished
  <2>2. Tail(job[p].todo) \in Seq(Committed') /\ <<>> \in Seq(Committed')
    BY <2>1, SeqParts
  <2>3. Sound(Work(Tail(job[p].todo)), Committed', sent') /\ Sound(Work(<<>>), Committed', sent')
    BY <2>2, WorkIsSound
  <2>4. Sound(next, Committed', sent')
    BY <2>3 DEF Idle
  <2>5. job' = [job EXCEPT ![p] = next]
    BY <1>5 DEF MarkPublished
  <2>6. QED
    BY <1>1, <2>4, <2>5, SoundReplaced
<1>6. ASSUME NEW s \in Sweeps, StartSweep(s)
      PROVE  JobsSound'
  <2>1. PICK batch \in SUBSET Stale :
          \E todo \in SetToSeqs(batch) : job' = [job EXCEPT ![s] = Work(todo)]
    BY <1>6 DEF StartSweep
  <2>2. PICK todo \in SetToSeqs(batch) : job' = [job EXCEPT ![s] = Work(todo)]
    BY <2>1
  <2>3. batch \in SUBSET OrderIds /\ batch \subseteq Committed'
    BY <1>1 DEF Stale, Committed
  <2>4. todo \in Seq(Committed')
    BY <2>3, BatchIsSeq
  <2>5. Sound(Work(todo), Committed', sent')
    BY <2>4, WorkIsSound
  <2>6. QED
    BY <1>1, <2>2, <2>5, SoundReplaced
<1>7. ASSUME Restart
      PROVE  JobsSound'
  <2>1. <<>> \in Seq(Committed')
    OBVIOUS
  <2>2. Sound(Idle, Committed', sent')
    BY <2>1, WorkIsSound DEF Idle
  <2>3. \A q \in OrderIds \cup Sweeps : job'[q] = Idle
    BY <1>7 DEF Restart, TypeOK, JobTypes
  <2>4. QED
    BY <2>2, <2>3 DEF JobsSound
<1>8. ASSUME UNCHANGED job
      PROVE  JobsSound'
  BY <1>2, <1>8 DEF JobsSound
<1>9. QED
  BY <1>3, <1>4, <1>5, <1>6, <1>7, <1>8, EngineLeaves
  DEF Next, vars, CancelOrder, Announce, RequestCancel, SendCancel, Settle

\* How a step changes what is announced and marked: it publishes the first
\* order of a job, marks the first order of a job, or does neither.
LEMMA Announcing ==
  ASSUME IInv, [Next]_vars
  PROVE  \/ sent' = sent /\ eventPublished' = eventPublished
         \/ /\ \E o \in Committed : sent' = sent \cup {o}
            /\ eventPublished' = eventPublished
         \/ /\ \E o \in sent : eventPublished' = [eventPublished EXCEPT ![o] = TRUE]
            /\ sent' = sent
<1>1. ASSUME NEW p \in OrderIds \cup Sweeps, NEW outcome \in Outcomes, Publish(p, outcome)
      PROVE  /\ sent' = sent \/ \E o \in Committed : sent' = sent \cup {o}
             /\ eventPublished' = eventPublished
  <2>1. Head(job[p].todo) \in Committed
    BY <1>1, SeqParts DEF IInv, JobsSound, Sound, Publish
  <2>2. QED
    BY <1>1, <2>1 DEF Publish
<1>2. ASSUME NEW p \in OrderIds \cup Sweeps, NEW outcome \in Outcomes,
             MarkPublished(p, outcome)
      PROVE  /\ \/ eventPublished' = eventPublished
                \/ \E o \in sent : eventPublished' = [eventPublished EXCEPT ![o] = TRUE]
             /\ sent' = sent
  <2>1. Head(job[p].todo) \in sent
    BY <1>2 DEF IInv, JobsSound, Sound, MarkPublished
  <2>2. QED
    BY <1>2, <2>1 DEF MarkPublished
<1>3. QED
  BY <1>1, <1>2, EngineLeaves
  DEF Next, vars, CommitOrder, CancelOrder, RequestCancel, SendCancel, Announce, StartSweep,
      Restart, Settle

\* Every step keeps marked orders announced and announced ones committed.
LEMMA MarksSoundKept ==
  ASSUME IInv, [Next]_vars
  PROVE  MarksSound'
<1>1. /\ sent \subseteq Committed /\ \A o \in OrderIds : eventPublished[o] => o \in sent
      /\ Committed \subseteq Committed' /\ sent \subseteq sent'
      /\ eventPublished \in [OrderIds -> BOOLEAN] /\ sent \subseteq OrderIds
  BY Growing DEF IInv, MarksSound, TypeOK, OrderTypes, EngineTypes
<1>2. sent' \subseteq Committed'
  BY <1>1, Announcing
<1>3. ASSUME NEW o \in OrderIds, eventPublished'[o]
      PROVE  o \in sent'
  <2>1. CASE eventPublished' = eventPublished
    BY <1>1, <1>3, <2>1
  <2>2. CASE \E x \in sent : eventPublished' = [eventPublished EXCEPT ![x] = TRUE]
    BY <1>1, <1>3, <2>2
  <2>3. QED
    BY <2>1, <2>2, Announcing
<1>4. QED
  BY <1>2, <1>3 DEF MarksSound

-----------------------------------------------------------------------------
(* Matching. *)

\* Every step keeps the account of matches and of what is cancelled: what is
\* matched is not remembered, so that the match is owed to what let it be
\* forgotten, and a cancelled order, which is remembered, is not matched.
LEMMA EngineSoundKept ==
  ASSUME IInv, [Next]_vars
  PROVE  Owed' /\ RematchOwed' /\ CancelSticks'
<1> USE DEF IInv
<1>1. /\ matches \in [OrderIds -> Nat] /\ slips \in [OrderIds -> Nat]
      /\ publishing \in BOOLEAN
  BY DEF TypeOK, EngineTypes
<1>2. ASSUME NEW answered \in BOOLEAN, ReadOrder(answered)
      PROVE  Owed' /\ RematchOwed' /\ CancelSticks'
  <2>1. ~publishing
    BY <1>2, Sent DEF ReadOrder, Owed
  <2>2. /\ ~publishing' /\ UNCHANGED <<processed, resting, matches, slips, cutAfter>>
    BY <1>1, <1>2, <2>1 DEF ReadOrder
  <2>3. QED
    BY <2>1, <2>2 DEF Owed, RematchOwed, CancelSticks
<1>3. ASSUME NEW o \in OrderIds, Match(o)
      PROVE  Owed' /\ RematchOwed' /\ CancelSticks'
  <2>1. /\ inHand = Created(o) /\ o \notin processed /\ ~publishing
        /\ inHand' = inHand /\ publishing' /\ processed' = processed /\ resting' \subseteq resting
        /\ UNCHANGED <<slips, cutAfter>>
    BY <1>3 DEF Match, IsDuplicate
  <2>2. /\ matches'[o] = matches[o] + 1
        /\ \A x \in OrderIds \ {o} : matches'[x] = matches[x]
    BY <1>1, <1>3 DEF Match
  <2>3. matches[o] <= slips[o]
    BY <2>1 DEF Owed
  <2>4. RematchOwed'
    BY <1>1, <2>1, <2>2, <2>3 DEF RematchOwed
  <2>5. Owed'
    BY <2>1, <2>2 DEF Owed
  <2>6. QED
    BY <2>1, <2>4, <2>5 DEF CancelSticks
<1>4. ASSUME NEW o \in OrderIds, Remember(o)
      PROVE  Owed' /\ RematchOwed' /\ CancelSticks'
  <2>1. /\ inHand = Created(o) /\ publishing /\ ~publishing'
        /\ processed' = processed \cup {o} /\ resting' \subseteq resting \cup {o}
        /\ UNCHANGED <<matches, slips, cutAfter>>
    BY <1>4 DEF Remember, ReadOn, history
  <2>2. \A x \in OrderIds : inHand = Created(x) => x = o
    BY <2>1 DEF Created
  <2>3. o \notin processed
    BY <2>1, <2>2 DEF Owed
  <2>4. Owed'
    BY <2>1, <2>2 DEF Owed
  <2>5. CancelSticks'
    BY <2>1, <2>3 DEF Owed, CancelSticks
  <2>6. QED
    BY <2>1, <2>4, <2>5 DEF RematchOwed
<1>5. ASSUME NEW o \in OrderIds, PublicationFails(o)
      PROVE  Owed' /\ RematchOwed' /\ CancelSticks'
  <2>1. /\ inHand = Created(o) /\ publishing /\ ~publishing'
        /\ UNCHANGED <<processed, resting, matches, cutAfter>>
    BY <1>5 DEF PublicationFails, ReadOn
  <2>2. /\ slips'[o] = slips[o] + 1
        /\ \A x \in OrderIds \ {o} : slips'[x] = slips[x]
    BY <1>1, <1>5 DEF PublicationFails
  <2>3. \A x \in OrderIds : inHand = Created(x) => x = o
    BY <2>1 DEF Created
  <2>4. matches[o] <= slips'[o]
    BY <1>1, <2>2 DEF RematchOwed
  <2>5. Owed'
    BY <2>1, <2>2, <2>3, <2>4 DEF Owed
  <2>6. RematchOwed'
    BY <1>1, <2>1, <2>2 DEF RematchOwed
  <2>7. QED
    BY <2>1, <2>5, <2>6 DEF CancelSticks
<1>6. ASSUME NEW o \in OrderIds, SkipDuplicate(o) \/ HandleCancel(o)
      PROVE  Owed' /\ RematchOwed' /\ CancelSticks'
  <2>1. ~publishing
    BY <1>6, Sent DEF SkipDuplicate, HandleCancel, Owed
  <2>2. /\ ~publishing' /\ UNCHANGED <<processed, matches, slips>>
        /\ \/ UNCHANGED <<resting, cutAfter>>
           \/ /\ resting' = resting \ {o} /\ cutAfter' \subseteq cutAfter \cup {o}
              /\ cutAfter' \subseteq cutAfter \cup processed
    BY <1>6 DEF SkipDuplicate, HandleCancel, ReadOn, history
  <2>3. QED
    BY <2>1, <2>2 DEF Owed, RematchOwed, CancelSticks
<1>7. ASSUME EngineRestart
      PROVE  Owed' /\ RematchOwed' /\ CancelSticks'
  <2>1. /\ ~publishing' /\ processed' = {} /\ cutAfter' = {}
        /\ \A o \in OrderIds : matches'[o] = 0 /\ slips'[o] = 0
    BY <1>7 DEF EngineRestart, ReadOn
  <2>2. QED
    BY <2>1 DEF Owed, RematchOwed, CancelSticks
<1>8. CASE UNCHANGED <<memory, history>>
  BY <1>8 DEF memory, history, Owed, RematchOwed, CancelSticks
<1>9. QED
  BY <1>2, <1>3, <1>4, <1>5, <1>6, <1>7, <1>8, EngineIsAlone DEF Engine

\* Every step keeps the stream and the engine to announced orders.
LEMMA StreamSoundKept ==
  ASSUME IInv, [Next]_vars
  PROVE  StreamSound'
<1>1. sent \subseteq sent' /\ sent \subseteq OrderIds
  BY Growing DEF IInv, TypeOK, EngineTypes
<1>2. Sayable(sent) \subseteq Sayable(sent')
  BY <1>1 DEF Sayable
<1>3. /\ stream \in Seq(Sayable(sent')) /\ stream \in Seq(Sayable(sent))
      /\ inHand \in Sayable(sent) \cup {NoMessage} /\ inHand \in Sayable(sent') \cup {NoMessage}
      /\ matched \subseteq sent'
  BY <1>1, <1>2 DEF IInv, StreamSound
<1>4. stream' \in Seq(Sayable(sent'))
  <2>1. \A o \in OrderIds : Cancel(o) \in Sayable(sent')
    BY Sent DEF Cancel, Sayable
  <2>2. \A o \in OrderIds : o \in sent' => Created(o) \in Sayable(sent')
    BY Sent DEF Sayable
  <2>3. stream # <<>> => Tail(stream) \in Seq(Sayable(sent'))
    BY <1>3, SeqParts
  <2>4. ASSUME NEW m \in Sayable(sent')
        PROVE  Append(stream, m) \in Seq(Sayable(sent'))
    BY <1>3
  <2>5. QED
    BY <1>3, <2>1, <2>2, <2>3, <2>4, StreamSteps DEF IInv
<1>5. ASSUME NEW answered \in BOOLEAN, ReadOrder(answered)
      PROVE  StreamSound'
  <2>1. Head(stream) \in Sayable(sent')
    BY <1>3, <1>5, SeqParts DEF ReadOrder
  <2>2. QED
    BY <1>3, <1>4, <1>5, <2>1 DEF ReadOrder, StreamSound
<1>6. ASSUME NEW o \in OrderIds, Match(o)
      PROVE  StreamSound'
  <2>1. o \in sent'
    BY <1>3, <1>6, Sent DEF Match, Sayable
  <2>2. inHand' = inHand /\ matched' = matched \cup {o}
    BY <1>6 DEF Match
  <2>3. QED
    BY <1>3, <1>4, <2>1, <2>2 DEF StreamSound
<1>7. ASSUME inHand' = inHand \/ inHand' = NoMessage, UNCHANGED matched
      PROVE  StreamSound'
  BY <1>3, <1>4, <1>7 DEF StreamSound
<1>8. QED
  BY <1>5, <1>6, <1>7, EngineIsAlone
  DEF Engine, Remember, PublicationFails, SkipDuplicate, HandleCancel, EngineRestart, ReadOn,
      memory, history

-----------------------------------------------------------------------------
\* The invariant holds in every reachable state.
LEMMA Inductive == Spec => []IInv
<1>1. IInv /\ [Next]_vars => IInv'
  <2> SUFFICES ASSUME IInv, [Next]_vars PROVE IInv'
    OBVIOUS
  <2>1. TypeOK'
    BY JobTypesKept, OrderTypesKept, EngineTypesKept DEF IInv, TypeOK
  <2>2. QED
    BY <2>1, JobsSoundKept, MarksSoundKept, StreamSoundKept, EngineSoundKept DEF IInv
<1>2. QED
  BY <1>1, InitIInv, PTL DEF Spec

\* The rows, the messages and the attempts left have their types.
THEOREM TypeCorrect == Spec => []TypeOK
<1>1. IInv => TypeOK
  BY DEF IInv
<1>2. QED
  BY <1>1, Inductive, PTL

\* However often the handler and the sweeps publish an order, one engine matches
\* it once, and once more for each match of it whose publications failed.
THEOREM RematchesAreOwed == Spec => []RematchOwed
<1>1. IInv => RematchOwed
  BY DEF IInv
<1>2. QED
  BY <1>1, Inductive, PTL

\* Until the engine is started again no republication brings an order back
\* that it remembered when it was cancelled, whatever fails.
THEOREM CancelledStaysOut == Spec => []CancelSticks
<1>1. IInv => CancelSticks
  BY DEF IInv
<1>2. QED
  BY <1>1, Inductive, PTL

\* The outbox keeps the promise of Delivery: it announces committed orders
\* only, and marks only those it has announced.
THEOREM AnnouncesThenMarks == Spec => ImplementsDelivery
<1> DEFINE marked == {o \in OrderIds : eventPublished[o]}
<1>1. Init => Announcements!Init
  BY DEF Init, Announcements!Init, Committed
<1>2. IInv /\ [Next]_vars => [Announcements!Next]_<<Committed, sent, marked>>
  <2> SUFFICES ASSUME IInv, [Next]_vars,
                      ~UNCHANGED <<Committed, sent, marked>>
               PROVE  Announcements!Next
    OBVIOUS
  <2>1. eventPublished \in [OrderIds -> BOOLEAN] /\ sent \subseteq OrderIds
        /\ sent \subseteq Committed /\ status \in [OrderIds -> Open \cup {"NONE", "CLOSED"}]
    BY DEF IInv, MarksSound, TypeOK, OrderTypes, EngineTypes
  <2>2. ASSUME NEW o \in OrderIds, NEW answered \in BOOLEAN, CommitOrder(o, answered)
        PROVE  Announcements!Next
    <3>1. Committed' = Committed \cup {o}
      BY <2>1, <2>2 DEF CommitOrder, Committed, Open
    <3>2. UNCHANGED <<sent, marked>>
      BY <2>2 DEF CommitOrder
    <3>3. QED
      BY <3>1, <3>2 DEF Announcements!Next, Announcements!Commit
  <2>3. CASE status' = status
    <3>1. Committed' = Committed
      BY <2>3 DEF Committed
    <3>2. ASSUME NEW o \in Committed, sent' = sent \cup {o}, eventPublished' = eventPublished
          PROVE  Announcements!Next
      BY <3>1, <3>2 DEF Announcements!Next, Announcements!Send, Committed
    <3>3. ASSUME NEW o \in sent, eventPublished' = [eventPublished EXCEPT ![o] = TRUE],
                 sent' = sent
          PROVE  Announcements!Next
      <4>1. marked' = marked \cup {o}
        BY <2>1, <3>3
      <4>2. QED
        BY <2>1, <3>1, <3>3, <4>1 DEF Announcements!Next, Announcements!Mark
    <3>4. QED
      BY <3>1, <3>2, <3>3, Announcing
  <2>4. ASSUME NEW o \in OrderIds, Settle(o)
        PROVE  FALSE
    <3>1. o \in Committed /\ UNCHANGED <<sent, marked>>
      BY <2>4 DEF Settle, IInv, StreamSound, MarksSound
    <3>2. Committed' = Committed
      BY <2>1, <2>4, <3>1 DEF Settle, Committed
    <3>3. QED
      BY <3>1, <3>2
  <2>5. QED
    BY <2>2, <2>3, <2>4, EngineLeaves
    DEF Next, vars, CancelOrder, RequestCancel, SendCancel, Announce, Publish, MarkPublished,
        StartSweep, Restart
<1>3. QED
  BY <1>1, <1>2, Inductive, PTL DEF Spec, ImplementsDelivery, Announcements!Spec
=============================================================================

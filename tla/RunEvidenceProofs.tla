------------------------- MODULE RunEvidenceProofs -------------------------
(***************************************************************************)
(* RunEvidence for every schedule, mapping, capacity and interleaving, and *)
(* for every record graph that is submitted: no row is left out silently,  *)
(* the join passes for a sound run and for no other, and an accepted       *)
(* manifest tells the truth about its run.                                 *)
(***************************************************************************)
EXTENDS RunEvidence, FiniteSetTheorems, WellFoundedInduction, TLAPS

-----------------------------------------------------------------------------
(* The inductive invariant                                                 *)

Offered == Len(Schedule)
InAttempt == {"invoked", "accepted", "full"}

ProducerRows ==
    [seq : Nat, index : Nat, sched : Nat, begin : Nat, lookup : Nat, invoke : Nat,
     lin : Nat \cup {None}, done : {None}, outcome : {None}, ordinal : {None}]
ConsumerRows ==
    [invoke : Nat, lin : Nat \cup {None}, event : Nat \cup {None}, index : Nat \cup {None}]
ProducerWords ==
    [seq : Nat, index : Nat, sched : Nat, begin : Nat, lookup : Nat, invoke : Nat,
     lin : Nat, done : Nat, ordinal : Nat, flags : {AcceptedFlags, FullFlags}]
ConsumerWords ==
    [ordinal : Nat, index : Nat, invoke : Nat, lin : Nat, done : Nat, action : Nat]
Streams(Words) ==
    [rows : Seq(Words), capacity : Nat,
     state : {"writing", "sealed_complete", "sealed_incomplete"},
     overflowed : BOOLEAN, prepared : BOOLEAN]

Shape ==
    /\ now \in 0..MaxTime
    /\ faults \in Nat
    /\ queue \in Seq([event : Nat, index : Nat]) /\ Len(queue) <= QueueCapacity
    /\ producer \in [pc : InAttempt \cup {"unprepared", "idle", "completed", "failed"},
                     next : Nat, accepted : Nat, row : ProducerRows \cup {None}]
    /\ consumer \in [pc : {"unprepared", "idle", "invoked", "observed", "completed", "failed"},
                     consumed : Seq(Nat), row : ConsumerRows \cup {None}]
    /\ pstream \in Streams(ProducerWords)
    /\ cstream \in Streams(ConsumerWords)

\* A stream, the steps its thread took, and whether the thread has ended: one
\* row to a step until a row did not fit, which ended the thread as failed.
Kept(s, steps, thread) ==
    /\ s.prepared <=> thread.pc # "unprepared"
    /\ Len(s.rows) <= s.capacity
    /\ s.state # "writing" => Ended(thread)
    /\ ~s.overflowed => Len(s.rows) = steps
    /\ s.overflowed => /\ Len(s.rows) < steps /\ thread.pc = "failed"
                       /\ s.state = "sealed_incomplete"

\* The producer in an attempt holds a row of the event that is due.
AttemptInHand ==
    /\ producer.next <= Offered /\ producer.accepted <= producer.next
    /\ producer.pc = "completed" => producer.next = Offered
    /\ producer.pc \in InAttempt =>
         /\ producer.next < Offered
         /\ producer.row \in ProducerRows
         /\ producer.row.seq = producer.next
         /\ producer.row.index = Mapping[producer.next + 1]
         /\ producer.row.sched <= producer.row.begin
         /\ producer.row.begin <= producer.row.lookup
         /\ producer.row.lookup <= producer.row.invoke
         /\ producer.row.invoke <= now
    /\ producer.pc = "accepted" =>
         producer.row.lin \in Nat /\ producer.row.lin \in producer.row.invoke..now

\* A word of the producer stream at place n.
ProducerWordAt(w, n) ==
    /\ w.seq = n - 1 /\ w.index = Mapping[n]
    /\ w.sched <= w.begin /\ w.begin <= w.lookup /\ w.lookup <= w.invoke
    /\ w.invoke <= w.done
    /\ w.flags = AcceptedFlags => w.invoke <= w.lin /\ w.lin <= w.done
    /\ w.flags = FullFlags => w.lin = 0 /\ w.ordinal = 0

AcceptedPlaces(words, n) == {k \in 1..n : words[k].flags = AcceptedFlags}

ProducerWordsHold ==
    /\ \A n \in 1..Len(pstream.rows) :
         /\ n <= Offered
         /\ ProducerWordAt(pstream.rows[n], n)
         /\ pstream.rows[n].flags = AcceptedFlags =>
              pstream.rows[n].ordinal = Cardinality(AcceptedPlaces(pstream.rows, n - 1))
    /\ ~pstream.overflowed =>
         producer.accepted = Cardinality(AcceptedPlaces(pstream.rows, Len(pstream.rows)))

\* Whatever the queue did, what it holds and gives are events of the schedule.
Genuine(event, index) == event < Offered /\ index = Mapping[event + 1]

ConsumerInHand ==
    /\ \A j \in 1..Len(queue) : Genuine(queue[j].event, queue[j].index)
    /\ \A k \in 1..Len(consumer.consumed) : consumer.consumed[k] < Offered
    /\ consumer.pc \in {"invoked", "observed"} =>
         consumer.row \in ConsumerRows /\ consumer.row.invoke <= now
    /\ consumer.pc = "observed" =>
         /\ consumer.row.event \in Nat /\ consumer.row.index \in Nat
         /\ Genuine(consumer.row.event, consumer.row.index)
         /\ consumer.row.lin \in Nat /\ consumer.row.lin \in consumer.row.invoke..now

ConsumerWordsHold ==
    \A k \in 1..Len(cstream.rows) :
       /\ k <= Len(consumer.consumed)
       /\ cstream.rows[k].ordinal = k - 1
       /\ cstream.rows[k].index = Mapping[consumer.consumed[k] + 1]
       /\ cstream.rows[k].invoke <= cstream.rows[k].lin
       /\ cstream.rows[k].lin <= cstream.rows[k].done
       /\ cstream.rows[k].done <= cstream.rows[k].action

\* The o-th accepted event, counted from zero: its row, or the attempt that has
\* published it, no later than t.
HandedOver(o, event, index, t) ==
    \/ \E n \in 1..Len(pstream.rows) :
         LET w == pstream.rows[n] IN
         w.flags = AcceptedFlags /\ w.ordinal = o /\ w.seq = event /\ w.index = index /\ w.lin <= t
    \/ /\ producer.pc = "accepted" /\ producer.accepted = o
       /\ producer.row.seq = event /\ producer.row.index = index /\ producer.row.lin <= t

Published_(p) == p.accepted + (IF p.pc = "accepted" THEN 1 ELSE 0)
Observed(c) == Len(c.consumed) + (IF c.pc = "observed" THEN 1 ELSE 0)

\* Over a queue without a fault, while neither thread has failed, what was
\* observed and what is in the queue are the accepted events in their order.
InOrderOfAcceptance ==
    (faults = 0 /\ producer.pc # "failed" /\ consumer.pc # "failed") =>
      /\ Observed(consumer) + Len(queue) = Published_(producer)
      /\ \A j \in 1..Len(queue) :
           HandedOver(Observed(consumer) + j - 1, queue[j].event, queue[j].index, now)
      /\ consumer.pc = "observed" =>
           HandedOver(Len(consumer.consumed), consumer.row.event, consumer.row.index,
                      consumer.row.lin)
      /\ \A k \in 1..Len(cstream.rows) :
           HandedOver(k - 1, consumer.consumed[k], cstream.rows[k].index, cstream.rows[k].lin)

DrainIsEmpty ==
    consumer.pc = "completed" => producer.pc = "completed" /\ queue = <<>>

\* What is published stays what the sealed streams hold.
ObjectHolds(object) ==
    /\ object.outcome \in Outcomes
    /\ object.object = "producer_raw" =>
         /\ object.bytes = Bytes(pstream)
         /\ object.outcome = "sealed" => pstream.state = "sealed_complete"
    /\ object.object = "consumer_raw" =>
         /\ object.bytes = Bytes(cstream)
         /\ object.outcome = "sealed" => cstream.state = "sealed_complete"
    /\ object.object = "producer_envelope" =>
         object.bytes = Envelope("producer", "producer_raw", pstream)
    /\ object.object = "consumer_envelope" =>
         object.bytes = Envelope("consumer", "consumer_raw", cstream)

ObjectNames ==
    {"integrity", "producer_raw", "producer_envelope", "consumer_raw", "consumer_envelope"}
Objects ==
    [object : ObjectNames, outcome : Outcomes,
     bytes : {Integrity, Bytes(pstream), Bytes(cstream),
              Envelope("producer", "producer_raw", pstream),
              Envelope("consumer", "consumer_raw", cstream)}]

PublicationHolds ==
    /\ final \in {None, "error", "sealed_complete", "incomplete"}
    /\ objects # <<>> \/ final # None => Ended(producer) /\ Ended(consumer)
    /\ objects \in Seq(Objects)
    /\ \A n \in DOMAIN objects : ObjectHolds(objects[n])
    /\ final = "sealed_complete" => finalization_complete
    /\ graph # None => final # None /\ OfThisRun(graph)

EvidenceInv ==
    /\ Shape
    /\ Kept(pstream, producer.next, producer)
    /\ Kept(cstream, Len(consumer.consumed), consumer)
    /\ AttemptInHand /\ ProducerWordsHold
    /\ ConsumerInHand /\ ConsumerWordsHold
    /\ InOrderOfAcceptance /\ DrainIsEmpty
    /\ PublicationHolds

-----------------------------------------------------------------------------
(* Counting and selecting rows                                             *)

\* A set of natural numbers that is not empty has a least one.
LEMMA LeastNatural ==
    ASSUME NEW T, T \subseteq Nat, T # {}
    PROVE  \E x \in T : \A y \in T : x <= y
<1>1. \E x \in T : \A y \in T : ~ (<<y, x>> \in OpToRel(<, Nat))
  BY NatLessThanWellFounded, WFMin
<1>2. \A x \in T, y \in T : <<y, x>> \in OpToRel(<, Nat) <=> y < x
  BY DEF OpToRel
<1>3. \A x, y \in T : ~(y < x) => x <= y
  OBVIOUS
<1>. QED  BY <1>1, <1>2, <1>3

\* The members of S among the first n places.
Below(S, n) == {k \in 1..n : k \in S}

LEMMA BelowCounts ==
    ASSUME NEW S, NEW n \in Nat
    PROVE  /\ IsFiniteSet(Below(S, n)) /\ Cardinality(Below(S, n)) \in Nat
           /\ Cardinality(Below(S, 0)) = 0
           /\ Cardinality(Below(S, n + 1)) =
                Cardinality(Below(S, n)) + (IF n + 1 \in S THEN 1 ELSE 0)
<1>1. IsFiniteSet(1..n)
  BY FS_Interval
<1>2. Below(S, n) \subseteq 1..n
  BY DEF Below
<1>3. IsFiniteSet(Below(S, n)) /\ Cardinality(Below(S, n)) \in Nat
  BY <1>1, <1>2, FS_Subset, FS_CardinalityType
<1>4. Cardinality(Below(S, 0)) = 0
  <2>1. Below(S, 0) = {}
    BY DEF Below
  <2>. QED  BY <2>1, FS_EmptySet
<1>5. CASE n + 1 \in S
  <2>1. Below(S, n + 1) = Below(S, n) \cup {n + 1} /\ n + 1 \notin Below(S, n)
    BY <1>5 DEF Below
  <2>2. Cardinality(Below(S, n + 1)) = Cardinality(Below(S, n)) + 1
    BY <1>3, <2>1, FS_AddElement
  <2>. QED  BY <1>3, <1>4, <1>5, <2>2
<1>6. CASE n + 1 \notin S
  <2>1. Below(S, n + 1) = Below(S, n)
    BY <1>6 DEF Below
  <2>. QED  BY <1>3, <1>4, <1>6, <2>1
<1>. QED  BY <1>5, <1>6

\* What in_order has kept after each of its rounds.
LEMMA InOrderRounds ==
    ASSUME NEW S, NEW N \in Nat
    PROVE  \E f : /\ f[0] = <<>> /\ in_order(S, N) = f[N]
                  /\ \A n \in 1..N :
                       f[n] = IF n \in S THEN Append(f[n - 1], n) ELSE f[n - 1]
<1>. DEFINE Round(f, n) == IF n \in S THEN Append(f[n - 1], n) ELSE f[n - 1]
            Kept_(m, f) == f = [n \in 0..m |-> IF n = 0 THEN <<>> ELSE Round(f, n)]
            T == {m \in 0..N : ~ \E f : Kept_(m, f)}
<1>1. Kept_(0, [n \in 0..0 |-> <<>>])
  OBVIOUS
<1>2. ASSUME T # {} PROVE FALSE
  <2>1. T \subseteq Nat
    OBVIOUS
  <2>2. PICK m \in T : \A y \in T : m <= y
    <3>. HIDE DEF T
    <3>. QED  BY <1>2, <2>1, LeastNatural
  <2>3. m \in 0..N /\ ~ \E f : Kept_(m, f)
    BY <2>2
  <2>4. m # 0
    <3>. HIDE DEF Kept_
    <3>. QED  BY <1>1, <2>3
  <2>5. m - 1 \in 0..N /\ m - 1 \notin T
    <3>. HIDE DEF T
    <3>. QED  BY <2>2, <2>3, <2>4
  <2>6. PICK f : Kept_(m - 1, f)
    <3>. HIDE DEF Kept_
    <3>. QED  BY <2>5
  <2>. DEFINE g == [n \in 0..m |-> IF n < m THEN f[n] ELSE Round(f, m)]
  <2>7. ASSUME NEW n \in 0..m
        PROVE  g[n] = IF n = 0 THEN <<>> ELSE Round(g, n)
    <3>1. CASE n = 0
      BY <2>3, <2>4, <2>6, <3>1
    <3>2. CASE n # 0 /\ n < m
      <4>1. n \in 0..(m - 1) /\ n - 1 \in 0..m /\ n - 1 < m
        BY <2>3, <3>2
      <4>2. f[n] = Round(f, n)
        BY <2>6, <3>2, <4>1
      <4>3. g[n] = f[n] /\ g[n - 1] = f[n - 1]
        BY <3>2, <4>1
      <4>. QED  BY <3>2, <4>2, <4>3
    <3>3. CASE n = m
      <4>1. m - 1 \in 0..m /\ m - 1 < m
        BY <2>3, <2>4
      <4>2. g[m - 1] = f[m - 1] /\ g[m] = Round(f, m)
        BY <2>3, <4>1
      <4>. QED  BY <2>4, <3>3, <4>2
    <3>. QED  BY <2>3, <3>1, <3>2, <3>3
  <2>8. g = [n \in 0..m |-> g[n]]
    OBVIOUS
  <2>9. Kept_(m, g)
    <3>. HIDE DEF g, Round
    <3>. QED  BY <2>7, <2>8
  <2>. HIDE DEF Kept_
  <2>. QED  BY <2>3, <2>9
<1>3. \E f : Kept_(N, f)
  <2>1. N \in 0..N /\ T = {}
    BY <1>2
  <2>. HIDE DEF Kept_
  <2>. QED  BY <2>1
<1>4. PICK f : f = CHOOSE g : Kept_(N, g)
  OBVIOUS
<1>5. Kept_(N, f)
  <2>. HIDE DEF Kept_
  <2>. QED  BY <1>3, <1>4
<1>6. in_order(S, N) = f[N]
  <2>1. in_order(S, N) = (CHOOSE g : Kept_(N, g))[N]
    BY DEF in_order
  <2>. HIDE DEF Kept_
  <2>. QED  BY <1>4, <2>1
<1>7. f[0] = <<>>
  BY <1>5
<1>8. ASSUME NEW n \in 1..N PROVE f[n] = Round(f, n)
  <2>1. n \in 0..N /\ n # 0
    OBVIOUS
  <2>. HIDE DEF Round
  <2>. QED  BY <1>5, <2>1
<1>. QED  BY <1>6, <1>7, <1>8

\* in_order keeps every member once, the j-th after j - 1 others.
LEMMA InOrderKeeps ==
    ASSUME NEW S, NEW N \in Nat
    PROVE  /\ in_order(S, N) \in Seq(Nat)
           /\ Len(in_order(S, N)) = Cardinality(Below(S, N))
           /\ \A j \in 1..Len(in_order(S, N)) :
                LET k == in_order(S, N)[j] IN
                k \in 1..N /\ k \in S /\ Cardinality(Below(S, k - 1)) = j - 1
<1>1. PICK f : /\ f[0] = <<>> /\ in_order(S, N) = f[N]
               /\ \A n \in 1..N :
                    f[n] = IF n \in S THEN Append(f[n - 1], n) ELSE f[n - 1]
  BY InOrderRounds
<1>. DEFINE Right(n) == /\ f[n] \in Seq(Nat)
                        /\ Len(f[n]) = Cardinality(Below(S, n))
                        /\ \A j \in 1..Len(f[n]) :
                             /\ f[n][j] \in 1..n /\ f[n][j] \in S
                             /\ Cardinality(Below(S, f[n][j] - 1)) = j - 1
            T == {n \in 0..N : ~Right(n)}
<1>2. Right(0)
  <2>1. f[0] = <<>> /\ Cardinality(Below(S, 0)) = 0
    BY <1>1, BelowCounts
  <2>. QED  BY <2>1
<1>3. ASSUME T # {} PROVE FALSE
  <2>1. T \subseteq Nat
    OBVIOUS
  <2>2. PICK m \in T : \A y \in T : m <= y
    <3>. HIDE DEF T
    <3>. QED  BY <1>3, <2>1, LeastNatural
  <2>3. m \in 0..N /\ ~Right(m)
    BY <2>2
  <2>4. m # 0
    <3>. HIDE DEF Right
    <3>. QED  BY <1>2, <2>3
  <2>5. m - 1 \in 0..N /\ m - 1 \notin T
    <3>. HIDE DEF T
    <3>. QED  BY <2>2, <2>3, <2>4
  <2>6. Right(m - 1)
    <3>. HIDE DEF Right
    <3>. QED  BY <2>5
  <2>. DEFINE c == Cardinality(Below(S, m - 1))
  <2>7. c \in Nat /\ Cardinality(Below(S, m)) = c + (IF m \in S THEN 1 ELSE 0)
    <3>1. PICK p \in Nat : p = m - 1 /\ p + 1 = m
      BY <2>3, <2>4
    <3>2. Cardinality(Below(S, p)) \in Nat
          /\ Cardinality(Below(S, p + 1)) =
               Cardinality(Below(S, p)) + (IF p + 1 \in S THEN 1 ELSE 0)
      BY BelowCounts
    <3>. QED  BY <3>1, <3>2
  <2>8. m \in 1..N /\ m \in Nat
    BY <2>3, <2>4
  <2>9. CASE m \in S
    <3>1. f[m] = Append(f[m - 1], m)
      BY <1>1, <2>8, <2>9
    <3>2. f[m] \in Seq(Nat) /\ Len(f[m]) = c + 1 /\ f[m][c + 1] = m
          /\ \A j \in 1..c : f[m][j] = f[m - 1][j]
      BY <2>6, <2>7, <2>8, <3>1
    <3>3. ASSUME NEW j \in 1..(c + 1)
          PROVE  /\ f[m][j] \in 1..m /\ f[m][j] \in S
                 /\ Cardinality(Below(S, f[m][j] - 1)) = j - 1
      <4>1. CASE j = c + 1
        <5>1. f[m][j] = m /\ j - 1 = c
          BY <2>7, <3>2, <4>1
        <5>. QED  BY <2>8, <2>9, <5>1
      <4>2. CASE j # c + 1
        <5>1. j \in 1..c
          BY <2>7, <4>2
        <5>2. /\ f[m - 1][j] \in 1..(m - 1) /\ f[m - 1][j] \in S
              /\ Cardinality(Below(S, f[m - 1][j] - 1)) = j - 1
          BY <2>6, <5>1
        <5>. QED  BY <2>8, <3>2, <5>1, <5>2
      <4>. QED  BY <4>1, <4>2
    <3>. QED  BY <2>3, <2>7, <2>9, <3>2, <3>3
  <2>10. CASE m \notin S
    <3>1. f[m] = f[m - 1]
      BY <1>1, <2>8, <2>10
    <3>2. ASSUME NEW j \in 1..Len(f[m])
          PROVE  /\ f[m][j] \in 1..m /\ f[m][j] \in S
                 /\ Cardinality(Below(S, f[m][j] - 1)) = j - 1
      <4>1. f[m][j] \in 1..(m - 1)
        BY <2>6, <3>1
      <4>. QED  BY <2>6, <2>8, <3>1, <4>1
    <3>. QED  BY <2>3, <2>6, <2>7, <2>10, <3>1, <3>2
  <2>. QED  BY <2>9, <2>10
<1>4. Right(N)
  <2>1. N \in 0..N /\ T = {}
    BY <1>3
  <2>. HIDE DEF Right
  <2>. QED  BY <2>1
<1>. QED  BY <1>1, <1>4

-----------------------------------------------------------------------------
(* Every step keeps the invariant                                          *)

LEMMA EvidenceInvInit == Init => EvidenceInv
<1> SUFFICES ASSUME Init PROVE EvidenceInv
  OBVIOUS
<1>1. PICK c \in Capacities : pstream = Stream(c[1]) /\ cstream = Stream(c[2])
  BY DEF Init
<1>2. c[1] \in Nat /\ c[2] \in Nat
  BY RunEvidenceAssumption
<1>3. pstream \in Streams(ProducerWords) /\ cstream \in Streams(ConsumerWords)
  BY <1>1, <1>2 DEF Stream, Streams
<1>4. /\ producer = [pc |-> "unprepared", next |-> 0, accepted |-> 0, row |-> None]
      /\ consumer = [pc |-> "unprepared", consumed |-> <<>>, row |-> None]
      /\ now = 0 /\ queue = <<>> /\ faults = 0 /\ objects = <<>> /\ final = None /\ graph = None
  BY DEF Init
<1>5. Offered \in Nat
  BY RunEvidenceAssumption DEF Offered
<1>6. Shape
  BY <1>3, <1>4, RunEvidenceAssumption DEF Shape
<1>7. /\ pstream.rows = <<>> /\ cstream.rows = <<>> /\ ~pstream.overflowed /\ ~cstream.overflowed
      /\ ~pstream.prepared /\ ~cstream.prepared
      /\ pstream.state = "writing" /\ cstream.state = "writing"
      /\ pstream.capacity \in Nat /\ cstream.capacity \in Nat
  BY <1>1, <1>2 DEF Stream
<1>8. Kept(pstream, producer.next, producer) /\ Kept(cstream, Len(consumer.consumed), consumer)
  BY <1>4, <1>7 DEF Kept
<1>9. AttemptInHand
  BY <1>4, <1>5 DEF AttemptInHand, InAttempt
<1>10. ProducerWordsHold
  <2>1. AcceptedPlaces(pstream.rows, 0) = {}
    BY DEF AcceptedPlaces
  <2>2. Cardinality(AcceptedPlaces(pstream.rows, 0)) = 0
    BY <2>1, FS_EmptySet
  <2>. QED  BY <1>4, <1>7, <2>2 DEF ProducerWordsHold
<1>11. ConsumerInHand /\ ConsumerWordsHold
  BY <1>4, <1>7 DEF ConsumerInHand, ConsumerWordsHold
<1>12. InOrderOfAcceptance
  BY <1>4, <1>7 DEF InOrderOfAcceptance, Observed, Published_
<1>13. DrainIsEmpty /\ PublicationHolds
  BY <1>4, RunEvidenceAssumption DEF DrainIsEmpty, PublicationHolds
<1>. QED  BY <1>6, <1>8, <1>9, <1>10, <1>11, <1>12, <1>13 DEF EvidenceInv

\* While a thread runs, nothing is published yet.
LEMMA Unpublished ==
    ASSUME EvidenceInv, ~Ended(producer) \/ ~Ended(consumer)
    PROVE  objects = <<>> /\ final = None /\ graph = None
BY DEF EvidenceInv, PublicationHolds

LEMMA StaysUnpublished ==
    ASSUME objects' = <<>>, final' = None, graph' = None
    PROVE  PublicationHolds'
BY RunEvidenceAssumption DEF PublicationHolds

\* The words of the streams and the events of the queue, one by one.
LEMMA WordTypes ==
    ASSUME Shape
    PROVE  /\ Len(pstream.rows) \in Nat /\ Len(cstream.rows) \in Nat /\ Len(queue) \in Nat
           /\ Len(consumer.consumed) \in Nat
           /\ \A n \in 1..Len(pstream.rows) : pstream.rows[n] \in ProducerWords
           /\ \A n \in 1..Len(cstream.rows) : cstream.rows[n] \in ConsumerWords
           /\ \A n \in 1..Len(queue) : queue[n] \in [event : Nat, index : Nat]
           /\ \A n \in 1..Len(consumer.consumed) : consumer.consumed[n] \in Nat
<1>1. /\ pstream.rows \in Seq(ProducerWords) /\ cstream.rows \in Seq(ConsumerWords)
      /\ queue \in Seq([event : Nat, index : Nat]) /\ consumer.consumed \in Seq(Nat)
  BY DEF Shape, Streams
<1>2. ASSUME NEW W, NEW s \in Seq(W)
      PROVE  Len(s) \in Nat /\ \A n \in 1..Len(s) : s[n] \in W
  OBVIOUS
<1>3. Len(pstream.rows) \in Nat /\ \A n \in 1..Len(pstream.rows) : pstream.rows[n] \in ProducerWords
  BY <1>1, <1>2
<1>4. Len(cstream.rows) \in Nat /\ \A n \in 1..Len(cstream.rows) : cstream.rows[n] \in ConsumerWords
  BY <1>1, <1>2
<1>5. Len(queue) \in Nat /\ \A n \in 1..Len(queue) : queue[n] \in [event : Nat, index : Nat]
  BY <1>1, <1>2
<1>6. Len(consumer.consumed) \in Nat
      /\ \A n \in 1..Len(consumer.consumed) : consumer.consumed[n] \in Nat
  BY <1>1, <1>2
<1>. QED  BY <1>3, <1>4, <1>5, <1>6

\* Steps that leave the rows and a published attempt alone.
LEMMA HandoverStays ==
    ASSUME pstream'.rows = pstream.rows,
           \/ producer' = producer
           \/ producer.pc # "accepted" /\ producer'.pc # "accepted"
    PROVE  \A o, event, index, t :
             HandedOver(o, event, index, t)' <=> HandedOver(o, event, index, t)
BY DEF HandedOver

\* A thread takes its stream over.
LEMMA PrepareKeepsInv ==
    ASSUME EvidenceInv, PrepareProducer \/ PrepareConsumer
    PROVE  EvidenceInv'
<1>1. CASE PrepareProducer
  <2>1. /\ producer' = [producer EXCEPT !.pc = "idle"] /\ producer.pc = "unprepared"
        /\ pstream' = [pstream EXCEPT !.prepared = TRUE]
        /\ UNCHANGED <<now, queue, faults, consumer, cstream, objects, final, graph>>
    BY <1>1 DEF PrepareProducer, prepare_for_owner
  <2>2. ~Ended(producer)
    BY <2>1 DEF Ended
  <2>3. PublicationHolds'
    BY <2>1, <2>2, Unpublished, StaysUnpublished
  <2>4. Shape'
    BY <2>1 DEF EvidenceInv, Shape, Streams
  <2>5. /\ producer'.pc = "idle" /\ producer'.next = producer.next
        /\ producer'.accepted = producer.accepted
        /\ pstream'.prepared /\ pstream'.rows = pstream.rows
        /\ pstream'.capacity = pstream.capacity /\ pstream'.state = pstream.state
        /\ pstream'.overflowed = pstream.overflowed
    BY <2>1 DEF EvidenceInv, Shape, Streams
  <2>6. Kept(pstream, producer.next, producer)' /\ Kept(cstream, Len(consumer.consumed), consumer)'
    BY <2>1, <2>5 DEF EvidenceInv, Kept, Ended
  <2>7. AttemptInHand' /\ ProducerWordsHold'
    BY <2>1, <2>5 DEF EvidenceInv, AttemptInHand, ProducerWordsHold, InAttempt
  <2>8. ConsumerInHand' /\ ConsumerWordsHold' /\ DrainIsEmpty'
    BY <2>1, <2>5 DEF EvidenceInv, ConsumerInHand, ConsumerWordsHold, DrainIsEmpty
  <2>9. InOrderOfAcceptance'
    <3>1. \A o, event, index, t :
            HandedOver(o, event, index, t)' <=> HandedOver(o, event, index, t)
      BY <2>1, <2>5, HandoverStays
    <3>. QED  BY <2>1, <2>5, <3>1 DEF EvidenceInv, InOrderOfAcceptance, Observed, Published_
  <2>. QED  BY <2>3, <2>4, <2>6, <2>7, <2>8, <2>9 DEF EvidenceInv
<1>2. CASE PrepareConsumer
  <2>1. /\ consumer' = [consumer EXCEPT !.pc = "idle"] /\ consumer.pc = "unprepared"
        /\ cstream' = [cstream EXCEPT !.prepared = TRUE]
        /\ UNCHANGED <<now, queue, faults, producer, pstream, objects, final, graph>>
    BY <1>2 DEF PrepareConsumer, prepare_for_owner
  <2>2. ~Ended(consumer)
    BY <2>1 DEF Ended
  <2>3. PublicationHolds'
    BY <2>1, <2>2, Unpublished, StaysUnpublished
  <2>4. Shape'
    BY <2>1 DEF EvidenceInv, Shape, Streams
  <2>5. /\ consumer'.pc = "idle" /\ consumer'.consumed = consumer.consumed
        /\ cstream'.prepared /\ cstream'.rows = cstream.rows
        /\ cstream'.capacity = cstream.capacity /\ cstream'.state = cstream.state
        /\ cstream'.overflowed = cstream.overflowed
    BY <2>1 DEF EvidenceInv, Shape, Streams
  <2>6. Kept(pstream, producer.next, producer)' /\ Kept(cstream, Len(consumer.consumed), consumer)'
    BY <2>1, <2>5 DEF EvidenceInv, Kept, Ended
  <2>7. AttemptInHand' /\ ProducerWordsHold'
    BY <2>1 DEF EvidenceInv, AttemptInHand, ProducerWordsHold
  <2>8. ConsumerInHand' /\ ConsumerWordsHold' /\ DrainIsEmpty'
    BY <2>1, <2>5 DEF EvidenceInv, ConsumerInHand, ConsumerWordsHold, DrainIsEmpty
  <2>9. InOrderOfAcceptance'
    <3>1. \A o, event, index, t :
            HandedOver(o, event, index, t)' <=> HandedOver(o, event, index, t)
      BY <2>1, <2>5, HandoverStays
    <3>. QED  BY <2>1, <2>5, <3>1 DEF EvidenceInv, InOrderOfAcceptance, Observed, Published_
  <2>. QED  BY <2>3, <2>4, <2>6, <2>7, <2>8, <2>9 DEF EvidenceInv
<1>. QED  BY <1>1, <1>2

\* What was handed over by now was handed over by any later time.
LEMMA HandedOverLater ==
    ASSUME Shape, AttemptInHand, NEW o, NEW event, NEW index, NEW t \in Nat, NEW u \in Nat,
           t <= u, HandedOver(o, event, index, t)
    PROVE  HandedOver(o, event, index, u)
<1>1. \A n \in 1..Len(pstream.rows) : pstream.rows[n].lin \in Nat
  BY WordTypes DEF ProducerWords
<1>2. producer.pc = "accepted" => producer.row.lin \in Nat
  BY DEF AttemptInHand
<1>. QED  BY <1>1, <1>2 DEF HandedOver

LEMMA TickKeepsInv ==
    ASSUME EvidenceInv, Tick
    PROVE  EvidenceInv'
<1>1. /\ now' = now + 1 /\ now < MaxTime
      /\ ~Ended(producer) \/ ~Ended(consumer)
      /\ UNCHANGED <<queue, faults, producer, consumer, pstream, cstream, objects, final, graph>>
  BY DEF Tick, threads
<1>2. PublicationHolds'
  BY <1>1, Unpublished, StaysUnpublished
<1>3. now \in Nat /\ now' \in 0..MaxTime /\ now <= now'
  BY <1>1, RunEvidenceAssumption DEF EvidenceInv, Shape
<1>4. Shape'
  BY <1>1, <1>3 DEF EvidenceInv, Shape
<1>5. Kept(pstream, producer.next, producer)' /\ Kept(cstream, Len(consumer.consumed), consumer)'
  BY <1>1 DEF EvidenceInv, Kept, Ended
<1>6. AttemptInHand'
  <2>1. producer.pc \in InAttempt => producer.row.invoke \in Nat
    BY DEF EvidenceInv, AttemptInHand, ProducerRows
  <2>. QED  BY <1>1, <1>3, <2>1 DEF EvidenceInv, AttemptInHand, InAttempt
<1>7. ProducerWordsHold' /\ ConsumerWordsHold' /\ DrainIsEmpty'
  BY <1>1 DEF EvidenceInv, ProducerWordsHold, ConsumerWordsHold, DrainIsEmpty
<1>8. ConsumerInHand'
  <2>1. consumer.pc \in {"invoked", "observed"} => consumer.row.invoke \in Nat
    BY DEF EvidenceInv, ConsumerInHand, ConsumerRows
  <2>. QED  BY <1>1, <1>3, <2>1 DEF EvidenceInv, ConsumerInHand
<1>9. InOrderOfAcceptance'
  <2>1. SUFFICES ASSUME faults = 0, producer.pc # "failed", consumer.pc # "failed"
                 PROVE  InOrderOfAcceptance'
    BY <1>1 DEF InOrderOfAcceptance
  <2>2. \A o, event, index, t : HandedOver(o, event, index, t)' <=> HandedOver(o, event, index, t)
    BY <1>1, HandoverStays
  <2>3. ASSUME NEW j \in 1..Len(queue)
        PROVE  HandedOver(Observed(consumer) + j - 1, queue[j].event, queue[j].index, now')
    <3>1. HandedOver(Observed(consumer) + j - 1, queue[j].event, queue[j].index, now)
      BY <2>1 DEF EvidenceInv, InOrderOfAcceptance
    <3>. QED  BY <1>3, <3>1, HandedOverLater DEF EvidenceInv
  <2>. QED  BY <1>1, <2>1, <2>2, <2>3 DEF EvidenceInv, InOrderOfAcceptance
<1>. QED  BY <1>2, <1>4, <1>5, <1>6, <1>7, <1>8, <1>9 DEF EvidenceInv

LEMMA EnqueueInvokeKeepsInv ==
    ASSUME EvidenceInv, EnqueueInvoke
    PROVE  EvidenceInv'
<1>. DEFINE new == [seq |-> producer.next, index |-> Mapping[producer.next + 1],
                    sched |-> Schedule[producer.next + 1], begin |-> now, lookup |-> now,
                    invoke |-> now, lin |-> None, done |-> None, outcome |-> None,
                    ordinal |-> None]
<1>1. /\ producer' = [producer EXCEPT !.pc = "invoked", !.row = new]
      /\ producer.pc = "idle" /\ producer.next < Offered /\ Schedule[producer.next + 1] <= now
      /\ UNCHANGED <<now, queue, faults, consumer, pstream, cstream, objects, final, graph>>
  <2>1. producer.next \in Nat /\ now \in Nat /\ Schedule \in Seq(Nat)
    BY RunEvidenceAssumption DEF EvidenceInv, Shape
  <2>. QED  BY <2>1 DEF EnqueueInvoke, Offered
<1>2. PublicationHolds'
  BY <1>1, Unpublished, StaysUnpublished DEF Ended
<1>3. producer.next + 1 \in 1..Len(Mapping) /\ producer.next + 1 \in 1..Len(Schedule)
      /\ producer.next \in Nat
  <2>1. producer.next \in Nat /\ producer.next < Len(Schedule)
    BY <1>1 DEF EvidenceInv, Shape, Offered
  <2>2. Len(Schedule) \in Nat /\ Len(Mapping) = Len(Schedule)
    BY RunEvidenceAssumption
  <2>. QED  BY <2>1, <2>2
<1>4. now \in Nat /\ Mapping[producer.next + 1] \in Nat /\ Schedule[producer.next + 1] \in Nat
  BY <1>3, RunEvidenceAssumption DEF EvidenceInv, Shape
<1>5. new \in ProducerRows
  BY <1>3, <1>4 DEF ProducerRows
<1>6. /\ producer'.pc = "invoked" /\ producer'.row = new /\ producer'.next = producer.next
      /\ producer'.accepted = producer.accepted
  BY <1>1 DEF EvidenceInv, Shape
<1>7. Shape'
  <2>1. producer' \in [pc : InAttempt \cup {"unprepared", "idle", "completed", "failed"},
                       next : Nat, accepted : Nat, row : ProducerRows \cup {None}]
    <3>. HIDE DEF new
    <3>. QED  BY <1>1, <1>5 DEF EvidenceInv, Shape, InAttempt
  <2>. QED  BY <1>1, <2>1 DEF EvidenceInv, Shape
<1>8. Kept(pstream, producer.next, producer)' /\ Kept(cstream, Len(consumer.consumed), consumer)'
  BY <1>1, <1>6 DEF EvidenceInv, Kept, Ended
<1>9. AttemptInHand'
  <2>1. /\ new.seq = producer.next /\ new.index = Mapping[producer.next + 1]
        /\ new.sched <= new.begin /\ new.begin <= new.lookup /\ new.lookup <= new.invoke
        /\ new.invoke <= now
    BY <1>1, <1>4
  <2>. HIDE DEF new
  <2>. QED  BY <1>1, <1>5, <1>6, <2>1 DEF EvidenceInv, AttemptInHand, InAttempt
<1>. HIDE DEF new
<1>10. ProducerWordsHold' /\ ConsumerInHand' /\ ConsumerWordsHold' /\ DrainIsEmpty'
  BY <1>1, <1>6
     DEF EvidenceInv, ProducerWordsHold, ConsumerInHand, ConsumerWordsHold, DrainIsEmpty
<1>11. InOrderOfAcceptance'
  <2>1. \A o, event, index, t : HandedOver(o, event, index, t)' <=> HandedOver(o, event, index, t)
    BY <1>1, <1>6, HandoverStays
  <2>. QED  BY <1>1, <1>6, <2>1 DEF EvidenceInv, InOrderOfAcceptance, Observed, Published_
<1>. QED  BY <1>2, <1>7, <1>8, <1>9, <1>10, <1>11 DEF EvidenceInv

\* The queue takes the event, or is full.
LEMMA EnqueuePublishKeepsInv ==
    ASSUME EvidenceInv, EnqueuePublish
    PROVE  EvidenceInv'
<1>1. /\ producer.pc = "invoked"
      /\ UNCHANGED <<now, faults, consumer, pstream, cstream, objects, final, graph>>
  BY DEF EnqueuePublish
<1>2. PublicationHolds'
  BY <1>1, Unpublished, StaysUnpublished DEF Ended
<1>3. /\ producer.next < Offered /\ producer.row \in ProducerRows
      /\ producer.row.seq = producer.next /\ producer.row.index = Mapping[producer.next + 1]
      /\ producer.row.invoke <= now
      /\ now \in Nat /\ producer.next \in Nat /\ producer.accepted \in Nat
  BY <1>1 DEF EvidenceInv, Shape, AttemptInHand, InAttempt
<1>4. /\ queue \in Seq([event : Nat, index : Nat]) /\ Len(queue) \in Nat
      /\ Len(queue) <= QueueCapacity /\ QueueCapacity \in Nat
  BY RunEvidenceAssumption DEF EvidenceInv, Shape
<1>5. ConsumerWordsHold'
  BY <1>1 DEF EvidenceInv, ConsumerWordsHold
<1>6. CASE Len(queue) < QueueCapacity
  <2>. DEFINE e == [event |-> producer.row.seq, index |-> producer.row.index]
  <2>1. /\ queue' = Append(queue, e)
        /\ producer' = [producer EXCEPT !.pc = "accepted", !.row.lin = now]
    BY <1>6 DEF EnqueuePublish
  <2>2. e \in [event : Nat, index : Nat] /\ e.event = producer.next
        /\ e.index = Mapping[producer.next + 1]
    BY <1>3 DEF ProducerRows
  <2>3. /\ producer'.pc = "accepted" /\ producer'.row = [producer.row EXCEPT !.lin = now]
        /\ producer'.next = producer.next /\ producer'.accepted = producer.accepted
    BY <2>1 DEF EvidenceInv, Shape
  <2>4. /\ producer'.row \in ProducerRows /\ producer'.row.lin = now
        /\ producer'.row.seq = producer.row.seq /\ producer'.row.index = producer.row.index
        /\ producer'.row.sched = producer.row.sched /\ producer'.row.begin = producer.row.begin
        /\ producer'.row.lookup = producer.row.lookup
        /\ producer'.row.invoke = producer.row.invoke
    BY <1>3, <2>3 DEF ProducerRows
  <2>5. producer' \in [pc : InAttempt \cup {"unprepared", "idle", "completed", "failed"},
                       next : Nat, accepted : Nat, row : ProducerRows \cup {None}]
    <3>1. producer' = [pc |-> "accepted", next |-> producer.next,
                       accepted |-> producer.accepted, row |-> producer'.row]
      BY <2>1, <2>3 DEF EvidenceInv, Shape
    <3>. QED  BY <1>3, <2>4, <3>1 DEF InAttempt
  <2>6. /\ queue' \in Seq([event : Nat, index : Nat]) /\ Len(queue') = Len(queue) + 1
        /\ queue'[Len(queue) + 1] = e /\ \A j \in 1..Len(queue) : queue'[j] = queue[j]
    <3>. HIDE DEF e
    <3>. QED  BY <1>4, <2>1, <2>2
  <2>7. Shape'
    BY <1>1, <1>4, <1>6, <2>5, <2>6 DEF EvidenceInv, Shape
  <2>8. Kept(pstream, producer.next, producer)'
        /\ Kept(cstream, Len(consumer.consumed), consumer)'
    BY <1>1, <2>3 DEF EvidenceInv, Kept, Ended
  <2>9. AttemptInHand'
    <3>1. /\ producer.row.sched <= producer.row.begin
          /\ producer.row.begin <= producer.row.lookup
          /\ producer.row.lookup <= producer.row.invoke
          /\ producer.next <= Offered /\ producer.accepted <= producer.next
      BY <1>1 DEF EvidenceInv, AttemptInHand, InAttempt
    <3>2. producer.row.invoke \in Nat
      BY <1>3 DEF ProducerRows
    <3>. QED  BY <1>1, <1>3, <2>3, <2>4, <3>1, <3>2 DEF AttemptInHand
  <2>10. ProducerWordsHold'
    BY <1>1, <2>3 DEF EvidenceInv, ProducerWordsHold
  <2>11. ConsumerInHand'
    <3>1. ASSUME NEW j \in 1..(Len(queue) + 1) PROVE Genuine(queue'[j].event, queue'[j].index)
      <4>. HIDE DEF e
      <4>1. CASE j = Len(queue) + 1
        BY <1>3, <2>2, <2>6, <4>1 DEF Genuine
      <4>2. CASE j # Len(queue) + 1
        <5>1. j \in 1..Len(queue)
          BY <1>4, <4>2
        <5>. QED  BY <2>6, <5>1 DEF EvidenceInv, ConsumerInHand
      <4>. QED  BY <4>1, <4>2
    <3>. QED  BY <1>1, <2>6, <3>1 DEF EvidenceInv, ConsumerInHand
  <2>12. DrainIsEmpty'
    BY <1>1 DEF EvidenceInv, DrainIsEmpty
  <2>13. InOrderOfAcceptance'
    <3>1. SUFFICES ASSUME faults = 0, consumer.pc # "failed"
                   PROVE  InOrderOfAcceptance'
      BY <1>1 DEF InOrderOfAcceptance
    <3>2. \A o, event, index, t : HandedOver(o, event, index, t) => HandedOver(o, event, index, t)'
      BY <1>1 DEF HandedOver
    <3>4. /\ Observed(consumer) + Len(queue) = producer.accepted
          /\ \A j \in 1..Len(queue) :
               HandedOver(Observed(consumer) + j - 1, queue[j].event, queue[j].index, now)
          /\ consumer.pc = "observed" =>
               HandedOver(Len(consumer.consumed), consumer.row.event, consumer.row.index,
                          consumer.row.lin)
          /\ \A k \in 1..Len(cstream.rows) :
               HandedOver(k - 1, consumer.consumed[k], cstream.rows[k].index,
                          cstream.rows[k].lin)
      <4>1. Published_(producer) = producer.accepted
        BY <1>1, <1>3 DEF Published_
      <4>. QED  BY <1>1, <3>1, <4>1 DEF EvidenceInv, InOrderOfAcceptance
    <3>5. Observed(consumer) \in Nat
      <4>1. Len(consumer.consumed) \in Nat
        BY WordTypes DEF EvidenceInv
      <4>2. CASE consumer.pc = "observed"
        BY <4>1, <4>2 DEF Observed
      <4>3. CASE consumer.pc # "observed"
        BY <4>1, <4>3 DEF Observed
      <4>. QED  BY <4>2, <4>3
    <3>6. ASSUME NEW j \in 1..(Len(queue) + 1), NEW o, NEW event, NEW index, NEW t,
                 o = Observed(consumer) + j - 1, event = queue'[j].event,
                 index = queue'[j].index, t = now
          PROVE  HandedOver(o, event, index, t)'
      <4>1. CASE j = Len(queue) + 1
        <5>1. /\ event = producer'.row.seq /\ index = producer'.row.index
              /\ o = producer'.accepted /\ producer'.row.lin <= t
          <6>1. o = producer.accepted
            BY <1>4, <3>4, <3>5, <3>6, <4>1
          <6>2. queue'[j] = e
            BY <2>6, <4>1
          <6>. QED  BY <1>3, <2>3, <2>4, <3>6, <6>1, <6>2
        <5>. QED  BY <2>3, <5>1 DEF HandedOver
      <4>2. CASE j # Len(queue) + 1
        <5>1. j \in 1..Len(queue)
          BY <1>4, <4>2
        <5>2. HandedOver(o, event, index, t)
          BY <2>6, <3>4, <3>6, <5>1
        <5>. QED  BY <3>2, <5>2
      <4>. QED  BY <4>1, <4>2
    <3>7. Observed(consumer) + Len(queue') = Published_(producer)'
      BY <1>3, <1>4, <2>3, <2>6, <3>4, <3>5 DEF Published_
    <3>. QED  BY <1>1, <2>6, <3>2, <3>4, <3>6, <3>7 DEF InOrderOfAcceptance, Observed
  <2>. QED  BY <1>2, <1>5, <2>7, <2>8, <2>9, <2>10, <2>11, <2>12, <2>13 DEF EvidenceInv
<1>7. CASE ~(Len(queue) < QueueCapacity)
  <2>1. queue' = queue /\ producer' = [producer EXCEPT !.pc = "full"]
    BY <1>7 DEF EnqueuePublish
  <2>2. /\ producer'.pc = "full" /\ producer'.row = producer.row
        /\ producer'.next = producer.next /\ producer'.accepted = producer.accepted
    BY <2>1 DEF EvidenceInv, Shape
  <2>3. Shape'
    BY <1>1, <2>1 DEF EvidenceInv, Shape, InAttempt
  <2>4. Kept(pstream, producer.next, producer)'
        /\ Kept(cstream, Len(consumer.consumed), consumer)'
    BY <1>1, <2>2 DEF EvidenceInv, Kept, Ended
  <2>5. AttemptInHand'
    BY <1>1, <2>2 DEF EvidenceInv, AttemptInHand, InAttempt
  <2>6. ProducerWordsHold' /\ ConsumerInHand' /\ DrainIsEmpty'
    BY <1>1, <2>1, <2>2 DEF EvidenceInv, ProducerWordsHold, ConsumerInHand, DrainIsEmpty
  <2>7. InOrderOfAcceptance'
    <3>1. \A o, event, index, t :
            HandedOver(o, event, index, t)' <=> HandedOver(o, event, index, t)
      BY <1>1, <2>2, HandoverStays
    <3>. QED  BY <1>1, <2>1, <2>2, <3>1
              DEF EvidenceInv, InOrderOfAcceptance, Observed, Published_
  <2>. QED  BY <1>2, <1>5, <2>3, <2>4, <2>5, <2>6, <2>7 DEF EvidenceInv
<1>. QED  BY <1>6, <1>7

\* A row more: the accepted rows before it stay where they are.
LEMMA PlacesAppended ==
    ASSUME NEW words \in Seq(ProducerWords), NEW w \in ProducerWords
    PROVE  /\ \A k \in 0..Len(words) :
                AcceptedPlaces(Append(words, w), k) = AcceptedPlaces(words, k)
           /\ Cardinality(AcceptedPlaces(words, Len(words))) \in Nat
           /\ Cardinality(AcceptedPlaces(Append(words, w), Len(words) + 1)) =
                Cardinality(AcceptedPlaces(words, Len(words)))
                  + (IF w.flags = AcceptedFlags THEN 1 ELSE 0)
<1>. DEFINE more == Append(words, w)
            S == {k \in Nat : more[k].flags = AcceptedFlags}
<1>1. /\ Len(words) \in Nat /\ more[Len(words) + 1] = w
      /\ \A k \in 1..Len(words) : more[k] = words[k]
  OBVIOUS
<1>. HIDE DEF more
<1>2. ASSUME NEW k \in 0..Len(words)
      PROVE  AcceptedPlaces(more, k) = AcceptedPlaces(words, k)
  BY <1>1 DEF AcceptedPlaces
<1>3. \A k \in Nat : AcceptedPlaces(more, k) = Below(S, k)
  BY DEF AcceptedPlaces, Below
<1>4. Len(words) \in 0..Len(words) /\ Len(words) + 1 \in Nat
  BY <1>1
<1>5. Len(words) + 1 \in S <=> w.flags = AcceptedFlags
  BY <1>1, <1>4
<1>. HIDE DEF S
<1>6. /\ Cardinality(Below(S, Len(words))) \in Nat
      /\ Cardinality(Below(S, Len(words) + 1)) =
           Cardinality(Below(S, Len(words))) + (IF Len(words) + 1 \in S THEN 1 ELSE 0)
  BY <1>1, BelowCounts
<1>7. AcceptedPlaces(words, Len(words)) = Below(S, Len(words))
      /\ AcceptedPlaces(more, Len(words) + 1) = Below(S, Len(words) + 1)
  BY <1>1, <1>2, <1>3, <1>4
<1>8. Cardinality(AcceptedPlaces(more, Len(words) + 1)) =
        Cardinality(AcceptedPlaces(words, Len(words)))
          + (IF w.flags = AcceptedFlags THEN 1 ELSE 0)
  BY <1>5, <1>6, <1>7
<1>. QED  BY <1>2, <1>6, <1>7, <1>8 DEF more

\* The completed attempt is kept as its row, or the stream is full.
LEMMA EnqueueCompleteKeepsInv ==
    ASSUME EvidenceInv, EnqueueComplete
    PROVE  EvidenceInv'
<1>1. /\ producer.pc \in {"accepted", "full"}
      /\ UNCHANGED <<now, queue, faults, consumer, cstream, objects, final, graph>>
  BY DEF EnqueueComplete
<1>2. PublicationHolds'
  BY <1>1, Unpublished, StaysUnpublished DEF Ended
<1>3. /\ producer.next < Offered /\ producer.row \in ProducerRows
      /\ producer.row.seq = producer.next /\ producer.row.index = Mapping[producer.next + 1]
      /\ producer.row.sched <= producer.row.begin
      /\ producer.row.begin <= producer.row.lookup
      /\ producer.row.lookup <= producer.row.invoke
      /\ producer.row.invoke <= now
      /\ producer.accepted <= producer.next
      /\ now \in Nat /\ producer.next \in Nat /\ producer.accepted \in Nat /\ Offered \in Nat
      /\ producer.pc = "accepted" =>
           producer.row.lin \in Nat /\ producer.row.invoke <= producer.row.lin
           /\ producer.row.lin <= now
  <2>1. Offered \in Nat
    BY RunEvidenceAssumption DEF Offered
  <2>. QED  BY <1>1, <2>1 DEF EvidenceInv, Shape, AttemptInHand, InAttempt
<1>4. /\ pstream.prepared /\ pstream.state = "writing" /\ ~pstream.overflowed
      /\ Len(pstream.rows) = producer.next /\ Len(pstream.rows) <= pstream.capacity
      /\ pstream.capacity \in Nat /\ pstream.rows \in Seq(ProducerWords)
  BY <1>1 DEF EvidenceInv, Kept, Ended, Shape, Streams
<1>5. producer.accepted = Cardinality(AcceptedPlaces(pstream.rows, Len(pstream.rows)))
  BY <1>4 DEF EvidenceInv, ProducerWordsHold
<1>. DEFINE accepted == producer.pc = "accepted"
            row == [producer.row EXCEPT
                     !.done = now, !.outcome = producer.pc,
                     !.ordinal = IF accepted THEN producer.accepted ELSE None]
            w == producer_words(row)
<1>6. /\ pstream' = append(pstream, w)
      /\ producer' = [producer EXCEPT
           !.pc = IF ~appended(pstream) THEN "failed"
                  ELSE IF producer.next + 1 = Len(Schedule) THEN "completed" ELSE "idle",
           !.next = @ + 1, !.accepted = IF accepted THEN @ + 1 ELSE @, !.row = None]
  BY DEF EnqueueComplete
<1>7. /\ row.seq = producer.next /\ row.index = Mapping[producer.next + 1]
      /\ row.sched = producer.row.sched /\ row.begin = producer.row.begin
      /\ row.lookup = producer.row.lookup /\ row.invoke = producer.row.invoke
      /\ row.lin = producer.row.lin /\ row.done = now /\ row.outcome = producer.pc
      /\ row.ordinal = IF accepted THEN producer.accepted ELSE None
  BY <1>3 DEF ProducerRows
<1>. HIDE DEF row
<1>8. /\ w.seq = producer.next /\ w.index = Mapping[producer.next + 1]
      /\ w.sched = producer.row.sched /\ w.begin = producer.row.begin
      /\ w.lookup = producer.row.lookup /\ w.invoke = producer.row.invoke
      /\ w.lin = (IF accepted THEN producer.row.lin ELSE 0) /\ w.done = now
      /\ w.ordinal = (IF accepted THEN producer.accepted ELSE 0)
      /\ w.flags = (IF accepted THEN AcceptedFlags ELSE FullFlags)
  BY <1>7 DEF producer_words
<1>9. w \in ProducerWords
  <2>1. /\ producer.row.seq \in Nat /\ producer.row.index \in Nat /\ producer.row.sched \in Nat
        /\ producer.row.begin \in Nat /\ producer.row.lookup \in Nat
        /\ producer.row.invoke \in Nat
    BY <1>3 DEF ProducerRows
  <2>2. w = [seq |-> w.seq, index |-> w.index, sched |-> w.sched, begin |-> w.begin,
             lookup |-> w.lookup, invoke |-> w.invoke, lin |-> w.lin, done |-> w.done,
             ordinal |-> w.ordinal, flags |-> w.flags]
    BY DEF producer_words
  <2>3. w.lin \in Nat /\ w.ordinal \in Nat /\ w.flags \in {AcceptedFlags, FullFlags}
    BY <1>3, <1>8
  <2>. HIDE DEF w
  <2>4. /\ w.seq \in Nat /\ w.index \in Nat /\ w.sched \in Nat /\ w.begin \in Nat
        /\ w.lookup \in Nat /\ w.invoke \in Nat /\ w.done \in Nat
    BY <1>3, <1>8, <2>1
  <2>. QED  BY <2>2, <2>3, <2>4 DEF ProducerWords
<1>. HIDE DEF w
<1>10. /\ producer'.next = producer.next + 1
       /\ producer'.accepted = producer.accepted + (IF accepted THEN 1 ELSE 0)
       /\ producer'.row = None
       /\ producer'.pc = IF ~appended(pstream) THEN "failed"
                         ELSE IF producer.next + 1 = Len(Schedule) THEN "completed" ELSE "idle"
       /\ producer' = [pc |-> producer'.pc, next |-> producer'.next,
                       accepted |-> producer'.accepted, row |-> None]
  <2>1. producer \in [pc : InAttempt \cup {"unprepared", "idle", "completed", "failed"},
                      next : Nat, accepted : Nat, row : ProducerRows \cup {None}]
    BY DEF EvidenceInv, Shape
  <2>2. CASE accepted
    BY <1>3, <1>6, <2>1, <2>2
  <2>3. CASE ~accepted
    <3>1. producer' = [producer EXCEPT
             !.pc = IF ~appended(pstream) THEN "failed"
                    ELSE IF producer.next + 1 = Len(Schedule) THEN "completed" ELSE "idle",
             !.next = @ + 1, !.row = None]
      BY <1>6, <2>1, <2>3
    <3>2. producer'.accepted = producer.accepted /\ producer'.next = producer.next + 1
          /\ producer'.row = None
      BY <2>1, <3>1
    <3>3. producer.accepted + (IF accepted THEN 1 ELSE 0) = producer.accepted
      BY <1>3, <2>3
    <3>. QED  BY <2>1, <3>1, <3>2, <3>3
  <2>. QED  BY <2>2, <2>3
<1>11. /\ producer' \in [pc : InAttempt \cup {"unprepared", "idle", "completed", "failed"},
                         next : Nat, accepted : Nat, row : ProducerRows \cup {None}]
       /\ producer'.accepted \in Nat /\ producer'.pc \in {"failed", "completed", "idle"}
  <2>1. producer'.accepted \in Nat /\ producer'.next \in Nat
    <3>1. CASE accepted
      BY <1>3, <1>10, <3>1
    <3>2. CASE ~accepted
      BY <1>3, <1>10, <3>2
    <3>. QED  BY <3>1, <3>2
  <2>2. producer'.pc \in {"failed", "completed", "idle"}
    BY <1>10
  <2>. QED  BY <1>10, <2>1, <2>2
<1>12. Kept(cstream, Len(consumer.consumed), consumer)'
  BY <1>1 DEF EvidenceInv, Kept, Ended
<1>13. AttemptInHand'
  <2>1. producer'.accepted <= producer'.next /\ producer'.next <= Offered
    <3>1. CASE accepted
      BY <1>3, <1>10, <3>1
    <3>2. CASE ~accepted
      BY <1>3, <1>10, <3>2
    <3>. QED  BY <3>1, <3>2
  <2>2. producer'.pc = "completed" => producer'.next = Offered
    BY <1>10 DEF Offered
  <2>. QED  BY <1>11, <2>1, <2>2 DEF AttemptInHand, InAttempt
<1>14. ConsumerInHand' /\ ConsumerWordsHold'
  BY <1>1 DEF EvidenceInv, ConsumerInHand, ConsumerWordsHold
<1>15. DrainIsEmpty'
  BY <1>1 DEF EvidenceInv, DrainIsEmpty
<1>16. CASE appended(pstream)
  <2>1. /\ pstream' = [pstream EXCEPT !.rows = Append(@, w)] /\ Len(pstream.rows) < pstream.capacity
        /\ producer'.pc \in {"completed", "idle"}
    BY <1>4, <1>6, <1>10, <1>16 DEF append, appended
  <2>2. /\ pstream'.rows = Append(pstream.rows, w) /\ pstream'.capacity = pstream.capacity
        /\ pstream'.state = "writing" /\ ~pstream'.overflowed /\ pstream'.prepared
        /\ pstream' \in Streams(ProducerWords)
    <3>1. pstream \in Streams(ProducerWords)
      BY DEF EvidenceInv, Shape
    <3>2. Append(pstream.rows, w) \in Seq(ProducerWords)
      BY <1>4, <1>9
    <3>. QED  BY <1>4, <2>1, <3>1, <3>2 DEF Streams
  <2>3. /\ Len(pstream'.rows) = producer.next + 1 /\ pstream'.rows[producer.next + 1] = w
        /\ \A n \in 1..producer.next : pstream'.rows[n] = pstream.rows[n]
    BY <1>3, <1>4, <1>9, <2>2
  <2>4. Shape'
    BY <1>1, <1>11, <2>2 DEF EvidenceInv, Shape
  <2>5. Kept(pstream, producer.next, producer)'
    <3>1. producer.next + 1 <= pstream.capacity
      BY <1>3, <1>4, <2>1
    <3>. QED  BY <1>10, <2>1, <2>2, <2>3, <3>1 DEF Kept
  <2>6. ProducerWordsHold'
    <3>1. /\ \A k \in 0..producer.next :
               AcceptedPlaces(pstream'.rows, k) = AcceptedPlaces(pstream.rows, k)
          /\ Cardinality(AcceptedPlaces(pstream'.rows, producer.next + 1)) =
               producer.accepted + (IF w.flags = AcceptedFlags THEN 1 ELSE 0)
      BY <1>4, <1>5, <1>9, <2>2, PlacesAppended
    <3>2. w.flags = AcceptedFlags <=> accepted
      BY <1>8 DEF AcceptedFlags, FullFlags
    <3>3. Cardinality(AcceptedPlaces(pstream'.rows, producer.next + 1)) = producer'.accepted
      BY <1>10, <3>1, <3>2
    <3>4. ASSUME NEW n \in 1..(producer.next + 1)
          PROVE  /\ n <= Offered
                 /\ ProducerWordAt(pstream'.rows[n], n)
                 /\ pstream'.rows[n].flags = AcceptedFlags =>
                      pstream'.rows[n].ordinal =
                        Cardinality(AcceptedPlaces(pstream'.rows, n - 1))
      <4>1. CASE n = producer.next + 1
        <5>1. n - 1 = producer.next /\ n <= Offered /\ pstream'.rows[n] = w
          BY <1>3, <2>3, <4>1
        <5>2. ProducerWordAt(w, n)
          <6>1. /\ w.seq = n - 1 /\ w.index = Mapping[n]
                /\ w.sched <= w.begin /\ w.begin <= w.lookup /\ w.lookup <= w.invoke
                /\ w.invoke <= w.done
            BY <1>3, <1>8, <4>1, <5>1
          <6>2. w.flags = AcceptedFlags => w.invoke <= w.lin /\ w.lin <= w.done
            BY <1>3, <1>8, <3>2
          <6>3. w.flags = FullFlags => w.lin = 0 /\ w.ordinal = 0
            BY <1>8 DEF AcceptedFlags, FullFlags
          <6>. QED  BY <6>1, <6>2, <6>3 DEF ProducerWordAt
        <5>3. w.flags = AcceptedFlags =>
                w.ordinal = Cardinality(AcceptedPlaces(pstream'.rows, n - 1))
          <6>1. AcceptedPlaces(pstream'.rows, producer.next) =
                  AcceptedPlaces(pstream.rows, Len(pstream.rows))
            BY <1>3, <1>4, <3>1
          <6>. QED  BY <1>5, <1>8, <3>2, <5>1, <6>1
        <5>. QED  BY <5>1, <5>2, <5>3
      <4>2. CASE n # producer.next + 1
        <5>1. n \in 1..Len(pstream.rows) /\ n - 1 \in 0..producer.next /\ n \in 1..producer.next
          BY <1>3, <1>4, <4>2
        <5>2. pstream'.rows[n] = pstream.rows[n]
              /\ AcceptedPlaces(pstream'.rows, n - 1) = AcceptedPlaces(pstream.rows, n - 1)
          BY <2>3, <3>1, <5>1
        <5>. QED  BY <5>1, <5>2 DEF EvidenceInv, ProducerWordsHold
      <4>. QED  BY <4>1, <4>2
    <3>. QED  BY <2>3, <3>3, <3>4 DEF ProducerWordsHold
  <2>7. InOrderOfAcceptance'
    <3>1. SUFFICES ASSUME faults = 0, consumer.pc # "failed"
                   PROVE  InOrderOfAcceptance'
      BY <1>1 DEF InOrderOfAcceptance
    <3>2. ASSUME NEW o, NEW event, NEW index, NEW t, HandedOver(o, event, index, t)
          PROVE  HandedOver(o, event, index, t)'
      <4>1. CASE \E n \in 1..Len(pstream.rows) :
                   /\ pstream.rows[n].flags = AcceptedFlags /\ pstream.rows[n].ordinal = o
                   /\ pstream.rows[n].seq = event /\ pstream.rows[n].index = index
                   /\ pstream.rows[n].lin <= t
        <5>1. PICK n \in 1..Len(pstream.rows) :
                   /\ pstream.rows[n].flags = AcceptedFlags /\ pstream.rows[n].ordinal = o
                   /\ pstream.rows[n].seq = event /\ pstream.rows[n].index = index
                   /\ pstream.rows[n].lin <= t
          BY <4>1
        <5>2. n \in 1..Len(pstream'.rows) /\ pstream'.rows[n] = pstream.rows[n]
          BY <1>3, <1>4, <2>3
        <5>. QED  BY <5>1, <5>2 DEF HandedOver
      <4>2. CASE /\ producer.pc = "accepted" /\ producer.accepted = o
                 /\ producer.row.seq = event /\ producer.row.index = index
                 /\ producer.row.lin <= t
        <5>1. /\ w.flags = AcceptedFlags /\ w.ordinal = o /\ w.seq = event /\ w.index = index
              /\ w.lin <= t
          BY <1>3, <1>8, <4>2
        <5>2. producer.next + 1 \in 1..Len(pstream'.rows) /\ pstream'.rows[producer.next + 1] = w
          BY <1>3, <2>3
        <5>. QED  BY <5>1, <5>2 DEF HandedOver
      <4>. QED  BY <3>2, <4>1, <4>2 DEF HandedOver
    <3>3. /\ Observed(consumer) + Len(queue) = Published_(producer)
          /\ \A j \in 1..Len(queue) :
               HandedOver(Observed(consumer) + j - 1, queue[j].event, queue[j].index, now)
          /\ consumer.pc = "observed" =>
               HandedOver(Len(consumer.consumed), consumer.row.event, consumer.row.index,
                          consumer.row.lin)
          /\ \A k \in 1..Len(cstream.rows) :
               HandedOver(k - 1, consumer.consumed[k], cstream.rows[k].index,
                          cstream.rows[k].lin)
      BY <1>1, <3>1 DEF EvidenceInv, InOrderOfAcceptance
    <3>4. Published_(producer)' = Published_(producer)
      <4>1. CASE accepted
        BY <1>3, <1>10, <2>1, <4>1 DEF Published_
      <4>2. CASE ~accepted
        BY <1>3, <1>10, <2>1, <4>2 DEF Published_
      <4>. QED  BY <4>1, <4>2
    <3>. QED  BY <1>1, <3>2, <3>3, <3>4 DEF InOrderOfAcceptance, Observed
  <2>. QED  BY <1>2, <1>12, <1>13, <1>14, <1>15, <2>4, <2>5, <2>6, <2>7 DEF EvidenceInv
<1>17. CASE ~appended(pstream)
  <2>1. /\ pstream' = [pstream EXCEPT !.overflowed = TRUE, !.state = "sealed_incomplete"]
        /\ producer'.pc = "failed"
    BY <1>4, <1>6, <1>10, <1>17 DEF append, appended
  <2>2. /\ pstream'.rows = pstream.rows /\ pstream'.capacity = pstream.capacity
        /\ pstream'.state = "sealed_incomplete" /\ pstream'.overflowed /\ pstream'.prepared
        /\ pstream' \in Streams(ProducerWords)
    BY <1>4, <2>1 DEF EvidenceInv, Shape, Streams
  <2>3. Shape'
    BY <1>1, <1>11, <2>2 DEF EvidenceInv, Shape
  <2>4. Kept(pstream, producer.next, producer)'
    BY <1>3, <1>4, <1>10, <2>1, <2>2 DEF Kept, Ended
  <2>5. ProducerWordsHold'
    BY <2>2 DEF EvidenceInv, ProducerWordsHold
  <2>6. InOrderOfAcceptance'
    BY <2>1 DEF InOrderOfAcceptance
  <2>. QED  BY <1>2, <1>12, <1>13, <1>14, <1>15, <2>3, <2>4, <2>5, <2>6 DEF EvidenceInv
<1>. QED  BY <1>16, <1>17

LEMMA DequeueInvokeKeepsInv ==
    ASSUME EvidenceInv, DequeueInvoke
    PROVE  EvidenceInv'
<1>. DEFINE new == [invoke |-> now, lin |-> None, event |-> None, index |-> None]
<1>1. /\ consumer.pc = "idle" /\ consumer' = [consumer EXCEPT !.pc = "invoked", !.row = new]
      /\ UNCHANGED <<now, queue, faults, producer, pstream, cstream, objects, final, graph>>
  BY DEF DequeueInvoke
<1>2. PublicationHolds'
  BY <1>1, Unpublished, StaysUnpublished DEF Ended
<1>3. now \in Nat /\ new \in ConsumerRows /\ new.invoke <= now
  BY DEF EvidenceInv, Shape, ConsumerRows
<1>. HIDE DEF new
<1>4. /\ consumer'.pc = "invoked" /\ consumer'.row = new /\ consumer'.consumed = consumer.consumed
  BY <1>1 DEF EvidenceInv, Shape
<1>5. Shape'
  BY <1>1, <1>3 DEF EvidenceInv, Shape
<1>6. Kept(pstream, producer.next, producer)' /\ Kept(cstream, Len(consumer.consumed), consumer)'
  BY <1>1, <1>4 DEF EvidenceInv, Kept, Ended
<1>7. AttemptInHand' /\ ProducerWordsHold' /\ ConsumerWordsHold' /\ DrainIsEmpty'
  BY <1>1, <1>4
     DEF EvidenceInv, AttemptInHand, ProducerWordsHold, ConsumerWordsHold, DrainIsEmpty
<1>8. ConsumerInHand'
  BY <1>1, <1>3, <1>4 DEF EvidenceInv, ConsumerInHand
<1>9. InOrderOfAcceptance'
  <2>1. \A o, event, index, t : HandedOver(o, event, index, t)' <=> HandedOver(o, event, index, t)
    BY <1>1, HandoverStays
  <2>. QED  BY <1>1, <1>4, <2>1 DEF EvidenceInv, InOrderOfAcceptance, Observed, Published_
<1>. QED  BY <1>2, <1>5, <1>6, <1>7, <1>8, <1>9 DEF EvidenceInv

\* The oldest event is taken, or none is there.
LEMMA DequeueObserveKeepsInv ==
    ASSUME EvidenceInv, DequeueObserve
    PROVE  EvidenceInv'
<1>1. /\ consumer.pc = "invoked"
      /\ UNCHANGED <<now, faults, producer, pstream, cstream, objects, final, graph>>
  BY DEF DequeueObserve
<1>2. PublicationHolds'
  BY <1>1, Unpublished, StaysUnpublished DEF Ended
<1>3. \A o, event, index, t : HandedOver(o, event, index, t)' <=> HandedOver(o, event, index, t)
  BY <1>1, HandoverStays
<1>4. AttemptInHand' /\ ProducerWordsHold'
  BY <1>1 DEF EvidenceInv, AttemptInHand, ProducerWordsHold
<1>5. /\ consumer.row \in ConsumerRows /\ consumer.row.invoke <= now /\ now \in Nat
      /\ Len(consumer.consumed) \in Nat /\ Len(queue) \in Nat
      /\ \A n \in 1..Len(queue) : queue[n] \in [event : Nat, index : Nat]
      /\ consumer.row.invoke \in Nat
  BY <1>1, WordTypes DEF EvidenceInv, ConsumerInHand, Shape, ConsumerRows
<1>6. CASE queue = <<>>
  <2>1. consumer' = [consumer EXCEPT !.pc = "idle", !.row = None] /\ queue' = queue
    BY <1>6 DEF DequeueObserve
  <2>2. consumer'.pc = "idle" /\ consumer'.row = None /\ consumer'.consumed = consumer.consumed
    BY <2>1 DEF EvidenceInv, Shape
  <2>3. Shape'
    BY <1>1, <2>1 DEF EvidenceInv, Shape
  <2>4. Kept(pstream, producer.next, producer)'
        /\ Kept(cstream, Len(consumer.consumed), consumer)'
    BY <1>1, <2>2 DEF EvidenceInv, Kept, Ended
  <2>5. ConsumerInHand' /\ ConsumerWordsHold' /\ DrainIsEmpty'
    BY <1>1, <2>1, <2>2 DEF EvidenceInv, ConsumerInHand, ConsumerWordsHold, DrainIsEmpty
  <2>6. InOrderOfAcceptance'
    BY <1>1, <1>3, <2>1, <2>2 DEF EvidenceInv, InOrderOfAcceptance, Observed, Published_
  <2>. QED  BY <1>2, <1>4, <2>3, <2>4, <2>5, <2>6 DEF EvidenceInv
<1>7. CASE queue # <<>>
  <2>1. /\ consumer' = [consumer EXCEPT !.pc = "observed", !.row.lin = now,
                          !.row.event = queue[1].event, !.row.index = queue[1].index]
        /\ queue' = Tail(queue)
    BY <1>7 DEF DequeueObserve, dequeue_reading
  <2>2. 1 \in 1..Len(queue) /\ queue[1].event \in Nat /\ queue[1].index \in Nat
    BY <1>5, <1>7 DEF EvidenceInv, Shape
  <2>3. /\ consumer'.pc = "observed" /\ consumer'.consumed = consumer.consumed
        /\ consumer'.row = [consumer.row EXCEPT !.lin = now, !.event = queue[1].event,
                                                !.index = queue[1].index]
        /\ consumer' = [pc |-> "observed", consumed |-> consumer.consumed, row |-> consumer'.row]
    BY <2>1 DEF EvidenceInv, Shape
  <2>4. /\ consumer'.row \in ConsumerRows /\ consumer'.row.lin = now
        /\ consumer'.row.invoke = consumer.row.invoke
        /\ consumer'.row.event = queue[1].event /\ consumer'.row.index = queue[1].index
    BY <1>5, <2>2, <2>3 DEF ConsumerRows
  <2>5. /\ queue' \in Seq([event : Nat, index : Nat]) /\ Len(queue') = Len(queue) - 1
        /\ \A j \in 1..(Len(queue) - 1) : queue'[j] = queue[j + 1]
    BY <1>7, <2>1 DEF EvidenceInv, Shape
  <2>6. Shape'
    <3>1. consumer' \in [pc : {"unprepared", "idle", "invoked", "observed", "completed", "failed"},
                         consumed : Seq(Nat), row : ConsumerRows \cup {None}]
      BY <2>3, <2>4 DEF EvidenceInv, Shape
    <3>2. Len(queue') <= QueueCapacity
      BY <1>5, <2>5, RunEvidenceAssumption DEF EvidenceInv, Shape
    <3>. QED  BY <1>1, <2>5, <3>1, <3>2 DEF EvidenceInv, Shape
  <2>7. Kept(pstream, producer.next, producer)'
        /\ Kept(cstream, Len(consumer.consumed), consumer)'
    BY <1>1, <2>3 DEF EvidenceInv, Kept, Ended
  <2>8. ConsumerInHand'
    <3>1. Genuine(queue[1].event, queue[1].index)
      BY <2>2 DEF EvidenceInv, ConsumerInHand
    <3>2. ASSUME NEW j \in 1..Len(queue') PROVE Genuine(queue'[j].event, queue'[j].index)
      <4>1. j + 1 \in 1..Len(queue) /\ queue'[j] = queue[j + 1]
        BY <1>5, <2>5
      <4>. QED  BY <4>1 DEF EvidenceInv, ConsumerInHand
    <3>3. consumer'.row.lin \in consumer'.row.invoke..now
      BY <1>5, <2>4
    <3>4. \A k \in 1..Len(consumer.consumed) : consumer.consumed[k] < Offered
      BY DEF EvidenceInv, ConsumerInHand
    <3>. QED  BY <1>1, <1>5, <2>2, <2>3, <2>4, <3>1, <3>2, <3>3, <3>4
              DEF ConsumerInHand, Genuine
  <2>9. ConsumerWordsHold' /\ DrainIsEmpty'
    BY <1>1, <2>3 DEF EvidenceInv, ConsumerWordsHold, DrainIsEmpty
  <2>10. InOrderOfAcceptance'
    <3>1. SUFFICES ASSUME faults = 0, producer.pc # "failed"
                   PROVE  InOrderOfAcceptance'
      BY <1>1 DEF InOrderOfAcceptance
    <3>2. Observed(consumer) = Len(consumer.consumed)
          /\ Observed(consumer') = Len(consumer.consumed) + 1
      BY <1>1, <1>5, <2>3 DEF Observed
    <3>3. /\ Len(consumer.consumed) + Len(queue) = Published_(producer)
          /\ \A j \in 1..Len(queue) :
               HandedOver(Len(consumer.consumed) + j - 1, queue[j].event, queue[j].index, now)
          /\ \A k \in 1..Len(cstream.rows) :
               HandedOver(k - 1, consumer.consumed[k], cstream.rows[k].index,
                          cstream.rows[k].lin)
      BY <1>1, <3>1, <3>2 DEF EvidenceInv, InOrderOfAcceptance
    <3>4. Observed(consumer') + Len(queue') = Published_(producer)
      BY <1>5, <2>5, <3>2, <3>3
    <3>5. ASSUME NEW j \in 1..Len(queue')
          PROVE  HandedOver(Observed(consumer') + j - 1, queue'[j].event, queue'[j].index, now)
      <4>1. PICK i \in 1..Len(queue) : i = j + 1 /\ queue'[j] = queue[i]
        BY <1>5, <2>5
      <4>2. Observed(consumer') + j - 1 = Len(consumer.consumed) + i - 1
        BY <1>5, <3>2, <4>1
      <4>. QED  BY <3>3, <4>1, <4>2
    <3>6. HandedOver(Len(consumer.consumed), queue[1].event, queue[1].index, now)
      <4>1. Len(consumer.consumed) + 1 - 1 = Len(consumer.consumed)
        BY <1>5
      <4>. QED  BY <2>2, <3>3, <4>1
    <3>. QED  BY <1>1, <1>3, <2>3, <2>4, <3>3, <3>4, <3>5, <3>6 DEF InOrderOfAcceptance, Published_
  <2>. QED  BY <1>2, <1>4, <2>6, <2>7, <2>8, <2>9, <2>10 DEF EvidenceInv
<1>. QED  BY <1>6, <1>7

LEMMA DequeueCompleteKeepsInv ==
    ASSUME EvidenceInv, DequeueComplete
    PROVE  EvidenceInv'
<1>. DEFINE w == consumer_words(consumer.row, Len(consumer.consumed), now)
<1>1. /\ consumer.pc = "observed" /\ cstream' = append(cstream, w)
      /\ consumer' = [consumer EXCEPT !.pc = IF appended(cstream) THEN "idle" ELSE "failed",
                                      !.consumed = Append(@, consumer.row.event), !.row = None]
      /\ UNCHANGED <<now, queue, faults, producer, pstream, objects, final, graph>>
  BY DEF DequeueComplete
<1>2. PublicationHolds'
  BY <1>1, Unpublished, StaysUnpublished DEF Ended
<1>3. /\ consumer.row \in ConsumerRows /\ now \in Nat /\ consumer.consumed \in Seq(Nat)
      /\ Len(consumer.consumed) \in Nat
      /\ consumer.row.event \in Nat /\ consumer.row.index \in Nat
      /\ consumer.row.event < Offered /\ consumer.row.index = Mapping[consumer.row.event + 1]
      /\ consumer.row.invoke \in Nat /\ consumer.row.lin \in Nat
      /\ consumer.row.invoke <= consumer.row.lin /\ consumer.row.lin <= now
  <2>1. consumer.row \in ConsumerRows /\ now \in Nat /\ consumer.consumed \in Seq(Nat)
    BY <1>1 DEF EvidenceInv, Shape, ConsumerInHand
  <2>2. consumer.row.invoke \in Nat
    BY <2>1 DEF ConsumerRows
  <2>. QED  BY <1>1, <2>1, <2>2 DEF EvidenceInv, ConsumerInHand, Genuine
<1>4. /\ cstream.prepared /\ cstream.state = "writing" /\ ~cstream.overflowed
      /\ Len(cstream.rows) = Len(consumer.consumed) /\ Len(cstream.rows) <= cstream.capacity
      /\ cstream.capacity \in Nat /\ cstream.rows \in Seq(ConsumerWords)
  BY <1>1 DEF EvidenceInv, Kept, Ended, Shape, Streams
<1>5. /\ w.ordinal = Len(consumer.consumed) /\ w.index = consumer.row.index
      /\ w.invoke = consumer.row.invoke /\ w.lin = consumer.row.lin /\ w.done = now
      /\ w.action = now /\ w \in ConsumerWords
  BY <1>3 DEF consumer_words, ConsumerWords
<1>. HIDE DEF w
<1>6. /\ consumer'.pc = (IF appended(cstream) THEN "idle" ELSE "failed")
      /\ consumer'.consumed = Append(consumer.consumed, consumer.row.event)
      /\ consumer'.row = None
      /\ consumer' = [pc |-> consumer'.pc, consumed |-> consumer'.consumed, row |-> None]
  BY <1>1 DEF EvidenceInv, Shape
<1>7. /\ consumer'.consumed \in Seq(Nat)
      /\ Len(consumer'.consumed) = Len(consumer.consumed) + 1
      /\ consumer'.consumed[Len(consumer.consumed) + 1] = consumer.row.event
      /\ \A k \in 1..Len(consumer.consumed) : consumer'.consumed[k] = consumer.consumed[k]
  BY <1>3, <1>6
<1>8. consumer' \in [pc : {"unprepared", "idle", "invoked", "observed", "completed", "failed"},
                     consumed : Seq(Nat), row : ConsumerRows \cup {None}]
  <2>1. consumer'.pc \in {"idle", "failed"}
    BY <1>6
  <2>. QED  BY <1>6, <1>7, <2>1
<1>9. Kept(pstream, producer.next, producer)'
  BY <1>1 DEF EvidenceInv, Kept, Ended
<1>10. AttemptInHand' /\ ProducerWordsHold'
  BY <1>1 DEF EvidenceInv, AttemptInHand, ProducerWordsHold
<1>11. ConsumerInHand'
  <2>1. ASSUME NEW k \in 1..Len(consumer'.consumed) PROVE consumer'.consumed[k] < Offered
    <3>1. CASE k = Len(consumer.consumed) + 1
      BY <1>3, <1>7, <3>1
    <3>2. CASE k # Len(consumer.consumed) + 1
      <4>1. k \in 1..Len(consumer.consumed)
        BY <1>3, <1>7, <3>2
      <4>. QED  BY <1>7, <4>1 DEF EvidenceInv, ConsumerInHand
    <3>. QED  BY <3>1, <3>2
  <2>2. consumer'.pc \in {"idle", "failed"}
    BY <1>6
  <2>. QED  BY <1>1, <2>1, <2>2 DEF EvidenceInv, ConsumerInHand
<1>12. DrainIsEmpty'
  <2>1. consumer'.pc \in {"idle", "failed"}
    BY <1>6
  <2>. QED  BY <2>1 DEF DrainIsEmpty
<1>13. CASE appended(cstream)
  <2>1. /\ cstream' = [cstream EXCEPT !.rows = Append(@, w)] /\ Len(cstream.rows) < cstream.capacity
        /\ consumer'.pc = "idle"
    BY <1>1, <1>4, <1>6, <1>13 DEF append, appended
  <2>2. /\ cstream'.rows = Append(cstream.rows, w) /\ cstream'.capacity = cstream.capacity
        /\ cstream'.state = "writing" /\ ~cstream'.overflowed /\ cstream'.prepared
        /\ cstream' \in Streams(ConsumerWords)
    <3>1. cstream \in Streams(ConsumerWords)
      BY DEF EvidenceInv, Shape
    <3>2. Append(cstream.rows, w) \in Seq(ConsumerWords)
      BY <1>4, <1>5
    <3>. QED  BY <1>4, <2>1, <3>1, <3>2 DEF Streams
  <2>3. /\ Len(cstream'.rows) = Len(consumer.consumed) + 1
        /\ cstream'.rows[Len(consumer.consumed) + 1] = w
        /\ \A n \in 1..Len(consumer.consumed) : cstream'.rows[n] = cstream.rows[n]
    <3>1. ASSUME NEW s \in Seq(ConsumerWords), NEW x \in ConsumerWords
          PROVE  /\ Len(Append(s, x)) = Len(s) + 1 /\ Append(s, x)[Len(s) + 1] = x
                 /\ \A n \in 1..Len(s) : Append(s, x)[n] = s[n]
      OBVIOUS
    <3>. QED  BY <1>4, <1>5, <2>2, <3>1
  <2>4. Shape'
    BY <1>1, <1>8, <2>2 DEF EvidenceInv, Shape
  <2>5. Kept(cstream, Len(consumer.consumed), consumer)'
    <3>1. Len(consumer.consumed) + 1 <= cstream.capacity
      BY <1>3, <1>4, <2>1
    <3>. QED  BY <1>7, <2>1, <2>2, <2>3, <3>1 DEF Kept
  <2>6. ConsumerWordsHold'
    <3>1. ASSUME NEW k \in 1..(Len(consumer.consumed) + 1)
          PROVE  /\ k <= Len(consumer'.consumed)
                 /\ cstream'.rows[k].ordinal = k - 1
                 /\ cstream'.rows[k].index = Mapping[consumer'.consumed[k] + 1]
                 /\ cstream'.rows[k].invoke <= cstream'.rows[k].lin
                 /\ cstream'.rows[k].lin <= cstream'.rows[k].done
                 /\ cstream'.rows[k].done <= cstream'.rows[k].action
      <4>. DEFINE last == Len(consumer.consumed) + 1
      <4>1. CASE k = last
        <5>1. cstream'.rows[k] = w /\ consumer'.consumed[k] = consumer.row.event
              /\ k = Len(consumer'.consumed)
          BY <1>7, <2>3, <4>1
        <5>2. /\ w.ordinal = k - 1 /\ k <= k /\ w.index = Mapping[consumer.row.event + 1]
              /\ w.invoke <= w.lin /\ w.lin <= w.done /\ w.done <= w.action
          BY <1>3, <1>5, <4>1
        <5>. QED  BY <5>1, <5>2
      <4>2. CASE k # last
        <5>1. k \in 1..Len(consumer.consumed) /\ k <= Len(consumer.consumed) + 1
          BY <1>3, <4>2
        <5>2. k \in 1..Len(cstream.rows)
          BY <1>4, <5>1
        <5>. QED  BY <1>7, <2>3, <5>1, <5>2 DEF EvidenceInv, ConsumerWordsHold
      <4>. QED  BY <4>1, <4>2
    <3>. QED  BY <2>3, <3>1 DEF ConsumerWordsHold
  <2>7. InOrderOfAcceptance'
    <3>1. SUFFICES ASSUME faults = 0, producer.pc # "failed"
                   PROVE  InOrderOfAcceptance'
      BY <1>1 DEF InOrderOfAcceptance
    <3>2. \A o, event, index, t :
            HandedOver(o, event, index, t)' <=> HandedOver(o, event, index, t)
      BY <1>1, HandoverStays
    <3>3. Observed(consumer) = Len(consumer.consumed) + 1
          /\ Observed(consumer') = Len(consumer.consumed) + 1
      BY <1>1, <1>3, <1>7, <2>1 DEF Observed
    <3>4. /\ Observed(consumer') + Len(queue) = Published_(producer)
          /\ \A j \in 1..Len(queue) :
               HandedOver(Observed(consumer') + j - 1, queue[j].event, queue[j].index, now)
          /\ HandedOver(Len(consumer.consumed), consumer.row.event, consumer.row.index,
                        consumer.row.lin)
          /\ \A k \in 1..Len(cstream.rows) :
               HandedOver(k - 1, consumer.consumed[k], cstream.rows[k].index,
                          cstream.rows[k].lin)
      BY <1>1, <3>1, <3>3 DEF EvidenceInv, InOrderOfAcceptance
    <3>5. ASSUME NEW k \in 1..Len(cstream'.rows)
          PROVE  HandedOver(k - 1, consumer'.consumed[k], cstream'.rows[k].index,
                            cstream'.rows[k].lin)
      <4>1. CASE k = Len(consumer.consumed) + 1
        <5>1. k - 1 = Len(consumer.consumed) /\ consumer'.consumed[k] = consumer.row.event
              /\ cstream'.rows[k].index = consumer.row.index
              /\ cstream'.rows[k].lin = consumer.row.lin
          BY <1>3, <1>5, <1>7, <2>3, <4>1
        <5>. QED  BY <3>4, <5>1
      <4>2. CASE k # Len(consumer.consumed) + 1
        <5>1. k \in 1..Len(consumer.consumed) /\ k \in 1..Len(cstream.rows)
          BY <1>3, <1>4, <2>3, <4>2
        <5>2. cstream'.rows[k] = cstream.rows[k] /\ consumer'.consumed[k] = consumer.consumed[k]
          BY <1>7, <2>3, <5>1
        <5>. QED  BY <3>4, <5>1, <5>2
      <4>. QED  BY <4>1, <4>2
    <3>. QED  BY <1>1, <2>1, <3>2, <3>4, <3>5 DEF InOrderOfAcceptance, Published_
  <2>. QED  BY <1>2, <1>9, <1>10, <1>11, <1>12, <2>4, <2>5, <2>6, <2>7 DEF EvidenceInv
<1>14. CASE ~appended(cstream)
  <2>1. /\ cstream' = [cstream EXCEPT !.overflowed = TRUE, !.state = "sealed_incomplete"]
        /\ consumer'.pc = "failed"
    BY <1>1, <1>4, <1>6, <1>14 DEF append, appended
  <2>2. /\ cstream'.rows = cstream.rows /\ cstream'.capacity = cstream.capacity
        /\ cstream'.state = "sealed_incomplete" /\ cstream'.overflowed /\ cstream'.prepared
        /\ cstream' \in Streams(ConsumerWords)
    BY <1>4, <2>1 DEF EvidenceInv, Shape, Streams
  <2>3. Shape'
    BY <1>1, <1>8, <2>2 DEF EvidenceInv, Shape
  <2>4. Kept(cstream, Len(consumer.consumed), consumer)'
    BY <1>3, <1>4, <1>7, <2>1, <2>2 DEF Kept, Ended
  <2>5. ConsumerWordsHold'
    <3>1. ASSUME NEW k \in 1..Len(cstream.rows)
          PROVE  k \in 1..Len(consumer.consumed) /\ k <= Len(consumer.consumed) + 1
      BY <1>3, <1>4
    <3>. QED  BY <1>7, <2>2, <3>1 DEF EvidenceInv, ConsumerWordsHold
  <2>6. InOrderOfAcceptance'
    BY <2>1 DEF InOrderOfAcceptance
  <2>. QED  BY <1>2, <1>9, <1>10, <1>11, <1>12, <2>3, <2>4, <2>5, <2>6 DEF EvidenceInv
<1>. QED  BY <1>13, <1>14

LEMMA DrainCompleteKeepsInv ==
    ASSUME EvidenceInv, DrainComplete
    PROVE  EvidenceInv'
<1>1. /\ consumer.pc = "idle" /\ producer.pc = "completed" /\ queue = <<>>
      /\ consumer' = [consumer EXCEPT !.pc = "completed"]
      /\ UNCHANGED <<now, queue, faults, producer, pstream, cstream, objects, final, graph>>
  BY DEF DrainComplete
<1>2. PublicationHolds'
  BY <1>1, Unpublished, StaysUnpublished DEF Ended
<1>3. consumer'.pc = "completed" /\ consumer'.consumed = consumer.consumed
  BY <1>1 DEF EvidenceInv, Shape
<1>4. Shape'
  BY <1>1 DEF EvidenceInv, Shape
<1>5. Kept(pstream, producer.next, producer)' /\ Kept(cstream, Len(consumer.consumed), consumer)'
  BY <1>1, <1>3 DEF EvidenceInv, Kept, Ended
<1>6. AttemptInHand' /\ ProducerWordsHold' /\ ConsumerInHand' /\ ConsumerWordsHold'
  BY <1>1, <1>3
     DEF EvidenceInv, AttemptInHand, ProducerWordsHold, ConsumerInHand, ConsumerWordsHold
<1>7. DrainIsEmpty'
  BY <1>1 DEF DrainIsEmpty
<1>8. InOrderOfAcceptance'
  <2>1. \A o, event, index, t : HandedOver(o, event, index, t)' <=> HandedOver(o, event, index, t)
    BY <1>1, HandoverStays
  <2>. QED  BY <1>1, <1>3, <2>1 DEF EvidenceInv, InOrderOfAcceptance, Observed, Published_
<1>. QED  BY <1>2, <1>4, <1>5, <1>6, <1>7, <1>8 DEF EvidenceInv

\* A thread that fails leaves its rows; nothing is claimed of the handover then.
LEMMA ThreadFailsKeepsInv ==
    ASSUME EvidenceInv, ThreadFails
    PROVE  EvidenceInv'
<1>1. UNCHANGED <<now, queue, faults, pstream, cstream, objects, final, graph>>
  BY DEF ThreadFails
<1>2. CASE /\ consumer' = consumer
           /\ \/ /\ producer.pc \in {"invoked", "accepted", "full"}
                 /\ producer' = [producer EXCEPT !.pc = "failed", !.row = None]
              \/ /\ producer.pc = "idle"
                 /\ producer' = [producer EXCEPT !.pc = "failed"]
  <2>1. /\ producer'.pc = "failed" /\ producer'.next = producer.next
        /\ producer'.accepted = producer.accepted /\ ~Ended(producer)
        /\ producer.pc # "unprepared" /\ producer.pc # "completed"
    BY <1>2 DEF EvidenceInv, Shape, Ended
  <2>2. PublicationHolds'
    BY <1>1, <2>1, Unpublished, StaysUnpublished
  <2>3. Shape'
    BY <1>1, <1>2 DEF EvidenceInv, Shape
  <2>4. Kept(pstream, producer.next, producer)'
        /\ Kept(cstream, Len(consumer.consumed), consumer)'
    BY <1>1, <1>2, <2>1 DEF EvidenceInv, Kept, Ended
  <2>5. AttemptInHand' /\ ProducerWordsHold'
    BY <1>1, <2>1 DEF EvidenceInv, AttemptInHand, ProducerWordsHold, InAttempt
  <2>6. ConsumerInHand' /\ ConsumerWordsHold' /\ DrainIsEmpty'
    BY <1>1, <1>2, <2>1 DEF EvidenceInv, ConsumerInHand, ConsumerWordsHold, DrainIsEmpty
  <2>7. InOrderOfAcceptance'
    BY <2>1 DEF InOrderOfAcceptance
  <2>. QED  BY <2>2, <2>3, <2>4, <2>5, <2>6, <2>7 DEF EvidenceInv
<1>3. CASE /\ producer' = producer
           /\ \/ /\ consumer.pc \in {"invoked", "observed"}
                 /\ consumer' = [consumer EXCEPT !.pc = "failed", !.row = None]
              \/ /\ consumer.pc = "idle"
                 /\ consumer' = [consumer EXCEPT !.pc = "failed"]
  <2>1. /\ consumer'.pc = "failed" /\ consumer'.consumed = consumer.consumed
        /\ ~Ended(consumer) /\ consumer.pc # "unprepared"
    BY <1>3 DEF EvidenceInv, Shape, Ended
  <2>2. PublicationHolds'
    BY <1>1, <2>1, Unpublished, StaysUnpublished
  <2>3. Shape'
    BY <1>1, <1>3 DEF EvidenceInv, Shape
  <2>4. Kept(pstream, producer.next, producer)'
        /\ Kept(cstream, Len(consumer.consumed), consumer)'
    BY <1>1, <1>3, <2>1 DEF EvidenceInv, Kept, Ended
  <2>5. AttemptInHand' /\ ProducerWordsHold'
    BY <1>1, <1>3 DEF EvidenceInv, AttemptInHand, ProducerWordsHold
  <2>6. ConsumerInHand' /\ ConsumerWordsHold' /\ DrainIsEmpty'
    BY <1>1, <2>1 DEF EvidenceInv, ConsumerInHand, ConsumerWordsHold, DrainIsEmpty
  <2>7. InOrderOfAcceptance'
    BY <2>1 DEF InOrderOfAcceptance
  <2>. QED  BY <2>2, <2>3, <2>4, <2>5, <2>6, <2>7 DEF EvidenceInv
<1>. QED  BY <1>2, <1>3 DEF ThreadFails

\* What was published does not depend on the clock or the queue.
LEMMA PublicationStays ==
    ASSUME PublicationHolds,
           UNCHANGED <<producer, consumer, pstream, cstream, objects, final, graph>>
    PROVE  PublicationHolds'
<1>1. \A o : ObjectHolds(o)' <=> ObjectHolds(o)
  BY DEF ObjectHolds, Bytes, Envelope
<1>2. Objects' = Objects
  BY DEF Objects, Bytes, Envelope
<1>3. finalization_complete' <=> finalization_complete
  BY DEF finalization_complete, MeasurementCompleted, Published, OutcomeOf
<1>4. OfThisRun(graph)' <=> OfThisRun(graph)
  BY DEF OfThisRun
<1>. QED  BY <1>1, <1>2, <1>3, <1>4 DEF PublicationHolds, Ended

\* A fault of the queue invents no event.
LEMMA QueueFaultKeepsInv ==
    ASSUME EvidenceInv, QueueFault
    PROVE  EvidenceInv'
<1>1. /\ queue # <<>> /\ faults' = faults + 1
      /\ UNCHANGED <<now, producer, consumer, pstream, cstream, objects, final, graph>>
  BY DEF QueueFault, threads
<1>2. PublicationHolds'
  BY <1>1, PublicationStays DEF EvidenceInv
<1>. DEFINE E == [event : Nat, index : Nat]
<1>3. /\ queue \in Seq(E) /\ Len(queue) \in Nat /\ Len(queue) >= 1 /\ Len(queue) <= QueueCapacity
      /\ QueueCapacity \in Nat /\ faults \in Nat
      /\ \A n \in 1..Len(queue) : queue[n] \in E
  <2>1. \A n \in 1..Len(queue) : queue[n] \in E
    BY WordTypes DEF EvidenceInv
  <2>2. queue \in Seq(E)
    BY DEF EvidenceInv, Shape
  <2>3. Len(queue) \in Nat /\ Len(queue) >= 1
    BY <1>1, <2>2
  <2>. QED  BY <2>1, <2>2, <2>3, RunEvidenceAssumption DEF EvidenceInv, Shape
<1>. HIDE DEF E
<1>4. /\ queue' \in Seq(E) /\ Len(queue') <= QueueCapacity
      /\ \A j \in 1..Len(queue') : \E i \in 1..Len(queue) : queue'[j] = queue[i]
  <2>1. CASE queue' = Tail(queue)
    <3>1. /\ queue' \in Seq(E) /\ Len(queue') = Len(queue) - 1
          /\ \A j \in 1..(Len(queue) - 1) : queue'[j] = queue[j + 1]
      BY <1>1, <1>3, <2>1
    <3>2. \A j \in 1..(Len(queue) - 1) : j + 1 \in 1..Len(queue)
      BY <1>3
    <3>. QED  BY <1>3, <3>1, <3>2
  <2>2. CASE Len(queue) < QueueCapacity /\ queue' = <<queue[1]>> \o queue
    <3>1. 1 \in 1..Len(queue) /\ <<queue[1]>> \in Seq(E)
      BY <1>3
    <3>2. queue' \in Seq(E) /\ Len(queue') = Len(queue) + 1
      BY <1>3, <2>2, <3>1
    <3>3. ASSUME NEW j \in 1..(Len(queue) + 1)
          PROVE  \E i \in 1..Len(queue) : queue'[j] = queue[i]
      <4>1. CASE j = 1
        <5>1. queue'[j] = queue[1]
          BY <1>3, <2>2, <3>1, <4>1
        <5>. QED  BY <3>1, <5>1
      <4>2. CASE j # 1
        <5>1. queue'[j] = queue[j - 1] /\ j - 1 \in 1..Len(queue)
          BY <1>3, <2>2, <3>1, <4>2
        <5>. QED  BY <5>1
      <4>. QED  BY <4>1, <4>2
    <3>. QED  BY <1>3, <2>2, <3>2, <3>3
  <2>3. CASE Len(queue) > 1 /\ queue' = <<queue[2], queue[1]>> \o SubSeq(queue, 3, Len(queue))
    <3>. DEFINE rest == SubSeq(queue, 3, Len(queue))
    <3>1. 1 \in 1..Len(queue) /\ 2 \in 1..Len(queue) /\ <<queue[2], queue[1]>> \in Seq(E)
      BY <1>3, <2>3
    <3>2. /\ rest \in Seq(E) /\ Len(rest) = Len(queue) - 2
          /\ \A j \in 1..(Len(queue) - 2) : rest[j] = queue[j + 2]
      BY <1>3, <2>3
    <3>3. queue' = <<queue[2], queue[1]>> \o rest
      BY <2>3
    <3>. HIDE DEF rest
    <3>4. queue' \in Seq(E) /\ Len(queue') = Len(queue)
      BY <1>3, <3>1, <3>2, <3>3
    <3>5. ASSUME NEW j \in 1..Len(queue)
          PROVE  \E i \in 1..Len(queue) : queue'[j] = queue[i]
      <4>1. CASE j = 1
        <5>1. queue'[j] = queue[2]
          BY <1>3, <3>1, <3>2, <3>3, <4>1
        <5>. QED  BY <3>1, <5>1
      <4>2. CASE j = 2
        <5>1. queue'[j] = queue[1]
          BY <1>3, <3>1, <3>2, <3>3, <4>2
        <5>. QED  BY <3>1, <5>1
      <4>3. CASE j \notin {1, 2}
        <5>1. j - 2 \in 1..(Len(queue) - 2) /\ (j - 2) + 2 = j
          BY <1>3, <4>3
        <5>2. queue'[j] = rest[j - 2]
          BY <1>3, <3>1, <3>2, <3>3, <5>1
        <5>3. queue'[j] = queue[j]
          BY <3>2, <5>1, <5>2
        <5>. QED  BY <5>3
      <4>. QED  BY <4>1, <4>2, <4>3
    <3>. QED  BY <1>3, <3>4, <3>5
  <2>. QED  BY <2>1, <2>2, <2>3 DEF QueueFault
<1>5. Shape'
  <2>1. faults' \in Nat
    BY <1>1, <1>3
  <2>. QED  BY <1>1, <1>4, <2>1 DEF EvidenceInv, Shape, E
<1>6. Kept(pstream, producer.next, producer)' /\ Kept(cstream, Len(consumer.consumed), consumer)'
  BY <1>1 DEF EvidenceInv, Kept, Ended
<1>7. AttemptInHand' /\ ProducerWordsHold' /\ ConsumerWordsHold'
  BY <1>1 DEF EvidenceInv, AttemptInHand, ProducerWordsHold, ConsumerWordsHold
<1>8. ConsumerInHand'
  BY <1>1, <1>4 DEF EvidenceInv, ConsumerInHand
<1>9. DrainIsEmpty'
  BY <1>1 DEF EvidenceInv, DrainIsEmpty
<1>10. InOrderOfAcceptance'
  <2>1. faults' # 0
    BY <1>1, <1>3
  <2>. QED  BY <2>1 DEF InOrderOfAcceptance
<1>. QED  BY <1>2, <1>5, <1>6, <1>7, <1>8, <1>9, <1>10 DEF EvidenceInv

\* Sealing changes the state of a stream nobody writes any more.
LEMMA SealKeepsInv ==
    ASSUME EvidenceInv, Seal
    PROVE  EvidenceInv'
<1>1. /\ Ended(producer) /\ Ended(consumer) /\ objects = <<>>
      /\ \/ pstream' = seal_complete(pstream) /\ cstream' = seal_complete(cstream)
         \/ pstream' = seal_incomplete(pstream) /\ cstream' = seal_incomplete(cstream)
      /\ UNCHANGED <<now, queue, faults, producer, consumer, objects, final, graph>>
  BY DEF Seal, threads
<1>2. /\ pstream' = pstream \/ /\ pstream.state = "writing"
                               /\ \E s \in {"sealed_complete", "sealed_incomplete"} :
                                    pstream' = [pstream EXCEPT !.state = s]
      /\ cstream' = cstream \/ /\ cstream.state = "writing"
                               /\ \E s \in {"sealed_complete", "sealed_incomplete"} :
                                    cstream' = [cstream EXCEPT !.state = s]
  BY <1>1 DEF seal_complete, seal_incomplete
<1>3. /\ pstream'.rows = pstream.rows /\ pstream'.capacity = pstream.capacity
      /\ pstream'.overflowed = pstream.overflowed /\ pstream'.prepared = pstream.prepared
      /\ pstream' \in Streams(ProducerWords)
      /\ pstream'.state = pstream.state \/ pstream.state = "writing"
  BY <1>2 DEF EvidenceInv, Shape, Streams
<1>4. /\ cstream'.rows = cstream.rows /\ cstream'.capacity = cstream.capacity
      /\ cstream'.overflowed = cstream.overflowed /\ cstream'.prepared = cstream.prepared
      /\ cstream' \in Streams(ConsumerWords)
      /\ cstream'.state = cstream.state \/ cstream.state = "writing"
  BY <1>2 DEF EvidenceInv, Shape, Streams
<1>5. Shape'
  BY <1>1, <1>3, <1>4 DEF EvidenceInv, Shape
<1>6. Kept(pstream, producer.next, producer)' /\ Kept(cstream, Len(consumer.consumed), consumer)'
  BY <1>1, <1>3, <1>4 DEF EvidenceInv, Kept, Ended
<1>7. AttemptInHand' /\ ProducerWordsHold'
  BY <1>1, <1>3 DEF EvidenceInv, AttemptInHand, ProducerWordsHold
<1>8. ConsumerInHand' /\ ConsumerWordsHold' /\ DrainIsEmpty'
  BY <1>1, <1>4 DEF EvidenceInv, ConsumerInHand, ConsumerWordsHold, DrainIsEmpty
<1>9. InOrderOfAcceptance'
  <2>1. \A o, event, index, t : HandedOver(o, event, index, t)' <=> HandedOver(o, event, index, t)
    BY <1>1, <1>3, HandoverStays
  <2>. QED  BY <1>1, <1>4, <2>1 DEF EvidenceInv, InOrderOfAcceptance, Observed, Published_
<1>10. PublicationHolds'
  <2>1. OfThisRun(graph)' <=> OfThisRun(graph)
    BY <1>1 DEF OfThisRun
  <2>2. ~finalization_complete
    BY <1>1 DEF finalization_complete, Published
  <2>3. DOMAIN objects = {} /\ objects' \in Seq(Objects')
    BY <1>1
  <2>. QED  BY <1>1, <2>1, <2>2, <2>3 DEF EvidenceInv, PublicationHolds, Ended
<1>. QED  BY <1>5, <1>6, <1>7, <1>8, <1>9, <1>10 DEF EvidenceInv

\* One more object: what it holds is what the sealed streams hold.
LEMMA PublishKeepsInv ==
    ASSUME EvidenceInv, Finalizing,
           NEW name \in ObjectNames, NEW complete \in BOOLEAN,
           NEW bytes \in {Integrity, Bytes(pstream), Bytes(cstream),
                          Envelope("producer", "producer_raw", pstream),
                          Envelope("consumer", "consumer_raw", cstream)},
           name = "producer_raw" =>
             bytes = Bytes(pstream) /\ (complete => pstream.state = "sealed_complete"),
           name = "consumer_raw" =>
             bytes = Bytes(cstream) /\ (complete => cstream.state = "sealed_complete"),
           name = "producer_envelope" =>
             bytes = Envelope("producer", "producer_raw", pstream),
           name = "consumer_envelope" =>
             bytes = Envelope("consumer", "consumer_raw", cstream),
           Publish(name, complete, bytes)
    PROVE  EvidenceInv'
<1>1. PICK outcome \in outcomes_for(complete) :
        /\ objects' = Append(objects, [object |-> name, outcome |-> outcome, bytes |-> bytes])
        /\ final' = IF outcome = "error" THEN "error" ELSE final
        /\ UNCHANGED <<now, queue, faults, threads, pstream, cstream, graph>>
  BY DEF Publish
<1>2. UNCHANGED <<now, queue, faults, producer, consumer, pstream, cstream, graph>>
  BY <1>1 DEF threads
<1>3. outcome \in Outcomes /\ (outcome = "sealed" => complete)
  <2>1. CASE complete
    BY <2>1 DEF outcomes_for, Outcomes
  <2>2. CASE ~complete
    BY <2>2 DEF outcomes_for, Outcomes
  <2>. QED  BY <2>1, <2>2
<1>4. final = None /\ Ended(producer) /\ Ended(consumer) /\ graph = None
  BY RunEvidenceAssumption DEF Finalizing, EvidenceInv, PublicationHolds
<1>. DEFINE object == [object |-> name, outcome |-> outcome, bytes |-> bytes]
<1>5. ObjectHolds(object) /\ object \in Objects
  BY <1>3 DEF ObjectHolds, Objects
<1>6. objects' = Append(objects, object)
  BY <1>1
<1>. HIDE DEF object
<1>7. objects \in Seq(Objects) /\ \A n \in DOMAIN objects : ObjectHolds(objects[n])
  BY DEF EvidenceInv, PublicationHolds
<1>8. /\ objects' \in Seq(Objects) /\ Len(objects') = Len(objects) + 1
      /\ DOMAIN objects' = 1..(Len(objects) + 1) /\ DOMAIN objects = 1..Len(objects)
      /\ objects'[Len(objects) + 1] = object /\ Len(objects) \in Nat
      /\ \A n \in 1..Len(objects) : objects'[n] = objects[n]
  <2>. HIDE DEF Objects
  <2>. QED  BY <1>5, <1>6, <1>7
<1>9. \A n \in DOMAIN objects' : ObjectHolds(objects'[n])
  <2>1. ASSUME NEW n \in 1..(Len(objects) + 1) PROVE ObjectHolds(objects'[n])
    <3>1. CASE n = Len(objects) + 1
      BY <1>5, <1>8, <3>1
    <3>2. CASE n # Len(objects) + 1
      <4>1. n \in 1..Len(objects)
        BY <1>8, <3>2
      <4>. QED  BY <1>7, <1>8, <4>1
    <3>. QED  BY <3>1, <3>2
  <2>. QED  BY <1>8, <2>1
<1>10. PublicationHolds'
  <2>1. \A o : ObjectHolds(o)' <=> ObjectHolds(o)
    BY <1>2 DEF ObjectHolds, Bytes, Envelope
  <2>2. Objects' = Objects
    BY <1>2 DEF Objects, Bytes, Envelope
  <2>3. final' \in {None, "error"} /\ graph' = None /\ Ended(producer)' /\ Ended(consumer)'
    BY <1>1, <1>2, <1>4 DEF Ended
  <2>4. final' # "sealed_complete"
    BY <2>3, RunEvidenceAssumption
  <2>. QED  BY <1>8, <1>9, <2>1, <2>2, <2>3, <2>4 DEF PublicationHolds
<1>11. Shape'
  BY <1>2 DEF EvidenceInv, Shape
<1>12. Kept(pstream, producer.next, producer)' /\ Kept(cstream, Len(consumer.consumed), consumer)'
  BY <1>2 DEF EvidenceInv, Kept, Ended
<1>13. AttemptInHand' /\ ProducerWordsHold' /\ ConsumerInHand' /\ ConsumerWordsHold'
  BY <1>2
     DEF EvidenceInv, AttemptInHand, ProducerWordsHold, ConsumerInHand, ConsumerWordsHold
<1>14. InOrderOfAcceptance' /\ DrainIsEmpty'
  <2>1. \A o, event, index, t : HandedOver(o, event, index, t)' <=> HandedOver(o, event, index, t)
    BY <1>2, HandoverStays
  <2>. QED  BY <1>2, <2>1
            DEF EvidenceInv, InOrderOfAcceptance, DrainIsEmpty, Observed, Published_
<1>. QED  BY <1>10, <1>11, <1>12, <1>13, <1>14 DEF EvidenceInv

\* The rest of a step that only ends the finalization or submits a graph.
LEMMA RestStays ==
    ASSUME EvidenceInv, PublicationHolds',
           UNCHANGED <<now, queue, faults, producer, consumer, pstream, cstream>>
    PROVE  EvidenceInv'
<1>1. Shape'
  BY DEF EvidenceInv, Shape
<1>2. Kept(pstream, producer.next, producer)' /\ Kept(cstream, Len(consumer.consumed), consumer)'
  BY DEF EvidenceInv, Kept, Ended
<1>3. AttemptInHand' /\ ProducerWordsHold' /\ ConsumerInHand' /\ ConsumerWordsHold'
  BY DEF EvidenceInv, AttemptInHand, ProducerWordsHold, ConsumerInHand, ConsumerWordsHold
<1>4. InOrderOfAcceptance' /\ DrainIsEmpty'
  <2>1. \A o, event, index, t : HandedOver(o, event, index, t)' <=> HandedOver(o, event, index, t)
    BY HandoverStays
  <2>. QED  BY <2>1 DEF EvidenceInv, InOrderOfAcceptance, DrainIsEmpty, Observed, Published_
<1>. QED  BY <1>1, <1>2, <1>3, <1>4 DEF EvidenceInv

\* A finalization that ends in an error.
LEMMA FinalErrorKeepsInv ==
    ASSUME EvidenceInv, Finalizing, final' = "error",
           UNCHANGED <<now, queue, faults, threads, pstream, cstream, objects, graph>>
    PROVE  EvidenceInv'
<1>1. UNCHANGED <<now, queue, faults, producer, consumer, pstream, cstream, objects, graph>>
  BY DEF threads
<1>2. final = None /\ Ended(producer) /\ Ended(consumer) /\ graph = None
  BY RunEvidenceAssumption DEF Finalizing, EvidenceInv, PublicationHolds
<1>3. \A o : ObjectHolds(o)' <=> ObjectHolds(o)
  BY <1>1 DEF ObjectHolds, Bytes, Envelope
<1>4. Objects' = Objects
  BY <1>1 DEF Objects, Bytes, Envelope
<1>5. PublicationHolds'
  BY <1>1, <1>2, <1>3, <1>4 DEF EvidenceInv, PublicationHolds, Ended
<1>. QED  BY <1>1, <1>5, RestStays

LEMMA PublishProducerKeepsInv ==
    ASSUME EvidenceInv, PublishProducer
    PROVE  EvidenceInv'
<1>1. CASE PublishRaw("producer_raw", "integrity", pstream)
  <2>1. Finalizing
    BY <1>1 DEF PublishRaw
  <2>2. CASE Publish("producer_raw", pstream.state = "sealed_complete", Bytes(pstream))
    BY <2>1, <2>2, PublishKeepsInv DEF ObjectNames
  <2>3. CASE /\ final' = "error"
             /\ UNCHANGED <<now, queue, faults, threads, pstream, cstream, objects, graph>>
    BY <2>1, <2>3, FinalErrorKeepsInv
  <2>. QED  BY <1>1, <2>2, <2>3 DEF PublishRaw
<1>2. CASE PublishEnvelope("producer_envelope", "producer_raw", "producer", pstream)
  <2>1. Finalizing
        /\ Publish("producer_envelope", TRUE, Envelope("producer", "producer_raw", pstream))
    BY <1>2 DEF PublishEnvelope
  <2>. QED  BY <2>1, PublishKeepsInv DEF ObjectNames
<1>. QED  BY <1>1, <1>2 DEF PublishProducer

LEMMA PublishConsumerKeepsInv ==
    ASSUME EvidenceInv, PublishConsumer
    PROVE  EvidenceInv'
<1>1. CASE PublishRaw("consumer_raw", "producer_raw", cstream)
  <2>1. Finalizing
    BY <1>1 DEF PublishRaw
  <2>2. CASE Publish("consumer_raw", cstream.state = "sealed_complete", Bytes(cstream))
    BY <2>1, <2>2, PublishKeepsInv DEF ObjectNames
  <2>3. CASE /\ final' = "error"
             /\ UNCHANGED <<now, queue, faults, threads, pstream, cstream, objects, graph>>
    BY <2>1, <2>3, FinalErrorKeepsInv
  <2>. QED  BY <1>1, <2>2, <2>3 DEF PublishRaw
<1>2. CASE PublishEnvelope("consumer_envelope", "consumer_raw", "consumer", cstream)
  <2>1. Finalizing
        /\ Publish("consumer_envelope", TRUE, Envelope("consumer", "consumer_raw", cstream))
    BY <1>2 DEF PublishEnvelope
  <2>. QED  BY <2>1, PublishKeepsInv DEF ObjectNames
<1>. QED  BY <1>1, <1>2 DEF PublishConsumer

LEMMA FinalizeKeepsInv ==
    ASSUME EvidenceInv, Finalize
    PROVE  EvidenceInv'
<1>1. /\ Finalizing /\ final' = IF finalization_complete THEN "sealed_complete" ELSE "incomplete"
      /\ UNCHANGED <<now, queue, faults, producer, consumer, pstream, cstream, objects, graph>>
  BY DEF Finalize, threads
<1>2. final = None /\ Ended(producer) /\ Ended(consumer) /\ graph = None
  BY <1>1, RunEvidenceAssumption DEF Finalizing, EvidenceInv, PublicationHolds
<1>3. \A o : ObjectHolds(o)' <=> ObjectHolds(o)
  BY <1>1 DEF ObjectHolds, Bytes, Envelope
<1>4. Objects' = Objects
  BY <1>1 DEF Objects, Bytes, Envelope
<1>5. finalization_complete' <=> finalization_complete
  BY <1>1 DEF finalization_complete, MeasurementCompleted, Published, OutcomeOf
<1>6. PublicationHolds'
  BY <1>1, <1>2, <1>3, <1>4, <1>5 DEF EvidenceInv, PublicationHolds, Ended
<1>. QED  BY <1>1, <1>6, RestStays

LEMMA SubmitKeepsInv ==
    ASSUME EvidenceInv, Submit
    PROVE  EvidenceInv'
<1>1. /\ final # None /\ OfThisRun(graph')
      /\ UNCHANGED <<now, queue, faults, producer, consumer, pstream, cstream, objects, final>>
  BY DEF Submit, threads
<1>2. \A o : ObjectHolds(o)' <=> ObjectHolds(o)
  BY <1>1 DEF ObjectHolds, Bytes, Envelope
<1>3. Objects' = Objects
  BY <1>1 DEF Objects, Bytes, Envelope
<1>4. finalization_complete' <=> finalization_complete
  BY <1>1 DEF finalization_complete, MeasurementCompleted, Published, OutcomeOf
<1>5. OfThisRun(graph)'
  BY <1>1 DEF OfThisRun
<1>6. PublicationHolds'
  BY <1>1, <1>2, <1>3, <1>4, <1>5 DEF EvidenceInv, PublicationHolds, Ended
<1>. QED  BY <1>1, <1>6, RestStays

\* EvidenceInv holds in every state of RunEvidence: whatever the threads, the
\* queue and the publication did (raw_observations.cpp, finalization.cpp).
THEOREM EvidenceInvariant == Spec => []EvidenceInv
<1>1. EvidenceInv /\ [Next]_vars => EvidenceInv'
  <2> SUFFICES ASSUME EvidenceInv, [Next]_vars PROVE EvidenceInv'
    OBVIOUS
  <2>1. CASE PrepareProducer \/ PrepareConsumer
    BY <2>1, PrepareKeepsInv
  <2>2. CASE Tick
    BY <2>2, TickKeepsInv
  <2>3. CASE EnqueueInvoke
    BY <2>3, EnqueueInvokeKeepsInv
  <2>4. CASE EnqueuePublish
    BY <2>4, EnqueuePublishKeepsInv
  <2>5. CASE EnqueueComplete
    BY <2>5, EnqueueCompleteKeepsInv
  <2>6. CASE DequeueInvoke
    BY <2>6, DequeueInvokeKeepsInv
  <2>7. CASE DequeueObserve
    BY <2>7, DequeueObserveKeepsInv
  <2>8. CASE DequeueComplete
    BY <2>8, DequeueCompleteKeepsInv
  <2>9. CASE DrainComplete
    BY <2>9, DrainCompleteKeepsInv
  <2>10. CASE ThreadFails
    BY <2>10, ThreadFailsKeepsInv
  <2>11. CASE QueueFault
    BY <2>11, QueueFaultKeepsInv
  <2>12. CASE Seal
    BY <2>12, SealKeepsInv
  <2>13. CASE PublishIntegrity
    <3>1. Finalizing /\ Publish("integrity", TRUE, Integrity)
      BY <2>13 DEF PublishIntegrity
    <3>. QED  BY <3>1, PublishKeepsInv DEF ObjectNames
  <2>14. CASE PublishProducer
    BY <2>14, PublishProducerKeepsInv
  <2>15. CASE PublishConsumer
    BY <2>15, PublishConsumerKeepsInv
  <2>16. CASE Finalize
    BY <2>16, FinalizeKeepsInv
  <2>17. CASE Submit
    BY <2>17, SubmitKeepsInv
  <2>18. CASE UNCHANGED vars
    <3>1. UNCHANGED <<now, queue, faults, producer, consumer, pstream, cstream, objects, final,
                      graph>>
      BY <2>18 DEF vars
    <3>2. PublicationHolds'
      BY <3>1, PublicationStays DEF EvidenceInv
    <3>. QED  BY <3>1, <3>2, RestStays
  <2>. QED  BY <2>1, <2>2, <2>3, <2>4, <2>5, <2>6, <2>7, <2>8, <2>9, <2>10, <2>11, <2>12,
               <2>13, <2>14, <2>15, <2>16, <2>17, <2>18 DEF Next
<1>. QED  BY <1>1, EvidenceInvInit, PTL DEF Spec

-----------------------------------------------------------------------------
(* Nothing is left out silently                                            *)

LEMMA SealedObject ==
    ASSUME EvidenceInv, finalization_complete, NEW name \in ObjectNames
    PROVE  \E n \in DOMAIN objects :
             objects[n].object = name /\ objects[n].outcome = "sealed" /\ ObjectHolds(objects[n])
<1>1. Published(name) /\ OutcomeOf(name) = "sealed"
  BY DEF finalization_complete, ObjectNames
<1>2. PICK n : n = CHOOSE k \in DOMAIN objects : objects[k].object = name
  OBVIOUS
<1>3. n \in DOMAIN objects /\ objects[n].object = name
  BY <1>1, <1>2 DEF Published
<1>4. objects[n].outcome = "sealed"
  BY <1>1, <1>2 DEF OutcomeOf
<1>. QED  BY <1>3, <1>4 DEF EvidenceInv, PublicationHolds

LEMMA WholeStreams == EvidenceInv => StreamsAreWhole
<1> SUFFICES ASSUME EvidenceInv PROVE StreamsAreWhole
  OBVIOUS
<1>1. EvidenceTypeOK
  <2>1. producer.next \in 0..Len(Schedule) /\ producer.accepted \in 0..producer.next
    BY RunEvidenceAssumption DEF EvidenceInv, Shape, AttemptInHand, Offered
  <2>2. \A n \in DOMAIN objects : objects[n].outcome \in Outcomes
    BY DEF EvidenceInv, PublicationHolds, ObjectHolds
  <2>3. \A s \in {pstream, cstream} :
          /\ Len(s.rows) <= s.capacity
          /\ s.state \in {"writing", "sealed_complete", "sealed_incomplete"}
    BY DEF EvidenceInv, Kept, Shape, Streams
  <2>. QED  BY <2>1, <2>2, <2>3 DEF EvidenceTypeOK, EvidenceInv, Shape, PublicationHolds
<1>2. CompleteStreamIsWhole
  BY DEF CompleteStreamIsWhole, EvidenceInv, Kept
<1>3. SealedRunIsWhole
  <2> SUFFICES ASSUME final = "sealed_complete" PROVE SealedRunIsWhole
    BY DEF SealedRunIsWhole
  <2>1. finalization_complete /\ MeasurementCompleted
    BY DEF EvidenceInv, PublicationHolds, finalization_complete
  <2>2. PICK p \in DOMAIN objects :
          objects[p].object = "producer_raw" /\ objects[p].outcome = "sealed"
          /\ ObjectHolds(objects[p])
    BY <2>1, SealedObject DEF ObjectNames
  <2>3. PICK q \in DOMAIN objects :
          objects[q].object = "producer_envelope" /\ objects[q].outcome = "sealed"
          /\ ObjectHolds(objects[q])
    BY <2>1, SealedObject DEF ObjectNames
  <2>4. PICK c \in DOMAIN objects :
          objects[c].object = "consumer_raw" /\ objects[c].outcome = "sealed"
          /\ ObjectHolds(objects[c])
    BY <2>1, SealedObject DEF ObjectNames
  <2>5. PICK d \in DOMAIN objects :
          objects[d].object = "consumer_envelope" /\ objects[d].outcome = "sealed"
          /\ ObjectHolds(objects[d])
    BY <2>1, SealedObject DEF ObjectNames
  <2>6. /\ pstream.state = "sealed_complete" /\ objects[p].bytes = Bytes(pstream)
        /\ cstream.state = "sealed_complete" /\ objects[c].bytes = Bytes(cstream)
        /\ objects[q].bytes = Envelope("producer", "producer_raw", pstream)
        /\ objects[d].bytes = Envelope("consumer", "consumer_raw", cstream)
    BY <2>2, <2>3, <2>4, <2>5 DEF ObjectHolds
  <2>7. /\ objects[q].bytes.id = objects[p].object /\ objects[q].bytes.sha = objects[p].bytes
        /\ objects[d].bytes.id = objects[c].object /\ objects[d].bytes.sha = objects[c].bytes
    <3>1. \A kind, id, s : /\ Envelope(kind, id, s).id = id
                           /\ Envelope(kind, id, s).sha = Bytes(s)
      BY DEF Envelope
    <3>. QED  BY <2>2, <2>4, <2>6, <3>1
  <2>8. Whole
    BY <2>1, <2>6 DEF Whole
  <2>9. Len(pstream.rows) = Len(Schedule)
    BY <2>1, <2>6 DEF EvidenceInv, Kept, AttemptInHand, MeasurementCompleted, Offered
  <2>. QED  BY <2>2, <2>3, <2>4, <2>5, <2>7, <2>8, <2>9 DEF SealedRunIsWhole
<1>. QED  BY <1>1, <1>2, <1>3 DEF StreamsAreWhole

\* A stream that says it is complete has the row of every step its thread took,
\* and a run sealed as complete has both streams whole in what was published
\* (append and seal_complete of raw_observations.cpp, finalize_run_observations).
THEOREM NothingIsTruncated == Spec => []StreamsAreWhole
BY EvidenceInvariant, WholeStreams, PTL

-----------------------------------------------------------------------------
(* What is read back of the streams                                        *)

ReadBack(words) == [n \in DOMAIN words |-> producer_row(words[n])]

LEMMA ProducerDecodes ==
    ASSUME EvidenceInv, NEW id
    PROVE  decode_external_raw(Envelope("producer", id, pstream), Bytes(pstream)) =
             ReadBack(pstream.rows)
<1>. DEFINE e == Envelope("producer", id, pstream)
            words == pstream.rows
            rows == ReadBack(words)
<1>1. /\ e.kind = "producer" /\ e.sources = <<>> /\ e.sha = Bytes(pstream)
      /\ e.rows = Len(words) /\ e.run = "run" /\ Bytes(pstream).run = "run"
      /\ Bytes(pstream).words = words
  BY DEF Envelope, Bytes
<1>. HIDE DEF e
<1>2. /\ DOMAIN words = 1..Len(words) /\ Len(words) \in Nat
      /\ \A n \in 1..Len(words) : words[n] \in ProducerWords /\ ProducerWordAt(words[n], n)
      /\ \A n \in 1..Len(words) :
           words[n].flags = AcceptedFlags =>
             words[n].ordinal = Cardinality(AcceptedPlaces(words, n - 1))
  <2>1. words \in Seq(ProducerWords)
    BY DEF EvidenceInv, Shape, Streams
  <2>2. DOMAIN words = 1..Len(words) /\ Len(words) \in Nat
    BY <2>1
  <2>. QED  BY <2>2, WordTypes DEF EvidenceInv, ProducerWordsHold
<1>3. canonical_words("producer", words)
  <2>1. ASSUME NEW n \in DOMAIN words
        PROVE  /\ words[n].seq = n - 1
               /\ \/ words[n].flags = AcceptedFlags
                     /\ words[n].ordinal = AcceptedBefore(words, n)
                  \/ words[n].flags = FullFlags /\ words[n].lin = 0 /\ words[n].ordinal = 0
    <3>1. AcceptedBefore(words, n) = Cardinality(AcceptedPlaces(words, n - 1))
      BY DEF AcceptedBefore, AcceptedPlaces
    <3>2. words[n].flags \in {AcceptedFlags, FullFlags}
      BY <1>2 DEF ProducerWords
    <3>. QED  BY <1>2, <3>1, <3>2 DEF ProducerWordAt
  <2>. QED  BY <2>1 DEF canonical_words
<1>4. logical_rows_valid("producer", rows)
  <2>1. ASSUME NEW n \in DOMAIN rows
        PROVE  LET r == rows[n] IN
               /\ nondecreasing(<<r.sched, r.begin, r.lookup, r.invoke, r.done>>)
               /\ r.outcome = "accepted" => r.lin \in r.invoke..r.done
    <3>. DEFINE w == words[n]
                r == rows[n]
    <3>1. n \in 1..Len(words) /\ r = producer_row(w)
      BY <1>2 DEF ReadBack
    <3>2. w \in ProducerWords /\ ProducerWordAt(w, n)
      BY <1>2, <3>1
    <3>. HIDE DEF r, w
    <3>3. /\ r.sched = w.sched /\ r.begin = w.begin /\ r.lookup = w.lookup
          /\ r.invoke = w.invoke /\ r.done = w.done
          /\ r.outcome = "accepted" => w.flags = AcceptedFlags /\ r.lin = w.lin
      BY <3>1 DEF producer_row
    <3>4. nondecreasing(<<r.sched, r.begin, r.lookup, r.invoke, r.done>>)
      BY <3>2, <3>3 DEF nondecreasing, ProducerWordAt
    <3>5. r.outcome = "accepted" => r.lin \in r.invoke..r.done
      BY <3>2, <3>3 DEF ProducerWords, ProducerWordAt
    <3>. QED  BY <3>4, <3>5 DEF r
  <2>. QED  BY <2>1 DEF logical_rows_valid
<1>. QED  BY <1>1, <1>3, <1>4 DEF decode_external_raw, ReadBack, e

LEMMA ConsumerDecodes ==
    ASSUME EvidenceInv, NEW id
    PROVE  decode_external_raw(Envelope("consumer", id, cstream), Bytes(cstream)) = cstream.rows
<1>. DEFINE e == Envelope("consumer", id, cstream)
            words == cstream.rows
<1>1. /\ e.kind = "consumer" /\ e.sources = <<>> /\ e.sha = Bytes(cstream)
      /\ e.rows = Len(words) /\ e.run = "run" /\ Bytes(cstream).run = "run"
      /\ Bytes(cstream).words = words
  BY DEF Envelope, Bytes
<1>. HIDE DEF e
<1>2. /\ DOMAIN words = 1..Len(words)
      /\ \A n \in 1..Len(words) : words[n] \in ConsumerWords
  <2>1. words \in Seq(ConsumerWords)
    BY DEF EvidenceInv, Shape, Streams
  <2>2. DOMAIN words = 1..Len(words)
    BY <2>1
  <2>. QED  BY <2>2, WordTypes DEF EvidenceInv
<1>3. canonical_words("consumer", words)
  BY <1>2 DEF EvidenceInv, ConsumerWordsHold, canonical_words
<1>4. logical_rows_valid("consumer", words)
  <2>1. ASSUME NEW n \in DOMAIN words
        PROVE  nondecreasing(<<words[n].invoke, words[n].lin, words[n].done, words[n].action>>)
    BY <1>2 DEF EvidenceInv, ConsumerWordsHold, nondecreasing
  <2>. QED  BY <2>1 DEF logical_rows_valid
<1>. QED  BY <1>1, <1>3, <1>4 DEF decode_external_raw, e

\* The join is the one of the rows read back.
LEMMA JoinIs ==
    ASSUME EvidenceInv
    PROVE  Join = reconcile(ReadBack(pstream.rows), cstream.rows, Mapping)
BY ProducerDecodes, ConsumerDecodes DEF Join, Decoded

-----------------------------------------------------------------------------
(* The join                                                                *)

LEMMA PlacesCount ==
    ASSUME NEW words, NEW n \in Nat
    PROVE  IsFiniteSet(AcceptedPlaces(words, n)) /\ Cardinality(AcceptedPlaces(words, n)) \in Nat
<1>1. IsFiniteSet(1..n) /\ AcceptedPlaces(words, n) \subseteq 1..n
  BY FS_Interval DEF AcceptedPlaces
<1>. QED  BY <1>1, FS_Subset, FS_CardinalityType

\* Two accepted rows never have the same number of accepted rows before them.
LEMMA OrdinalsDiffer ==
    ASSUME NEW words, NEW m \in Nat, NEW n \in Nat, 1 <= m, m < n,
           words[m].flags = AcceptedFlags
    PROVE  Cardinality(AcceptedPlaces(words, m - 1)) < Cardinality(AcceptedPlaces(words, n - 1))
<1>1. PICK i \in Nat, j \in Nat : i = m - 1 /\ j = n - 1
  OBVIOUS
<1>2. /\ IsFiniteSet(AcceptedPlaces(words, i)) /\ Cardinality(AcceptedPlaces(words, i)) \in Nat
      /\ IsFiniteSet(AcceptedPlaces(words, j)) /\ Cardinality(AcceptedPlaces(words, j)) \in Nat
  BY PlacesCount
<1>3. m \notin AcceptedPlaces(words, i)
      /\ AcceptedPlaces(words, i) \cup {m} \subseteq AcceptedPlaces(words, j)
  BY <1>1 DEF AcceptedPlaces
<1>4. Cardinality(AcceptedPlaces(words, i) \cup {m}) = Cardinality(AcceptedPlaces(words, i)) + 1
  BY <1>2, <1>3, FS_AddElement
<1>5. Cardinality(AcceptedPlaces(words, i) \cup {m}) <= Cardinality(AcceptedPlaces(words, j))
  BY <1>2, <1>3, FS_Subset
<1>. QED  BY <1>1, <1>2, <1>4, <1>5

\* The producer rows, as they are written and as they are read back.
LEMMA RowsReadBack ==
    ASSUME EvidenceInv
    PROVE  LET words == pstream.rows
               rows == ReadBack(words)
           IN /\ words \in Seq(ProducerWords) /\ Len(words) \in Nat
              /\ DOMAIN words = 1..Len(words) /\ DOMAIN rows = 1..Len(words)
              /\ Len(rows) = Len(words)
              /\ \A n \in 1..Len(words) :
                   /\ words[n] \in ProducerWords /\ rows[n] = producer_row(words[n])
                   /\ words[n].seq = n - 1 /\ words[n].index = Mapping[n]
                   /\ rows[n].seq = n - 1 /\ rows[n].index = Mapping[n]
                   /\ Shaped(rows[n]) <=> words[n].flags = AcceptedFlags
                   /\ rows[n].outcome = "accepted" <=> words[n].flags = AcceptedFlags
                   /\ words[n].flags # AcceptedFlags =>
                        rows[n].outcome = "full" /\ rows[n].ordinal = None /\ rows[n].lin = None
                   /\ words[n].flags = AcceptedFlags =>
                        /\ rows[n].lin = words[n].lin /\ rows[n].ordinal = words[n].ordinal
                        /\ words[n].ordinal = Cardinality(AcceptedPlaces(words, n - 1))
                        /\ words[n].ordinal \in Nat
<1>. DEFINE words == pstream.rows
            rows == ReadBack(words)
<1>1. words \in Seq(ProducerWords)
  BY DEF EvidenceInv, Shape, Streams
<1>2. Len(words) \in Nat /\ DOMAIN words = 1..Len(words)
  BY <1>1
<1>3. DOMAIN rows = 1..Len(words) /\ Len(rows) = Len(words)
  BY <1>2 DEF ReadBack
<1>4. ASSUME NEW n \in 1..Len(words)
      PROVE  /\ words[n] \in ProducerWords /\ rows[n] = producer_row(words[n])
             /\ words[n].seq = n - 1 /\ words[n].index = Mapping[n]
             /\ rows[n].seq = n - 1 /\ rows[n].index = Mapping[n]
             /\ Shaped(rows[n]) <=> words[n].flags = AcceptedFlags
             /\ rows[n].outcome = "accepted" <=> words[n].flags = AcceptedFlags
             /\ words[n].flags # AcceptedFlags =>
                  rows[n].outcome = "full" /\ rows[n].ordinal = None /\ rows[n].lin = None
             /\ words[n].flags = AcceptedFlags =>
                  /\ rows[n].lin = words[n].lin /\ rows[n].ordinal = words[n].ordinal
                  /\ words[n].ordinal = Cardinality(AcceptedPlaces(words, n - 1))
                  /\ words[n].ordinal \in Nat
  <2>1. /\ words[n] \in ProducerWords /\ ProducerWordAt(words[n], n)
        /\ words[n].flags = AcceptedFlags =>
             words[n].ordinal = Cardinality(AcceptedPlaces(words, n - 1))
    BY WordTypes DEF EvidenceInv, ProducerWordsHold
  <2>2. rows[n] = producer_row(words[n])
    BY <1>2 DEF ReadBack
  <2>3. words[n].ordinal \in Nat /\ words[n].lin \in Nat
    BY <2>1 DEF ProducerWords
  <2>4. None \notin Nat
    BY RunEvidenceAssumption
  <2>. DEFINE w == words[n]
  <2>. HIDE DEF w
  <2>5. /\ producer_row(w).seq = w.seq /\ producer_row(w).index = w.index
        /\ w.flags = AcceptedFlags =>
             /\ producer_row(w).outcome = "accepted" /\ producer_row(w).lin = w.lin
             /\ producer_row(w).ordinal = w.ordinal
        /\ w.flags # AcceptedFlags =>
             /\ producer_row(w).outcome = "full" /\ producer_row(w).lin = None
             /\ producer_row(w).ordinal = None
    BY DEF producer_row
  <2>. QED  BY <2>1, <2>2, <2>3, <2>4, <2>5 DEF Shaped, ProducerWordAt, w
<1>. QED  BY <1>1, <1>2, <1>3, <1>4

\* The k-th accepted row is the one with k - 1 accepted rows before it.
LEMMA AcceptedRowsAre ==
    ASSUME EvidenceInv
    PROVE  LET words == pstream.rows
               kept == in_order(AcceptedPlaces(words, Len(words)), Len(words))
               accepted == accepted_rows(ReadBack(words))
           IN /\ Len(accepted) = Cardinality(AcceptedPlaces(words, Len(words)))
              /\ DOMAIN accepted = 1..Len(accepted) /\ Len(accepted) \in Nat
              /\ Len(kept) = Len(accepted) /\ DOMAIN kept = DOMAIN accepted
              /\ \A j \in 1..Len(accepted) :
                   /\ accepted[j] = [row |-> ReadBack(words)[kept[j]], place |-> kept[j] - 1]
                   /\ kept[j] \in 1..Len(words) /\ words[kept[j]].flags = AcceptedFlags
                   /\ words[kept[j]].ordinal = j - 1
<1>. DEFINE words == pstream.rows
            rows == ReadBack(words)
            L == Len(words)
            S == AcceptedPlaces(words, L)
            kept == in_order(S, L)
            accepted == accepted_rows(rows)
<1>1. /\ L \in Nat /\ DOMAIN rows = 1..L /\ Len(rows) = L
      /\ \A n \in 1..L : Shaped(rows[n]) <=> words[n].flags = AcceptedFlags
      /\ \A n \in 1..L : words[n].flags = AcceptedFlags =>
           words[n].ordinal = Cardinality(AcceptedPlaces(words, n - 1))
  BY RowsReadBack
<1>2. {n \in DOMAIN rows : Shaped(rows[n])} = S
  BY <1>1 DEF AcceptedPlaces
<1>. HIDE DEF rows
<1>3. accepted = [k \in DOMAIN kept |-> [row |-> rows[kept[k]], place |-> kept[k] - 1]]
  BY <1>1, <1>2 DEF accepted_rows
<1>4. \A n \in 0..L : Below(S, n) = AcceptedPlaces(words, n)
  BY <1>1 DEF Below, AcceptedPlaces
<1>. HIDE DEF S, L
<1>5. /\ kept \in Seq(Nat) /\ Len(kept) = Cardinality(Below(S, L))
      /\ \A j \in 1..Len(kept) :
           kept[j] \in 1..L /\ kept[j] \in S /\ Cardinality(Below(S, kept[j] - 1)) = j - 1
  BY <1>1, InOrderKeeps
<1>. HIDE DEF kept, accepted
<1>6. /\ Len(kept) \in Nat /\ DOMAIN kept = 1..Len(kept)
  BY <1>5
<1>7. DOMAIN accepted = 1..Len(kept) /\ Len(accepted) = Len(kept)
  BY <1>3, <1>6
<1>8. Len(accepted) = Cardinality(AcceptedPlaces(words, L))
  BY <1>1, <1>4, <1>5, <1>7
<1>9. ASSUME NEW j \in 1..Len(kept)
      PROVE  /\ accepted[j] = [row |-> rows[kept[j]], place |-> kept[j] - 1]
             /\ kept[j] \in 1..L /\ words[kept[j]].flags = AcceptedFlags
             /\ words[kept[j]].ordinal = j - 1
  <2>1. kept[j] \in 1..L /\ kept[j] \in S /\ Cardinality(Below(S, kept[j] - 1)) = j - 1
    BY <1>5
  <2>2. words[kept[j]].flags = AcceptedFlags
    BY <2>1 DEF S, AcceptedPlaces
  <2>3. kept[j] - 1 \in 0..L
    BY <1>1, <2>1
  <2>. QED  BY <1>1, <1>3, <1>4, <1>6, <2>1, <2>2, <2>3
<1>. QED  BY <1>6, <1>7, <1>8, <1>9 DEF S, L, kept, accepted, rows

LEMMA AtEmpty ==
    ASSUME NEW class, NEW places
    PROVE  At(class, places) = {} <=> places = {}
BY DEF At

\* The audit of the producer rows finds nothing but a missing row.
LEMMA ProducerAudit ==
    ASSUME EvidenceInv
    PROVE  producer_issues(ReadBack(pstream.rows), Mapping) = {}
             <=> Len(pstream.rows) = Len(Mapping)
<1>. DEFINE words == pstream.rows
            rows == ReadBack(words)
            before(n) == Cardinality({k \in 1..(n - 1) : Shaped(rows[k])})
            count == {n \in {0} : Len(rows) # Len(Mapping)}
            sequence == {n \in DOMAIN rows : rows[n].seq # n - 1}
            mapped == {n \in DOMAIN rows \cap DOMAIN Mapping : rows[n].index # Mapping[n]}
            shape == {n \in DOMAIN rows :
                        IF rows[n].outcome = "accepted" THEN ~Shaped(rows[n])
                        ELSE rows[n].ordinal # None \/ rows[n].lin # None}
            ordinals == {n \in DOMAIN rows : Shaped(rows[n]) /\ rows[n].ordinal # before(n)}
<1>1. /\ DOMAIN rows = 1..Len(words) /\ Len(rows) = Len(words) /\ Len(words) \in Nat
      /\ \A n \in 1..Len(words) :
           /\ rows[n].seq = n - 1 /\ rows[n].index = Mapping[n]
           /\ Shaped(rows[n]) <=> words[n].flags = AcceptedFlags
           /\ rows[n].outcome = "accepted" <=> words[n].flags = AcceptedFlags
           /\ words[n].flags # AcceptedFlags => rows[n].ordinal = None /\ rows[n].lin = None
           /\ words[n].flags = AcceptedFlags =>
                rows[n].ordinal = Cardinality(AcceptedPlaces(words, n - 1))
  BY RowsReadBack
<1>2. producer_issues(rows, Mapping) =
        At("producer_count", count) \cup At("producer_logical_sequence", sequence)
        \cup At("producer_record_mapping", mapped) \cup At("producer_outcome_shape", shape)
        \cup At("accepted_ordinal", ordinals)
  BY DEF producer_issues
<1>. HIDE DEF rows
<1>3. sequence = {} /\ mapped = {} /\ shape = {}
  BY <1>1
<1>4. \A n \in 1..Len(words) : before(n) = Cardinality(AcceptedPlaces(words, n - 1))
  <2>1. ASSUME NEW n \in 1..Len(words)
        PROVE  {k \in 1..(n - 1) : Shaped(rows[k])} = AcceptedPlaces(words, n - 1)
    <3>1. \A k \in 1..(n - 1) : k \in 1..Len(words)
      BY <1>1
    <3>2. \A k \in 1..(n - 1) : Shaped(rows[k]) <=> words[k].flags = AcceptedFlags
      BY <1>1, <3>1
    <3>. QED  BY <3>2 DEF AcceptedPlaces
  <2>. QED  BY <2>1
<1>. HIDE DEF before
<1>5. ordinals = {}
  BY <1>1, <1>4
<1>6. count = {} <=> Len(words) = Len(Mapping)
  BY <1>1
<1>. HIDE DEF count, sequence, mapped, shape, ordinals
<1>. QED  BY <1>2, <1>3, <1>5, <1>6, AtEmpty DEF rows

\* The audit of the consumer rows: one to every accepted row, with its record.
LEMMA ConsumerAudit ==
    ASSUME EvidenceInv
    PROVE  LET accepted == accepted_rows(ReadBack(pstream.rows))
               rows == cstream.rows
           IN consumer_issues(rows, accepted) = {}
                <=> /\ Len(rows) = Len(accepted)
                    /\ \A n \in 1..Len(rows) : rows[n].index = accepted[n].row.index
<1>. DEFINE words == pstream.rows
            accepted == accepted_rows(ReadBack(words))
            kept == in_order(AcceptedPlaces(words, Len(words)), Len(words))
            rows == cstream.rows
            count == {n \in {0} : Len(rows) # Len(accepted)}
            ordinals == {n \in DOMAIN rows \cap DOMAIN accepted :
                           rows[n].ordinal # n - 1 \/ rows[n].ordinal # accepted[n].row.ordinal}
            indices == {n \in DOMAIN rows \cap DOMAIN accepted :
                          rows[n].index # accepted[n].row.index}
<1>1. /\ DOMAIN accepted = 1..Len(accepted) /\ Len(accepted) \in Nat
      /\ \A j \in 1..Len(accepted) :
           /\ accepted[j] = [row |-> ReadBack(words)[kept[j]], place |-> kept[j] - 1]
           /\ kept[j] \in 1..Len(words) /\ words[kept[j]].flags = AcceptedFlags
           /\ words[kept[j]].ordinal = j - 1
  BY AcceptedRowsAre
<1>2. /\ DOMAIN rows = 1..Len(rows) /\ Len(rows) \in Nat
      /\ \A n \in 1..Len(rows) : rows[n].ordinal = n - 1
  <2>1. rows \in Seq(ConsumerWords)
    BY DEF EvidenceInv, Shape, Streams
  <2>2. DOMAIN rows = 1..Len(rows) /\ Len(rows) \in Nat
    BY <2>1
  <2>. QED  BY <2>2 DEF EvidenceInv, ConsumerWordsHold
<1>3. consumer_issues(rows, accepted) =
        At("consumer_count", count) \cup At("consumer_ordinal", ordinals)
        \cup At("consumer_record_index", indices)
  BY DEF consumer_issues
<1>4. ASSUME NEW j \in 1..Len(accepted)
      PROVE  accepted[j].row.ordinal = j - 1
  <2>1. \A n \in 1..Len(words) :
          words[n].flags = AcceptedFlags => ReadBack(words)[n].ordinal = words[n].ordinal
    BY RowsReadBack
  <2>2. accepted[j].row = ReadBack(words)[kept[j]]
    <3>. HIDE DEF accepted, kept
    <3>. QED  BY <1>1
  <2>. QED  BY <1>1, <2>1, <2>2
<1>. HIDE DEF accepted
<1>5. ordinals = {}
  BY <1>1, <1>2, <1>4
<1>6. count = {} <=> Len(rows) = Len(accepted)
  BY <1>1, <1>2
<1>7. Len(rows) = Len(accepted) =>
        (indices = {} <=> \A n \in 1..Len(rows) : rows[n].index = accepted[n].row.index)
  BY <1>1, <1>2
<1>. HIDE DEF count, ordinals, indices
<1>8. consumer_issues(rows, accepted) = {} <=> count = {} /\ indices = {}
  BY <1>3, <1>5, AtEmpty
<1>9. consumer_issues(rows, accepted) = {}
        <=> /\ Len(rows) = Len(accepted)
            /\ \A n \in 1..Len(rows) : rows[n].index = accepted[n].row.index
  BY <1>6, <1>7, <1>8
<1>. QED  BY <1>9 DEF accepted

\* What reconcile gives, step by step.
LEMMA ReconcileIs ==
    ASSUME NEW producers, NEW consumers, NEW mapping
    PROVE  LET result == reconcile(producers, consumers, mapping)
               accepted == accepted_rows(producers)
               audit == producer_issues(producers, mapping) \cup consumer_issues(consumers, accepted)
           IN /\ result.producer_rows = Len(producers) /\ result.accepted_rows = Len(accepted)
              /\ result.consumer_rows = Len(consumers)
              /\ result.full_rows =
                   Cardinality({n \in DOMAIN producers : producers[n].outcome = "full"})
              /\ result.status = "passed" => result.issues = {}
              /\ result.issues = {} => audit = {}
<1>. DEFINE accepted == accepted_rows(producers)
            audit == producer_issues(producers, mapping) \cup consumer_issues(consumers, accepted)
            pair(n) == derive_joined_record(accepted[n].row, accepted[n].place,
                                            consumers[n], n - 1)
            derived == IF audit # {} THEN <<>> ELSE [n \in DOMAIN accepted |-> pair(n)]
            late == {n \in DOMAIN derived : derived[n] = None}
            issues == audit \cup At("timestamp_order", late)
            result == reconcile(producers, consumers, mapping)
<1>1. result = [status |-> IF issues = {} THEN "passed" ELSE "failed",
                producer_rows |-> Len(producers), accepted_rows |-> Len(accepted),
                full_rows |-> Cardinality({n \in DOMAIN producers : producers[n].outcome = "full"}),
                consumer_rows |-> Len(consumers),
                joined |-> IF issues = {} THEN derived ELSE <<>>, issues |-> issues]
  BY DEF reconcile
<1>. HIDE DEF accepted, audit, pair
<1>. HIDE DEF late, derived
<1>2. issues = {} => audit = {}
  OBVIOUS
<1>. HIDE DEF issues, result
<1>3. /\ result.producer_rows = Len(producers) /\ result.accepted_rows = Len(accepted)
      /\ result.consumer_rows = Len(consumers)
      /\ result.full_rows = Cardinality({n \in DOMAIN producers : producers[n].outcome = "full"})
      /\ result.issues = issues
      /\ result.status = IF issues = {} THEN "passed" ELSE "failed"
  BY <1>1
<1>. QED  BY <1>2, <1>3 DEF accepted, audit, result

LEMMA ReconcilePasses ==
    ASSUME NEW producers, NEW consumers, NEW mapping, NEW accepted,
           accepted = accepted_rows(producers),
           producer_issues(producers, mapping) = {}, consumer_issues(consumers, accepted) = {},
           \A n \in DOMAIN accepted :
             derive_joined_record(accepted[n].row, accepted[n].place, consumers[n], n - 1) # None
    PROVE  reconcile(producers, consumers, mapping).status = "passed"
<1>. DEFINE audit == producer_issues(producers, mapping) \cup consumer_issues(consumers, accepted)
            pair(n) == derive_joined_record(accepted[n].row, accepted[n].place,
                                            consumers[n], n - 1)
            derived == IF audit # {} THEN <<>> ELSE [n \in DOMAIN accepted |-> pair(n)]
            late == {n \in DOMAIN derived : derived[n] = None}
            issues == audit \cup At("timestamp_order", late)
<1>1. reconcile(producers, consumers, mapping).status = IF issues = {} THEN "passed" ELSE "failed"
  BY DEF reconcile
<1>2. audit = {} /\ \A n \in DOMAIN accepted : pair(n) # None
  OBVIOUS
<1>. HIDE DEF audit, pair
<1>3. late = {}
  BY <1>2
<1>. HIDE DEF late
<1>4. issues = {}
  BY <1>2, <1>3, AtEmpty
<1>. QED  BY <1>1, <1>4

\* An accepted row and the row of its dequeue give the joined record.
LEMMA PairIsJoined ==
    ASSUME NEW w \in ProducerWords, NEW place \in Nat, NEW n \in Nat, ProducerWordAt(w, n),
           w.flags = AcceptedFlags, NEW c \in ConsumerWords, NEW crow \in Nat,
           c.ordinal = w.ordinal, c.index = w.index,
           c.invoke <= c.lin, c.lin <= c.done, c.done <= c.action, w.lin <= c.lin
    PROVE  derive_joined_record(producer_row(w), place, c, crow) # None
<1>. DEFINE p == producer_row(w)
<1>1. /\ p.seq = w.seq /\ p.index = w.index /\ p.sched = w.sched /\ p.begin = w.begin
      /\ p.lookup = w.lookup /\ p.invoke = w.invoke /\ p.lin = w.lin /\ p.done = w.done
      /\ p.outcome = "accepted" /\ p.ordinal = w.ordinal
  BY DEF producer_row
<1>. HIDE DEF p
<1>2. /\ w.seq \in Nat /\ w.index \in Nat /\ w.sched \in Nat /\ w.begin \in Nat
      /\ w.lookup \in Nat /\ w.invoke \in Nat /\ w.lin \in Nat /\ w.done \in Nat
      /\ w.ordinal \in Nat
  BY DEF ProducerWords
<1>3. /\ c.ordinal \in Nat /\ c.index \in Nat /\ c.invoke \in Nat /\ c.lin \in Nat
      /\ c.done \in Nat /\ c.action \in Nat
  BY DEF ConsumerWords
<1>4. timestamps_ordered(p, c)
  <2>1. nondecreasing(<<p.sched, p.begin, p.lookup, p.invoke, p.lin, p.done>>)
    BY <1>1 DEF nondecreasing, ProducerWordAt
  <2>2. nondecreasing(<<c.invoke, c.lin, c.done, c.action>>)
    BY DEF nondecreasing
  <2>. QED  BY <1>1, <2>1, <2>2 DEF timestamps_ordered
<1>5. joined_record(p, place, c, crow) \in JoinedRecords
  <2>1. <<p.sched, p.begin, p.lookup, p.invoke, p.lin, p.done,
          c.invoke, c.lin, c.done, c.action>> \in Seq(Nat)
    BY <1>1, <1>2, <1>3
  <2>2. /\ p.begin - p.sched \in Int /\ p.lookup - p.begin \in Int /\ p.done - p.invoke \in Int
        /\ p.lin - p.sched \in Int /\ c.lin - p.lin \in Int /\ c.done - c.invoke \in Int
        /\ c.action - c.lin \in Int /\ c.action - c.done \in Int /\ c.action - p.sched \in Int
    BY <1>1, <1>2, <1>3
  <2>. QED  BY <1>1, <1>2, <2>1, <2>2 DEF joined_record, JoinedRecords
<1>6. p.lin # None /\ p.ordinal # None
  BY <1>1, <1>2, RunEvidenceAssumption
<1>7. derive_joined_record(p, place, c, crow) = joined_record(p, place, c, crow)
  BY <1>1, <1>4, <1>6 DEF derive_joined_record
<1>. QED  BY <1>5, <1>7, ReconciliationAssumption DEF p

LEMMA WholeRun ==
    ASSUME EvidenceInv, Whole
    PROVE  /\ producer.pc = "completed" /\ consumer.pc = "completed" /\ queue = <<>>
           /\ ~pstream.overflowed /\ ~cstream.overflowed
           /\ Len(pstream.rows) = Len(Mapping)
           /\ Len(cstream.rows) = Len(consumer.consumed)
           /\ producer.accepted = Cardinality(AcceptedPlaces(pstream.rows, Len(pstream.rows)))
<1>1. /\ producer.pc = "completed" /\ consumer.pc = "completed"
      /\ pstream.state = "sealed_complete" /\ cstream.state = "sealed_complete"
  BY DEF Whole, MeasurementCompleted
<1>2. ~pstream.overflowed /\ ~cstream.overflowed
  BY <1>1 DEF EvidenceInv, Kept
<1>3. Len(pstream.rows) = producer.next /\ Len(cstream.rows) = Len(consumer.consumed)
  BY <1>2 DEF EvidenceInv, Kept
<1>4. producer.next = Len(Mapping)
  BY <1>1, RunEvidenceAssumption DEF EvidenceInv, AttemptInHand, Offered
<1>. QED  BY <1>1, <1>2, <1>3, <1>4 DEF EvidenceInv, DrainIsEmpty, ProducerWordsHold

\* The events the k-th dequeue and the k-th accepted row are of, and their
\* readings, over a queue without a fault.
LEMMA PartnersMatch ==
    ASSUME EvidenceInv, Whole, faults = 0
    PROVE  LET words == pstream.rows
               kept == in_order(AcceptedPlaces(words, Len(words)), Len(words))
           IN /\ Len(cstream.rows) = Cardinality(AcceptedPlaces(words, Len(words)))
              /\ \A k \in 1..Len(cstream.rows) :
                   /\ words[kept[k]].index = cstream.rows[k].index
                   /\ words[kept[k]].lin <= cstream.rows[k].lin
<1>. DEFINE words == pstream.rows
            kept == in_order(AcceptedPlaces(words, Len(words)), Len(words))
            accepted == accepted_rows(ReadBack(words))
<1>1. /\ Observed(consumer) + Len(queue) = Published_(producer)
      /\ \A k \in 1..Len(cstream.rows) :
           HandedOver(k - 1, consumer.consumed[k], cstream.rows[k].index, cstream.rows[k].lin)
  BY WholeRun DEF EvidenceInv, InOrderOfAcceptance
<1>2. Len(consumer.consumed) = producer.accepted
  <2>1. Len(consumer.consumed) \in Nat /\ producer.accepted \in Nat
    BY WordTypes DEF EvidenceInv, Shape
  <2>2. Len(queue) = 0
    BY WholeRun
  <2>3. Observed(consumer) = Len(consumer.consumed) /\ Published_(producer) = producer.accepted
    <3>1. producer.pc = "completed" /\ consumer.pc = "completed"
      BY WholeRun
    <3>. QED  BY <2>1, <3>1 DEF Observed, Published_
  <2>. QED  BY <1>1, <2>1, <2>2, <2>3
<1>3. Len(cstream.rows) = Cardinality(AcceptedPlaces(words, Len(words)))
  BY <1>2, WholeRun
<1>4. /\ Len(accepted) = Cardinality(AcceptedPlaces(words, Len(words)))
      /\ \A j \in 1..Len(accepted) :
           /\ kept[j] \in 1..Len(words) /\ words[kept[j]].flags = AcceptedFlags
           /\ words[kept[j]].ordinal = j - 1
  BY AcceptedRowsAre
<1>5. ASSUME NEW k \in 1..Len(cstream.rows)
      PROVE  /\ words[kept[k]].index = cstream.rows[k].index
             /\ words[kept[k]].lin <= cstream.rows[k].lin
  <2>1. PICK m \in 1..Len(words) :
          /\ words[m].flags = AcceptedFlags /\ words[m].ordinal = k - 1
          /\ words[m].index = cstream.rows[k].index /\ words[m].lin <= cstream.rows[k].lin
    BY <1>1, WholeRun DEF HandedOver
  <2>2. PICK i \in 1..Len(words) :
          i = kept[k] /\ words[i].flags = AcceptedFlags /\ words[i].ordinal = k - 1
    BY <1>3, <1>4
  <2>3. /\ words[m].ordinal = Cardinality(AcceptedPlaces(words, m - 1))
        /\ words[i].ordinal = Cardinality(AcceptedPlaces(words, i - 1))
        /\ words[m].ordinal \in Nat
    BY <2>1, <2>2, RowsReadBack
  <2>4. m \in Nat /\ i \in Nat /\ 1 <= m /\ 1 <= i
    OBVIOUS
  <2>5. ASSUME m < i PROVE FALSE
    <3>1. Cardinality(AcceptedPlaces(words, m - 1)) < Cardinality(AcceptedPlaces(words, i - 1))
      BY <2>1, <2>4, <2>5, OrdinalsDiffer
    <3>. QED  BY <2>1, <2>2, <2>3, <3>1
  <2>6. ASSUME i < m PROVE FALSE
    <3>1. Cardinality(AcceptedPlaces(words, i - 1)) < Cardinality(AcceptedPlaces(words, m - 1))
      BY <2>2, <2>4, <2>6, OrdinalsDiffer
    <3>. QED  BY <2>1, <2>2, <2>3, <3>1
  <2>7. m = i
    BY <2>4, <2>5, <2>6
  <2>. QED  BY <2>1, <2>2, <2>7
<1>. QED  BY <1>3, <1>5

LEMMA SoundJoin == EvidenceInv => SoundRunJoins
<1> SUFFICES ASSUME EvidenceInv, Whole, faults = 0 PROVE Join.status = "passed"
  BY DEF SoundRunJoins
<1>. DEFINE words == pstream.rows
            rows == ReadBack(words)
            accepted == accepted_rows(rows)
            kept == in_order(AcceptedPlaces(words, Len(words)), Len(words))
<1>1. /\ Len(cstream.rows) = Cardinality(AcceptedPlaces(words, Len(words)))
      /\ \A k \in 1..Len(cstream.rows) :
           words[kept[k]].index = cstream.rows[k].index
           /\ words[kept[k]].lin <= cstream.rows[k].lin
  BY PartnersMatch
<1>2. /\ Len(accepted) = Cardinality(AcceptedPlaces(words, Len(words)))
      /\ DOMAIN accepted = 1..Len(accepted) /\ Len(accepted) \in Nat
      /\ \A j \in 1..Len(accepted) :
           /\ accepted[j] = [row |-> rows[kept[j]], place |-> kept[j] - 1]
           /\ kept[j] \in 1..Len(words) /\ words[kept[j]].flags = AcceptedFlags
           /\ words[kept[j]].ordinal = j - 1
  BY AcceptedRowsAre
<1>3. \A n \in 1..Len(words) :
        /\ words[n] \in ProducerWords /\ rows[n] = producer_row(words[n])
        /\ rows[n].index = words[n].index
  BY RowsReadBack DEF producer_row
<1>4. producer_issues(rows, Mapping) = {}
  BY ProducerAudit, WholeRun
<1>. HIDE DEF accepted, kept, rows
<1>5. consumer_issues(cstream.rows, accepted) = {}
  <2>1. Len(cstream.rows) = Len(accepted)
    BY <1>1, <1>2
  <2>2. ASSUME NEW n \in 1..Len(cstream.rows)
        PROVE  cstream.rows[n].index = accepted[n].row.index
    <3>1. accepted[n].row = rows[kept[n]] /\ kept[n] \in 1..Len(words)
      BY <1>2, <2>1
    <3>. QED  BY <1>1, <1>3, <3>1
  <2>. QED  BY <2>1, <2>2, ConsumerAudit DEF accepted, rows
<1>6. ASSUME NEW n \in DOMAIN accepted
      PROVE  derive_joined_record(accepted[n].row, accepted[n].place, cstream.rows[n], n - 1)
               # None
  <2>1. n \in 1..Len(accepted) /\ n \in 1..Len(cstream.rows) /\ n - 1 \in Nat
    BY <1>1, <1>2
  <2>2. PICK k \in 1..Len(words) : k = kept[n]
    BY <1>2, <2>1
  <2>3. /\ accepted[n].row = producer_row(words[k]) /\ accepted[n].place = k - 1
        /\ words[k] \in ProducerWords /\ words[k].flags = AcceptedFlags
        /\ words[k].ordinal = n - 1
    <3>1. accepted[n] = [row |-> rows[k], place |-> k - 1]
      BY <1>2, <2>1, <2>2
    <3>2. words[k].flags = AcceptedFlags /\ words[k].ordinal = n - 1
      BY <1>2, <2>1, <2>2
    <3>3. words[k] \in ProducerWords /\ rows[k] = producer_row(words[k])
      BY <1>3, <2>2
    <3>. QED  BY <3>1, <3>2, <3>3
  <2>4. k \in Nat /\ k - 1 \in Nat /\ ProducerWordAt(words[k], k)
    BY <2>2 DEF EvidenceInv, ProducerWordsHold
  <2>5. /\ cstream.rows[n] \in ConsumerWords /\ cstream.rows[n].ordinal = n - 1
        /\ cstream.rows[n].invoke <= cstream.rows[n].lin
        /\ cstream.rows[n].lin <= cstream.rows[n].done
        /\ cstream.rows[n].done <= cstream.rows[n].action
    BY <2>1, WordTypes DEF EvidenceInv, ConsumerWordsHold
  <2>6. cstream.rows[n].index = words[k].index /\ words[k].lin <= cstream.rows[n].lin
    BY <1>1, <2>1, <2>2
  <2>7. derive_joined_record(producer_row(words[k]), k - 1, cstream.rows[n], n - 1) # None
    BY <2>1, <2>3, <2>4, <2>5, <2>6, PairIsJoined
  <2>. QED  BY <2>3, <2>7
<1>7. reconcile(rows, cstream.rows, Mapping).status = "passed"
  BY <1>4, <1>5, <1>6, ReconcilePasses DEF accepted
<1>. QED  BY <1>7, JoinIs DEF rows

LEMMA PassedJoin == EvidenceInv => PassedJoinIsExact
<1> SUFFICES ASSUME EvidenceInv, Whole, Join.status = "passed"
             PROVE  /\ Len(consumer.consumed) = Len(AcceptedEvents)
                    /\ \A n \in DOMAIN AcceptedEvents :
                         Mapping[consumer.consumed[n] + 1] = Mapping[AcceptedEvents[n] + 1]
  BY DEF PassedJoinIsExact
<1>. DEFINE words == pstream.rows
            rows == ReadBack(words)
            accepted == accepted_rows(rows)
            kept == in_order(AcceptedPlaces(words, Len(words)), Len(words))
<1>1. /\ DOMAIN accepted = 1..Len(accepted) /\ Len(accepted) \in Nat
      /\ Len(kept) = Len(accepted) /\ DOMAIN kept = DOMAIN accepted
      /\ \A j \in 1..Len(accepted) :
           /\ accepted[j] = [row |-> rows[kept[j]], place |-> kept[j] - 1]
           /\ kept[j] \in 1..Len(words)
  BY AcceptedRowsAre
<1>2. /\ DOMAIN words = 1..Len(words)
      /\ \A n \in 1..Len(words) :
           n \in Nat /\ words[n].seq = n - 1 /\ rows[n].index = Mapping[n]
  BY RowsReadBack
<1>3. AcceptedEvents = [n \in DOMAIN kept |-> words[kept[n]].seq]
  <2>1. {n \in DOMAIN words : words[n].flags = AcceptedFlags} = AcceptedPlaces(words, Len(words))
    BY <1>2 DEF AcceptedPlaces
  <2>. QED  BY <2>1 DEF AcceptedEvents
<1>4. reconcile(rows, cstream.rows, Mapping).status = "passed"
  BY JoinIs
<1>5. consumer_issues(cstream.rows, accepted) = {}
  <2>1. producer_issues(rows, Mapping) \cup consumer_issues(cstream.rows, accepted) = {}
    <3>. HIDE DEF rows
    <3>. QED  BY <1>4, ReconcileIs
  <2>. QED  BY <2>1
<1>6. /\ Len(cstream.rows) = Len(accepted)
      /\ \A n \in 1..Len(cstream.rows) : cstream.rows[n].index = accepted[n].row.index
  BY <1>5, ConsumerAudit
<1>. HIDE DEF accepted, kept, rows
<1>7. DOMAIN AcceptedEvents = 1..Len(accepted) /\ Len(AcceptedEvents) = Len(accepted)
  BY <1>1, <1>3
<1>8. Len(consumer.consumed) = Len(AcceptedEvents)
  BY <1>6, <1>7, WholeRun
<1>9. ASSUME NEW n \in 1..Len(accepted)
      PROVE  Mapping[consumer.consumed[n] + 1] = Mapping[AcceptedEvents[n] + 1]
  <2>1. PICK k \in 1..Len(words) : k = kept[n]
    BY <1>1
  <2>2. AcceptedEvents[n] = k - 1 /\ (k - 1) + 1 = k
    BY <1>1, <1>2, <1>3, <2>1
  <2>3. accepted[n].row.index = Mapping[k]
    BY <1>1, <1>2, <2>1
  <2>4. cstream.rows[n].index = Mapping[consumer.consumed[n] + 1]
    BY <1>6 DEF EvidenceInv, ConsumerWordsHold
  <2>. QED  BY <1>6, <2>2, <2>3, <2>4
<1>. QED  BY <1>7, <1>8, <1>9

\* The join of reconcile passes for every sound run whatever the readings of the
\* two threads interleaved to, and a join that passed found every event handed
\* over once, with the record it was accepted with.
THEOREM JoinIsExactAlways == Spec => []JoinIsExact
<1>1. EvidenceInv => JoinIsExact
  BY SoundJoin, PassedJoin DEF JoinIsExact
<1>. QED  BY <1>1, EvidenceInvariant, PTL

-----------------------------------------------------------------------------
(* What an accepted manifest says                                          *)

\* The gates of a status that says the run is valid are those of its counts.
LEMMA ValidMeansCompleted ==
    ASSUME NEW g, status_agrees(g), g.manifest.validity = "valid"
    PROVE  g.manifest.lifecycle = "completed" /\ g.manifest.counts # None
<1>. DEFINE m == g.manifest
            unknown == [status |-> "not_evaluated", authoritative |-> FALSE]
            in == [stage |-> m.stage, lifecycle |-> m.lifecycle, join |-> m.join,
                   counts |-> m.counts, invalidating |-> invalidating_failure(g),
                   block |-> IF g.evidence = None THEN unknown ELSE g.evidence.block,
                   access |-> IF g.evidence = None THEN unknown ELSE g.evidence.access]
            gates == CASE in.lifecycle = "completed" /\ in.counts # None ->
                            completed_gates(in.counts, in.join)
                       [] in.lifecycle \in FailureStates -> [Pending EXCEPT !.validity = "invalid"]
                       [] OTHER -> Pending
            authoritative == /\ gates.validity # "not_evaluated"
                             /\ gates.zero_loss # "not_evaluated"
                             /\ gates.tail # "not_evaluated"
                             /\ in.block.authoritative /\ in.access.authoritative
            blockers == confirmatory_blockers(gates, in.block, in.access)
            status == evaluate_run_status(in)
<1>1. status # None /\ status.validity = m.validity
  BY DEF status_agrees
<1>2. in.lifecycle = m.lifecycle /\ in.counts = m.counts
  OBVIOUS
<1>3. status = CASE in.lifecycle \in {"planned", "measurement_started"} ->
                      Status(Pending, in.block, "not_evaluated", {})
                 [] in.lifecycle = "completed" /\ in.counts = None -> None
                 [] gates.validity = "invalid" /\ ~in.invalidating -> None
                 [] OTHER ->
                      IF in.stage # "stage_a" THEN Status(gates, in.block, "not_applicable", {})
                      ELSE IF ~authoritative THEN Status(gates, in.block, "not_evaluated", {})
                      ELSE Status(gates, in.block, summary_for(blockers), blockers)
  BY DEF evaluate_run_status
<1>. HIDE DEF in, status
<1>4. \A gt, b, e, bl : Status(gt, b, e, bl).validity = gt.validity
  BY DEF Status
<1>5. Pending.validity = "not_evaluated" /\ [Pending EXCEPT !.validity = "invalid"].validity = "invalid"
  BY DEF Pending
<1>. HIDE DEF authoritative, blockers
<1>6. in.lifecycle \notin {"planned", "measurement_started"}
  BY <1>1, <1>3, <1>4, <1>5
<1>7. ~(in.lifecycle = "completed" /\ in.counts = None)
  BY <1>1, <1>3, <1>6
<1>8. gates.validity = "valid"
  <2>. HIDE DEF gates
  <2>. QED  BY <1>1, <1>3, <1>4, <1>6, <1>7
<1>9. in.lifecycle = "completed" /\ in.counts # None
  BY <1>5, <1>8 DEF FailureStates, EarlyFailures
<1>. QED  BY <1>2, <1>9

\* What a raw reference of an accepted manifest holds.
LEMMA RawIsRunsOwn ==
    ASSUME EvidenceInv, Accepted, NEW name \in {"producer_raw", "consumer_raw"},
           name \in DOMAIN graph.manifest.refs
    PROVE  LET kind == IF name = "producer_raw" THEN "producer" ELSE "consumer"
               s == IF name = "producer_raw" THEN pstream ELSE cstream
           IN /\ EnvelopeOf(graph, name) = Envelope(kind, name, s)
              /\ Rows(graph, name) = decode_external_raw(Envelope(kind, name, s), Bytes(s))
              /\ Rows(graph, name) # None
<1>. DEFINE kind == IF name = "producer_raw" THEN "producer" ELSE "consumer"
            s == IF name = "producer_raw" THEN pstream ELSE cstream
            ref == graph.manifest.refs[name]
            found == {e \in graph.envelopes : e.id = ref.id}
<1>1. /\ OfThisRun(graph) /\ artifacts_resolve(graph) /\ raw_decodes(graph)
      /\ \A n \in DOMAIN objects : ObjectHolds(objects[n])
  BY DEF EvidenceInv, PublicationHolds, Accepted, Stage12_validate
<1>2. PICK n \in DOMAIN objects :
        objects[n].object = name /\ ref = [id |-> name, sha |-> objects[n].bytes]
  BY <1>1 DEF OfThisRun
<1>3. objects[n].bytes = Bytes(s)
  BY <1>1, <1>2 DEF ObjectHolds
<1>4. ref.id = name /\ ref.sha = Bytes(s)
  BY <1>2, <1>3
<1>5. name \in DOMAIN graph.artifacts /\ graph.artifacts[name] = Bytes(s)
  BY <1>1, <1>4 DEF artifacts_resolve, Resolves
<1>6. EnvelopeOf(graph, name) # None /\ Rows(graph, name) # None
  BY <1>1 DEF raw_decodes, RawRefs
<1>7. PICK e : e = EnvelopeOf(graph, name)
  OBVIOUS
<1>8. e \in found /\ e # None
  <2>1. e = IF found = {} THEN None ELSE CHOOSE f \in found : TRUE
    BY <1>7 DEF EnvelopeOf, HasRef
  <2>. HIDE DEF found
  <2>. QED  BY <1>6, <1>7, <2>1
<1>9. PICK k \in DOMAIN objects :
        objects[k].object \in {"producer_envelope", "consumer_envelope"} /\ objects[k].bytes = e
  BY <1>1, <1>4, <1>8 DEF OfThisRun
<1>10. \A kd, id, st : Envelope(kd, id, st).id = id
  BY DEF Envelope
<1>11. e.id = name
  BY <1>4, <1>8
<1>12. e = Envelope(kind, name, s)
  <2>1. \/ e = Envelope("producer", "producer_raw", pstream)
        \/ e = Envelope("consumer", "consumer_raw", cstream)
    BY <1>1, <1>9 DEF ObjectHolds
  <2>. QED  BY <1>10, <1>11, <2>1
<1>13. Rows(graph, name) = decode_external_raw(e, Bytes(s))
  BY <1>4, <1>5, <1>7, <1>8 DEF Rows
<1>. QED  BY <1>6, <1>7, <1>12, <1>13

\* An accepted valid Stage A manifest was compared with the join of the run.
LEMMA AcceptedIsCompared ==
    ASSUME EvidenceInv, Accepted, graph.manifest.stage = "stage_a",
           graph.manifest.validity = "valid"
    PROVE  /\ complete_count_identities(graph.manifest.counts)
           /\ Join.status = "passed" /\ Join.issues = {}
           /\ joined_exact(graph, Join) /\ raw_counts(graph, Join)
           /\ graph.manifest.counts # None /\ graph.evidence # None
<1>1. /\ validate_manifest(graph.manifest) /\ status_agrees(graph) /\ join_agrees(graph)
  BY DEF Accepted, Stage12_validate
<1>2. graph.manifest.lifecycle = "completed" /\ graph.manifest.counts # None
  BY <1>1, ValidMeansCompleted
<1>3. /\ graph.manifest.join = "passed" /\ Relationships \subseteq DOMAIN graph.manifest.refs
      /\ complete_count_identities(graph.manifest.counts)
  BY <1>1, <1>2 DEF validate_manifest, manifest_completion_valid
<1>4. "producer_raw" \in DOMAIN graph.manifest.refs /\ "consumer_raw" \in DOMAIN graph.manifest.refs
  BY <1>3 DEF Relationships
<1>5. /\ EnvelopeOf(graph, "producer_raw") = Envelope("producer", "producer_raw", pstream)
      /\ Rows(graph, "producer_raw") = ReadBack(pstream.rows)
      /\ Rows(graph, "producer_raw") # None
  BY <1>4, RawIsRunsOwn, ProducerDecodes
<1>6. /\ EnvelopeOf(graph, "consumer_raw") = Envelope("consumer", "consumer_raw", cstream)
      /\ Rows(graph, "consumer_raw") = cstream.rows
      /\ Rows(graph, "consumer_raw") # None
  BY <1>4, RawIsRunsOwn, ConsumerDecodes
<1>7. Attempted(graph)
  <2>1. \A kind, id, s : Envelope(kind, id, s).kind = kind
    BY DEF Envelope
  <2>. QED  BY <1>4, <1>5, <1>6, <2>1 DEF Attempted, HasRef, OfKind
<1>8. /\ graph.evidence # None /\ Reconciled(graph).status = graph.manifest.join
      /\ Reconciled(graph).issues = {} /\ joined_exact(graph, Reconciled(graph))
      /\ raw_counts(graph, Reconciled(graph))
  BY <1>1, <1>7 DEF join_agrees
<1>9. graph.evidence.mapping = Mapping
  BY <1>8 DEF EvidenceInv, PublicationHolds, Accepted, OfThisRun
<1>10. Reconciled(graph) = Join
  BY <1>5, <1>6, <1>9, JoinIs DEF Reconciled
<1>. QED  BY <1>2, <1>3, <1>8, <1>10

LEMMA AcceptedFigures == EvidenceInv => AcceptedFiguresAreTrue
<1> SUFFICES ASSUME EvidenceInv, Accepted, graph.manifest.stage = "stage_a",
                    graph.manifest.validity = "valid"
             PROVE  AcceptedFiguresAreTrue
  BY DEF AcceptedFiguresAreTrue, AcceptedCountsAreTrue, AcceptedLatenciesAreTrue
<1>. DEFINE counts == graph.manifest.counts
            rows == ReadBack(pstream.rows)
            accepted == accepted_rows(rows)
<1>1. /\ complete_count_identities(counts) /\ Join.status = "passed" /\ Join.issues = {}
      /\ joined_exact(graph, Join) /\ raw_counts(graph, Join) /\ counts # None
  BY AcceptedIsCompared
<1>2. Join = reconcile(rows, cstream.rows, Mapping)
  BY JoinIs
<1>3. /\ Join.producer_rows = Len(rows) /\ Join.accepted_rows = Len(accepted)
      /\ Join.consumer_rows = Len(cstream.rows)
      /\ Join.full_rows = Cardinality({n \in DOMAIN rows : rows[n].outcome = "full"})
      /\ producer_issues(rows, Mapping) \cup consumer_issues(cstream.rows, accepted) = {}
  <2>. HIDE DEF rows
  <2>1. PICK result : result = reconcile(rows, cstream.rows, Mapping)
    OBVIOUS
  <2>2. /\ result.producer_rows = Len(rows) /\ result.accepted_rows = Len(accepted)
        /\ result.consumer_rows = Len(cstream.rows)
        /\ result.full_rows = Cardinality({n \in DOMAIN rows : rows[n].outcome = "full"})
    BY <2>1, ReconcileIs
  <2>3. result.issues = {} =>
          producer_issues(rows, Mapping) \cup consumer_issues(cstream.rows, accepted) = {}
    BY <2>1, ReconcileIs
  <2>. HIDE DEF accepted
  <2>. QED  BY <1>1, <1>2, <2>1, <2>2, <2>3
<1>4. /\ counts.attempted = Join.producer_rows /\ counts.accepted = Join.accepted_rows
      /\ counts.full = Join.full_rows /\ counts.consumed = Join.consumer_rows
  BY <1>1 DEF raw_counts
<1>5. /\ counts.attempted = counts.accepted + counts.full /\ counts.consumed = counts.accepted
  BY <1>1 DEF complete_count_identities
<1>6. /\ Len(rows) = Len(pstream.rows) /\ Len(pstream.rows) \in Nat
      /\ DOMAIN rows = 1..Len(pstream.rows)
  BY RowsReadBack
<1>7. Len(accepted) = Cardinality(AcceptedPlaces(pstream.rows, Len(pstream.rows)))
      /\ Len(accepted) \in Nat
  BY AcceptedRowsAre
<1>8. Len(pstream.rows) = Len(Mapping)
  <2>1. producer_issues(rows, Mapping) = {}
    BY <1>3
  <2>. QED  BY <2>1, ProducerAudit
<1>. HIDE DEF accepted, rows
<1>9. /\ producer.next = Len(Schedule) /\ ~pstream.overflowed
      /\ Len(pstream.rows) = producer.next
  <2>1. /\ producer.next \in Nat /\ producer.next <= Len(Schedule)
        /\ ~pstream.overflowed => Len(pstream.rows) = producer.next
        /\ pstream.overflowed => Len(pstream.rows) < producer.next
    BY DEF EvidenceInv, Shape, AttemptInHand, Kept, Offered
  <2>2. Len(Schedule) \in Nat /\ Len(Schedule) = Len(Mapping)
    BY RunEvidenceAssumption
  <2>. QED  BY <1>6, <1>8, <2>1, <2>2
<1>10. producer.accepted = Len(accepted)
  BY <1>7, <1>9 DEF EvidenceInv, ProducerWordsHold
<1>11. Join.full_rows \in Nat
  <2>1. IsFiniteSet(DOMAIN rows)
    BY <1>6, FS_Interval
  <2>2. IsFiniteSet({n \in DOMAIN rows : rows[n].outcome = "full"})
    BY <2>1, FS_Subset
  <2>. QED  BY <1>3, <2>2, FS_CardinalityType
<1>12. cstream.state = "sealed_complete" => Len(cstream.rows) = Len(consumer.consumed)
  BY DEF EvidenceInv, Kept
<1>13. /\ counts.attempted = producer.next /\ counts.accepted = producer.accepted
       /\ counts.consumed = producer.accepted /\ counts.consumed = Len(cstream.rows)
  BY <1>3, <1>4, <1>5, <1>6, <1>9, <1>10
<1>14. counts.full = producer.next - producer.accepted
  <2>1. PICK a \in Nat, f \in Nat, n \in Nat :
          a = producer.accepted /\ f = counts.full /\ n = producer.next
    BY <1>4, <1>6, <1>7, <1>9, <1>10, <1>11
  <2>2. n = a + f
    BY <1>5, <1>13, <2>1
  <2>. QED  BY <2>1, <2>2
<1>15. AcceptedCountsAreTrue
  BY <1>9, <1>12, <1>13, <1>14 DEF AcceptedCountsAreTrue
<1>16. AcceptedLatenciesAreTrue
  <2>. DEFINE e == EnvelopeOf(graph, "joined_derived")
              bytes == graph.artifacts[graph.manifest.refs["joined_derived"].id]
  <2>1. /\ Rows(graph, "joined_derived") = Join.joined /\ e.kind = "joined"
        /\ Rows(graph, "joined_derived") # None
    BY <1>1 DEF joined_exact, OfKind
  <2>2. decode_external_raw(e, bytes) # None
        /\ decode_external_raw(e, bytes) = Rows(graph, "joined_derived")
    BY <2>1 DEF Rows
  <2>. HIDE DEF e, bytes
  <2>3. decode_external_raw(e, bytes) = bytes.words
    BY <2>1, <2>2 DEF decode_external_raw
  <2>. QED  BY <2>1, <2>2, <2>3 DEF AcceptedLatenciesAreTrue, bytes
<1>. QED  BY <1>15, <1>16 DEF AcceptedFiguresAreTrue

\* Whatever graph is submitted for whatever run: the counts and latencies of a
\* manifest the Stage 12 validator accepts are those of the rows the two threads
\* wrote (join_agrees, raw_counts and joined_exact of reconciliation.cpp).
THEOREM AcceptedTellsTheTruth == Spec => []AcceptedFiguresAreTrue
BY EvidenceInvariant, AcceptedFigures, PTL

LEMMA NoBlockers ==
    ASSUME NEW gates, NEW block, NEW access,
           summary_for(confirmatory_blockers(gates, block, access)) = "estimable"
    PROVE  /\ gates.validity # "invalid" /\ gates.zero_loss # "fail" /\ gates.tail # "fail"
           /\ block.status # "incomplete" /\ access.status # "fail"
<1>. DEFINE blockers == confirmatory_blockers(gates, block, access)
<1>1. /\ "blocked_access_leakage" \in blockers <=> access.status = "fail"
      /\ "blocked_effective_tail" \in blockers <=> gates.tail = "fail"
      /\ "blocked_incomplete_block" \in blockers <=> block.status = "incomplete"
      /\ "blocked_invalid_run" \in blockers <=> gates.validity = "invalid"
      /\ "blocked_zero_loss" \in blockers <=> gates.zero_loss = "fail"
      /\ "estimable" \notin blockers
  BY DEF confirmatory_blockers
<1>. HIDE DEF blockers
<1>2. blockers = {}
  BY <1>1 DEF summary_for, blockers
<1>. QED  BY <1>1, <1>2

\* A status that says "estimable" has every gate behind it.
LEMMA EstimableMeans ==
    ASSUME NEW g, status_agrees(g), g.manifest.estimability = "estimable"
    PROVE  /\ g.manifest.stage = "stage_a" /\ g.manifest.validity = "valid"
           /\ g.manifest.counts.full = 0 /\ g.manifest.counts.n_eff >= Threshold
           /\ g.evidence.block.status # "incomplete" /\ g.evidence.access.status # "fail"
<1>. DEFINE m == g.manifest
            unknown == [status |-> "not_evaluated", authoritative |-> FALSE]
            block == IF g.evidence = None THEN unknown ELSE g.evidence.block
            access == IF g.evidence = None THEN unknown ELSE g.evidence.access
            in == [stage |-> m.stage, lifecycle |-> m.lifecycle, join |-> m.join,
                   counts |-> m.counts, invalidating |-> invalidating_failure(g),
                   block |-> block, access |-> access]
            gates == CASE in.lifecycle = "completed" /\ in.counts # None ->
                            completed_gates(in.counts, in.join)
                       [] in.lifecycle \in FailureStates -> [Pending EXCEPT !.validity = "invalid"]
                       [] OTHER -> Pending
            authoritative == /\ gates.validity # "not_evaluated"
                             /\ gates.zero_loss # "not_evaluated"
                             /\ gates.tail # "not_evaluated"
                             /\ in.block.authoritative /\ in.access.authoritative
            blockers == confirmatory_blockers(gates, in.block, in.access)
            status == evaluate_run_status(in)
<1>1. status # None /\ status.validity = m.validity /\ status.estimability = "estimable"
  BY DEF status_agrees
<1>2. /\ in.stage = m.stage /\ in.lifecycle = m.lifecycle /\ in.counts = m.counts
      /\ in.block = block /\ in.access = access
  OBVIOUS
<1>3. status = CASE in.lifecycle \in {"planned", "measurement_started"} ->
                      Status(Pending, in.block, "not_evaluated", {})
                 [] in.lifecycle = "completed" /\ in.counts = None -> None
                 [] gates.validity = "invalid" /\ ~in.invalidating -> None
                 [] OTHER ->
                      IF in.stage # "stage_a" THEN Status(gates, in.block, "not_applicable", {})
                      ELSE IF ~authoritative THEN Status(gates, in.block, "not_evaluated", {})
                      ELSE Status(gates, in.block, summary_for(blockers), blockers)
  BY DEF evaluate_run_status
<1>. HIDE DEF in, status, block, access
<1>4. \A gt, b, e, bl : Status(gt, b, e, bl).validity = gt.validity
                        /\ Status(gt, b, e, bl).estimability = e
  BY DEF Status
<1>5. /\ Pending.validity = "not_evaluated"
      /\ [Pending EXCEPT !.validity = "invalid"].validity = "invalid"
  BY DEF Pending
<1>6. in.stage = "stage_a" /\ authoritative /\ summary_for(blockers) = "estimable"
      /\ gates.validity = m.validity
  <2>. HIDE DEF gates, authoritative, blockers
  <2>. QED  BY <1>1, <1>3, <1>4
<1>7. /\ gates.validity # "invalid" /\ gates.zero_loss # "fail" /\ gates.tail # "fail"
      /\ in.block.status # "incomplete" /\ in.access.status # "fail"
  <2>. HIDE DEF gates
  <2>. QED  BY <1>6, NoBlockers
<1>8. /\ gates.validity # "not_evaluated" /\ gates.zero_loss # "not_evaluated"
      /\ gates.tail # "not_evaluated" /\ in.block.authoritative
  BY <1>6
<1>9. in.lifecycle = "completed" /\ in.counts # None
  BY <1>5, <1>7, <1>8
<1>10. gates = completed_gates(m.counts, in.join)
  <2>1. gates = completed_gates(in.counts, in.join)
    BY <1>9 DEF FailureStates, EarlyFailures
  <2>. HIDE DEF gates
  <2>. QED  BY <1>2, <2>1
<1>. HIDE DEF gates
<1>11. gates.validity = "valid" /\ m.counts.full = 0 /\ m.counts.n_eff >= Threshold
  <2>1. /\ gates.validity \in {"valid", "invalid"}
        /\ gates.zero_loss = IF m.counts.full = None THEN "not_evaluated"
                             ELSE Gate(m.counts.full = 0)
        /\ gates.tail = IF m.counts.n_eff = None THEN "not_evaluated"
                        ELSE Gate(m.counts.n_eff >= Threshold)
    BY <1>10 DEF completed_gates
  <2>2. m.counts.full = 0
    BY <1>7, <1>8, <2>1 DEF Gate
  <2>3. m.counts.n_eff >= Threshold
    BY <1>7, <1>8, <2>1 DEF Gate
  <2>. QED  BY <1>7, <2>1, <2>2, <2>3
<1>12. g.evidence # None
  BY <1>2, <1>8 DEF block
<1>. QED  BY <1>2, <1>6, <1>7, <1>11, <1>12 DEF block, access

\* An accepted manifest that says its run may be used for the confirmatory
\* analysis is of a run that lost nothing, has the effective tail and passed
\* its block and access gates (evaluate_run_status of reconciliation.cpp).
THEOREM EstimableIsClean == Spec => []EstimableMeansClean
<1>1. EvidenceInv => EstimableMeansClean
  <2> SUFFICES ASSUME EvidenceInv, Accepted, graph.manifest.estimability = "estimable"
               PROVE  /\ producer.accepted = Len(Schedule)
                      /\ graph.manifest.counts.n_eff >= Threshold
                      /\ graph.evidence.block.status # "incomplete"
                      /\ graph.evidence.access.status # "fail"
    BY DEF EstimableMeansClean
  <2>1. status_agrees(graph)
    BY DEF Accepted, Stage12_validate
  <2>2. /\ graph.manifest.stage = "stage_a" /\ graph.manifest.validity = "valid"
        /\ graph.manifest.counts.full = 0 /\ graph.manifest.counts.n_eff >= Threshold
        /\ graph.evidence.block.status # "incomplete" /\ graph.evidence.access.status # "fail"
    BY <2>1, EstimableMeans
  <2>3. /\ producer.next = Len(Schedule)
        /\ graph.manifest.counts.full = producer.next - producer.accepted
    BY <2>2, AcceptedFigures DEF AcceptedFiguresAreTrue, AcceptedCountsAreTrue
  <2>4. producer.next \in Nat /\ producer.accepted \in Nat
    BY DEF EvidenceInv, Shape
  <2>5. producer.accepted = Len(Schedule)
    BY <2>2, <2>3, <2>4
  <2>. QED  BY <2>2, <2>5
<1>. QED  BY <1>1, EvidenceInvariant, PTL
=============================================================================

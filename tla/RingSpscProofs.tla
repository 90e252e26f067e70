--------------------------- MODULE RingSpscProofs ---------------------------
(***************************************************************************)
(* RingSpsc for every capacity and every set of events: the slots hold the *)
(* queue at every interleaving, and the ring implements BoundedFifo.       *)
(***************************************************************************)
EXTENDS RingSpsc, SequenceTheorems, WellFoundedInduction, TLAPS

USE CapacityAssumption, EventsAssumption, CaptureAssumption

\* A cursor position stays in range, and next_position is one place ahead.
LEMMA NextPositionInRange ==
    ASSUME NEW p \in Positions
    PROVE  next_position(p) \in Positions
BY DEF next_position, Positions

\* AtOffset maps the offsets 0 .. Capacity - 1 one to one to positions; the
\* offset Capacity is the cursor itself again.
LEMMA AtOffsetFacts ==
    ASSUME consumerPos \in Positions
    PROVE  /\ \A k \in 0 .. Capacity : AtOffset(k) \in Positions
           /\ AtOffset(0) = consumerPos
           /\ AtOffset(Capacity) = consumerPos
           /\ \A k \in 0 .. Capacity - 1 :
                next_position(AtOffset(k)) = AtOffset(k + 1)
           /\ \A k, m \in 0 .. Capacity - 1 :
                AtOffset(k) = AtOffset(m) => k = m
BY DEF AtOffset, Positions, next_position

\* A producer that saw its slot free is inside the capacity, and a consumer
\* that loaded an event loaded the oldest one.
LEMMA ObservationsDecide ==
    ASSUME RingInv
    PROVE  /\ Len(fifo) \in 0 .. Capacity
           /\ slots[producerPos] = Null <=> Len(fifo) < Capacity
           /\ slots[consumerPos] = Null <=> Len(fifo) = 0
           /\ Len(fifo) > 0 => slots[consumerPos] = fifo[1]
<1>1. /\ consumerPos \in Positions /\ fifo \in Seq(Events) /\ Len(fifo) \in Nat
      /\ Len(fifo) <= Capacity
  BY DEF RingInv, RingTypeOK, SlotsHoldFifo
<1>2. \A k \in 1 .. Len(fifo) : fifo[k] \in Events
  BY <1>1
<1>3. slots[consumerPos] = IF 1 <= Len(fifo) THEN fifo[1] ELSE Null
  BY <1>1, AtOffsetFacts DEF RingInv, SlotsHoldFifo
<1>4. CASE Len(fifo) < Capacity
  <2>1. slots[AtOffset(Len(fifo))] = Null
    <3>1. Len(fifo) + 1 \in 1 .. Capacity /\ (Len(fifo) + 1) - 1 = Len(fifo)
      BY <1>1, <1>4
    <3>2. \A k \in 1 .. Capacity :
            slots[AtOffset(k - 1)] = IF k <= Len(fifo) THEN fifo[k] ELSE Null
      BY DEF RingInv, SlotsHoldFifo
    <3>3. ~ (Len(fifo) + 1 <= Len(fifo))
      BY <1>1
    <3>. QED  BY <3>1, <3>2, <3>3
  <2>. QED  BY <1>1, <1>2, <1>3, <1>4, <2>1 DEF RingInv, SlotsHoldFifo
<1>5. CASE Len(fifo) = Capacity
  <2>1. producerPos = consumerPos
    BY <1>1, <1>5, AtOffsetFacts DEF RingInv, SlotsHoldFifo
  <2>. QED  BY <1>1, <1>2, <1>3, <1>5, <2>1
<1>. QED  BY <1>1, <1>4, <1>5

-----------------------------------------------------------------------------
LEMMA RingInvInit == Init => RingInv
<1> SUFFICES ASSUME Init PROVE RingInv
  OBVIOUS
<1>1. RingTypeOK
  BY DEF Init, RingTypeOK, Positions
<1>2. SlotsHoldFifo
  BY DEF Init, SlotsHoldFifo, AtOffset, Positions
<1>3. ObservationStillTrue
  BY DEF Init, ObservationStillTrue
<1>. QED  BY <1>1, <1>2, <1>3 DEF RingInv

\* The publishing store writes the place behind the last queued event.
LEMMA PublishKeepsInv == RingInv /\ EnqueuePublish => RingInv'
<1> SUFFICES ASSUME RingInv, EnqueuePublish PROVE RingInv'
  OBVIOUS
<1> DEFINE n == Len(fifo)
<1>1. /\ RingTypeOK /\ n \in Nat /\ n < Capacity /\ pEvent \in Events
      /\ producerPos = AtOffset(n)
  BY ObservationsDecide
     DEF RingInv, RingTypeOK, ObservationStillTrue, EnqueuePublish, SlotsHoldFifo
<1>2. /\ fifo' \in Seq(Events) /\ Len(fifo') = n + 1
      /\ \A k \in 1 .. n : fifo'[k] = fifo[k]
      /\ fifo'[n + 1] = pEvent
  BY <1>1 DEF EnqueuePublish, RingTypeOK
<1>3. \A k : AtOffset(k)' = AtOffset(k)
  BY DEF EnqueuePublish, consumerVars, AtOffset
<1>4. RingTypeOK'
  BY <1>1, <1>2, NextPositionInRange
     DEF RingTypeOK, EnqueuePublish, EnqueueDone, consumerVars
<1>5. SlotsHoldFifo'
  <2>1. producerPos' = AtOffset(n + 1)
    BY <1>1, AtOffsetFacts DEF EnqueuePublish, RingTypeOK
  <2>2. ASSUME NEW k \in 1 .. Capacity
        PROVE  slots'[AtOffset(k - 1)] =
                 IF k <= n + 1 THEN fifo'[k] ELSE Null
    <3>1. /\ k - 1 \in 0 .. Capacity - 1 /\ n \in 0 .. Capacity - 1
          /\ AtOffset(k - 1) \in Positions
      BY <1>1, AtOffsetFacts DEF RingTypeOK
    <3>2. slots[AtOffset(k - 1)] = IF k <= n THEN fifo[k] ELSE Null
      BY DEF RingInv, SlotsHoldFifo
    <3>3. CASE k = n + 1
      <4>1. AtOffset(k - 1) = producerPos
        BY <1>1, <3>3
      <4>. QED  BY <1>1, <1>2, <3>1, <3>3, <4>1 DEF EnqueuePublish, RingTypeOK
    <3>4. CASE k # n + 1
      <4>1. AtOffset(k - 1) # producerPos
        BY <1>1, <3>1, <3>4, AtOffsetFacts DEF RingTypeOK
      <4>2. slots'[AtOffset(k - 1)] = slots[AtOffset(k - 1)]
        BY <1>1, <3>1, <4>1 DEF EnqueuePublish, RingTypeOK
      <4>. QED  BY <1>1, <1>2, <3>2, <3>4, <4>2
    <3>. QED  BY <3>3, <3>4
  <2>. QED  BY <1>1, <1>2, <1>3, <2>1, <2>2 DEF SlotsHoldFifo
<1>6. ObservationStillTrue'
  <2>1. cPc = "clear" => producerPos # consumerPos
    BY <1>1, EventsAssumption, ObservationsDecide
       DEF RingInv, ObservationStillTrue
  <2>. QED  BY <1>1, <2>1
            DEF RingInv, ObservationStillTrue, EnqueuePublish, consumerVars, RingTypeOK
<1>. QED  BY <1>4, <1>5, <1>6 DEF RingInv

\* The clearing store removes the oldest event and shifts every offset by one.
LEMMA ReleaseKeepsInv == RingInv /\ DequeueRelease => RingInv'
<1> SUFFICES ASSUME RingInv, DequeueRelease PROVE RingInv'
  OBVIOUS
<1>0. PICK n : n = Len(fifo)
  OBVIOUS
<1>1. /\ RingTypeOK /\ n \in 1 .. Capacity /\ cEvent = fifo[1]
      /\ producerPos = AtOffset(n)
  BY <1>0, ObservationsDecide, EventsAssumption
     DEF RingInv, RingTypeOK, ObservationStillTrue, DequeueRelease, SlotsHoldFifo
<1>2. /\ fifo' \in Seq(Events) /\ Len(fifo') = n - 1
      /\ \A k \in 1 .. n - 1 : fifo'[k] = fifo[k + 1]
  BY <1>0, <1>1 DEF DequeueRelease, RingTypeOK
<1>3. consumerPos' \in Positions /\ consumerPos' = next_position(consumerPos)
  BY <1>1, NextPositionInRange DEF DequeueRelease, RingTypeOK
<1>4. \A k \in 0 .. Capacity - 1 : AtOffset(k)' = AtOffset(k + 1)
  BY <1>1, <1>3 DEF AtOffset, next_position, Positions, RingTypeOK
<1>5. RingTypeOK'
  <2>1. cEvent \in Events \cup {Null}
    BY <1>1 DEF RingTypeOK
  <2>. QED  BY <1>1, <1>2, <1>3, <2>1
            DEF RingTypeOK, DequeueRelease, DequeueDone, producerVars
<1>6. SlotsHoldFifo'
  <2>1. producerPos' = AtOffset(n - 1)' /\ n - 1 = Len(fifo)'
    BY <1>1, <1>2, <1>4 DEF DequeueRelease, producerVars
  <2>2. ASSUME NEW k \in 1 .. Capacity
        PROVE  slots'[AtOffset(k - 1)'] =
                 IF k <= n - 1 THEN fifo'[k] ELSE Null
    <3>1. AtOffset(k - 1)' = AtOffset(k)
      BY <1>4
    <3>2. CASE k = Capacity
      <4>1. AtOffset(k) = consumerPos /\ ~ (k <= n - 1)
        BY <1>1, <3>2, AtOffsetFacts DEF RingTypeOK
      <4>. QED  BY <1>1, <3>1, <4>1 DEF DequeueRelease, RingTypeOK
    <3>3. CASE k < Capacity
      <4>1. /\ AtOffset(k) \in Positions /\ AtOffset(k) # AtOffset(0)
            /\ AtOffset(0) = consumerPos
        BY <1>1, <3>3, AtOffsetFacts DEF RingTypeOK
      <4>2. slots'[AtOffset(k)] = slots[AtOffset(k)]
        BY <1>1, <4>1 DEF DequeueRelease, RingTypeOK
      <4>3. slots[AtOffset(k)] = IF k + 1 <= n THEN fifo[k + 1] ELSE Null
        <5>1. k + 1 \in 1 .. Capacity /\ (k + 1) - 1 = k
          BY <3>3
        <5>2. \A j \in 1 .. Capacity :
                slots[AtOffset(j - 1)] = IF j <= n THEN fifo[j] ELSE Null
          BY <1>0 DEF RingInv, SlotsHoldFifo
        <5>. QED  BY <5>1, <5>2
      <4>. QED  BY <1>1, <1>2, <3>1, <4>2, <4>3
    <3>. QED  BY <3>2, <3>3
  <2>. QED  BY <1>1, <1>2, <2>1, <2>2 DEF SlotsHoldFifo
<1>7. ObservationStillTrue'
  BY <1>1 DEF RingInv, ObservationStillTrue, DequeueRelease, producerVars, RingTypeOK
<1>. QED  BY <1>5, <1>6, <1>7 DEF RingInv

\* The steps that touch neither a slot nor a cursor.
LEMMA OtherStepsKeepInv ==
    ASSUME RingInv,
           \/ EnqueueFull
           \/ \E e \in Events : EnqueueObserveFree(e)
           \/ EnqueueCaptureFailed
           \/ DequeueEmpty
           \/ DequeueObserve
           \/ DequeueCaptureFailed
           \/ UNCHANGED vars
    PROVE  RingInv'
<1> USE DEF RingInv
<1>1. slots' = slots /\ fifo' = fifo /\ producerPos' = producerPos
      /\ consumerPos' = consumerPos
  BY DEF EnqueueFull, EnqueueObserveFree, EnqueueCaptureFailed, DequeueEmpty,
         DequeueObserve, DequeueCaptureFailed, vars, producerVars, consumerVars
<1>2. SlotsHoldFifo'
  BY <1>1 DEF SlotsHoldFifo, AtOffset
<1>3. CASE EnqueueFull
  BY <1>1, <1>2, <1>3
     DEF EnqueueFull, EnqueueDone, consumerVars, RingTypeOK, ObservationStillTrue
<1>4. CASE \E e \in Events : EnqueueObserveFree(e)
  BY <1>1, <1>2, <1>4
     DEF EnqueueObserveFree, consumerVars, RingTypeOK, ObservationStillTrue
<1>5. CASE EnqueueCaptureFailed
  BY <1>1, <1>2, <1>5
     DEF EnqueueCaptureFailed, EnqueueDone, consumerVars, RingTypeOK,
         ObservationStillTrue
<1>6. CASE DequeueEmpty
  BY <1>1, <1>2, <1>6
     DEF DequeueEmpty, DequeueDone, producerVars, RingTypeOK, ObservationStillTrue
<1>7. CASE DequeueObserve
  BY <1>1, <1>2, <1>7
     DEF DequeueObserve, producerVars, RingTypeOK, ObservationStillTrue
<1>8. CASE DequeueCaptureFailed
  BY <1>1, <1>2, <1>8
     DEF DequeueCaptureFailed, DequeueDone, producerVars, RingTypeOK,
         ObservationStillTrue
<1>9. CASE UNCHANGED vars
  BY <1>1, <1>2, <1>9
     DEF vars, producerVars, consumerVars, RingTypeOK, ObservationStillTrue
<1>. QED  BY <1>3, <1>4, <1>5, <1>6, <1>7, <1>8, <1>9

\* RingInv is an invariant of the ring: its slots hold the queue and each
\* thread's observation is still true when it stores (try_enqueue_observed,
\* try_dequeue_observed), for every capacity.
THEOREM RingInvariant == Spec => []RingInv
<1>1. RingInv /\ [Next]_vars => RingInv'
  BY PublishKeepsInv, ReleaseKeepsInv, OtherStepsKeepInv
     DEF Next, Producer, Consumer
<1>. QED  BY RingInvInit, <1>1, PTL DEF Spec

\* Every variable of the ring keeps its type (the constructor and the four
\* slot accesses).
THEOREM RingTypeCorrect == Spec => []RingTypeOK
BY RingInvariant, PTL DEF RingInv

\* The slots from the consumer's cursor on hold exactly the queue.
THEOREM RingSlotsHoldFifo == Spec => []SlotsHoldFifo
BY RingInvariant, PTL DEF RingInv

\* No slot changes between a thread's acquire load and its own store.
THEOREM RingObservationStillTrue == Spec => []ObservationStillTrue
BY RingInvariant, PTL DEF RingInv

-----------------------------------------------------------------------------
(* Refinement.                                                             *)

LEMMA RingInitRefines == Init => Fifo!Init
BY DEF Init, Fifo!Init

LEMMA RingStepRefines ==
    RingInv /\ [Next]_vars => [Fifo!Next]_(Fifo!fifoVars)
<1> SUFFICES ASSUME RingInv, [Next]_vars
             PROVE  Fifo!Next \/ UNCHANGED Fifo!fifoVars
  OBVIOUS
<1> USE DEF Fifo!fifoVars
<1>0. /\ Len(fifo) \in 0 .. Capacity /\ Len(fifo) + 0 = Len(fifo)
      /\ fifo \in Seq(Events)
      /\ fifo = << >> <=> Len(fifo) = 0
      /\ Len(fifo) > 0 => Head(fifo) = fifo[1]
  BY ObservationsDecide DEF RingInv, RingTypeOK
<1>1. CASE EnqueueFull
  <2>0. ~ (Len(fifo) < Capacity)
    BY <1>1, ObservationsDecide DEF EnqueueFull
  <2>1. Len(fifo) + 0 = Capacity
    <3>1. Len(fifo) \in 0 .. Capacity
      BY <1>0
    <3>. QED  BY <2>0, <3>1
  <2>2. Fifo!Full
    BY <1>1, <2>1
       DEF EnqueueFull, EnqueueDone, Fifo!Full, Fifo!EnqueueDone, consumerVars
  <2>. QED  BY <2>2 DEF Fifo!Next
<1>2. CASE \E e \in Events : EnqueueObserveFree(e)
  BY <1>2 DEF EnqueueObserveFree, consumerVars
<1>3. CASE EnqueueCaptureFailed
  <2>1. Fifo!EnqueueAbandoned
    BY <1>0, <1>3, ObservationsDecide
       DEF EnqueueCaptureFailed, EnqueueDone, Fifo!EnqueueAbandoned,
           Fifo!EnqueueDone, consumerVars, RingInv, ObservationStillTrue
  <2>. QED  BY <2>1 DEF Fifo!Next
<1>4. CASE EnqueuePublish
  <2>1. pEvent \in Events /\ Fifo!Accept(pEvent)
    BY <1>0, <1>4, ObservationsDecide
       DEF EnqueuePublish, EnqueueDone, Fifo!Accept, Fifo!EnqueueDone,
           consumerVars, RingInv, ObservationStillTrue
  <2>. QED  BY <2>1 DEF Fifo!Next
<1>5. CASE DequeueEmpty
  <2>1. Fifo!Empty
    BY <1>0, <1>5, ObservationsDecide
       DEF DequeueEmpty, DequeueDone, Fifo!Empty, Fifo!DequeueDone, producerVars
  <2>. QED  BY <2>1 DEF Fifo!Next
<1>6. CASE DequeueObserve
  BY <1>6 DEF DequeueObserve, producerVars
<1>7. CASE DequeueCaptureFailed
  <2>1. Fifo!DequeueAbandoned
    BY <1>0, <1>7, ObservationsDecide
       DEF DequeueCaptureFailed, DequeueDone, Fifo!DequeueAbandoned,
           Fifo!DequeueDone, producerVars, RingInv, ObservationStillTrue
  <2>. QED  BY <2>1 DEF Fifo!Next
<1>8. CASE DequeueRelease
  <2>1. cEvent = Head(fifo) /\ fifo # << >>
    BY <1>0, <1>8, ObservationsDecide, EventsAssumption
       DEF DequeueRelease, RingInv, ObservationStillTrue
  <2>2. Fifo!Take
    BY <1>8, <2>1
       DEF DequeueRelease, DequeueDone, Fifo!Take, Fifo!DequeueDone, producerVars
  <2>. QED  BY <2>2 DEF Fifo!Next
<1>9. CASE UNCHANGED vars
  BY <1>9 DEF vars, producerVars, consumerVars
<1>. QED
  BY <1>1, <1>2, <1>3, <1>4, <1>5, <1>6, <1>7, <1>8, <1>9
     DEF Next, Producer, Consumer

\* The ring implements the bounded FIFO for every capacity: accepted, full,
\* item and empty are each what a FIFO of that capacity would answer.
THEOREM RingImplementsFifo == Spec => ImplementsFifo
<1>1. Init => Fifo!Init
  BY RingInitRefines
<1>2. RingInv /\ [Next]_vars => [Fifo!Next]_(Fifo!fifoVars)
  BY RingStepRefines
<1>. QED  BY <1>1, <1>2, RingInvariant, PTL DEF Spec, ImplementsFifo, Fifo!Spec

-----------------------------------------------------------------------------
(* Prefetch targets                                                        *)

\* A set of natural numbers that is not empty has a least one.
LEMMA LeastNatural ==
    ASSUME NEW T, T \subseteq Nat, T # {}
    PROVE  \E x \in T : \A y \in T : x <= y
<1>1. \E x \in T : \A y \in T : ~ (<<y, x>> \in OpToRel(<, Nat))
  BY NatLessThanWellFounded, WFMin
<1>2. \A x \in T, y \in T : <<y, x>> \in OpToRel(<, Nat) <=> y < x
  BY DEF OpToRel
<1>3. \A x, y \in T : ~(y < x) => x <= y
  OBVIOUS
<1>. QED  BY <1>1, <1>2, <1>3

\* The remainder of the next number.
LEMMA NextRemainder ==
    ASSUME NEW d \in Nat, NEW N \in Nat \ {0}
    PROVE  /\ d % N \in 0 .. N - 1
           /\ (d + 1) % N = IF (d % N) + 1 = N THEN 0 ELSE (d % N) + 1
<1>1. ASSUME NEW q \in Int, NEW r \in 0 .. N - 1, NEW x \in Int, x = N * q + r
      PROVE  x % N = r
  BY <1>1
<1>2. d % N \in 0 .. N - 1 /\ d \div N \in Int
  OBVIOUS
<1>3. d = N * (d \div N) + (d % N)
  OBVIOUS
<1>4. PICK q \in Int, r \in 0 .. N - 1 : r = d % N /\ d = N * q + r
  BY <1>2, <1>3
<1>5. CASE r + 1 = N
  <2>1. d + 1 = N * (q + 1) + 0
    BY <1>4, <1>5
  <2>2. q + 1 \in Int /\ 0 \in 0 .. N - 1 /\ d + 1 \in Int
    OBVIOUS
  <2>3. (d + 1) % N = 0
    BY <1>1, <2>1, <2>2
  <2>. QED  BY <1>4, <1>5, <2>3
<1>6. CASE r + 1 # N
  <2>1. d + 1 = N * q + (r + 1)
    BY <1>4
  <2>2. r + 1 \in 0 .. N - 1 /\ d + 1 \in Int
    BY <1>6
  <2>3. (d + 1) % N = r + 1
    BY <1>1, <2>1, <2>2
  <2>. QED  BY <1>4, <1>6, <2>3
<1>. QED  BY <1>5, <1>6, <1>4

\* One place further is the next position, across the end of the array and
\* for distances beyond the capacity.
LEMMA DistanceStep ==
    ASSUME NEW p \in Positions, NEW d \in Nat
    PROVE  /\ position_at_distance(p, 0) = p
           /\ position_at_distance(p, d) \in Positions
           /\ position_at_distance(p, d + 1) = next_position(position_at_distance(p, d))
<1>1. 0 % Capacity = 0
  OBVIOUS
<1>2. PICK r \in 0 .. Capacity - 1 :
        /\ r = d % Capacity
        /\ (d + 1) % Capacity = IF r + 1 = Capacity THEN 0 ELSE r + 1
  BY NextRemainder
<1>3. p \in 0 .. Capacity - 1
  BY DEF Positions
<1>4. position_at_distance(p, d) =
        IF r < Capacity - p THEN p + r ELSE r - (Capacity - p)
  BY <1>2, <1>3 DEF position_at_distance
<1>5. PICK s \in 0 .. Capacity - 1 : s = (d + 1) % Capacity /\ s = IF r + 1 = Capacity THEN 0 ELSE r + 1
  BY <1>2
<1>6. position_at_distance(p, d + 1) =
        IF s < Capacity - p THEN p + s ELSE s - (Capacity - p)
  BY <1>3, <1>5 DEF position_at_distance
<1>7. position_at_distance(p, 0) = p
  BY <1>1 DEF position_at_distance
<1>8. position_at_distance(p, d) \in 0 .. Capacity - 1
  BY <1>3, <1>4
<1>. QED  BY <1>3, <1>4, <1>5, <1>6, <1>7, <1>8 DEF next_position, Positions

\* So the arithmetic computes what next_position does, d times.
LEMMA AdvanceIsDistance ==
    ASSUME NEW p \in Positions
    PROVE  Advance(p) = [d \in 0 .. MaxDistance |-> position_at_distance(p, d)]
<1>. DEFINE Walks(f) == f = [d \in 0 .. MaxDistance |->
                               IF d = 0 THEN p ELSE next_position(f[d - 1])]
            g == [d \in 0 .. MaxDistance |-> position_at_distance(p, d)]
<1>1. Walks(g)
  <2>1. ASSUME NEW d \in 0 .. MaxDistance
        PROVE  g[d] = IF d = 0 THEN p ELSE next_position(g[d - 1])
    <3>1. CASE d = 0
      BY <3>1, DistanceStep, DistanceAssumption
    <3>2. CASE d # 0
      <4>1. d - 1 \in Nat /\ d - 1 \in 0 .. MaxDistance /\ (d - 1) + 1 = d
        BY <3>2, DistanceAssumption
      <4>2. position_at_distance(p, (d - 1) + 1) =
              next_position(position_at_distance(p, d - 1))
        BY <4>1, DistanceStep
      <4>. QED  BY <3>2, <4>1, <4>2
    <3>. QED  BY <3>1, <3>2
  <2>. QED  BY <2>1
<1>2. ASSUME NEW f, Walks(f) PROVE f = g
  <2>1. \A d \in 0 .. MaxDistance :
          f[d] = IF d = 0 THEN p ELSE next_position(f[d - 1])
    BY <1>2
  <2>2. ASSUME NEW T, T = {d \in 0 .. MaxDistance : f[d] # g[d]}, T # {} PROVE FALSE
    <3>1. T \subseteq Nat
      BY <2>2
    <3>2. PICK d \in T : \A y \in T : d <= y
      BY <2>2, <3>1, LeastNatural
    <3>3. d \in 0 .. MaxDistance /\ f[d] # g[d]
      BY <2>2
    <3>4. d # 0
      BY <1>1, <2>1, <3>3, DistanceStep, DistanceAssumption
    <3>5. d - 1 \in 0 .. MaxDistance /\ d - 1 \notin T
      BY <3>2, <3>3, <3>4, DistanceAssumption
    <3>6. f[d - 1] = g[d - 1]
      BY <2>2, <3>5
    <3>7. g[d] = next_position(g[d - 1]) /\ f[d] = next_position(f[d - 1])
      <4>1. g[d] = IF d = 0 THEN p ELSE next_position(g[d - 1])
        BY <1>1, <3>3
      <4>. QED  BY <2>1, <3>3, <3>4, <4>1
    <3>. QED  BY <3>3, <3>6, <3>7
  <2>3. \A d \in 0 .. MaxDistance : f[d] = g[d]
    <3>1. {d \in 0 .. MaxDistance : f[d] # g[d]} = {}
      BY <2>2
    <3>. QED  BY <3>1
  <2>4. f = [d \in 0 .. MaxDistance |-> f[d]]
    BY <1>2
  <2>. QED  BY <2>3, <2>4
<1>3. Advance(p) = CHOOSE f : Walks(f)
  BY DEF Advance
<1>4. Walks(CHOOSE f : Walks(f))
  <2>. HIDE DEF Walks, g
  <2>. QED  BY <1>1
<1>. QED  BY <1>2, <1>3, <1>4

\* Prefetch targets lie ahead of their cursors by the distance asked for, for
\* every capacity and every distance (producer_slot_target,
\* consumer_slot_target).
THEOREM RingTargetsLieAhead == Spec => []TargetsLieAhead
<1>1. RingInv => TargetsLieAhead
  <2>1. SUFFICES ASSUME producerPos \in Positions, consumerPos \in Positions
                 PROVE  TargetsLieAhead
    BY DEF RingInv, RingTypeOK
  <2>2. /\ Advance(producerPos) =
              [d \in 0 .. MaxDistance |-> position_at_distance(producerPos, d)]
        /\ Advance(consumerPos) =
              [d \in 0 .. MaxDistance |-> position_at_distance(consumerPos, d)]
    BY <2>1, AdvanceIsDistance
  <2>. QED  BY <2>2 DEF TargetsLieAhead, producer_slot_target, consumer_slot_target
<1>. QED  BY <1>1, RingInvariant, PTL
=============================================================================

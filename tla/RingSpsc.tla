------------------------------ MODULE RingSpsc ------------------------------
(***************************************************************************)
(* RingSpscQueue (queue/ring_spsc.hpp): Capacity atomic pointer slots with *)
(* null as the empty value, one cursor owned by each thread.  The atomic   *)
(* accesses to a slot are the steps; a cursor is private to its thread, so *)
(* its update belongs to the step of the store before it.                  *)
(*                                                                         *)
(* fifo is an auxiliary variable: the abstract queue, extended by the      *)
(* publishing store and shortened by the clearing store.                   *)
(***************************************************************************)
EXTENDS Integers, Sequences

CONSTANTS
    Capacity,       \* QueueCapacity
    Events,         \* non-null event pointers
    Null,           \* nullptr
    CaptureMayFail, \* whether a boundary observer is installed that can fail
    MaxDistance     \* bound: the prefetch distances looked at

\* The constructor refuses a zero capacity; EventPointer refuses a null.
ASSUME CapacityAssumption == Capacity \in Nat \ {0}
ASSUME EventsAssumption == Null \notin Events /\ Events # {}
ASSUME CaptureAssumption == CaptureMayFail \in BOOLEAN
ASSUME DistanceAssumption == MaxDistance \in Nat

VARIABLES
    slots,          \* slots_[i].value
    producerPos,    \* producer_->position
    consumerPos,    \* consumer_->position
    pPc,            \* producer: "idle", or "publish" after it saw a null slot
    pEvent,         \* the event the enqueue in progress carries
    cPc,            \* consumer: "idle", or "clear" after it saw an event
    cEvent,         \* the event the dequeue in progress has loaded
    fifo,           \* auxiliary: the abstract queue
    enqResult, deqResult, enqOps, deqOps   \* completed operations

producerVars == <<producerPos, pPc, pEvent, enqResult, enqOps>>
consumerVars == <<consumerPos, cPc, cEvent, deqResult, deqOps>>
vars == <<slots, fifo, producerVars, consumerVars>>

Positions == 0 .. Capacity - 1

RingTypeOK ==
    /\ slots \in [Positions -> Events \cup {Null}]
    /\ producerPos \in Positions
    /\ consumerPos \in Positions
    /\ pPc \in {"idle", "publish"}
    /\ pEvent \in Events \cup {Null}
    /\ cPc \in {"idle", "clear"}
    /\ cEvent \in Events \cup {Null}
    /\ fifo \in Seq(Events)
    /\ enqResult \in {"none", "full", "accepted", "capture_failed"}
    /\ deqResult \in [status : {"none", "empty", "item", "capture_failed"},
                      event : Events \cup {Null}]
    /\ enqOps \in {0, 1}
    /\ deqOps \in {0, 1}

Init ==
    /\ slots = [i \in Positions |-> Null]
    /\ producerPos = 0
    /\ consumerPos = 0
    /\ pPc = "idle"
    /\ pEvent = Null
    /\ cPc = "idle"
    /\ cEvent = Null
    /\ fifo = << >>
    /\ enqResult = "none"
    /\ deqResult = [status |-> "none", event |-> Null]
    /\ enqOps = 0
    /\ deqOps = 0

-----------------------------------------------------------------------------
(* Cursor arithmetic.                                                      *)

\* Mutant: the cursor wraps one position late.
next_position_late(position) ==
    IF position + 1 > Capacity THEN 0 ELSE position + 1

next_position(position) ==
    IF position + 1 = Capacity THEN 0 ELSE position + 1

\* Mutant: the comparison against the end of the array is off by one.
position_at_distance_past_end(position, distance) ==
    LET reduced == distance % Capacity
        untilWrap == Capacity - position
    IN  IF reduced <= untilWrap THEN position + reduced
        ELSE reduced - untilWrap

position_at_distance(position, distance) ==
    LET reduced == distance % Capacity
        untilWrap == Capacity - position
    IN  IF reduced = 0 THEN position
        ELSE IF reduced < untilWrap THEN position + reduced
        ELSE reduced - untilWrap

\* The slot a package prefetches ahead of the owning cursor.
producer_slot_target(distance) == position_at_distance(producerPos, distance)
consumer_slot_target(distance) == position_at_distance(consumerPos, distance)

-----------------------------------------------------------------------------
(* Enqueue.                                                                *)

EnqueueDone(result) ==
    /\ enqResult' = result
    /\ enqOps' = 1 - enqOps

\* The acquire load sees an occupied slot: full, at once.
EnqueueFull ==
    /\ pPc = "idle"
    /\ slots[producerPos] # Null
    /\ EnqueueDone("full")
    /\ UNCHANGED <<slots, fifo, producerPos, pPc, pEvent, consumerVars>>

\* Mutant: the occupied slot is not tested.
EnqueueObserveFreeUntested(e) ==
    /\ pPc = "idle"
    /\ pPc' = "publish"
    /\ pEvent' = e
    /\ UNCHANGED <<slots, fifo, producerPos, enqResult, enqOps, consumerVars>>

\* The acquire load sees null: the slot belongs to this enqueue.
EnqueueObserveFree(e) ==
    /\ pPc = "idle"
    /\ slots[producerPos] = Null
    /\ pPc' = "publish"
    /\ pEvent' = e
    /\ UNCHANGED <<slots, fifo, producerPos, enqResult, enqOps, consumerVars>>

\* Mutant: the abandoned enqueue has moved the cursor past its slot.
EnqueueCaptureFailedAdvanced ==
    /\ CaptureMayFail
    /\ pPc = "publish"
    /\ producerPos' = next_position(producerPos)
    /\ pPc' = "idle"
    /\ pEvent' = Null
    /\ EnqueueDone("capture_failed")
    /\ UNCHANGED <<slots, fifo, consumerVars>>

\* before_enqueue_publication() is false: leave without publishing.
EnqueueCaptureFailed ==
    /\ CaptureMayFail
    /\ pPc = "publish"
    /\ pPc' = "idle"
    /\ pEvent' = Null
    /\ EnqueueDone("capture_failed")
    /\ UNCHANGED <<slots, fifo, producerPos, consumerVars>>

\* The release store of the event, then the private cursor.
EnqueuePublish ==
    /\ pPc = "publish"
    /\ slots' = [slots EXCEPT ![producerPos] = pEvent]
    /\ producerPos' = next_position(producerPos)
    /\ fifo' = Append(fifo, pEvent)
    /\ pPc' = "idle"
    /\ pEvent' = Null
    /\ EnqueueDone("accepted")
    /\ UNCHANGED consumerVars

-----------------------------------------------------------------------------
(* Dequeue.                                                                *)

DequeueDone(status, event) ==
    /\ deqResult' = [status |-> status, event |-> event]
    /\ deqOps' = 1 - deqOps

\* The acquire load sees null: empty, at once.
DequeueEmpty ==
    /\ cPc = "idle"
    /\ slots[consumerPos] = Null
    /\ DequeueDone("empty", Null)
    /\ UNCHANGED <<slots, fifo, consumerPos, cPc, cEvent, producerVars>>

\* The acquire load sees an event.
DequeueObserve ==
    /\ cPc = "idle"
    /\ slots[consumerPos] # Null
    /\ cPc' = "clear"
    /\ cEvent' = slots[consumerPos]
    /\ UNCHANGED <<slots, fifo, consumerPos, deqResult, deqOps, producerVars>>

\* after_dequeue_observation() is false: the event stays in its slot.
DequeueCaptureFailed ==
    /\ CaptureMayFail
    /\ cPc = "clear"
    /\ cPc' = "idle"
    /\ cEvent' = Null
    /\ DequeueDone("capture_failed", Null)
    /\ UNCHANGED <<slots, fifo, consumerPos, producerVars>>

\* Mutant: the cursor is advanced without clearing the slot.
DequeueReleaseNoClear ==
    /\ cPc = "clear"
    /\ consumerPos' = next_position(consumerPos)
    /\ fifo' = Tail(fifo)
    /\ cPc' = "idle"
    /\ cEvent' = Null
    /\ DequeueDone("item", cEvent)
    /\ UNCHANGED <<slots, producerVars>>

\* The release store of null hands the slot back, then the private cursor.
DequeueRelease ==
    /\ cPc = "clear"
    /\ slots' = [slots EXCEPT ![consumerPos] = Null]
    /\ consumerPos' = next_position(consumerPos)
    /\ fifo' = Tail(fifo)
    /\ cPc' = "idle"
    /\ cEvent' = Null
    /\ DequeueDone("item", cEvent)
    /\ UNCHANGED producerVars

-----------------------------------------------------------------------------
Producer ==
    \/ EnqueueFull
    \/ \E e \in Events : EnqueueObserveFree(e)
    \/ EnqueueCaptureFailed
    \/ EnqueuePublish

Consumer ==
    \/ DequeueEmpty
    \/ DequeueObserve
    \/ DequeueCaptureFailed
    \/ DequeueRelease

Next == Producer \/ Consumer

Spec == Init /\ [][Next]_vars

-----------------------------------------------------------------------------
(* Properties.                                                             *)

\* The position k places after the consumer's cursor.
AtOffset(k) ==
    IF consumerPos + k >= Capacity THEN consumerPos + k - Capacity
    ELSE consumerPos + k

\* The slots from the consumer's cursor on hold exactly the queued events in
\* order, every other slot is null, and the producer's cursor stands right
\* behind the last one, at every interleaving of the two threads' slot
\* accesses (try_enqueue_observed, try_dequeue_observed).
SlotsHoldFifo ==
    /\ Len(fifo) <= Capacity
    /\ \A k \in 1 .. Capacity :
         slots[AtOffset(k - 1)] = IF k <= Len(fifo) THEN fifo[k] ELSE Null
    /\ producerPos = AtOffset(Len(fifo))

\* What a thread learned from its acquire load is still true when it stores:
\* the slot an enqueue saw free is free, and the event a dequeue loaded is
\* still in the slot it is about to clear.
ObservationStillTrue ==
    /\ pPc = "publish" => slots[producerPos] = Null /\ pEvent \in Events
    /\ cPc = "clear" => slots[consumerPos] = cEvent /\ cEvent \in Events

\* The inductive invariant.
RingInv == RingTypeOK /\ SlotsHoldFifo /\ ObservationStillTrue

\* Where a cursor gets from a position by d times next_position.
Advance(position) ==
    LET after[d \in 0 .. MaxDistance] ==
          IF d = 0 THEN position ELSE next_position(after[d - 1])
    IN  after

\* A target at distance d is the slot the owning cursor reaches after d
\* further operations, for distances beyond the capacity too
\* (producer_slot_target, consumer_slot_target).
TargetsLieAhead ==
    \A d \in 0 .. MaxDistance :
        /\ producer_slot_target(d) = Advance(producerPos)[d]
        /\ consumer_slot_target(d) = Advance(consumerPos)[d]

\* The ring implements the bounded FIFO, with no capacity ever lost: accepted
\* and full at the enqueue's slot accesses, empty at the dequeue's acquire
\* load, and a successful dequeue at the clearing store.
Fifo == INSTANCE BoundedFifo WITH lost <- 0
ImplementsFifo == Fifo!Spec
=============================================================================

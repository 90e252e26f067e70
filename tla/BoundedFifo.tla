---------------------------- MODULE BoundedFifo ----------------------------
(***************************************************************************)
(* What both queue algorithms promise: a FIFO of at most Capacity event    *)
(* pointers with non-blocking try operations (queue/common.hpp:            *)
(* EnqueueResult, DequeueStatus, BoundaryCaptureStatus).  One completed    *)
(* operation is one step; enqOps and deqOps flip at every completion, so   *)
(* that a completed operation is never mistaken for a stuttering step.     *)
(*                                                                         *)
(* lost counts capacity that no later enqueue can use: an enqueue that is  *)
(* abandoned by its boundary observer may cost one place.                  *)
(***************************************************************************)
EXTENDS Naturals, Sequences

CONSTANTS
    Capacity,   \* the queue's fixed capacity
    Events,     \* event pointers a producer may enqueue
    Null        \* the null pointer

VARIABLES
    fifo,       \* accepted and not yet dequeued, oldest first
    lost,       \* places that abandoned enqueues have cost
    enqResult,  \* result of the last completed enqueue
    deqResult,  \* result of the last completed dequeue
    enqOps,     \* parity of the completed enqueues
    deqOps      \* parity of the completed dequeues

fifoVars == <<fifo, lost, enqResult, deqResult, enqOps, deqOps>>

Init ==
    /\ fifo = << >>
    /\ lost = 0
    /\ enqResult = "none"
    /\ deqResult = [status |-> "none", event |-> Null]
    /\ enqOps = 0
    /\ deqOps = 0

EnqueueDone(result) ==
    /\ enqResult' = result
    /\ enqOps' = 1 - enqOps
    /\ UNCHANGED <<deqResult, deqOps>>

DequeueDone(status, event) ==
    /\ deqResult' = [status |-> status, event |-> event]
    /\ deqOps' = 1 - deqOps
    /\ UNCHANGED <<enqResult, enqOps>>

\* EnqueueResult::accepted: only while a place is free.
Accept(e) ==
    /\ Len(fifo) + lost < Capacity
    /\ fifo' = Append(fifo, e)
    /\ EnqueueDone("accepted")
    /\ UNCHANGED lost

\* EnqueueResult::full: only when every usable place is taken.
Full ==
    /\ Len(fifo) + lost = Capacity
    /\ EnqueueDone("full")
    /\ UNCHANGED <<fifo, lost>>

\* BoundaryCaptureStatus::capture_failed: nothing is enqueued.
EnqueueAbandoned ==
    /\ Len(fifo) + lost < Capacity
    /\ lost' \in {lost, lost + 1}
    /\ EnqueueDone("capture_failed")
    /\ UNCHANGED fifo

\* DequeueStatus::item: the oldest event, exactly once.
Take ==
    /\ fifo # << >>
    /\ fifo' = Tail(fifo)
    /\ DequeueDone("item", Head(fifo))
    /\ UNCHANGED lost

\* DequeueStatus::empty: only when nothing is queued.
Empty ==
    /\ fifo = << >>
    /\ DequeueDone("empty", Null)
    /\ UNCHANGED <<fifo, lost>>

\* The observer of the dequeue boundary failed: the item stays queued.
DequeueAbandoned ==
    /\ fifo # << >>
    /\ DequeueDone("capture_failed", Null)
    /\ UNCHANGED <<fifo, lost>>

Next ==
    \/ \E e \in Events : Accept(e)
    \/ Full
    \/ EnqueueAbandoned
    \/ Take
    \/ Empty
    \/ DequeueAbandoned

Spec == Init /\ [][Next]_fifoVars
=============================================================================

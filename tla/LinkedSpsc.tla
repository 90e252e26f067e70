----------------------------- MODULE LinkedSpsc -----------------------------
(***************************************************************************)
(* LinkedSpscQueue (queue/linked_spsc.hpp): a linked list headed by a      *)
(* sentinel, over a fixed arena of Capacity + 1 nodes, and a ring of       *)
(* Capacity slots (the recycler) that carries detached nodes back to the   *)
(* producer.  One step per access to memory both threads use.  The node a  *)
(* producer obtained is private until it is linked, but its plain writes   *)
(* are a step of their own, so that an overlap with the consumer would     *)
(* show.                                                                   *)
(*                                                                         *)
(* chain and lost are auxiliary: the nodes reachable from head, and how    *)
(* many nodes abandoned enqueues have kept.                                *)
(***************************************************************************)
EXTENDS Integers, Sequences, FiniteSets

CONSTANTS
    Capacity,       \* QueueCapacity
    Events,         \* non-null event pointers
    Null,           \* nullptr (as an event)
    NoNode,         \* nullptr (as a node)
    NodeOrder,      \* node_order: the arena permutation given to the constructor
    CaptureMayFail  \* whether a boundary observer is installed that can fail

Nodes == 0 .. Capacity
Positions == 0 .. Capacity - 1

\* What the constructor checks of its arguments before it builds anything.
ASSUME LinkedCapacityAssumption == Capacity \in Nat \ {0}
ASSUME NodeOrderAssumption ==
    /\ NodeOrder \in [Nodes -> Nodes]
    /\ \A i, j \in Nodes : NodeOrder[i] = NodeOrder[j] => i = j
ASSUME PointersAssumption == Null \notin Events /\ Events # {} /\ NoNode \notin Nodes

VARIABLES
    next,           \* Node::next
    event,          \* Node::event
    recycler,       \* recycler_slots_[i].value
    tail,           \* producer_->tail
    head,           \* consumer_->head
    obtainPos,      \* recycler_consumer_->position, owned by the producer
    returnPos,      \* recycler_producer_->position, owned by the consumer
    pPc, pNode, pEvent,   \* the enqueue in progress
    cPc, cSucc, cEvent,   \* the dequeue in progress
    chain,          \* auxiliary: nodes reachable from head, in order
    lost,           \* auxiliary: nodes kept by abandoned enqueues
    enqResult, deqResult, enqOps, deqOps   \* completed operations

producerVars == <<tail, obtainPos, pPc, pNode, pEvent, enqResult, enqOps, lost>>
consumerVars == <<head, returnPos, cPc, cSucc, cEvent, deqResult, deqOps>>
vars == <<next, event, recycler, chain, producerVars, consumerVars>>

LinkedTypeOK ==
    /\ next \in [Nodes -> Nodes \cup {NoNode}]
    /\ event \in [Nodes -> Events \cup {Null}]
    /\ recycler \in [Positions -> Nodes \cup {NoNode}]
    /\ tail \in Nodes /\ head \in Nodes
    /\ obtainPos \in Positions /\ returnPos \in Positions
    /\ pPc \in {"idle", "take", "prepare", "link"}
    /\ pNode \in Nodes \cup {NoNode} /\ pEvent \in Events \cup {Null}
    /\ cPc \in {"idle", "check", "return"}
    /\ cSucc \in Nodes \cup {NoNode} /\ cEvent \in Events \cup {Null}
    /\ chain \in Seq(Nodes)
    /\ lost \in 0 .. Capacity
    /\ enqResult \in {"none", "full", "accepted", "capture_failed"}
    /\ deqResult \in
         [status : {"none", "empty", "item", "capture_failed",
                    "recycler_invariant_failure"},
          event : Events \cup {Null}]
    /\ enqOps \in {0, 1} /\ deqOps \in {0, 1}

\* Mutant: the recycler is filled in the reverse of the supplied order.
InitReversed ==
    /\ next = [n \in Nodes |-> NoNode]
    /\ event = [n \in Nodes |-> Null]
    /\ head = NodeOrder[0] /\ tail = NodeOrder[0]
    /\ recycler = [i \in Positions |-> NodeOrder[Capacity - i]]
    /\ obtainPos = 0 /\ returnPos = 0
    /\ pPc = "idle" /\ pNode = NoNode /\ pEvent = Null
    /\ cPc = "idle" /\ cSucc = NoNode /\ cEvent = Null
    /\ chain = <<NodeOrder[0]>>
    /\ lost = 0
    /\ enqResult = "none"
    /\ deqResult = [status |-> "none", event |-> Null]
    /\ enqOps = 0 /\ deqOps = 0

\* The constructor: the first node of the order is the sentinel, the others
\* fill the recycler in order.
Init ==
    /\ next = [n \in Nodes |-> NoNode]
    /\ event = [n \in Nodes |-> Null]
    /\ head = NodeOrder[0] /\ tail = NodeOrder[0]
    /\ recycler = [i \in Positions |-> NodeOrder[i + 1]]
    /\ obtainPos = 0 /\ returnPos = 0
    /\ pPc = "idle" /\ pNode = NoNode /\ pEvent = Null
    /\ cPc = "idle" /\ cSucc = NoNode /\ cEvent = Null
    /\ chain = <<NodeOrder[0]>>
    /\ lost = 0
    /\ enqResult = "none"
    /\ deqResult = [status |-> "none", event |-> Null]
    /\ enqOps = 0 /\ deqOps = 0

\* Mutant: the position wraps one place late.
next_position_late(position) ==
    IF position + 1 > Capacity THEN 0 ELSE position + 1

next_position(position) ==
    IF position + 1 = Capacity THEN 0 ELSE position + 1

-----------------------------------------------------------------------------
(* Enqueue.                                                                *)

EnqueueDone(result) ==
    /\ enqResult' = result
    /\ enqOps' = 1 - enqOps
    /\ pPc' = "idle"
    /\ pNode' = NoNode
    /\ pEvent' = Null

\* The recycler has no node for this enqueue: full, at once.
EnqueueFull ==
    /\ pPc = "idle"
    /\ recycler[obtainPos] = NoNode
    /\ EnqueueDone("full")
    /\ UNCHANGED <<next, event, recycler, chain, tail, obtainPos, lost, consumerVars>>

\* The acquire load of the recycler slot sees a node.
EnqueueObtain(e) ==
    /\ pPc = "idle"
    /\ recycler[obtainPos] # NoNode
    /\ pPc' = "take"
    /\ pNode' = recycler[obtainPos]
    /\ pEvent' = e
    /\ UNCHANGED <<next, event, recycler, chain, tail, obtainPos, enqResult, enqOps,
                   lost, consumerVars>>

\* Mutant: the recycler slot is not cleared.
EnqueueTakeNoClear ==
    /\ pPc = "take"
    /\ obtainPos' = next_position(obtainPos)
    /\ pPc' = "prepare"
    /\ UNCHANGED <<next, event, recycler, chain, tail, pNode, pEvent, enqResult,
                   enqOps, lost, consumerVars>>

\* The release store of null into the recycler slot, then the position.
EnqueueTake ==
    /\ pPc = "take"
    /\ recycler' = [recycler EXCEPT ![obtainPos] = NoNode]
    /\ obtainPos' = next_position(obtainPos)
    /\ pPc' = "prepare"
    /\ UNCHANGED <<next, event, chain, tail, pNode, pEvent, enqResult, enqOps, lost,
                   consumerVars>>

\* Mutant: the old successor of a reused node is left in place.
EnqueuePrepareKeepNext ==
    /\ pPc = "prepare"
    /\ event' = [event EXCEPT ![pNode] = pEvent]
    /\ pPc' = "link"
    /\ UNCHANGED <<next, recycler, chain, tail, obtainPos, pNode, pEvent, enqResult,
                   enqOps, lost, consumerVars>>

\* The plain write of the event and the relaxed write of the null successor.
EnqueuePrepare ==
    /\ pPc = "prepare"
    /\ event' = [event EXCEPT ![pNode] = pEvent]
    /\ next' = [next EXCEPT ![pNode] = NoNode]
    /\ pPc' = "link"
    /\ UNCHANGED <<recycler, chain, tail, obtainPos, pNode, pEvent, enqResult, enqOps,
                   lost, consumerVars>>

\* before_enqueue_publication() is false: the enqueue leaves with the node it
\* took from the recycler; nothing puts it back.
EnqueueCaptureFailed ==
    /\ CaptureMayFail
    /\ pPc = "link"
    /\ lost' = lost + 1
    /\ EnqueueDone("capture_failed")
    /\ UNCHANGED <<next, event, recycler, chain, tail, obtainPos, consumerVars>>

\* The release store that links the node behind the tail.
EnqueueLink ==
    /\ pPc = "link"
    /\ next' = [next EXCEPT ![tail] = pNode]
    /\ tail' = pNode
    /\ chain' = Append(chain, pNode)
    /\ EnqueueDone("accepted")
    /\ UNCHANGED <<event, recycler, obtainPos, lost, consumerVars>>

-----------------------------------------------------------------------------
(* Dequeue.                                                                *)

DequeueDone(status, e) ==
    /\ deqResult' = [status |-> status, event |-> e]
    /\ deqOps' = 1 - deqOps
    /\ cPc' = "idle"
    /\ cSucc' = NoNode
    /\ cEvent' = Null

\* The sentinel has no successor: empty, at once.
DequeueEmpty ==
    /\ cPc = "idle"
    /\ next[head] = NoNode
    /\ DequeueDone("empty", Null)
    /\ UNCHANGED <<next, event, recycler, chain, head, returnPos, producerVars>>

\* The acquire load of the sentinel's successor.
DequeueObserve ==
    /\ cPc = "idle"
    /\ next[head] # NoNode
    /\ cPc' = "check"
    /\ cSucc' = next[head]
    /\ UNCHANGED <<next, event, recycler, chain, head, returnPos, cEvent, deqResult,
                   deqOps, producerVars>>

\* after_dequeue_observation() is false: nothing moves.
DequeueCaptureFailed ==
    /\ CaptureMayFail
    /\ cPc = "check"
    /\ DequeueDone("capture_failed", Null)
    /\ UNCHANGED <<next, event, recycler, chain, head, returnPos, producerVars>>

\* The return slot must be free; then the successor's event is read.
DequeueCheck ==
    /\ cPc = "check"
    /\ IF recycler[returnPos] # NoNode
       THEN DequeueDone("recycler_invariant_failure", Null)
       ELSE /\ cPc' = "return"
            /\ cEvent' = event[cSucc]
            /\ UNCHANGED <<cSucc, deqResult, deqOps>>
    /\ UNCHANGED <<next, event, recycler, chain, head, returnPos, producerVars>>

\* Mutant: the new sentinel is recycled in place of the old one.
DequeueReturnSuccessor ==
    /\ cPc = "return"
    /\ head' = cSucc
    /\ recycler' = [recycler EXCEPT ![returnPos] = cSucc]
    /\ returnPos' = next_position(returnPos)
    /\ chain' = Tail(chain)
    /\ DequeueDone("item", cEvent)
    /\ UNCHANGED <<next, event, producerVars>>

\* The private head moves, and the release store hands the old sentinel to
\* the recycler.
DequeueReturn ==
    /\ cPc = "return"
    /\ head' = cSucc
    /\ recycler' = [recycler EXCEPT ![returnPos] = head]
    /\ returnPos' = next_position(returnPos)
    /\ chain' = Tail(chain)
    /\ DequeueDone("item", cEvent)
    /\ UNCHANGED <<next, event, producerVars>>

-----------------------------------------------------------------------------
(* The audit, for callers that have stopped both threads.                  *)

\* Nodes met by following next from the head.
Walk ==
    LET node[k \in 1 .. Capacity + 2] ==
          IF k = 1 THEN head
          ELSE IF node[k - 1] = NoNode THEN NoNode ELSE next[node[k - 1]]
    IN  node

\* The walk stops at the end of the list or at a node it has met before.
WalkStop ==
    CHOOSE k \in 1 .. Capacity + 2 :
        /\ Walk[k] = NoNode \/ \E j \in 1 .. k - 1 : Walk[j] = Walk[k]
        /\ \A m \in 1 .. k - 1 :
             Walk[m] # NoNode /\ \A j \in 1 .. m - 1 : Walk[j] # Walk[m]

audit_quiescent ==
    LET reachable == [i \in 1 .. WalkStop - 1 |-> Walk[i]]
        onChain == {reachable[i] : i \in DOMAIN reachable}
        At(k) == recycler[(obtainPos + k) % Capacity]
        filled == {k \in Positions : At(k) # NoNode}
        inRecycler == {At(k) : k \in filled}
        acyclic == Walk[WalkStop] = NoNode
    IN  [reachable_order |-> reachable,
         queued_events |-> Len(reachable) - 1,
         recycler_nodes |-> Cardinality(inRecycler \ onChain),
         chain_acyclic |-> acyclic,
         tail_reachable |-> tail \in onChain,
         every_node_owned_once |->
             /\ acyclic
             /\ inRecycler \cap onChain = {}
             /\ Cardinality(inRecycler) = Cardinality(filled)
             /\ inRecycler \cup onChain = Nodes,
         recycler_fifo_shape |->
             \A k \in filled : \A m \in 0 .. k - 1 : m \in filled,
         positions_in_range |-> returnPos < Capacity /\ obtainPos < Capacity]

-----------------------------------------------------------------------------
Producer ==
    \/ EnqueueFull
    \/ \E e \in Events : EnqueueObtain(e)
    \/ EnqueueTake
    \/ EnqueuePrepare
    \/ EnqueueCaptureFailed
    \/ EnqueueLink

Consumer ==
    \/ DequeueEmpty
    \/ DequeueObserve
    \/ DequeueCaptureFailed
    \/ DequeueCheck
    \/ DequeueReturn

Next == Producer \/ Consumer

Spec == Init /\ [][Next]_vars

-----------------------------------------------------------------------------
(* Properties.                                                             *)

\* Where the nodes are.
Queued == Len(chain) - 1
Held == IF pPc \in {"prepare", "link"} THEN 1 ELSE 0
Recycled == Capacity - Queued - Held - lost
RecyclerAt(k) ==
    IF obtainPos + k >= Capacity THEN obtainPos + k - Capacity ELSE obtainPos + k

\* The chain is what head and the next pointers say: it starts at head, ends
\* at tail, and the last node has no successor (audit_quiescent's
\* tail_reachable and chain_acyclic, here at every step).
ChainIsList ==
    /\ chain # << >>
    /\ head = chain[1]
    /\ tail = chain[Len(chain)]
    /\ \A i \in 1 .. Len(chain) :
         next[chain[i]] = IF i = Len(chain) THEN NoNode ELSE chain[i + 1]

\* The recycler holds its nodes in Recycled consecutive slots from the
\* producer's position on, and the consumer's position is right behind them
\* (audit_quiescent's recycler_fifo_shape, here at every step).
RecyclerIsFifo ==
    /\ Recycled \in 0 .. Capacity
    /\ \A k \in 0 .. Capacity - 1 :
         recycler[RecyclerAt(k)] # NoNode <=> k < Recycled
    /\ returnPos = RecyclerAt(Recycled)

\* No node is in two places: the chain, the recycler and the node an enqueue
\* has taken never share one (audit_quiescent's every_node_owned_once; a
\* reachable node is never recycled).
NodesOwnedOnce ==
    /\ \A i, j \in 1 .. Len(chain) : chain[i] = chain[j] => i = j
    /\ \A k, m \in Positions :
         recycler[k] = recycler[m] /\ recycler[k] # NoNode => k = m
    /\ \A i \in 1 .. Len(chain), k \in Positions : chain[i] # recycler[k]
    /\ Held = 1 => /\ \A i \in 1 .. Len(chain) : chain[i] # pNode
                   /\ \A k \in Positions : recycler[k] # pNode

\* While an enqueue writes a node's plain fields, no dequeue can read them:
\* the node is neither the sentinel nor the successor a dequeue has loaded.
NoConcurrentNodeAccess ==
    pPc = "prepare" => pNode # head /\ (cPc # "idle" => pNode # cSucc)

\* recycler_invariant_failure, the signal for an occupied return slot, is
\* never given: with a successor there is always a place to return to.
ReturnSlotFree == deqResult.status # "recycler_invariant_failure"

\* Until an enqueue is abandoned, the nodes go round in the supplied order
\* for good: sentinel, queued nodes, the node in hand and the recycled ones
\* always follow each other as they do in NodeOrder.
RingOfNodes ==
    chain \o (IF Held = 1 THEN <<pNode>> ELSE << >>)
          \o [k \in 1 .. Recycled |-> recycler[RecyclerAt(k - 1)]]
ReuseFollowsOrder ==
    lost = 0 =>
        \E shift \in Nodes : \A i \in Nodes :
            RingOfNodes[i + 1] = NodeOrder[(i + shift) % (Capacity + 1)]

\* With both threads stopped, the audit sees exactly the queue, and its only
\* complaint can be a node kept by an abandoned enqueue: it reports every node
\* owned once if and only if no enqueue was abandoned.
AuditTellsTheTruth ==
    pPc = "idle" /\ cPc = "idle" =>
        LET audit == audit_quiescent
        IN  /\ audit.reachable_order = chain
            /\ audit.queued_events = Queued
            /\ audit.recycler_nodes = Recycled
            /\ audit.chain_acyclic /\ audit.tail_reachable
            /\ audit.recycler_fifo_shape /\ audit.positions_in_range
            /\ audit.every_node_owned_once <=> lost = 0

\* The list implements the bounded FIFO; the queued events are the ones
\* stored in the nodes behind the sentinel.  An abandoned enqueue may cost a
\* place, nothing else does.
QueuedEvents == [i \in 1 .. Queued |-> event[chain[i + 1]]]
Fifo == INSTANCE BoundedFifo WITH fifo <- QueuedEvents
ImplementsFifo == Fifo!Spec

\* The shape of the queue at every step of either thread: a chain from the
\* sentinel, a recycler that is a FIFO with a place for the next return, and
\* every node in one of them or in hand, going round in the supplied order.
LinkedInv ==
    /\ LinkedTypeOK
    /\ ChainIsList
    /\ RecyclerIsFifo
    /\ NodesOwnedOnce
    /\ ReturnSlotFree
    /\ ReuseFollowsOrder
=============================================================================

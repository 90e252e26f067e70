-------------------------- MODULE LinkedSpscProofs --------------------------
(***************************************************************************)
(* LinkedSpsc for every capacity, every node order and every set of events:*)
(* list, recycler and nodes keep their shape at every interleaving, plain  *)
(* node fields are never shared, the list implements BoundedFifo, and the  *)
(* audit of an idle queue finds what is there.                             *)
(***************************************************************************)
EXTENDS LinkedSpsc, SequenceTheorems, FiniteSetTheorems, TLAPS

\* The remainder of a number below twice the divisor.
LEMMA RemainderOnce ==
    ASSUME NEW N \in Nat \ {0}, NEW a \in 0 .. 2 * N - 1
    PROVE  a % N = IF a < N THEN a ELSE a - N
<1>1. CASE a \in 0 .. N - 1
  BY <1>1
<1>2. CASE a \in N .. 2 * N - 1
  BY <1>2
<1>. QED  BY <1>1, <1>2

\* The elements of a concatenation, with the lengths given by name.
LEMMA ConcatElements ==
    ASSUME NEW S, NEW u, NEW v, u \in Seq(S), v \in Seq(S),
           NEW l \in Nat, NEW m \in Nat, l = Len(u), m = Len(v)
    PROVE  \A k \in 1 .. l + m : (u \o v)[k] = IF k <= l THEN u[k] ELSE v[k - l]
BY ConcatProperties

USE LinkedCapacityAssumption, NodeOrderAssumption, PointersAssumption

\* What each thread knows between its loads and its stores: the producer's
\* node is the one it loaded and, once prepared, carries the event and no
\* successor; the consumer's successor is the second node of the chain.
LocalsStillTrue ==
    /\ pPc # "idle" => pNode \in Nodes /\ pEvent \in Events
    /\ pPc = "take" => recycler[obtainPos] = pNode
    /\ pPc = "link" => next[pNode] = NoNode /\ event[pNode] = pEvent
    /\ cPc # "idle" => Len(chain) > 1 /\ cSucc = chain[2]
    /\ cPc = "return" => cEvent = event[cSucc]

\* The nodes as one ring, place by place: the chain, the node in hand, the
\* recycler.  Until an enqueue is abandoned it holds them all.
RingAt(i) ==
    IF i < Len(chain) THEN chain[i + 1]
    ELSE IF i = Len(chain) /\ Held = 1 THEN pNode
    ELSE recycler[RecyclerAt(i - Len(chain) - Held)]

\* ReuseFollowsOrder, place by place.
RingFollowsOrder ==
    lost = 0 =>
        \E shift \in Nodes : \A i \in Nodes :
            RingAt(i) = NodeOrder[IF i + shift <= Capacity THEN i + shift
                                  ELSE i + shift - Capacity - 1]

LinkedIndInv ==
    /\ LinkedTypeOK
    /\ ChainIsList
    /\ RecyclerIsFifo
    /\ NodesOwnedOnce
    /\ ReturnSlotFree
    /\ LocalsStillTrue
    /\ RingFollowsOrder

-----------------------------------------------------------------------------
\* The recycler's places from the producer's position on are its positions,
\* each once; the place Capacity is the first one again.
LEMMA RecyclerPlaces ==
    ASSUME obtainPos \in Positions
    PROVE  /\ \A k \in 0 .. Capacity : RecyclerAt(k) \in Positions
           /\ RecyclerAt(0) = obtainPos
           /\ RecyclerAt(Capacity) = obtainPos
           /\ \A k, m \in 0 .. Capacity - 1 : RecyclerAt(k) = RecyclerAt(m) => k = m
           /\ \A k \in 0 .. Capacity - 1 : next_position(RecyclerAt(k)) = RecyclerAt(k + 1)
           /\ next_position(obtainPos) \in Positions
           /\ \A p \in Positions : \E k \in 0 .. Capacity - 1 : RecyclerAt(k) = p
<1>1. ASSUME NEW p \in Positions PROVE \E k \in 0 .. Capacity - 1 : RecyclerAt(k) = p
  <2>1. CASE p >= obtainPos
    <3>1. p - obtainPos \in 0 .. Capacity - 1 /\ RecyclerAt(p - obtainPos) = p
      BY <2>1 DEF Positions, RecyclerAt
    <3>. QED  BY <3>1
  <2>2. CASE p < obtainPos
    <3>1. p - obtainPos + Capacity \in 0 .. Capacity - 1
          /\ RecyclerAt(p - obtainPos + Capacity) = p
      BY <2>2 DEF Positions, RecyclerAt
    <3>. QED  BY <3>1
  <2>. QED  BY <2>1, <2>2 DEF Positions
<1>. QED  BY <1>1 DEF Positions, RecyclerAt, next_position

\* Moving the producer's position shifts the places by one.
LEMMA RecyclerPlacesShift ==
    ASSUME obtainPos \in Positions, obtainPos' = next_position(obtainPos)
    PROVE  \A k \in 0 .. Capacity - 1 : RecyclerAt(k)' = RecyclerAt(k + 1)
BY DEF Positions, RecyclerAt, next_position

\* The invariant's numbers and sequences, for the arithmetic of the steps.
LEMMA LinkedCounts ==
    ASSUME LinkedIndInv
    PROVE  /\ chain \in Seq(Nodes)
           /\ Len(chain) \in Nat \ {0}
           /\ \A i \in 1 .. Len(chain) : chain[i] \in Nodes
           /\ lost \in Nat
           /\ Held \in {0, 1}
           /\ Recycled = Capacity - (Len(chain) - 1) - Held - lost
           /\ Recycled \in 0 .. Capacity
           /\ Len(chain) - 1 + Held + lost <= Capacity
           /\ obtainPos \in Positions
<1>1. /\ chain \in Seq(Nodes) /\ chain # << >> /\ lost \in 0 .. Capacity
      /\ obtainPos \in Positions /\ Recycled \in 0 .. Capacity
  BY DEF LinkedIndInv, LinkedTypeOK, ChainIsList, RecyclerIsFifo
<1>2. Len(chain) \in Nat \ {0} /\ \A i \in 1 .. Len(chain) : chain[i] \in Nodes
  BY <1>1
<1>3. Held \in {0, 1} /\ Recycled = Capacity - (Len(chain) - 1) - Held - lost
  BY DEF Held, Recycled, Queued
<1>4. Len(chain) - 1 + Held + lost <= Capacity
  BY <1>1, <1>2, <1>3
<1>. QED  BY <1>1, <1>2, <1>3, <1>4

-----------------------------------------------------------------------------
LEMMA LinkedInvInit == Init => LinkedIndInv
<1> SUFFICES ASSUME Init PROVE LinkedIndInv
  OBVIOUS
<1>1. \A i \in Nodes : NodeOrder[i] \in Nodes
  OBVIOUS
<1>2. 0 \in Nodes /\ \A i \in Positions : i \in Nodes /\ i + 1 \in Nodes /\ i + 1 # 0
  BY DEF Nodes, Positions
<1>3. chain = <<NodeOrder[0]>> /\ chain \in Seq(Nodes) /\ Len(chain) = 1
      /\ chain[1] = NodeOrder[0]
  BY <1>1, <1>2 DEF Init
<1>4. LinkedTypeOK
  BY <1>1, <1>2, <1>3 DEF Init, LinkedTypeOK, Positions
<1>5. ChainIsList
  BY <1>1, <1>2, <1>3 DEF Init, ChainIsList
<1>6. Held = 0 /\ Recycled = Capacity /\ Queued = 0
  BY <1>3 DEF Init, Held, Recycled, Queued
<1>7. \A k \in 0 .. Capacity - 1 : RecyclerAt(k) = k /\ k \in Positions
  BY DEF Init, RecyclerAt, Positions
<1>8. RecyclerIsFifo
  <2>1. \A k \in Positions : recycler[k] \in Nodes /\ recycler[k] # NoNode
    BY <1>1, <1>2 DEF Init
  <2>2. returnPos = RecyclerAt(Recycled)
    BY <1>6 DEF Init, RecyclerAt
  <2>. QED  BY <1>6, <1>7, <2>1, <2>2 DEF RecyclerIsFifo
<1>9. NodesOwnedOnce
  <2>1. \A k \in Positions : recycler[k] = NodeOrder[k + 1]
    BY DEF Init
  <2>2. \A k, m \in Positions : k + 1 = m + 1 => k = m
    BY DEF Positions
  <2>. QED  BY <1>2, <1>3, <1>6, <2>1, <2>2 DEF NodesOwnedOnce
<1>10. ReturnSlotFree
  BY DEF Init, ReturnSlotFree
<1>11. LocalsStillTrue
  BY DEF Init, LocalsStillTrue
<1>12. RingFollowsOrder
  <2>1. ASSUME NEW i \in Nodes
        PROVE  RingAt(i) = NodeOrder[IF i + 0 <= Capacity THEN i + 0
                                     ELSE i + 0 - Capacity - 1]
    <3>1. CASE i = 0
      BY <1>3, <3>1 DEF RingAt
    <3>2. CASE i # 0
      <4>1. i - 1 \in Positions /\ RecyclerAt(i - 1) = i - 1 /\ i - 1 + 1 = i
        BY <1>7, <3>2 DEF Nodes, Positions
      <4>2. RingAt(i) = recycler[i - 1]
        BY <1>3, <1>6, <3>2, <4>1 DEF RingAt, Nodes
      <4>3. recycler[i - 1] = NodeOrder[i]
        BY <4>1 DEF Init
      <4>. QED  BY <4>2, <4>3 DEF Nodes
    <3>. QED  BY <3>1, <3>2
  <2>. QED  BY <1>2, <2>1 DEF RingFollowsOrder
<1>. QED  BY <1>4, <1>5, <1>8, <1>9, <1>10, <1>11, <1>12 DEF LinkedIndInv

-----------------------------------------------------------------------------
\* Steps that move no node: nothing but results and locals changes.
LEMMA LocalStepsKeepShape ==
    ASSUME LinkedIndInv,
           UNCHANGED <<next, event, recycler, chain, tail, head, obtainPos, returnPos>>,
           Held' + lost' = Held + lost, Held' = Held => pNode' = pNode \/ Held = 0,
           Held' = 1 => Held = 1,
           lost' \in Nat, lost' = 0 => lost = 0
    PROVE  /\ ChainIsList'
           /\ RecyclerIsFifo'
           /\ NodesOwnedOnce'
           /\ RingFollowsOrder'
<1>1. Recycled' = Recycled
  <2>1. PICK n \in Nat, m \in {0, 1}, l \in Nat :
          n = Len(chain) /\ m = Held /\ l = lost
    BY LinkedCounts
  <2>2. PICK k \in {0, 1} : k = Held'
    BY DEF Held
  <2>3. Len(chain') = n /\ k + lost' = m + l /\ lost' \in Nat
    BY <2>1, <2>2
  <2>4. Recycled = Capacity - (n - 1) - m - l /\ Recycled' = Capacity - (n - 1) - k - lost'
    BY <2>1, <2>2, <2>3 DEF Recycled, Queued
  <2>5. PICK j \in Nat : j = lost'
    BY <2>3
  <2>6. k + j = m + l => Capacity - (n - 1) - m - l = Capacity - (n - 1) - k - j
    OBVIOUS
  <2>. QED  BY <2>3, <2>4, <2>5, <2>6
<1>2. \A k : RecyclerAt(k)' = RecyclerAt(k)
  BY DEF RecyclerAt
<1>3. ChainIsList'
  BY DEF LinkedIndInv, ChainIsList
<1>4. RecyclerIsFifo'
  BY <1>1, <1>2 DEF LinkedIndInv, RecyclerIsFifo
<1>5. NodesOwnedOnce'
  <2>1. NodesOwnedOnce
    BY DEF LinkedIndInv
  <2>2. Held' = 1 => Held = 1 /\ pNode' = pNode
    OBVIOUS
  <2>. QED  BY <2>1, <2>2 DEF NodesOwnedOnce
<1>6. RingFollowsOrder'
  <2> SUFFICES ASSUME lost' = 0 PROVE RingFollowsOrder'
    BY DEF RingFollowsOrder
  <2>1. Held' = Held /\ lost = 0
    BY LinkedCounts DEF Held
  <2>2. \A i \in Nodes : RingAt(i)' = RingAt(i)
    BY <1>2, <2>1 DEF RingAt
  <2>. QED  BY <2>1, <2>2 DEF LinkedIndInv, RingFollowsOrder
<1>. QED  BY <1>3, <1>4, <1>5, <1>6

LEMMA EnqueueLocalKeepsInv ==
    ASSUME LinkedIndInv,
           EnqueueFull \/ (\E e \in Events : EnqueueObtain(e)) \/ EnqueueCaptureFailed
    PROVE  LinkedIndInv'
<1>1. /\ UNCHANGED <<next, event, recycler, chain, tail, head, obtainPos, returnPos>>
      /\ UNCHANGED <<cPc, cSucc, cEvent, deqResult, deqOps>>
  BY DEF EnqueueFull, EnqueueObtain, EnqueueCaptureFailed, EnqueueDone, consumerVars
<1>2. /\ Held' = 0 /\ Held + lost = lost' /\ lost' \in 0 .. Capacity
      /\ (lost' = 0 => lost = 0) /\ (Held = 0 => lost' = lost)
  BY LinkedCounts DEF EnqueueFull, EnqueueObtain, EnqueueCaptureFailed, EnqueueDone, Held
<1>3. LinkedTypeOK'
  <2>1. recycler[obtainPos] \in Nodes \cup {NoNode}
    BY DEF LinkedIndInv, LinkedTypeOK
  <2>. QED  BY <1>1, <1>2, <2>1 DEF LinkedIndInv, LinkedTypeOK, EnqueueFull,
               EnqueueObtain, EnqueueCaptureFailed, EnqueueDone
<1>4. LocalsStillTrue'
  <2>1. recycler[obtainPos] \in Nodes \cup {NoNode}
    BY DEF LinkedIndInv, LinkedTypeOK
  <2>. QED  BY <1>1, <2>1 DEF LinkedIndInv, LocalsStillTrue, EnqueueFull, EnqueueObtain,
               EnqueueCaptureFailed, EnqueueDone
<1>5. ReturnSlotFree'
  BY <1>1 DEF LinkedIndInv, ReturnSlotFree
<1>6. ChainIsList' /\ RecyclerIsFifo' /\ NodesOwnedOnce' /\ RingFollowsOrder'
  <2>1. /\ Held' + lost' = Held + lost /\ (Held' = 1 => Held = 1)
        /\ (Held' = Held => pNode' = pNode \/ Held = 0) /\ lost' \in Nat
    BY <1>2, LinkedCounts
  <2>. QED  BY <1>1, <1>2, <2>1, LocalStepsKeepShape
<1>. QED  BY <1>3, <1>4, <1>5, <1>6 DEF LinkedIndInv

\* With a successor in the chain the recycler is not full, so that the place
\* behind its nodes is free.
LEMMA ReturnPlaceIsFree ==
    ASSUME LinkedIndInv, Len(chain) > 1
    PROVE  /\ Recycled \in 0 .. Capacity - 1
           /\ returnPos = RecyclerAt(Recycled)
           /\ recycler[returnPos] = NoNode
<1>1. Recycled \in 0 .. Capacity - 1
  BY LinkedCounts
<1>. QED  BY <1>1 DEF LinkedIndInv, RecyclerIsFifo

\* What the consumer loads from the sentinel is the second node, or nothing.
LEMMA SentinelSuccessor ==
    ASSUME LinkedIndInv
    PROVE  next[head] = IF Len(chain) = 1 THEN NoNode ELSE chain[2]
<1>1. 1 \in 1 .. Len(chain) /\ head = chain[1] /\ 1 + 1 = 2
  BY LinkedCounts DEF LinkedIndInv, ChainIsList
<1>2. next[chain[1]] = IF 1 = Len(chain) THEN NoNode ELSE chain[1 + 1]
  BY <1>1 DEF LinkedIndInv, ChainIsList
<1>. QED  BY <1>1, <1>2

LEMMA DequeueLocalKeepsInv ==
    ASSUME LinkedIndInv,
           DequeueEmpty \/ DequeueObserve \/ DequeueCaptureFailed \/ DequeueCheck
    PROVE  LinkedIndInv'
<1>1. /\ UNCHANGED <<next, event, recycler, chain, tail, head, obtainPos, returnPos>>
      /\ UNCHANGED <<pPc, pNode, pEvent, enqResult, enqOps, lost>>
  BY DEF DequeueEmpty, DequeueObserve, DequeueCaptureFailed, DequeueCheck, producerVars
<1>2. Held' = Held
  BY <1>1 DEF Held
<1>3. DequeueCheck => recycler[returnPos] = NoNode
  BY ReturnPlaceIsFree DEF DequeueCheck, LinkedIndInv, LocalsStillTrue
<1>4. DequeueObserve => Len(chain) > 1 /\ next[head] = chain[2]
  <2>1. Len(chain) \in Nat \ {0}
    BY LinkedCounts
  <2>2. next[head] = IF Len(chain) = 1 THEN NoNode ELSE chain[2]
    BY SentinelSuccessor
  <2>3. DequeueObserve => next[head] # NoNode
    BY DEF DequeueObserve
  <2>4. PICK size \in Nat \ {0} : size = Len(chain)
    BY <2>1
  <2>. QED  BY <2>2, <2>3, <2>4
<1>5. LinkedTypeOK'
  <2>1. next[head] \in Nodes \cup {NoNode}
    BY DEF LinkedIndInv, LinkedTypeOK
  <2>2. cPc # "idle" => event[cSucc] \in Events \cup {Null}
    <3>1. cPc # "idle" => cSucc \in Nodes
      BY LinkedCounts DEF LinkedIndInv, LocalsStillTrue
    <3>. QED  BY <3>1 DEF LinkedIndInv, LinkedTypeOK
  <2>. QED  BY <1>1, <1>3, <2>1, <2>2 DEF LinkedIndInv, LinkedTypeOK, DequeueEmpty,
               DequeueObserve, DequeueCaptureFailed, DequeueCheck, DequeueDone
<1>6. LocalsStillTrue'
  BY <1>1, <1>3, <1>4 DEF LinkedIndInv, LocalsStillTrue, DequeueEmpty, DequeueObserve,
     DequeueCaptureFailed, DequeueCheck, DequeueDone
<1>7. ReturnSlotFree'
  BY <1>3 DEF LinkedIndInv, ReturnSlotFree, DequeueEmpty, DequeueObserve,
     DequeueCaptureFailed, DequeueCheck, DequeueDone
<1>8. ChainIsList' /\ RecyclerIsFifo' /\ NodesOwnedOnce' /\ RingFollowsOrder'
  <2>1. lost \in Nat /\ Held \in {0, 1}
    BY LinkedCounts
  <2>. QED  BY <1>1, <1>2, <2>1, LocalStepsKeepShape
<1>. QED  BY <1>5, <1>6, <1>7, <1>8 DEF LinkedIndInv

\* Taking a node from the recycler moves it into the producer's hand.
LEMMA TakeKeepsInv ==
    ASSUME LinkedIndInv, EnqueueTake
    PROVE  LinkedIndInv'
<1>0. PICK n \in Nat \ {0}, r \in 0 .. Capacity :
        n = Len(chain) /\ r = Recycled /\ n - 1 + lost <= Capacity /\ lost \in Nat
  <2>1. Held \in {0, 1}
    BY DEF Held
  <2>. QED  BY <2>1, LinkedCounts
<1>1. /\ UNCHANGED <<next, event, chain, tail, head, returnPos, pNode, pEvent, lost>>
      /\ UNCHANGED <<enqResult, enqOps, cPc, cSucc, cEvent, deqResult, deqOps>>
      /\ recycler' = [recycler EXCEPT ![obtainPos] = NoNode]
      /\ obtainPos' = next_position(obtainPos)
      /\ pPc = "take" /\ pPc' = "prepare"
  BY DEF EnqueueTake, consumerVars
<1>2. /\ recycler \in [Positions -> Nodes \cup {NoNode}] /\ obtainPos \in Positions
      /\ recycler[obtainPos] = pNode /\ pNode \in Nodes /\ pEvent \in Events
      /\ pNode # NoNode
  BY <1>1 DEF LinkedIndInv, LinkedTypeOK, LocalsStillTrue
<1>3. Held = 0 /\ Held' = 1
  BY <1>1 DEF Held
<1>4. r \in 1 .. Capacity /\ Recycled' = r - 1
  <2>2. 0 \in 0 .. Capacity - 1 /\ RecyclerAt(0) = obtainPos
    BY <1>2, RecyclerPlaces
  <2>3. 0 < r
    BY <1>0, <1>2, <2>2 DEF LinkedIndInv, RecyclerIsFifo
  <2>4. Recycled' = Capacity - (n - 1) - 1 - lost /\ r = Capacity - (n - 1) - 0 - lost
    BY <1>0, <1>1, <1>3 DEF Recycled, Queued
  <2>. QED  BY <1>0, <2>3, <2>4
<1>5. \A k \in 0 .. Capacity - 1 : RecyclerAt(k)' = RecyclerAt(k + 1)
  BY <1>1, <1>2, RecyclerPlacesShift
<1>6. \A p \in Positions : recycler'[p] = IF p = obtainPos THEN NoNode ELSE recycler[p]
  BY <1>1, <1>2
<1>7. LinkedTypeOK'
  BY <1>1, <1>2, RecyclerPlaces DEF LinkedIndInv, LinkedTypeOK
<1>8. ChainIsList'
  BY <1>1 DEF LinkedIndInv, ChainIsList
<1>9. RecyclerIsFifo'
  <2>1. ASSUME NEW k \in 0 .. Capacity - 1
        PROVE  recycler'[RecyclerAt(k)'] # NoNode <=> k < r - 1
    <3>1. CASE k = Capacity - 1
      <4>1. RecyclerAt(k)' = obtainPos
        BY <1>2, <1>5, <3>1, RecyclerPlaces
      <4>. QED  BY <1>2, <1>4, <1>6, <3>1, <4>1
    <3>2. CASE k # Capacity - 1
      <4>1. k + 1 \in 0 .. Capacity - 1 /\ k + 1 # 0
        BY <3>2
      <4>2. RecyclerAt(k + 1) # obtainPos /\ RecyclerAt(k + 1) \in Positions
        BY <1>2, <4>1, RecyclerPlaces
      <4>3. recycler[RecyclerAt(k + 1)] # NoNode <=> k + 1 < r
        BY <1>0, <4>1 DEF LinkedIndInv, RecyclerIsFifo
      <4>4. recycler'[RecyclerAt(k)'] = recycler[RecyclerAt(k + 1)]
        BY <1>5, <1>6, <4>2
      <4>. QED  BY <1>4, <4>3, <4>4
    <3>. QED  BY <3>1, <3>2
  <2>2. returnPos' = RecyclerAt(r - 1)'
    <3>1. r - 1 \in 0 .. Capacity - 1 /\ (r - 1) + 1 = r
      BY <1>4
    <3>2. RecyclerAt(r - 1)' = RecyclerAt(r)
      BY <1>5, <3>1
    <3>. QED  BY <1>0, <1>1, <3>2 DEF LinkedIndInv, RecyclerIsFifo
  <2>3. r - 1 \in 0 .. Capacity
    BY <1>4
  <2>. QED  BY <1>4, <2>1, <2>2, <2>3 DEF RecyclerIsFifo
<1>10. NodesOwnedOnce'
  <2>1. NodesOwnedOnce /\ chain' = chain /\ pNode' = pNode
    BY <1>1 DEF LinkedIndInv
  <2>2. \A k \in 1 .. Len(chain) : chain[k] \in Nodes /\ chain[k] # NoNode
    BY LinkedCounts
  <2>3. \A k, m \in Positions :
          recycler'[k] = recycler'[m] /\ recycler'[k] # NoNode => k = m
    BY <1>6, <2>1 DEF NodesOwnedOnce
  <2>4. \A k \in 1 .. Len(chain), m \in Positions : chain[k] # recycler'[m]
    BY <1>6, <2>1, <2>2 DEF NodesOwnedOnce
  <2>5. \A k \in 1 .. Len(chain) : chain[k] # pNode
    BY <1>2, <2>1 DEF NodesOwnedOnce
  <2>6. \A m \in Positions : recycler'[m] # pNode
    BY <1>2, <1>6, <2>1 DEF NodesOwnedOnce
  <2>. QED  BY <2>1, <2>3, <2>4, <2>5, <2>6 DEF NodesOwnedOnce
<1>11. ReturnSlotFree' /\ LocalsStillTrue'
  BY <1>1, <1>2 DEF LinkedIndInv, ReturnSlotFree, LocalsStillTrue
<1>12. RingFollowsOrder'
  <2> SUFFICES ASSUME lost = 0 PROVE RingFollowsOrder'
    BY <1>1 DEF RingFollowsOrder
  <2>1. ASSUME NEW i \in Nodes PROVE RingAt(i)' = RingAt(i)
    <3>1. CASE i < n
      BY <1>0, <1>1, <3>1 DEF RingAt
    <3>2. CASE i = n
      <4>1. RingAt(i)' = pNode
        BY <1>0, <1>1, <1>3, <3>2 DEF RingAt
      <4>2. RingAt(i) = recycler[RecyclerAt(0)]
        BY <1>0, <1>3, <3>2 DEF RingAt
      <4>. QED  BY <1>2, <4>1, <4>2, RecyclerPlaces
    <3>3. CASE i > n
      <4>1. i - n - 1 \in 0 .. Capacity - 1 /\ (i - n - 1) + 1 = i - n
            /\ i - n \in 0 .. Capacity - 1 /\ i - n # 0 /\ i - n - 0 = i - n
        <5>1. i \in Int /\ n \in Int /\ Capacity \in Int
              /\ i <= Capacity /\ 1 <= n /\ n < i
          BY <3>3 DEF Nodes
        <5>. QED  BY <5>1
      <4>2. RingAt(i)' = recycler'[RecyclerAt(i - n - 1)']
        BY <1>0, <1>1, <1>3, <3>3 DEF RingAt, Nodes
      <4>3. RingAt(i) = recycler[RecyclerAt(i - n)]
        BY <1>0, <1>3, <3>3, <4>1 DEF RingAt, Nodes
      <4>4. RecyclerAt(i - n) # obtainPos /\ RecyclerAt(i - n) \in Positions
        BY <1>2, <4>1, RecyclerPlaces
      <4>5. RecyclerAt(i - n - 1)' = RecyclerAt(i - n)
        BY <1>5, <4>1
      <4>. QED  BY <1>6, <4>2, <4>3, <4>4, <4>5
    <3>. QED  BY <1>0, <3>1, <3>2, <3>3 DEF Nodes
  <2>. QED  BY <2>1 DEF LinkedIndInv, RingFollowsOrder
<1>. QED  BY <1>7, <1>8, <1>9, <1>10, <1>11, <1>12 DEF LinkedIndInv

\* The plain writes touch a node that is in nobody else's reach.
LEMMA PrepareKeepsInv ==
    ASSUME LinkedIndInv, EnqueuePrepare
    PROVE  LinkedIndInv'
<1>1. /\ UNCHANGED <<recycler, chain, tail, obtainPos, head, returnPos, pNode, pEvent, lost>>
      /\ UNCHANGED <<enqResult, enqOps, cPc, cSucc, cEvent, deqResult, deqOps>>
      /\ event' = [event EXCEPT ![pNode] = pEvent]
      /\ next' = [next EXCEPT ![pNode] = NoNode]
      /\ pPc = "prepare" /\ pPc' = "link"
  BY DEF EnqueuePrepare, consumerVars
<1>2. /\ pNode \in Nodes /\ pEvent \in Events
      /\ next \in [Nodes -> Nodes \cup {NoNode}]
      /\ event \in [Nodes -> Events \cup {Null}]
  BY <1>1 DEF LinkedIndInv, LinkedTypeOK, LocalsStillTrue
<1>3. Held = 1 /\ Held' = 1
  BY <1>1 DEF Held
<1>4. \A i \in 1 .. Len(chain) :
        chain[i] # pNode /\ chain[i] \in Nodes
        /\ next'[chain[i]] = next[chain[i]] /\ event'[chain[i]] = event[chain[i]]
  BY <1>1, <1>2, <1>3, LinkedCounts DEF LinkedIndInv, NodesOwnedOnce
<1>5. LinkedTypeOK'
  BY <1>1, <1>2 DEF LinkedIndInv, LinkedTypeOK
<1>6. ChainIsList'
  BY <1>1, <1>4 DEF LinkedIndInv, ChainIsList
<1>7. Recycled' = Recycled /\ \A k : RecyclerAt(k)' = RecyclerAt(k)
  BY <1>1, <1>3 DEF Recycled, Queued, RecyclerAt
<1>8. RecyclerIsFifo'
  BY <1>1, <1>7 DEF LinkedIndInv, RecyclerIsFifo
<1>9. NodesOwnedOnce'
  BY <1>1, <1>3 DEF LinkedIndInv, NodesOwnedOnce
<1>10. ReturnSlotFree'
  BY <1>1 DEF LinkedIndInv, ReturnSlotFree
<1>11. LocalsStillTrue'
  <2>1. cPc # "idle" => event'[chain[2]] = event[chain[2]]
    <3>1. cPc # "idle" => 2 \in 1 .. Len(chain)
      BY LinkedCounts DEF LinkedIndInv, LocalsStillTrue
    <3>. QED  BY <1>4, <3>1
  <2>. QED  BY <1>1, <1>2, <2>1 DEF LinkedIndInv, LocalsStillTrue
<1>12. RingFollowsOrder'
  <2>1. \A i \in Nodes : RingAt(i)' = RingAt(i)
    BY <1>1, <1>3, <1>7 DEF RingAt
  <2>. QED  BY <1>1, <2>1 DEF LinkedIndInv, RingFollowsOrder
<1>. QED  BY <1>5, <1>6, <1>8, <1>9, <1>10, <1>11, <1>12 DEF LinkedIndInv

\* The linking store moves the node in hand to the end of the chain.
LEMMA LinkKeepsInv ==
    ASSUME LinkedIndInv, EnqueueLink
    PROVE  LinkedIndInv'
<1>0. PICK n \in Nat \ {0}, r \in 0 .. Capacity :
        n = Len(chain) /\ r = Recycled /\ lost \in Nat
  BY LinkedCounts
<1>1. /\ UNCHANGED <<event, recycler, obtainPos, head, returnPos, lost>>
      /\ UNCHANGED <<cPc, cSucc, cEvent, deqResult, deqOps>>
      /\ next' = [next EXCEPT ![tail] = pNode]
      /\ tail' = pNode
      /\ chain' = Append(chain, pNode)
      /\ enqResult' = "accepted" /\ enqOps' = 1 - enqOps
      /\ pPc = "link" /\ pPc' = "idle" /\ pNode' = NoNode /\ pEvent' = Null
  BY DEF EnqueueLink, EnqueueDone, consumerVars
<1>2. /\ pNode \in Nodes /\ pNode # NoNode /\ next[pNode] = NoNode
      /\ next \in [Nodes -> Nodes \cup {NoNode}] /\ tail \in Nodes
  BY <1>1 DEF LinkedIndInv, LinkedTypeOK, LocalsStillTrue
<1>3. Held = 1 /\ Held' = 0
  BY <1>1 DEF Held
<1>4. /\ chain \in Seq(Nodes) /\ chain' \in Seq(Nodes) /\ Len(chain') = n + 1
      /\ \A i \in 1 .. n : chain'[i] = chain[i] /\ chain[i] \in Nodes /\ chain[i] # pNode
      /\ chain'[n + 1] = pNode
  <2>1. chain \in Seq(Nodes) /\ \A i \in 1 .. n : chain[i] \in Nodes
    BY <1>0, LinkedCounts
  <2>2. \A i \in 1 .. n : chain[i] # pNode
    BY <1>0, <1>3 DEF LinkedIndInv, NodesOwnedOnce
  <2>. QED  BY <1>0, <1>1, <1>2, <2>1, <2>2
<1>5. \A i \in 1 .. n + 1 : i \in 1 .. n \/ i = n + 1
  OBVIOUS
<1>6. LinkedTypeOK'
  BY <1>1, <1>2, <1>4 DEF LinkedIndInv, LinkedTypeOK
<1>7. ChainIsList'
  <2>1. tail = chain[n] /\ head = chain[1] /\ n \in 1 .. n /\ 1 \in 1 .. n
    BY <1>0 DEF LinkedIndInv, ChainIsList
  <2>2. ASSUME NEW i \in 1 .. n + 1
        PROVE  next'[chain'[i]] = IF i = n + 1 THEN NoNode ELSE chain'[i + 1]
    <3>1. CASE i = n + 1
      <4>1. pNode # tail
        BY <1>4, <2>1
      <4>. QED  BY <1>1, <1>2, <1>4, <3>1, <4>1
    <3>2. CASE i = n
      BY <1>1, <1>2, <1>4, <2>1, <3>2
    <3>3. CASE i \in 1 .. n - 1
      <4>1. i \in 1 .. n /\ i + 1 \in 1 .. n /\ i # n /\ i # n + 1
        BY <3>3
      <4>2. next[chain[i]] = chain[i + 1]
        BY <1>0, <4>1 DEF LinkedIndInv, ChainIsList
      <4>3. chain[i] # tail
        BY <1>0, <2>1, <4>1 DEF LinkedIndInv, NodesOwnedOnce
      <4>. QED  BY <1>1, <1>2, <1>4, <4>1, <4>2, <4>3
    <3>. QED  BY <3>1, <3>2, <3>3
  <2>3. chain' # << >>
    BY <1>4
  <2>. QED  BY <1>1, <1>4, <2>1, <2>2, <2>3 DEF ChainIsList
<1>8. Recycled' = Recycled /\ \A k : RecyclerAt(k)' = RecyclerAt(k)
  BY <1>0, <1>1, <1>3, <1>4 DEF Recycled, Queued, RecyclerAt
<1>9. RecyclerIsFifo'
  BY <1>1, <1>8 DEF LinkedIndInv, RecyclerIsFifo
<1>10. NodesOwnedOnce'
  <2>1. \A i, j \in 1 .. n + 1 : chain'[i] = chain'[j] => i = j
    BY <1>0, <1>4, <1>5 DEF LinkedIndInv, NodesOwnedOnce
  <2>2. \A i \in 1 .. n + 1, k \in Positions : chain'[i] # recycler[k]
    BY <1>0, <1>3, <1>4, <1>5 DEF LinkedIndInv, NodesOwnedOnce
  <2>. QED  BY <1>1, <1>3, <1>4, <2>1, <2>2 DEF LinkedIndInv, NodesOwnedOnce
<1>11. ReturnSlotFree'
  BY <1>1 DEF LinkedIndInv, ReturnSlotFree
<1>12. LocalsStillTrue'
  <2>1. cPc # "idle" => 2 \in 1 .. n
    BY <1>0 DEF LinkedIndInv, LocalsStillTrue
  <2>. QED  BY <1>0, <1>1, <1>4, <2>1 DEF LinkedIndInv, LocalsStillTrue
<1>13. RingFollowsOrder'
  <2>1. ASSUME NEW i \in Nodes PROVE RingAt(i)' = RingAt(i)
    <3>1. i \in Nat /\ (i < n => i + 1 \in 1 .. n)
      BY DEF Nodes
    <3>2. CASE i < n
      BY <1>0, <1>4, <3>1, <3>2 DEF RingAt
    <3>3. CASE i = n
      BY <1>0, <1>3, <1>4, <3>3 DEF RingAt
    <3>4. CASE i > n
      <4>1. ~ (i < n) /\ i # n /\ ~ (i < n + 1) /\ i - (n + 1) - 0 = i - n - 1
        BY <3>1, <3>4
      <4>2. RingAt(i)' = recycler'[RecyclerAt(i - (n + 1) - 0)']
        BY <1>3, <1>4, <4>1 DEF RingAt
      <4>3. RingAt(i) = recycler[RecyclerAt(i - n - 1)]
        BY <1>0, <1>3, <4>1 DEF RingAt
      <4>. QED  BY <1>1, <1>8, <4>1, <4>2, <4>3
    <3>. QED  BY <3>1, <3>2, <3>3, <3>4
  <2>. QED  BY <1>1, <2>1 DEF LinkedIndInv, RingFollowsOrder
<1>. QED  BY <1>6, <1>7, <1>9, <1>10, <1>11, <1>12, <1>13 DEF LinkedIndInv

\* The dequeue moves the sentinel behind the recycled nodes: the ring of
\* nodes turns by one place.
LEMMA ReturnKeepsInv ==
    ASSUME LinkedIndInv, DequeueReturn
    PROVE  LinkedIndInv'
<1>0. PICK n \in Nat \ {0, 1}, r \in 0 .. Capacity - 1, h \in {0, 1} :
        /\ n = Len(chain) /\ r = Recycled /\ lost \in Nat /\ h = Held
        /\ r = Capacity - (n - 1) - h - lost
  <2>1. Len(chain) > 1
    BY DEF LinkedIndInv, LocalsStillTrue, DequeueReturn
  <2>2. Recycled \in 0 .. Capacity - 1
    BY <2>1, ReturnPlaceIsFree
  <2>. QED  BY <2>1, <2>2, LinkedCounts
<1>1. /\ UNCHANGED <<next, event, tail, obtainPos, pPc, pNode, pEvent, lost>>
      /\ UNCHANGED <<enqResult, enqOps>>
      /\ head' = cSucc
      /\ recycler' = [recycler EXCEPT ![returnPos] = head]
      /\ returnPos' = next_position(returnPos)
      /\ chain' = Tail(chain)
      /\ deqResult' = [status |-> "item", event |-> cEvent]
      /\ deqOps' = 1 - deqOps
      /\ cPc = "return" /\ cPc' = "idle" /\ cSucc' = NoNode /\ cEvent' = Null
  BY DEF DequeueReturn, DequeueDone, producerVars
<1>2. /\ recycler \in [Positions -> Nodes \cup {NoNode}]
      /\ returnPos = RecyclerAt(r) /\ returnPos \in Positions
      /\ recycler[returnPos] = NoNode
      /\ obtainPos \in Positions
      /\ cEvent \in Events \cup {Null}
  BY <1>0, ReturnPlaceIsFree DEF LinkedIndInv, LinkedTypeOK
<1>3. /\ chain \in Seq(Nodes) /\ chain' \in Seq(Nodes) /\ Len(chain') = n - 1
      /\ \A i \in 1 .. n - 1 : chain'[i] = chain[i + 1]
      /\ \A i \in 1 .. n : chain[i] \in Nodes
      /\ head = chain[1] /\ cSucc = chain[2] /\ 1 \in 1 .. n /\ 2 \in 1 .. n
  <2>1. chain \in Seq(Nodes) /\ \A i \in 1 .. n : chain[i] \in Nodes
    BY <1>0, LinkedCounts
  <2>2. head = chain[1] /\ cSucc = chain[2]
    BY <1>1 DEF LinkedIndInv, ChainIsList, LocalsStillTrue
  <2>. QED  BY <1>0, <1>1, <2>1, <2>2
<1>4. \A i \in 1 .. n - 1 : i + 1 \in 1 .. n /\ i + 1 # 1
  BY <1>0
<1>5. \A p \in Positions : recycler'[p] = IF p = returnPos THEN head ELSE recycler[p]
  BY <1>1, <1>2
<1>6. Held' = h /\ Recycled' = r + 1 /\ r + 1 \in 0 .. Capacity
  BY <1>0, <1>1, <1>3 DEF Held, Recycled, Queued
<1>7. \A k : RecyclerAt(k)' = RecyclerAt(k)
  BY <1>1 DEF RecyclerAt
<1>8. next_position(returnPos) = RecyclerAt(r + 1)
      /\ next_position(returnPos) \in Positions
  BY <1>0, <1>2, <1>6, RecyclerPlaces
<1>9. LinkedTypeOK'
  <2>1. head \in Nodes /\ cSucc \in Nodes
    BY <1>3
  <2>. QED  BY <1>1, <1>2, <1>3, <1>8, <2>1 DEF LinkedIndInv, LinkedTypeOK
<1>10. ChainIsList'
  <2>1. ASSUME NEW i \in 1 .. n - 1
        PROVE  next[chain'[i]] = IF i = n - 1 THEN NoNode ELSE chain'[i + 1]
    <3>1. next[chain[i + 1]] = IF i + 1 = n THEN NoNode ELSE chain[(i + 1) + 1]
      BY <1>0, <1>4 DEF LinkedIndInv, ChainIsList
    <3>2. CASE i = n - 1
      BY <1>3, <3>1, <3>2
    <3>3. CASE i # n - 1
      <4>1. i + 1 \in 1 .. n - 1 /\ i + 1 # n
        BY <3>3
      <4>. QED  BY <1>3, <3>1, <3>3, <4>1
    <3>. QED  BY <3>2, <3>3
  <2>2. chain' # << >> /\ n - 1 \in 1 .. n - 1 /\ 1 \in 1 .. n - 1 /\ (n - 1) + 1 = n
        /\ 1 + 1 = 2
    BY <1>0, <1>3
  <2>3. tail = chain[n]
    BY <1>0 DEF LinkedIndInv, ChainIsList
  <2>4. tail' = chain'[n - 1] /\ head' = chain'[1]
    BY <1>1, <1>3, <2>2, <2>3
  <2>. QED  BY <1>1, <1>3, <2>1, <2>2, <2>4 DEF ChainIsList
<1>11. RecyclerIsFifo'
  <2>1. ASSUME NEW k \in 0 .. Capacity - 1
        PROVE  recycler'[RecyclerAt(k)] # NoNode <=> k < r + 1
    <3>1. RecyclerAt(k) \in Positions /\ (recycler[RecyclerAt(k)] # NoNode <=> k < r)
      <4>1. RecyclerAt(k) \in Positions
        BY <1>2, RecyclerPlaces
      <4>2. recycler[RecyclerAt(k)] # NoNode <=> k < Recycled
        BY DEF LinkedIndInv, RecyclerIsFifo
      <4>. QED  BY <1>0, <4>1, <4>2
    <3>2. CASE k = r
      <4>1. head # NoNode
        BY <1>3
      <4>. QED  BY <1>2, <1>5, <3>1, <3>2, <4>1
    <3>3. CASE k # r
      <4>1. RecyclerAt(k) # returnPos
        BY <1>0, <1>2, <3>3, RecyclerPlaces
      <4>. QED  BY <1>5, <3>1, <3>3, <4>1
    <3>. QED  BY <3>2, <3>3
  <2>. QED  BY <1>1, <1>6, <1>7, <1>8, <2>1 DEF RecyclerIsFifo
<1>12. NodesOwnedOnce'
  <2>1. /\ \A i, j \in 1 .. n : chain[i] = chain[j] => i = j
        /\ \A k, m \in Positions :
             recycler[k] = recycler[m] /\ recycler[k] # NoNode => k = m
        /\ \A i \in 1 .. n, k \in Positions : chain[i] # recycler[k]
        /\ h = 1 => /\ \A i \in 1 .. n : chain[i] # pNode
                    /\ \A k \in Positions : recycler[k] # pNode
    BY <1>0 DEF LinkedIndInv, NodesOwnedOnce
  <2>2. \A i, j \in 1 .. n - 1 : chain'[i] = chain'[j] => i = j
    BY <1>3, <1>4, <2>1
  <2>3. \A k, m \in Positions :
          recycler'[k] = recycler'[m] /\ recycler'[k] # NoNode => k = m
    BY <1>3, <1>5, <2>1
  <2>4. \A i \in 1 .. n - 1, k \in Positions : chain'[i] # recycler'[k]
    BY <1>3, <1>4, <1>5, <2>1
  <2>5. h = 1 => /\ \A i \in 1 .. n - 1 : chain'[i] # pNode
                 /\ \A k \in Positions : recycler'[k] # pNode
    <3>1. ASSUME h = 1, NEW i \in 1 .. n - 1 PROVE chain'[i] # pNode
      <4>1. i + 1 \in 1 .. n /\ chain'[i] = chain[i + 1]
        BY <1>3, <1>4, <3>1
      <4>2. chain[i + 1] # pNode
        BY <2>1, <3>1, <4>1
      <4>. QED  BY <4>1, <4>2
    <3>2. ASSUME h = 1, NEW k \in Positions PROVE recycler'[k] # pNode
      BY <1>3, <1>5, <2>1, <3>2
    <3>. QED  BY <3>1, <3>2
  <2>. QED  BY <1>1, <1>3, <1>6, <2>2, <2>3, <2>4, <2>5 DEF NodesOwnedOnce
<1>13. ReturnSlotFree'
  BY <1>1 DEF ReturnSlotFree
<1>14. LocalsStillTrue'
  <2>1. pPc = "take" => obtainPos # returnPos
    BY <1>2 DEF LinkedIndInv, LocalsStillTrue
  <2>. QED  BY <1>1, <1>2, <1>5, <2>1 DEF LinkedIndInv, LocalsStillTrue
<1>15. RingFollowsOrder'
  <2> SUFFICES ASSUME lost = 0 PROVE RingFollowsOrder'
    BY <1>1 DEF RingFollowsOrder
  <2>1. ASSUME NEW i \in 0 .. Capacity - 1 PROVE RingAt(i)' = RingAt(i + 1)
    <3>1. CASE i < n - 1
      <4>1. i + 1 \in 1 .. n - 1 /\ i + 1 < n
        BY <1>0, <3>1
      <4>. QED  BY <1>0, <1>3, <3>1, <4>1 DEF RingAt
    <3>2. CASE i = n - 1 /\ h = 1
      <4>1. i + 1 = n /\ ~ (i < n - 1)
        BY <1>0, <3>2
      <4>. QED  BY <1>0, <1>1, <1>3, <1>6, <3>2, <4>1 DEF RingAt
    <3>3. CASE i >= n - 1 + h
      <4> DEFINE k == i - (n - 1) - h
      <4>1. /\ i \in Int /\ n \in Int /\ Capacity \in Int /\ h \in {0, 1}
            /\ i <= Capacity - 1 /\ n >= 2 /\ i >= n - 1 + h /\ r = Capacity - (n - 1) - h
        BY <1>0, <3>3
      <4>2. k \in 0 .. Capacity - 1 /\ k < r /\ ~ (i < n - 1) /\ ~ (i = n - 1 /\ h = 1)
            /\ ~ (i + 1 < n) /\ ~ (i + 1 = n /\ h = 1) /\ (i + 1) - n - h = k
        BY <4>1
      <4>3. RingAt(i)' = recycler'[RecyclerAt(i - (n - 1) - h)']
        BY <1>1, <1>3, <1>6, <4>2 DEF RingAt
      <4>4. RingAt(i + 1) = recycler[RecyclerAt((i + 1) - n - h)]
        BY <1>0, <4>2 DEF RingAt
      <4>5. RecyclerAt(k) # returnPos /\ RecyclerAt(k) \in Positions
        BY <1>0, <1>2, <4>2, RecyclerPlaces
      <4>. QED  BY <1>5, <1>7, <4>2, <4>3, <4>4, <4>5
    <3>. QED  BY <1>0, <3>1, <3>2, <3>3
  <2>2. RingAt(Capacity)' = RingAt(0)
    <3>1. RingAt(0) = head /\ 0 + 1 = 1
      BY <1>0, <1>3 DEF RingAt
    <3>2. Capacity - (n - 1) - h = r /\ ~ (Capacity < n - 1) /\ ~ (Capacity = n - 1 /\ h = 1)
      BY <1>0
    <3>3. RingAt(Capacity)' = recycler'[RecyclerAt(Capacity - (n - 1) - h)']
      BY <1>1, <1>3, <1>6, <3>2 DEF RingAt
    <3>. QED  BY <1>2, <1>5, <1>7, <3>1, <3>2, <3>3
  <2>3. PICK s \in Nodes : \A i \in Nodes :
          RingAt(i) = NodeOrder[IF i + s <= Capacity THEN i + s ELSE i + s - Capacity - 1]
    BY DEF LinkedIndInv, RingFollowsOrder
  <2> DEFINE t == IF s = Capacity THEN 0 ELSE s + 1
  <2>4. t \in Nodes
    BY DEF Nodes
  <2>5. ASSUME NEW i \in Nodes
        PROVE  RingAt(i)' =
                 NodeOrder[IF i + t <= Capacity THEN i + t ELSE i + t - Capacity - 1]
    <3>1. CASE i = Capacity
      <4>1. RingAt(0) = NodeOrder[s]
        BY <2>3 DEF Nodes
      <4>2. s = IF i + t <= Capacity THEN i + t ELSE i + t - Capacity - 1
        BY <3>1 DEF Nodes
      <4>. QED  BY <2>2, <3>1, <4>1, <4>2
    <3>2. CASE i # Capacity
      <4>1. i \in 0 .. Capacity - 1 /\ i + 1 \in Nodes
        BY <3>2 DEF Nodes
      <4>2. RingAt(i)' = NodeOrder[IF (i + 1) + s <= Capacity THEN (i + 1) + s
                                   ELSE (i + 1) + s - Capacity - 1]
        BY <2>1, <2>3, <4>1
      <4>3. (IF (i + 1) + s <= Capacity THEN (i + 1) + s ELSE (i + 1) + s - Capacity - 1)
            = IF i + t <= Capacity THEN i + t ELSE i + t - Capacity - 1
        BY <4>1 DEF Nodes
      <4>. QED  BY <4>2, <4>3
    <3>. QED  BY <3>1, <3>2
  <2> HIDE DEF t
  <2>. QED  BY <2>4, <2>5 DEF RingFollowsOrder
<1>. QED  BY <1>9, <1>10, <1>11, <1>12, <1>13, <1>14, <1>15 DEF LinkedIndInv

-----------------------------------------------------------------------------
\* At every interleaving of one producer and one consumer the list, the
\* recycler and the locals of both threads keep their shape.
THEOREM LinkedInvariant == Spec => []LinkedIndInv
<1>1. LinkedIndInv /\ [Next]_vars => LinkedIndInv'
  <2> SUFFICES ASSUME LinkedIndInv, [Next]_vars PROVE LinkedIndInv'
    OBVIOUS
  <2>1. CASE Producer
    BY <2>1, EnqueueLocalKeepsInv, TakeKeepsInv, PrepareKeepsInv, LinkKeepsInv DEF Producer
  <2>2. CASE Consumer
    BY <2>2, DequeueLocalKeepsInv, ReturnKeepsInv DEF Consumer
  <2>3. CASE UNCHANGED vars
    <3>1. /\ UNCHANGED <<next, event, recycler, chain, tail, head, obtainPos, returnPos>>
          /\ UNCHANGED <<pPc, pNode, pEvent, enqResult, enqOps, lost>>
          /\ UNCHANGED <<cPc, cSucc, cEvent, deqResult, deqOps>>
      BY <2>3 DEF vars, producerVars, consumerVars
    <3>2. LinkedTypeOK' /\ ReturnSlotFree' /\ LocalsStillTrue'
      BY <3>1 DEF LinkedIndInv, LinkedTypeOK, ReturnSlotFree, LocalsStillTrue
    <3>3. Held' = Held /\ Held \in {0, 1} /\ lost \in Nat
      BY <3>1, LinkedCounts DEF Held
    <3>. QED  BY <3>1, <3>2, <3>3, LocalStepsKeepShape DEF LinkedIndInv
  <2>. QED  BY <2>1, <2>2, <2>3 DEF Next
<1>. QED  BY LinkedInvInit, <1>1, PTL DEF Spec

\* Place by place, the concatenation of chain, hand and recycler is RingAt.
LEMMA RingPlaces ==
    ASSUME LinkedIndInv, lost = 0, NEW i \in Nodes
    PROVE  RingOfNodes[i + 1] = RingAt(i)
<1>0. PICK n \in Nat \ {0}, r \in 0 .. Capacity, h \in {0, 1} :
        n = Len(chain) /\ r = Recycled /\ h = Held /\ r = Capacity - (n - 1) - h
  BY LinkedCounts
<1> DEFINE hand == IF Held = 1 THEN <<pNode>> ELSE << >>
           rest == [k \in 1 .. Recycled |-> recycler[RecyclerAt(k - 1)]]
           N == Nodes \cup {NoNode}
<1>1. chain \in Seq(N) /\ \A k \in 1 .. n : chain[k] \in N
  BY <1>0, LinkedCounts
<1>2. hand \in Seq(N) /\ Len(hand) = h /\ (h = 1 => hand[1] = pNode)
  <2>1. pNode \in N
    BY DEF LinkedIndInv, LinkedTypeOK
  <2>2. CASE h = 1
    BY <1>0, <2>1, <2>2
  <2>3. CASE h = 0
    BY <1>0, <2>1, <2>3
  <2>. QED  BY <2>2, <2>3
<1>3. rest \in Seq(N) /\ Len(rest) = r
      /\ \A k \in 1 .. r : rest[k] = recycler[RecyclerAt(k - 1)]
  <2>1. \A k \in 1 .. r : recycler[RecyclerAt(k - 1)] \in N
    <3>1. \A k \in 1 .. r : k - 1 \in 0 .. Capacity
      OBVIOUS
    <3>2. \A k \in 1 .. r : RecyclerAt(k - 1) \in Positions
      BY <3>1, LinkedCounts, RecyclerPlaces
    <3>. QED  BY <3>2 DEF LinkedIndInv, LinkedTypeOK
  <2>. QED  BY <1>0, <2>1
<1>4. RingOfNodes = chain \o hand \o rest
  BY DEF RingOfNodes
<1> HIDE DEF hand, rest, N
<1>5. chain \o hand \in Seq(N) /\ Len(chain \o hand) = n + h
      /\ \A k \in 1 .. n : (chain \o hand)[k] = chain[k]
      /\ h = 1 => (chain \o hand)[n + 1] = hand[1]
  BY <1>0, <1>1, <1>2, ConcatProperties
<1> DEFINE front == chain \o hand
<1>6. front \in Seq(N) /\ Len(front) = n + h
      /\ (\A k \in 1 .. n : front[k] = chain[k]) /\ (h = 1 => front[n + 1] = pNode)
  BY <1>2, <1>5
<1>7. RingOfNodes = front \o rest
  BY <1>4
<1> HIDE DEF front
<1>8. \A k \in 1 .. n + h + r :
        (front \o rest)[k] = IF k <= n + h THEN front[k] ELSE rest[k - (n + h)]
  <2>1. PICK S, f, g : S = N /\ f = front /\ g = rest
    OBVIOUS
  <2>2. PICK l \in Nat, m \in Nat : l = n + h /\ m = r
    OBVIOUS
  <2>3. f \in Seq(S) /\ g \in Seq(S) /\ l = Len(f) /\ m = Len(g)
    BY <1>3, <1>6, <2>1, <2>2
  <2>4. \A k \in 1 .. l + m : (f \o g)[k] = IF k <= l THEN f[k] ELSE g[k - l]
    BY <2>3, ConcatElements
  <2>. QED  BY <2>1, <2>2, <2>4
<1>9. i + 1 \in 1 .. n + h + r
  BY <1>0 DEF Nodes
<1>10. CASE i < n
  <2>1. i + 1 \in 1 .. n /\ i + 1 <= n + h
    BY <1>10 DEF Nodes
  <2>. QED  BY <1>0, <1>6, <1>7, <1>8, <1>9, <1>10, <2>1 DEF RingAt
<1>11. CASE i = n /\ h = 1
  BY <1>0, <1>6, <1>7, <1>8, <1>9, <1>11 DEF RingAt
<1>12. CASE i >= n + h
  <2>1. /\ ~ (i + 1 <= n + h) /\ ~ (i < n) /\ ~ (i = n /\ h = 1)
        /\ (i + 1) - (n + h) \in 1 .. r /\ (i + 1) - (n + h) - 1 = i - n - h
    BY <1>9, <1>12 DEF Nodes
  <2>2. RingOfNodes[i + 1] = rest[(i + 1) - (n + h)]
    BY <1>7, <1>8, <1>9, <2>1
  <2>3. RingAt(i) = recycler[RecyclerAt(i - n - h)]
    BY <1>0, <2>1 DEF RingAt
  <2>4. rest[(i + 1) - (n + h)] = recycler[RecyclerAt(i - n - h)]
    BY <1>3, <2>1
  <2>. QED  BY <2>2, <2>3, <2>4
<1>. QED  BY <1>10, <1>11, <1>12 DEF Nodes

\* audit_quiescent's claims at every step of either thread, for every
\* capacity: one list, one recycler, every node owned once, the return slot
\* free, and the nodes reused in the order the constructor was given.
THEOREM LinkedShapeHolds == Spec => []LinkedInv
<1>1. LinkedIndInv => LinkedInv
  <2> SUFFICES ASSUME LinkedIndInv PROVE ReuseFollowsOrder
    BY DEF LinkedIndInv, LinkedInv
  <2> SUFFICES ASSUME lost = 0
               PROVE  \E shift \in Nodes : \A i \in Nodes :
                        RingOfNodes[i + 1] = NodeOrder[(i + shift) % (Capacity + 1)]
    BY DEF ReuseFollowsOrder
  <2>1. PICK s \in Nodes : \A i \in Nodes :
          RingAt(i) = NodeOrder[IF i + s <= Capacity THEN i + s ELSE i + s - Capacity - 1]
    BY DEF LinkedIndInv, RingFollowsOrder
  <2>2. ASSUME NEW i \in Nodes
        PROVE  (i + s) % (Capacity + 1) =
                 IF i + s <= Capacity THEN i + s ELSE i + s - Capacity - 1
    <3>1. Capacity + 1 \in Nat \ {0} /\ i + s \in 0 .. 2 * (Capacity + 1) - 1
      BY DEF Nodes
    <3>2. (i + s) % (Capacity + 1) = IF i + s < Capacity + 1 THEN i + s
                                     ELSE i + s - (Capacity + 1)
      <4>1. PICK M \in Nat \ {0} : M = Capacity + 1
        BY <3>1
      <4>2. PICK a \in 0 .. 2 * M - 1 : a = i + s
        BY <3>1, <4>1
      <4>3. a % M = IF a < M THEN a ELSE a - M
        BY RemainderOnce
      <4>4. (i + s) % (Capacity + 1) = a % M
        BY <4>1, <4>2, Zenon
      <4>5. (IF a < M THEN a ELSE a - M) =
              IF i + s < Capacity + 1 THEN i + s ELSE i + s - (Capacity + 1)
        BY <4>1, <4>2 DEF Nodes
      <4>. QED  BY <4>3, <4>4, <4>5, Zenon
    <3>. QED  BY <3>1, <3>2 DEF Nodes
  <2>. QED  BY <2>1, <2>2, RingPlaces
<1>. QED  BY LinkedInvariant, <1>1, PTL

\* The producer's plain writes never meet a consumer's reads of the same
\* node, whatever the two threads do.
THEOREM NodeFieldsAreNotShared == Spec => []NoConcurrentNodeAccess
<1>1. LinkedIndInv => NoConcurrentNodeAccess
  <2> SUFFICES ASSUME LinkedIndInv, pPc = "prepare"
               PROVE  pNode # head /\ (cPc # "idle" => pNode # cSucc)
    BY DEF NoConcurrentNodeAccess
  <2>1. Held = 1
    BY DEF Held
  <2>2. 1 \in 1 .. Len(chain) /\ (cPc # "idle" => 2 \in 1 .. Len(chain) /\ cSucc = chain[2])
    BY LinkedCounts DEF LinkedIndInv, LocalsStillTrue
  <2>. QED  BY <2>1, <2>2 DEF LinkedIndInv, NodesOwnedOnce, ChainIsList
<1>. QED  BY LinkedInvariant, <1>1, PTL

-----------------------------------------------------------------------------
(* Refinement.                                                             *)

\* The queued events are a sequence, one for each node behind the sentinel.
LEMMA QueuedEventsAre ==
    ASSUME LinkedIndInv
    PROVE  /\ QueuedEvents \in Seq(Events \cup {Null})
           /\ Len(QueuedEvents) = Len(chain) - 1
           /\ \A i \in 1 .. Len(chain) - 1 : QueuedEvents[i] = event[chain[i + 1]]
<1>1. PICK n \in Nat \ {0} : n = Len(chain) /\ \A i \in 1 .. n : chain[i] \in Nodes
  BY LinkedCounts
<1>2. QueuedEvents = [i \in 1 .. n - 1 |-> event[chain[i + 1]]]
  BY <1>1 DEF QueuedEvents, Queued
<1>3. \A i \in 1 .. n - 1 : event[chain[i + 1]] \in Events \cup {Null}
  <2>1. \A i \in 1 .. n - 1 : i + 1 \in 1 .. n
    BY <1>1
  <2>. QED  BY <1>1, <2>1 DEF LinkedIndInv, LinkedTypeOK
<1>. QED  BY <1>1, <1>2, <1>3

LEMMA LinkedInitRefines == Init => Fifo!Init
<1> SUFFICES ASSUME Init PROVE Fifo!Init
  OBVIOUS
<1>1. Len(QueuedEvents) = 0 /\ QueuedEvents \in Seq(Events \cup {Null})
  BY LinkedInvInit, QueuedEventsAre DEF Init
<1>2. QueuedEvents = << >>
  BY <1>1
<1>. QED  BY <1>2 DEF Init, Fifo!Init

\* As long as chain and the events in it stay, so do the queued events.
LEMMA QueuedEventsStay ==
    ASSUME LinkedIndInv, chain' = chain,
           \A i \in 1 .. Len(chain) : event'[chain[i]] = event[chain[i]]
    PROVE  QueuedEvents' = QueuedEvents
<1>1. PICK n \in Nat \ {0} : n = Len(chain)
  BY LinkedCounts
<1>2. \A i \in 1 .. n - 1 : i + 1 \in 1 .. n
  BY <1>1
<1>3. QueuedEvents' = [i \in 1 .. n - 1 |-> event'[chain[i + 1]]]
  BY <1>1 DEF QueuedEvents, Queued
<1>4. QueuedEvents = [i \in 1 .. n - 1 |-> event[chain[i + 1]]]
  BY <1>1 DEF QueuedEvents, Queued
<1>. QED  BY <1>1, <1>2, <1>3, <1>4

LEMMA LinkAppendsEvent ==
    ASSUME LinkedIndInv, EnqueueLink
    PROVE  QueuedEvents' = Append(QueuedEvents, pEvent)
<1>1. LinkedIndInv'
  BY LinkKeepsInv
<1>2. PICK n \in Nat \ {0} : n = Len(chain) /\ chain \in Seq(Nodes)
  BY LinkedCounts
<1>3. pNode \in Nodes /\ pEvent \in Events /\ event[pNode] = pEvent
  BY DEF EnqueueLink, LinkedIndInv, LocalsStillTrue
<1>4. /\ event' = event /\ Len(chain') = n + 1 /\ chain'[n + 1] = pNode
      /\ \A i \in 1 .. n : chain'[i] = chain[i]
  BY <1>2, <1>3 DEF EnqueueLink
<1> DEFINE q == QueuedEvents
           a == Append(q, pEvent)
           S == Events \cup {Null}
<1>5. q \in Seq(S) /\ Len(q) = n - 1 /\ \A i \in 1 .. n - 1 : q[i] = event[chain[i + 1]]
  BY <1>2, QueuedEventsAre
<1>6. q' \in Seq(S) /\ Len(q') = n /\ \A i \in 1 .. n : q'[i] = event[chain'[i + 1]]
  <2>1. q' = [i \in 1 .. n |-> event[chain'[i + 1]]]
    <3>1. (Queued)' = n
      BY <1>4 DEF Queued
    <3>. QED  BY <1>4, <3>1 DEF QueuedEvents
  <2>2. \A i \in 1 .. n : event[chain'[i + 1]] \in S
    <3>1. \A i \in 1 .. n : i + 1 \in 1 .. n + 1
      OBVIOUS
    <3>2. \A i \in 1 .. n + 1 : chain'[i] \in Nodes
      BY <1>4, <1>1 DEF LinkedIndInv, LinkedTypeOK
    <3>. QED  BY <3>1, <3>2 DEF LinkedIndInv, LinkedTypeOK
  <2> HIDE DEF q, S
  <2>. QED  BY <2>1, <2>2
<1> HIDE DEF q, S
<1>7. pEvent \in S
  BY <1>3 DEF S
<1>8. /\ a \in Seq(S) /\ Len(a) = n /\ a[n] = pEvent
      /\ \A i \in 1 .. n - 1 : a[i] = q[i]
  BY <1>2, <1>5, <1>7
<1> HIDE DEF a
<1>9. ASSUME NEW i \in 1 .. n PROVE q'[i] = a[i]
  <2>1. CASE i = n
    BY <1>3, <1>4, <1>6, <1>8, <2>1
  <2>2. CASE i # n
    <3>1. i \in 1 .. n - 1 /\ i + 1 \in 1 .. n
      BY <2>2
    <3>2. q'[i] = event[chain[i + 1]]
      BY <1>4, <1>6, <3>1
    <3>. QED  BY <1>5, <1>8, <3>1, <3>2
  <2>. QED  BY <2>1, <2>2
<1>10. q' = a
  BY <1>6, <1>8, <1>9, SeqEqual
<1>. QED  BY <1>10 DEF q, a

LEMMA ReturnRemovesEvent ==
    ASSUME LinkedIndInv, DequeueReturn
    PROVE  /\ QueuedEvents # << >>
           /\ QueuedEvents' = Tail(QueuedEvents)
           /\ cEvent = Head(QueuedEvents)
<1>1. LinkedIndInv'
  BY ReturnKeepsInv
<1>2. PICK n \in Nat \ {0, 1} : n = Len(chain) /\ chain \in Seq(Nodes)
  BY LinkedCounts DEF LinkedIndInv, LocalsStillTrue, DequeueReturn
<1>3. /\ event' = event /\ Len(chain') = n - 1
      /\ \A i \in 1 .. n - 1 : chain'[i] = chain[i + 1]
  BY <1>2 DEF DequeueReturn
<1>4. cEvent = event[chain[2]]
  BY DEF DequeueReturn, LinkedIndInv, LocalsStillTrue
<1> DEFINE q == QueuedEvents
           t == Tail(q)
           S == Events \cup {Null}
<1>5. q \in Seq(S) /\ Len(q) = n - 1 /\ \A i \in 1 .. n - 1 : q[i] = event[chain[i + 1]]
  BY <1>2, QueuedEventsAre
<1>6. q' \in Seq(S) /\ Len(q') = n - 2 /\ \A i \in 1 .. n - 2 : q'[i] = event[chain'[i + 1]]
  <2>1. q' = [i \in 1 .. n - 2 |-> event[chain'[i + 1]]]
    <3>1. (Queued)' = n - 2
      BY <1>3 DEF Queued
    <3>. QED  BY <1>3, <3>1 DEF QueuedEvents
  <2>2. \A i \in 1 .. n - 2 : event[chain'[i + 1]] \in S
    <3>1. \A i \in 1 .. n - 2 : i + 1 \in 1 .. n - 1
      OBVIOUS
    <3>2. \A i \in 1 .. n - 1 : chain'[i] \in Nodes
      BY <1>1, <1>3 DEF LinkedIndInv, LinkedTypeOK
    <3>. QED  BY <3>1, <3>2 DEF LinkedIndInv, LinkedTypeOK
  <2>3. n - 2 \in Nat
    OBVIOUS
  <2> HIDE DEF q, S
  <2>. QED  BY <2>1, <2>2, <2>3
<1> HIDE DEF q, S
<1>7. /\ q # << >> /\ Head(q) = q[1] /\ 1 \in 1 .. n - 1 /\ 1 + 1 = 2
      /\ t \in Seq(S) /\ Len(t) = n - 2
      /\ \A i \in 1 .. n - 2 : t[i] = q[i + 1]
  BY <1>2, <1>5
<1> HIDE DEF t
<1>8. ASSUME NEW i \in 1 .. n - 2 PROVE q'[i] = t[i]
  <2>1. i + 1 \in 1 .. n - 1
    OBVIOUS
  <2>2. q'[i] = event[chain[(i + 1) + 1]]
    BY <1>3, <1>6, <2>1
  <2>3. q[i + 1] = event[chain[(i + 1) + 1]]
    BY <1>5, <2>1
  <2>. QED  BY <1>7, <2>2, <2>3
<1>9. q' = t
  BY <1>6, <1>7, <1>8, SeqEqual
<1>10. cEvent = Head(q)
  BY <1>4, <1>5, <1>7
<1>. QED  BY <1>7, <1>9, <1>10 DEF q, t

LEMMA LinkedStepRefines ==
    LinkedIndInv /\ [Next]_vars => [Fifo!Next]_(Fifo!fifoVars)
<1> SUFFICES ASSUME LinkedIndInv, [Next]_vars
             PROVE  Fifo!Next \/ UNCHANGED Fifo!fifoVars
  OBVIOUS
<1> USE DEF Fifo!fifoVars
<1>0. PICK n \in Nat \ {0}, h \in {0, 1} :
        /\ n = Len(chain) /\ h = Held /\ lost \in Nat /\ n - 1 + h + lost <= Capacity
        /\ Recycled = Capacity - (n - 1) - h - lost
        /\ Len(QueuedEvents) = n - 1
        /\ QueuedEvents = << >> <=> n = 1
  <2>1. QueuedEvents \in Seq(Events \cup {Null}) /\ Len(QueuedEvents) = Len(chain) - 1
    BY QueuedEventsAre
  <2>2. Len(chain) \in Nat \ {0} /\ (QueuedEvents = << >> <=> Len(chain) = 1)
    <3>1. QueuedEvents = << >> <=> Len(QueuedEvents) = 0
      BY <2>1, EmptySeq
    <3>2. Len(chain) \in Nat \ {0}
      BY LinkedCounts
    <3>. QED  BY <2>1, <3>1, <3>2
  <2>. QED  BY <2>1, <2>2, LinkedCounts
<1>1. CASE EnqueueFull
  <2>1. h = 0
    BY <1>0, <1>1 DEF EnqueueFull, Held
  <2>2. Recycled = 0
    <3>1. ~ (0 < Recycled)
      <4>1. 0 \in 0 .. Capacity - 1 /\ RecyclerAt(0) = obtainPos
        BY LinkedCounts, RecyclerPlaces
      <4>2. recycler[RecyclerAt(0)] # NoNode <=> 0 < Recycled
        BY <4>1 DEF LinkedIndInv, RecyclerIsFifo
      <4>. QED  BY <1>1, <4>1, <4>2 DEF EnqueueFull
    <3>2. Recycled \in 0 .. Capacity
      BY LinkedCounts
    <3>. QED  BY <3>1, <3>2
  <2>3. Len(QueuedEvents) + lost = Capacity
    BY <1>0, <2>1, <2>2
  <2>4. QueuedEvents' = QueuedEvents
    BY <1>1, QueuedEventsStay DEF EnqueueFull
  <2>5. Fifo!Full
    BY <1>1, <2>3, <2>4
       DEF EnqueueFull, EnqueueDone, Fifo!Full, Fifo!EnqueueDone, consumerVars
  <2>. QED  BY <2>5 DEF Fifo!Next
<1>2. CASE (\E e \in Events : EnqueueObtain(e)) \/ EnqueueTake \/ DequeueObserve
  <2>1. QueuedEvents' = QueuedEvents
    BY <1>2, QueuedEventsStay DEF EnqueueObtain, EnqueueTake, DequeueObserve
  <2>. QED  BY <1>2, <2>1
            DEF EnqueueObtain, EnqueueTake, DequeueObserve, consumerVars, producerVars
<1>3. CASE EnqueuePrepare
  <2>1. \A i \in 1 .. Len(chain) : event'[chain[i]] = event[chain[i]]
    <3>1. Held = 1
      BY <1>3 DEF EnqueuePrepare, Held
    <3>. QED  BY <1>3, <3>1, LinkedCounts
              DEF EnqueuePrepare, LinkedIndInv, NodesOwnedOnce, LinkedTypeOK
  <2>2. QueuedEvents' = QueuedEvents
    BY <1>3, <2>1, QueuedEventsStay DEF EnqueuePrepare
  <2>. QED  BY <1>3, <2>2 DEF EnqueuePrepare, consumerVars
<1>4. CASE EnqueueCaptureFailed
  <2>1. h = 1
    BY <1>0, <1>4 DEF EnqueueCaptureFailed, Held
  <2>2. Len(QueuedEvents) + lost < Capacity
    BY <1>0, <2>1
  <2>3. QueuedEvents' = QueuedEvents
    BY <1>4, QueuedEventsStay DEF EnqueueCaptureFailed
  <2>4. Fifo!EnqueueAbandoned
    BY <1>4, <2>2, <2>3 DEF EnqueueCaptureFailed, EnqueueDone, Fifo!EnqueueAbandoned,
       Fifo!EnqueueDone, consumerVars
  <2>. QED  BY <2>4 DEF Fifo!Next
<1>5. CASE EnqueueLink
  <2>1. h = 1 /\ pEvent \in Events
    BY <1>0, <1>5 DEF EnqueueLink, Held, LinkedIndInv, LocalsStillTrue
  <2>2. Len(QueuedEvents) + lost < Capacity
    BY <1>0, <2>1
  <2>3. Fifo!Accept(pEvent)
    BY <1>5, <2>2, LinkAppendsEvent
       DEF EnqueueLink, EnqueueDone, Fifo!Accept, Fifo!EnqueueDone, consumerVars
  <2>. QED  BY <2>1, <2>3 DEF Fifo!Next
<1>6. CASE DequeueEmpty
  <2>1. QueuedEvents = << >>
    <3>1. n # 1 => chain[2] \in Nodes
      <4>1. n # 1 => 2 \in 1 .. n
        OBVIOUS
      <4>. QED  BY <1>0, <4>1, LinkedCounts
    <3>. QED  BY <1>0, <1>6, <3>1, SentinelSuccessor DEF DequeueEmpty
  <2>2. QueuedEvents' = QueuedEvents
    BY <1>6, QueuedEventsStay DEF DequeueEmpty
  <2>3. Fifo!Empty
    BY <1>6, <2>1, <2>2
       DEF DequeueEmpty, DequeueDone, Fifo!Empty, Fifo!DequeueDone, producerVars
  <2>. QED  BY <2>3 DEF Fifo!Next
<1>7. CASE DequeueCaptureFailed
  <2>1. QueuedEvents # << >>
    BY <1>0, <1>7 DEF DequeueCaptureFailed, LinkedIndInv, LocalsStillTrue
  <2>2. QueuedEvents' = QueuedEvents
    BY <1>7, QueuedEventsStay DEF DequeueCaptureFailed
  <2>3. Fifo!DequeueAbandoned
    BY <1>7, <2>1, <2>2 DEF DequeueCaptureFailed, DequeueDone, Fifo!DequeueAbandoned,
       Fifo!DequeueDone, producerVars
  <2>. QED  BY <2>3 DEF Fifo!Next
<1>8. CASE DequeueCheck
  <2>1. recycler[returnPos] = NoNode
    BY <1>8, ReturnPlaceIsFree DEF DequeueCheck, LinkedIndInv, LocalsStillTrue
  <2>2. QueuedEvents' = QueuedEvents
    BY <1>8, QueuedEventsStay DEF DequeueCheck
  <2>. QED  BY <1>8, <2>1, <2>2 DEF DequeueCheck, producerVars
<1>9. CASE DequeueReturn
  <2>1. Fifo!Take
    BY <1>9, ReturnRemovesEvent
       DEF DequeueReturn, DequeueDone, Fifo!Take, Fifo!DequeueDone, producerVars
  <2>. QED  BY <2>1 DEF Fifo!Next
<1>10. CASE UNCHANGED vars
  <2>1. QueuedEvents' = QueuedEvents
    BY <1>10, QueuedEventsStay DEF vars
  <2>. QED  BY <1>10, <2>1 DEF vars, producerVars, consumerVars
<1>. QED  BY <1>1, <1>2, <1>3, <1>4, <1>5, <1>6, <1>7, <1>8, <1>9, <1>10
          DEF Next, Producer, Consumer

\* The list implements the same bounded FIFO as the ring, for every capacity:
\* an abandoned enqueue costs at most one place, and nothing else does.
THEOREM LinkedImplementsFifo == Spec => ImplementsFifo
<1>. QED  BY LinkedInitRefines, LinkedStepRefines, LinkedInvariant, PTL
          DEF Spec, ImplementsFifo, Fifo!Spec

-----------------------------------------------------------------------------
(* The audit of a queue both threads have left                             *)

\* A set of natural numbers that is not empty has a least one.
LEMMA LeastNatural ==
    ASSUME NEW T, T \subseteq Nat, T # {}
    PROVE  \E x \in T : \A y \in T : x <= y
<1>1. \E x \in T : \A y \in T : ~ (<<y, x>> \in OpToRel(<, Nat))
  BY NatLessThanWellFounded, WFMin
<1>2. \A x \in T, y \in T : <<y, x>> \in OpToRel(<, Nat) <=> y < x
  BY DEF OpToRel
<1>3. \A x, y \in T : ~(y < x) => x <= y
  OBVIOUS
<1>. QED  BY <1>1, <1>2, <1>3

\* The two intervals the audit counts over.
LEMMA IntervalCount ==
    ASSUME NEW n \in Nat
    PROVE  /\ IsFiniteSet(1 .. n) /\ Cardinality(1 .. n) = n
           /\ IsFiniteSet(0 .. n - 1) /\ Cardinality(0 .. n - 1) = n
<1>1. IsFiniteSet(1 .. n) /\ Cardinality(1 .. n) = n
  <2>1. IsFiniteSet(1 .. n) /\ Cardinality(1 .. n) = IF 1 > n THEN 0 ELSE n - 1 + 1
    BY FS_Interval
  <2>2. (IF 1 > n THEN 0 ELSE n - 1 + 1) = n
    OBVIOUS
  <2>. QED  BY <2>1, <2>2
<1>2. IsFiniteSet(0 .. n - 1) /\ Cardinality(0 .. n - 1) = n
  <2>1. PICK m \in Int : m = n - 1
    OBVIOUS
  <2>2. IsFiniteSet(0 .. m) /\ Cardinality(0 .. m) = IF 0 > m THEN 0 ELSE m - 0 + 1
    BY FS_Interval
  <2>3. (IF 0 > m THEN 0 ELSE m - 0 + 1) = n
    BY <2>1
  <2>4. IsFiniteSet(0 .. m) /\ Cardinality(0 .. m) = n
    BY <2>2, <2>3
  <2>. QED  BY <2>1, <2>4, Zenon
<1>. QED  BY <1>1, <1>2

\* As many values as indices when no value comes twice.
LEMMA ImageCount ==
    ASSUME NEW D, IsFiniteSet(D), NEW f, \A i, j \in D : f[i] = f[j] => i = j,
           NEW T, \A x : x \in T <=> \E i \in D : x = f[i]
    PROVE  IsFiniteSet(T) /\ Cardinality(T) = Cardinality(D)
<1>. DEFINE g == [i \in D |-> f[i]]
<1>1. g \in Bijection(D, T)
  BY DEF Bijection, Injection, Surjection, IsInjective
<1>2. ExistsBijection(D, T)
  BY <1>1 DEF ExistsBijection
<1>. QED  BY <1>2, FS_Bijection

\* Following the pointers meets the chain, node by node, and then nothing.
LEMMA WalkIsChain ==
    ASSUME LinkedIndInv
    PROVE  Walk = [k \in 1 .. Capacity + 2 |->
                     IF k <= Len(chain) THEN chain[k] ELSE NoNode]
<1>. DEFINE Walks(f) == f = [k \in 1 .. Capacity + 2 |->
                               IF k = 1 THEN head
                               ELSE IF f[k - 1] = NoNode THEN NoNode ELSE next[f[k - 1]]]
            g == [k \in 1 .. Capacity + 2 |->
                    IF k <= Len(chain) THEN chain[k] ELSE NoNode]
<1>0. PICK l \in Nat \ {0} : l = Len(chain)
  BY LinkedCounts
<1>1. /\ \A i \in 1 .. l : chain[i] \in Nodes /\ chain[i] # NoNode
      /\ head = chain[1]
      /\ \A i \in 1 .. l : next[chain[i]] = IF i = l THEN NoNode ELSE chain[i + 1]
  BY <1>0, LinkedCounts DEF LinkedIndInv, ChainIsList
<1>2. \A k \in 1 .. Capacity + 2 :
        g[k] = IF k = 1 THEN head
               ELSE IF g[k - 1] = NoNode THEN NoNode ELSE next[g[k - 1]]
  <2>1. ASSUME NEW k \in 1 .. Capacity + 2
        PROVE  g[k] = IF k = 1 THEN head
                      ELSE IF g[k - 1] = NoNode THEN NoNode ELSE next[g[k - 1]]
    <3>1. g[k] = IF k <= l THEN chain[k] ELSE NoNode
      BY <1>0
    <3>2. CASE k = 1
      BY <1>0, <1>1, <3>1, <3>2
    <3>3. CASE k # 1
      <4>1. k - 1 \in 1 .. Capacity + 2 /\ (k - 1) + 1 = k
        BY <3>3
      <4>2. g[k - 1] = IF k - 1 <= l THEN chain[k - 1] ELSE NoNode
        BY <1>0, <4>1
      <4>3. CASE k - 1 <= l
        <5>1. k - 1 \in 1 .. l /\ g[k - 1] = chain[k - 1]
          BY <4>1, <4>2, <4>3
        <5>2. /\ chain[k - 1] # NoNode
              /\ next[chain[k - 1]] = IF k - 1 = l THEN NoNode ELSE chain[k]
          BY <1>1, <4>1, <5>1
        <5>3. k <= l <=> k - 1 # l
          BY <4>1, <4>3
        <5>. QED  BY <3>1, <3>3, <5>1, <5>2, <5>3
      <4>4. CASE ~(k - 1 <= l)
        <5>1. ~(k <= l)
          BY <4>1, <4>4
        <5>. QED  BY <3>1, <3>3, <4>2, <4>4, <5>1
      <4>. QED  BY <4>3, <4>4
    <3>. QED  BY <3>2, <3>3
  <2>. HIDE DEF g
  <2>. QED  BY <2>1
<1>3. Walks(g)
  BY <1>2
<1>4. ASSUME NEW f, Walks(f) PROVE f = g
  <2>1. \A k \in 1 .. Capacity + 2 :
          f[k] = IF k = 1 THEN head
                 ELSE IF f[k - 1] = NoNode THEN NoNode ELSE next[f[k - 1]]
    BY <1>4
  <2>2. ASSUME NEW T, T = {k \in 1 .. Capacity + 2 : f[k] # g[k]}, T # {} PROVE FALSE
    <3>1. T \subseteq Nat
      BY <2>2
    <3>2. PICK k \in T : \A y \in T : k <= y
      BY <2>2, <3>1, LeastNatural
    <3>3. k \in 1 .. Capacity + 2 /\ f[k] # g[k]
      BY <2>2
    <3>. HIDE DEF g
    <3>4. k # 1
      BY <1>2, <2>1, <3>3
    <3>5. k - 1 \in 1 .. Capacity + 2 /\ k - 1 \notin T
      BY <3>2, <3>3, <3>4
    <3>6. f[k - 1] = g[k - 1]
      BY <2>2, <3>5
    <3>. QED  BY <1>2, <2>1, <3>3, <3>4, <3>6
  <2>3. \A k \in 1 .. Capacity + 2 : f[k] = g[k]
    <3>1. {k \in 1 .. Capacity + 2 : f[k] # g[k]} = {}
      BY <2>2
    <3>. QED  BY <3>1
  <2>4. f = [k \in 1 .. Capacity + 2 |-> f[k]]
    BY <1>4
  <2>. QED  BY <2>3, <2>4
<1>5. Walk = CHOOSE f : Walks(f)
  BY DEF Walk
<1>6. Walks(CHOOSE f : Walks(f))
  <2>. HIDE DEF Walks, g
  <2>. QED  BY <1>3
<1>. QED  BY <1>4, <1>5, <1>6

\* The walk ends behind the last node of the chain, never at a node met twice.
LEMMA WalkEnds ==
    ASSUME LinkedIndInv
    PROVE  /\ WalkStop = Len(chain) + 1
           /\ Walk[WalkStop] = NoNode
           /\ [i \in 1 .. WalkStop - 1 |-> Walk[i]] = chain
<1>0. PICK l \in Nat \ {0} : l = Len(chain) /\ l <= Capacity + 1
  BY LinkedCounts
<1>1. /\ \A k \in 1 .. l : Walk[k] = chain[k] /\ chain[k] # NoNode
      /\ \A k \in 1 .. Capacity + 2 : k > l => Walk[k] = NoNode
  BY <1>0, WalkIsChain, LinkedCounts
<1>2. \A i, j \in 1 .. l : chain[i] = chain[j] => i = j
  BY <1>0 DEF LinkedIndInv, NodesOwnedOnce
<1>. DEFINE Stops(k) ==
              /\ Walk[k] = NoNode \/ \E j \in 1 .. k - 1 : Walk[j] = Walk[k]
              /\ \A m \in 1 .. k - 1 :
                   Walk[m] # NoNode /\ \A j \in 1 .. m - 1 : Walk[j] # Walk[m]
<1>3. l + 1 \in 1 .. Capacity + 2 /\ Stops(l + 1)
  <2>1. l + 1 \in 1 .. Capacity + 2 /\ l + 1 > l /\ (l + 1) - 1 = l
    BY <1>0
  <2>2. \A m \in 1 .. l : \A j \in 1 .. m - 1 : j \in 1 .. l /\ j # m
    BY <1>0
  <2>3. \A m \in 1 .. l : Walk[m] # NoNode /\ \A j \in 1 .. m - 1 : Walk[j] # Walk[m]
    BY <1>1, <1>2, <2>2
  <2>. QED  BY <1>1, <2>1, <2>3
<1>4. ASSUME NEW k \in 1 .. Capacity + 2, Stops(k) PROVE k = l + 1
  <2>1. CASE k <= l
    <3>1. k \in 1 .. l
      BY <2>1
    <3>2. PICK j \in 1 .. k - 1 : Walk[j] = Walk[k]
      BY <1>1, <1>4, <3>1
    <3>3. j \in 1 .. l /\ j # k
      BY <1>0, <3>1
    <3>. QED  BY <1>1, <1>2, <3>1, <3>2, <3>3
  <2>2. CASE k > l + 1
    <3>1. l + 1 \in 1 .. k - 1 /\ l + 1 \in 1 .. Capacity + 2 /\ l + 1 > l
      BY <1>0, <2>2
    <3>. QED  BY <1>1, <1>4, <3>1
  <2>. QED  BY <1>0, <2>1, <2>2
<1>5. WalkStop = l + 1
  <2>1. WalkStop = CHOOSE k \in 1 .. Capacity + 2 : Stops(k)
    BY DEF WalkStop
  <2>. HIDE DEF Stops
  <2>. QED  BY <1>3, <1>4, <2>1
<1>6. Walk[WalkStop] = NoNode
  <2>1. l + 1 \in 1 .. Capacity + 2 /\ l + 1 > l
    BY <1>0
  <2>. QED  BY <1>1, <1>5, <2>1
<1>7. [i \in 1 .. WalkStop - 1 |-> Walk[i]] = chain
  <2>1. WalkStop - 1 = l /\ chain = [i \in 1 .. l |-> chain[i]]
    BY <1>0, <1>5, LinkedCounts
  <2>. QED  BY <1>1, <2>1
<1>. QED  BY <1>0, <1>5, <1>6, <1>7

\* What the audit finds in the recycler.
LEMMA RecyclerIsFound ==
    ASSUME LinkedIndInv
    PROVE  /\ \A k \in Positions : recycler[(obtainPos + k) % Capacity] = recycler[RecyclerAt(k)]
           /\ {k \in Positions : recycler[(obtainPos + k) % Capacity] # NoNode} =
                0 .. Recycled - 1
<1>1. obtainPos \in 0 .. Capacity - 1 /\ Recycled \in 0 .. Capacity
  BY LinkedCounts DEF Positions
<1>2. ASSUME NEW k \in Positions PROVE (obtainPos + k) % Capacity = RecyclerAt(k)
  <2>1. obtainPos + k \in 0 .. 2 * Capacity - 1 /\ k \in 0 .. Capacity - 1
    BY <1>1 DEF Positions
  <2>2. (obtainPos + k) % Capacity =
          IF obtainPos + k < Capacity THEN obtainPos + k ELSE obtainPos + k - Capacity
    <3>1. PICK a \in 0 .. 2 * Capacity - 1 : a = obtainPos + k
      BY <2>1
    <3>2. a % Capacity = IF a < Capacity THEN a ELSE a - Capacity
      BY RemainderOnce
    <3>3. (obtainPos + k) % Capacity = a % Capacity
      BY <3>1, Zenon
    <3>4. (IF a < Capacity THEN a ELSE a - Capacity) =
            IF obtainPos + k < Capacity THEN obtainPos + k ELSE obtainPos + k - Capacity
      BY <3>1, <1>1, <2>1
    <3>. QED  BY <3>2, <3>3, <3>4, Zenon
  <2>. QED  BY <1>1, <2>1, <2>2 DEF RecyclerAt
<1>3. \A k \in Positions : recycler[RecyclerAt(k)] # NoNode <=> k < Recycled
  BY DEF LinkedIndInv, RecyclerIsFifo, Positions
<1>4. \A k : k \in 0 .. Recycled - 1 <=> k \in Positions /\ k < Recycled
  BY <1>1 DEF Positions
<1>. QED  BY <1>2, <1>3, <1>4

\* The nodes of the chain and of the recycler, and how many there are.
ChainNodes == {chain[i] : i \in 1 .. Len(chain)}
RecyclerNodes == {recycler[RecyclerAt(k)] : k \in 0 .. Recycled - 1}

LEMMA NodesCounted ==
    ASSUME LinkedIndInv
    PROVE  /\ ChainNodes \subseteq Nodes /\ RecyclerNodes \subseteq Nodes
           /\ ChainNodes \cap RecyclerNodes = {}
           /\ IsFiniteSet(ChainNodes) /\ Cardinality(ChainNodes) = Len(chain)
           /\ IsFiniteSet(RecyclerNodes) /\ Cardinality(RecyclerNodes) = Recycled
<1>0. PICK l \in Nat \ {0}, r \in 0 .. Capacity : l = Len(chain) /\ r = Recycled
  BY LinkedCounts
<1>1. /\ recycler \in [Positions -> Nodes \cup {NoNode}]
      /\ \A k \in 0 .. Capacity - 1 : RecyclerAt(k) \in Positions
      /\ \A k, m \in 0 .. Capacity - 1 : RecyclerAt(k) = RecyclerAt(m) => k = m
  <2>1. obtainPos \in Positions /\ recycler \in [Positions -> Nodes \cup {NoNode}]
    BY DEF LinkedIndInv, LinkedTypeOK
  <2>2. 0 .. Capacity - 1 \subseteq 0 .. Capacity
    OBVIOUS
  <2>. QED  BY <2>1, <2>2, RecyclerPlaces
<1>2. /\ \A i, j \in 1 .. l : chain[i] = chain[j] => i = j
      /\ \A k, m \in Positions : recycler[k] = recycler[m] /\ recycler[k] # NoNode => k = m
      /\ \A i \in 1 .. l, k \in Positions : chain[i] # recycler[k]
      /\ \A k \in 0 .. Capacity - 1 : recycler[RecyclerAt(k)] # NoNode <=> k < r
  BY <1>0 DEF LinkedIndInv, NodesOwnedOnce, RecyclerIsFifo
<1>3. \A k \in 0 .. r - 1 : /\ k \in 0 .. Capacity - 1 /\ RecyclerAt(k) \in Positions
                            /\ recycler[RecyclerAt(k)] \in Nodes
                            /\ recycler[RecyclerAt(k)] # NoNode
  BY <1>1, <1>2
<1>4. /\ ChainNodes \subseteq Nodes /\ RecyclerNodes \subseteq Nodes
      /\ ChainNodes \cap RecyclerNodes = {}
  <2>1. /\ \A x : x \in ChainNodes <=> \E i \in 1 .. l : x = chain[i]
        /\ \A x : x \in RecyclerNodes <=>
                    \E k \in 0 .. r - 1 : x = recycler[RecyclerAt(k)]
    BY <1>0 DEF ChainNodes, RecyclerNodes
  <2>2. \A i \in 1 .. l : chain[i] \in Nodes
    BY <1>0, LinkedCounts
  <2>. QED  BY <1>2, <1>3, <2>1, <2>2
<1>5. IsFiniteSet(ChainNodes) /\ Cardinality(ChainNodes) = l
  <2>1. \A x : x \in ChainNodes <=> \E i \in 1 .. l : x = chain[i]
    BY <1>0 DEF ChainNodes
  <2>2. IsFiniteSet(1 .. l) /\ Cardinality(1 .. l) = l
    BY <1>0, IntervalCount
  <2>3. \A i, j \in 1 .. l : chain[i] = chain[j] => i = j
    BY <1>2
  <2>. QED  BY <2>1, <2>2, <2>3, ImageCount
<1>6. IsFiniteSet(RecyclerNodes) /\ Cardinality(RecyclerNodes) = r
  <2>. DEFINE f == [k \in 0 .. r - 1 |-> recycler[RecyclerAt(k)]]
  <2>1. \A i, j \in 0 .. r - 1 : f[i] = f[j] => i = j
    BY <1>1, <1>2, <1>3
  <2>2. \A x : x \in RecyclerNodes <=> \E k \in 0 .. r - 1 : x = f[k]
    BY <1>0 DEF RecyclerNodes
  <2>3. IsFiniteSet(0 .. r - 1) /\ Cardinality(0 .. r - 1) = r
    BY <1>0, IntervalCount
  <2>. HIDE DEF f
  <2>. QED  BY <2>1, <2>2, <2>3, ImageCount
<1>. QED  BY <1>0, <1>4, <1>5, <1>6

\* All nodes are accounted for exactly when none was lost or is in hand.
LEMMA AllNodesFound ==
    ASSUME LinkedIndInv, Held = 0
    PROVE  RecyclerNodes \cup ChainNodes = Nodes <=> lost = 0
<1>0. PICK l \in Nat, r \in Nat, k \in Nat :
        l = Len(chain) /\ r = Recycled /\ k = lost /\ r = Capacity - (l - 1) - k
  BY LinkedCounts
<1>1. /\ IsFiniteSet(RecyclerNodes \cup ChainNodes)
      /\ Cardinality(RecyclerNodes \cup ChainNodes) = Capacity + 1 - k
  <2>1. RecyclerNodes \cap ChainNodes = {} /\ Cardinality({}) = 0
    BY NodesCounted, FS_EmptySet
  <2>2. /\ IsFiniteSet(RecyclerNodes \cup ChainNodes)
        /\ Cardinality(RecyclerNodes \cup ChainNodes) =
             Cardinality(RecyclerNodes) + Cardinality(ChainNodes)
               - Cardinality(RecyclerNodes \cap ChainNodes)
    BY NodesCounted, FS_Union
  <2>3. Cardinality(RecyclerNodes) = r /\ Cardinality(ChainNodes) = l
    BY <1>0, NodesCounted
  <2>4. Cardinality(RecyclerNodes \cup ChainNodes) = r + l - 0
    BY <2>1, <2>2, <2>3
  <2>5. r + l - 0 = Capacity + 1 - k
    BY <1>0
  <2>. QED  BY <2>2, <2>4, <2>5
<1>2. IsFiniteSet(Nodes) /\ Cardinality(Nodes) = Capacity + 1
  BY FS_Interval DEF Nodes
<1>3. RecyclerNodes \cup ChainNodes \in SUBSET Nodes
  BY NodesCounted
<1>4. ASSUME k = 0 PROVE RecyclerNodes \cup ChainNodes = Nodes
  <2>1. Cardinality(RecyclerNodes \cup ChainNodes) = Cardinality(Nodes)
    BY <1>1, <1>2, <1>4
  <2>. QED  BY <1>2, <1>3, <2>1, FS_Subset
<1>5. ASSUME RecyclerNodes \cup ChainNodes = Nodes PROVE k = 0
  BY <1>1, <1>2, <1>5
<1>. QED  BY <1>0, <1>4, <1>5

LEMMA AuditIsRight ==
    ASSUME LinkedIndInv, pPc = "idle", cPc = "idle"
    PROVE  LET audit == audit_quiescent
           IN  /\ audit.reachable_order = chain
               /\ audit.queued_events = Queued
               /\ audit.recycler_nodes = Recycled
               /\ audit.chain_acyclic /\ audit.tail_reachable
               /\ audit.recycler_fifo_shape /\ audit.positions_in_range
               /\ audit.every_node_owned_once <=> lost = 0
<1>. DEFINE reachable == [i \in 1 .. WalkStop - 1 |-> Walk[i]]
            onChain == {reachable[i] : i \in DOMAIN reachable}
            At(k) == recycler[(obtainPos + k) % Capacity]
            filled == {k \in Positions : At(k) # NoNode}
            inRecycler == {At(k) : k \in filled}
            acyclic == Walk[WalkStop] = NoNode
<1>0. Held = 0
  BY DEF Held
<1>1. /\ reachable = chain /\ acyclic
  BY WalkEnds
<1>2. onChain = ChainNodes
  <2>1. DOMAIN chain = 1 .. Len(chain)
    BY LinkedCounts
  <2>. HIDE DEF reachable
  <2>2. onChain = {chain[i] : i \in DOMAIN chain}
    BY <1>1, Zenon
  <2>. QED  BY <2>1, <2>2 DEF ChainNodes
<1>3. filled = 0 .. Recycled - 1 /\ filled \subseteq Positions
  BY RecyclerIsFound
<1>4. inRecycler = RecyclerNodes
  BY <1>3, RecyclerIsFound DEF RecyclerNodes
<1>5. /\ audit_quiescent.reachable_order = reachable
      /\ audit_quiescent.queued_events = Len(reachable) - 1
      /\ audit_quiescent.recycler_nodes = Cardinality(inRecycler \ onChain)
      /\ audit_quiescent.chain_acyclic = acyclic
      /\ audit_quiescent.tail_reachable = (tail \in onChain)
      /\ audit_quiescent.every_node_owned_once =
             (/\ acyclic
              /\ inRecycler \cap onChain = {}
              /\ Cardinality(inRecycler) = Cardinality(filled)
              /\ inRecycler \cup onChain = Nodes)
      /\ audit_quiescent.recycler_fifo_shape =
             (\A k \in filled : \A m \in 0 .. k - 1 : m \in filled)
      /\ audit_quiescent.positions_in_range =
             (returnPos < Capacity /\ obtainPos < Capacity)
  BY DEF audit_quiescent
<1>. HIDE DEF reachable, onChain, filled, inRecycler, acyclic
<1>6. Len(reachable) - 1 = Queued
  BY <1>1 DEF Queued
<1>7. Cardinality(inRecycler \ onChain) = Recycled
  <2>1. RecyclerNodes \ ChainNodes = RecyclerNodes
    BY NodesCounted
  <2>. QED  BY <1>2, <1>4, <2>1, NodesCounted
<1>8. tail \in onChain
  <2>1. Len(chain) \in 1 .. Len(chain) /\ tail = chain[Len(chain)]
    BY LinkedCounts DEF LinkedIndInv, ChainIsList
  <2>. QED  BY <1>2, <2>1 DEF ChainNodes
<1>9. \A k \in filled : \A m \in 0 .. k - 1 : m \in filled
  <2>1. PICK r \in Nat : r = Recycled
    BY LinkedCounts
  <2>. QED  BY <1>3, <2>1
<1>10. returnPos < Capacity /\ obtainPos < Capacity
  BY DEF LinkedIndInv, LinkedTypeOK, Positions
<1>11. Cardinality(inRecycler) = Cardinality(filled)
  <2>1. PICK r \in Nat : r = Recycled
    BY LinkedCounts
  <2>2. Cardinality(0 .. r - 1) = r
    BY FS_Interval
  <2>. QED  BY <1>3, <1>4, <2>1, <2>2, NodesCounted
<1>12. inRecycler \cap onChain = {} /\ (inRecycler \cup onChain = Nodes <=> lost = 0)
  BY <1>0, <1>2, <1>4, NodesCounted, AllNodesFound
<1>. QED  BY <1>1, <1>5, <1>6, <1>7, <1>8, <1>9, <1>10, <1>11, <1>12

\* The audit of a queue both threads have left tells its state: the events in
\* order, the nodes to be used again, and whether an abandoned enqueue kept a
\* node (audit_quiescent), for every capacity.
THEOREM AuditStaysTrue == Spec => []AuditTellsTheTruth
<1>1. LinkedIndInv => AuditTellsTheTruth
  BY AuditIsRight DEF AuditTellsTheTruth
<1>. QED  BY <1>1, LinkedInvariant, PTL
=============================================================================

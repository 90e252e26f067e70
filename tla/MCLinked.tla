------------------------------ MODULE MCLinked ------------------------------
(* LinkedSpsc for TLC, with an arena order that is not the identity.       *)
EXTENDS LinkedSpsc

MCNodeOrder == [i \in 0 .. Capacity |-> (i * Capacity + 1) % (Capacity + 1)]
=============================================================================

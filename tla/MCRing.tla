------------------------------- MODULE MCRing -------------------------------
(* RingSpsc for TLC: the constants are given in the cfg files.             *)
EXTENDS RingSpsc
=============================================================================

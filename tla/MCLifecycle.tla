---------------------------- MODULE MCLifecycle ----------------------------
(* RunStateMachine for TLC: consequence lists that pass and fail each rule. *)
EXTENDS RunStateMachine

List(present, absent, sound) == [present |-> present, absent |-> absent, sound |-> sound]

Whole == List(MeasurementKinds \cup {"failure_evidence"}, {}, TRUE)
NoMeasurement == List({"failure_evidence"}, MeasurementKinds, TRUE)

\* Every phase can be reached with one of the first two; the others are refused.
MCConsequences ==
    {Whole, NoMeasurement, List({}, {}, TRUE), List({"other"}, {}, FALSE)}
=============================================================================

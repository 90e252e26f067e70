-------------------------- MODULE RunStateMachine --------------------------
(***************************************************************************)
(* RunStateMachine (lifecycle/state_machine.cpp): the append-only journal  *)
(* of one run.  A request is accepted with every check passed, or it       *)
(* changes nothing.  Actors, reasons and artifact identities count only as *)
(* being there or not; the kinds of artifact the checks never ask for are  *)
(* one kind, "other".                                                      *)
(***************************************************************************)
EXTENDS Integers, Sequences

CONSTANTS
    Times,          \* timestamps a caller may supply
    Consequences,   \* lists of artifact consequences a caller may supply
    MaxNotes        \* bound: outcome annotations and recoveries per run

EarlyFailures == {"pre_run_failure", "warmup_failure", "reset_failure"}
FailurePhases == EarlyFailures \cup {"measurement_failure", "drain_failure"}
TerminalPhases == {"finalized_valid", "finalized_invalid"}
BeforeMeasurement == {"planned", "preflight", "preparation", "warmup", "logical_reset"}
InMeasurement == {"measurement_started", "producer_complete", "drain"}
RunPhases ==
    BeforeMeasurement \cup InMeasurement \cup FailurePhases \cup TerminalPhases
        \cup {"completed"}
LifecycleStates == {"planned", "measurement_started", "completed"} \cup FailurePhases

MeasurementKinds ==
    {"producer_observations", "consumer_observations", "counts", "phase_integrity"}
Kinds == MeasurementKinds \cup {"failure_evidence", "other"}

\* present: kinds retained or appended; absent: kinds declared absent; sound:
\* no kind named twice, an identity exactly where there is an artifact.
ConsequenceLists == [present : SUBSET Kinds, absent : SUBSET Kinds, sound : BOOLEAN]

ASSUME LifecycleAssumption ==
    /\ Times \subseteq Nat
    /\ Consequences \subseteq ConsequenceLists
    /\ MaxNotes \in Nat

VARIABLES
    phase,          \* phase_
    protocolState,  \* protocol_state_, the imported lifecycle value
    lastTimestamp,  \* last_timestamp_
    transitions,    \* transitions_: [to, state, time, present]
    outcomes,       \* timestamps of outcomes_
    recoveries      \* recoveries_: [from, until, duration]

journalVars == <<phase, protocolState, lastTimestamp, transitions, outcomes, recoveries>>

-----------------------------------------------------------------------------
\* Mutant: a run finalized as invalid is projected to the completed state.
protocol_projection_forgets(to, retained) ==
    IF to \in BeforeMeasurement THEN "planned"
    ELSE IF to \in InMeasurement THEN "measurement_started"
    ELSE IF to \in FailurePhases THEN to
    ELSE "completed"

\* Mutant: both finalizations are projected to themselves.
protocol_projection_raw(to, retained) ==
    IF to \in BeforeMeasurement THEN "planned"
    ELSE IF to \in InMeasurement THEN "measurement_started"
    ELSE to

\* The imported lifecycle value of a phase; an invalid finalization keeps it.
protocol_projection(to, retained) ==
    IF to \in BeforeMeasurement THEN "planned"
    ELSE IF to \in InMeasurement THEN "measurement_started"
    ELSE IF to \in FailurePhases THEN to
    ELSE IF to = "finalized_invalid" THEN retained
    ELSE "completed"

\* Mutant: a valid finalization may be revised into an invalid one.
is_legal_transition_revised(from, to) ==
    CASE from = "planned" -> to = "preflight"
      [] from = "preflight" -> to \in {"preparation", "pre_run_failure"}
      [] from = "preparation" -> to \in {"warmup", "pre_run_failure"}
      [] from = "warmup" -> to \in {"logical_reset", "warmup_failure"}
      [] from = "logical_reset" -> to \in {"measurement_started", "reset_failure"}
      [] from = "measurement_started" ->
           to \in {"producer_complete", "measurement_failure"}
      [] from = "producer_complete" -> to \in {"drain", "measurement_failure"}
      [] from = "drain" -> to \in {"completed", "drain_failure"}
      [] from = "completed" -> to \in TerminalPhases
      [] from \in FailurePhases \cup {"finalized_valid"} -> to = "finalized_invalid"
      [] OTHER -> FALSE

is_legal_transition(from, to) ==
    CASE from = "planned" -> to = "preflight"
      [] from = "preflight" -> to \in {"preparation", "pre_run_failure"}
      [] from = "preparation" -> to \in {"warmup", "pre_run_failure"}
      [] from = "warmup" -> to \in {"logical_reset", "warmup_failure"}
      [] from = "logical_reset" -> to \in {"measurement_started", "reset_failure"}
      [] from = "measurement_started" ->
           to \in {"producer_complete", "measurement_failure"}
      [] from = "producer_complete" -> to \in {"drain", "measurement_failure"}
      [] from = "drain" -> to \in {"completed", "drain_failure"}
      [] from = "completed" -> to \in TerminalPhases
      [] from \in FailurePhases -> to = "finalized_invalid"
      [] OTHER -> FALSE

\* Mutant: nobody asks for a completed run's artifact candidates.
validate_consequences_lenient(target, c) ==
    /\ c.present \cup c.absent # {}
    /\ c.sound
    /\ target \in FailurePhases \cup {"finalized_invalid"} =>
         "failure_evidence" \in c.present
    /\ target \in EarlyFailures =>
         c.present \cap MeasurementKinds = {} /\ MeasurementKinds \subseteq c.absent

validate_consequences(target, c) ==
    /\ c.present \cup c.absent # {}
    /\ c.sound
    /\ target \in FailurePhases \cup {"finalized_invalid"} =>
         "failure_evidence" \in c.present
    /\ target \in EarlyFailures =>
         c.present \cap MeasurementKinds = {} /\ MeasurementKinds \subseteq c.absent
    /\ target = "completed" => MeasurementKinds \subseteq c.present

-----------------------------------------------------------------------------
\* create: the genesis record of a planned run.
JournalInit ==
    \E t \in Times, c \in Consequences :
        /\ validate_consequences("planned", c)
        /\ phase = "planned"
        /\ protocolState = "planned"
        /\ lastTimestamp = t
        /\ transitions = <<[to |-> "planned", state |-> "planned", time |-> t,
                            present |-> c.present]>>
        /\ outcomes = << >>
        /\ recoveries = << >>

\* transition: whoWhy says that actor and reason are given.
transition(to, t, whoWhy, c) ==
    /\ is_legal_transition(phase, to)
    /\ whoWhy
    /\ t >= lastTimestamp
    /\ validate_consequences(to, c)
    /\ phase' = to
    /\ protocolState' = protocol_projection(to, protocolState)
    /\ lastTimestamp' = t
    /\ transitions' = Append(transitions,
                             [to |-> to, state |-> protocolState', time |-> t,
                              present |-> c.present])
    /\ UNCHANGED <<outcomes, recoveries>>

\* Mutant: the annotation does not move the journal's clock.
record_non_failure_outcome_stale(t, whoWhy, triggers) ==
    /\ phase \in {"completed", "finalized_valid"}
    /\ whoWhy
    /\ t >= lastTimestamp
    /\ ~ triggers
    /\ Len(outcomes) < MaxNotes
    /\ outcomes' = Append(outcomes, t)
    /\ UNCHANGED <<phase, protocolState, transitions, recoveries, lastTimestamp>>

\* record_non_failure_outcome: triggers says that the annotation claims to be
\* a failure or a reason for replacement.
record_non_failure_outcome(t, whoWhy, triggers) ==
    /\ phase \in {"completed", "finalized_valid"}
    /\ whoWhy
    /\ t >= lastTimestamp
    /\ ~ triggers
    /\ Len(outcomes) < MaxNotes
    /\ lastTimestamp' = t
    /\ outcomes' = Append(outcomes, t)
    /\ UNCHANGED <<phase, protocolState, transitions, recoveries>>

\* record_recovery: only after finalization, and as long as it says.
record_recovery(from, until, duration, explicit) ==
    /\ phase \in TerminalPhases
    /\ explicit
    /\ duration # 0
    /\ from >= lastTimestamp
    /\ until >= from
    /\ until - from >= duration
    /\ Len(recoveries) < MaxNotes
    /\ lastTimestamp' = until
    /\ recoveries' = Append(recoveries,
                            [from |-> from, until |-> until, duration |-> duration])
    /\ UNCHANGED <<phase, protocolState, transitions, outcomes>>

JournalNext ==
    \/ \E to \in RunPhases, t \in Times, w \in BOOLEAN, c \in Consequences :
         transition(to, t, w, c)
    \/ \E t \in Times, w, triggers \in BOOLEAN :
         record_non_failure_outcome(t, w, triggers)
    \/ \E from, until, duration \in Times, explicit \in BOOLEAN :
         record_recovery(from, until, duration, explicit)

JournalSpec == JournalInit /\ [][JournalNext]_journalVars

-----------------------------------------------------------------------------
(* Properties.                                                             *)

TransitionRecords ==
    [to : RunPhases, state : LifecycleStates, time : Nat, present : SUBSET Kinds]

LifecycleTypeOK ==
    /\ phase \in RunPhases
    /\ protocolState \in LifecycleStates
    /\ lastTimestamp \in Nat
    /\ transitions \in Seq(TransitionRecords)
    /\ outcomes \in Seq(Nat)
    /\ recoveries \in Seq([from : Nat, until : Nat, duration : Nat])

Visited == {transitions[i].to : i \in 1 .. Len(transitions)}

\* A failure is never forgotten: once a failure phase is in the journal, the
\* imported lifecycle value is that failure for good, and the only way on is
\* an invalid finalization (protocol_projection, is_legal_transition).
FailureIsRetained ==
    /\ Visited \cap FailurePhases # {} =>
         /\ Visited \cap FailurePhases = {protocolState}
         /\ phase \in {protocolState, "finalized_invalid"}
    /\ protocolState \in FailurePhases => protocolState \in Visited

\* A run is finalized as valid only on the evidence of a whole execution: it
\* went through every phase, failed in none, and its completion named all
\* four artifact candidates (is_legal_transition, validate_consequences).
ValidRunIsWhole ==
    phase = "finalized_valid" =>
        /\ Visited = BeforeMeasurement \cup InMeasurement
                        \cup {"completed", "finalized_valid"}
        /\ \E i \in 1 .. Len(transitions) :
             /\ transitions[i].to = "completed"
             /\ MeasurementKinds \subseteq transitions[i].present

\* All evidence of a run lies on one time line: no outcome or recovery
\* precedes the last transition it follows, and recoveries neither overlap
\* nor start before the finalization (transition, record_*).
TimeMovesOn ==
    /\ \A i \in 1 .. Len(transitions) :
         /\ transitions[i].time <= lastTimestamp
         /\ i > 1 => transitions[i - 1].time <= transitions[i].time
    /\ \A i \in 1 .. Len(outcomes) : outcomes[i] <= lastTimestamp
    /\ \A i \in 1 .. Len(recoveries) :
         /\ recoveries[i].until <= lastTimestamp
         /\ recoveries[i].from + recoveries[i].duration <= recoveries[i].until
         /\ transitions[Len(transitions)].time <= recoveries[i].from
         /\ i > 1 => recoveries[i - 1].until <= recoveries[i].from

\* What a run has recorded is never withdrawn or reordered, and a finalized
\* run keeps its phase and imported value.
HistoryIsAppendOnly ==
    [][/\ Len(transitions') >= Len(transitions)
       /\ SubSeq(transitions', 1, Len(transitions)) = transitions
       /\ phase \in TerminalPhases => UNCHANGED <<phase, protocolState, transitions>>]_journalVars

\* The journal after any sequence of requests: well formed, with records that
\* do not go back in time.
JournalInv == LifecycleTypeOK /\ TimeMovesOn
=============================================================================

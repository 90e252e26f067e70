----------------------------- MODULE RunEvidence -----------------------------
(***************************************************************************)
(* The evidence of one run, from the clock readings of the two threads     *)
(* (timing/capture.hpp) through the fixed-capacity observation streams     *)
(* (storage/raw_observations.cpp) and their publication                    *)
(* (storage/finalization.cpp) to the manifest the Stage 12 validator       *)
(* judges (module Reconciliation).  The queue between the threads is the   *)
(* environment here: it may lose, repeat or exchange an event, which the   *)
(* join is there to notice; the queue modules show the real ones do not.   *)
(***************************************************************************)
EXTENDS Reconciliation

CONSTANTS
    Schedule,           \* scheduled arrivals of the run
    Mapping,            \* record index of every logical sequence (Stage 6)
    QueueCapacity,
    Capacities,         \* <<producer rows, consumer rows>> a run may be set up with
    MaxTime,            \* bound: ticks of the clock
    MaxQueueFaults,     \* bound: faults of the queue
    PublishFaults(_, _),\* bound: publications that do not seal, given the faults
                        \* of the queue and whether the measurement completed
    Graphs(_, _)        \* the record graphs submitted for a run

ASSUME RunEvidenceAssumption ==
    /\ Schedule \in Seq(Nat) /\ Mapping \in Seq(Nat) /\ Len(Schedule) = Len(Mapping)
    /\ MaxTime \in Nat /\ QueueCapacity \in Nat \ {0}
    /\ \A c \in Capacities : c \in Nat \X Nat
    /\ None \notin Nat \cup {"error", "sealed_complete", "incomplete"}

VARIABLES
    now,        \* CLOCK_MONOTONIC_RAW relative to the origin
    queue,      \* events published and not yet observed: [event, index]
    faults,     \* queue faults so far
    producer,   \* [pc, next, accepted, row]
    consumer,   \* [pc, consumed, row]
    pstream, cstream,   \* [rows, capacity, state, overflowed, prepared]
    objects,    \* published objects in order: [object, outcome, bytes]
    final,      \* the finalization: None, "error", "sealed_complete", "incomplete"
    graph       \* the record graph submitted, or None

vars == <<now, queue, faults, producer, consumer, pstream, cstream, objects, final, graph>>
threads == <<producer, consumer>>

-----------------------------------------------------------------------------
(* Observation streams                                                     *)

Stream(capacity) ==
    [rows |-> <<>>, capacity |-> capacity, state |-> "writing", overflowed |-> FALSE,
     prepared |-> FALSE]

prepare_for_owner(s) == [s EXCEPT !.prepared = TRUE]

\* Mutant: a full stream drops the row and stays open.
append_dropping(s, row) ==
    IF ~s.prepared \/ s.state # "writing" \/ Len(s.rows) = s.capacity THEN s
    ELSE [s EXCEPT !.rows = Append(@, row)]

\* Mutant: the capacity is not checked.
append_unbounded(s, row) ==
    IF ~s.prepared \/ s.state # "writing" THEN s ELSE [s EXCEPT !.rows = Append(@, row)]

\* The row buffer at its capacity seals the stream; nothing is overwritten.
append(s, row) ==
    IF ~s.prepared \/ s.state # "writing" THEN s
    ELSE IF Len(s.rows) = s.capacity
    THEN [s EXCEPT !.overflowed = TRUE, !.state = "sealed_incomplete"]
    ELSE [s EXCEPT !.rows = Append(@, row)]

appended(s) == s.prepared /\ s.state = "writing" /\ Len(s.rows) < s.capacity

seal_complete(s) ==
    IF s.prepared /\ s.state = "writing" /\ ~s.overflowed
    THEN [s EXCEPT !.state = "sealed_complete"] ELSE s

seal_incomplete(s) ==
    IF s.state = "writing" THEN [s EXCEPT !.state = "sealed_incomplete"] ELSE s

-----------------------------------------------------------------------------
(* The two threads                                                         *)

Running == producer.pc # "unprepared" /\ consumer.pc # "unprepared"
Ended(t) == t.pc \in {"completed", "failed"}

PrepareProducer ==
    /\ producer.pc = "unprepared"
    /\ producer' = [producer EXCEPT !.pc = "idle"]
    /\ pstream' = prepare_for_owner(pstream)
    /\ UNCHANGED <<now, queue, faults, consumer, cstream, objects, final, graph>>

PrepareConsumer ==
    /\ consumer.pc = "unprepared"
    /\ consumer' = [consumer EXCEPT !.pc = "idle"]
    /\ cstream' = prepare_for_owner(cstream)
    /\ UNCHANGED <<now, queue, faults, producer, pstream, objects, final, graph>>

Tick ==
    /\ Running /\ ~(Ended(producer) /\ Ended(consumer))
    /\ now < MaxTime /\ now' = now + 1
    /\ UNCHANGED <<queue, faults, threads, pstream, cstream, objects, final, graph>>

\* The attempt of a due event up to its invocation: three clock readings.
EnqueueInvoke ==
    /\ Running /\ producer.pc = "idle" /\ producer.next < Len(Schedule)
    /\ now >= Schedule[producer.next + 1]
    /\ producer' = [producer EXCEPT !.pc = "invoked",
          !.row = [seq |-> producer.next, index |-> Mapping[producer.next + 1],
                   sched |-> Schedule[producer.next + 1], begin |-> now, lookup |-> now,
                   invoke |-> now, lin |-> None, done |-> None, outcome |-> None,
                   ordinal |-> None]]
    /\ UNCHANGED <<now, queue, faults, consumer, pstream, cstream, objects, final, graph>>

\* The boundary observer reads the clock, then the queue publishes the event;
\* or the queue is full.
EnqueuePublish ==
    /\ producer.pc = "invoked"
    /\ IF Len(queue) < QueueCapacity
       THEN /\ queue' = Append(queue, [event |-> producer.row.seq, index |-> producer.row.index])
            /\ producer' = [producer EXCEPT !.pc = "accepted", !.row.lin = now]
       ELSE /\ queue' = queue
            /\ producer' = [producer EXCEPT !.pc = "full"]
    /\ UNCHANGED <<now, faults, consumer, pstream, cstream, objects, final, graph>>

\* The completion reading, and the row.  The event is in the queue by then,
\* whether or not its row can be kept.
EnqueueComplete ==
    /\ producer.pc \in {"accepted", "full"}
    /\ LET accepted == producer.pc = "accepted"
           row == [producer.row EXCEPT
                     !.done = now, !.outcome = producer.pc,
                     !.ordinal = IF accepted THEN producer.accepted ELSE None]
       IN /\ pstream' = append(pstream, producer_words(row))
          /\ producer' = [producer EXCEPT
               !.pc = IF ~appended(pstream) THEN "failed"
                      ELSE IF producer.next + 1 = Len(Schedule) THEN "completed" ELSE "idle",
               !.next = @ + 1, !.accepted = IF accepted THEN @ + 1 ELSE @, !.row = None]
    /\ UNCHANGED <<now, queue, faults, consumer, cstream, objects, final, graph>>

DequeueInvoke ==
    /\ Running /\ consumer.pc = "idle"
    /\ consumer' = [consumer EXCEPT !.pc = "invoked",
          !.row = [invoke |-> now, lin |-> None, event |-> None, index |-> None]]
    /\ UNCHANGED <<now, queue, faults, producer, pstream, cstream, objects, final, graph>>

\* Mutant: the linearization of a dequeue is its invocation.
dequeue_reading_early == consumer.row.invoke

\* The boundary observer reads the clock after the event was observed.
dequeue_reading == now

DequeueObserve ==
    /\ consumer.pc = "invoked"
    /\ IF queue = <<>> THEN consumer' = [consumer EXCEPT !.pc = "idle", !.row = None] /\ queue' = queue
       ELSE /\ consumer' = [consumer EXCEPT !.pc = "observed", !.row.lin = dequeue_reading,
                              !.row.event = queue[1].event, !.row.index = queue[1].index]
            /\ queue' = Tail(queue)
    /\ UNCHANGED <<now, faults, producer, pstream, cstream, objects, final, graph>>

\* Mutant: the record is the one expected, not the one observed.
consumer_words_expected(row, ordinal, done) ==
    [ordinal |-> ordinal, index |-> Mapping[ordinal + 1], invoke |-> row.invoke,
     lin |-> row.lin, done |-> done, action |-> done]

\* What append keeps of a consumer row: the event it is of is not written.
consumer_words(row, ordinal, done) ==
    [ordinal |-> ordinal, index |-> row.index, invoke |-> row.invoke, lin |-> row.lin,
     done |-> done, action |-> done]

DequeueComplete ==
    /\ consumer.pc = "observed"
    /\ cstream' = append(cstream, consumer_words(consumer.row, Len(consumer.consumed), now))
    /\ consumer' = [consumer EXCEPT !.pc = IF appended(cstream) THEN "idle" ELSE "failed",
                                    !.consumed = Append(@, consumer.row.event), !.row = None]
    /\ UNCHANGED <<now, queue, faults, producer, pstream, objects, final, graph>>

\* The producer is done and the queue was seen empty after that.
DrainComplete ==
    /\ consumer.pc = "idle" /\ producer.pc = "completed" /\ queue = <<>>
    /\ consumer' = [consumer EXCEPT !.pc = "completed"]
    /\ UNCHANGED <<now, queue, faults, producer, pstream, cstream, objects, final, graph>>

\* A clock reading fails at a boundary, or the other thread has failed.
ThreadFails ==
    /\ \/ /\ producer.pc \in {"invoked", "accepted", "full"}
          /\ producer' = [producer EXCEPT !.pc = "failed", !.row = None] /\ consumer' = consumer
       \/ /\ producer.pc = "idle" /\ consumer.pc = "failed"
          /\ producer' = [producer EXCEPT !.pc = "failed"] /\ consumer' = consumer
       \/ /\ consumer.pc \in {"invoked", "observed"}
          /\ consumer' = [consumer EXCEPT !.pc = "failed", !.row = None] /\ producer' = producer
       \/ /\ consumer.pc = "idle" /\ producer.pc = "failed"
          /\ consumer' = [consumer EXCEPT !.pc = "failed"] /\ producer' = producer
    /\ UNCHANGED <<now, queue, faults, pstream, cstream, objects, final, graph>>

\* The environment: an event lost, repeated, or overtaken by the next.
QueueFault ==
    /\ faults < MaxQueueFaults /\ queue # <<>>
    /\ faults' = faults + 1
    /\ \/ queue' = Tail(queue)
       \/ Len(queue) < QueueCapacity /\ queue' = <<queue[1]>> \o queue
       \/ Len(queue) > 1 /\ queue' = <<queue[2], queue[1]>> \o SubSeq(queue, 3, Len(queue))
    /\ UNCHANGED <<now, threads, pstream, cstream, objects, final, graph>>

\* After the run each stream is sealed by whoever holds it.
Seal ==
    /\ Ended(producer) /\ Ended(consumer) /\ objects = <<>>
    /\ "writing" \in {pstream.state, cstream.state}
    /\ \/ pstream' = seal_complete(pstream) /\ cstream' = seal_complete(cstream)
       \/ pstream' = seal_incomplete(pstream) /\ cstream' = seal_incomplete(cstream)
    /\ UNCHANGED <<now, queue, faults, threads, objects, final, graph>>

-----------------------------------------------------------------------------
(* Publication (finalize_run_observations)                                 *)

MeasurementCompleted == producer.pc = "completed" /\ consumer.pc = "completed"

Bytes(s) == [run |-> "run", words |-> s.rows]

Integrity == [run |-> "run", matched |-> TRUE, checksums |-> 0]
IntegrityRef == [id |-> "integrity", sha |-> Integrity]

\* make_external_raw_envelope on the snapshot of a stream.
Envelope(kind, id, s) ==
    [id |-> id, kind |-> kind, run |-> "run", rows |-> Len(s.rows), sha |-> Bytes(s),
     sources |-> <<>>, integrity |-> IntegrityRef]

Outcomes == {"error", "no_primary", "primary", "no_ledger", "sealed"}

\* What a publication can come to: a stream that is not complete is stored
\* but never sealed.
outcomes_for(complete) ==
    IF Cardinality({n \in DOMAIN objects : objects[n].outcome # "sealed"})
         < PublishFaults(faults, MeasurementCompleted)
    THEN Outcomes \ (IF complete THEN {} ELSE {"sealed"})
    ELSE IF complete THEN {"sealed"} ELSE {"primary"}

has_verified_primary(outcome) == outcome \in {"primary", "no_ledger", "sealed"}

Published(name) == \E n \in DOMAIN objects : objects[n].object = name
OutcomeOf(name) == objects[CHOOSE n \in DOMAIN objects : objects[n].object = name].outcome

Publish(name, complete, bytes) ==
    \E outcome \in outcomes_for(complete) :
       /\ objects' = Append(objects, [object |-> name, outcome |-> outcome, bytes |-> bytes])
       /\ final' = IF outcome = "error" THEN "error" ELSE final
       /\ UNCHANGED <<now, queue, faults, threads, pstream, cstream, graph>>

Finalizing == final = None /\ Ended(producer) /\ Ended(consumer)

PublishIntegrity == Finalizing /\ objects = <<>> /\ Publish("integrity", TRUE, Integrity)

\* A stream nobody sealed ends the finalization, after what was published.
PublishRaw(name, after, s) ==
    /\ Finalizing /\ Published(after) /\ ~Published(name)
    /\ \/ s.state # "writing" /\ Publish(name, s.state = "sealed_complete", Bytes(s))
       \/ /\ s.state = "writing" /\ final' = "error"
          /\ UNCHANGED <<now, queue, faults, threads, pstream, cstream, objects, graph>>

\* An envelope is written only for a verified primary copy of its rows.
PublishEnvelope(name, raw, kind, s) ==
    /\ Finalizing /\ Published(raw) /\ ~Published(name) /\ has_verified_primary(OutcomeOf(raw))
    /\ Publish(name, TRUE, Envelope(kind, raw, s))

ProducerDone ==
    /\ Published("producer_raw")
    /\ Published("producer_envelope") \/ ~has_verified_primary(OutcomeOf("producer_raw"))
ConsumerDone ==
    /\ Published("consumer_raw")
    /\ Published("consumer_envelope") \/ ~has_verified_primary(OutcomeOf("consumer_raw"))

PublishProducer ==
    \/ PublishRaw("producer_raw", "integrity", pstream)
    \/ PublishEnvelope("producer_envelope", "producer_raw", "producer", pstream)
PublishConsumer ==
    /\ ProducerDone
    /\ \/ PublishRaw("consumer_raw", "producer_raw", cstream)
       \/ PublishEnvelope("consumer_envelope", "consumer_raw", "consumer", cstream)

\* Mutant: the run is sealed once its raw streams are.
finalization_complete_raw ==
    \A name \in {"integrity", "producer_raw", "consumer_raw"} : OutcomeOf(name) # "no_primary"

\* The run is sealed when the measurement completed, all five objects are
\* sealed and no failure was noted.
finalization_complete ==
    /\ MeasurementCompleted
    /\ \A name \in {"integrity", "producer_raw", "producer_envelope", "consumer_raw",
                    "consumer_envelope"} : Published(name) /\ OutcomeOf(name) = "sealed"
    /\ ~pstream.overflowed /\ ~cstream.overflowed

Finalize ==
    /\ Finalizing /\ Published("integrity") /\ ProducerDone /\ ConsumerDone
    /\ final' = IF finalization_complete THEN "sealed_complete" ELSE "incomplete"
    /\ UNCHANGED <<now, queue, faults, threads, pstream, cstream, objects, graph>>

\* What is submitted is of this run: a raw stream the manifest refers to is one
\* that was published, with its envelope, and the mapping is the generated one.
\* Whatever else the records claim is open.
OfThisRun(g) ==
    /\ \A name \in DOMAIN g.manifest.refs \cap {"producer_raw", "consumer_raw"} :
         /\ \E n \in DOMAIN objects :
               /\ objects[n].object = name
               /\ g.manifest.refs[name] = [id |-> name, sha |-> objects[n].bytes]
         /\ \A e \in g.envelopes :
               e.id = name =>
                 \E n \in DOMAIN objects :
                    /\ objects[n].object \in {"producer_envelope", "consumer_envelope"}
                    /\ objects[n].bytes = e
    /\ g.evidence # None => g.evidence.mapping = Mapping

\* A manifest is written for the run and submitted with all it refers to.
Submit ==
    /\ final # None /\ graph = None
    /\ graph' \in Graphs([offered |-> Len(Schedule), completed |-> MeasurementCompleted,
                          producer |-> pstream, consumer |-> cstream], objects)
    /\ OfThisRun(graph')
    /\ UNCHANGED <<now, queue, faults, threads, pstream, cstream, objects, final>>

-----------------------------------------------------------------------------
Init ==
    /\ now = 0 /\ queue = <<>> /\ faults = 0
    /\ producer = [pc |-> "unprepared", next |-> 0, accepted |-> 0, row |-> None]
    /\ consumer = [pc |-> "unprepared", consumed |-> <<>>, row |-> None]
    /\ \E c \in Capacities : pstream = Stream(c[1]) /\ cstream = Stream(c[2])
    /\ objects = <<>> /\ final = None /\ graph = None

Next ==
    \/ PrepareProducer \/ PrepareConsumer \/ Tick
    \/ EnqueueInvoke \/ EnqueuePublish \/ EnqueueComplete
    \/ DequeueInvoke \/ DequeueObserve \/ DequeueComplete \/ DrainComplete
    \/ ThreadFails \/ QueueFault \/ Seal
    \/ PublishIntegrity \/ PublishProducer \/ PublishConsumer \/ Finalize \/ Submit

Spec == Init /\ [][Next]_vars

-----------------------------------------------------------------------------
(* Properties                                                              *)

\* Types of the threads, streams, publications and of the finalization.
EvidenceTypeOK ==
    /\ now \in 0..MaxTime /\ Len(queue) <= QueueCapacity
    /\ producer.next \in 0..Len(Schedule) /\ producer.accepted \in 0..producer.next
    /\ \A s \in {pstream, cstream} :
         /\ Len(s.rows) <= s.capacity
         /\ s.state \in {"writing", "sealed_complete", "sealed_incomplete"}
    /\ \A n \in DOMAIN objects : objects[n].outcome \in Outcomes
    /\ final \in {None, "error", "sealed_complete", "incomplete"}

Decoded(s, kind) == decode_external_raw(Envelope(kind, kind, s), Bytes(s))
Join == reconcile(Decoded(pstream, "producer"), Decoded(cstream, "consumer"), Mapping)
Whole == MeasurementCompleted /\ {pstream.state, cstream.state} = {"sealed_complete"}

\* The logical sequences of the accepted rows, in order.
AcceptedEvents ==
    LET rows == pstream.rows
        kept == in_order({n \in DOMAIN rows : rows[n].flags = AcceptedFlags}, Len(rows))
    IN [n \in DOMAIN kept |-> rows[kept[n]].seq]

\* A stream that says it is complete has the row of every attempt or dequeue
\* its thread finished: the row that did not fit is never left out silently.
CompleteStreamIsWhole ==
    /\ pstream.state = "sealed_complete" => Len(pstream.rows) = producer.next
    /\ cstream.state = "sealed_complete" => Len(cstream.rows) = Len(consumer.consumed)

\* Whatever the two threads' readings interleaved to, the rows of a run over
\* a correct queue decode and join: a sound run is never called inconsistent.
SoundRunJoins == (Whole /\ faults = 0) => Join.status = "passed"

\* A join that passes found no loss, no repetition and no exchange: as many
\* events consumed as accepted, each with the record of its k-th partner.
PassedJoinIsExact ==
    (Whole /\ Join.status = "passed") =>
      /\ Len(consumer.consumed) = Len(AcceptedEvents)
      /\ \A n \in DOMAIN AcceptedEvents :
           Mapping[consumer.consumed[n] + 1] = Mapping[AcceptedEvents[n] + 1]

\* A run is finalized as sealed only when it was measured to its end and the
\* five objects are sealed, the rows in them being all the rows there were.
SealedRunIsWhole ==
    final = "sealed_complete" =>
      /\ Whole /\ Len(pstream.rows) = Len(Schedule)
      /\ \A name \in {"producer_envelope", "consumer_envelope"} :
           \E n, k \in DOMAIN objects :
              /\ objects[n].object = name /\ objects[n].outcome = "sealed"
              /\ objects[k].outcome = "sealed" /\ objects[k].object = objects[n].bytes.id
              /\ objects[n].bytes.sha = objects[k].bytes

Accepted == graph # None /\ Stage12_validate(graph)

\* The counts of an accepted valid Stage A manifest are those of the run: every
\* attempt has its row, and every accepted event was consumed once, whatever
\* the manifest claims.  (Where the consumer stream is sealed incomplete, only
\* the rows it holds can be counted.)
AcceptedCountsAreTrue ==
    (Accepted /\ graph.manifest.stage = "stage_a" /\ graph.manifest.validity = "valid") =>
      LET counts == graph.manifest.counts IN
      /\ producer.next = Len(Schedule) /\ counts.attempted = producer.next
      /\ counts.accepted = producer.accepted
      /\ counts.full = producer.next - producer.accepted
      /\ counts.consumed = producer.accepted /\ counts.consumed = Len(cstream.rows)
      /\ cstream.state = "sealed_complete" => counts.consumed = Len(consumer.consumed)

\* The latencies of an accepted valid Stage A manifest are those of the rows the two
\* threads wrote, each pair of rows taken once.
AcceptedLatenciesAreTrue ==
    (Accepted /\ graph.manifest.stage = "stage_a" /\ graph.manifest.validity = "valid") =>
      graph.artifacts[graph.manifest.refs["joined_derived"].id].words = Join.joined

\* An accepted run that may be used for the confirmatory analysis lost
\* nothing, has the effective tail, and its block and access gates passed.
EstimableMeansClean ==
    (Accepted /\ graph.manifest.estimability = "estimable") =>
      /\ producer.accepted = Len(Schedule)
      /\ graph.manifest.counts.n_eff >= Threshold
      /\ graph.evidence.block.status # "incomplete" /\ graph.evidence.access.status # "fail"

\* A sound Stage A run is accepted with the manifest that tells the truth,
\* FULL attempts and a short tail included: those block the estimate and
\* never the run ("A correctly reconciled FULL count leaves the run VALID").
HonestRunIsAccepted ==
    (graph # None /\ graph.honest /\ Whole /\ faults = 0
       /\ final = "sealed_complete") => Stage12_validate(graph)

\* Nothing is truncated silently: a stream called complete holds every row of
\* its thread, and a run called sealed holds both streams.
StreamsAreWhole == EvidenceTypeOK /\ CompleteStreamIsWhole /\ SealedRunIsWhole

\* The join passes for every sound run, and for no other: what passed is the
\* events as they were handed over.
JoinIsExact == SoundRunJoins /\ PassedJoinIsExact

\* The counts and latencies of an accepted manifest are those of the run.
AcceptedFiguresAreTrue == AcceptedCountsAreTrue /\ AcceptedLatenciesAreTrue

\* A manifest with the status evaluate_run_status gives passes the record-local
\* checks of that status: NOT_EVALUATED with no blockers while the access
\* evidence is not authoritative, NOT_APPLICABLE outside Stage A.
EvaluatedStatusIsValid ==
    graph # None /\ status_agrees(graph) => manifest_blockers_valid(graph.manifest)

=============================================================================

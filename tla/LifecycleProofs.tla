-------------------------- MODULE LifecycleProofs --------------------------
(***************************************************************************)
(* The life of one run, for every value of the constants.                  *)
(*                                                                         *)
(* What execute_measurement guarantees for every schedule, queue capacity, *)
(* tick width and combination of faults: the rows of the two streams join, *)
(* a drained queue belongs to a complete producer, a run reported as a     *)
(* success is a whole run, and what is reported is a cause.                *)
(*                                                                         *)
(* RunStateMachine for every set of timestamps, every list of consequences *)
(* and any number of notes: the journal lies on one time line, a failure   *)
(* stays in it, and a valid run is a whole one.                            *)
(***************************************************************************)
EXTENDS Executor, RunStateMachine, SequenceTheorems, TLAPS

-----------------------------------------------------------------------------
(* The measurement (module Executor)                                       *)

ProducerPcs == {"unborn", "arrive", "wait", "fail_start", "next", "due", "attempt",
                "accepted", "full", "fail", "fail_cancel", "publish", "exited"}
ConsumerPcs == {"unborn", "arrive", "wait", "load_finished", "load_failed", "poll",
                "classify", "cancel", "exited"}
ControllerPcs == {"enter", "wait", "origin", "cancel", "cancel_barrier", "join",
                  "returned"}

Barriers == [arrived : SUBSET {"producer", "consumer"}, released : BOOLEAN,
             cancelled : BOOLEAN, origin : 0 .. MaxTick]
ProducerStates ==
    [failure : Reasons, sequence : Nat, attempted : Nat, accepted : Nat, full : Nat,
     polls : Nat, completed : BOOLEAN, published : BOOLEAN]
ConsumerStates ==
    [failure : Reasons, phase : {"none", "start_barrier", "measurement", "drain"},
     consumed : Nat, polls : Nat, drainPolls : Nat, drained : BOOLEAN,
     finished : BOOLEAN]
ProducerRow == [sequence : Nat, outcome : {"accepted", "full"}, ordinal : Int]
ConsumerRow == [ordinal : Nat, sequence : Nat]

ExecutorShape ==
    /\ args \in [schedule : Schedules, limits : LimitSets]
    /\ barrier \in Barriers
    /\ cancellation \in BOOLEAN
    /\ producerFailed \in BOOLEAN
    /\ arrivalsFinished \in BOOLEAN
    /\ fifo \in Seq(Nat) /\ Len(fifo) <= Capacity
    /\ producerRows \in Seq(ProducerRow)
    /\ consumerRows \in Seq(ConsumerRow)
    /\ prodPc \in ProducerPcs /\ producer \in ProducerStates
    /\ consPc \in ConsumerPcs /\ consumer \in ConsumerStates
    /\ ctlPc \in ControllerPcs
    /\ ctl \in [polls : Nat, failure : {"none", "start_watchdog", "clock_read"}]

\* The start barrier: each role arrives once, so only the controller cancels
\* it, and it is released or abandoned, never both.
StartIsOrderly ==
    /\ "producer" \in barrier.arrived <=> prodPc \notin {"unborn", "arrive"}
    /\ "consumer" \in barrier.arrived <=> consPc \notin {"unborn", "arrive"}
    /\ ctlPc = "enter" => prodPc = "unborn"
    /\ prodPc = "unborn" <=> consPc = "unborn"
    /\ ctlPc \in {"enter", "wait", "origin"} => ctl.failure = "none"
    /\ ctlPc \in {"cancel", "cancel_barrier"} => ctl.failure # "none"
    /\ barrier.cancelled => ctl.failure # "none"
    /\ barrier.released => ctl.failure = "none" /\ ctlPc \in {"join", "returned"}
    /\ prodPc \in {"next", "due", "attempt", "accepted", "full"} => barrier.released

\* What the producer's position tells: a failure is made visible before the
\* end of the arrivals is published, and every arrival is attempted once.
ProducerKnows ==
    /\ prodPc \in {"unborn", "arrive", "wait", "next", "due", "attempt", "accepted",
                   "full"} =>
         producer.failure = "none" /\ ~ producer.completed /\ ~ producer.published
    /\ prodPc \in {"fail_start", "fail", "fail_cancel"} =>
         producer.failure # "none" /\ ~ producer.completed /\ ~ producer.published
    /\ prodPc = "fail_cancel" => producerFailed
    /\ prodPc = "publish" => ~ producer.published
    /\ prodPc \in {"publish", "exited"} =>
         producer.completed \/ (producer.failure # "none" /\ producerFailed)
    /\ prodPc = "exited" /\ producer.failure = "none" => producer.published
    /\ producer.published => prodPc = "exited"
    /\ producer.completed => producer.failure = "none" /\ producer.sequence = Offered
    /\ producerFailed => producer.failure # "none"
    /\ prodPc # "unborn" /\ arrivalsFinished => producer.published

\* The producer's counts.
ProducerCounts ==
    /\ producer.sequence <= Offered
    /\ prodPc \in {"due", "attempt", "accepted", "full"} => producer.sequence < Offered
    /\ producer.accepted + producer.full = producer.sequence
    /\ Len(producerRows) = producer.sequence
    /\ producer.failure # "producer_attempt" => producer.attempted = producer.sequence
    /\ producer.failure = "producer_attempt" =>
         producer.sequence < Offered /\ producer.attempted = producer.sequence + 1

\* What the consumer's position tells: it polls a finished producer's queue
\* only when that producer is complete.
ConsumerKnows ==
    /\ consPc \in {"unborn", "arrive", "wait", "load_finished", "load_failed", "poll"} =>
         consumer.failure = "none" /\ ~ consumer.drained
    /\ consPc \in {"classify", "cancel"} => consumer.failure # "none" /\ ~ consumer.drained
    /\ consumer.failure # "cancelled"
    /\ consumer.finished => producer.published
    /\ consPc = "load_failed" => consumer.finished
    /\ consPc = "poll" /\ consumer.finished => producer.completed
    /\ consumer.drained => /\ consumer.failure = "none" /\ consPc = "exited"
                           /\ producer.completed /\ producer.published
                           /\ fifo = << >>
    /\ consPc = "exited" /\ consumer.failure = "none" => consumer.drained \/ producerFailed

\* Whoever cancels has failed, and a producer that obeys a cancellation obeys
\* the consumer's.
CancellationHasCause ==
    /\ cancellation => \/ ctl.failure # "none" \/ producer.failure # "none"
                       \/ consumer.failure # "none"
    /\ producer.failure = "cancelled" => consumer.failure # "none"

\* s is the arrival that the o-th accepted event carries: by a producer's row,
\* or as the event of the attempt that has no row yet, or never will.
IsEvent(rows, state, pc, o, s) ==
    \/ \E k \in 1 .. Len(rows) : rows[k].ordinal = o /\ rows[k].sequence = s
    \/ /\ pc = "accepted" \/ state.failure = "producer_attempt"
       /\ o = state.accepted /\ s = state.sequence

\* The events in the queue's order that the producer has not counted yet.
Uncounted(pc) == IF pc = "accepted" THEN 1 ELSE 0

\* An ordinal names one producer row; the consumer's rows, and after them the
\* queue, are the accepted events in the order of their ordinals.
StreamsAgree ==
    /\ \A k \in 1 .. Len(producerRows) :
         producerRows[k].ordinal \in -1 .. producer.accepted - 1
    /\ \A k, l \in 1 .. Len(producerRows) :
         producerRows[k].ordinal = producerRows[l].ordinal /\ producerRows[k].ordinal # -1
           => k = l
    /\ \A i \in 1 .. Len(consumerRows) :
         /\ consumerRows[i].ordinal = i - 1
         /\ IsEvent(producerRows, producer, prodPc, i - 1, consumerRows[i].sequence)
    /\ consumer.failure = "none" =>
         /\ consumer.consumed = Len(consumerRows)
         /\ producer.failure # "producer_attempt" =>
              Len(consumerRows) + Len(fifo) = producer.accepted + Uncounted(prodPc)
         /\ \A k \in 1 .. Len(fifo) :
              IsEvent(producerRows, producer, prodPc, Len(consumerRows) + k - 1, fifo[k])

\* The report is made of two threads that have ended, or of none.
ReportTells ==
    ctlPc = "returned" =>
        \/ report.phase = "pre_run" /\ prodPc = "unborn" /\ consPc = "unborn"
        \/ /\ prodPc = "exited" /\ consPc = "exited"
           /\ report = IF ctl.failure = "none" THEN RunReport
                       ELSE failure_report("start_barrier", ctl.failure, TRUE)

ExecutorIndInv ==
    /\ ExecutorShape
    /\ StartIsOrderly
    /\ ProducerKnows
    /\ ProducerCounts
    /\ ConsumerKnows
    /\ CancellationHasCause
    /\ StreamsAgree
    /\ ReportTells

-----------------------------------------------------------------------------
\* The schedule has a length.
LEMMA OfferedIsNat == ASSUME ExecutorShape PROVE Offered \in Nat
<1>1. args.schedule \in Schedules
  BY DEF ExecutorShape
<1>2. args.schedule.deadlines \in Seq(0 .. MaxTick)
  BY <1>1, ExecutorAssumption
<1>. QED  BY <1>2 DEF Offered, schedule

\* Steps that touch neither the queue nor the rows.
LEMMA StreamsFrame ==
    ASSUME StreamsAgree, fifo' = fifo, producerRows' = producerRows,
           consumerRows' = consumerRows,
           producer'.accepted = producer.accepted, producer'.sequence = producer.sequence,
           prodPc = "accepted" <=> prodPc' = "accepted",
           producer.failure = "producer_attempt" <=> producer'.failure = "producer_attempt",
           consumer'.failure = "none" =>
             consumer.failure = "none" /\ consumer'.consumed = consumer.consumed
    PROVE  StreamsAgree'
<1>1. \A o, s : IsEvent(producerRows, producer, prodPc, o, s) <=>
                IsEvent(producerRows', producer', prodPc', o, s)
  BY DEF IsEvent
<1>2. Uncounted(prodPc') = Uncounted(prodPc)
  BY DEF Uncounted
<1>. QED  BY <1>1, <1>2 DEF StreamsAgree

LEMMA InitKeepsInv == Init => ExecutorIndInv
<1> SUFFICES ASSUME Init PROVE ExecutorIndInv
  OBVIOUS
<1>1. ExecutorShape
  <2>1. barrier \in Barriers
    BY ExecutorAssumption DEF Init, Barriers
  <2>2. producer \in ProducerStates /\ consumer \in ConsumerStates
    BY DEF Init, ProducerStates, ConsumerStates, Reasons
  <2>3. /\ fifo \in Seq(Nat) /\ Len(fifo) <= Capacity
        /\ producerRows \in Seq(ProducerRow) /\ consumerRows \in Seq(ConsumerRow)
    BY ExecutorAssumption DEF Init
  <2>4. ctl \in [polls : Nat, failure : {"none", "start_watchdog", "clock_read"}]
    BY DEF Init
  <2>. QED  BY <2>1, <2>2, <2>3, <2>4 DEF Init, ExecutorShape, ProducerPcs, ConsumerPcs,
              ControllerPcs
<1>2. Offered \in Nat
  BY <1>1, OfferedIsNat
<1>3. StartIsOrderly /\ ReportTells
  BY DEF Init, StartIsOrderly, ReportTells
<1>4. ProducerKnows /\ ConsumerKnows /\ CancellationHasCause
  BY DEF Init, ProducerKnows, ConsumerKnows, CancellationHasCause
<1>5. ProducerCounts
  BY <1>2 DEF Init, ProducerCounts
<1>6. StreamsAgree
  BY DEF Init, StreamsAgree, Uncounted
<1>. QED  BY <1>1, <1>3, <1>4, <1>5, <1>6 DEF ExecutorIndInv

-----------------------------------------------------------------------------
(* The producer.                                                           *)

\* Before the release.
LEMMA ProducerStartKeepsInv ==
    ASSUME ExecutorIndInv, ProducerArrive \/ ProducerWait \/ ProducerFailStart
    PROVE  ExecutorIndInv'
<1> USE DEF ExecutorIndInv
<1>1. /\ args' = args /\ Offered' = Offered /\ fifo' = fifo
      /\ producerRows' = producerRows /\ consumerRows' = consumerRows
      /\ consPc' = consPc /\ consumer' = consumer
      /\ ctlPc' = ctlPc /\ ctl' = ctl /\ report' = report
      /\ cancellation' = cancellation /\ arrivalsFinished' = arrivalsFinished
  BY DEF ProducerArrive, ProducerWait, ProducerFailStart, prodFrame, consVars, ctlVars,
     flagVars, Offered, schedule
<1>2. prodPc \in {"arrive", "wait", "fail_start"} /\ ctlPc # "returned" /\ ctlPc # "enter"
  BY DEF ProducerArrive, ProducerWait, ProducerFailStart, ReportTells, StartIsOrderly
<1>3. producer \in ProducerStates /\ barrier \in Barriers
  BY DEF ExecutorShape
<1>4. CASE ProducerArrive
  <2>1. "producer" \notin barrier.arrived /\ prodPc = "arrive"
    BY <1>4 DEF ProducerArrive, StartIsOrderly
  <2>2. /\ prodPc' = "wait" /\ producer' = producer /\ producerFailed' = producerFailed
        /\ barrier' = [barrier EXCEPT !.arrived = @ \cup {"producer"}]
    BY <1>4, <2>1 DEF ProducerArrive, Arrive, flagVars
  <2>3. /\ barrier' \in Barriers /\ barrier'.released = barrier.released
        /\ barrier'.cancelled = barrier.cancelled
        /\ "producer" \in barrier'.arrived
        /\ "consumer" \in barrier'.arrived <=> "consumer" \in barrier.arrived
    BY <1>3, <2>2 DEF Barriers
  <2>4. ExecutorShape'
    BY <1>1, <2>2, <2>3 DEF ExecutorShape, ProducerPcs
  <2>5. StartIsOrderly'
    BY <1>1, <1>2, <2>1, <2>2, <2>3 DEF StartIsOrderly
  <2>6. ProducerKnows' /\ ProducerCounts'
    BY <1>1, <2>1, <2>2 DEF ProducerKnows, ProducerCounts
  <2>7. ConsumerKnows' /\ CancellationHasCause' /\ ReportTells'
    BY <1>1, <1>2, <2>2 DEF ConsumerKnows, CancellationHasCause, ReportTells
  <2>8. StreamsAgree'
    BY <1>1, <2>1, <2>2, StreamsFrame
  <2>. QED  BY <2>4, <2>5, <2>6, <2>7, <2>8
<1>5. CASE ProducerWait
  <2>1. prodPc = "wait" /\ barrier' = barrier /\ producerFailed' = producerFailed
    BY <1>5 DEF ProducerWait, flagVars
  <2>2. \/ producer' = [producer EXCEPT !.polls = @ + 1] /\ prodPc' = "wait"
        \/ producer' = producer /\ prodPc' = "next" /\ barrier.released
        \/ producer' = [producer EXCEPT !.failure = "start_watchdog"]
             /\ prodPc' = "fail_start"
    BY <1>5, <2>1 DEF ProducerWait, ProducerFails, WorkerWait
  <2>3. /\ producer' \in ProducerStates
        /\ producer'.accepted = producer.accepted /\ producer'.sequence = producer.sequence
        /\ producer'.full = producer.full /\ producer'.attempted = producer.attempted
        /\ producer'.completed = producer.completed
        /\ producer'.published = producer.published
        /\ producer'.failure =
             IF prodPc' = "fail_start" THEN "start_watchdog" ELSE producer.failure
    BY <1>3, <2>2 DEF ProducerStates, Reasons
  <2>4. producer.failure = "none" /\ ~ producer.completed /\ ~ producer.published
    BY <2>1 DEF ProducerKnows
  <2>5. prodPc' \in {"wait", "next", "fail_start"} /\ (prodPc' = "next" => barrier.released)
    BY <2>2
  <2>6. ExecutorShape'
    BY <1>1, <2>1, <2>3, <2>5 DEF ExecutorShape, ProducerPcs
  <2>7. StartIsOrderly'
    BY <1>1, <1>2, <2>1, <2>5 DEF StartIsOrderly
  <2>8. ProducerKnows'
    BY <1>1, <2>1, <2>3, <2>4, <2>5 DEF ProducerKnows
  <2>9. ProducerCounts'
    BY <1>1, <2>3, <2>4, <2>5 DEF ProducerCounts
  <2>10. ConsumerKnows' /\ CancellationHasCause' /\ ReportTells'
    BY <1>1, <1>2, <2>1, <2>3, <2>4, <2>5 DEF ConsumerKnows, CancellationHasCause, ReportTells
  <2>11. StreamsAgree'
    BY <1>1, <2>1, <2>3, <2>4, <2>5, StreamsFrame
  <2>. QED  BY <2>6, <2>7, <2>8, <2>9, <2>10, <2>11
<1>6. CASE ProducerFailStart
  <2>1. /\ prodPc = "fail_start" /\ prodPc' = "exited" /\ producer' = producer
        /\ producerFailed' = TRUE /\ barrier' = barrier
    BY <1>6 DEF ProducerFailStart
  <2>2. ExecutorShape'
    BY <1>1, <2>1 DEF ExecutorShape, ProducerPcs
  <2>3. StartIsOrderly'
    BY <1>1, <1>2, <2>1 DEF StartIsOrderly
  <2>4. ProducerKnows' /\ ProducerCounts'
    BY <1>1, <2>1 DEF ProducerKnows, ProducerCounts
  <2>5. ConsumerKnows' /\ CancellationHasCause' /\ ReportTells'
    BY <1>1, <1>2, <2>1 DEF ConsumerKnows, CancellationHasCause, ReportTells
  <2>6. StreamsAgree'
    BY <1>1, <2>1, StreamsFrame
  <2>. QED  BY <2>2, <2>3, <2>4, <2>5, <2>6
<1>. QED  BY <1>4, <1>5, <1>6

\* The loop over the deadlines up to the attempt.
LEMMA ProducerLoopKeepsInv ==
    ASSUME ExecutorIndInv, ProducerNext \/ ProducerDue
    PROVE  ExecutorIndInv'
<1> USE DEF ExecutorIndInv
<1>1. /\ args' = args /\ Offered' = Offered /\ fifo' = fifo
      /\ producerRows' = producerRows /\ consumerRows' = consumerRows
      /\ consPc' = consPc /\ consumer' = consumer
      /\ ctlPc' = ctlPc /\ ctl' = ctl /\ report' = report /\ barrier' = barrier
      /\ cancellation' = cancellation /\ arrivalsFinished' = arrivalsFinished
      /\ producerFailed' = producerFailed
  BY DEF ProducerNext, ProducerDue, prodFrame, consVars, ctlVars, flagVars, Offered,
     schedule
<1>2. prodPc \in {"next", "due"} /\ ctlPc # "returned" /\ ctlPc # "enter"
  BY DEF ProducerNext, ProducerDue, ReportTells, StartIsOrderly
<1>3. /\ producer.failure = "none" /\ ~ producer.completed /\ ~ producer.published
      /\ barrier.released /\ ctl.failure = "none" /\ ~ producerFailed
  BY <1>2 DEF ProducerKnows, StartIsOrderly
<1>4. Offered \in Nat /\ producer \in ProducerStates /\ producer.sequence <= Offered
      /\ producer.sequence \in Nat
  BY OfferedIsNat DEF ExecutorShape, ProducerCounts, ProducerStates
<1>5. PICK reason \in Reasons, polls \in Nat, completed \in BOOLEAN :
        /\ producer' = [producer EXCEPT !.failure = reason, !.polls = polls,
                                        !.completed = completed]
        /\ reason # "producer_attempt"
        /\ reason = "cancelled" => cancellation
        /\ completed => producer.sequence = Offered /\ reason = "none"
        /\ \/ prodPc' = "publish" /\ completed
           \/ prodPc' = "fail" /\ reason # "none" /\ ~ completed
           \/ prodPc' \in {"due", "attempt"} /\ reason = "none" /\ ~ completed
                /\ producer.sequence < Offered
  <2>1. CASE ProducerNext
    <3>1. CASE producer.sequence = Offered
      <4>1. /\ producer' = [producer EXCEPT !.failure = "none", !.polls = producer.polls,
                                            !.completed = TRUE]
            /\ prodPc' = "publish"
        BY <1>3, <1>4, <2>1, <3>1 DEF ProducerNext, ProducerStates
      <4>2. producer.polls \in Nat
        BY <1>4 DEF ProducerStates
      <4>. QED  BY <3>1, <4>1, <4>2 DEF Reasons
    <3>2. CASE producer.sequence # Offered
      <4>1. PICK r \in {"none", "cancelled", "deadline_overflow"}, n \in Nat :
              /\ producer' = [producer EXCEPT !.failure = r, !.polls = n,
                                              !.completed = FALSE]
              /\ r = "cancelled" => cancellation
              /\ prodPc' = IF r = "none" THEN "due" ELSE "fail"
        <5>1. producer.polls \in Nat
          BY <1>4 DEF ProducerStates
        <5>2. CASE cancellation
          <6>1. producer' = [producer EXCEPT !.failure = "cancelled",
                               !.polls = producer.polls, !.completed = FALSE]
                /\ prodPc' = "fail"
            BY <1>3, <1>4, <2>1, <3>2, <5>2 DEF ProducerNext, ProducerFails, ProducerStates
          <6>. QED  BY <5>1, <5>2, <6>1
        <5>3. CASE ~ cancellation /\
                   ~ DeadlineFits(schedule.deadlines[producer.sequence + 1])
          <6>1. producer' = [producer EXCEPT !.failure = "deadline_overflow",
                               !.polls = producer.polls, !.completed = FALSE]
                /\ prodPc' = "fail"
            BY <1>3, <1>4, <2>1, <3>2, <5>3 DEF ProducerNext, ProducerFails, ProducerStates
          <6>. QED  BY <5>1, <5>3, <6>1
        <5>4. CASE ~ cancellation /\
                   DeadlineFits(schedule.deadlines[producer.sequence + 1])
          <6>1. producer' = [producer EXCEPT !.failure = "none", !.polls = 0,
                                             !.completed = FALSE]
                /\ prodPc' = "due"
            BY <1>3, <1>4, <2>1, <3>2, <5>4 DEF ProducerNext, ProducerStates
          <6>. QED  BY <6>1
        <5>. QED  BY <5>2, <5>3, <5>4
      <4>2. producer.sequence < Offered
        BY <1>4, <3>2
      <4>. QED  BY <4>1, <4>2 DEF Reasons
    <3>. QED  BY <3>1, <3>2
  <2>2. CASE ProducerDue
    <3>1. producer.sequence < Offered /\ producer.polls \in Nat
      BY <1>4, <2>2 DEF ProducerDue, ProducerCounts, ProducerStates
    <3>2. PICK r \in {"none", "cancelled", "producer_wait_watchdog", "clock_read"},
               n \in Nat :
            /\ producer' = [producer EXCEPT !.failure = r, !.polls = n,
                                            !.completed = FALSE]
            /\ r = "cancelled" => cancellation
            /\ IF r = "none" THEN prodPc' \in {"due", "attempt"} ELSE prodPc' = "fail"
      <4>1. \/ prodPc' = "fail" /\ \E r \in {"cancelled", "producer_wait_watchdog", "clock_read"} :
                 /\ producer' = [producer EXCEPT !.failure = r]
                 /\ r = "cancelled" => cancellation
            \/ producer' = [producer EXCEPT !.polls = @ + 1] /\ prodPc' = "due"
            \/ producer' = producer /\ prodPc' = "attempt"
        BY <2>2 DEF ProducerDue, ProducerFails
      <4>2. \A r \in Reasons : [producer EXCEPT !.failure = r] =
              [producer EXCEPT !.failure = r, !.polls = producer.polls, !.completed = FALSE]
        BY <1>3, <1>4 DEF ProducerStates
      <4>3. [producer EXCEPT !.polls = @ + 1] =
              [producer EXCEPT !.failure = "none", !.polls = producer.polls + 1,
                               !.completed = FALSE]
        BY <1>3, <1>4 DEF ProducerStates
      <4>4. producer = [producer EXCEPT !.failure = "none", !.polls = producer.polls,
                                        !.completed = FALSE]
        BY <1>3, <1>4 DEF ProducerStates
      <4>5. CASE prodPc' = "fail" /\ \E r \in {"cancelled", "producer_wait_watchdog", "clock_read"} :
                 /\ producer' = [producer EXCEPT !.failure = r]
                 /\ r = "cancelled" => cancellation
        <5>1. PICK r \in {"cancelled", "producer_wait_watchdog", "clock_read"} :
                 /\ producer' = [producer EXCEPT !.failure = r]
                 /\ r = "cancelled" => cancellation
          BY <4>5
        <5>2. producer' = [producer EXCEPT !.failure = r, !.polls = producer.polls,
                                           !.completed = FALSE]
          BY <4>2, <5>1 DEF Reasons
        <5>. QED  BY <3>1, <4>5, <5>1, <5>2
      <4>6. CASE producer' = [producer EXCEPT !.polls = @ + 1] /\ prodPc' = "due"
        <5>1. producer.polls + 1 \in Nat
          BY <3>1
        <5>. QED  BY <4>3, <4>6, <5>1
      <4>7. CASE producer' = producer /\ prodPc' = "attempt"
        BY <3>1, <4>4, <4>7
      <4>. QED  BY <4>1, <4>5, <4>6, <4>7
    <3>. QED  BY <3>1, <3>2 DEF Reasons
  <2>. QED  BY <2>1, <2>2
<1>6. /\ producer' \in ProducerStates
      /\ producer'.accepted = producer.accepted /\ producer'.sequence = producer.sequence
      /\ producer'.full = producer.full /\ producer'.attempted = producer.attempted
      /\ producer'.published = producer.published
      /\ producer'.completed = completed /\ producer'.failure = reason
  BY <1>4, <1>5 DEF ProducerStates
<1>7. prodPc' \in {"publish", "fail", "due", "attempt"}
  BY <1>5
<1>8. ExecutorShape'
  BY <1>1, <1>6, <1>7 DEF ExecutorShape, ProducerPcs
<1>9. StartIsOrderly'
  BY <1>1, <1>2, <1>3, <1>7 DEF StartIsOrderly
<1>10. ProducerKnows'
  BY <1>1, <1>2, <1>3, <1>5, <1>6 DEF ProducerKnows
<1>11. ProducerCounts'
  BY <1>1, <1>3, <1>5, <1>6 DEF ProducerCounts
<1>12. ConsumerKnows' /\ ReportTells'
  BY <1>1, <1>2, <1>3, <1>6 DEF ConsumerKnows, ReportTells
<1>13. CancellationHasCause'
  BY <1>1, <1>3, <1>5, <1>6 DEF CancellationHasCause
<1>14. StreamsAgree'
  BY <1>1, <1>2, <1>3, <1>5, <1>6, <1>7, StreamsFrame
<1>. QED  BY <1>8, <1>9, <1>10, <1>11, <1>12, <1>13, <1>14

\* The enqueue: its event takes the next place in the order of all accepted
\* events, and is the one event the producer has not counted.
LEMMA EnqueueKeepsInv ==
    ASSUME ExecutorIndInv, ProducerAttempt, prodPc' \in {"accepted", "full"}
    PROVE  ExecutorIndInv'
<1> USE DEF ExecutorIndInv
<1>1. /\ args' = args /\ Offered' = Offered /\ consumerRows' = consumerRows
      /\ consPc' = consPc /\ consumer' = consumer /\ producerRows' = producerRows
      /\ ctlPc' = ctlPc /\ ctl' = ctl /\ report' = report /\ barrier' = barrier
      /\ cancellation' = cancellation /\ arrivalsFinished' = arrivalsFinished
      /\ producerFailed' = producerFailed
  BY DEF ProducerAttempt, prodFrame, consVars, ctlVars, flagVars, Offered, schedule
<1>2. /\ prodPc = "attempt" /\ ctlPc # "returned" /\ ctlPc # "enter"
      /\ producer' = producer
  BY DEF ProducerAttempt, AttemptFails, ReportTells, StartIsOrderly
<1>3. /\ producer.failure = "none" /\ ~ producer.completed /\ ~ producer.published
      /\ barrier.released /\ ~ consumer.finished /\ ~ consumer.drained /\ ~ producerFailed
      /\ ctl.failure = "none"
  BY <1>2 DEF ProducerKnows, StartIsOrderly, ConsumerKnows
<1>4. PICK a \in Nat, q \in Nat, f \in Nat, c \in Nat :
        /\ a = producer.accepted /\ q = producer.sequence /\ f = Len(fifo)
        /\ c = Len(consumerRows)
  BY DEF ExecutorShape, ProducerStates
<1>5. /\ fifo' \in Seq(Nat) /\ Len(fifo') <= Capacity
      /\ \/ /\ prodPc' = "accepted" /\ Len(fifo') = f + 1 /\ fifo'[f + 1] = q
            /\ \A k \in 1 .. f : fifo'[k] = fifo[k]
         \/ prodPc' = "full" /\ fifo' = fifo
  <2>1. PICK s \in Seq(Nat) : s = fifo /\ Len(s) <= Capacity
    BY DEF ExecutorShape
  <2>2. /\ Append(s, q) \in Seq(Nat) /\ Len(Append(s, q)) = f + 1
        /\ Append(s, q)[f + 1] = q /\ \A k \in 1 .. f : Append(s, q)[k] = s[k]
    BY <1>4, <2>1
  <2>3. \/ prodPc' = "accepted" /\ f < Capacity /\ fifo' = Append(s, q)
        \/ prodPc' = "full" /\ fifo' = s
    BY <1>4, <2>1 DEF ProducerAttempt, AttemptFails
  <2>4. f < Capacity => f + 1 <= Capacity
    BY ExecutorAssumption
  <2>. QED  BY <2>1, <2>2, <2>3, <2>4
<1>6. ExecutorShape'
  BY <1>1, <1>2, <1>5 DEF ExecutorShape, ProducerPcs
<1>7. StartIsOrderly'
  BY <1>1, <1>2, <1>3 DEF StartIsOrderly
<1>8. ProducerKnows'
  BY <1>1, <1>2, <1>3 DEF ProducerKnows
<1>9. ProducerCounts'
  BY <1>1, <1>2 DEF ProducerCounts
<1>10. ConsumerKnows' /\ ReportTells' /\ CancellationHasCause'
  BY <1>1, <1>2, <1>3 DEF ConsumerKnows, ReportTells, CancellationHasCause
<1>11. \A o, s : IsEvent(producerRows, producer, prodPc, o, s) =>
                   IsEvent(producerRows', producer', prodPc', o, s)
  BY <1>1, <1>2 DEF IsEvent
<1>12. prodPc' = "accepted" => IsEvent(producerRows', producer', prodPc', a, q)
  BY <1>2, <1>4 DEF IsEvent
<1>13. StreamsAgree'
  <2>1. \A i \in 1 .. c :
          /\ consumerRows[i].ordinal = i - 1
          /\ IsEvent(producerRows', producer', prodPc', i - 1, consumerRows[i].sequence)
    BY <1>4, <1>11 DEF StreamsAgree
  <2>2. ASSUME consumer.failure = "none"
        PROVE  /\ consumer.consumed = c
               /\ c + Len(fifo') = a + Uncounted(prodPc')
               /\ \A k \in 1 .. Len(fifo') :
                    IsEvent(producerRows', producer', prodPc', c + k - 1, fifo'[k])
    <3>1. /\ consumer.consumed = c /\ c + f = a
          /\ \A k \in 1 .. f : IsEvent(producerRows, producer, prodPc, c + k - 1, fifo[k])
      BY <1>2, <1>3, <1>4, <2>2 DEF StreamsAgree, Uncounted
    <3>2. \A k \in 1 .. f : IsEvent(producerRows', producer', prodPc', c + k - 1, fifo[k])
      BY <1>11, <3>1
    <3>3. CASE prodPc' = "full"
      BY <1>4, <1>5, <3>1, <3>2, <3>3 DEF Uncounted
    <3>4. CASE prodPc' = "accepted"
      <4>1. Len(fifo') = f + 1 /\ fifo'[f + 1] = q /\ \A k \in 1 .. f : fifo'[k] = fifo[k]
        BY <1>5, <3>4
      <4>2. ASSUME NEW k \in 1 .. f + 1
            PROVE  IsEvent(producerRows', producer', prodPc', c + k - 1, fifo'[k])
        <5>1. CASE k \in 1 .. f
          BY <3>2, <4>1, <5>1
        <5>2. CASE k = f + 1
          <6>1. c + k - 1 = a /\ fifo'[k] = q
            BY <3>1, <4>1, <5>2
          <6>. QED  BY <1>12, <3>4, <6>1
        <5>. QED  BY <5>1, <5>2
      <4>3. c + (f + 1) = a + 1 /\ Uncounted(prodPc') = 1
        BY <3>1, <3>4 DEF Uncounted
      <4>. QED  BY <3>1, <4>1, <4>2, <4>3
    <3>. QED  BY <1>5, <3>3, <3>4
  <2>. QED  BY <1>1, <1>2, <1>4, <2>1, <2>2 DEF StreamsAgree
<1>. QED  BY <1>6, <1>7, <1>8, <1>9, <1>10, <1>13

\* The row that follows the enqueue: it carries the place of its event, which
\* the consumer may have taken by now.
LEMMA AppendRowKeepsInv ==
    ASSUME ExecutorIndInv, ProducerAppend, prodPc' = "next"
    PROVE  ExecutorIndInv'
<1> USE DEF ExecutorIndInv
<1>1. /\ args' = args /\ Offered' = Offered /\ consumerRows' = consumerRows
      /\ consPc' = consPc /\ consumer' = consumer /\ fifo' = fifo
      /\ ctlPc' = ctlPc /\ ctl' = ctl /\ report' = report /\ barrier' = barrier
      /\ cancellation' = cancellation /\ arrivalsFinished' = arrivalsFinished
      /\ producerFailed' = producerFailed
  BY DEF ProducerAppend, prodFrame, consVars, ctlVars, flagVars, Offered, schedule
<1>2. prodPc \in {"accepted", "full"} /\ ctlPc # "returned" /\ ctlPc # "enter"
  BY DEF ProducerAppend, ReportTells, StartIsOrderly
<1>3. /\ producer.failure = "none" /\ ~ producer.completed /\ ~ producer.published
      /\ barrier.released /\ ~ consumer.finished /\ ~ consumer.drained /\ ~ producerFailed
      /\ ctl.failure = "none"
  BY <1>2 DEF ProducerKnows, StartIsOrderly, ConsumerKnows
<1>4. PICK outcome \in {"accepted", "full"}, a \in Nat, q \in Nat, n \in Nat,
           row \in ProducerRow :
        /\ outcome = prodPc /\ a = producer.accepted /\ q = producer.sequence
        /\ n = Len(producerRows)
        /\ row = [sequence |-> q, outcome |-> outcome,
                  ordinal |-> IF outcome = "accepted" THEN a ELSE -1]
        /\ producerRows' = Append(producerRows, row)
        /\ producer' = CountAttempt(outcome)
  <2>1. producer.accepted \in Nat /\ producer.sequence \in Nat /\ Len(producerRows) \in Nat
    BY DEF ExecutorShape, ProducerStates
  <2>2. AttemptRow(prodPc) \in ProducerRow
    BY <1>2, <2>1 DEF AttemptRow, ProducerRow
  <2>3. producerRows' = Append(producerRows, AttemptRow(prodPc))
        /\ producer' = CountAttempt(prodPc)
    BY DEF ProducerAppend, AttemptFails
  <2>. QED  BY <1>2, <2>1, <2>2, <2>3 DEF AttemptRow
<1>5. row.sequence = q /\ row.ordinal = (IF outcome = "accepted" THEN a ELSE -1)
  BY <1>4
<1>6. /\ producer' \in ProducerStates
      /\ producer'.accepted = (IF outcome = "accepted" THEN a + 1 ELSE a)
      /\ producer'.full = (IF outcome = "full" THEN producer.full + 1 ELSE producer.full)
      /\ producer'.sequence = q + 1 /\ producer'.attempted = producer.attempted + 1
      /\ producer'.failure = "none" /\ producer'.completed = FALSE
      /\ producer'.published = FALSE
  <2>1. producer \in ProducerStates
    BY DEF ExecutorShape
  <2>2. producer' = [producer EXCEPT !.attempted = producer.attempted + 1,
                       !.accepted = IF outcome = "accepted" THEN a + 1 ELSE a,
                       !.full = IF outcome = "full" THEN producer.full + 1 ELSE producer.full,
                       !.sequence = q + 1]
    BY <1>4, <2>1 DEF CountAttempt, ProducerStates
  <2>3. /\ producer.attempted + 1 \in Nat
        /\ (IF outcome = "accepted" THEN a + 1 ELSE a) \in Nat
        /\ (IF outcome = "full" THEN producer.full + 1 ELSE producer.full) \in Nat
        /\ q + 1 \in Nat
    <3>1. PICK attempts \in Nat, rejected \in Nat :
            attempts = producer.attempted /\ rejected = producer.full
      BY <2>1 DEF ProducerStates
    <3>2. attempts + 1 \in Nat /\ rejected + 1 \in Nat /\ a + 1 \in Nat /\ q + 1 \in Nat
      OBVIOUS
    <3>. QED  BY <3>1, <3>2
  <2>. QED  BY <1>3, <2>1, <2>2, <2>3 DEF ProducerStates
<1>7. /\ producerRows' \in Seq(ProducerRow) /\ Len(producerRows') = n + 1
      /\ producerRows'[n + 1] = row
      /\ \A k \in 1 .. n : producerRows'[k] = producerRows[k]
  BY <1>4 DEF ExecutorShape
<1>10. ExecutorShape'
  BY <1>1, <1>6, <1>7 DEF ExecutorShape, ProducerPcs
<1>11. StartIsOrderly'
  BY <1>1, <1>2, <1>3 DEF StartIsOrderly
<1>12. ProducerKnows'
  BY <1>1, <1>2, <1>6 DEF ProducerKnows
<1>13. ProducerCounts'
  <2>1. /\ producer.full \in Nat /\ producer.attempted = q /\ n = q /\ a + producer.full = q
        /\ q < Offered /\ Offered \in Nat
    BY <1>2, <1>3, <1>4, OfferedIsNat DEF ProducerCounts, ExecutorShape, ProducerStates
  <2>2. producer'.accepted + producer'.full = q + 1
    <3>1. outcome = "accepted" \/ outcome = "full"
      OBVIOUS
    <3>2. outcome = "accepted" => producer'.accepted = a + 1 /\ producer'.full = producer.full
      BY <1>6
    <3>3. outcome = "full" => producer'.accepted = a /\ producer'.full = producer.full + 1
      BY <1>6
    <3>. QED  BY <2>1, <3>1, <3>2, <3>3
  <2>. QED  BY <1>1, <1>2, <1>6, <1>7, <2>1, <2>2 DEF ProducerCounts
<1>14. ConsumerKnows' /\ ReportTells'
  BY <1>1, <1>2, <1>3, <1>6 DEF ConsumerKnows, ReportTells
<1>15. CancellationHasCause'
  BY <1>1, <1>3, <1>6 DEF CancellationHasCause
<1>16. \A o, s : IsEvent(producerRows, producer, prodPc, o, s) =>
                   IsEvent(producerRows', producer', prodPc', o, s)
  <2> SUFFICES ASSUME NEW o, NEW s, IsEvent(producerRows, producer, prodPc, o, s)
               PROVE  IsEvent(producerRows', producer', prodPc', o, s)
    OBVIOUS
  <2>1. CASE \E k \in 1 .. n : producerRows[k].ordinal = o /\ producerRows[k].sequence = s
    <3>1. PICK k \in 1 .. n : producerRows[k].ordinal = o /\ producerRows[k].sequence = s
      BY <2>1
    <3>2. k \in 1 .. Len(producerRows') /\ producerRows'[k] = producerRows[k]
      BY <1>7
    <3>. QED  BY <3>1, <3>2 DEF IsEvent
  <2>2. CASE prodPc = "accepted" /\ o = a /\ s = q
    <3>1. n + 1 \in 1 .. Len(producerRows')
      BY <1>7
    <3>2. producerRows'[n + 1].ordinal = o /\ producerRows'[n + 1].sequence = s
      BY <1>4, <1>5, <1>7, <2>2
    <3>. QED  BY <3>1, <3>2 DEF IsEvent
  <2>. QED  BY <1>3, <1>4, <2>1, <2>2 DEF IsEvent
<1>17. StreamsAgree'
  <2>1. \A k \in 1 .. n : producerRows[k].ordinal \in -1 .. a - 1
    BY <1>4 DEF StreamsAgree
  <2>2. \A k \in 1 .. n + 1 : k \in 1 .. n \/ k = n + 1
    OBVIOUS
  <2>3. \A k \in 1 .. n + 1 : producerRows'[k].ordinal \in -1 .. producer'.accepted - 1
    <3>1. PICK b \in Nat : b = producer'.accepted /\ (b = a \/ b = a + 1)
                           /\ (outcome = "accepted" => b = a + 1)
      BY <1>6
    <3>2. \A k \in 1 .. n : producerRows'[k].ordinal \in -1 .. b - 1
      <4>1. -1 .. a - 1 \subseteq -1 .. b - 1
        BY <3>1
      <4>2. \A k \in 1 .. n : producerRows'[k] = producerRows[k]
        BY <1>7
      <4>. QED  BY <2>1, <4>1, <4>2
    <3>3. row.ordinal \in -1 .. b - 1
      BY <1>5, <3>1
    <3>. QED  BY <1>7, <2>2, <3>1, <3>2, <3>3
  <2>4. ASSUME NEW k \in 1 .. n + 1, NEW l \in 1 .. n + 1,
               producerRows'[k].ordinal = producerRows'[l].ordinal,
               producerRows'[k].ordinal # -1
        PROVE  k = l
    <3>1. CASE k \in 1 .. n /\ l \in 1 .. n
      BY <1>4, <1>7, <2>4, <3>1 DEF StreamsAgree
    <3>2. CASE k = n + 1 /\ l \in 1 .. n
      BY <1>4, <1>5, <1>7, <2>1, <2>4, <3>2
    <3>3. CASE k \in 1 .. n /\ l = n + 1
      BY <1>4, <1>5, <1>7, <2>1, <2>4, <3>3
    <3>. QED  BY <2>2, <3>1, <3>2, <3>3
  <2>5. \A i \in 1 .. Len(consumerRows) :
          /\ consumerRows[i].ordinal = i - 1
          /\ IsEvent(producerRows', producer', prodPc', i - 1, consumerRows[i].sequence)
    BY <1>1, <1>16 DEF StreamsAgree
  <2>6. ASSUME consumer.failure = "none"
        PROVE  /\ consumer.consumed = Len(consumerRows)
               /\ Len(consumerRows) + Len(fifo) = producer'.accepted
               /\ \A k \in 1 .. Len(fifo) :
                    IsEvent(producerRows', producer', prodPc', Len(consumerRows) + k - 1,
                            fifo[k])
    <3>1. /\ consumer.consumed = Len(consumerRows)
          /\ Len(consumerRows) + Len(fifo) = a + Uncounted(prodPc)
          /\ \A k \in 1 .. Len(fifo) :
               IsEvent(producerRows, producer, prodPc, Len(consumerRows) + k - 1, fifo[k])
      BY <1>3, <1>4, <2>6 DEF StreamsAgree
    <3>2. producer'.accepted = a + Uncounted(prodPc)
      BY <1>4, <1>6 DEF Uncounted
    <3>. QED  BY <1>16, <3>1, <3>2
  <2>7. producer'.accepted + Uncounted(prodPc') = producer'.accepted
    BY <1>6 DEF Uncounted, ProducerStates
  <2>. QED  BY <1>1, <1>7, <2>3, <2>4, <2>5, <2>6, <2>7 DEF StreamsAgree
<1>. QED  BY <1>10, <1>11, <1>12, <1>13, <1>14, <1>15, <1>17

\* The attempt that ends without a row: its event, if it was queued, has the
\* ordinal that no row will ever carry.
LEMMA AttemptFailsKeepsInv ==
    ASSUME ExecutorIndInv, ProducerAttempt \/ ProducerAppend, AttemptFails
    PROVE  ExecutorIndInv'
<1> USE DEF ExecutorIndInv
<1>1. /\ args' = args /\ Offered' = Offered /\ consumerRows' = consumerRows
      /\ consPc' = consPc /\ consumer' = consumer /\ producerRows' = producerRows
      /\ ctlPc' = ctlPc /\ ctl' = ctl /\ report' = report /\ barrier' = barrier
      /\ cancellation' = cancellation /\ arrivalsFinished' = arrivalsFinished
      /\ producerFailed' = producerFailed /\ fifo' = fifo
  BY DEF ProducerAttempt, ProducerAppend, AttemptFails, prodFrame, consVars, ctlVars,
     flagVars, Offered, schedule
<1>2. /\ prodPc \in {"attempt", "accepted", "full"} /\ prodPc' = "fail"
      /\ ctlPc # "returned" /\ ctlPc # "enter"
  BY DEF ProducerAttempt, ProducerAppend, AttemptFails, ReportTells, StartIsOrderly
<1>3. /\ producer.failure = "none" /\ ~ producer.completed /\ ~ producer.published
      /\ barrier.released /\ ~ consumer.finished /\ ~ consumer.drained /\ ~ producerFailed
      /\ ctl.failure = "none"
  BY <1>2 DEF ProducerKnows, StartIsOrderly, ConsumerKnows
<1>4. PICK a \in Nat, q \in Nat : a = producer.accepted /\ q = producer.sequence
  BY DEF ExecutorShape, ProducerStates
<1>5. /\ producer' \in ProducerStates
      /\ producer'.accepted = a /\ producer'.full = producer.full
      /\ producer'.sequence = q /\ producer'.attempted = producer.attempted + 1
      /\ producer'.failure = "producer_attempt" /\ producer'.completed = FALSE
      /\ producer'.published = FALSE
  <2>1. producer \in ProducerStates /\ producer.attempted + 1 \in Nat
    BY DEF ExecutorShape, ProducerStates
  <2>2. producer' = [producer EXCEPT !.attempted = producer.attempted + 1,
                                     !.failure = "producer_attempt"]
    BY <2>1 DEF AttemptFails, ProducerStates
  <2>. QED  BY <1>3, <1>4, <2>1, <2>2 DEF ProducerStates, Reasons
<1>7. ExecutorShape'
  BY <1>1, <1>2, <1>5 DEF ExecutorShape, ProducerPcs
<1>8. StartIsOrderly'
  BY <1>1, <1>2, <1>3 DEF StartIsOrderly
<1>9. ProducerKnows'
  BY <1>1, <1>2, <1>3, <1>5 DEF ProducerKnows
<1>10. ProducerCounts'
  <2>1. producer.attempted = q /\ q < Offered
    BY <1>2, <1>3, <1>4 DEF ProducerCounts
  <2>. QED  BY <1>1, <1>2, <1>4, <1>5, <2>1 DEF ProducerCounts
<1>11. ConsumerKnows' /\ ReportTells'
  BY <1>1, <1>2, <1>3, <1>5 DEF ConsumerKnows, ReportTells
<1>12. CancellationHasCause'
  BY <1>1, <1>5 DEF CancellationHasCause
<1>13. \A o, s : IsEvent(producerRows, producer, prodPc, o, s) =>
                   IsEvent(producerRows', producer', prodPc', o, s)
  BY <1>1, <1>3, <1>4, <1>5 DEF IsEvent
<1>14. StreamsAgree'
  BY <1>1, <1>4, <1>5, <1>13 DEF StreamsAgree
<1>. QED  BY <1>7, <1>8, <1>9, <1>10, <1>11, <1>12, <1>14

\* The failure is visible, then the cancellation, then the publication.
LEMMA ProducerEndKeepsInv ==
    ASSUME ExecutorIndInv, ProducerFail \/ ProducerFailCancel \/ ProducerPublish
    PROVE  ExecutorIndInv'
<1> USE DEF ExecutorIndInv
<1>1. /\ args' = args /\ Offered' = Offered /\ fifo' = fifo
      /\ producerRows' = producerRows /\ consumerRows' = consumerRows
      /\ consPc' = consPc /\ consumer' = consumer
      /\ ctlPc' = ctlPc /\ ctl' = ctl /\ report' = report /\ barrier' = barrier
  BY DEF ProducerFail, ProducerFailCancel, ProducerPublish, prodFrame, consVars, ctlVars,
     Offered, schedule
<1>2. /\ prodPc \in {"fail", "fail_cancel", "publish"}
      /\ prodPc' \in {"fail_cancel", "publish", "exited"}
      /\ ctlPc # "returned" /\ ctlPc # "enter"
  BY DEF ProducerFail, ProducerFailCancel, ProducerPublish, ReportTells, StartIsOrderly
<1>3. /\ producer' \in ProducerStates
      /\ producer'.accepted = producer.accepted /\ producer'.sequence = producer.sequence
      /\ producer'.full = producer.full /\ producer'.attempted = producer.attempted
      /\ producer'.completed = producer.completed /\ producer'.failure = producer.failure
      /\ producer'.published = (producer.published \/ prodPc = "publish")
  <2>1. producer \in ProducerStates
    BY DEF ExecutorShape
  <2>2. \/ producer' = producer /\ prodPc # "publish"
        \/ producer' = [producer EXCEPT !.published = TRUE] /\ prodPc = "publish"
    BY DEF ProducerFail, ProducerFailCancel, ProducerPublish
  <2>. QED  BY <2>1, <2>2 DEF ProducerStates
<1>4. ExecutorShape'
  BY <1>1, <1>2, <1>3 DEF ExecutorShape, ProducerPcs, ProducerFail, ProducerFailCancel,
     ProducerPublish
<1>5. StartIsOrderly'
  BY <1>1, <1>2 DEF StartIsOrderly
<1>6. ProducerKnows'
  <2>1. CASE ProducerFail
    BY <1>1, <1>3, <2>1 DEF ProducerKnows, ProducerFail
  <2>2. CASE ProducerFailCancel
    BY <1>1, <1>3, <2>2 DEF ProducerKnows, ProducerFailCancel
  <2>3. CASE ProducerPublish
    BY <1>1, <1>3, <2>3 DEF ProducerKnows, ProducerPublish
  <2>. QED  BY <2>1, <2>2, <2>3
<1>7. ProducerCounts'
  BY <1>1, <1>2, <1>3 DEF ProducerCounts
<1>8. ConsumerKnows'
  BY <1>1, <1>2, <1>3 DEF ConsumerKnows, ProducerFail, ProducerFailCancel, ProducerPublish
<1>9. CancellationHasCause'
  BY <1>1, <1>3 DEF CancellationHasCause, ProducerKnows, ProducerFail, ProducerFailCancel,
     ProducerPublish
<1>10. ReportTells'
  BY <1>1, <1>2 DEF ReportTells
<1>11. StreamsAgree'
  BY <1>1, <1>2, <1>3, StreamsFrame
<1>. QED  BY <1>4, <1>5, <1>6, <1>7, <1>8, <1>9, <1>10, <1>11

-----------------------------------------------------------------------------
(* The consumer.                                                           *)

\* What the consumer shares with every one of its steps.
LEMMA ConsumerFrame ==
    ASSUME ExecutorIndInv, Consumer
    PROVE  /\ args' = args /\ Offered' = Offered /\ producerRows' = producerRows
           /\ prodPc' = prodPc /\ producer' = producer
           /\ ctlPc' = ctlPc /\ ctl' = ctl /\ report' = report
           /\ producerFailed' = producerFailed /\ arrivalsFinished' = arrivalsFinished
           /\ consPc \notin {"unborn", "exited"}
           /\ ctlPc # "returned" /\ ctlPc # "enter"
           /\ ProducerKnows' /\ ProducerCounts' /\ ReportTells'
<1>1. /\ args' = args /\ Offered' = Offered /\ producerRows' = producerRows
      /\ prodPc' = prodPc /\ producer' = producer
      /\ ctlPc' = ctlPc /\ ctl' = ctl /\ report' = report
      /\ producerFailed' = producerFailed /\ arrivalsFinished' = arrivalsFinished
  BY DEF Consumer, ConsumerArrive, ConsumerWait, ConsumerLoadFinished, ConsumerLoadFailed,
     ConsumerPoll, ConsumerClassify, ConsumerCancel, consFrame, prodVars, ctlVars,
     flagVars, Offered, schedule
<1>2. consPc \notin {"unborn", "exited"}
  BY DEF Consumer, ConsumerArrive, ConsumerWait, ConsumerLoadFinished, ConsumerLoadFailed,
     ConsumerPoll, ConsumerClassify, ConsumerCancel
<1>3. ctlPc # "returned" /\ ctlPc # "enter"
  BY <1>2 DEF ExecutorIndInv, ReportTells, StartIsOrderly
<1>4. ProducerKnows' /\ ProducerCounts'
  BY <1>1 DEF ExecutorIndInv, ProducerKnows, ProducerCounts
<1>. QED  BY <1>1, <1>2, <1>3, <1>4 DEF ReportTells

\* Every step but a poll.
LEMMA ConsumerStepKeepsInv ==
    ASSUME ExecutorIndInv,
           \/ ConsumerArrive \/ ConsumerWait \/ ConsumerLoadFinished
           \/ ConsumerLoadFailed \/ ConsumerClassify \/ ConsumerCancel
    PROVE  ExecutorIndInv'
<1> USE DEF ExecutorIndInv
<1>1. /\ args' = args /\ Offered' = Offered /\ producerRows' = producerRows
      /\ prodPc' = prodPc /\ producer' = producer
      /\ ctlPc' = ctlPc /\ ctl' = ctl /\ report' = report
      /\ producerFailed' = producerFailed /\ arrivalsFinished' = arrivalsFinished
      /\ consPc \notin {"unborn", "exited"}
      /\ ctlPc # "returned" /\ ctlPc # "enter"
      /\ ProducerKnows' /\ ProducerCounts' /\ ReportTells'
  BY ConsumerFrame DEF Consumer
<1>2. fifo' = fifo /\ consumerRows' = consumerRows
  BY DEF ConsumerArrive, ConsumerWait, ConsumerLoadFinished, ConsumerLoadFailed,
     ConsumerClassify, ConsumerCancel
<1>3. consumer \in ConsumerStates /\ barrier \in Barriers
  BY DEF ExecutorShape
<1>4. /\ barrier' \in Barriers /\ barrier'.released = barrier.released
      /\ barrier'.cancelled = barrier.cancelled
      /\ "producer" \in barrier'.arrived <=> "producer" \in barrier.arrived
      /\ "consumer" \in barrier'.arrived
  <2>1. CASE ConsumerArrive
    <3>1. barrier' = [barrier EXCEPT !.arrived = @ \cup {"consumer"}]
      BY <2>1 DEF ConsumerArrive, Arrive, StartIsOrderly
    <3>. QED  BY <1>3, <3>1 DEF Barriers
  <2>2. CASE ~ ConsumerArrive
    <3>1. barrier' = barrier /\ consPc # "arrive"
      BY <2>2 DEF ConsumerWait, ConsumerLoadFinished, ConsumerLoadFailed,
         ConsumerClassify, ConsumerCancel
    <3>. QED  BY <1>1, <1>3, <3>1 DEF StartIsOrderly
  <2>. QED  BY <2>1, <2>2
<1>5. /\ consumer' \in ConsumerStates
      /\ consumer'.consumed = consumer.consumed /\ consumer'.drained = consumer.drained
      /\ consumer'.failure # "cancelled"
      /\ consumer'.failure = "none" => consumer.failure = "none"
      /\ consumer'.finished => producer.published
      /\ \/ consPc' \in {"wait", "load_finished"} /\ consumer'.failure = "none"
         \/ consPc' = "load_failed" /\ consumer'.failure = "none" /\ consumer'.finished
         \/ consPc' = "poll" /\ consumer'.failure = "none"
              /\ (consumer'.finished => producer.completed)
         \/ consPc' = "cancel" /\ consumer'.failure # "none"
         \/ consPc' = "exited" /\ (consumer'.failure = "none" => producerFailed)
  <2>1. consumer.failure # "cancelled" /\ (consumer.finished => producer.published)
    BY DEF ConsumerKnows
  <2>2. CASE ConsumerArrive
    <3>1. consPc' = "wait" /\ consumer' = consumer /\ consPc = "arrive"
      BY <2>2 DEF ConsumerArrive, StartIsOrderly
    <3>2. consumer.failure = "none"
      BY <3>1 DEF ConsumerKnows
    <3>. QED  BY <1>3, <2>1, <3>1, <3>2
  <2>3. CASE ConsumerWait
    <3>1. consumer.failure = "none"
      BY <2>3 DEF ConsumerWait, ConsumerKnows
    <3>2. \/ consumer' = [consumer EXCEPT !.polls = @ + 1] /\ consPc' = "wait"
          \/ consumer' = [consumer EXCEPT !.polls = 0] /\ consPc' = "load_finished"
          \/ consumer' = [consumer EXCEPT !.failure = "start_watchdog",
                                          !.phase = "start_barrier"] /\ consPc' = "cancel"
      BY <2>3 DEF ConsumerWait, ConsumerFails, WorkerWait
    <3>3. CASE consumer' = [consumer EXCEPT !.polls = @ + 1] /\ consPc' = "wait"
      BY <1>3, <2>1, <3>1, <3>3 DEF ConsumerStates
    <3>4. CASE consumer' = [consumer EXCEPT !.polls = 0] /\ consPc' = "load_finished"
      BY <1>3, <2>1, <3>1, <3>4 DEF ConsumerStates
    <3>5. CASE consumer' = [consumer EXCEPT !.failure = "start_watchdog",
                                            !.phase = "start_barrier"] /\ consPc' = "cancel"
      BY <1>3, <2>1, <3>1, <3>5 DEF ConsumerStates, Reasons
    <3>. QED  BY <3>2, <3>3, <3>4, <3>5
  <2>4. CASE ConsumerLoadFinished
    <3>1. /\ consumer' = [consumer EXCEPT !.finished = arrivalsFinished]
          /\ consPc' = IF arrivalsFinished THEN "load_failed" ELSE "poll"
          /\ consPc = "load_finished"
      BY <2>4 DEF ConsumerLoadFinished
    <3>2. consumer.failure = "none" /\ arrivalsFinished \in BOOLEAN
      BY <3>1 DEF ConsumerKnows, ExecutorShape
    <3>3. arrivalsFinished => producer.published
      <4>1. prodPc # "unborn"
        BY <3>1 DEF StartIsOrderly
      <4>. QED  BY <4>1 DEF ProducerKnows
    <3>. QED  BY <1>3, <3>1, <3>2, <3>3 DEF ConsumerStates
  <2>5. CASE ConsumerLoadFailed
    <3>1. /\ consumer' = consumer /\ consPc = "load_failed"
          /\ consPc' = IF producerFailed THEN "exited" ELSE "poll"
      BY <2>5 DEF ConsumerLoadFailed
    <3>2. consumer.failure = "none" /\ producer.published
      BY <3>1 DEF ConsumerKnows
    <3>3. ~ producerFailed => producer.completed
      BY <3>2 DEF ProducerKnows
    <3>. QED  BY <1>3, <2>1, <3>1, <3>2, <3>3
  <2>6. CASE ConsumerClassify
    <3>1. PICK ph \in {"measurement", "drain"} :
            consumer' = [consumer EXCEPT !.failure = "consumer_poll", !.phase = ph]
      BY <2>6 DEF ConsumerClassify, ConsumerFails
    <3>2. consPc' = "cancel"
      BY <2>6 DEF ConsumerClassify, ConsumerFails
    <3>. QED  BY <1>3, <2>1, <3>1, <3>2 DEF ConsumerStates, Reasons
  <2>7. CASE ConsumerCancel
    <3>1. consumer' = consumer /\ consPc = "cancel" /\ consPc' = "exited"
      BY <2>7 DEF ConsumerCancel
    <3>2. consumer.failure # "none"
      BY <3>1 DEF ConsumerKnows
    <3>. QED  BY <1>3, <2>1, <3>1, <3>2
  <2>. QED  BY <2>2, <2>3, <2>4, <2>5, <2>6, <2>7
<1>6. ~ consumer.drained
  BY <1>1 DEF ConsumerKnows
<1>7. consPc' \in ConsumerPcs \ {"unborn", "arrive"}
  BY <1>5 DEF ConsumerPcs
<1>8. cancellation' \in BOOLEAN /\ (cancellation' => cancellation \/ consumer'.failure # "none")
  <2>1. CASE ConsumerCancel
    BY <2>1 DEF ConsumerCancel, ConsumerKnows
  <2>2. CASE ~ ConsumerCancel
    <3>1. cancellation' = cancellation
      BY <2>2 DEF ConsumerArrive, ConsumerWait, ConsumerLoadFinished, ConsumerLoadFailed,
         ConsumerClassify, flagVars
    <3>. QED  BY <3>1 DEF ExecutorShape
  <2>. QED  BY <2>1, <2>2
<1>9. ExecutorShape'
  BY <1>1, <1>2, <1>4, <1>5, <1>7, <1>8 DEF ExecutorShape
<1>10. StartIsOrderly'
  BY <1>1, <1>4, <1>7 DEF StartIsOrderly
<1>11. ConsumerKnows'
  BY <1>1, <1>2, <1>5, <1>6, <1>7 DEF ConsumerKnows
<1>12. CancellationHasCause'
  BY <1>1, <1>5, <1>8 DEF CancellationHasCause
<1>13. StreamsAgree'
  BY <1>1, <1>2, <1>5, StreamsFrame
<1>. QED  BY <1>1, <1>9, <1>10, <1>11, <1>12, <1>13

\* What the loop makes of a poll: it goes on, fails, or has drained the queue
\* of a producer whose end it had seen.
LEMMA AfterPollFacts ==
    ASSUME ExecutorIndInv, consPc = "poll", NEW status \in {"item", "empty", "failure"},
           AfterPoll(status)
    PROVE  /\ consumer' \in ConsumerStates
           /\ consumer'.failure # "cancelled" /\ consumer'.finished = consumer.finished
           /\ \/ /\ consPc' = "load_finished" /\ status # "failure"
                 /\ consumer'.failure = "none" /\ ~ consumer'.drained
                 /\ consumer'.consumed =
                      IF status = "item" THEN consumer.consumed + 1 ELSE consumer.consumed
              \/ /\ consPc' \in {"cancel", "classify"}
                 /\ consumer'.failure # "none" /\ ~ consumer'.drained
              \/ /\ consPc' = "exited" /\ status = "empty" /\ consumer.finished
                 /\ consumer'.failure = "none" /\ consumer'.drained
                 /\ consumer'.consumed = consumer.consumed
<1>1. consumer \in ConsumerStates /\ consumer.failure = "none" /\ ~ consumer.drained
  BY DEF ExecutorIndInv, ExecutorShape, ConsumerKnows
<1>2. PICK drainPolls \in Nat :
        drainPolls = consumer.drainPolls + (IF consumer.finished THEN 1 ELSE 0)
  <2>1. consumer.drainPolls \in Nat
    BY <1>1 DEF ConsumerStates
  <2>. QED  BY <2>1
<1>3. \/ /\ consumer' = [consumer EXCEPT !.failure = "drain_watchdog", !.phase = "drain"]
         /\ consPc' = "cancel"
      \/ /\ status = "item" /\ consPc' = "load_finished"
         /\ consumer' = [consumer EXCEPT !.consumed = @ + 1, !.polls = 0,
                                         !.drainPolls = drainPolls]
      \/ /\ consumer' = [consumer EXCEPT !.failure = "consumer_poll"]
         /\ consPc' = "classify"
      \/ /\ status = "empty" /\ consumer.finished /\ consPc' = "exited"
         /\ consumer' = [consumer EXCEPT !.drained = TRUE]
      \/ /\ consumer' = [consumer EXCEPT !.failure = "consumer_wait_watchdog",
                                         !.phase = "measurement"]
         /\ consPc' = "cancel"
      \/ /\ status = "empty" /\ consPc' = "load_finished"
         /\ consumer' = [consumer EXCEPT !.polls = @ + 1]
  BY <1>2 DEF AfterPoll, ConsumerFails
<1>4. CASE /\ consumer' = [consumer EXCEPT !.failure = "drain_watchdog", !.phase = "drain"]
           /\ consPc' = "cancel"
  BY <1>1, <1>4 DEF ConsumerStates, Reasons
<1>5. CASE /\ status = "item" /\ consPc' = "load_finished"
           /\ consumer' = [consumer EXCEPT !.consumed = @ + 1, !.polls = 0,
                                           !.drainPolls = drainPolls]
  <2>1. consumer.consumed + 1 \in Nat /\ 0 \in Nat
    BY <1>1 DEF ConsumerStates
  <2>2. consumer' = [consumer EXCEPT !.consumed = consumer.consumed + 1, !.polls = 0,
                                     !.drainPolls = drainPolls]
    BY <1>5
  <2>3. /\ consumer' \in ConsumerStates /\ consumer'.consumed = consumer.consumed + 1
        /\ consumer'.failure = consumer.failure /\ consumer'.drained = consumer.drained
        /\ consumer'.finished = consumer.finished
    BY <1>1, <1>2, <2>1, <2>2 DEF ConsumerStates
  <2>. QED  BY <1>1, <1>5, <2>3
<1>6. CASE /\ consumer' = [consumer EXCEPT !.failure = "consumer_poll"]
           /\ consPc' = "classify"
  BY <1>1, <1>6 DEF ConsumerStates, Reasons
<1>7. CASE /\ status = "empty" /\ consumer.finished /\ consPc' = "exited"
           /\ consumer' = [consumer EXCEPT !.drained = TRUE]
  BY <1>1, <1>7 DEF ConsumerStates
<1>8. CASE /\ consumer' = [consumer EXCEPT !.failure = "consumer_wait_watchdog",
                                           !.phase = "measurement"]
           /\ consPc' = "cancel"
  BY <1>1, <1>8 DEF ConsumerStates, Reasons
<1>9. CASE /\ status = "empty" /\ consPc' = "load_finished"
           /\ consumer' = [consumer EXCEPT !.polls = @ + 1]
  BY <1>1, <1>9 DEF ConsumerStates
<1>. QED  BY <1>3, <1>4, <1>5, <1>6, <1>7, <1>8, <1>9

\* A poll: the row of an item carries the ordinal of the event at the head.
LEMMA ConsumerPollKeepsInv ==
    ASSUME ExecutorIndInv, ConsumerPoll
    PROVE  ExecutorIndInv'
<1> USE DEF ExecutorIndInv
<1>1. /\ args' = args /\ Offered' = Offered /\ producerRows' = producerRows
      /\ prodPc' = prodPc /\ producer' = producer
      /\ ctlPc' = ctlPc /\ ctl' = ctl /\ report' = report
      /\ producerFailed' = producerFailed /\ arrivalsFinished' = arrivalsFinished
      /\ ctlPc # "returned" /\ ctlPc # "enter"
      /\ ProducerKnows' /\ ProducerCounts' /\ ReportTells'
  BY ConsumerFrame DEF Consumer
<1>2. consPc = "poll" /\ barrier' = barrier /\ cancellation' = cancellation
  BY DEF ConsumerPoll, flagVars
<1>3. /\ consumer.failure = "none" /\ ~ consumer.drained
      /\ consumer.finished => producer.completed /\ producer.published
  BY <1>2 DEF ConsumerKnows
<1>4. PICK q \in Seq(Nat), rows \in Seq(ConsumerRow), c \in Nat :
        q = fifo /\ rows = consumerRows /\ c = Len(rows) /\ c = consumer.consumed
  BY <1>3 DEF ExecutorShape, StreamsAgree
<1>5. /\ \A i \in 1 .. c : /\ rows[i].ordinal = i - 1
                           /\ IsEvent(producerRows', producer', prodPc', i - 1, rows[i].sequence)
      /\ producer'.failure # "producer_attempt" =>
           c + Len(q) = producer'.accepted + Uncounted(prodPc')
      /\ \A k \in 1 .. Len(q) : IsEvent(producerRows', producer', prodPc', c + k - 1, q[k])
      /\ Len(q) <= Capacity
  BY <1>1, <1>3, <1>4 DEF StreamsAgree, ExecutorShape
<1>6. PICK status \in {"item", "empty", "failure"} :
        /\ AfterPoll(status)
        /\ status = "item" => /\ q # << >> /\ fifo' = Tail(q)
                              /\ consumerRows' = Append(rows, [ordinal |-> c, sequence |-> Head(q)])
        /\ status = "empty" => q = << >> /\ fifo' = q /\ consumerRows' = rows
        /\ status = "failure" => /\ fifo' = q \/ (q # << >> /\ fifo' = Tail(q))
                                 /\ consumerRows' = rows
  BY <1>4 DEF ConsumerPoll
<1>7. /\ consumer' \in ConsumerStates
      /\ consumer'.failure # "cancelled" /\ consumer'.finished = consumer.finished
      /\ \/ /\ consPc' = "load_finished" /\ status # "failure"
            /\ consumer'.failure = "none" /\ ~ consumer'.drained
            /\ consumer'.consumed = IF status = "item" THEN c + 1 ELSE c
         \/ /\ consPc' \in {"cancel", "classify"}
            /\ consumer'.failure # "none" /\ ~ consumer'.drained
         \/ /\ consPc' = "exited" /\ status = "empty" /\ consumer.finished
            /\ consumer'.failure = "none" /\ consumer'.drained
            /\ consumer'.consumed = c
  BY <1>2, <1>4, <1>6, AfterPollFacts
<1>8. q # << >> => /\ Tail(q) \in Seq(Nat) /\ Len(Tail(q)) = Len(q) - 1
                   /\ Len(q) \in Nat \ {0}
                   /\ Head(q) = q[1] /\ Head(q) \in Nat
                   /\ \A k \in 1 .. Len(q) - 1 : Tail(q)[k] = q[k + 1]
  OBVIOUS
<1>9. fifo' \in Seq(Nat) /\ Len(fifo') <= Capacity
  <2>1. fifo' = q \/ (q # << >> /\ fifo' = Tail(q))
    BY <1>6
  <2>2. Len(q) \in Nat /\ Len(q) <= Capacity /\ Capacity \in Nat
    BY <1>5, ExecutorAssumption
  <2>3. q # << >> => Tail(q) \in Seq(Nat) /\ Len(Tail(q)) <= Capacity
    BY <1>8, <2>2
  <2>. QED  BY <2>1, <2>2, <2>3
<1>10. PICK row : row = [ordinal |-> c, sequence |-> Head(q)]
  OBVIOUS
<1>11. q # << >> => row \in ConsumerRow /\ row.ordinal = c /\ row.sequence = q[1]
  BY <1>4, <1>8, <1>10 DEF ConsumerRow
<1>12. consumerRows' \in Seq(ConsumerRow)
  <2>1. consumerRows' = rows \/ (q # << >> /\ consumerRows' = Append(rows, row))
    BY <1>6, <1>10
  <2>2. q # << >> => Append(rows, row) \in Seq(ConsumerRow)
    BY <1>11
  <2>. QED  BY <2>1, <2>2
<1>13. ExecutorShape'
  BY <1>1, <1>2, <1>7, <1>9, <1>12 DEF ExecutorShape, ConsumerPcs
<1>14. StartIsOrderly'
  BY <1>1, <1>2, <1>7 DEF StartIsOrderly
<1>15. ConsumerKnows'
  BY <1>1, <1>3, <1>6, <1>7 DEF ConsumerKnows
<1>16. CancellationHasCause'
  BY <1>1, <1>2, <1>3 DEF CancellationHasCause
<1>17. StreamsAgree'
  <2>1. /\ \A k \in 1 .. Len(producerRows') :
             producerRows'[k].ordinal \in -1 .. producer'.accepted - 1
        /\ \A k, l \in 1 .. Len(producerRows') :
             /\ producerRows'[k].ordinal = producerRows'[l].ordinal
             /\ producerRows'[k].ordinal # -1
             => k = l
    BY <1>1 DEF StreamsAgree
  <2>2. CASE status = "item"
    <3>1. /\ consumerRows' = Append(rows, row) /\ q # << >> /\ fifo' = Tail(q)
          /\ Len(fifo') = Len(q) - 1 /\ Len(q) \in Nat \ {0}
      BY <1>6, <1>8, <1>10, <2>2
    <3>2. /\ Len(consumerRows') = c + 1 /\ consumerRows'[c + 1] = row
          /\ \A i \in 1 .. c : consumerRows'[i] = rows[i]
      <4>1. row \in ConsumerRow
        BY <1>11, <3>1
      <4>2. /\ Len(Append(rows, row)) = Len(rows) + 1
            /\ Append(rows, row)[Len(rows) + 1] = row
            /\ \A i \in 1 .. Len(rows) : Append(rows, row)[i] = rows[i]
        BY <4>1
      <4>. QED  BY <1>4, <3>1, <4>2
    <3>3. ASSUME NEW i \in 1 .. c + 1
          PROVE  /\ consumerRows'[i].ordinal = i - 1
                 /\ IsEvent(producerRows', producer', prodPc', i - 1, consumerRows'[i].sequence)
      <4>1. CASE i \in 1 .. c
        BY <1>5, <3>2, <4>1
      <4>2. CASE i = c + 1
        <5>1. IsEvent(producerRows', producer', prodPc', c + 1 - 1, q[1])
          BY <1>5, <3>1
        <5>. QED  BY <1>11, <3>1, <3>2, <4>2, <5>1
      <4>. QED  BY <1>4, <4>1, <4>2
    <3>4. producer'.failure # "producer_attempt" =>
            c + 1 + Len(fifo') = producer'.accepted + Uncounted(prodPc')
      BY <1>4, <1>5, <3>1
    <3>5. ASSUME NEW k \in 1 .. Len(fifo')
          PROVE  IsEvent(producerRows', producer', prodPc', c + 1 + k - 1, fifo'[k])
      <4>1. k + 1 \in 1 .. Len(q) /\ fifo'[k] = q[k + 1]
        BY <1>8, <3>1
      <4>2. IsEvent(producerRows', producer', prodPc', c + (k + 1) - 1, q[k + 1])
        BY <1>5, <4>1
      <4>3. c + (k + 1) - 1 = c + 1 + k - 1
        BY <1>4, <4>1
      <4>. QED  BY <4>1, <4>2, <4>3
    <3>6. consumer'.failure = "none" => consumer'.consumed = c + 1
      BY <1>7, <2>2
    <3>. QED  BY <2>1, <3>2, <3>3, <3>4, <3>5, <3>6 DEF StreamsAgree
  <2>3. CASE status = "empty"
    <3>1. consumerRows' = rows /\ fifo' = q
      BY <1>6, <2>3
    <3>2. consumer'.failure = "none" => consumer'.consumed = c
      BY <1>7, <2>3
    <3>. QED  BY <1>4, <1>5, <2>1, <3>1, <3>2 DEF StreamsAgree
  <2>4. CASE status = "failure"
    <3>1. consumerRows' = rows /\ consumer'.failure # "none"
      BY <1>6, <1>7, <2>4
    <3>. QED  BY <1>4, <1>5, <2>1, <3>1 DEF StreamsAgree
  <2>. QED  BY <2>2, <2>3, <2>4
<1>. QED  BY <1>1, <1>13, <1>14, <1>15, <1>16, <1>17

-----------------------------------------------------------------------------
(* The controller.                                                         *)

LEMMA ControllerKeepsInv ==
    ASSUME ExecutorIndInv, Controller
    PROVE  ExecutorIndInv'
<1> USE DEF ExecutorIndInv
<1>1. /\ args' = args /\ Offered' = Offered /\ fifo' = fifo
      /\ producerRows' = producerRows /\ consumerRows' = consumerRows
      /\ producer' = producer /\ consumer' = consumer /\ producerFailed' = producerFailed
  BY DEF Controller, RefuseArguments, StartThreads, ControllerWait, ReleaseWithOrigin,
     CancelStart, CancelBarrier, JoinAndReport, ctlFrame, queueVars, flagVars, Offered,
     schedule
<1>2. StreamsAgree'
  <2>1. prodPc = "accepted" <=> prodPc' = "accepted"
    BY DEF Controller, RefuseArguments, StartThreads, ControllerWait, ReleaseWithOrigin,
       CancelStart, CancelBarrier, JoinAndReport, StartIsOrderly
  <2>. QED  BY <1>1, <2>1, StreamsFrame
<1>3. CASE RefuseArguments
  <2>1. /\ ctlPc = "enter" /\ ctlPc' = "returned" /\ ctl' = ctl /\ barrier' = barrier
        /\ cancellation' = cancellation /\ arrivalsFinished' = arrivalsFinished
        /\ prodPc' = prodPc /\ consPc' = consPc
    BY <1>3 DEF RefuseArguments, flagVars
  <2>2. report'.phase = "pre_run"
    BY <1>3 DEF RefuseArguments, failure_report
  <2>3. ExecutorShape'
    BY <1>1, <2>1 DEF ExecutorShape, ControllerPcs
  <2>4. StartIsOrderly' /\ ReportTells'
    BY <2>1, <2>2 DEF StartIsOrderly, ReportTells
  <2>5. ProducerKnows' /\ ProducerCounts' /\ ConsumerKnows' /\ CancellationHasCause'
    BY <1>1, <2>1 DEF ProducerKnows, ProducerCounts, ConsumerKnows, CancellationHasCause
  <2>. QED  BY <1>2, <2>3, <2>4, <2>5
<1>4. CASE StartThreads
  <2>1. /\ ctlPc = "enter" /\ ctlPc' = "wait" /\ ctl' = ctl /\ barrier' = barrier
        /\ cancellation' = cancellation /\ arrivalsFinished' = FALSE
        /\ prodPc' = "arrive" /\ consPc' = "arrive"
    BY <1>4 DEF StartThreads
  <2>2. prodPc = "unborn" /\ consPc = "unborn"
    BY <2>1 DEF StartIsOrderly
  <2>3. ExecutorShape'
    BY <1>1, <2>1 DEF ExecutorShape, ControllerPcs, ProducerPcs, ConsumerPcs
  <2>4. StartIsOrderly' /\ ReportTells'
    BY <2>1, <2>2 DEF StartIsOrderly, ReportTells
  <2>5. ProducerKnows' /\ ProducerCounts'
    BY <1>1, <2>1, <2>2 DEF ProducerKnows, ProducerCounts
  <2>6. ConsumerKnows' /\ CancellationHasCause'
    BY <1>1, <2>1, <2>2 DEF ConsumerKnows, CancellationHasCause
  <2>. QED  BY <1>2, <2>3, <2>4, <2>5, <2>6
<1>5. CASE ControllerWait \/ ReleaseWithOrigin \/ CancelStart \/ CancelBarrier
  <2>1. /\ prodPc' = prodPc /\ consPc' = consPc /\ arrivalsFinished' = arrivalsFinished
        /\ ctlPc \in {"wait", "origin", "cancel", "cancel_barrier"} /\ ctlPc' # "returned"
        /\ ctlPc' # "enter" /\ ctlPc' \in ControllerPcs
    BY <1>5 DEF ControllerWait, ReleaseWithOrigin, CancelStart, CancelBarrier, flagVars,
       ControllerPcs
  <2>2. ~ barrier.released /\ barrier \in Barriers
        /\ ctl \in [polls : Nat, failure : {"none", "start_watchdog", "clock_read"}]
    BY <2>1 DEF StartIsOrderly, ExecutorShape
  <2>3. /\ ctl' \in [polls : Nat, failure : {"none", "start_watchdog", "clock_read"}]
        /\ ctl.failure # "none" => ctl'.failure # "none"
        /\ ctlPc' \in {"wait", "origin"} => ctl'.failure = "none"
        /\ ctlPc' \in {"cancel", "cancel_barrier"} => ctl'.failure # "none"
        /\ barrier' \in Barriers /\ barrier'.arrived = barrier.arrived
        /\ barrier'.cancelled => ctl'.failure # "none"
        /\ barrier'.released => ctl'.failure = "none" /\ ctlPc' = "join"
        /\ cancellation' \in BOOLEAN
        /\ cancellation' => cancellation \/ ctl'.failure # "none"
    <3>1. CASE ControllerWait
      <4>1. /\ barrier' = barrier /\ cancellation' = cancellation /\ ctlPc = "wait"
            /\ ctl.failure = "none"
        BY <3>1 DEF ControllerWait, flagVars, StartIsOrderly
      <4>2. PICK expired \in BOOLEAN :
              /\ ctl' = [polls |-> IF expired THEN ctl.polls ELSE ctl.polls + 1,
                         failure |-> IF expired THEN "start_watchdog" ELSE "none"]
              /\ ctlPc' \in IF expired THEN {"cancel"} ELSE {"origin", "wait"}
        BY <3>1 DEF ControllerWait
      <4>3. ~ barrier.cancelled /\ cancellation \in BOOLEAN
        BY <4>1 DEF StartIsOrderly, ExecutorShape
      <4>4. /\ ctl' \in [polls : Nat, failure : {"none", "start_watchdog", "clock_read"}]
            /\ ctl'.failure = IF expired THEN "start_watchdog" ELSE "none"
        BY <2>2, <4>2
      <4>. QED  BY <2>2, <4>1, <4>2, <4>3, <4>4
    <3>2. CASE ReleaseWithOrigin
      <4>1. cancellation' = cancellation /\ ctlPc = "origin" /\ ctl.failure = "none"
            /\ cancellation \in BOOLEAN /\ ~ barrier.cancelled
        BY <3>2 DEF ReleaseWithOrigin, flagVars, StartIsOrderly, ExecutorShape
      <4>2. \/ /\ barrier' = barrier /\ ctlPc' = "cancel"
               /\ \E r \in {"start_watchdog", "clock_read"} :
                    ctl' = [ctl EXCEPT !.failure = r]
            \/ /\ ctl' = ctl /\ ctlPc' = "join"
               /\ \E t \in Origins :
                    barrier' = [barrier EXCEPT !.origin = t, !.released = TRUE]
        BY <3>2 DEF ReleaseWithOrigin
      <4>3. CASE /\ barrier' = barrier /\ ctlPc' = "cancel"
                 /\ \E r \in {"start_watchdog", "clock_read"} :
                      ctl' = [ctl EXCEPT !.failure = r]
        BY <2>2, <4>1, <4>3
      <4>4. CASE /\ ctl' = ctl /\ ctlPc' = "join"
                 /\ \E t \in Origins :
                      barrier' = [barrier EXCEPT !.origin = t, !.released = TRUE]
        <5>1. PICK t \in Origins : barrier' = [barrier EXCEPT !.origin = t, !.released = TRUE]
          BY <4>4
        <5>2. t \in 0 .. MaxTick
          BY ExecutorAssumption
        <5>3. /\ barrier' \in Barriers /\ barrier'.arrived = barrier.arrived
              /\ barrier'.cancelled = barrier.cancelled
          BY <2>2, <5>1, <5>2 DEF Barriers
        <5>. QED  BY <2>2, <4>1, <4>4, <5>3
      <4>. QED  BY <4>2, <4>3, <4>4
    <3>3. CASE CancelStart
      BY <2>2, <3>3 DEF CancelStart, StartIsOrderly
    <3>4. CASE CancelBarrier
      <4>1. /\ barrier' = [barrier EXCEPT !.cancelled = TRUE] /\ ctl' = ctl
            /\ ctlPc' = "join" /\ cancellation' = cancellation /\ ctl.failure # "none"
            /\ cancellation \in BOOLEAN
        BY <3>4 DEF CancelBarrier, flagVars, StartIsOrderly, ExecutorShape
      <4>2. /\ barrier' \in Barriers /\ barrier'.arrived = barrier.arrived
            /\ barrier'.released = barrier.released
        BY <2>2, <4>1 DEF Barriers
      <4>. QED  BY <2>2, <4>1, <4>2
    <3>. QED  BY <1>5, <3>1, <3>2, <3>3, <3>4
  <2>4. ExecutorShape'
    BY <1>1, <2>1, <2>3 DEF ExecutorShape
  <2>5. StartIsOrderly'
    <3>1. prodPc \notin {"next", "due", "attempt", "accepted", "full"}
      BY <2>2 DEF StartIsOrderly
    <3>. QED  BY <2>1, <2>3, <3>1 DEF StartIsOrderly
  <2>6. ProducerKnows' /\ ProducerCounts' /\ ConsumerKnows'
    BY <1>1, <2>1 DEF ProducerKnows, ProducerCounts, ConsumerKnows
  <2>7. CancellationHasCause' /\ ReportTells'
    BY <1>1, <2>1, <2>3 DEF CancellationHasCause, ReportTells
  <2>. QED  BY <1>2, <2>4, <2>5, <2>6, <2>7
<1>6. CASE JoinAndReport
  <2>1. /\ ctlPc = "join" /\ ctlPc' = "returned" /\ ctl' = ctl /\ barrier' = barrier
        /\ cancellation' = cancellation /\ arrivalsFinished' = arrivalsFinished
        /\ prodPc = "exited" /\ consPc = "exited" /\ prodPc' = prodPc /\ consPc' = consPc
    BY <1>6 DEF JoinAndReport, flagVars
  <2>2. report' = IF ctl'.failure = "none" THEN RunReport'
                  ELSE failure_report("start_barrier", ctl'.failure, TRUE)
    BY <1>1, <1>6, <2>1 DEF JoinAndReport, RunReport, ProducerDecides
  <2>3. ExecutorShape'
    BY <1>1, <2>1 DEF ExecutorShape, ControllerPcs
  <2>4. StartIsOrderly' /\ ReportTells'
    BY <2>1, <2>2 DEF StartIsOrderly, ReportTells, failure_report
  <2>5. ProducerKnows' /\ ProducerCounts' /\ ConsumerKnows' /\ CancellationHasCause'
    BY <1>1, <2>1 DEF ProducerKnows, ProducerCounts, ConsumerKnows, CancellationHasCause
  <2>. QED  BY <1>2, <2>3, <2>4, <2>5
<1>. QED  BY <1>3, <1>4, <1>5, <1>6 DEF Controller

-----------------------------------------------------------------------------
\* Every step of the three threads keeps the invariant.
THEOREM ExecutorInvariant == Spec => []ExecutorIndInv
<1>1. ExecutorIndInv /\ [Next]_vars => ExecutorIndInv'
  <2> SUFFICES ASSUME ExecutorIndInv, [Next]_vars PROVE ExecutorIndInv'
    OBVIOUS
  <2>1. CASE UNCHANGED vars
    <3>1. /\ args' = args /\ barrier' = barrier /\ cancellation' = cancellation
          /\ producerFailed' = producerFailed /\ arrivalsFinished' = arrivalsFinished
          /\ fifo' = fifo /\ producerRows' = producerRows /\ consumerRows' = consumerRows
          /\ prodPc' = prodPc /\ producer' = producer /\ consPc' = consPc
          /\ consumer' = consumer /\ ctlPc' = ctlPc /\ ctl' = ctl /\ report' = report
      BY <2>1 DEF vars, flagVars, queueVars, prodVars, consVars, ctlVars
    <3>2. StreamsAgree'
      BY <3>1, StreamsFrame DEF ExecutorIndInv
    <3>3. ExecutorShape' /\ StartIsOrderly'
      BY <3>1 DEF ExecutorIndInv, ExecutorShape, StartIsOrderly
    <3>4. ProducerKnows' /\ ProducerCounts'
      BY <3>1 DEF ExecutorIndInv, ProducerKnows, ProducerCounts, Offered, schedule
    <3>5. ConsumerKnows' /\ CancellationHasCause' /\ ReportTells'
      BY <3>1 DEF ExecutorIndInv, ConsumerKnows, CancellationHasCause, ReportTells,
         RunReport, ProducerDecides
    <3>. QED  BY <3>2, <3>3, <3>4, <3>5 DEF ExecutorIndInv
  <2>2. CASE Controller
    BY <2>2, ControllerKeepsInv
  <2>3. CASE Producer
    <3>1. ProducerAttempt => prodPc' \in {"accepted", "full"} \/ AttemptFails
      BY DEF ProducerAttempt
    <3>2. ProducerAppend => prodPc' = "next" \/ AttemptFails
      BY DEF ProducerAppend
    <3>. QED  BY <2>3, <3>1, <3>2, ProducerStartKeepsInv, ProducerLoopKeepsInv,
                 EnqueueKeepsInv, AppendRowKeepsInv, AttemptFailsKeepsInv,
                 ProducerEndKeepsInv DEF Producer
  <2>4. CASE Consumer
    BY <2>4, ConsumerStepKeepsInv, ConsumerPollKeepsInv DEF Consumer
  <2>5. CASE Returned
    BY <2>1, <2>5 DEF Returned
  <2>. QED  BY <2>1, <2>2, <2>3, <2>4, <2>5 DEF Next
<1>. QED  BY <1>1, InitKeepsInv, PTL DEF Spec

\* Rows of the two streams with the same ordinal are about the same arrival,
\* whatever fails and in whatever order the threads run; a consumer row
\* without a partner is the event of the attempt whose row the producer has
\* not appended yet, or has lost (capture_backend.hpp).
THEOREM RowsJoin == Spec => []ExecutorInv
<1>1. ExecutorIndInv => ExecutorInv
  <2> SUFFICES ASSUME ExecutorIndInv PROVE ExecutorInv
    OBVIOUS
  <2> USE DEF ExecutorIndInv
  <2>1. ExecutorTypeOK
    <3>1. Offered \in Nat
      BY OfferedIsNat
    <3>2. /\ producer.failure \in Reasons /\ producer.sequence \in Nat
          /\ producer.attempted \in Nat /\ producer.polls \in Nat
      BY DEF ExecutorShape, ProducerStates
    <3>3. consumer.failure \in Reasons /\ consumer.polls \in Nat
      BY DEF ExecutorShape, ConsumerStates
    <3>4. producer.sequence <= Offered /\ producer.attempted <= Offered
      BY <3>1, <3>2 DEF ProducerCounts
    <3>. QED  BY <3>1, <3>2, <3>3, <3>4 DEF ExecutorShape, Barriers, ExecutorTypeOK
  <2>2. RowsJoinByOrdinal
    <3> SUFFICES ASSUME NEW i \in 1 .. Len(consumerRows)
                 PROVE  /\ consumerRows[i].ordinal = i - 1
                        /\ \A k \in 1 .. Len(producerRows) :
                             producerRows[k].ordinal = i - 1 =>
                               producerRows[k].sequence = consumerRows[i].sequence
                        /\ (\A k \in 1 .. Len(producerRows) :
                              producerRows[k].ordinal # i - 1) =>
                             /\ prodPc = "accepted" \/ producer.failure = "producer_attempt"
                             /\ i - 1 = producer.accepted
                             /\ consumerRows[i].sequence = producer.sequence
      BY DEF RowsJoinByOrdinal
    <3>1. /\ consumerRows[i].ordinal = i - 1
          /\ IsEvent(producerRows, producer, prodPc, i - 1, consumerRows[i].sequence)
      BY DEF StreamsAgree
    <3>2. ASSUME NEW k \in 1 .. Len(producerRows), producerRows[k].ordinal = i - 1
          PROVE  producerRows[k].sequence = consumerRows[i].sequence
      <4>1. i - 1 # producer.accepted /\ i - 1 # -1
        <5>1. producerRows[k].ordinal \in -1 .. producer.accepted - 1
          BY DEF StreamsAgree
        <5>2. producer.accepted \in Nat
          BY DEF ExecutorShape, ProducerStates
        <5>. QED  BY <3>2, <5>1, <5>2
      <4>2. PICK l \in 1 .. Len(producerRows) :
              /\ producerRows[l].ordinal = i - 1
              /\ producerRows[l].sequence = consumerRows[i].sequence
        BY <3>1, <4>1 DEF IsEvent
      <4>3. k = l
        BY <3>2, <4>1, <4>2 DEF StreamsAgree
      <4>. QED  BY <4>2, <4>3
    <3>3. ASSUME \A k \in 1 .. Len(producerRows) : producerRows[k].ordinal # i - 1
          PROVE  /\ prodPc = "accepted" \/ producer.failure = "producer_attempt"
                 /\ i - 1 = producer.accepted
                 /\ consumerRows[i].sequence = producer.sequence
      BY <3>1, <3>3 DEF IsEvent
    <3>. QED  BY <3>1, <3>2, <3>3
  <2>. QED  BY <2>1, <2>2 DEF ExecutorInv
<1>. QED  BY <1>1, ExecutorInvariant, PTL

\* The consumer claims a drained queue only when the producer has attempted
\* its whole schedule and nothing is left in the queue (execute_measurement).
THEOREM DrainIsComplete == Spec => []DrainedMeansComplete
<1>1. ExecutorIndInv => DrainedMeansComplete
  BY DEF ExecutorIndInv, ConsumerKnows, DrainedMeansComplete
<1>. QED  BY <1>1, ExecutorInvariant, PTL

\* A run reported without failure is a whole run (execute_measurement): every
\* arrival attempted once, every accepted event consumed, a row for each.
THEOREM SuccessIsWhole == Spec => []SuccessIsWholeRun
<1>1. ExecutorIndInv => SuccessIsWholeRun
  <2> SUFFICES ASSUME ExecutorIndInv, IsReported, report.reason = "none"
               PROVE  /\ report.completed /\ report.drained /\ report.published
                      /\ report.attempted = Offered
                      /\ report.attempted = report.accepted + report.full
                      /\ report.consumed = report.accepted
                      /\ Len(producerRows) = Offered
                      /\ Len(consumerRows) = report.accepted
                      /\ fifo = << >>
    BY DEF SuccessIsWholeRun
  <2> USE DEF ExecutorIndInv
  <2>1. /\ prodPc = "exited" /\ consPc = "exited"
        /\ report = IF ctl.failure = "none" THEN RunReport
                    ELSE failure_report("start_barrier", ctl.failure, TRUE)
    BY DEF IsReported, ReportTells
  <2>2. ctl.failure = "none"
    BY <2>1 DEF failure_report
  <2>3. /\ report.reason = (IF ProducerDecides THEN producer.failure ELSE consumer.failure)
        /\ report.attempted = producer.attempted /\ report.accepted = producer.accepted
        /\ report.full = producer.full /\ report.consumed = consumer.consumed
        /\ report.completed = producer.completed /\ report.drained = consumer.drained
        /\ report.published = producer.published
    BY <2>1, <2>2 DEF RunReport
  <2>4. consumer.failure = "none" /\ producer.failure = "none"
    BY <2>3 DEF ProducerDecides
  <2>5. producer.completed /\ producer.published /\ ~ producerFailed
    BY <2>1, <2>4 DEF ProducerKnows
  <2>6. consumer.drained /\ fifo = << >>
    BY <2>1, <2>4, <2>5 DEF ConsumerKnows
  <2>7. /\ producer.sequence = Offered /\ producer.attempted = Offered
        /\ Len(producerRows) = Offered /\ producer.accepted + producer.full = Offered
    BY <2>4, <2>5 DEF ProducerKnows, ProducerCounts
  <2>8. consumer.consumed = Len(consumerRows) /\ Len(consumerRows) = producer.accepted
    <3>1. consumer.consumed = Len(consumerRows)
          /\ Len(consumerRows) + Len(fifo) = producer.accepted
      BY <2>1, <2>4 DEF StreamsAgree, Uncounted, ExecutorShape, ProducerStates
    <3>2. Len(fifo) = 0 /\ Len(consumerRows) \in Nat
      BY <2>6 DEF ExecutorShape
    <3>. QED  BY <3>1, <3>2
  <2>. QED  BY <2>3, <2>5, <2>6, <2>7, <2>8
<1>. QED  BY <1>1, ExecutorInvariant, PTL

\* The report names a cause, never the obedience to a cancellation, and a
\* cancelled run is never reported as a success (execute_measurement).
THEOREM ReportNamesCause == Spec => []CauseIsReported
<1>1. ExecutorIndInv => CauseIsReported
  <2> SUFFICES ASSUME ExecutorIndInv, IsReported
               PROVE  /\ report.reason # "cancelled"
                      /\ report.cancelled => report.reason # "none"
    BY DEF CauseIsReported
  <2> USE DEF ExecutorIndInv
  <2>1. report = IF ctl.failure = "none" THEN RunReport
                 ELSE failure_report("start_barrier", ctl.failure, TRUE)
    BY DEF IsReported, ReportTells
  <2>2. CASE ctl.failure # "none"
    <3>1. report.reason = ctl.failure /\ ctl.failure # "cancelled"
      BY <2>1, <2>2 DEF failure_report, ExecutorShape
    <3>. QED  BY <2>2, <3>1
  <2>3. CASE ctl.failure = "none"
    <3>1. /\ report.reason = (IF ProducerDecides THEN producer.failure ELSE consumer.failure)
          /\ report.cancelled = cancellation
      BY <2>1, <2>3 DEF RunReport
    <3>2. consumer.failure # "cancelled"
          /\ (producer.failure = "cancelled" => consumer.failure # "none")
      BY DEF ConsumerKnows, CancellationHasCause
    <3>3. cancellation => producer.failure # "none" \/ consumer.failure # "none"
      BY <2>3 DEF CancellationHasCause
    <3>. QED  BY <3>1, <3>2, <3>3 DEF ProducerDecides
  <2>. QED  BY <2>2, <2>3
<1>. QED  BY <1>1, ExecutorInvariant, PTL

-----------------------------------------------------------------------------
(* The journal (module RunStateMachine)                                    *)

USE LifecycleAssumption

\* The phases on the way to p, as long as nothing failed.
PathTo(p) ==
    CASE p = "planned" -> {"planned"}
      [] p = "preflight" -> {"planned", "preflight"}
      [] p = "preparation" -> {"planned", "preflight", "preparation"}
      [] p = "warmup" -> {"planned", "preflight", "preparation", "warmup"}
      [] p = "logical_reset" -> BeforeMeasurement
      [] p = "measurement_started" -> BeforeMeasurement \cup {"measurement_started"}
      [] p = "producer_complete" ->
           BeforeMeasurement \cup {"measurement_started", "producer_complete"}
      [] p = "drain" -> BeforeMeasurement \cup InMeasurement
      [] p = "completed" -> BeforeMeasurement \cup InMeasurement \cup {"completed"}
      [] OTHER -> BeforeMeasurement \cup InMeasurement \cup {"completed", p}

\* The phase tells which phases the journal holds: the whole way to it when
\* nothing failed, and otherwise one failure, which is the imported value.
PhaseTellsHistory ==
    /\ phase \notin FailurePhases \cup {"finalized_invalid"} =>
         /\ Visited = PathTo(phase)
         /\ protocolState \notin FailurePhases
    /\ phase \in FailurePhases =>
         /\ Visited \cap FailurePhases = {phase}
         /\ protocolState = phase
    /\ phase = "finalized_invalid" =>
         Visited \cap FailurePhases = {protocolState} \cap FailurePhases

\* A completed run named its four artifact candidates when it completed.
CompletionNamedArtifacts ==
    \A i \in 1 .. Len(transitions) :
        transitions[i].to = "completed" =>
            MeasurementKinds \subseteq transitions[i].present

\* Recoveries wait for the finalization.
RecoveriesFollowTheEnd == recoveries # << >> => phase \in TerminalPhases

LifecycleInv ==
    /\ JournalInv
    /\ transitions # << >>
    /\ PhaseTellsHistory
    /\ CompletionNamedArtifacts
    /\ RecoveriesFollowTheEnd

-----------------------------------------------------------------------------
LEMMA LifecycleInvInit == JournalInit => LifecycleInv
<1> SUFFICES ASSUME JournalInit PROVE LifecycleInv
  OBVIOUS
<1>1. PICK t \in Times, c \in Consequences :
        /\ validate_consequences("planned", c)
        /\ phase = "planned"
        /\ protocolState = "planned"
        /\ lastTimestamp = t
        /\ transitions = <<[to |-> "planned", state |-> "planned", time |-> t,
                            present |-> c.present]>>
        /\ outcomes = << >>
        /\ recoveries = << >>
  BY DEF JournalInit
<1> DEFINE r == [to |-> "planned", state |-> "planned", time |-> t,
                 present |-> c.present]
<1>2. t \in Nat /\ c.present \in SUBSET Kinds
  BY DEF ConsequenceLists
<1>3. r \in TransitionRecords
  BY <1>2 DEF TransitionRecords, RunPhases, LifecycleStates, BeforeMeasurement
<1>4. transitions \in Seq(TransitionRecords) /\ Len(transitions) = 1 /\ transitions[1] = r
  BY <1>1, <1>3
<1>5. LifecycleTypeOK
  BY <1>1, <1>2, <1>4
     DEF LifecycleTypeOK, RunPhases, BeforeMeasurement, LifecycleStates
<1>6. TimeMovesOn
  BY <1>1, <1>2, <1>4 DEF TimeMovesOn
<1>7. Visited = {"planned"}
  BY <1>4 DEF Visited
<1>8. PhaseTellsHistory
  BY <1>1, <1>7 DEF PhaseTellsHistory, PathTo, FailurePhases, EarlyFailures
<1>. QED  BY <1>1, <1>4, <1>5, <1>6, <1>8
          DEF LifecycleInv, JournalInv, CompletionNamedArtifacts, RecoveriesFollowTheEnd

\* Every time in the journal is a natural number.
LEMMA RecordedTimes ==
    ASSUME LifecycleTypeOK
    PROVE  /\ \A i \in 1 .. Len(transitions) : transitions[i].time \in Nat
           /\ \A i \in 1 .. Len(outcomes) : outcomes[i] \in Nat
           /\ \A i \in 1 .. Len(recoveries) :
                /\ recoveries[i].from \in Nat
                /\ recoveries[i].until \in Nat
                /\ recoveries[i].duration \in Nat
<1>1. \A i \in 1 .. Len(transitions) : transitions[i] \in TransitionRecords
  BY ElementOfSeq DEF LifecycleTypeOK
<1>2. \A i \in 1 .. Len(outcomes) : outcomes[i] \in Nat
  BY ElementOfSeq DEF LifecycleTypeOK
<1>3. \A i \in 1 .. Len(recoveries) :
        recoveries[i] \in [from : Nat, until : Nat, duration : Nat]
  BY ElementOfSeq DEF LifecycleTypeOK
<1>. QED  BY <1>1, <1>2, <1>3 DEF TransitionRecords

\* A transition appends one record, and the journal's phases grow by it.
LEMMA TransitionAppends ==
    ASSUME LifecycleInv, NEW to \in RunPhases, NEW t \in Times, NEW w \in BOOLEAN,
           NEW c \in Consequences, transition(to, t, w, c)
    PROVE  /\ transitions' \in Seq(TransitionRecords)
           /\ Len(transitions) \in Nat \ {0}
           /\ Len(transitions') = Len(transitions) + 1
           /\ \A i \in 1 .. Len(transitions) : transitions'[i] = transitions[i]
           /\ transitions'[Len(transitions) + 1].to = to
           /\ transitions'[Len(transitions) + 1].time = t
           /\ transitions'[Len(transitions) + 1].present = c.present
           /\ protocolState' \in LifecycleStates
           /\ t \in Nat
           /\ Visited' = Visited \cup {to}
<1> DEFINE r == [to |-> to, state |-> protocolState', time |-> t, present |-> c.present]
           n == Len(transitions)
<1>1. transitions \in Seq(TransitionRecords) /\ n \in Nat \ {0}
  BY DEF LifecycleInv, JournalInv, LifecycleTypeOK
<1>2. t \in Nat /\ c.present \in SUBSET Kinds
  BY DEF ConsequenceLists
<1>3. protocolState' \in LifecycleStates
  BY DEF transition, protocol_projection, LifecycleInv, JournalInv, LifecycleTypeOK,
         LifecycleStates
<1>4. r \in TransitionRecords
  BY <1>2, <1>3 DEF TransitionRecords
<1>5. transitions' = Append(transitions, r)
  BY DEF transition
<1>6. /\ transitions' \in Seq(TransitionRecords) /\ Len(transitions') = n + 1
      /\ \A i \in 1 .. n : transitions'[i] = transitions[i]
      /\ transitions'[n + 1] = r
  BY <1>1, <1>4, <1>5
<1>7. Visited' = Visited \cup {to}
  <2>1. Visited' = {transitions'[i].to : i \in 1 .. n + 1}
    BY <1>6 DEF Visited
  <2>2. 1 .. n + 1 = (1 .. n) \cup {n + 1}
    BY <1>1
  <2>3. Visited = {transitions'[i].to : i \in 1 .. n}
    BY <1>6 DEF Visited
  <2>4. r.to = to
    OBVIOUS
  <2>. QED  BY <1>6, <2>1, <2>2, <2>3, <2>4
<1>8. r.to = to /\ r.time = t /\ r.present = c.present
  OBVIOUS
<1> HIDE DEF r
<1>. QED  BY <1>1, <1>2, <1>3, <1>6, <1>7, <1>8

LEMMA TransitionKeepsInv ==
    ASSUME LifecycleInv, NEW to \in RunPhases, NEW t \in Times, NEW w \in BOOLEAN,
           NEW c \in Consequences, transition(to, t, w, c)
    PROVE  LifecycleInv'
<1> DEFINE n == Len(transitions)
<1>1. /\ transitions' \in Seq(TransitionRecords)
      /\ n \in Nat \ {0}
      /\ Len(transitions') = n + 1
      /\ \A i \in 1 .. n : transitions'[i] = transitions[i]
      /\ transitions'[n + 1].to = to
      /\ transitions'[n + 1].time = t
      /\ transitions'[n + 1].present = c.present
      /\ protocolState' \in LifecycleStates
      /\ t \in Nat
      /\ Visited' = Visited \cup {to}
  BY TransitionAppends
<1>2. recoveries = << >> /\ recoveries' = << >>
  BY DEF LifecycleInv, RecoveriesFollowTheEnd, transition, is_legal_transition,
         TerminalPhases, FailurePhases, EarlyFailures
<1>3. LifecycleTypeOK'
  BY <1>1, <1>2 DEF LifecycleInv, JournalInv, LifecycleTypeOK, transition
<1>4. TimeMovesOn'
  <2>1. t >= lastTimestamp /\ lastTimestamp' = t /\ lastTimestamp \in Nat
        /\ outcomes' = outcomes /\ outcomes \in Seq(Nat)
    BY DEF transition, LifecycleInv, JournalInv, LifecycleTypeOK
  <2>2. /\ \A i \in 1 .. n : transitions[i].time \in Nat
        /\ \A i \in 1 .. Len(outcomes) : outcomes[i] \in Nat
    BY RecordedTimes DEF LifecycleInv, JournalInv
  <2>3. ASSUME NEW i \in 1 .. n + 1
        PROVE  /\ transitions'[i].time <= t
               /\ i > 1 => transitions'[i - 1].time <= transitions'[i].time
    <3>1. CASE i = n + 1
      <4>1. transitions'[n].time = transitions[n].time /\ transitions[n].time <= lastTimestamp
        BY <1>1 DEF LifecycleInv, JournalInv, TimeMovesOn
      <4>. QED  BY <1>1, <2>1, <2>2, <3>1, <4>1
    <3>2. CASE i # n + 1
      <4>1. i \in 1 .. n
        BY <1>1, <3>2
      <4>2. transitions[i].time <= lastTimestamp
            /\ (i > 1 => transitions[i - 1].time <= transitions[i].time)
        BY <4>1 DEF LifecycleInv, JournalInv, TimeMovesOn
      <4>3. i > 1 => i - 1 \in 1 .. n
        BY <1>1, <4>1
      <4>4. /\ transitions'[i].time = transitions[i].time
            /\ i > 1 => transitions'[i - 1].time = transitions[i - 1].time
        BY <1>1, <4>1, <4>3
      <4>5. transitions[i].time \in Nat /\ t \in Nat
        BY <1>1, <2>2, <4>1
      <4>6. transitions[i].time <= t
        BY <2>1, <4>2, <4>5
      <4>. QED  BY <4>2, <4>4, <4>6
    <3>. QED  BY <3>1, <3>2
  <2>4. ASSUME NEW i \in 1 .. Len(outcomes) PROVE outcomes[i] <= t
    <3>1. outcomes[i] <= lastTimestamp
      BY DEF LifecycleInv, JournalInv, TimeMovesOn
    <3>2. t \in Nat /\ outcomes[i] \in Nat
      BY <1>1, <2>2
    <3>. QED  BY <2>1, <3>1, <3>2
  <2>5. \A i \in 1 .. Len(transitions') :
          /\ transitions'[i].time <= lastTimestamp'
          /\ i > 1 => transitions'[i - 1].time <= transitions'[i].time
    BY <1>1, <2>1, <2>3
  <2>6. \A i \in 1 .. Len(outcomes') : outcomes'[i] <= lastTimestamp'
    BY <2>1, <2>4
  <2>7. Len(recoveries') = 0
    BY <1>2
  <2>. QED  BY <2>5, <2>6, <2>7 DEF TimeMovesOn
<1>5. PhaseTellsHistory'
  <2>1. /\ phase' = to /\ is_legal_transition(phase, to)
        /\ protocolState' = protocol_projection(to, protocolState)
    BY DEF transition
  <2>2. CASE phase \in FailurePhases
    <3>1. to = "finalized_invalid" /\ protocolState' = protocolState
      BY <2>1, <2>2 DEF is_legal_transition, protocol_projection, FailurePhases,
         EarlyFailures, BeforeMeasurement, InMeasurement
    <3>. QED  BY <1>1, <2>1, <2>2, <3>1
              DEF LifecycleInv, PhaseTellsHistory, FailurePhases, EarlyFailures
  <2>3. CASE phase \notin FailurePhases
    <3>1. phase # "finalized_invalid"
      BY <2>1 DEF is_legal_transition, FailurePhases, EarlyFailures
    <3>2. Visited = PathTo(phase) /\ protocolState \notin FailurePhases
      BY <2>3, <3>1 DEF LifecycleInv, PhaseTellsHistory
    <3>3. Visited \cap FailurePhases = {}
      <4> USE DEF FailurePhases, EarlyFailures, BeforeMeasurement, InMeasurement
      <4>1. phase \in BeforeMeasurement \cup InMeasurement \cup {"completed"}
        BY <2>1, <2>3 DEF is_legal_transition
      <4>2. PathTo(phase) \subseteq BeforeMeasurement \cup InMeasurement \cup {"completed"}
        BY <4>1 DEF PathTo
      <4>. QED  BY <3>2, <4>2
    <3>4. CASE to \in FailurePhases
      <4>1. protocolState' = to
        BY <2>1, <3>4 DEF protocol_projection, FailurePhases, EarlyFailures,
           BeforeMeasurement, InMeasurement
      <4>. QED  BY <1>1, <2>1, <3>3, <3>4, <4>1
                DEF PhaseTellsHistory, FailurePhases, EarlyFailures
    <3>5. CASE to = "finalized_invalid"
      <4>1. protocolState' = protocolState
        BY <2>1, <3>5 DEF protocol_projection, FailurePhases, EarlyFailures,
           BeforeMeasurement, InMeasurement
      <4>. QED  BY <1>1, <2>1, <3>2, <3>3, <3>5, <4>1
                DEF PhaseTellsHistory, FailurePhases, EarlyFailures
    <3>6. CASE to \notin FailurePhases \cup {"finalized_invalid"}
      <4>1. protocolState' \notin FailurePhases
        BY <2>1, <3>6 DEF protocol_projection, FailurePhases, EarlyFailures
      <4>2. PathTo(phase) \cup {to} = PathTo(to)
        <5> USE DEF BeforeMeasurement, InMeasurement, FailurePhases, EarlyFailures,
                    TerminalPhases
        <5>1. \/ phase = "planned" /\ to = "preflight"
              \/ phase = "preflight" /\ to = "preparation"
              \/ phase = "preparation" /\ to = "warmup"
              \/ phase = "warmup" /\ to = "logical_reset"
              \/ phase = "logical_reset" /\ to = "measurement_started"
              \/ phase = "measurement_started" /\ to = "producer_complete"
              \/ phase = "producer_complete" /\ to = "drain"
              \/ phase = "drain" /\ to = "completed"
              \/ phase = "completed" /\ to = "finalized_valid"
          BY <2>1, <2>3, <3>6 DEF is_legal_transition
        <5>. QED  BY <5>1 DEF PathTo
      <4>. QED  BY <1>1, <2>1, <3>2, <3>6, <4>1, <4>2 DEF PhaseTellsHistory
    <3>. QED  BY <3>4, <3>5, <3>6
  <2>. QED  BY <2>2, <2>3
<1>6. CompletionNamedArtifacts'
  <2>1. to = "completed" => MeasurementKinds \subseteq c.present
    BY DEF transition, validate_consequences
  <2>2. \A i \in 1 .. n + 1 : i = n + 1 \/ i \in 1 .. n
    BY <1>1
  <2>. QED  BY <1>1, <2>1, <2>2 DEF LifecycleInv, CompletionNamedArtifacts
<1>7. transitions' # << >>
  BY <1>1
<1>. QED  BY <1>2, <1>3, <1>4, <1>5, <1>6, <1>7
          DEF LifecycleInv, JournalInv, RecoveriesFollowTheEnd

LEMMA OutcomeKeepsInv ==
    ASSUME LifecycleInv, NEW t \in Times, NEW w \in BOOLEAN, NEW triggers \in BOOLEAN,
           record_non_failure_outcome(t, w, triggers)
    PROVE  LifecycleInv'
<1>0. t \in Nat /\ t >= lastTimestamp /\ lastTimestamp \in Nat
  BY DEF LifecycleInv, JournalInv, LifecycleTypeOK, record_non_failure_outcome
<1>1. /\ lastTimestamp' = t
      /\ phase' = phase /\ protocolState' = protocolState
      /\ transitions' = transitions /\ recoveries' = recoveries
      /\ transitions \in Seq(TransitionRecords)
      /\ recoveries \in Seq([from : Nat, until : Nat, duration : Nat])
      /\ outcomes' = Append(outcomes, t) /\ outcomes \in Seq(Nat)
  BY DEF LifecycleInv, JournalInv, LifecycleTypeOK, record_non_failure_outcome
<1>2. /\ outcomes' \in Seq(Nat) /\ Len(outcomes) \in Nat
      /\ Len(outcomes') = Len(outcomes) + 1
      /\ \A i \in 1 .. Len(outcomes) : outcomes'[i] = outcomes[i]
      /\ outcomes'[Len(outcomes) + 1] = t
  BY <1>0, <1>1
<1>3. LifecycleTypeOK'
  BY <1>0, <1>1, <1>2 DEF LifecycleInv, JournalInv, LifecycleTypeOK
<1>4. TimeMovesOn'
  <2>1. \A i \in 1 .. Len(transitions) : transitions[i].time \in Nat
    BY RecordedTimes DEF LifecycleInv, JournalInv
  <2>2. /\ \A i \in 1 .. Len(recoveries) : recoveries[i].until \in Nat
        /\ \A i \in 1 .. Len(outcomes) : outcomes[i] \in Nat
    BY RecordedTimes DEF LifecycleInv, JournalInv
  <2>3. \A i \in 1 .. Len(outcomes) + 1 : i \in 1 .. Len(outcomes) \/ i = Len(outcomes) + 1
    BY <1>2
  <2>4. \A i \in 1 .. Len(outcomes') : outcomes'[i] <= t
    BY <1>0, <1>1, <1>2, <2>2, <2>3 DEF LifecycleInv, JournalInv, TimeMovesOn
  <2>5. ASSUME NEW i \in 1 .. Len(transitions) PROVE transitions[i].time <= t
    <3>1. transitions[i].time <= lastTimestamp
      BY DEF LifecycleInv, JournalInv, TimeMovesOn
    <3>. QED  BY <1>0, <2>1, <3>1
  <2>6. ASSUME NEW i \in 1 .. Len(recoveries) PROVE recoveries[i].until <= t
    <3>1. recoveries[i].until <= lastTimestamp
      BY DEF LifecycleInv, JournalInv, TimeMovesOn
    <3>. QED  BY <1>0, <2>2, <3>1
  <2>. QED  BY <1>1, <2>4, <2>5, <2>6 DEF LifecycleInv, JournalInv, TimeMovesOn
<1>5. Visited' = Visited
  BY <1>1 DEF Visited
<1>. QED  BY <1>1, <1>3, <1>4, <1>5
          DEF LifecycleInv, JournalInv, PhaseTellsHistory, CompletionNamedArtifacts,
              RecoveriesFollowTheEnd

LEMMA RecoveryKeepsInv ==
    ASSUME LifecycleInv, NEW from \in Times, NEW until \in Times, NEW duration \in Times,
           NEW explicit \in BOOLEAN, record_recovery(from, until, duration, explicit)
    PROVE  LifecycleInv'
<1> DEFINE r == [from |-> from, until |-> until, duration |-> duration]
           m == Len(recoveries)
<1>0. /\ from \in Nat /\ until \in Nat /\ duration \in Nat /\ lastTimestamp \in Nat
      /\ from >= lastTimestamp /\ until >= from /\ until - from >= duration
  BY DEF LifecycleInv, JournalInv, LifecycleTypeOK, record_recovery
<1>1. /\ lastTimestamp' = until
      /\ phase' = phase /\ protocolState' = protocolState /\ phase \in TerminalPhases
      /\ transitions' = transitions /\ outcomes' = outcomes
      /\ transitions \in Seq(TransitionRecords) /\ transitions # << >>
      /\ recoveries \in Seq([from : Nat, until : Nat, duration : Nat])
      /\ recoveries' = Append(recoveries, r) /\ outcomes \in Seq(Nat)
  BY DEF LifecycleInv, JournalInv, LifecycleTypeOK, record_recovery
<1>2. /\ recoveries' \in Seq([from : Nat, until : Nat, duration : Nat]) /\ m \in Nat
      /\ Len(recoveries') = m + 1
      /\ \A i \in 1 .. m : recoveries'[i] = recoveries[i]
      /\ recoveries'[m + 1] = r
  BY <1>0, <1>1
<1>3. LifecycleTypeOK'
  BY <1>0, <1>1, <1>2 DEF LifecycleInv, JournalInv, LifecycleTypeOK
<1>4. TimeMovesOn'
  <2>1. /\ \A i \in 1 .. Len(transitions) : transitions[i].time \in Nat
        /\ \A i \in 1 .. Len(outcomes) : outcomes[i] \in Nat
    BY RecordedTimes DEF LifecycleInv, JournalInv
  <2>2. \A i \in 1 .. m : /\ recoveries[i].until \in Nat
                          /\ recoveries[i].from \in Nat
                          /\ recoveries[i].duration \in Nat
    BY RecordedTimes DEF LifecycleInv, JournalInv
  <2>3. /\ \A i \in 1 .. Len(transitions) :
             /\ transitions[i].time <= lastTimestamp
             /\ i > 1 => transitions[i - 1].time <= transitions[i].time
        /\ \A i \in 1 .. Len(outcomes) : outcomes[i] <= lastTimestamp
    BY DEF LifecycleInv, JournalInv, TimeMovesOn
  <2>4. Len(transitions) \in 1 .. Len(transitions)
    BY <1>1
  <2>5. ASSUME NEW i \in 1 .. m + 1
        PROVE  /\ recoveries'[i].until <= until
               /\ recoveries'[i].from + recoveries'[i].duration <= recoveries'[i].until
               /\ transitions[Len(transitions)].time <= recoveries'[i].from
               /\ i > 1 => recoveries'[i - 1].until <= recoveries'[i].from
    <3>1. CASE i = m + 1
      <4>1. recoveries'[i].from = from /\ recoveries'[i].until = until
            /\ recoveries'[i].duration = duration
        BY <1>2, <3>1
      <4>2. transitions[Len(transitions)].time <= from
        <5>1. transitions[Len(transitions)].time \in Nat
              /\ transitions[Len(transitions)].time <= lastTimestamp
          BY <2>1, <2>3, <2>4
        <5>. QED  BY <1>0, <5>1
      <4>3. ASSUME i > 1 PROVE recoveries'[i - 1].until <= from
        <5>1. m \in 1 .. m /\ i - 1 = m
          BY <1>2, <3>1, <4>3
        <5>2. recoveries[m].until <= lastTimestamp /\ recoveries[m].until \in Nat
          BY <2>2, <5>1 DEF LifecycleInv, JournalInv, TimeMovesOn
        <5>3. recoveries'[i - 1] = recoveries[m]
          BY <1>2, <5>1
        <5>. QED  BY <1>0, <5>2, <5>3
      <4>4. from + duration <= until /\ until <= until
        BY <1>0
      <4>. QED  BY <4>1, <4>2, <4>3, <4>4
    <3>2. CASE i # m + 1
      <4>1. i \in 1 .. m /\ (i > 1 => i - 1 \in 1 .. m)
        <5>1. PICK size \in Nat : size = m
          BY <1>2
        <5>2. i \in 1 .. size + 1 /\ i # size + 1
          BY <2>5, <3>2, <5>1
        <5>. QED  BY <5>1, <5>2
      <4>2. /\ recoveries[i].until <= lastTimestamp
            /\ recoveries[i].from + recoveries[i].duration <= recoveries[i].until
            /\ transitions[Len(transitions)].time <= recoveries[i].from
            /\ i > 1 => recoveries[i - 1].until <= recoveries[i].from
        BY <4>1 DEF LifecycleInv, JournalInv, TimeMovesOn
      <4>3. recoveries'[i] = recoveries[i] /\ (i > 1 => recoveries'[i - 1] = recoveries[i - 1])
        BY <1>2, <4>1
      <4>4. recoveries[i].until <= until
        <5>1. recoveries[i].until \in Nat
          BY <2>2, <4>1
        <5>. QED  BY <1>0, <4>2, <5>1
      <4>. QED  BY <4>2, <4>3, <4>4
    <3>. QED  BY <3>1, <3>2
  <2>6. /\ \A i \in 1 .. Len(transitions) : transitions[i].time <= until
        /\ \A i \in 1 .. Len(outcomes) : outcomes[i] <= until
    BY <1>0, <2>1, <2>3
  <2>. QED  BY <1>1, <1>2, <2>3, <2>5, <2>6 DEF TimeMovesOn
<1>5. Visited' = Visited
  BY <1>1 DEF Visited
<1>. QED  BY <1>1, <1>3, <1>4, <1>5
          DEF LifecycleInv, JournalInv, PhaseTellsHistory, CompletionNamedArtifacts,
              RecoveriesFollowTheEnd

-----------------------------------------------------------------------------
\* Whatever is requested of a run, its phase tells its history
\* (transition, record_non_failure_outcome, record_recovery).
THEOREM LifecycleInvariant == JournalSpec => []LifecycleInv
<1>1. LifecycleInv /\ [JournalNext]_journalVars => LifecycleInv'
  <2> SUFFICES ASSUME LifecycleInv, [JournalNext]_journalVars PROVE LifecycleInv'
    OBVIOUS
  <2>1. CASE JournalNext
    BY <2>1, TransitionKeepsInv, OutcomeKeepsInv, RecoveryKeepsInv DEF JournalNext
  <2>2. CASE UNCHANGED journalVars
    BY <2>2 DEF journalVars, LifecycleInv, JournalInv, LifecycleTypeOK, TimeMovesOn, Visited,
                PhaseTellsHistory, CompletionNamedArtifacts, RecoveriesFollowTheEnd
  <2>. QED  BY <2>1, <2>2
<1>. QED  BY LifecycleInvInit, <1>1, PTL DEF JournalSpec

\* The records of every run are well formed and lie on one time line.
THEOREM JournalIsOrdered == JournalSpec => []JournalInv
<1>1. LifecycleInv => JournalInv
  BY DEF LifecycleInv
<1>. QED  BY LifecycleInvariant, <1>1, PTL

\* No sequence of requests makes a run forget its failure: the imported
\* lifecycle value stays the failure that is_legal_transition let in.
THEOREM FailureStaysRetained == JournalSpec => []FailureIsRetained
<1>1. LifecycleInv => FailureIsRetained
  BY DEF LifecycleInv, JournalInv, LifecycleTypeOK, PhaseTellsHistory, PathTo,
         FailureIsRetained, RunPhases, BeforeMeasurement, InMeasurement, TerminalPhases,
         FailurePhases, EarlyFailures
<1>. QED  BY LifecycleInvariant, <1>1, PTL

\* A run is finalized as valid only after every phase, none of them a
\* failure, and with the artifact candidates validate_consequences asks for.
THEOREM ValidRunsAreWhole == JournalSpec => []ValidRunIsWhole
<1>1. LifecycleInv => ValidRunIsWhole
  <2> SUFFICES ASSUME LifecycleInv, phase = "finalized_valid" PROVE ValidRunIsWhole
    BY DEF ValidRunIsWhole
  <2>1. Visited = BeforeMeasurement \cup InMeasurement \cup {"completed", "finalized_valid"}
    BY DEF LifecycleInv, PhaseTellsHistory, PathTo, FailurePhases, EarlyFailures
  <2>2. PICK i \in 1 .. Len(transitions) : transitions[i].to = "completed"
    BY <2>1 DEF Visited
  <2>. QED  BY <2>1, <2>2 DEF ValidRunIsWhole, LifecycleInv, CompletionNamedArtifacts
<1>. QED  BY LifecycleInvariant, <1>1, PTL

\* No request withdraws or reorders a record, and none moves a finalized run.
THEOREM HistoryStaysAppendOnly == JournalSpec => HistoryIsAppendOnly
<1> DEFINE Step == /\ Len(transitions') >= Len(transitions)
                   /\ SubSeq(transitions', 1, Len(transitions)) = transitions
                   /\ phase \in TerminalPhases =>
                        UNCHANGED <<phase, protocolState, transitions>>
<1>1. LifecycleInv /\ [JournalNext]_journalVars => [Step]_journalVars
  <2> SUFFICES ASSUME LifecycleInv, JournalNext PROVE Step
    OBVIOUS
  <2>1. transitions \in Seq(TransitionRecords) /\ Len(transitions) \in Nat
    BY DEF LifecycleInv, JournalInv, LifecycleTypeOK
  <2>2. CASE \E to \in RunPhases, t \in Times, w \in BOOLEAN, c \in Consequences :
               transition(to, t, w, c)
    <3>1. PICK to \in RunPhases, t \in Times, w \in BOOLEAN, c \in Consequences :
            transition(to, t, w, c)
      BY <2>2
    <3>2. /\ transitions' \in Seq(TransitionRecords)
          /\ Len(transitions') = Len(transitions) + 1
          /\ \A i \in 1 .. Len(transitions) : transitions'[i] = transitions[i]
      BY <3>1, TransitionAppends
    <3>3. SubSeq(transitions', 1, Len(transitions)) = transitions
      <4> DEFINE s == SubSeq(transitions', 1, Len(transitions))
      <4>1. /\ s \in Seq(TransitionRecords) /\ Len(s) = Len(transitions)
            /\ \A i \in 1 .. Len(transitions) : s[i] = transitions'[i]
        BY <2>1, <3>2, SubSeqProperties
      <4> HIDE DEF s
      <4>2. s = transitions
        BY <2>1, <3>2, <4>1, SeqEqual
      <4>. QED  BY <4>2 DEF s
    <3>4. phase \notin TerminalPhases
      BY <3>1 DEF transition, is_legal_transition, TerminalPhases, FailurePhases,
                  EarlyFailures
    <3>. QED  BY <2>1, <3>2, <3>3, <3>4
  <2>3. CASE UNCHANGED <<phase, protocolState, transitions>>
    <3>1. SubSeq(transitions, 1, Len(transitions)) = transitions
      BY <2>1, SubSeqFull
    <3>. QED  BY <2>1, <2>3, <3>1
  <2>. QED  BY <2>2, <2>3 DEF JournalNext, record_non_failure_outcome, record_recovery
<1>. QED  BY LifecycleInvariant, <1>1, PTL DEF JournalSpec, HistoryIsAppendOnly
=============================================================================

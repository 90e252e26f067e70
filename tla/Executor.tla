------------------------------ MODULE Executor ------------------------------
(***************************************************************************)
(* execute_measurement (lifecycle/executor.hpp) with its start barrier and *)
(* termination word (lifecycle/runtime.hpp, runtime.cpp) and the capturing *)
(* backend (storage/capture_backend.hpp): a controller starts a producer   *)
(* and a consumer thread, releases them with a measurement origin, joins   *)
(* them and builds the report.                                             *)
(*                                                                         *)
(* A step makes one access to the flags another thread uses; one poll of   *)
(* the barrier reads its words together, which no thread can tell apart    *)
(* (the origin is read only after the release that follows it).  The       *)
(* queue is the bounded FIFO that RingSpsc and LinkedSpsc implement: an    *)
(* enqueue or a dequeue takes effect in one step.  The producer's row is a *)
(* step of its own, since the consumer may take the event first; the       *)
(* consumer's row goes with its dequeue, as no thread reads that row       *)
(* before the join.  Time is abstract: a clock reading is early or due, or *)
(* fails; only the deadline arithmetic keeps its width, as MaxTick.  The   *)
(* report's counts of wait, empty and drain polls are left out.            *)
(***************************************************************************)
EXTENDS Integers, Sequences, FiniteSets

CONSTANTS
    Capacity,   \* of the queue
    Schedules,  \* PreparedScheduleViews to try: [deadlines, origin, horizon]
    LimitSets,  \* ExecutionLimits to try
    MaxTick,    \* largest value of the tick type (2^64 - 1 in the code)
    Origins,    \* readings the controller may take as measurement origin
    Faults      \* what may fail, a subset of FaultKinds

FaultKinds ==
    {"clock",           \* a clock reading of the executor
     "attempt_before",  \* a capture that fails before the enqueue took effect
     "attempt_after",   \* ... after it, or a row that cannot be appended
     "poll_before", "poll_after"}   \* the same for the dequeue

ASSUME ExecutorAssumption ==
    /\ Capacity \in Nat \ {0}
    /\ MaxTick \in Nat
    /\ Schedules \subseteq [deadlines : Seq(0 .. MaxTick), origin : 0 .. MaxTick,
                           horizon : 0 .. MaxTick]
    /\ \A l \in LimitSets : \A bound \in DOMAIN l : l[bound] \in Nat
    /\ Origins \subseteq 0 .. MaxTick
    /\ Faults \subseteq FaultKinds

VARIABLES
    args,                   \* the call's schedule and limits
    barrier,                \* WorkerStartBarrier: arrived, released, cancelled, origin
    cancellation,           \* the shared cancellation flag
    producerFailed,         \* the shared producer_failed flag
    arrivalsFinished,       \* TerminationControl's word
    fifo,                   \* logical sequence numbers in the queue
    producerRows,           \* rows retained by the producer's stream
    consumerRows,           \* rows retained by the consumer's stream
    prodPc, producer,       \* the producer thread and its ProducerWorkerState
    consPc, consumer,       \* the consumer thread and its ConsumerWorkerState
    ctlPc, ctl,             \* the controller thread and its locals
    report                  \* MeasurementExecutionReport

flagVars == <<cancellation, producerFailed, arrivalsFinished>>
queueVars == <<fifo, producerRows, consumerRows>>
prodVars == <<prodPc, producer>>
consVars == <<consPc, consumer>>
ctlVars == <<ctlPc, ctl, report>>
vars == <<args, barrier, flagVars, queueVars, prodVars, consVars, ctlVars>>

\* What each thread never writes.
prodFrame == <<args, consumerRows, consVars, ctlVars>>
consFrame == <<args, producerRows, prodVars, ctlVars>>
ctlFrame == <<args, queueVars, producer, consumer>>

limits == args.limits
schedule == args.schedule
Offered == Len(schedule.deadlines)
NoReport == [phase |-> "running"]

Init ==
    /\ args \in [schedule : Schedules, limits : LimitSets]
    /\ barrier = [arrived |-> {}, released |-> FALSE, cancelled |-> FALSE, origin |-> 0]
    /\ cancellation = FALSE
    /\ producerFailed = FALSE
    /\ arrivalsFinished \in BOOLEAN     \* left over from an earlier use
    /\ fifo = << >> /\ producerRows = << >> /\ consumerRows = << >>
    /\ prodPc = "unborn"
    /\ producer = [failure |-> "none", sequence |-> 0, attempted |-> 0, accepted |-> 0,
                   full |-> 0, polls |-> 0, completed |-> FALSE, published |-> FALSE]
    /\ consPc = "unborn"
    /\ consumer = [failure |-> "none", phase |-> "none", consumed |-> 0, polls |-> 0,
                   drainPolls |-> 0, drained |-> FALSE, finished |-> FALSE]
    /\ ctlPc = "enter"
    /\ ctl = [polls |-> 0, failure |-> "none"]
    /\ report = NoReport

-----------------------------------------------------------------------------
(* Controller.                                                             *)

validate_prepared_schedule ==
    /\ schedule.origin <= schedule.horizon
    /\ \A i \in 1 .. Offered :
         /\ schedule.deadlines[i] \in schedule.origin .. schedule.horizon - 1
         /\ i > 1 => schedule.deadlines[i] >= schedule.deadlines[i - 1]

LimitsNonzero == \A l \in DOMAIN limits : limits[l] # 0

failure_report(phase, reason, cancelRequested) ==
    [phase |-> phase, reason |-> reason, attempted |-> 0, accepted |-> 0, full |-> 0,
     consumed |-> 0, completed |-> FALSE, drained |-> FALSE, published |-> FALSE,
     cancelled |-> cancelRequested]

\* An invalid schedule or a zero limit: no thread is ever started.
RefuseArguments ==
    /\ ctlPc = "enter"
    /\ ~ (validate_prepared_schedule /\ LimitsNonzero)
    /\ report' = failure_report("pre_run",
                     IF validate_prepared_schedule THEN "invalid_limits"
                     ELSE "invalid_schedule", FALSE)
    /\ ctlPc' = "returned"
    /\ UNCHANGED <<ctlFrame, barrier, flagVars, prodPc, consPc, ctl>>

\* Mutant: the termination word keeps the value of its last use.
StartThreadsNoReset ==
    /\ ctlPc = "enter"
    /\ validate_prepared_schedule /\ LimitsNonzero
    /\ prodPc' = "arrive" /\ consPc' = "arrive" /\ ctlPc' = "wait"
    /\ UNCHANGED <<ctlFrame, barrier, flagVars, ctl, report>>

\* The termination word is reset while no worker exists, then both start.
StartThreads ==
    /\ ctlPc = "enter"
    /\ validate_prepared_schedule /\ LimitsNonzero
    /\ arrivalsFinished' = FALSE
    /\ prodPc' = "arrive" /\ consPc' = "arrive" /\ ctlPc' = "wait"
    /\ UNCHANGED <<ctlFrame, barrier, cancellation, producerFailed, ctl, report>>

\* controller_wait, one poll: a cancelled barrier or the poll limit abandons
\* the start.
ControllerWait ==
    /\ ctlPc = "wait"
    /\ LET expired == ctl.polls = limits.controllerStart \/ barrier.cancelled
           ready == barrier.arrived = {"producer", "consumer"}
       IN  /\ ctl' = [polls |-> IF expired THEN ctl.polls ELSE ctl.polls + 1,
                      failure |-> IF expired THEN "start_watchdog" ELSE "none"]
           /\ ctlPc' = IF expired THEN "cancel" ELSE IF ready THEN "origin" ELSE "wait"
    /\ UNCHANGED <<ctlFrame, barrier, flagVars, prodPc, consPc, report>>

\* The one origin reading and its release to both workers; a failed reading or
\* a refused release abandons the start.
ReleaseWithOrigin ==
    /\ ctlPc = "origin"
    /\ \/ IF barrier.cancelled \/ barrier.arrived # {"producer", "consumer"}
          THEN /\ ctl' = [ctl EXCEPT !.failure = "start_watchdog"]
               /\ ctlPc' = "cancel"
               /\ UNCHANGED barrier
          ELSE /\ \E t \in Origins :
                    barrier' = [barrier EXCEPT !.origin = t, !.released = TRUE]
               /\ ctlPc' = "join"
               /\ UNCHANGED ctl
       \/ /\ "clock" \in Faults
          /\ ctl' = [ctl EXCEPT !.failure = "clock_read"]
          /\ ctlPc' = "cancel"
          /\ UNCHANGED barrier
    /\ UNCHANGED <<ctlFrame, flagVars, prodPc, consPc, report>>

\* The abandoned start: the cancellation flag, then the barrier.
CancelStart ==
    /\ ctlPc = "cancel"
    /\ cancellation' = TRUE
    /\ ctlPc' = "cancel_barrier"
    /\ UNCHANGED <<ctlFrame, barrier, producerFailed, arrivalsFinished, prodPc, consPc,
                   ctl, report>>

CancelBarrier ==
    /\ ctlPc = "cancel_barrier"
    /\ barrier' = [barrier EXCEPT !.cancelled = TRUE]
    /\ ctlPc' = "join"
    /\ UNCHANGED <<ctlFrame, flagVars, prodPc, consPc, ctl, report>>

\* Mutant: a cancelled producer hides the consumer's failure.
ProducerDecidesAlways == producer.failure # "none"

\* The producer's failure is reported unless it only obeyed a cancellation
\* that the consumer's own failure explains.
ProducerDecides ==
    /\ producer.failure # "none"
    /\ ~ (producer.failure = "cancelled" /\ consumer.failure # "none")

\* Both joins, and what the threads' states add up to.
RunReport ==
    [phase |-> IF ~ ProducerDecides THEN consumer.phase
               ELSE IF producer.failure = "start_watchdog" THEN "start_barrier"
               ELSE "measurement",
     reason |-> IF ProducerDecides THEN producer.failure ELSE consumer.failure,
     attempted |-> producer.attempted, accepted |-> producer.accepted,
     full |-> producer.full, consumed |-> consumer.consumed,
     completed |-> producer.completed, drained |-> consumer.drained,
     published |-> producer.published, cancelled |-> cancellation]

JoinAndReport ==
    /\ ctlPc = "join"
    /\ prodPc = "exited" /\ consPc = "exited"
    /\ report' = IF ctl.failure = "none" THEN RunReport
                 ELSE failure_report("start_barrier", ctl.failure, TRUE)
    /\ ctlPc' = "returned"
    /\ UNCHANGED <<ctlFrame, barrier, flagVars, prodPc, consPc, ctl>>

-----------------------------------------------------------------------------
(* Start barrier, the workers' side.                                       *)

\* arrive: a role that has arrived before cancels the barrier.
Arrive(role) ==
    barrier' = IF role \in barrier.arrived THEN [barrier EXCEPT !.cancelled = TRUE]
               ELSE [barrier EXCEPT !.arrived = @ \cup {role}]

\* worker_wait, one poll.
WorkerWait(polls) ==
    IF polls = limits.workerStart \/ barrier.cancelled THEN "failed"
    ELSE IF barrier.released THEN "released" ELSE "again"

-----------------------------------------------------------------------------
(* Producer.                                                               *)

ProducerFails(reason, pc) ==
    /\ producer' = [producer EXCEPT !.failure = reason]
    /\ prodPc' = pc

ProducerArrive ==
    /\ prodPc = "arrive"
    /\ Arrive("producer")
    /\ IF "producer" \in barrier.arrived THEN ProducerFails("cancelled", "fail_start")
       ELSE prodPc' = "wait" /\ UNCHANGED producer
    /\ UNCHANGED <<prodFrame, flagVars, fifo, producerRows>>

ProducerWait ==
    /\ prodPc = "wait"
    /\ CASE WorkerWait(producer.polls) = "again" ->
              producer' = [producer EXCEPT !.polls = @ + 1] /\ UNCHANGED prodPc
         [] WorkerWait(producer.polls) = "released" ->
              prodPc' = "next" /\ UNCHANGED producer
         [] OTHER -> ProducerFails("start_watchdog", "fail_start")
    /\ UNCHANGED <<prodFrame, barrier, flagVars, fifo, producerRows>>

\* A producer that never started says so and exits: the end of the arrivals
\* is not published and nothing is cancelled.
ProducerFailStart ==
    /\ prodPc = "fail_start"
    /\ producerFailed' = TRUE
    /\ prodPc' = "exited"
    /\ UNCHANGED <<prodFrame, barrier, cancellation, arrivalsFinished, fifo, producerRows,
                   producer>>

\* checked_measurement_deadline: origin plus offset still fits.
DeadlineFits(deadline) == deadline - schedule.origin <= MaxTick - barrier.origin

\* The head of the loop over the deadlines.
ProducerNext ==
    /\ prodPc = "next"
    /\ IF producer.sequence = Offered
       THEN producer' = [producer EXCEPT !.completed = TRUE] /\ prodPc' = "publish"
       ELSE IF cancellation THEN ProducerFails("cancelled", "fail")
       ELSE IF ~ DeadlineFits(schedule.deadlines[producer.sequence + 1])
       THEN ProducerFails("deadline_overflow", "fail")
       ELSE producer' = [producer EXCEPT !.polls = 0] /\ prodPc' = "due"
    /\ UNCHANGED <<prodFrame, barrier, flagVars, fifo, producerRows>>

\* Mutant: the wait spins until the clock is due, without limit or cancellation.
ProducerDueUnbounded ==
    /\ prodPc = "due"
    /\ \/ "clock" \in Faults /\ ProducerFails("clock_read", "fail")
       \/ producer' = [producer EXCEPT !.polls = 1 - @] /\ UNCHANGED prodPc
       \/ prodPc' = "attempt" /\ UNCHANGED producer
    /\ UNCHANGED <<prodFrame, barrier, flagVars, fifo, producerRows>>

\* One poll of the wait for the deadline: the clock fails, is early, or due.
ProducerDue ==
    /\ prodPc = "due"
    /\ \/ /\ producer.polls = limits.producerDue
          /\ ProducerFails("producer_wait_watchdog", "fail")
       \/ /\ producer.polls < limits.producerDue
          /\ cancellation
          /\ ProducerFails("cancelled", "fail")
       \/ /\ producer.polls < limits.producerDue
          /\ ~ cancellation
          /\ \/ "clock" \in Faults /\ ProducerFails("clock_read", "fail")
             \/ producer' = [producer EXCEPT !.polls = @ + 1] /\ UNCHANGED prodPc
             \/ prodPc' = "attempt" /\ UNCHANGED producer
    /\ UNCHANGED <<prodFrame, barrier, flagVars, fifo, producerRows>>

\* Mutant: a full queue does not use up the arrival.
CountAttemptRetried(outcome) ==
    [producer EXCEPT !.attempted = @ + 1,
                     !.accepted = IF outcome = "accepted" THEN @ + 1 ELSE @,
                     !.full = IF outcome = "full" THEN 1 ELSE @,
                     !.sequence = IF outcome = "full" /\ producer.full = 0 THEN @
                                  ELSE @ + 1]

CountAttempt(outcome) ==
    [producer EXCEPT !.attempted = @ + 1,
                     !.accepted = IF outcome = "accepted" THEN @ + 1 ELSE @,
                     !.full = IF outcome = "full" THEN @ + 1 ELSE @,
                     !.sequence = @ + 1]

\* An attempt that ends without a row: it is counted, its arrival is not passed.
AttemptFails ==
    /\ producer' = [producer EXCEPT !.attempted = @ + 1, !.failure = "producer_attempt"]
    /\ prodPc' = "fail"

\* Exactly one attempt for the arrival: the enqueue takes effect, and from then
\* on the consumer may take the event, or a capture fails before it.
ProducerAttempt ==
    /\ prodPc = "attempt"
    /\ \/ /\ Len(fifo) < Capacity
          /\ fifo' = Append(fifo, producer.sequence)
          /\ prodPc' = "accepted"
          /\ UNCHANGED producer
       \/ /\ Len(fifo) = Capacity
          /\ prodPc' = "full"
          /\ UNCHANGED <<fifo, producer>>
       \/ "attempt_before" \in Faults /\ AttemptFails /\ UNCHANGED fifo
    /\ UNCHANGED <<prodFrame, barrier, flagVars, producerRows>>

\* Mutant: the logical sequence number is used as the accepted ordinal.
AttemptRowBySequence(outcome) ==
    [sequence |-> producer.sequence, outcome |-> outcome,
     ordinal |-> IF outcome = "accepted" THEN producer.sequence ELSE -1]

\* The row of an attempt.  The accepted ordinal counts the accepted attempts
\* before this one.
AttemptRow(outcome) ==
    [sequence |-> producer.sequence, outcome |-> outcome,
     ordinal |-> IF outcome = "accepted" THEN producer.accepted ELSE -1]

\* What follows the enqueue: the completed capture's row, or a capture or an
\* append that fails with the event already in the queue.
ProducerAppend ==
    /\ prodPc \in {"accepted", "full"}
    /\ \/ /\ producerRows' = Append(producerRows, AttemptRow(prodPc))
          /\ producer' = CountAttempt(prodPc)
          /\ prodPc' = "next"
       \/ "attempt_after" \in Faults /\ AttemptFails /\ UNCHANGED producerRows
    /\ UNCHANGED <<prodFrame, barrier, flagVars, fifo>>

\* The producer's failure is made visible first ...
ProducerFail ==
    /\ prodPc = "fail"
    /\ producerFailed' = TRUE
    /\ prodPc' = "fail_cancel"
    /\ UNCHANGED <<prodFrame, barrier, cancellation, arrivalsFinished, fifo,
                   producerRows, producer>>

\* ... then the cancellation ...
ProducerFailCancel ==
    /\ prodPc = "fail_cancel"
    /\ cancellation' = TRUE
    /\ prodPc' = "publish"
    /\ UNCHANGED <<prodFrame, barrier, producerFailed, arrivalsFinished, fifo,
                   producerRows, producer>>

\* ... and the end of the arrivals last, on success and on failure.
ProducerPublish ==
    /\ prodPc = "publish"
    /\ arrivalsFinished' = TRUE
    /\ producer' = [producer EXCEPT !.published = TRUE]
    /\ prodPc' = "exited"
    /\ UNCHANGED <<prodFrame, barrier, cancellation, producerFailed, fifo, producerRows>>

-----------------------------------------------------------------------------
(* Consumer.                                                               *)

ConsumerFails(reason, phase) ==
    /\ consumer' = [consumer EXCEPT !.failure = reason, !.phase = phase]
    /\ consPc' = "cancel"

ConsumerArrive ==
    /\ consPc = "arrive"
    /\ Arrive("consumer")
    /\ IF "consumer" \in barrier.arrived THEN ConsumerFails("cancelled", "start_barrier")
       ELSE consPc' = "wait" /\ UNCHANGED consumer
    /\ UNCHANGED <<consFrame, flagVars, fifo, consumerRows>>

ConsumerWait ==
    /\ consPc = "wait"
    /\ CASE WorkerWait(consumer.polls) = "again" ->
              consumer' = [consumer EXCEPT !.polls = @ + 1] /\ UNCHANGED consPc
         [] WorkerWait(consumer.polls) = "released" ->
              consumer' = [consumer EXCEPT !.polls = 0] /\ consPc' = "load_finished"
         [] OTHER -> ConsumerFails("start_watchdog", "start_barrier")
    /\ UNCHANGED <<consFrame, barrier, flagVars, fifo, consumerRows>>

\* The head of the loop: has the producer published its end?
ConsumerLoadFinished ==
    /\ consPc = "load_finished"
    /\ consumer' = [consumer EXCEPT !.finished = arrivalsFinished]
    /\ consPc' = IF arrivalsFinished THEN "load_failed" ELSE "poll"
    /\ UNCHANGED <<consFrame, barrier, flagVars, fifo, consumerRows>>

\* A failed producer's backlog is left in the queue.
ConsumerLoadFailed ==
    /\ consPc = "load_failed"
    /\ consPc' = IF producerFailed THEN "exited" ELSE "poll"
    /\ UNCHANGED <<consFrame, barrier, flagVars, fifo, consumerRows, consumer>>

\* What the loop makes of a poll's status.
AfterPoll(status) ==
    LET drainPolls == consumer.drainPolls + IF consumer.finished THEN 1 ELSE 0
        overrun == drainPolls > limits.drain
    IN  CASE overrun -> ConsumerFails("drain_watchdog", "drain")
          [] ~ overrun /\ status = "item" ->
               /\ consumer' = [consumer EXCEPT !.consumed = @ + 1, !.polls = 0,
                                               !.drainPolls = drainPolls]
               /\ consPc' = "load_finished"
          [] ~ overrun /\ status = "failure" ->
               /\ consumer' = [consumer EXCEPT !.failure = "consumer_poll"]
               /\ consPc' = "classify"
          [] ~ overrun /\ status = "empty" /\ consumer.finished ->
               consumer' = [consumer EXCEPT !.drained = TRUE] /\ consPc' = "exited"
          [] OTHER ->
               IF consumer.polls + 1 >= limits.consumerEmpty
               THEN ConsumerFails("consumer_wait_watchdog", "measurement")
               ELSE /\ consumer' = [consumer EXCEPT !.polls = @ + 1]
                    /\ consPc' = "load_finished"

\* One poll: an item with its retained row, an empty queue, a capture that
\* failed before the dequeue, or one that failed with the item already taken.
ConsumerPoll ==
    /\ consPc = "poll"
    /\ \/ /\ fifo # << >>
          /\ fifo' = Tail(fifo)
          /\ consumerRows' = Append(consumerRows, [ordinal |-> consumer.consumed,
                                                   sequence |-> Head(fifo)])
          /\ AfterPoll("item")
       \/ fifo = << >> /\ AfterPoll("empty") /\ UNCHANGED <<fifo, consumerRows>>
       \/ /\ "poll_before" \in Faults
          /\ AfterPoll("failure")
          /\ UNCHANGED <<fifo, consumerRows>>
       \/ /\ "poll_after" \in Faults
          /\ fifo # << >>
          /\ fifo' = Tail(fifo)
          /\ AfterPoll("failure")
          /\ UNCHANGED consumerRows
    /\ UNCHANGED <<consFrame, barrier, flagVars>>

\* After a failed poll: a failure that publication has overtaken is a drain
\* failure, by a second acquire if the first did not see it.
ConsumerClassify ==
    /\ consPc = "classify"
    /\ ConsumerFails("consumer_poll",
           IF consumer.finished \/ arrivalsFinished THEN "drain" ELSE "measurement")
    /\ UNCHANGED <<consFrame, barrier, flagVars, fifo, consumerRows>>

\* Every failing exit of the consumer raises the cancellation.
ConsumerCancel ==
    /\ consPc = "cancel"
    /\ cancellation' = TRUE
    /\ consPc' = "exited"
    /\ UNCHANGED <<consFrame, barrier, producerFailed, arrivalsFinished, fifo,
                   consumerRows, consumer>>

-----------------------------------------------------------------------------
Controller ==
    \/ RefuseArguments \/ StartThreads \/ ControllerWait \/ ReleaseWithOrigin
    \/ CancelStart \/ CancelBarrier \/ JoinAndReport

Producer ==
    \/ ProducerArrive \/ ProducerWait \/ ProducerFailStart \/ ProducerNext
    \/ ProducerDue \/ ProducerAttempt \/ ProducerAppend \/ ProducerFail
    \/ ProducerFailCancel \/ ProducerPublish

Consumer ==
    \/ ConsumerArrive \/ ConsumerWait \/ ConsumerLoadFinished \/ ConsumerLoadFailed
    \/ ConsumerPoll \/ ConsumerClassify \/ ConsumerCancel

\* The call has returned.
Returned == ctlPc = "returned" /\ UNCHANGED vars

Next == Controller \/ Producer \/ Consumer \/ Returned

\* The operating system keeps scheduling each of the three threads, and none
\* blocks: the workers only poll, and the controller's join waits for them.
Spec == Init /\ [][Next]_vars
             /\ WF_vars(Controller) /\ WF_vars(Producer) /\ WF_vars(Consumer)

-----------------------------------------------------------------------------
(* Properties.                                                             *)

Reasons == {"none", "start_watchdog", "clock_read", "deadline_overflow",
            "producer_wait_watchdog", "producer_attempt", "consumer_poll",
            "consumer_wait_watchdog", "drain_watchdog", "cancelled"}

ExecutorTypeOK ==
    /\ barrier \in [arrived : SUBSET {"producer", "consumer"}, released : BOOLEAN,
                    cancelled : BOOLEAN, origin : 0 .. MaxTick]
    /\ {cancellation, producerFailed, arrivalsFinished} \subseteq BOOLEAN
    /\ Len(fifo) <= Capacity
    /\ producer.failure \in Reasons /\ consumer.failure \in Reasons
    /\ producer.sequence \in 0 .. Offered
    /\ producer.attempted \in 0 .. Offered
    /\ consumer.polls \in Nat /\ producer.polls \in Nat

IsReported == ctlPc = "returned" /\ report.phase # "pre_run"

\* A run reported without failure is a whole run: every arrival was attempted
\* once, every accepted event was consumed, each left its row in both
\* streams, and nothing stayed in the queue.
SuccessIsWholeRun ==
    IsReported /\ report.reason = "none" =>
        /\ report.completed /\ report.drained /\ report.published
        /\ report.attempted = Offered
        /\ report.attempted = report.accepted + report.full
        /\ report.consumed = report.accepted
        /\ Len(producerRows) = Offered
        /\ Len(consumerRows) = report.accepted
        /\ fifo = << >>

\* The consumer claims a drained queue only for a producer that attempted its
\* whole schedule: a failed producer's flag is visible before its publication.
DrainedMeansComplete == consumer.drained => producer.completed /\ fifo = << >>

\* Rows of the two streams that carry the same ordinal are about the same
\* arrival, at any moment and whatever failed; a consumer row without a
\* producer row is about the arrival the producer is attempting, whose row is
\* still to be appended or was lost.
RowsJoinByOrdinal ==
    \A i \in 1 .. Len(consumerRows) :
        LET c == consumerRows[i]
            partners == {k \in 1 .. Len(producerRows) :
                           producerRows[k].ordinal = c.ordinal}
        IN  /\ c.ordinal = i - 1
            /\ \A k \in partners : producerRows[k].sequence = c.sequence
            /\ partners = {} =>
                 /\ prodPc = "accepted" \/ producer.failure = "producer_attempt"
                 /\ c.ordinal = producer.accepted
                 /\ c.sequence = producer.sequence

\* "cancelled" is how a thread obeys, never what the report blames: some
\* thread always has a cause of its own, and a run in which anything was
\* cancelled is never reported as a success.
CauseIsReported ==
    IsReported => /\ report.reason # "cancelled"
                  /\ report.cancelled => report.reason # "none"

\* The call returns: every wait of every thread is bounded.
RunReturns == <>(ctlPc = "returned")

\* The counts and rows of the two threads at every step: within their types,
\* and rows that join by ordinal whatever fails (capture_backend.hpp).
ExecutorInv == ExecutorTypeOK /\ RowsJoinByOrdinal
=============================================================================

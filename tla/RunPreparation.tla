---------------------------- MODULE RunPreparation ----------------------------
(***************************************************************************)
(* From the plan of a run to the first reading of its clock: the storage   *)
(* is budgeted, the arrival schedules are decoded and their uses compared, *)
(* the runner is admitted on evidence files that other people still write  *)
(* (runner/runner.cpp), the run is prepared, warmed up and reset           *)
(* (lifecycle/runtime.cpp), and the static measurement is entered.         *)
(***************************************************************************)
EXTENDS RunInputs

CONSTANTS
    Plans,                \* storage plans
    Offers,               \* schedules offered: record, bytes, derivation and use
    MaxUses,              \* bound: schedules of the run
    RequiredKinds,        \* kRequiredEvidenceKinds
    Packages,             \* the five packages a runner supports
    WorkerPairs,          \* placements, each with its pair of CPUs
    Admissions, Anchors,  \* admission documents, trust anchors of the build
    Contents,             \* contents of evidence files
    Paths,                \* evidence files
    Readiness,            \* what preparation must show
    Capacity,             \* of the queue, in events
    QueueKinds,
    Times                 \* readings of the machine's clock, in order

\* An admission under way: the document, how many files were hashed, no error
\* so far, and the references whose file was written since it was hashed.
Admitting == [doc : Admissions, hashed : Nat, ok : BOOLEAN, outdated : SUBSET Nat]

\* Origins and horizons are words; evidence is declared by a path and the hash
\* of some content; the machine's clock does not go back.
ASSUME PreparationAssumption ==
    /\ Capacity \in Nat /\ MaxUses \in Nat
    /\ \A offer \in Offers : {offer.record.origin, offer.record.horizon} \subseteq 0..WordMax
    /\ \A doc \in Admissions :
         /\ Len(doc.evidence) \in Nat /\ DOMAIN doc.evidence = 1..Len(doc.evidence)
         /\ \A n \in DOMAIN doc.evidence :
              doc.evidence[n].sha # None /\ doc.evidence[n].path \in Paths \cup {None}
    /\ None \notin Admitting
    /\ DOMAIN Times \subseteq Nat
    /\ \A n \in DOMAIN Times :
         Times[n] # None => Times[n].seconds \in Int /\ Times[n].nanoseconds \in Int
    /\ \A m, n \in DOMAIN Times :
         LET earlier == read_monotonic_raw_absolute(Times[m])
             later == read_monotonic_raw_absolute(Times[n])
         IN m <= n /\ earlier.status = "ok" /\ later.status = "ok" => earlier.ns <= later.ns

\* The numbers of a storage plan are words (StageAStorageBudgetRequest).
Words == 0..WordMax
RunSizes ==
    [name : Nat, scheduled : Words, accepted : Words, effective : Words \cup {None}]
ASSUME PlansAssumption ==
    \A plan \in Plans :
        /\ {plan.page, plan.available, plan.rtotal, plan.blocks} \subseteq Words
        /\ plan.runs \in Seq(RunSizes) /\ Len(plan.runs) <= WordMax
        /\ plan.auxiliary \in Seq(Words)

VARIABLES
    stage,      \* the step the run has come to
    sizing,     \* the storage plan and its budget, None before
    uses,       \* decoded schedules: record, deadlines, role, treatment, family
    files,      \* evidence files
    anchor,     \* AdmissionTrustAnchor
    admission,  \* of Admitting, None before
    ticket,     \* AdmissionTicket, None before
    queue,      \* the warm queue and what the workers count
    running,    \* the specialization that was entered, None before
    samples     \* clock samples of the measurement, the origin first

vars == <<stage, sizing, uses, files, anchor, admission, ticket, queue, running, samples>>

Warm == uses[1]          \* the two schedules a prepared run keeps
Measured == uses[2]

Fresh(kind) ==
    [kind |-> kind, occupancy |-> 0, moved |-> FALSE, sequence |-> 0, attempted |-> 0,
     accepted |-> 0, full |-> 0, consumed |-> 0, checksum |-> 0, originSet |-> FALSE,
     memory |-> "mapped", allocations |-> 0, schedule |-> "decoded",
     complete |-> FALSE, arrived |-> {}]

Fail == stage' = "failed"
Go(next) == stage' = next

-----------------------------------------------------------------------------
(* Storage and schedules                                                   *)

\* The budget is an exact proof or none; without room there is no run.
BudgetStorage ==
    /\ stage = "planned" /\ sizing = None
    /\ \E plan \in Plans :
         sizing' = [plan |-> plan, budget |-> checked_stage_a_storage_budget(plan)]
    /\ IF sizing'.budget # None /\ sizing'.budget.pass THEN Go("budgeted") ELSE Fail
    /\ UNCHANGED <<uses, files, anchor, admission, ticket, queue, running, samples>>

LoadSchedule ==
    /\ stage \in {"budgeted", "loading"} /\ Len(uses) < MaxUses
    /\ \E offer \in Offers :
         LET deadlines == decode_and_validate(offer.record, offer.bytes, offer.derivation)
         IN /\ deadlines # None
            /\ uses' = Append(uses, [record |-> offer.record, deadlines |-> deadlines,
                                     role |-> offer.role, treatment |-> offer.treatment,
                                     family |-> offer.family])
    /\ Go("loading")
    /\ sizing' = None    \* the proof is kept as evidence, its terms are not
    /\ UNCHANGED <<files, anchor, admission, ticket, queue, running, samples>>

CompareUses ==
    /\ stage = "loading" /\ Len(uses) > 1
    /\ IF validate_schedule_uses(uses) THEN Go("matched") ELSE Fail
    /\ UNCHANGED <<sizing, uses, files, anchor, admission, ticket, queue, running, samples>>

\* The plan of the run names the schedule it warms up on and the one it
\* measures.
PlanRun ==
    /\ stage = "matched"
    /\ \E warm, measured \in ToSet(uses) : uses' = <<warm, measured>>
    /\ Go("admitting")
    /\ UNCHANGED <<sizing, files, anchor, admission, ticket, queue, running, samples>>

-----------------------------------------------------------------------------
(* Admission                                                               *)

\* Other people write the evidence: a document calls a file immutable, but
\* nothing keeps it so.  Bound: not after the warm-up began.
WriteFile ==
    /\ stage \in {"admitting", "admitted"}
    /\ \E path \in Paths, content \in Contents :
         /\ files' = [files EXCEPT ![path] = content]
         /\ admission' =
              IF admission = None THEN None
              ELSE [admission EXCEPT !.outdated = @ \cup
                      {n \in 1..admission.hashed : admission.doc.evidence[n].path = path}]
    /\ UNCHANGED <<stage, sizing, uses, anchor, ticket, queue, running, samples>>

selected_worker_pair(placement) == WorkerPairs[placement]

\* Mutant: evidence that may still change is good enough.
reference_holds_mutable(doc, reference) ==
    /\ reference.artifact # None /\ reference.path # None
    /\ reference.binding = doc.binding /\ reference.eligible

reference_holds(doc, reference) ==
    /\ reference.artifact # None /\ reference.path # None
    /\ reference.binding = doc.binding
    /\ reference.immutable /\ reference.eligible

DistinctField(evidence, Field(_)) ==
    \A m, n \in DOMAIN evidence : Field(evidence[m]) = Field(evidence[n]) => m = n

\* Kinds outside the registry are refused while the document is loaded.
load_admission(doc) ==
    /\ \A n \in DOMAIN doc.evidence : doc.evidence[n].kind \in RequiredKinds
    /\ doc.limits # None

validate_admission_fields(doc) ==
    /\ doc.profile = "accepted"
    /\ doc.source = anchor.source /\ doc.binary = anchor.binary
    /\ doc.stand = anchor.stand /\ doc.binding = anchor.binding /\ doc.binding # None
    /\ ~anchor.dirty
    /\ doc.package \in Packages
    /\ doc.placement \in DOMAIN WorkerPairs
    /\ doc.workers = selected_worker_pair(doc.placement)
    /\ \A n \in DOMAIN doc.limits : doc.limits[n] # 0
    /\ DistinctField(doc.evidence, LAMBDA r : r.kind)
    /\ DistinctField(doc.evidence, LAMBDA r : r.artifact)
    /\ \A n \in DOMAIN doc.evidence : reference_holds(doc, doc.evidence[n])
    /\ {doc.evidence[n].kind : n \in DOMAIN doc.evidence} = RequiredKinds

\* The fields are checked first, but the files are hashed whatever they say.
BeginAdmission ==
    /\ stage = "admitting" /\ admission = None
    /\ \E doc \in Admissions :
         /\ load_admission(doc)
         /\ admission' = [doc |-> doc, hashed |-> 0, ok |-> validate_admission_fields(doc),
                           outdated |-> {}]
    /\ UNCHANGED <<stage, sizing, uses, files, anchor, ticket, queue, running, samples>>

\* Mutant: the errors of a file replace those of the files before it.
file_verified_last(ok, reference) == files[reference.path] = reference.sha

\* The errors of the files are collected beside those of the fields.
file_verified(ok, reference) == ok /\ files[reference.path] = reference.sha

\* One file is hashed, while any of them is still written.
VerifyFile ==
    /\ stage = "admitting" /\ admission # None
    /\ admission.hashed < Len(admission.doc.evidence)
    /\ LET reference == admission.doc.evidence[admission.hashed + 1] IN
         admission' = [admission EXCEPT !.hashed = @ + 1,
                                        !.ok = file_verified(@, reference)]
    /\ UNCHANGED <<stage, sizing, uses, files, anchor, ticket, queue, running, samples>>

AdmitRunner ==
    /\ stage = "admitting" /\ admission # None
    /\ admission.hashed = Len(admission.doc.evidence)
    /\ IF admission.ok
       THEN /\ ticket' = [package |-> admission.doc.package, workers |-> admission.doc.workers,
                          placement |-> admission.doc.placement, limits |-> admission.doc.limits,
                          binding |-> admission.doc.binding]
            /\ Go("admitted")
       ELSE UNCHANGED ticket /\ Fail
    /\ UNCHANGED <<sizing, uses, files, anchor, admission, queue, running, samples>>

-----------------------------------------------------------------------------
(* Preparation                                                             *)

\* Mutant: the warm-up may run on the measured schedule.
validate_preparation_shared(warm, measured, ready) == ready = Readiness

\* The preparation loaded the two planned schedules, they are not the same
\* one, and all is ready.
validate_preparation(warm, measured, ready) ==
    /\ Warm.record.id # Measured.record.id
    /\ Warm.record.namespace # Measured.record.namespace
    /\ warm.record.id = Warm.record.id /\ measured.record.id = Measured.record.id
    /\ warm.record.namespace = Warm.record.namespace
    /\ measured.record.namespace = Measured.record.namespace
    /\ ready = Readiness

Prepare ==
    /\ stage = "admitted"
    /\ \E warm, measured \in ToSet(uses),
          ready \in {Readiness} \cup {Readiness \ {part} : part \in Readiness} :
         IF validate_preparation(warm, measured, ready) THEN Go("warming") ELSE Fail
    /\ \E kind \in QueueKinds : queue' = Fresh(kind)
    /\ UNCHANGED <<sizing, uses, files, anchor, admission, ticket, running, samples>>

-----------------------------------------------------------------------------
(* Warm-up and reset                                                       *)

\* The producer attempts a warm arrival after the origin of the warm-up:
\* accepted, or lost to a full queue.
WarmAttempt ==
    /\ stage = "warming" /\ "producer" \notin queue.arrived
    /\ queue.attempted < Len(Warm.deadlines)
    /\ queue' = IF queue.occupancy < Capacity
                THEN [queue EXCEPT !.attempted = @ + 1, !.sequence = @ + 1, !.originSet = TRUE,
                                   !.accepted = @ + 1, !.occupancy = @ + 1, !.moved = TRUE]
                ELSE [queue EXCEPT !.attempted = @ + 1, !.sequence = @ + 1, !.full = @ + 1]
    /\ UNCHANGED <<stage, sizing, uses, files, anchor, admission, ticket, running, samples>>

WarmConsume ==
    /\ stage = "warming" /\ "consumer" \notin queue.arrived /\ queue.occupancy > 0
    /\ queue' = [queue EXCEPT !.occupancy = @ - 1, !.consumed = @ + 1,
                              !.checksum = @ + queue.consumed + 1]
    /\ UNCHANGED <<stage, sizing, uses, files, anchor, admission, ticket, running, samples>>

\* A worker comes to the reset barrier, early if it gave up.
ReachResetBarrier ==
    /\ stage = "warming"
    /\ \E worker \in {"producer", "consumer"} \ queue.arrived :
         queue' = [queue EXCEPT !.arrived = @ \cup {worker},
                                !.complete = @ \/ worker = "producer"]
    /\ UNCHANGED <<stage, sizing, uses, files, anchor, admission, ticket, running, samples>>

validate_warmup_completion(evidence) ==
    /\ evidence.schedule = Warm.record.id /\ evidence.namespace = Warm.record.namespace
    /\ evidence.attempted = evidence.offered
    /\ evidence.producerComplete /\ evidence.drained /\ evidence.barrier
    /\ evidence.isolated

\* What is observed of the warm-up when the workers are asked; isolated says
\* that no row was emitted, nothing resumed, regenerated or allocated.
CompleteWarmup ==
    /\ stage = "warming"
    /\ \E isolated \in BOOLEAN, used \in {Warm, Measured} :
         IF validate_warmup_completion(
              [schedule |-> used.record.id, namespace |-> used.record.namespace,
               offered |-> Len(Warm.deadlines), attempted |-> queue.attempted,
               producerComplete |-> queue.complete, drained |-> queue.occupancy = 0,
               barrier |-> queue.arrived = {"producer", "consumer"}, isolated |-> isolated])
         THEN Go("resetting") ELSE Fail
    /\ UNCHANGED <<sizing, uses, files, anchor, admission, ticket, queue, running, samples>>

ResetParts == {"queue", "logical", "checksum", "origin"}
Mishaps == {"allocated", "remapped", "regenerated"}

\* What the backend does to the queue: the parts it gets to, and what it
\* should not have done on the way.
perform(parts, mishaps) ==
    LET emptied == IF "queue" \in parts
                   THEN [queue EXCEPT !.occupancy = 0, !.moved = FALSE] ELSE queue
        counted == IF "logical" \in parts
                   THEN [emptied EXCEPT !.sequence = 0, !.attempted = 0, !.accepted = 0,
                                        !.full = 0, !.consumed = 0]
                   ELSE emptied
        summed == IF "checksum" \in parts THEN [counted EXCEPT !.checksum = 0] ELSE counted
        timed == IF "origin" \in parts THEN [summed EXCEPT !.originSet = FALSE] ELSE summed
        allocated == IF "allocated" \in mishaps
                     THEN [timed EXCEPT !.allocations = @ + 1] ELSE timed
        remapped == IF "remapped" \in mishaps
                    THEN [allocated EXCEPT !.memory = "remapped"] ELSE allocated
    IN IF "regenerated" \in mishaps
       THEN [remapped EXCEPT !.schedule = "regenerated"] ELSE remapped

\* Mutant: the counters of the workers are not looked at.
validate_logical_reset_counters(after) ==
    /\ after.occupancy = 0 /\ ~after.moved /\ after.checksum = 0 /\ ~after.originSet
    /\ after.memory = queue.memory /\ after.allocations = 0 /\ after.schedule = "decoded"

\* The evidence is what is seen of the queue after the reset: ring positions
\* and slots, or sentinel and recycler, are where they began.
validate_logical_reset(after) ==
    /\ Capacity # 0
    /\ after.kind = queue.kind
    /\ queue.arrived = {"producer", "consumer"}
    /\ after.occupancy = 0 /\ ~after.moved
    /\ \A field \in {"sequence", "attempted", "accepted", "full", "consumed"} : after[field] = 0
    /\ after.checksum = 0 /\ ~after.originSet
    /\ after.memory = queue.memory /\ after.allocations = 0 /\ after.schedule = "decoded"

\* The backend fails, or what it leaves is verified.
perform_and_verify_logical_reset ==
    /\ stage = "resetting"
    /\ \/ Fail /\ UNCHANGED queue
       \/ \E missed \in SUBSET ResetParts, mishaps \in SUBSET Mishaps :
            /\ Cardinality(missed) <= 1 /\ Cardinality(mishaps) <= 1
            /\ queue' = perform(ResetParts \ missed, mishaps)
            /\ IF validate_logical_reset(queue') THEN Go("ready") ELSE Fail
    /\ UNCHANGED <<sizing, uses, files, anchor, admission, ticket, running, samples>>

-----------------------------------------------------------------------------
(* Execution                                                               *)

package_admitted(package) == ticket.package = package

\* The executor's horizon is the end of the schedule, not its length.
View(use) == [deadlines |-> use.deadlines, origin |-> use.record.origin,
              horizon |-> use.record.origin + use.record.horizon]

\* A specialization is entered with the ticket, and the executor looks at
\* the deadlines before it starts a thread.
execute_static_measurement ==
    /\ stage = "ready"
    /\ \E package \in Packages :
         IF package_admitted(package) /\ validate_prepared_schedule(View(Measured))
         THEN Go("measuring") /\ running' = package
         ELSE Fail /\ UNCHANGED running
    /\ UNCHANGED <<sizing, uses, files, anchor, admission, ticket, queue, samples>>

\* The clock of the measurement: the origin, then a reading, then another;
\* the first that cannot be told ends the run.
ReadClock ==
    /\ stage = "measuring" /\ Len(samples) < 3
    /\ \E n \in DOMAIN Times :
         LET last == IF samples = <<>> THEN 1 ELSE samples[Len(samples)].at
             sample == IF samples = <<>> THEN capture_origin(Times[n])
                       ELSE read(samples[1].ns, Times[n])
         IN /\ n >= last
            /\ samples' = Append(samples, [at |-> n, status |-> sample.status,
                                           ns |-> sample.ns, ps |-> sample.ps])
            /\ IF sample.status = "ok" THEN UNCHANGED stage ELSE Fail
    /\ UNCHANGED <<sizing, uses, files, anchor, admission, ticket, queue, running>>

Init ==
    /\ stage = "planned" /\ sizing = None /\ uses = <<>>
    /\ files = [path \in Paths |-> None]
    /\ anchor \in Anchors
    /\ admission = None /\ ticket = None /\ queue = None /\ running = None /\ samples = <<>>

Next ==
    \/ BudgetStorage \/ LoadSchedule \/ CompareUses \/ PlanRun \/ Prepare
    \/ WriteFile \/ BeginAdmission \/ VerifyFile \/ AdmitRunner
    \/ WarmAttempt \/ WarmConsume \/ ReachResetBarrier \/ CompleteWarmup
    \/ perform_and_verify_logical_reset
    \/ execute_static_measurement \/ ReadClock

Spec == Init /\ [][Next]_vars

-----------------------------------------------------------------------------
(* Properties                                                              *)

Stages == <<"planned", "budgeted", "loading", "matched", "admitting", "admitted",
            "warming", "resetting", "ready", "measuring", "failed">>

\* Types: every sample is a word, and the warm queue holds what it can.
PreparationTypeOK ==
    /\ stage \in ToSet(Stages)
    /\ Len(uses) <= MaxUses
    /\ files \in [Paths -> Contents \cup {None}]
    /\ queue # None => queue.occupancy \in 0..Capacity
    /\ running \in Packages \cup {None}
    /\ \A n \in DOMAIN samples : samples[n].ns \in 0..WordMax /\ samples[n].ps \in 0..WordMax

ExactPrefix(run) == ((LengthField + run.name + RowAlignment - 1) \div RowAlignment) * RowAlignment
ExactRaw(run) ==
    3 * (run.scheduled * (ExactPrefix(run) + ProducerBody)
         + run.accepted * (ExactPrefix(run) + ConsumerBody))
    + 2 * run.accepted * (ExactPrefix(run) + JoinedBody)
ExactPages(bytes, page) == ((bytes + page - 1) \div page) * page
ExactMapped(run, page) ==
    ExactPages(run.scheduled * (ExactPrefix(run) + ProducerBody), page)
    + ExactPages(run.scheduled * (ExactPrefix(run) + ConsumerBody), page)
ExactSum(sizes) ==
    LET total[n \in 0..Len(sizes)] == IF n = 0 THEN 0 ELSE total[n - 1] + sizes[n]
    IN  total[Len(sizes)]
ExactRequired(plan) ==
    ExactSum([n \in DOMAIN plan.runs |-> ExactRaw(plan.runs[n])]) + ExactSum(plan.auxiliary)

WellFormed(plan) ==
    /\ plan.page # 0 /\ plan.available # 0
    /\ plan.rtotal = plan.blocks /\ plan.rtotal > 0
    /\ Len(plan.runs) = CellsPerBlock * plan.rtotal
    /\ \A n \in DOMAIN plan.runs :
         /\ plan.runs[n].accepted <= plan.runs[n].scheduled
         /\ plan.runs[n].effective = None
         /\ plan.runs[n].name \in 1..MaxNameBytes

ExactBudget(plan, budget) ==
    IF budget # None
    THEN /\ budget.required = ExactRequired(plan)
         /\ budget.required \in 0..WordMax
         /\ budget.pass <=> plan.available >= ExactRequired(plan)
         /\ \A n \in DOMAIN plan.runs :
              /\ budget.runs[n].mapped = ExactMapped(plan.runs[n], plan.page)
              /\ \A term \in DOMAIN budget.runs[n] : budget.runs[n][term] \in 0..WordMax
    ELSE WellFormed(plan) =>
           \/ ExactRequired(plan) > WordMax
           \/ \E n \in DOMAIN plan.runs : ExactMapped(plan.runs[n], plan.page) > WordMax

\* The arithmetic in words tells the truth up to the edge of a word: a plan
\* that passes really fits, its pages hold the rows with less than a page to
\* spare for each stream, and a well-formed plan is refused only if one of
\* its exact sizes is more than a word.
StorageBudgetIsExact == sizing # None => ExactBudget(sizing.plan, sizing.budget)

\* When the uses were accepted, in whatever order they were loaded, any two
\* treatments of one family get the very same arrivals, a namespace belongs
\* to one role and one sequence of arrivals, and the confirmatory roles come
\* from one parent.
AcceptedUsesAreMatched ==
    stage = "matched" =>
      \A m, n \in DOMAIN uses :
         LET a == uses[m]
             b == uses[n]
         IN /\ a.family = b.family => a.deadlines = b.deadlines
            /\ a.record.namespace = b.record.namespace =>
                 a.role = b.role /\ a.deadlines = b.deadlines
            /\ is_confirmatory_role(a.role) /\ is_confirmatory_role(b.role) =>
                 a.record.parent = b.record.parent

\* The decoder and the executor have the same rule for deadlines: a schedule
\* that was decoded is not refused when the measurement is entered.
DecodedScheduleRuns == stage = "ready" => validate_prepared_schedule(View(Measured))

\* A ticket stands for evidence that was seen: every required kind has a
\* reference for the ticket's binding, declared immutable and eligible, whose
\* file had the declared content when admit_runner hashed it.  The files are
\* hashed one after the other and once, so what it says of each of them now is
\* this much: the content is the declared one, or the file was written after
\* its own hash, whatever became of the other files in between.
TicketMeansEvidenceWasSeen ==
    ticket # None =>
      \A kind \in RequiredKinds : \E n \in DOMAIN admission.doc.evidence :
         LET reference == admission.doc.evidence[n] IN
         /\ reference.kind = kind /\ reference.binding = ticket.binding
         /\ reference.immutable /\ reference.eligible
         /\ files[reference.path] = reference.sha \/ n \in admission.outdated

\* The reset comes after a warm-up that was all there: each of its arrivals
\* was attempted, what the queue took was consumed, both workers wait, and
\* none of it was the namespace that is measured.
WarmupIsWhole ==
    stage = "resetting" =>
      /\ queue.attempted = Len(Warm.deadlines)
      /\ queue.accepted = queue.consumed /\ queue.attempted = queue.accepted + queue.full
      /\ queue.arrived = {"producer", "consumer"}
      /\ Warm.record.namespace # Measured.record.namespace

\* Nothing of the warm-up is left when the measurement begins, and the memory
\* is the memory it warmed, whatever the reset missed or did besides.
MeasurementStartsFresh ==
    stage \in {"ready", "measuring"} =>
      queue = [Fresh(queue.kind) EXCEPT !.complete = TRUE, !.arrived = {"producer", "consumer"}]

\* Samples that were told are exact and in order: seconds, nanoseconds and
\* picoseconds never wrap, and a later reading is no smaller.
ClockKeepsOrder ==
    LET told == {n \in DOMAIN samples : samples[n].status = "ok"} IN
    \A m, n \in told :
       m < n => /\ samples[n].ps - samples[m].ps = (samples[n].ns - samples[m].ns) * PsPerNs
                /\ samples[n].ns = Times[samples[n].at].seconds * NsPerSecond
                                    + Times[samples[n].at].nanoseconds
                /\ samples[m].ps <= samples[n].ps

\* What a measurement starts from: a warm-up that ran to its end, and a reset
\* that left nothing of it behind.
PreparationInv == PreparationTypeOK /\ WarmupIsWhole /\ MeasurementStartsFresh
===============================================================================

------------------------ MODULE RunPreparationProofs ------------------------
(***************************************************************************)
(* Proofs about RunPreparation, for every set of schedules, admissions,    *)
(* files and clock readings: a ticket's evidence was seen, the measurement  *)
(* starts fresh on a schedule that runs, accepted uses are matched, the    *)
(* clock keeps its order, and storage budgets are exact or refused.        *)
(***************************************************************************)
EXTENDS RunPreparation, WellFoundedInduction, TLAPS


-----------------------------------------------------------------------------
(* The inductive invariant                                                 *)

Prepared == {"warming", "resetting", "ready", "measuring"}
Planned == {"admitting", "admitted"} \cup Prepared
Reached == {"planned", "budgeted", "loading", "matched", "failed"} \cup Planned

Decoded(offer) == decode_and_validate(offer.record, offer.bytes, offer.derivation)
DecodedUses ==
    {[record |-> offer.record, deadlines |-> Decoded(offer), role |-> offer.role,
      treatment |-> offer.treatment, family |-> offer.family] :
        offer \in {o \in Offers : Decoded(o) # None}}

\* Uses are schedules that were decoded; a run that is planned has its two.
UsesAreDecoded ==
    /\ stage \in Reached
    /\ uses \in Seq(DecodedUses) /\ Len(uses) <= MaxUses
    /\ stage = "matched" => Len(uses) > 1 /\ validate_schedule_uses(uses)
    /\ stage \in Planned => Len(uses) = 2
    /\ stage \in Prepared => uses[1].record.namespace # uses[2].record.namespace

\* What the fields of an admission say once they passed.
EvidenceIsDeclared(doc) ==
    /\ \A n \in DOMAIN doc.evidence :
         /\ doc.evidence[n].binding = doc.binding /\ doc.evidence[n].path # None
         /\ doc.evidence[n].immutable /\ doc.evidence[n].eligible
    /\ \A kind \in RequiredKinds : \E n \in DOMAIN doc.evidence : doc.evidence[n].kind = kind

\* What the runner knows of its evidence while the files are still written:
\* an admission without an error has its fields right and the files hashed so
\* far as declared, but for those written since; a ticket has all of them.
AdmissionKnows ==
    /\ files \in [Paths -> Contents \cup {None}]
    /\ admission # None =>
         /\ admission \in Admitting
         /\ admission.hashed <= Len(admission.doc.evidence)
         /\ admission.ok =>
              /\ EvidenceIsDeclared(admission.doc)
              /\ \A n \in 1..admission.hashed :
                   \/ files[admission.doc.evidence[n].path] = admission.doc.evidence[n].sha
                   \/ n \in admission.outdated
    /\ ticket # None =>
         /\ admission # None /\ admission.ok
         /\ admission.hashed = Len(admission.doc.evidence)
         /\ ticket.binding = admission.doc.binding

WarmQueues ==
    [kind : QueueKinds, occupancy : 0..Capacity, moved : BOOLEAN, sequence : Nat,
     attempted : Nat, accepted : Nat, full : Nat, consumed : Nat, checksum : Nat,
     originSet : BOOLEAN, memory : {"mapped", "remapped"}, allocations : Nat,
     schedule : {"decoded", "regenerated"}, complete : BOOLEAN,
     arrived : SUBSET {"producer", "consumer"}]

\* What the queue is at each stage of preparation.
QueueKnows ==
    /\ queue = None \/ queue \in WarmQueues
    /\ stage \in Prepared => queue \in WarmQueues
    /\ stage \in {"warming", "resetting"} =>
         /\ queue.memory = "mapped"
         /\ queue.attempted = queue.accepted + queue.full
         /\ queue.accepted = queue.consumed + queue.occupancy
    /\ stage = "resetting" =>
         /\ queue.attempted = Len(uses[1].deadlines) /\ queue.occupancy = 0
         /\ queue.complete /\ queue.arrived = {"producer", "consumer"}
    /\ stage \in {"ready", "measuring"} =>
         queue = [Fresh(queue.kind) EXCEPT !.complete = TRUE,
                                           !.arrived = {"producer", "consumer"}]

SampleStatus == {"ok", "invalid_timespec", "overflow", "call_failed", "before_origin"}
Samples ==
    [at : DOMAIN Times, status : SampleStatus, ns : 0..WordMax, ps : 0..WordMax]

\* Samples are taken in the order of the clock and measured from the first.
SamplesFollowClock ==
    /\ running \in Packages \cup {None}
    /\ samples \in Seq(Samples)
    /\ stage \notin {"measuring", "failed"} => samples = <<>>
    /\ stage = "measuring" => \A n \in DOMAIN samples : samples[n].status = "ok"
    /\ \A m, n \in DOMAIN samples : m <= n => samples[m].at <= samples[n].at
    /\ \A n \in DOMAIN samples :
         samples[n].status = "ok" =>
           /\ read_monotonic_raw_absolute(Times[samples[n].at]).status = "ok"
           /\ samples[n].ns = read_monotonic_raw_absolute(Times[samples[n].at]).ns
           /\ samples[n].ps = (samples[n].ns - samples[1].ns) * PsPerNs

PreparationIndInv ==
    UsesAreDecoded /\ AdmissionKnows /\ QueueKnows /\ SamplesFollowClock
-----------------------------------------------------------------------------
(* Lemmas about the operators                                              *)

\* What decode_and_validate has made sure of: deadlines in order inside a
\* horizon of words, under the hash the record declares.
LEMMA DecodedUseIsSound ==
    ASSUME NEW u \in DecodedUses
    PROVE  /\ u.record.origin \in 0..WordMax /\ u.record.horizon \in 0..WordMax
           /\ in_horizon(u.record, u.deadlines)
           /\ u.record.decodedHash = decoded_hash(u.record, u.deadlines)
<1>1. PICK o \in Offers :
        /\ Decoded(o) # None
        /\ u = [record |-> o.record, deadlines |-> Decoded(o), role |-> o.role,
                treatment |-> o.treatment, family |-> o.family]
  BY DEF DecodedUses
<1>2. /\ Decoded(o) = decoded_deadlines(o.record, o.bytes)
      /\ in_horizon(o.record, decoded_deadlines(o.record, o.bytes))
      /\ o.record.decodedHash = decoded_hash(o.record, decoded_deadlines(o.record, o.bytes))
  BY <1>1 DEF Decoded, decode_and_validate
<1>3. u.record = o.record /\ u.deadlines = Decoded(o)
  BY <1>1
<1>4. {o.record.origin, o.record.horizon} \subseteq 0..WordMax
  BY PreparationAssumption
<1>. QED  BY <1>2, <1>3, <1>4

\* A number of whole units that fits a word when divided fits it multiplied.
LEMMA QuotientBounds ==
    ASSUME NEW w \in Nat, NEW d \in Nat \ {0}, NEW a \in Nat, a <= w \div d
    PROVE  a * d \in 0..w
<1>1. w \div d \in Nat /\ (w \div d) * d <= w
  OBVIOUS
<1>2. a * d <= (w \div d) * d
  BY <1>1
<1>. QED  BY <1>1, <1>2
\* A reading of the machine's clock: a word, or a status that says why not.
LEMMA AbsoluteReading ==
    ASSUME NEW n \in DOMAIN Times
    PROVE  LET absolute == read_monotonic_raw_absolute(Times[n])
           IN /\ absolute.status \in SampleStatus /\ absolute.ns \in 0..WordMax
              /\ absolute.status = "ok" =>
                   /\ Times[n] # None
                   /\ absolute.ns = Times[n].seconds * NsPerSecond + Times[n].nanoseconds
<1>0. WordMax \in Nat /\ NsPerSecond \in Nat \ {0}
  BY InputsAssumption
<1>1. CASE Times[n] = None
  BY <1>0, <1>1 DEF read_monotonic_raw_absolute, SampleStatus
<1>2. CASE Times[n] # None
  <2>1. PICK s \in Int, t \in Int : s = Times[n].seconds /\ t = Times[n].nanoseconds
    BY <1>2, PreparationAssumption
  <2>2. read_monotonic_raw_absolute(Times[n]) = absolute_nanoseconds_from_timespec(s, t)
    BY <1>2, <2>1 DEF read_monotonic_raw_absolute
  <2>3. PICK absolute : absolute = absolute_nanoseconds_from_timespec(s, t)
    OBVIOUS
  <2>4. CASE s < 0 \/ t \notin 0..(NsPerSecond - 1)
    <3>1. absolute = [status |-> "invalid_timespec", ns |-> 0]
      BY <2>3, <2>4 DEF absolute_nanoseconds_from_timespec
    <3>. QED  BY <1>0, <2>2, <2>3, <3>1 DEF SampleStatus
  <2>5. CASE /\ ~(s < 0 \/ t \notin 0..(NsPerSecond - 1))
             /\ s > WordMax \div NsPerSecond \/ t > WordMax - s * NsPerSecond
    <3>1. absolute = [status |-> "overflow", ns |-> 0]
      BY <2>3, <2>5 DEF absolute_nanoseconds_from_timespec
    <3>. QED  BY <1>0, <2>2, <2>3, <3>1 DEF SampleStatus
  <2>6. CASE /\ ~(s < 0 \/ t \notin 0..(NsPerSecond - 1))
             /\ ~(s > WordMax \div NsPerSecond \/ t > WordMax - s * NsPerSecond)
    <3>1. absolute = [status |-> "ok", ns |-> s * NsPerSecond + t]
      BY <2>3, <2>6 DEF absolute_nanoseconds_from_timespec
    <3>2. s \in Nat /\ t \in Nat /\ WordMax \div NsPerSecond \in Nat
      BY <1>0, <2>6
    <3>3. s <= WordMax \div NsPerSecond
      BY <2>6, <3>2
    <3>4. PICK product \in 0..WordMax : product = s * NsPerSecond
      BY <1>0, <3>2, <3>3, QuotientBounds
    <3>5. product + t \in 0..WordMax
      BY <1>0, <2>6, <3>2, <3>4
    <3>. QED  BY <1>2, <2>1, <2>2, <2>3, <3>1, <3>4, <3>5 DEF SampleStatus
  <2>. QED  BY <2>4, <2>5, <2>6
<1>. QED  BY <1>1, <1>2

\* A reading relative to an origin: picoseconds that fit a word, exactly.
LEMMA RelativeReading ==
    ASSUME NEW origin \in 0..WordMax, NEW n \in DOMAIN Times
    PROVE  LET sample == read(origin, Times[n])
               absolute == read_monotonic_raw_absolute(Times[n])
           IN /\ sample.status \in SampleStatus
              /\ sample.ns \in 0..WordMax /\ sample.ps \in 0..WordMax
              /\ sample.status = "ok" =>
                   /\ absolute.status = "ok" /\ sample.ns = absolute.ns
                   /\ sample.ps = (sample.ns - origin) * PsPerNs
<1>0. WordMax \in Nat /\ PsPerNs \in Nat \ {0}
  BY InputsAssumption
<1>1. PICK absolute : absolute = read_monotonic_raw_absolute(Times[n])
  OBVIOUS
<1>2. absolute.status \in SampleStatus /\ absolute.ns \in 0..WordMax
  BY <1>1, AbsoluteReading
<1>3. PICK sample : sample = read(origin, Times[n])
  OBVIOUS
<1>4. CASE absolute.status # "ok"
  <2>1. sample = [status |-> absolute.status, ns |-> 0, ps |-> 0]
    BY <1>1, <1>3, <1>4 DEF read
  <2>. QED  BY <1>0, <1>1, <1>2, <1>3, <1>4, <2>1
<1>5. CASE absolute.status = "ok"
  <2>0. PICK now \in 0..WordMax : now = absolute.ns
    BY <1>2
  <2>1. sample = relative_clock_sample(origin, now)
    BY <1>1, <1>3, <1>5, <2>0 DEF read
  <2>2. CASE now < origin
    <3>1. sample = [status |-> "before_origin", ns |-> 0, ps |-> 0]
      BY <2>1, <2>2 DEF relative_clock_sample
    <3>. QED  BY <1>0, <1>3, <3>1 DEF SampleStatus
  <2>3. CASE ~(now < origin) /\ now - origin > WordMax \div PsPerNs
    <3>1. sample = [status |-> "overflow", ns |-> 0, ps |-> 0]
      BY <2>1, <2>3 DEF relative_clock_sample
    <3>. QED  BY <1>0, <1>3, <3>1 DEF SampleStatus
  <2>4. CASE ~(now < origin) /\ ~(now - origin > WordMax \div PsPerNs)
    <3>1. sample = [status |-> "ok", ns |-> now, ps |-> (now - origin) * PsPerNs]
      BY <2>1, <2>4 DEF relative_clock_sample
    <3>2. now - origin \in Nat /\ WordMax \div PsPerNs \in Nat
      BY <1>0, <2>4
    <3>3. now - origin <= WordMax \div PsPerNs
      BY <2>4, <3>2
    <3>4. (now - origin) * PsPerNs \in 0..WordMax
      BY <1>0, <3>2, <3>3, QuotientBounds
    <3>. QED  BY <1>1, <1>3, <1>5, <2>0, <3>1, <3>4 DEF SampleStatus
  <2>. QED  BY <2>2, <2>3, <2>4
<1>. QED  BY <1>4, <1>5

-----------------------------------------------------------------------------
(* The invariant is inductive                                              *)

LEMMA PreparationInit == Init => PreparationIndInv
<1> SUFFICES ASSUME Init PROVE PreparationIndInv
  OBVIOUS
<1>1. UsesAreDecoded
  BY PreparationAssumption DEF Init, UsesAreDecoded, Reached, Planned, Prepared
<1>2. AdmissionKnows
  BY DEF Init, AdmissionKnows
<1>3. QueueKnows
  BY DEF Init, QueueKnows, Prepared
<1>4. SamplesFollowClock
  BY DEF Init, SamplesFollowClock
<1>. QED  BY <1>1, <1>2, <1>3, <1>4 DEF PreparationIndInv

\* The steps that leave stage and schedules alone.
QuietSteps ==
    WriteFile \/ BeginAdmission \/ VerifyFile \/ WarmAttempt \/ WarmConsume \/ ReachResetBarrier

LEMMA UsesStayDecoded == UsesAreDecoded /\ [Next]_vars => UsesAreDecoded'
<1> SUFFICES ASSUME UsesAreDecoded, [Next]_vars PROVE UsesAreDecoded'
  OBVIOUS
<1> USE DEF Reached, Planned, Prepared
<1>0. ASSUME UNCHANGED uses, stage' = "failed" PROVE UsesAreDecoded'
  BY <1>0 DEF UsesAreDecoded
<1>1. CASE BudgetStorage
  <2>1. UNCHANGED uses /\ stage = "planned" /\ stage' \in {"budgeted", "failed"}
    BY <1>1 DEF BudgetStorage, Go, Fail
  <2>. QED  BY <2>1 DEF UsesAreDecoded
<1>2. CASE LoadSchedule
  <2>1. PICK offer \in Offers :
          /\ Decoded(offer) # None
          /\ uses' = Append(uses, [record |-> offer.record, deadlines |-> Decoded(offer),
                                   role |-> offer.role, treatment |-> offer.treatment,
                                   family |-> offer.family])
    BY <1>2 DEF LoadSchedule, Decoded
  <2>2. [record |-> offer.record, deadlines |-> Decoded(offer), role |-> offer.role,
         treatment |-> offer.treatment, family |-> offer.family] \in DecodedUses
    BY <2>1 DEF DecodedUses
  <2>3. stage' = "loading" /\ Len(uses) < MaxUses
    BY <1>2 DEF LoadSchedule, Go
  <2>4. uses' \in Seq(DecodedUses) /\ Len(uses') = Len(uses) + 1
    BY <2>1, <2>2 DEF UsesAreDecoded
  <2>. QED  BY <2>3, <2>4, PreparationAssumption DEF UsesAreDecoded
<1>3. CASE CompareUses
  <2>1. CASE validate_schedule_uses(uses)
    <3>1. stage' = "matched" /\ Len(uses) > 1 /\ UNCHANGED uses
      BY <1>3, <2>1 DEF CompareUses, Go
    <3>2. validate_schedule_uses(uses)'
      BY <2>1, <3>1
    <3>. QED  BY <3>1, <3>2 DEF UsesAreDecoded
  <2>2. CASE ~validate_schedule_uses(uses)
    BY <1>0, <1>3, <2>2 DEF CompareUses, Fail
  <2>. QED  BY <2>1, <2>2
<1>4. CASE PlanRun
  <2>1. PICK warm \in ToSet(uses), measured \in ToSet(uses) : uses' = <<warm, measured>>
    BY <1>4 DEF PlanRun
  <2>2. warm \in DecodedUses /\ measured \in DecodedUses
    BY DEF ToSet, UsesAreDecoded
  <2>3. stage = "matched" /\ stage' = "admitting"
    BY <1>4 DEF PlanRun, Go
  <2>4. uses' \in Seq(DecodedUses) /\ Len(uses') = 2
    BY <2>1, <2>2
  <2>. QED  BY <2>3, <2>4, PreparationAssumption DEF UsesAreDecoded
<1>5. CASE Prepare
  <2>1. UNCHANGED uses /\ stage = "admitted"
    BY <1>5 DEF Prepare
  <2>2. stage' = "failed" \/ (stage' = "warming" /\ Warm.record.namespace # Measured.record.namespace)
    BY <1>5 DEF Prepare, validate_preparation, Go, Fail
  <2>. QED  BY <1>0, <2>1, <2>2 DEF UsesAreDecoded, Warm, Measured
<1>6. CASE AdmitRunner
  <2>1. UNCHANGED uses /\ stage = "admitting" /\ stage' \in {"admitted", "failed"}
    BY <1>6 DEF AdmitRunner, Go, Fail
  <2>. QED  BY <2>1 DEF UsesAreDecoded
<1>7. CASE CompleteWarmup
  <2>1. UNCHANGED uses /\ stage = "warming" /\ stage' \in {"resetting", "failed"}
    BY <1>7 DEF CompleteWarmup, Go, Fail
  <2>. QED  BY <2>1 DEF UsesAreDecoded
<1>8. CASE perform_and_verify_logical_reset
  <2>1. UNCHANGED uses /\ stage = "resetting" /\ stage' \in {"ready", "failed"}
    BY <1>8 DEF perform_and_verify_logical_reset, Go, Fail
  <2>. QED  BY <2>1 DEF UsesAreDecoded
<1>9. CASE execute_static_measurement
  <2>1. UNCHANGED uses /\ stage = "ready" /\ stage' \in {"measuring", "failed"}
    BY <1>9 DEF execute_static_measurement, Go, Fail
  <2>. QED  BY <2>1 DEF UsesAreDecoded
<1>10. CASE ReadClock
  <2>1. UNCHANGED uses /\ stage = "measuring" /\ stage' \in {"measuring", "failed"}
    BY <1>10 DEF ReadClock, Go, Fail
  <2>. QED  BY <2>1 DEF UsesAreDecoded
<1>11. CASE QuietSteps \/ UNCHANGED vars
  <2>1. UNCHANGED <<stage, uses>>
    BY <1>11 DEF QuietSteps, WriteFile, BeginAdmission, VerifyFile, WarmAttempt, WarmConsume,
                 ReachResetBarrier, vars
  <2>2. validate_schedule_uses(uses)' <=> validate_schedule_uses(uses)
    BY <2>1
  <2>. QED  BY <2>1, <2>2 DEF UsesAreDecoded
<1>. QED
  BY <1>1, <1>2, <1>3, <1>4, <1>5, <1>6, <1>7, <1>8, <1>9, <1>10, <1>11 DEF Next, QuietSteps

LEMMA AdmissionStaysTrue == AdmissionKnows /\ [Next]_vars => AdmissionKnows'
<1> SUFFICES ASSUME AdmissionKnows, [Next]_vars PROVE AdmissionKnows'
  OBVIOUS
<1>1. CASE WriteFile
  <2>1. PICK path \in Paths, content \in Contents :
          /\ files' = [files EXCEPT ![path] = content]
          /\ admission' =
               IF admission = None THEN None
               ELSE [admission EXCEPT !.outdated = @ \cup
                       {n \in 1..admission.hashed : admission.doc.evidence[n].path = path}]
    BY <1>1 DEF WriteFile
  <2>2. UNCHANGED ticket
    BY <1>1 DEF WriteFile
  <2>3. files' \in [Paths -> Contents \cup {None}]
    BY <2>1 DEF AdmissionKnows
  <2>4. CASE admission = None
    BY <2>1, <2>2, <2>3, <2>4 DEF AdmissionKnows
  <2>5. CASE admission # None
    <3>1. admission \in Admitting
      BY <2>5 DEF AdmissionKnows
    <3>2. PICK more : more = {n \in 1..admission.hashed : admission.doc.evidence[n].path = path}
      OBVIOUS
    <3>3. more \in SUBSET Nat
      BY <3>1, <3>2 DEF Admitting
    <3>4. admission' = [admission EXCEPT !.outdated = @ \cup more]
      BY <2>1, <2>5, <3>2
    <3>5. /\ admission' \in Admitting /\ admission'.doc = admission.doc
          /\ admission'.hashed = admission.hashed /\ admission'.ok = admission.ok
          /\ admission'.outdated = admission.outdated \cup more
      BY <3>1, <3>3, <3>4 DEF Admitting
    <3>6. ASSUME admission.ok, NEW n \in 1..admission.hashed
          PROVE  \/ files'[admission.doc.evidence[n].path] = admission.doc.evidence[n].sha
                 \/ n \in admission'.outdated
      <4>1. /\ admission.doc \in Admissions /\ admission.hashed \in Nat
            /\ admission.hashed <= Len(admission.doc.evidence)
            /\ EvidenceIsDeclared(admission.doc)
            /\ \/ files[admission.doc.evidence[n].path] = admission.doc.evidence[n].sha
               \/ n \in admission.outdated
        BY <2>5, <3>6 DEF AdmissionKnows, Admitting
      <4>2. n \in DOMAIN admission.doc.evidence
        BY <4>1, PreparationAssumption
      <4>3. admission.doc.evidence[n].path \in Paths
        BY <4>1, <4>2, PreparationAssumption DEF EvidenceIsDeclared
      <4>4. CASE admission.doc.evidence[n].path = path
        BY <3>2, <3>5, <4>4
      <4>5. CASE admission.doc.evidence[n].path # path
        BY <2>1, <3>5, <4>1, <4>3, <4>5 DEF AdmissionKnows
      <4>. QED  BY <4>4, <4>5
    <3>7. admission' # None
      BY <3>5, PreparationAssumption
    <3>. QED  BY <2>2, <2>3, <2>5, <3>5, <3>6, <3>7 DEF AdmissionKnows
  <2>. QED  BY <2>4, <2>5
<1>2. CASE BeginAdmission
  <2>1. PICK doc \in Admissions :
          admission' = [doc |-> doc, hashed |-> 0, ok |-> validate_admission_fields(doc),
                        outdated |-> {}]
    BY <1>2 DEF BeginAdmission
  <2>2. UNCHANGED <<files, ticket>> /\ admission = None
    BY <1>2 DEF BeginAdmission
  <2>3. validate_admission_fields(doc) \in BOOLEAN
    BY DEF validate_admission_fields
  <2>4. validate_admission_fields(doc) => EvidenceIsDeclared(doc)
    BY DEF validate_admission_fields, EvidenceIsDeclared, reference_holds
  <2>5. ticket = None
    BY <2>2 DEF AdmissionKnows
  <2>6. admission'.doc = doc /\ admission'.hashed = 0
        /\ admission'.ok = validate_admission_fields(doc)
    BY <2>1
  <2>7. admission' \in Admitting
    BY <2>1, <2>3 DEF Admitting
  <2>8. 0 <= Len(doc.evidence) /\ 1..0 = {}
    BY PreparationAssumption
  <2>. QED  BY <2>2, <2>4, <2>5, <2>6, <2>7, <2>8 DEF AdmissionKnows
<1>3. CASE VerifyFile
  <2>1. /\ admission # None /\ admission.hashed < Len(admission.doc.evidence)
        /\ admission' = [admission EXCEPT
             !.hashed = @ + 1,
             !.ok = @ /\ files[admission.doc.evidence[admission.hashed + 1].path] =
                           admission.doc.evidence[admission.hashed + 1].sha]
        /\ UNCHANGED <<files, ticket>>
    BY <1>3 DEF VerifyFile, file_verified
  <2>2. admission \in Admitting /\ Len(admission.doc.evidence) \in Nat
    BY <2>1, PreparationAssumption DEF AdmissionKnows, Admitting
  <2>3. /\ admission'.doc = admission.doc /\ admission'.hashed = admission.hashed + 1
        /\ admission' \in Admitting /\ admission'.outdated = admission.outdated
        /\ admission'.ok =>
             /\ admission.ok
             /\ files[admission.doc.evidence[admission.hashed + 1].path] =
                  admission.doc.evidence[admission.hashed + 1].sha
    <3>1. PICK verdict \in BOOLEAN :
            verdict = (admission.ok /\ files[admission.doc.evidence[admission.hashed + 1].path] =
                                         admission.doc.evidence[admission.hashed + 1].sha)
      BY Zenon
    <3>2. admission' = [admission EXCEPT !.hashed = admission.hashed + 1, !.ok = verdict]
      BY <2>1, <3>1
    <3>3. /\ admission'.doc = admission.doc /\ admission'.hashed = admission.hashed + 1
          /\ admission' \in Admitting /\ admission'.outdated = admission.outdated
          /\ admission'.ok = verdict
      <4>1. PICK count \in Nat : count = admission.hashed
        BY <2>2 DEF Admitting
      <4>2. count + 1 \in Nat
        OBVIOUS
      <4>3. admission' = [admission EXCEPT !.hashed = count + 1, !.ok = verdict]
        BY <3>2, <4>1
      <4>. QED  BY <2>2, <4>1, <4>2, <4>3 DEF Admitting
    <3>. QED  BY <3>1, <3>3
  <2>4. ticket = None
    BY <2>1, <2>2 DEF AdmissionKnows, Admitting
  <2>5. admission'.hashed <= Len(admission.doc.evidence)
    <3>1. PICK count \in Nat, size \in Nat :
            count = admission.hashed /\ size = Len(admission.doc.evidence)
      BY <2>2 DEF Admitting
    <3>2. count < size /\ admission'.hashed = count + 1
      BY <2>1, <2>3, <3>1
    <3>3. count < size => count + 1 <= size
      OBVIOUS
    <3>. QED  BY <3>1, <3>2, <3>3
  <2>6. ASSUME admission'.ok, NEW n \in 1..admission'.hashed
        PROVE  \/ files[admission.doc.evidence[n].path] = admission.doc.evidence[n].sha
               \/ n \in admission.outdated
    <3>1. n \in 1..admission.hashed \/ n = admission.hashed + 1
      BY <2>2, <2>3 DEF Admitting
    <3>. QED  BY <2>1, <2>3, <2>6, <3>1 DEF AdmissionKnows
  <2>7. admission'.ok => EvidenceIsDeclared(admission.doc)
    BY <2>1, <2>3 DEF AdmissionKnows
  <2>. QED  BY <2>1, <2>3, <2>4, <2>5, <2>6, <2>7 DEF AdmissionKnows
<1>4. CASE AdmitRunner
  <2>1. UNCHANGED <<files, admission>> /\ admission # None
        /\ admission.hashed = Len(admission.doc.evidence)
    BY <1>4 DEF AdmitRunner
  <2>2. CASE admission.ok
    <3>1. ticket'.binding = admission.doc.binding
      BY <1>4, <2>2 DEF AdmitRunner
    <3>. QED  BY <2>1, <2>2, <3>1 DEF AdmissionKnows
  <2>3. CASE ~admission.ok
    <3>1. UNCHANGED ticket
      BY <1>4, <2>3 DEF AdmitRunner
    <3>. QED  BY <2>1, <3>1 DEF AdmissionKnows
  <2>. QED  BY <2>2, <2>3
<1>5. CASE UNCHANGED <<files, admission, ticket>>
  BY <1>5 DEF AdmissionKnows
<1>6. [Next]_vars => \/ WriteFile \/ BeginAdmission \/ VerifyFile \/ AdmitRunner
                     \/ UNCHANGED <<files, admission, ticket>>
  BY DEF Next, vars, BudgetStorage, LoadSchedule, CompareUses, PlanRun, Prepare, WarmAttempt,
         WarmConsume, ReachResetBarrier, CompleteWarmup, perform_and_verify_logical_reset,
         execute_static_measurement, ReadClock
<1>. QED  BY <1>1, <1>2, <1>3, <1>4, <1>5, <1>6

\* A queue after a part of the reset: the workers wait where they waited.
StillWaits(q, after) ==
    after \in WarmQueues /\ after.arrived = q.arrived /\ after.complete = q.complete

\* A part of the reset, done or missed, leaves a queue with both workers where
\* they wait; so does what should not have happened.
LEMMA KeptByReset ==
    ASSUME NEW q \in WarmQueues
    PROVE  /\ StillWaits(q, [q EXCEPT !.occupancy = 0, !.moved = FALSE])
           /\ StillWaits(q, [q EXCEPT !.sequence = 0, !.attempted = 0, !.accepted = 0, !.full = 0,
                                          !.consumed = 0])
           /\ StillWaits(q, [q EXCEPT !.checksum = 0])
           /\ StillWaits(q, [q EXCEPT !.originSet = FALSE])
           /\ StillWaits(q, [q EXCEPT !.allocations = @ + 1])
           /\ StillWaits(q, [q EXCEPT !.memory = "remapped"])
           /\ StillWaits(q, [q EXCEPT !.schedule = "regenerated"])
<1>0. 0 \in 0..Capacity
  BY PreparationAssumption
<1>1. StillWaits(q, [q EXCEPT !.occupancy = 0, !.moved = FALSE])
  BY <1>0 DEF WarmQueues, StillWaits
<1>2. StillWaits(q, [q EXCEPT !.sequence = 0, !.attempted = 0, !.accepted = 0, !.full = 0,
                             !.consumed = 0])
  BY <1>0 DEF WarmQueues, StillWaits
<1>3. StillWaits(q, [q EXCEPT !.checksum = 0])
  BY <1>0 DEF WarmQueues, StillWaits
<1>4. StillWaits(q, [q EXCEPT !.originSet = FALSE])
  BY <1>0 DEF WarmQueues, StillWaits
<1>5. StillWaits(q, [q EXCEPT !.allocations = @ + 1])
  BY <1>0 DEF WarmQueues, StillWaits
<1>6. StillWaits(q, [q EXCEPT !.memory = "remapped"])
  BY <1>0 DEF WarmQueues, StillWaits
<1>7. StillWaits(q, [q EXCEPT !.schedule = "regenerated"])
  BY <1>0 DEF WarmQueues, StillWaits
<1>. QED  BY <1>1, <1>2, <1>3, <1>4, <1>5, <1>6, <1>7

\* Two queues with the same fields are the same.
LEMMA QueueFields ==
    ASSUME NEW q \in WarmQueues
    PROVE  q = [kind |-> q.kind, occupancy |-> q.occupancy, moved |-> q.moved,
                sequence |-> q.sequence, attempted |-> q.attempted, accepted |-> q.accepted,
                full |-> q.full, consumed |-> q.consumed, checksum |-> q.checksum,
                originSet |-> q.originSet, memory |-> q.memory, allocations |-> q.allocations,
                schedule |-> q.schedule, complete |-> q.complete, arrived |-> q.arrived]
BY DEF WarmQueues

\* What the run begins with, both workers waiting.
LEMMA FreshFields ==
    ASSUME NEW kind \in QueueKinds
    PROVE  LET fresh == [Fresh(kind) EXCEPT !.complete = TRUE,
                                            !.arrived = {"producer", "consumer"}]
           IN /\ fresh \in WarmQueues
              /\ fresh.kind = kind /\ fresh.occupancy = 0 /\ fresh.moved = FALSE
              /\ fresh.sequence = 0 /\ fresh.attempted = 0 /\ fresh.accepted = 0
              /\ fresh.full = 0 /\ fresh.consumed = 0 /\ fresh.checksum = 0
              /\ fresh.originSet = FALSE /\ fresh.memory = "mapped" /\ fresh.allocations = 0
              /\ fresh.schedule = "decoded" /\ fresh.complete = TRUE
              /\ fresh.arrived = {"producer", "consumer"}
<1>1. PICK new \in WarmQueues : new = Fresh(kind)
  <2>1. 0 \in 0..Capacity
    BY PreparationAssumption
  <2>. QED  BY <2>1 DEF Fresh, WarmQueues
<1>2. /\ new.kind = kind /\ new.occupancy = 0 /\ new.moved = FALSE
      /\ new.sequence = 0 /\ new.attempted = 0 /\ new.accepted = 0
      /\ new.full = 0 /\ new.consumed = 0 /\ new.checksum = 0
      /\ new.originSet = FALSE /\ new.memory = "mapped" /\ new.allocations = 0
      /\ new.schedule = "decoded"
  BY <1>1 DEF Fresh
<1>. QED  BY <1>1, <1>2 DEF WarmQueues

LEMMA QueueStaysKnown == UsesAreDecoded /\ QueueKnows /\ [Next]_vars => QueueKnows'
<1> SUFFICES ASSUME UsesAreDecoded, QueueKnows, [Next]_vars PROVE QueueKnows'
  OBVIOUS
<1> USE DEF Prepared
<1>0. Capacity \in Nat
  BY PreparationAssumption
<1>1. CASE Prepare
  <2>1. PICK kind \in QueueKinds : queue' = Fresh(kind)
    BY <1>1 DEF Prepare
  <2>2. stage' \in {"warming", "failed"}
    BY <1>1 DEF Prepare, Go, Fail
  <2>3. queue' \in WarmQueues
    BY <1>0, <2>1 DEF Fresh, WarmQueues
  <2>4. /\ queue'.memory = "mapped" /\ queue'.attempted = 0 /\ queue'.accepted = 0
        /\ queue'.full = 0 /\ queue'.consumed = 0 /\ queue'.occupancy = 0
    BY <2>1 DEF Fresh
  <2>5. 0 = 0 + 0
    OBVIOUS
  <2>. QED  BY <2>2, <2>3, <2>4, <2>5 DEF QueueKnows
<1>2. CASE WarmAttempt
  <2>1. stage = "warming" /\ UNCHANGED <<stage, uses>>
    BY <1>2 DEF WarmAttempt
  <2>2. PICK q \in WarmQueues : q = queue
    BY <2>1 DEF QueueKnows
  <2>3. /\ q.memory = "mapped" /\ q.attempted = q.accepted + q.full
        /\ q.accepted = q.consumed + q.occupancy
    BY <2>1, <2>2 DEF QueueKnows
  <2>4. PICK attempted \in Nat, accepted \in Nat, full \in Nat, consumed \in Nat, sequence \in Nat,
             occupancy \in 0..Capacity :
          /\ q.attempted = attempted /\ q.accepted = accepted /\ q.full = full
          /\ q.consumed = consumed /\ q.sequence = sequence /\ q.occupancy = occupancy
    BY <2>2 DEF WarmQueues
  <2>5. CASE occupancy < Capacity
    <3>1. queue' = [q EXCEPT !.attempted = attempted + 1, !.sequence = sequence + 1,
                             !.originSet = TRUE, !.accepted = accepted + 1,
                             !.occupancy = occupancy + 1, !.moved = TRUE]
      BY <1>2, <2>2, <2>4, <2>5 DEF WarmAttempt
    <3>2. /\ attempted + 1 \in Nat /\ sequence + 1 \in Nat /\ accepted + 1 \in Nat
          /\ occupancy + 1 \in 0..Capacity
      BY <1>0, <2>5
    <3>3. queue' \in WarmQueues
      BY <2>2, <3>1, <3>2 DEF WarmQueues
    <3>4. /\ queue'.memory = "mapped" /\ queue'.attempted = attempted + 1
          /\ queue'.accepted = accepted + 1 /\ queue'.full = full
          /\ queue'.consumed = consumed /\ queue'.occupancy = occupancy + 1
      BY <2>2, <2>3, <2>4, <3>1 DEF WarmQueues
    <3>5. attempted + 1 = (accepted + 1) + full /\ accepted + 1 = consumed + (occupancy + 1)
      BY <1>0, <2>3, <2>4
    <3>. QED  BY <2>1, <3>3, <3>4, <3>5 DEF QueueKnows
  <2>6. CASE ~(occupancy < Capacity)
    <3>1. queue' = [q EXCEPT !.attempted = attempted + 1, !.sequence = sequence + 1,
                             !.full = full + 1]
      BY <1>2, <2>2, <2>4, <2>6 DEF WarmAttempt
    <3>2. attempted + 1 \in Nat /\ sequence + 1 \in Nat /\ full + 1 \in Nat
      OBVIOUS
    <3>3. queue' \in WarmQueues
      BY <2>2, <3>1, <3>2 DEF WarmQueues
    <3>4. /\ queue'.memory = "mapped" /\ queue'.attempted = attempted + 1
          /\ queue'.accepted = accepted /\ queue'.full = full + 1
          /\ queue'.consumed = consumed /\ queue'.occupancy = occupancy
      BY <2>2, <2>3, <2>4, <3>1 DEF WarmQueues
    <3>5. attempted + 1 = accepted + (full + 1) /\ accepted = consumed + occupancy
      BY <2>3, <2>4
    <3>. QED  BY <2>1, <3>3, <3>4, <3>5 DEF QueueKnows
  <2>. QED  BY <2>5, <2>6
<1>3. CASE WarmConsume
  <2>1. stage = "warming" /\ UNCHANGED <<stage, uses>> /\ queue.occupancy > 0
    BY <1>3 DEF WarmConsume
  <2>2. PICK q \in WarmQueues : q = queue
    BY <2>1 DEF QueueKnows
  <2>3. /\ q.memory = "mapped" /\ q.attempted = q.accepted + q.full
        /\ q.accepted = q.consumed + q.occupancy
    BY <2>1, <2>2 DEF QueueKnows
  <2>4. PICK accepted \in Nat, consumed \in Nat, checksum \in Nat, occupancy \in 0..Capacity :
          /\ q.accepted = accepted /\ q.consumed = consumed /\ q.checksum = checksum
          /\ q.occupancy = occupancy
    BY <2>2 DEF WarmQueues
  <2>5. queue' = [q EXCEPT !.occupancy = occupancy - 1, !.consumed = consumed + 1,
                           !.checksum = checksum + consumed + 1]
    BY <1>3, <2>2, <2>4 DEF WarmConsume
  <2>6. /\ occupancy - 1 \in 0..Capacity /\ consumed + 1 \in Nat
        /\ checksum + consumed + 1 \in Nat
    BY <1>0, <2>1, <2>2, <2>4
  <2>7. queue' \in WarmQueues
    BY <2>2, <2>5, <2>6 DEF WarmQueues
  <2>8. /\ queue'.memory = "mapped" /\ queue'.attempted = q.attempted
        /\ queue'.accepted = accepted /\ queue'.full = q.full
        /\ queue'.consumed = consumed + 1 /\ queue'.occupancy = occupancy - 1
    BY <2>2, <2>3, <2>4, <2>5 DEF WarmQueues
  <2>9. accepted = (consumed + 1) + (occupancy - 1)
    BY <1>0, <2>3, <2>4
  <2>. QED  BY <2>1, <2>3, <2>4, <2>7, <2>8, <2>9 DEF QueueKnows
<1>4. CASE ReachResetBarrier
  <2>1. stage = "warming" /\ UNCHANGED <<stage, uses>>
    BY <1>4 DEF ReachResetBarrier
  <2>2. PICK q \in WarmQueues : q = queue
    BY <2>1 DEF QueueKnows
  <2>3. /\ q.memory = "mapped" /\ q.attempted = q.accepted + q.full
        /\ q.accepted = q.consumed + q.occupancy
    BY <2>1, <2>2 DEF QueueKnows
  <2>4. PICK worker \in {"producer", "consumer"} :
          queue' = [q EXCEPT !.arrived = q.arrived \cup {worker},
                             !.complete = q.complete \/ worker = "producer"]
    BY <1>4, <2>2 DEF ReachResetBarrier
  <2>5. PICK complete \in BOOLEAN : complete = (q.complete \/ worker = "producer")
    BY Zenon
  <2>6. q.arrived \cup {worker} \in SUBSET {"producer", "consumer"}
    BY <2>2 DEF WarmQueues
  <2>7. queue' = [q EXCEPT !.arrived = q.arrived \cup {worker}, !.complete = complete]
    BY <2>4, <2>5
  <2>8. queue' \in WarmQueues
    BY <2>2, <2>6, <2>7 DEF WarmQueues
  <2>9. /\ queue'.memory = q.memory /\ queue'.attempted = q.attempted
        /\ queue'.accepted = q.accepted /\ queue'.full = q.full
        /\ queue'.consumed = q.consumed /\ queue'.occupancy = q.occupancy
    BY <2>2, <2>7 DEF WarmQueues
  <2>. QED  BY <2>1, <2>3, <2>8, <2>9 DEF QueueKnows
<1>5. CASE CompleteWarmup
  <2>1. stage = "warming" /\ UNCHANGED <<uses, queue>> /\ stage' \in {"resetting", "failed"}
    BY <1>5 DEF CompleteWarmup, Go, Fail
  <2>2. queue \in WarmQueues
    BY <2>1 DEF QueueKnows
  <2>3. ASSUME stage' = "resetting"
        PROVE  /\ queue.attempted = Len(uses[1].deadlines) /\ queue.occupancy = 0
               /\ queue.complete /\ queue.arrived = {"producer", "consumer"}
    <3>1. PICK isolated \in BOOLEAN, used \in {Warm, Measured} :
            validate_warmup_completion(
              [schedule |-> used.record.id, namespace |-> used.record.namespace,
               offered |-> Len(Warm.deadlines), attempted |-> queue.attempted,
               producerComplete |-> queue.complete, drained |-> queue.occupancy = 0,
               barrier |-> queue.arrived = {"producer", "consumer"}, isolated |-> isolated])
      BY <1>5, <2>3 DEF CompleteWarmup, Go, Fail
    <3>. QED  BY <3>1 DEF validate_warmup_completion, Warm
  <2>. QED  BY <2>1, <2>2, <2>3 DEF QueueKnows
<1>6. CASE perform_and_verify_logical_reset
  <2>1. stage = "resetting" /\ UNCHANGED uses
    BY <1>6 DEF perform_and_verify_logical_reset
  <2>2. PICK q \in WarmQueues : q = queue /\ q.memory = "mapped" /\ q.complete
                                /\ q.arrived = {"producer", "consumer"}
    BY <2>1 DEF QueueKnows
  <2>3. CASE stage' = "failed" /\ UNCHANGED queue
    BY <2>2, <2>3 DEF QueueKnows
  <2>4. CASE \E missed \in SUBSET ResetParts, mishaps \in SUBSET Mishaps :
               /\ queue' = perform(ResetParts \ missed, mishaps)
               /\ IF validate_logical_reset(queue') THEN Go("ready") ELSE Fail
    <3>1. PICK missed \in SUBSET ResetParts, mishaps \in SUBSET Mishaps :
            /\ queue' = perform(ResetParts \ missed, mishaps)
            /\ IF validate_logical_reset(queue') THEN Go("ready") ELSE Fail
      BY <2>4
    <3>2. queue' \in WarmQueues /\ queue'.arrived = q.arrived /\ queue'.complete = q.complete
      <4> DEFINE parts == ResetParts \ missed
                 emptied == IF "queue" \in parts
                   THEN [queue EXCEPT !.occupancy = 0, !.moved = FALSE]
                   ELSE queue
                 counted == IF "logical" \in parts
                   THEN [emptied EXCEPT !.sequence = 0, !.attempted = 0, !.accepted = 0,
                                                 !.full = 0, !.consumed = 0]
                   ELSE emptied
                 summed == IF "checksum" \in parts
                   THEN [counted EXCEPT !.checksum = 0]
                   ELSE counted
                 timed == IF "origin" \in parts
                   THEN [summed EXCEPT !.originSet = FALSE]
                   ELSE summed
                 allocated == IF "allocated" \in mishaps
                   THEN [timed EXCEPT !.allocations = @ + 1]
                   ELSE timed
                 remapped == IF "remapped" \in mishaps
                   THEN [allocated EXCEPT !.memory = "remapped"]
                   ELSE allocated
                 regenerated == IF "regenerated" \in mishaps
                   THEN [remapped EXCEPT !.schedule = "regenerated"]
                   ELSE remapped
      <4>1. queue' = regenerated
        BY <3>1 DEF perform
      <4>2. StillWaits(queue, queue)
        BY <2>2 DEF StillWaits
      <4>3. StillWaits(queue, emptied)
        <5>1. queue \in WarmQueues
          BY <4>2 DEF StillWaits
        <5>2. StillWaits(queue, [queue EXCEPT !.occupancy = 0, !.moved = FALSE])
          BY <5>1, KeptByReset
        <5>. QED  BY <4>2, <5>2 DEF StillWaits
      <4> HIDE DEF emptied
      <4>4. StillWaits(queue, counted)
        <5>1. emptied \in WarmQueues
          BY <4>3 DEF StillWaits
        <5>2. StillWaits(emptied, [emptied EXCEPT !.sequence = 0, !.attempted = 0, !.accepted = 0, !.full = 0,
                                            !.consumed = 0])
          BY <5>1, KeptByReset
        <5>. QED  BY <4>3, <5>2 DEF StillWaits
      <4> HIDE DEF counted
      <4>5. StillWaits(queue, summed)
        <5>1. counted \in WarmQueues
          BY <4>4 DEF StillWaits
        <5>2. StillWaits(counted, [counted EXCEPT !.checksum = 0])
          BY <5>1, KeptByReset
        <5>. QED  BY <4>4, <5>2 DEF StillWaits
      <4> HIDE DEF summed
      <4>6. StillWaits(queue, timed)
        <5>1. summed \in WarmQueues
          BY <4>5 DEF StillWaits
        <5>2. StillWaits(summed, [summed EXCEPT !.originSet = FALSE])
          BY <5>1, KeptByReset
        <5>. QED  BY <4>5, <5>2 DEF StillWaits
      <4> HIDE DEF timed
      <4>7. StillWaits(queue, allocated)
        <5>1. timed \in WarmQueues
          BY <4>6 DEF StillWaits
        <5>2. StillWaits(timed, [timed EXCEPT !.allocations = @ + 1])
          BY <5>1, KeptByReset
        <5>. QED  BY <4>6, <5>2 DEF StillWaits
      <4> HIDE DEF allocated
      <4>8. StillWaits(queue, remapped)
        <5>1. allocated \in WarmQueues
          BY <4>7 DEF StillWaits
        <5>2. StillWaits(allocated, [allocated EXCEPT !.memory = "remapped"])
          BY <5>1, KeptByReset
        <5>. QED  BY <4>7, <5>2 DEF StillWaits
      <4> HIDE DEF remapped
      <4>9. StillWaits(queue, regenerated)
        <5>1. remapped \in WarmQueues
          BY <4>8 DEF StillWaits
        <5>2. StillWaits(remapped, [remapped EXCEPT !.schedule = "regenerated"])
          BY <5>1, KeptByReset
        <5>. QED  BY <4>8, <5>2 DEF StillWaits
      <4> HIDE DEF regenerated
      <4>. QED  BY <2>2, <4>1, <4>9 DEF StillWaits
    <3>3. CASE validate_logical_reset(queue')
      <4>1. stage' = "ready"
        BY <3>1, <3>3 DEF Go
      <4>2. /\ queue'.kind = q.kind /\ queue'.occupancy = 0 /\ queue'.moved = FALSE
            /\ queue'.checksum = 0 /\ queue'.originSet = FALSE /\ queue'.memory = "mapped"
            /\ queue'.allocations = 0 /\ queue'.schedule = "decoded"
        BY <2>2, <3>2, <3>3 DEF validate_logical_reset, WarmQueues
      <4>3. /\ queue'.sequence = 0 /\ queue'.attempted = 0 /\ queue'.accepted = 0
            /\ queue'.full = 0 /\ queue'.consumed = 0
        BY <3>2, <3>3 DEF validate_logical_reset, WarmQueues
      <4>4. queue'.complete = TRUE /\ queue'.arrived = {"producer", "consumer"}
        BY <2>2, <3>2 DEF WarmQueues
      <4>5. queue' = [Fresh(queue'.kind) EXCEPT !.complete = TRUE,
                                                !.arrived = {"producer", "consumer"}]
        <5>1. PICK left \in WarmQueues : left = queue'
          BY <3>2
        <5>2. PICK kind \in QueueKinds : kind = left.kind
          BY DEF WarmQueues
        <5>3. PICK fresh : fresh = [Fresh(kind) EXCEPT !.complete = TRUE,
                                                       !.arrived = {"producer", "consumer"}]
          OBVIOUS
        <5>4. /\ fresh \in WarmQueues
              /\ fresh.kind = kind /\ fresh.occupancy = 0 /\ fresh.moved = FALSE
              /\ fresh.sequence = 0 /\ fresh.attempted = 0 /\ fresh.accepted = 0
              /\ fresh.full = 0 /\ fresh.consumed = 0 /\ fresh.checksum = 0
              /\ fresh.originSet = FALSE /\ fresh.memory = "mapped" /\ fresh.allocations = 0
              /\ fresh.schedule = "decoded" /\ fresh.complete = TRUE
              /\ fresh.arrived = {"producer", "consumer"}
          BY <5>3, FreshFields, Zenon
        <5>5. left = [kind |-> left.kind, occupancy |-> left.occupancy, moved |-> left.moved,
                      sequence |-> left.sequence, attempted |-> left.attempted, accepted |-> left.accepted,
                      full |-> left.full, consumed |-> left.consumed, checksum |-> left.checksum,
                      originSet |-> left.originSet, memory |-> left.memory, allocations |-> left.allocations,
                      schedule |-> left.schedule, complete |-> left.complete, arrived |-> left.arrived]
          BY QueueFields
        <5>6. fresh = [kind |-> fresh.kind, occupancy |-> fresh.occupancy, moved |-> fresh.moved,
                       sequence |-> fresh.sequence, attempted |-> fresh.attempted, accepted |-> fresh.accepted,
                       full |-> fresh.full, consumed |-> fresh.consumed, checksum |-> fresh.checksum,
                       originSet |-> fresh.originSet, memory |-> fresh.memory, allocations |-> fresh.allocations,
                       schedule |-> fresh.schedule, complete |-> fresh.complete, arrived |-> fresh.arrived]
          BY <5>4, QueueFields
        <5>7. left = fresh
          <6>1. /\ left.kind = fresh.kind /\ left.occupancy = fresh.occupancy
                /\ left.moved = fresh.moved /\ left.sequence = fresh.sequence
                /\ left.attempted = fresh.attempted /\ left.accepted = fresh.accepted
                /\ left.full = fresh.full /\ left.consumed = fresh.consumed
                /\ left.checksum = fresh.checksum /\ left.originSet = fresh.originSet
                /\ left.memory = fresh.memory /\ left.allocations = fresh.allocations
                /\ left.schedule = fresh.schedule /\ left.complete = fresh.complete
                /\ left.arrived = fresh.arrived
            BY <4>2, <4>3, <4>4, <5>1, <5>2, <5>4
          <6>. QED  BY <5>5, <5>6, <6>1, Zenon
        <5>. QED  BY <5>1, <5>2, <5>3, <5>7
      <4>. QED  BY <3>2, <4>1, <4>5 DEF QueueKnows
    <3>4. CASE ~validate_logical_reset(queue')
      <4>1. stage' = "failed"
        BY <3>1, <3>4 DEF Fail
      <4>. QED  BY <3>2, <4>1 DEF QueueKnows
    <3>. QED  BY <3>3, <3>4
  <2>. QED  BY <1>6, <2>3, <2>4 DEF perform_and_verify_logical_reset, Fail
<1>7. CASE UNCHANGED <<uses, queue>> /\ stage' \notin {"warming", "resetting", "ready", "measuring"}
  BY <1>7 DEF QueueKnows
<1>8. CASE UNCHANGED <<uses, queue, stage>>
  BY <1>8 DEF QueueKnows
<1>9. CASE execute_static_measurement \/ ReadClock
  <2>1. /\ UNCHANGED <<uses, queue>> /\ stage \in {"ready", "measuring"}
        /\ stage' \in {"measuring", "failed"}
    BY <1>9 DEF execute_static_measurement, ReadClock, Go, Fail
  <2>. QED  BY <2>1 DEF QueueKnows
<1>10. CASE LoadSchedule \/ PlanRun
  <2>1. UNCHANGED queue /\ stage' \in {"loading", "admitting"}
    BY <1>10 DEF LoadSchedule, PlanRun, Go
  <2>. QED  BY <2>1 DEF QueueKnows
<1>11. \/ BudgetStorage \/ CompareUses \/ AdmitRunner
       \/ WriteFile \/ BeginAdmission \/ VerifyFile \/ UNCHANGED vars
       => \/ UNCHANGED <<uses, queue>>
             /\ stage' \notin {"warming", "resetting", "ready", "measuring"}
          \/ UNCHANGED <<uses, queue, stage>>
  BY DEF BudgetStorage, CompareUses, AdmitRunner, WriteFile, BeginAdmission, VerifyFile, vars,
         Go, Fail
<1>. QED
  BY <1>1, <1>2, <1>3, <1>4, <1>5, <1>6, <1>7, <1>8, <1>9, <1>10, <1>11 DEF Next

LEMMA SamplesKeepFollowing == SamplesFollowClock /\ [Next]_vars => SamplesFollowClock'
<1> SUFFICES ASSUME SamplesFollowClock, [Next]_vars PROVE SamplesFollowClock'
  OBVIOUS
<1>1. CASE UNCHANGED <<samples, running>>
           /\ (UNCHANGED stage \/ (stage \notin {"measuring", "failed"} /\ stage' # "measuring"))
  BY <1>1 DEF SamplesFollowClock
<1>2. CASE execute_static_measurement
  <2>1. stage = "ready" /\ UNCHANGED samples /\ running' \in Packages \cup {None}
    BY <1>2 DEF execute_static_measurement, SamplesFollowClock
  <2>2. samples = <<>>
    BY <2>1 DEF SamplesFollowClock
  <2>3. samples' = <<>> /\ DOMAIN samples' = {}
    BY <2>1, <2>2
  <2>. QED  BY <2>1, <2>3 DEF SamplesFollowClock
<1>3. CASE ReadClock
  <2>. DEFINE Latest == IF samples = <<>> THEN 1 ELSE samples[Len(samples)].at
              Taken(n) == IF samples = <<>> THEN capture_origin(Times[n])
                          ELSE read(samples[1].ns, Times[n])
  <2>0. PICK n \in DOMAIN Times :
          /\ n >= Latest
          /\ samples' = Append(samples, [at |-> n, status |-> Taken(n).status,
                                         ns |-> Taken(n).ns, ps |-> Taken(n).ps])
          /\ IF Taken(n).status = "ok" THEN UNCHANGED stage ELSE Fail
    BY <1>3, Zenon DEF ReadClock
  <2>1. PICK last, sample :
          /\ last = Latest /\ sample = Taken(n)
          /\ n >= last
          /\ samples' = Append(samples, [at |-> n, status |-> sample.status,
                                         ns |-> sample.ns, ps |-> sample.ps])
          /\ IF sample.status = "ok" THEN UNCHANGED stage ELSE Fail
    <3>. HIDE DEF Latest, Taken
    <3>. QED  BY <2>0, Zenon
  <2>2. stage = "measuring" /\ UNCHANGED running
    BY <1>3 DEF ReadClock
  <2>3. PICK k \in Nat : k = Len(samples)
    BY DEF SamplesFollowClock
  <2>4. /\ samples \in Seq(Samples) /\ \A m \in 1..k : samples[m] \in Samples
        /\ \A m \in 1..k : samples[m].status = "ok"
    BY <2>2, <2>3 DEF SamplesFollowClock
  <2>5. PICK absolute : absolute = read_monotonic_raw_absolute(Times[n])
    OBVIOUS
  <2>6. /\ sample.status \in SampleStatus
        /\ sample.ns \in 0..WordMax /\ sample.ps \in 0..WordMax
        /\ sample.status = "ok" => absolute.status = "ok" /\ sample.ns = absolute.ns
        /\ k = 0 => sample.ps = 0
        /\ k # 0 /\ sample.status = "ok" => sample.ps = (sample.ns - samples[1].ns) * PsPerNs
    <3>1. CASE k = 0
      <4>1. sample = [status |-> absolute.status, ns |-> absolute.ns, ps |-> 0]
        <5>1. samples = <<>>
          <6>1. PICK taken \in Seq(Samples) : taken = samples
            BY <2>4
          <6>2. Len(taken) = 0 => taken = <<>>
            OBVIOUS
          <6>. QED  BY <2>3, <3>1, <6>1, <6>2
        <5>2. sample = capture_origin(Times[n])
          BY <2>1, <5>1
        <5>. QED  BY <2>5, <5>2 DEF capture_origin
      <4>2. absolute.status \in SampleStatus /\ absolute.ns \in 0..WordMax
        BY <2>5, AbsoluteReading
      <4>3. 0 \in 0..WordMax
        BY InputsAssumption
      <4>. QED  BY <3>1, <4>1, <4>2, <4>3
    <3>2. CASE k # 0
      <4>1. 1 \in 1..k /\ samples # <<>>
        BY <2>3, <3>2
      <4>2. PICK origin \in 0..WordMax : origin = samples[1].ns
        BY <2>4, <4>1 DEF Samples
      <4>3. sample = read(origin, Times[n])
        BY <2>1, <4>1, <4>2
      <4>. QED  BY <2>5, <3>2, <4>2, <4>3, RelativeReading
    <3>. QED  BY <3>1, <3>2
  <2>7. PICK new \in Samples :
          /\ new = [at |-> n, status |-> sample.status, ns |-> sample.ns, ps |-> sample.ps]
          /\ new.at = n /\ new.status = sample.status /\ new.ns = sample.ns
          /\ new.ps = sample.ps
    <3>1. PICK status \in SampleStatus, ns \in 0..WordMax, ps \in 0..WordMax :
            status = sample.status /\ ns = sample.ns /\ ps = sample.ps
      BY <2>6
    <3>2. PICK new : new = [at |-> n, status |-> status, ns |-> ns, ps |-> ps]
      OBVIOUS
    <3>3. /\ new \in Samples /\ new.at = n /\ new.status = status /\ new.ns = ns
          /\ new.ps = ps
      BY <3>1, <3>2 DEF Samples
    <3>. QED  BY <3>1, <3>2, <3>3
  <2>8. /\ samples' \in Seq(Samples) /\ DOMAIN samples' = 1..(k + 1)
        /\ samples'[k + 1] = new /\ \A m \in 1..k : samples'[m] = samples[m]
    BY <2>1, <2>3, <2>4, <2>7
  <2>9. /\ stage' \in {"measuring", "failed"}
        /\ stage' = "measuring" => sample.status = "ok"
    BY <2>1, <2>2 DEF Fail
  <2>10. \A m \in 1..(k + 1) : m \in 1..k \/ m = k + 1
    OBVIOUS
  <2>11. ASSUME stage' = "measuring", NEW m \in 1..(k + 1) PROVE samples'[m].status = "ok"
    BY <2>4, <2>7, <2>8, <2>9, <2>10, <2>11
  <2>12. ASSUME NEW l \in 1..(k + 1), NEW m \in 1..(k + 1), l <= m
         PROVE  samples'[l].at <= samples'[m].at
    <3>0. DOMAIN Times \subseteq Nat /\ DOMAIN samples = 1..k
      BY <2>3, <2>4, PreparationAssumption
    <3>1. CASE m \in 1..k
      <4>1. l \in 1..k
        BY <2>12, <3>1
      <4>. QED  BY <2>8, <2>12, <3>0, <3>1, <4>1 DEF SamplesFollowClock
    <3>2. CASE m = k + 1 /\ l = k + 1
      BY <2>7, <2>8, <3>0, <3>2
    <3>3. CASE m = k + 1 /\ l \in 1..k
      <4>1. k \in 1..k /\ l <= k /\ samples # <<>>
        BY <2>3, <3>3
      <4>2. PICK a \in Nat, b \in Nat : a = samples[l].at /\ b = samples[k].at
        BY <2>4, <3>0, <3>3, <4>1 DEF Samples
      <4>3. a <= b
        BY <3>0, <3>3, <4>1, <4>2 DEF SamplesFollowClock
      <4>4. n \in Nat /\ b <= n
        BY <2>1, <2>3, <3>0, <4>1, <4>2
      <4>5. samples'[l].at = a /\ samples'[m].at = n
        BY <2>7, <2>8, <3>3, <4>2
      <4>. QED  BY <4>3, <4>4, <4>5
    <3>. QED  BY <2>10, <3>1, <3>2, <3>3
  <2>13. ASSUME NEW m \in 1..(k + 1), samples'[m].status = "ok"
         PROVE  /\ read_monotonic_raw_absolute(Times[samples'[m].at]).status = "ok"
                /\ samples'[m].ns = read_monotonic_raw_absolute(Times[samples'[m].at]).ns
                /\ samples'[m].ps = (samples'[m].ns - samples'[1].ns) * PsPerNs
    <3>1. CASE m \in 1..k
      <4>1. 1 \in 1..k /\ DOMAIN samples = 1..k
        BY <2>3, <2>4, <3>1
      <4>2. samples'[m] = samples[m] /\ samples'[1] = samples[1]
        BY <2>8, <3>1, <4>1
      <4>. QED  BY <2>13, <3>1, <4>1, <4>2 DEF SamplesFollowClock
    <3>2. CASE m = k + 1
      <4>1. /\ samples'[m].at = n /\ samples'[m].status = sample.status
            /\ samples'[m].ns = sample.ns /\ samples'[m].ps = sample.ps
        BY <2>7, <2>8, <3>2
      <4>2. sample.ps = (sample.ns - samples'[1].ns) * PsPerNs
        <5>1. CASE k = 0
          <6>1. samples'[1].ns = sample.ns
            BY <3>2, <4>1, <5>1
          <6>2. \A x \in 0..WordMax : x - x = 0
            BY InputsAssumption
          <6>3. 0 * PsPerNs = 0
            BY InputsAssumption
          <6>. QED  BY <2>6, <5>1, <6>1, <6>2, <6>3
        <5>2. CASE k # 0
          <6>1. 1 \in 1..k
            BY <5>2
          <6>2. samples'[1] = samples[1]
            BY <2>8, <6>1
          <6>. QED  BY <2>6, <2>13, <4>1, <5>2, <6>2
        <5>. QED  BY <5>1, <5>2
      <4>. QED  BY <2>5, <2>6, <2>13, <4>1, <4>2
    <3>. QED  BY <2>10, <3>1, <3>2
  <2>. QED  BY <2>2, <2>8, <2>9, <2>11, <2>12, <2>13 DEF SamplesFollowClock
<1>4. [Next]_vars =>
        \/ execute_static_measurement \/ ReadClock
        \/ /\ UNCHANGED <<samples, running>>
           /\ \/ UNCHANGED stage
              \/ stage \notin {"measuring", "failed"} /\ stage' # "measuring"
  BY DEF Next, vars, BudgetStorage, LoadSchedule, CompareUses, PlanRun, Prepare, WriteFile,
         BeginAdmission, VerifyFile, AdmitRunner, WarmAttempt, WarmConsume, ReachResetBarrier,
         CompleteWarmup, perform_and_verify_logical_reset, Go, Fail
<1>. QED  BY <1>1, <1>2, <1>3, <1>4

-----------------------------------------------------------------------------
(* Theorems                                                                *)

\* What the steps from the storage plan to the last clock reading keep, for
\* all schedules, admissions, files and readings.
THEOREM PreparationInvariant == Spec => []PreparationIndInv
<1>1. PreparationIndInv /\ [Next]_vars => PreparationIndInv'
  BY UsesStayDecoded, AdmissionStaysTrue, QueueStaysKnown, SamplesKeepFollowing
     DEF PreparationIndInv
<1>. QED  BY PreparationInit, <1>1, PTL DEF Spec

\* A measurement starts from a whole warm-up and a reset that left nothing of
\* it behind (validate_warmup_completion, perform_and_verify_logical_reset).
THEOREM MeasurementIsPrepared == Spec => []PreparationInv
<1>1. PreparationIndInv => PreparationInv
  <2> SUFFICES ASSUME PreparationIndInv PROVE PreparationInv
    OBVIOUS
  <2>1. PreparationTypeOK
    <3>1. stage \in ToSet(Stages)
      <4>1. \A n \in 1..11 : Stages[n] \in ToSet(Stages)
        BY DEF Stages, ToSet
      <4>2. stage \in {Stages[n] : n \in 1..11}
        BY DEF PreparationIndInv, UsesAreDecoded, Reached, Planned, Prepared, Stages
      <4>. QED  BY <4>1, <4>2
    <3>2. Len(uses) <= MaxUses /\ files \in [Paths -> Contents \cup {None}]
          /\ running \in Packages \cup {None}
      BY DEF PreparationIndInv, UsesAreDecoded, AdmissionKnows, SamplesFollowClock
    <3>3. queue # None => queue.occupancy \in 0..Capacity
      BY DEF PreparationIndInv, QueueKnows, WarmQueues
    <3>4. ASSUME NEW n \in DOMAIN samples
          PROVE  samples[n].ns \in 0..WordMax /\ samples[n].ps \in 0..WordMax
      <4>1. samples[n] \in Samples
        BY DEF PreparationIndInv, SamplesFollowClock
      <4>. QED  BY <4>1 DEF Samples
    <3>. QED  BY <3>1, <3>2, <3>3, <3>4 DEF PreparationTypeOK
  <2>2. WarmupIsWhole
    <3> SUFFICES ASSUME stage = "resetting" PROVE WarmupIsWhole
      BY DEF WarmupIsWhole
    <3>1. PICK q \in WarmQueues : q = queue
      BY DEF PreparationIndInv, QueueKnows, Prepared
    <3>2. /\ q.attempted = Len(uses[1].deadlines) /\ q.occupancy = 0
          /\ q.arrived = {"producer", "consumer"} /\ q.attempted = q.accepted + q.full
          /\ q.accepted = q.consumed + q.occupancy
      BY <3>1 DEF PreparationIndInv, QueueKnows
    <3>3. q.accepted \in Nat /\ q.consumed \in Nat
      BY DEF WarmQueues
    <3>4. q.accepted = q.consumed
      BY <3>2, <3>3
    <3>5. uses[1].record.namespace # uses[2].record.namespace
      BY DEF PreparationIndInv, UsesAreDecoded, Prepared
    <3>. QED  BY <3>1, <3>2, <3>4, <3>5 DEF WarmupIsWhole, Warm, Measured
  <2>3. MeasurementStartsFresh
    BY DEF PreparationIndInv, QueueKnows, MeasurementStartsFresh
  <2>. QED  BY <2>1, <2>2, <2>3 DEF PreparationInv
<1>. QED  BY <1>1, PreparationInvariant, PTL

\* What decode_and_validate accepts, validate_prepared_schedule does not refuse.
THEOREM DecodedSchedulesRun == Spec => []DecodedScheduleRuns
<1>1. PreparationIndInv => DecodedScheduleRuns
  <2> SUFFICES ASSUME PreparationIndInv, stage = "ready"
               PROVE  validate_prepared_schedule(View(Measured))
    BY DEF DecodedScheduleRuns
  <2>1. uses \in Seq(DecodedUses) /\ Len(uses) = 2
    BY DEF PreparationIndInv, UsesAreDecoded, Planned, Prepared
  <2>2. PICK use \in DecodedUses : use = Measured
    BY <2>1 DEF Measured
  <2>3. PICK origin \in 0..WordMax, horizon \in 0..WordMax :
          origin = use.record.origin /\ horizon = use.record.horizon
    BY <2>2, DecodedUseIsSound
  <2>4. /\ Nondecreasing(use.deadlines)
        /\ \A n \in DOMAIN use.deadlines : use.deadlines[n] \in origin..(origin + horizon - 1)
    BY <2>2, <2>3, DecodedUseIsSound DEF in_horizon
  <2>5. PICK view : view = View(Measured)
    OBVIOUS
  <2>6. /\ view.deadlines = use.deadlines /\ view.origin = origin
        /\ view.horizon = origin + horizon
    BY <2>2, <2>3, <2>5 DEF View
  <2>7. origin <= origin + horizon
    BY <2>3, InputsAssumption
  <2>. QED  BY <2>4, <2>5, <2>6, <2>7 DEF validate_prepared_schedule
<1>. QED  BY <1>1, PreparationInvariant, PTL

\* A ticket's evidence was seen as declared, each file when it was hashed, and
\* is so still unless it was written after that, though all were read file by
\* file while others wrote (verify_evidence_files, admit_runner).
THEOREM TicketEvidenceWasSeen == Spec => []TicketMeansEvidenceWasSeen
<1>1. PreparationIndInv => TicketMeansEvidenceWasSeen
  <2> SUFFICES ASSUME PreparationIndInv, ticket # None, NEW kind \in RequiredKinds
               PROVE  \E n \in DOMAIN admission.doc.evidence :
                        LET reference == admission.doc.evidence[n] IN
                        /\ reference.kind = kind /\ reference.binding = ticket.binding
                        /\ reference.immutable /\ reference.eligible
                        /\ files[reference.path] = reference.sha \/ n \in admission.outdated
    BY Zenon DEF TicketMeansEvidenceWasSeen
  <2>1. /\ admission.doc \in Admissions /\ admission.ok
        /\ admission.hashed = Len(admission.doc.evidence)
        /\ ticket.binding = admission.doc.binding /\ EvidenceIsDeclared(admission.doc)
        /\ \A n \in 1..admission.hashed :
             \/ files[admission.doc.evidence[n].path] = admission.doc.evidence[n].sha
             \/ n \in admission.outdated
    BY DEF PreparationIndInv, AdmissionKnows, Admitting
  <2>2. DOMAIN admission.doc.evidence = 1..admission.hashed
    BY <2>1, PreparationAssumption
  <2>3. PICK n \in DOMAIN admission.doc.evidence : admission.doc.evidence[n].kind = kind
    BY <2>1 DEF EvidenceIsDeclared
  <2>4. /\ admission.doc.evidence[n].binding = admission.doc.binding
        /\ admission.doc.evidence[n].immutable /\ admission.doc.evidence[n].eligible
    BY <2>1 DEF EvidenceIsDeclared
  <2>. QED  BY <2>1, <2>2, <2>3, <2>4
<1>. QED  BY <1>1, PreparationInvariant, PTL

\* Samples are exact and in order for every clock that does not go back
\* (relative_clock_sample, absolute_nanoseconds_from_timespec).
THEOREM ClockOrderIsKept == Spec => []ClockKeepsOrder
<1>1. PreparationIndInv => ClockKeepsOrder
  <2> SUFFICES ASSUME PreparationIndInv,
                      NEW m \in DOMAIN samples, NEW n \in DOMAIN samples,
                      samples[m].status = "ok", samples[n].status = "ok", m < n
               PROVE  /\ samples[n].ps - samples[m].ps =
                           (samples[n].ns - samples[m].ns) * PsPerNs
                      /\ samples[n].ns = Times[samples[n].at].seconds * NsPerSecond
                                          + Times[samples[n].at].nanoseconds
                      /\ samples[m].ps <= samples[n].ps
    BY DEF ClockKeepsOrder
  <2>0. WordMax \in Nat /\ PsPerNs \in Nat \ {0}
    BY InputsAssumption
  <2>1. PICK k \in Nat : DOMAIN samples = 1..k /\ samples \in Seq(Samples)
    BY DEF PreparationIndInv, SamplesFollowClock
  <2>2. 1 \in 1..k /\ m <= n
    BY <2>1
  <2>3. samples[1] \in Samples /\ samples[m] \in Samples /\ samples[n] \in Samples
    BY <2>1, <2>2
  <2>4. PICK first \in 0..WordMax, earlier \in 0..WordMax, later \in 0..WordMax :
          first = samples[1].ns /\ earlier = samples[m].ns /\ later = samples[n].ns
    BY <2>3 DEF Samples
  <2>5. /\ samples[m].ps = (earlier - first) * PsPerNs
        /\ samples[n].ps = (later - first) * PsPerNs
        /\ read_monotonic_raw_absolute(Times[samples[m].at]).status = "ok"
        /\ read_monotonic_raw_absolute(Times[samples[n].at]).status = "ok"
        /\ earlier = read_monotonic_raw_absolute(Times[samples[m].at]).ns
        /\ later = read_monotonic_raw_absolute(Times[samples[n].at]).ns
        /\ samples[m].at <= samples[n].at
    BY <2>2, <2>4 DEF PreparationIndInv, SamplesFollowClock
  <2>6. samples[m].at \in DOMAIN Times /\ samples[n].at \in DOMAIN Times
    BY <2>3 DEF Samples
  <2>7. earlier <= later
    BY <2>5, <2>6, PreparationAssumption
  <2>8. later = Times[samples[n].at].seconds * NsPerSecond + Times[samples[n].at].nanoseconds
    BY <2>5, <2>6, AbsoluteReading
  <2>9. ASSUME NEW f \in Int, NEW a \in Int, NEW b \in Int, NEW p \in Nat, a <= b
        PROVE  (b - f) * p - (a - f) * p = (b - a) * p /\ (a - f) * p <= (b - f) * p
    <3>1. PICK y \in Int, d \in Nat : y = a - f /\ d = b - a
      BY <2>9
    <3>2. b - f = y + d
      BY <3>1
    <3>3. (y + d) * p = y * p + d * p /\ d * p \in Nat /\ y * p \in Int
      OBVIOUS
    <3>4. y * p + d * p - y * p = d * p /\ y * p <= y * p + d * p
      BY <3>3
    <3>. QED  BY <3>1, <3>2, <3>3, <3>4
  <2>. QED  BY <2>0, <2>4, <2>5, <2>7, <2>8, <2>9
<1>. QED  BY <1>1, PreparationInvariant, PTL

\* However the schedules were loaded, the uses validate_schedule_uses accepts
\* are matched pairwise, though each is compared with a first one only.
THEOREM AcceptedUsesMatch == Spec => []AcceptedUsesAreMatched
<1>1. PreparationIndInv => AcceptedUsesAreMatched
  <2> SUFFICES ASSUME PreparationIndInv, stage = "matched",
                      NEW m \in DOMAIN uses, NEW n \in DOMAIN uses
               PROVE  /\ uses[m].family = uses[n].family => uses[m].deadlines = uses[n].deadlines
                      /\ uses[m].record.namespace = uses[n].record.namespace =>
                           uses[m].role = uses[n].role /\ uses[m].deadlines = uses[n].deadlines
                      /\ is_confirmatory_role(uses[m].role) /\ is_confirmatory_role(uses[n].role) =>
                           uses[m].record.parent = uses[n].record.parent
    BY DEF AcceptedUsesAreMatched
  <2>1. uses \in Seq(DecodedUses) /\ validate_schedule_uses(uses)
    BY DEF PreparationIndInv, UsesAreDecoded
  <2>2. \A j \in DOMAIN uses : uses[j].record.decodedHash = decoded_hash(uses[j].record, uses[j].deadlines)
    BY <2>1, DecodedUseIsSound
  <2>3. ASSUME NEW i \in DOMAIN uses, NEW j \in DOMAIN uses, NEW r,
               same_schedule(r, uses[i].record), same_schedule(r, uses[j].record)
        PROVE  uses[i].deadlines = uses[j].deadlines
    <3>1. uses[i].record.decodedHash = uses[j].record.decodedHash
      BY <2>3 DEF same_schedule
    <3>. QED  BY <2>2, <3>1 DEF decoded_hash
  <2>4. ASSUME uses[m].family = uses[n].family PROVE uses[m].deadlines = uses[n].deadlines
    <3>1. family_first(uses, m) = family_first(uses, n)
      BY <2>4 DEF family_first
    <3>2. /\ same_schedule(family_first(uses, m).record, uses[m].record)
          /\ same_schedule(family_first(uses, n).record, uses[n].record)
      BY <2>1 DEF validate_schedule_uses
    <3>. QED  BY <2>3, <3>1, <3>2
  <2>5. ASSUME uses[m].record.namespace = uses[n].record.namespace
        PROVE  uses[m].role = uses[n].role /\ uses[m].deadlines = uses[n].deadlines
    <3>1. namespace_owner(uses, m) = namespace_owner(uses, n)
      BY <2>5 DEF namespace_owner
    <3>2. /\ same_schedule(namespace_owner(uses, m).record, uses[m].record)
          /\ same_schedule(namespace_owner(uses, n).record, uses[n].record)
          /\ namespace_owner(uses, m).role = uses[m].role
          /\ namespace_owner(uses, n).role = uses[n].role
      BY <2>1 DEF validate_schedule_uses
    <3>. QED  BY <2>3, <3>1, <3>2
  <2>6. ASSUME is_confirmatory_role(uses[m].role), is_confirmatory_role(uses[n].role)
        PROVE  uses[m].record.parent = uses[n].record.parent
    BY <2>1, <2>6 DEF validate_schedule_uses
  <2>. QED  BY <2>4, <2>5, <2>6
<1>. QED  BY <1>1, PreparationInvariant, PTL

-----------------------------------------------------------------------------
(* Storage budgets                                                         *)

\* A quotient is known by its remainder.
LEMMA Quotient ==
    ASSUME NEW p \in Nat \ {0}, NEW q \in Int, NEW r \in 0..(p - 1), NEW x \in Int,
           x = p * q + r
    PROVE  x \div p = q /\ x % p = r
OBVIOUS

\* Division with a remainder.
LEMMA QuotientExists ==
    ASSUME NEW p \in Nat \ {0}, NEW x \in Nat
    PROVE  \E q \in Nat, r \in 0..(p - 1) : x = p * q + r /\ q = x \div p /\ r = x % p
<1>1. x = p * (x \div p) + (x % p) /\ x % p \in 0..(p - 1) /\ x \div p \in Nat
  OBVIOUS
<1>. QED  BY <1>1

\* checked_add compares before it adds, and so is exact.
LEMMA AddIsExact ==
    ASSUME NEW a \in Nat, NEW b \in Nat
    PROVE  checked_add(a, b) = IF a + b <= WordMax THEN a + b ELSE None
<1>1. None \notin Nat /\ WordMax \in Nat
  BY InputsAssumption, SizesAssumption
<1>. QED  BY <1>1 DEF checked_add

\* The quotient test of checked_multiply is the comparison of the product.
LEMMA ProductFits ==
    ASSUME NEW a \in Nat \ {0}, NEW b \in Nat, NEW w \in Nat
    PROVE  b > w \div a <=> a * b > w
<1>1. PICK q \in Nat, r \in 0..(a - 1) : w = a * q + r /\ q = w \div a
  BY QuotientExists
<1>2. ASSUME b >= q + 1 PROVE a * b > w
  <2>1. a * b >= a * (q + 1)
    BY <1>2
  <2>2. a * (q + 1) = a * q + a
    OBVIOUS
  <2>. QED  BY <1>1, <2>1, <2>2
<1>3. ASSUME b <= q PROVE a * b <= w
  <2>1. a * b <= a * q
    BY <1>3
  <2>. QED  BY <1>1, <2>1
<1>4. a * b \in Nat
  OBVIOUS
<1>. QED  BY <1>1, <1>2, <1>3, <1>4

\* checked_multiply is exact.
LEMMA MultiplyIsExact ==
    ASSUME NEW a \in Nat, NEW b \in Nat
    PROVE  checked_multiply(a, b) = IF a * b <= WordMax THEN a * b ELSE None
<1>1. None \notin Nat /\ WordMax \in Nat
  BY InputsAssumption, SizesAssumption
<1>2. CASE a = 0
  <2>1. a * b = 0
    BY <1>2
  <2>. QED  BY <1>1, <1>2, <2>1 DEF checked_multiply
<1>3. CASE a # 0
  <2>1. b > WordMax \div a <=> a * b > WordMax
    BY <1>1, <1>3, ProductFits
  <2>2. PICK m \in Nat : m = a * b
    OBVIOUS
  <2>. QED  BY <1>1, <1>3, <2>1, <2>2 DEF checked_multiply
<1>. QED  BY <1>2, <1>3

\* checked_round_up finds the next multiple, or that it is more than a word.
LEMMA RoundIsExact ==
    ASSUME NEW v \in 0..WordMax, NEW p \in Nat \ {0}
    PROVE  checked_round_up(v, p) = IF ExactPages(v, p) <= WordMax THEN ExactPages(v, p) ELSE None
<1>1. None \notin Nat /\ WordMax \in Nat /\ v \in Nat
  BY InputsAssumption, SizesAssumption
<1>2. PICK q \in Nat, r \in 0..(p - 1) : v = p * q + r /\ r = v % p
  BY <1>1, QuotientExists
<1>3. CASE r = 0
  <2>1. v + p - 1 = p * q + (p - 1) /\ v + p - 1 \in Int /\ p - 1 \in 0..(p - 1)
    BY <1>1, <1>2, <1>3
  <2>2. (v + p - 1) \div p = q
    BY <2>1, Quotient
  <2>3. ExactPages(v, p) = v
    BY <1>2, <1>3, <2>2 DEF ExactPages
  <2>4. checked_round_up(v, p) = v
    BY <1>1, <1>2, <1>3 DEF checked_round_up
  <2>. QED  BY <1>1, <2>3, <2>4
<1>4. CASE r # 0
  <2>1. v + p - 1 = p * (q + 1) + (r - 1) /\ v + p - 1 \in Int /\ r - 1 \in 0..(p - 1)
    BY <1>1, <1>2, <1>4
  <2>2. (v + p - 1) \div p = q + 1
    BY <2>1, Quotient
  <2>3. ExactPages(v, p) = (q + 1) * p /\ (q + 1) * p = v + (p - r)
    BY <1>2, <2>2 DEF ExactPages
  <2>4. checked_round_up(v, p) = checked_add(v, p - r)
    BY <1>1, <1>2, <1>4 DEF checked_round_up
  <2>5. p - r \in Nat
    OBVIOUS
  <2>6. checked_add(v, p - r) = IF v + (p - r) <= WordMax THEN v + (p - r) ELSE None
    BY <1>1, <2>5, AddIsExact
  <2>. QED  BY <1>1, <2>3, <2>4, <2>5, <2>6
<1>. QED  BY <1>3, <1>4

\* A set of natural numbers that is not empty has a least one.
LEMMA LeastNatural ==
    ASSUME NEW T, T \subseteq Nat, T # {}
    PROVE  \E x \in T : \A y \in T : x <= y
<1>1. \E x \in T : \A y \in T : ~ (<<y, x>> \in OpToRel(<, Nat))
  BY NatLessThanWellFounded, WFMin
<1>2. \A x \in T, y \in T : <<y, x>> \in OpToRel(<, Nat) <=> y < x
  BY DEF OpToRel
<1>3. \A x, y \in T : ~(y < x) => x <= y
  OBVIOUS
<1>. QED  BY <1>1, <1>2, <1>3

\* The running total of a loop, up to each of its rounds.
LEMMA CheckedTotals ==
    ASSUME NEW s, NEW N \in Nat, N = Len(s)
    PROVE  \E f : /\ f[0] = 0 /\ checked_sum(s) = f[N]
                  /\ \A n \in 1..N : f[n] = checked_add(f[n - 1], s[n])
<1>. DEFINE Totals(m, f) ==
              f = [n \in 0..m |-> IF n = 0 THEN 0 ELSE checked_add(f[n - 1], s[n])]
            T == {m \in 0..N : ~ \E f : Totals(m, f)}
<1>1. Totals(0, [n \in 0..0 |-> 0])
  OBVIOUS
<1>2. ASSUME T # {} PROVE FALSE
  <2>1. T \subseteq Nat
    OBVIOUS
  <2>2. PICK m \in T : \A y \in T : m <= y
    <3>. HIDE DEF T
    <3>. QED  BY <1>2, <2>1, LeastNatural
  <2>3. m \in 0..N /\ ~ \E f : Totals(m, f)
    BY <2>2
  <2>4. m # 0
    <3>. HIDE DEF Totals
    <3>. QED  BY <1>1, <2>3
  <2>5. m - 1 \in 0..N /\ m - 1 \notin T
    <3>. HIDE DEF T
    <3>. QED  BY <2>2, <2>3, <2>4
  <2>6. PICK f : Totals(m - 1, f)
    <3>. HIDE DEF Totals
    <3>. QED  BY <2>5
  <2>. DEFINE g == [n \in 0..m |-> IF n < m THEN f[n] ELSE checked_add(f[m - 1], s[m])]
  <2>7. ASSUME NEW n \in 0..m
        PROVE  g[n] = IF n = 0 THEN 0 ELSE checked_add(g[n - 1], s[n])
    <3>1. CASE n = 0
      BY <2>3, <2>4, <2>6, <3>1
    <3>2. CASE n # 0 /\ n < m
      <4>1. n \in 0..(m - 1) /\ n - 1 \in 0..m /\ n - 1 < m
        BY <2>3, <3>2
      <4>2. f[n] = checked_add(f[n - 1], s[n])
        BY <2>6, <3>2, <4>1
      <4>3. g[n] = f[n] /\ g[n - 1] = f[n - 1]
        BY <3>2, <4>1
      <4>. QED  BY <3>2, <4>2, <4>3
    <3>3. CASE n = m
      <4>1. m - 1 \in 0..m /\ m - 1 < m
        BY <2>3, <2>4
      <4>2. g[m - 1] = f[m - 1] /\ g[m] = checked_add(f[m - 1], s[m])
        BY <2>3, <4>1
      <4>. QED  BY <2>4, <3>3, <4>2
    <3>. QED  BY <2>3, <3>1, <3>2, <3>3
  <2>8. g = [n \in 0..m |-> g[n]]
    OBVIOUS
  <2>9. Totals(m, g)
    <3>. HIDE DEF g
    <3>. QED  BY <2>7, <2>8
  <2>. HIDE DEF Totals
  <2>. QED  BY <2>3, <2>9
<1>3. \E f : Totals(N, f)
  <2>1. N \in 0..N /\ T = {}
    BY <1>2
  <2>. HIDE DEF Totals
  <2>. QED  BY <2>1
<1>4. PICK f : f = CHOOSE g : Totals(N, g)
  OBVIOUS
<1>5. Totals(N, f)
  <2>. HIDE DEF Totals
  <2>. QED  BY <1>3, <1>4
<1>6. checked_sum(s) = f[N]
  <2>1. checked_sum(s) = (CHOOSE g : Totals(Len(s), g))[Len(s)]
    BY DEF checked_sum
  <2>. HIDE DEF Totals
  <2>. QED  BY <1>4, <2>1
<1>7. f[0] = 0 /\ \A n \in 1..N : f[n] = checked_add(f[n - 1], s[n])
  BY <1>5
<1>. QED  BY <1>6, <1>7

\* The same for the exact sum.
LEMMA ExactTotals ==
    ASSUME NEW s, NEW N \in Nat, N = Len(s)
    PROVE  \E f : /\ f[0] = 0 /\ ExactSum(s) = f[N]
                  /\ \A n \in 1..N : f[n] = f[n - 1] + s[n]
<1>. DEFINE Totals(m, f) ==
              f = [n \in 0..m |-> IF n = 0 THEN 0 ELSE f[n - 1] + s[n]]
            T == {m \in 0..N : ~ \E f : Totals(m, f)}
<1>1. Totals(0, [n \in 0..0 |-> 0])
  OBVIOUS
<1>2. ASSUME T # {} PROVE FALSE
  <2>1. T \subseteq Nat
    OBVIOUS
  <2>2. PICK m \in T : \A y \in T : m <= y
    <3>. HIDE DEF T
    <3>. QED  BY <1>2, <2>1, LeastNatural
  <2>3. m \in 0..N /\ ~ \E f : Totals(m, f)
    BY <2>2
  <2>4. m # 0
    <3>. HIDE DEF Totals
    <3>. QED  BY <1>1, <2>3
  <2>5. m - 1 \in 0..N /\ m - 1 \notin T
    <3>. HIDE DEF T
    <3>. QED  BY <2>2, <2>3, <2>4
  <2>6. PICK f : Totals(m - 1, f)
    <3>. HIDE DEF Totals
    <3>. QED  BY <2>5
  <2>. DEFINE g == [n \in 0..m |-> IF n < m THEN f[n] ELSE f[m - 1] + s[m]]
  <2>7. ASSUME NEW n \in 0..m
        PROVE  g[n] = IF n = 0 THEN 0 ELSE g[n - 1] + s[n]
    <3>1. CASE n = 0
      BY <2>3, <2>4, <2>6, <3>1
    <3>2. CASE n # 0 /\ n < m
      <4>1. n \in 0..(m - 1) /\ n - 1 \in 0..m /\ n - 1 < m
        BY <2>3, <3>2
      <4>2. f[n] = f[n - 1] + s[n]
        BY <2>6, <3>2, <4>1
      <4>3. g[n] = f[n] /\ g[n - 1] = f[n - 1]
        BY <3>2, <4>1
      <4>. QED  BY <3>2, <4>2, <4>3
    <3>3. CASE n = m
      <4>1. m - 1 \in 0..m /\ m - 1 < m
        BY <2>3, <2>4
      <4>2. g[m - 1] = f[m - 1] /\ g[m] = f[m - 1] + s[m]
        BY <2>3, <4>1
      <4>. QED  BY <2>4, <3>3, <4>2
    <3>. QED  BY <2>3, <3>1, <3>2, <3>3
  <2>8. g = [n \in 0..m |-> g[n]]
    OBVIOUS
  <2>9. Totals(m, g)
    <3>. HIDE DEF g
    <3>. QED  BY <2>7, <2>8
  <2>. HIDE DEF Totals
  <2>. QED  BY <2>3, <2>9
<1>3. \E f : Totals(N, f)
  <2>1. N \in 0..N /\ T = {}
    BY <1>2
  <2>. HIDE DEF Totals
  <2>. QED  BY <2>1
<1>4. PICK f : f = CHOOSE g : Totals(N, g)
  OBVIOUS
<1>5. Totals(N, f)
  <2>. HIDE DEF Totals
  <2>. QED  BY <1>3, <1>4
<1>6. ExactSum(s) = f[N]
  <2>1. ExactSum(s) = (CHOOSE g : Totals(Len(s), g))[Len(s)]
    BY DEF ExactSum
  <2>. HIDE DEF Totals
  <2>. QED  BY <1>4, <2>1
<1>7. f[0] = 0 /\ \A n \in 1..N : f[n] = f[n - 1] + s[n]
  BY <1>5
<1>. QED  BY <1>6, <1>7

\* The loop sums exactly, and no size is more than the sum.
LEMMA SumIsExact ==
    ASSUME NEW s, NEW N \in Nat, N = Len(s), \A n \in 1..N : s[n] \in Nat
    PROVE  /\ ExactSum(s) \in Nat /\ \A n \in 1..N : s[n] <= ExactSum(s)
           /\ checked_sum(s) = IF ExactSum(s) <= WordMax THEN ExactSum(s) ELSE None
<1>1. None \notin Nat /\ WordMax \in Nat
  BY InputsAssumption, SizesAssumption
<1>2. PICK f : /\ f[0] = 0 /\ checked_sum(s) = f[N]
               /\ \A n \in 1..N : f[n] = checked_add(f[n - 1], s[n])
  BY CheckedTotals
<1>3. PICK e : /\ e[0] = 0 /\ ExactSum(s) = e[N]
               /\ \A n \in 1..N : e[n] = e[n - 1] + s[n]
  BY ExactTotals
<1>. DEFINE Exact(n) == /\ e[n] \in Nat /\ \A k \in 1..n : s[k] <= e[n]
                        /\ f[n] = IF e[n] <= WordMax THEN e[n] ELSE None
            T == {n \in 0..N : ~ Exact(n)}
<1>4. Exact(0)
  BY <1>1, <1>2, <1>3
<1>5. ASSUME NEW n \in 1..N, Exact(n - 1) PROVE Exact(n)
  <2>1. PICK d \in Nat, t \in Nat : d = e[n - 1] /\ t = s[n] /\ e[n] = d + t
    BY <1>3, <1>5
  <2>2. e[n] \in Nat
    BY <2>1
  <2>3. \A k \in 1..n : s[k] <= e[n]
    <3>1. ASSUME NEW k \in 1..n PROVE s[k] <= e[n]
      <4>1. CASE k = n
        BY <2>1, <4>1
      <4>2. CASE k # n
        <5>1. k \in 1..(n - 1) /\ s[k] \in Nat
          BY <4>2
        <5>2. s[k] <= d
          BY <1>5, <2>1, <5>1
        <5>. QED  BY <2>1, <5>1, <5>2
      <4>. QED  BY <4>1, <4>2
    <3>. QED  BY <3>1
  <2>4. f[n] = checked_add(IF d <= WordMax THEN d ELSE None, t)
    BY <1>2, <1>5, <2>1
  <2>5. CASE d <= WordMax
    <3>1. f[n] = checked_add(d, t)
      BY <2>4, <2>5
    <3>2. checked_add(d, t) = IF d + t <= WordMax THEN d + t ELSE None
      BY AddIsExact
    <3>. QED  BY <2>1, <2>2, <2>3, <3>1, <3>2
  <2>6. CASE ~(d <= WordMax)
    <3>1. f[n] = checked_add(None, t)
      BY <2>4, <2>6
    <3>2. f[n] = None /\ ~(d + t <= WordMax)
      BY <1>1, <2>6, <3>1 DEF checked_add
    <3>. QED  BY <2>1, <2>2, <2>3, <3>2
  <2>. QED  BY <2>5, <2>6
<1>6. Exact(N)
  <2>. HIDE DEF Exact
  <2>1. ASSUME T # {} PROVE FALSE
    <3>1. T \subseteq Nat
      OBVIOUS
    <3>2. PICK n \in T : \A y \in T : n <= y
      <4>. HIDE DEF T
      <4>. QED  BY <2>1, <3>1, LeastNatural
    <3>3. n \in 1..N /\ n - 1 \in 0..N /\ ~ Exact(n)
      BY <1>4, <3>2
    <3>4. n - 1 \notin T
      <4>. HIDE DEF T
      <4>. QED  BY <3>2, <3>3
    <3>. QED  BY <1>5, <3>3, <3>4
  <2>2. N \in 0..N
    OBVIOUS
  <2>. QED  BY <2>1, <2>2
<1>. QED  BY <1>2, <1>3, <1>6

\* A size that failed fails the sum.
LEMMA FailureStays ==
    ASSUME NEW s, NEW N \in Nat, N = Len(s), NEW k \in 1..N, s[k] = None
    PROVE  checked_sum(s) = None
<1>2. PICK f : /\ f[0] = 0 /\ checked_sum(s) = f[N]
               /\ \A n \in 1..N : f[n] = checked_add(f[n - 1], s[n])
  BY CheckedTotals
<1>. DEFINE T == {n \in k..N : f[n] # None}
<1>4. f[k] = None
  BY <1>2 DEF checked_add
<1>5. ASSUME NEW n \in 1..N, f[n - 1] = None PROVE f[n] = None
  BY <1>2, <1>5 DEF checked_add
<1>6. ASSUME T # {} PROVE FALSE
  <2>1. T \subseteq Nat
    OBVIOUS
  <2>2. PICK n \in T : \A y \in T : n <= y
    <3>. HIDE DEF T
    <3>. QED  BY <1>6, <2>1, LeastNatural
  <2>3. n \in 1..N /\ n - 1 \in k..N /\ f[n] # None
    BY <1>4, <2>2
  <2>4. n - 1 \notin T
    <3>. HIDE DEF T
    <3>. QED  BY <2>2, <2>3
  <2>. QED  BY <1>5, <2>3, <2>4
<1>. QED  BY <1>2, <1>6

\* A size in words: the exact one, or a failure when that is more than a word.
Holds(x, size) == x = IF size <= WordMax THEN size ELSE None

\* Sums of sizes that are exact or failures are so too.
LEMMA SumHolds ==
    ASSUME NEW x, NEW y, NEW a \in Nat, NEW b \in Nat, Holds(x, a), Holds(y, b)
    PROVE  Holds(checked_add(x, y), a + b)
<1>1. None \notin Nat /\ WordMax \in Nat
  BY InputsAssumption, SizesAssumption
<1>2. checked_add(a, b) = IF a + b <= WordMax THEN a + b ELSE None
  BY AddIsExact
<1>3. CASE a <= WordMax /\ b <= WordMax
  BY <1>2, <1>3 DEF Holds
<1>4. CASE ~(a <= WordMax /\ b <= WordMax)
  <2>1. None \in {x, y} /\ ~(a + b <= WordMax)
    BY <1>1, <1>4 DEF Holds
  <2>. QED  BY <2>1 DEF Holds, checked_add
<1>. QED  BY <1>3, <1>4

\* So are multiples.
LEMMA ProductHolds ==
    ASSUME NEW x, NEW n \in Nat, NEW a \in Nat, Holds(x, a), n # 0 \/ a <= WordMax
    PROVE  Holds(checked_multiply(n, x), n * a)
<1>1. None \notin Nat /\ WordMax \in Nat
  BY InputsAssumption, SizesAssumption
<1>2. CASE a <= WordMax
  <2>1. x = a
    BY <1>2 DEF Holds
  <2>. QED  BY <2>1, MultiplyIsExact DEF Holds
<1>3. CASE ~(a <= WordMax)
  <2>1. x = None /\ n # 0
    BY <1>3 DEF Holds
  <2>2. n * a >= a
    BY <2>1
  <2>3. ~(n * a <= WordMax)
    BY <1>1, <1>3, <2>2
  <2>. QED  BY <2>1, <2>3 DEF Holds, checked_multiply
<1>. QED  BY <1>2, <1>3

\* Whole pages hold the bytes with less than a page to spare.
LEMMA PagesBound ==
    ASSUME NEW v \in Nat, NEW p \in Nat \ {0}
    PROVE  /\ ExactPages(v, p) \in Nat
           /\ v <= ExactPages(v, p) /\ ExactPages(v, p) <= v + p - 1
<1>2. PICK q \in Nat, r \in 0..(p - 1) : v + p - 1 = p * q + r /\ q = (v + p - 1) \div p
  BY QuotientExists
<1>3. ExactPages(v, p) = q * p
  BY <1>2 DEF ExactPages
<1>4. q * p \in Nat /\ q * p = v + p - 1 - r
  BY <1>2
<1>. QED  BY <1>3, <1>4

\* So are sizes in whole pages.
LEMMA PagesHold ==
    ASSUME NEW x, NEW a \in Nat, NEW p \in Nat \ {0}, Holds(x, a)
    PROVE  Holds(checked_round_up(x, p), ExactPages(a, p))
<1>1. None \notin Nat /\ WordMax \in Nat
  BY InputsAssumption, SizesAssumption
<1>2. PICK e \in Nat : e = ExactPages(a, p) /\ e >= a
  BY PagesBound
<1>3. CASE a <= WordMax
  <2>1. x = a /\ a \in 0..WordMax
    BY <1>1, <1>3 DEF Holds
  <2>. QED  BY <2>1, RoundIsExact DEF Holds
<1>4. CASE ~(a <= WordMax)
  <2>1. x = None /\ ~(e <= WordMax)
    BY <1>1, <1>2, <1>4 DEF Holds
  <2>. QED  BY <1>2, <2>1 DEF Holds, checked_round_up
<1>. QED  BY <1>3, <1>4

\* The rows of a run id that is not too long, and their sizes.
LEMMA LayoutIsExact ==
    ASSUME NEW run, run.name \in Nat, run.name \in 1..MaxNameBytes
    PROVE  LET layout == make_row_layout(run.name) IN
           /\ layout # None
           /\ layout.producer = ExactPrefix(run) + ProducerBody
           /\ layout.consumer = ExactPrefix(run) + ConsumerBody
           /\ layout.joined = ExactPrefix(run) + JoinedBody
           /\ ExactPrefix(run) \in Nat
           /\ layout.producer + layout.consumer <= WordMax
           /\ layout.joined <= WordMax
<1>1. /\ None \notin Nat /\ WordMax \in Nat /\ RowAlignment \in Nat \ {0}
      /\ {LengthField, ProducerBody, ConsumerBody, JoinedBody, MaxNameBytes} \subseteq Nat
      /\ None \notin RowLayouts
  BY InputsAssumption, SizesAssumption
<1>2. PICK v \in Nat : v = LengthField + run.name /\ v <= LengthField + MaxNameBytes
  BY <1>1
<1>3. PICK e \in Nat : e = ExactPages(v, RowAlignment) /\ v <= e /\ e <= v + RowAlignment - 1
  BY <1>1, PagesBound
<1>4. ExactPrefix(run) = e
  BY <1>2, <1>3 DEF ExactPrefix, ExactPages
<1>5. /\ e + ProducerBody + (e + ConsumerBody) <= WordMax
      /\ e + JoinedBody <= WordMax /\ e <= WordMax
      /\ v <= WordMax /\ ~(v > WordMax - (RowAlignment - 1))
  BY <1>1, <1>2, <1>3, SizesAssumption
<1>6. checked_add(LengthField, run.name) = v
  <2>1. checked_add(LengthField, run.name) =
          IF LengthField + run.name <= WordMax THEN LengthField + run.name ELSE None
    BY <1>1, AddIsExact
  <2>. QED  BY <1>2, <1>5, <2>1
<1>7. checked_round_up(v, RowAlignment) = e
  BY <1>1, <1>3, <1>5, RoundIsExact
<1>8. /\ checked_add(e, ProducerBody) = e + ProducerBody
      /\ checked_add(e, ConsumerBody) = e + ConsumerBody
      /\ checked_add(e, JoinedBody) = e + JoinedBody
  <2>1. \A b \in {ProducerBody, ConsumerBody, JoinedBody} : b \in Nat /\ e + b <= WordMax
    BY <1>1, <1>5
  <2>2. \A b \in {ProducerBody, ConsumerBody, JoinedBody} :
          checked_add(e, b) = IF e + b <= WordMax THEN e + b ELSE None
    BY <2>1, AddIsExact
  <2>. QED  BY <2>1, <2>2
<1>. DEFINE row == [producer |-> e + ProducerBody, consumer |-> e + ConsumerBody,
                    joined |-> e + JoinedBody]
<1>9. row \in RowLayouts
  BY <1>1 DEF RowLayouts
<1>10. make_row_layout(run.name) = row
  <2>1. ~(LengthField + run.name > WordMax - (RowAlignment - 1))
    BY <1>2, <1>5
  <2>2. run.name # 0 /\ ~(run.name > MaxNameBytes)
    BY <1>1
  <2>3. None \notin {e + ProducerBody, e + ConsumerBody, e + JoinedBody}
    BY <1>1
  <2>. QED  BY <1>6, <1>7, <1>8, <2>1, <2>2, <2>3 DEF make_row_layout
<1>. QED  BY <1>1, <1>4, <1>5, <1>9, <1>10

\* The terms of a run, each the exact one or a failure.
LEMMA TermsHold ==
    ASSUME NEW run \in RunSizes, NEW page \in Nat \ {0}, run.name \in 1..MaxNameBytes
    PROVE  LET terms == run_terms(run, page, make_row_layout(run.name))
               P == ExactPrefix(run) + ProducerBody
               C == ExactPrefix(run) + ConsumerBody
           IN  /\ P \in Nat /\ C \in Nat
               /\ ExactRaw(run) \in Nat /\ ExactMapped(run, page) \in Nat
               /\ Holds(terms.conservative, run.scheduled * (P + C))
               /\ Holds(terms.producerMapped, ExactPages(run.scheduled * P, page))
               /\ Holds(terms.consumerMapped, ExactPages(run.scheduled * C, page))
               /\ Holds(terms.mapped, ExactMapped(run, page))
               /\ Holds(terms.raw, ExactRaw(run))
<1>0. /\ None \notin Nat /\ WordMax \in Nat /\ MaxNameBytes \in Nat
      /\ {ProducerBody, ConsumerBody, JoinedBody} \subseteq Nat
  BY InputsAssumption, SizesAssumption
<1>1. PICK s \in Nat, a \in Nat : s = run.scheduled /\ a = run.accepted
  BY <1>0 DEF RunSizes, Words
<1>2. run.name \in Nat
  BY <1>0
<1>3. PICK layout : layout = make_row_layout(run.name)
  OBVIOUS
<1>4. PICK P \in Nat, C \in Nat, J \in Nat :
        /\ P = ExactPrefix(run) + ProducerBody /\ C = ExactPrefix(run) + ConsumerBody
        /\ J = ExactPrefix(run) + JoinedBody
        /\ layout.producer = P /\ layout.consumer = C /\ layout.joined = J
        /\ P <= WordMax /\ C <= WordMax /\ J <= WordMax /\ P + C <= WordMax
  BY <1>0, <1>2, <1>3, LayoutIsExact
<1>5. Holds(P, P) /\ Holds(C, C) /\ Holds(J, J) /\ P + C \in Nat
  BY <1>4 DEF Holds
<1>6. PICK sP \in Nat, sC \in Nat, aC \in Nat, aJ \in Nat :
        sP = s * P /\ sC = s * C /\ aC = a * C /\ aJ = a * J
  OBVIOUS
<1>. DEFINE producer == checked_multiply(s, P)
            consumer == checked_multiply(a, C)
            reserved == checked_multiply(s, C)
            joined == checked_multiply(a, J)
            raw == checked_add(producer, consumer)
            producerMapped == checked_round_up(producer, page)
            consumerMapped == checked_round_up(reserved, page)
<1>7. /\ Holds(producer, sP) /\ Holds(consumer, aC) /\ Holds(reserved, sC) /\ Holds(joined, aJ)
      /\ Holds(checked_add(P, C), P + C)
  BY <1>4, <1>5, <1>6, ProductHolds, SumHolds
<1>8. Holds(checked_multiply(s, checked_add(P, C)), s * (P + C))
  BY <1>4, <1>5, <1>7, ProductHolds
<1>. HIDE DEF producer, consumer, reserved, joined
<1>9. PICK pM \in Nat, cM \in Nat : pM = ExactPages(sP, page) /\ cM = ExactPages(sC, page)
  BY PagesBound
<1>10. Holds(producerMapped, pM) /\ Holds(consumerMapped, cM)
  BY <1>7, <1>9, PagesHold
<1>11. Holds(raw, sP + aC)
  BY <1>7, SumHolds
<1>. HIDE DEF raw, producerMapped, consumerMapped
<1>12. Holds(checked_add(producerMapped, consumerMapped), pM + cM)
  BY <1>10, SumHolds
<1>13. Holds(checked_multiply(3, raw), 3 * (sP + aC)) /\ Holds(checked_multiply(2, joined), 2 * aJ)
  <2>1. sP + aC \in Nat
    OBVIOUS
  <2>. QED  BY <1>7, <1>11, <2>1, ProductHolds
<1>14. Holds(checked_add(checked_multiply(3, raw), checked_multiply(2, joined)),
             3 * (sP + aC) + 2 * aJ)
  <2>1. 3 * (sP + aC) \in Nat /\ 2 * aJ \in Nat
    OBVIOUS
  <2>. QED  BY <1>13, <2>1, SumHolds
<1>15. ExactMapped(run, page) = pM + cM /\ pM + cM \in Nat
  BY <1>1, <1>4, <1>6, <1>9 DEF ExactMapped
<1>16. ExactRaw(run) = 3 * (sP + aC) + 2 * aJ /\ 3 * (sP + aC) + 2 * aJ \in Nat
  <2>1. ExactRaw(run) = 3 * (s * P + a * C) + 2 * a * J
    BY <1>1, <1>4 DEF ExactRaw
  <2>2. 2 * a * J = 2 * (a * J)
    OBVIOUS
  <2>. QED  BY <1>6, <2>1, <2>2
<1>. DEFINE terms == run_terms(run, page, layout)
<1>17. /\ terms.conservative = checked_multiply(s, checked_add(P, C))
       /\ terms.producerMapped = producerMapped
       /\ terms.consumerMapped = consumerMapped
       /\ terms.mapped = checked_add(producerMapped, consumerMapped)
       /\ terms.raw = checked_add(checked_multiply(3, raw), checked_multiply(2, joined))
  BY <1>1, <1>4 DEF run_terms, producer, consumer, reserved, joined, raw, producerMapped,
                    consumerMapped
<1>. HIDE DEF terms
<1>18. /\ Holds(terms.conservative, s * (P + C))
       /\ Holds(terms.producerMapped, ExactPages(s * P, page))
       /\ Holds(terms.consumerMapped, ExactPages(s * C, page))
  BY <1>6, <1>8, <1>9, <1>10, <1>17
<1>19. /\ Holds(terms.mapped, ExactMapped(run, page))
       /\ Holds(terms.raw, ExactRaw(run))
  BY <1>12, <1>14, <1>15, <1>16, <1>17
<1>. QED  BY <1>1, <1>3, <1>4, <1>15, <1>16, <1>18, <1>19 DEF terms

\* The terms of a budget (RunStorageBudget).
RunTerms == {"conservative", "producerMapped", "consumerMapped", "mapped", "raw"}

\* The budget of a run is exact, and one within bounds is not refused.
LEMMA RunIsExact ==
    ASSUME NEW run \in RunSizes, NEW page \in Words, NEW b,
           b = checked_run_storage_budget(run, page)
    PROVE  /\ b # None =>
                /\ b.mapped = ExactMapped(run, page) /\ b.raw = ExactRaw(run)
                /\ ExactRaw(run) \in 0..WordMax
                /\ \A term \in DOMAIN b : b[term] \in 0..WordMax
           /\ /\ page # 0 /\ run.accepted <= run.scheduled /\ run.effective = None
              /\ run.name \in 1..MaxNameBytes
              /\ ExactMapped(run, page) <= WordMax
              => /\ ExactRaw(run) \in Nat
                 /\ ExactRaw(run) <= WordMax => b # None /\ b \in RunBudgets
<1>0. /\ None \notin Nat /\ None \notin RunBudgets /\ WordMax \in Nat /\ MaxNameBytes \in Nat
  BY InputsAssumption, SizesAssumption
<1>. DEFINE layout == make_row_layout(run.name)
            terms == run_terms(run, page, layout)
<1>1. terms = [conservative |-> terms.conservative, producerMapped |-> terms.producerMapped,
               consumerMapped |-> terms.consumerMapped, mapped |-> terms.mapped,
               raw |-> terms.raw]
  BY DEF run_terms
<1>2. DOMAIN terms = RunTerms
  BY <1>1 DEF RunTerms
<1>3. b = IF page = 0 \/ run.accepted > run.scheduled \/ layout = None THEN None
          ELSE IF run.effective # None /\ run.effective > run.accepted THEN None
          ELSE IF \E term \in DOMAIN terms : terms[term] = None THEN None ELSE terms
  BY DEF checked_run_storage_budget
<1>4. layout # None => run.name \in 1..MaxNameBytes
  <2>1. run.name \in Nat
    BY DEF RunSizes
  <2>2. layout # None => run.name # 0 /\ ~(run.name > MaxNameBytes)
    BY DEF make_row_layout
  <2>. QED  BY <1>0, <2>1, <2>2
<1>5. PICK s \in Nat, a \in Nat : s = run.scheduled /\ a = run.accepted
  BY <1>0 DEF RunSizes, Words
<1>6. ASSUME page # 0, run.name \in 1..MaxNameBytes
      PROVE  \E P, C \in Nat :
               /\ ExactRaw(run) \in Nat /\ ExactMapped(run, page) \in Nat
               /\ ExactMapped(run, page) = ExactPages(s * P, page) + ExactPages(s * C, page)
               /\ ExactPages(s * P, page) \in Nat /\ ExactPages(s * C, page) \in Nat
               /\ s * (P + C) \in Nat
               /\ s * (P + C) <= ExactPages(s * P, page) + ExactPages(s * C, page)
               /\ Holds(terms.conservative, s * (P + C))
               /\ Holds(terms.producerMapped, ExactPages(s * P, page))
               /\ Holds(terms.consumerMapped, ExactPages(s * C, page))
               /\ Holds(terms.mapped, ExactMapped(run, page))
               /\ Holds(terms.raw, ExactRaw(run))
  <2>1. page \in Nat \ {0}
    BY <1>0, <1>6 DEF Words
  <2>. DEFINE P == ExactPrefix(run) + ProducerBody
              C == ExactPrefix(run) + ConsumerBody
  <2>2. /\ P \in Nat /\ C \in Nat
        /\ ExactRaw(run) \in Nat /\ ExactMapped(run, page) \in Nat
        /\ Holds(terms.conservative, s * (P + C))
        /\ Holds(terms.producerMapped, ExactPages(s * P, page))
        /\ Holds(terms.consumerMapped, ExactPages(s * C, page))
        /\ Holds(terms.mapped, ExactMapped(run, page))
        /\ Holds(terms.raw, ExactRaw(run))
    BY <1>5, <1>6, <2>1, TermsHold
  <2>3. ExactMapped(run, page) = ExactPages(s * P, page) + ExactPages(s * C, page)
    BY <1>5 DEF ExactMapped
  <2>. HIDE DEF P, C, terms
  <2>4. PICK x \in Nat, y \in Nat : x = s * P /\ y = s * C /\ s * (P + C) = x + y
    BY <2>2
  <2>5. PICK u \in Nat, v \in Nat :
          u = ExactPages(s * P, page) /\ v = ExactPages(s * C, page) /\ x <= u /\ y <= v
    BY <2>1, <2>4, PagesBound
  <2>6. /\ s * (P + C) \in Nat
        /\ s * (P + C) <= ExactPages(s * P, page) + ExactPages(s * C, page)
    BY <2>4, <2>5
  <2>7. ExactPages(s * P, page) \in Nat /\ ExactPages(s * C, page) \in Nat
    BY <2>5
  <2>. QED  BY <2>2, <2>3, <2>6, <2>7
<1>7. ASSUME b # None
      PROVE  /\ b.mapped = ExactMapped(run, page) /\ b.raw = ExactRaw(run)
             /\ ExactRaw(run) \in 0..WordMax
             /\ \A term \in DOMAIN b : b[term] \in 0..WordMax
  <2>1. page # 0 /\ run.name \in 1..MaxNameBytes /\ b = terms
    BY <1>3, <1>4, <1>7
  <2>2. \A term \in DOMAIN terms : terms[term] # None
    BY <1>3, <1>7
  <2>. HIDE DEF terms
  <2>3. \A size \in Nat : \A x : Holds(x, size) /\ x # None => x = size /\ x \in 0..WordMax
    BY <1>0 DEF Holds
  <2>4. /\ terms.conservative # None /\ terms.producerMapped # None
        /\ terms.consumerMapped # None /\ terms.mapped # None /\ terms.raw # None
    BY <1>2, <2>2 DEF RunTerms
  <2>5. /\ terms.conservative \in 0..WordMax /\ terms.producerMapped \in 0..WordMax
        /\ terms.consumerMapped \in 0..WordMax
        /\ terms.mapped = ExactMapped(run, page) /\ terms.mapped \in 0..WordMax
        /\ terms.raw = ExactRaw(run) /\ terms.raw \in 0..WordMax
    BY <1>6, <2>1, <2>3, <2>4
  <2>6. \A term \in DOMAIN terms : terms[term] \in 0..WordMax
    BY <1>2, <2>5 DEF RunTerms
  <2>. QED  BY <2>1, <2>5, <2>6
<1>8. ASSUME page # 0, run.accepted <= run.scheduled, run.effective = None,
             run.name \in 1..MaxNameBytes, ExactMapped(run, page) <= WordMax
      PROVE  /\ ExactRaw(run) \in Nat
             /\ ExactRaw(run) <= WordMax => b # None /\ b \in RunBudgets
  <2>1. ExactRaw(run) \in Nat
    BY <1>6, <1>8
  <2>2. ASSUME ExactRaw(run) <= WordMax PROVE b # None /\ b \in RunBudgets
    <3>1. /\ terms.conservative \in Nat /\ terms.producerMapped \in Nat
          /\ terms.consumerMapped \in Nat /\ terms.mapped \in Nat /\ terms.raw \in Nat
      <4>. HIDE DEF terms
      <4>1. PICK P, C \in Nat :
               /\ ExactRaw(run) \in Nat /\ ExactMapped(run, page) \in Nat
               /\ ExactMapped(run, page) = ExactPages(s * P, page) + ExactPages(s * C, page)
               /\ ExactPages(s * P, page) \in Nat /\ ExactPages(s * C, page) \in Nat
               /\ s * (P + C) \in Nat
               /\ s * (P + C) <= ExactPages(s * P, page) + ExactPages(s * C, page)
               /\ Holds(terms.conservative, s * (P + C))
               /\ Holds(terms.producerMapped, ExactPages(s * P, page))
               /\ Holds(terms.consumerMapped, ExactPages(s * C, page))
               /\ Holds(terms.mapped, ExactMapped(run, page))
               /\ Holds(terms.raw, ExactRaw(run))
        BY <1>6, <1>8
      <4>2. PICK u \in Nat, v \in Nat, w \in Nat :
              u = ExactPages(s * P, page) /\ v = ExactPages(s * C, page) /\ w = s * (P + C)
        BY <4>1
      <4>3. u <= WordMax /\ v <= WordMax /\ w <= WordMax
        BY <1>0, <1>8, <4>1, <4>2
      <4>. QED  BY <1>8, <2>2, <4>1, <4>2, <4>3 DEF Holds
    <3>2. layout # None
      <4>1. run.name \in Nat
        BY DEF RunSizes
      <4>. QED  BY <1>8, <4>1, LayoutIsExact
    <3>3. terms \in RunBudgets
      <4>. HIDE DEF terms
      <4>. QED  BY <1>1, <3>1 DEF RunBudgets
    <3>4. ~ \E term \in DOMAIN terms : terms[term] = None
      <4>. HIDE DEF terms
      <4>. QED  BY <1>0, <1>2, <3>1 DEF RunTerms
    <3>5. b = terms
      <4>1. ~(run.accepted > run.scheduled)
        BY <1>5, <1>8
      <4>. HIDE DEF terms, layout
      <4>. QED  BY <1>3, <1>8, <3>2, <3>4, <4>1
    <3>. QED  BY <1>0, <3>3, <3>5
  <2>. QED  BY <2>1, <2>2
<1>. QED  BY <1>7, <1>8

\* The budget of a plan is exact.
LEMMA BudgetIsExact ==
    ASSUME NEW plan \in Plans
    PROVE  ExactBudget(plan, checked_stage_a_storage_budget(plan))
<1>0. /\ None \notin Nat /\ None \notin Budgets /\ WordMax \in Nat /\ CellsPerBlock \in Nat
  BY InputsAssumption, SizesAssumption
<1>1. PICK N \in Nat : /\ N = Len(plan.runs) /\ DOMAIN plan.runs = 1..N /\ N <= WordMax
                       /\ \A n \in 1..N : plan.runs[n] \in RunSizes
  BY PlansAssumption
<1>2. PICK A \in Nat : /\ A = Len(plan.auxiliary)
                       /\ \A n \in 1..A : plan.auxiliary[n] \in Nat
  <2>1. plan.auxiliary \in Seq(Words)
    BY PlansAssumption
  <2>2. Len(plan.auxiliary) \in Nat /\ \A n \in 1..Len(plan.auxiliary) : plan.auxiliary[n] \in Words
    BY <2>1
  <2>3. Words \subseteq Nat
    BY <1>0 DEF Words
  <2>. QED  BY <2>2, <2>3
<1>3. /\ plan.page \in Words /\ plan.available \in Nat /\ plan.rtotal \in Nat /\ plan.blocks \in Nat
  BY <1>0, PlansAssumption DEF Words
<1>. DEFINE runs == [n \in DOMAIN plan.runs |->
                       checked_run_storage_budget(plan.runs[n], plan.page)]
            sizes == [n \in DOMAIN runs |-> IF runs[n] = None THEN None ELSE runs[n].raw]
            exact == [n \in DOMAIN plan.runs |-> ExactRaw(plan.runs[n])]
            raw == checked_sum(sizes)
            auxiliary == checked_sum(plan.auxiliary)
            required == checked_add(raw, auxiliary)
            budget == [runs |-> runs, required |-> required, pass |-> plan.available >= required]
<1>4. checked_stage_a_storage_budget(plan) =
        IF \/ plan.rtotal = 0 \/ plan.rtotal # plan.blocks
           \/ checked_multiply(CellsPerBlock, plan.rtotal) # Len(plan.runs)
           \/ plan.available = 0
           \/ required = None
        THEN None ELSE budget
  BY DEF checked_stage_a_storage_budget
<1>5. /\ Len(sizes) = N /\ Len(exact) = N
      /\ \A n \in 1..N : sizes[n] = IF runs[n] = None THEN None ELSE runs[n].raw
      /\ \A n \in 1..N : exact[n] = ExactRaw(plan.runs[n])
      /\ DOMAIN sizes = 1..N /\ DOMAIN exact = 1..N
  BY <1>1
<1>6. ExactRequired(plan) = ExactSum(exact) + ExactSum(plan.auxiliary)
  BY DEF ExactRequired
<1>7. /\ ExactSum(plan.auxiliary) \in Nat
      /\ auxiliary = IF ExactSum(plan.auxiliary) <= WordMax THEN ExactSum(plan.auxiliary) ELSE None
  BY <1>2, SumIsExact
<1>8. \A n \in 1..N : runs[n] # None =>
        /\ runs[n].mapped = ExactMapped(plan.runs[n], plan.page)
        /\ runs[n].raw = ExactRaw(plan.runs[n]) /\ ExactRaw(plan.runs[n]) \in 0..WordMax
        /\ \A term \in DOMAIN runs[n] : runs[n][term] \in 0..WordMax
  <2>1. ASSUME NEW n \in 1..N
        PROVE  LET b == checked_run_storage_budget(plan.runs[n], plan.page) IN
               b # None =>
                 /\ b.mapped = ExactMapped(plan.runs[n], plan.page)
                 /\ b.raw = ExactRaw(plan.runs[n]) /\ ExactRaw(plan.runs[n]) \in 0..WordMax
                 /\ \A term \in DOMAIN b : b[term] \in 0..WordMax
    BY <1>1, <1>3, RunIsExact
  <2>. QED  BY <1>1, <2>1
<1>9. ASSUME \A n \in 1..N : runs[n] # None
      PROVE  /\ ExactSum(exact) \in Nat
             /\ raw = IF ExactSum(exact) <= WordMax THEN ExactSum(exact) ELSE None
  <2>. HIDE DEF runs
  <2>1. \A n \in 1..N : sizes[n] = exact[n] /\ exact[n] \in Nat
    BY <1>0, <1>5, <1>8, <1>9
  <2>2. sizes = exact
    BY <1>5, <2>1
  <2>. HIDE DEF sizes, exact
  <2>. QED  BY <1>5, <2>1, <2>2, SumIsExact
<1>. HIDE DEF runs, exact, sizes, auxiliary, raw
<1>10. ASSUME checked_stage_a_storage_budget(plan) # None
       PROVE  ExactBudget(plan, checked_stage_a_storage_budget(plan))
  <2>1. checked_stage_a_storage_budget(plan) = budget /\ required # None
    BY <1>4, <1>10
  <2>2. raw # None /\ auxiliary # None
    BY <2>1 DEF checked_add
  <2>3. \A n \in 1..N : runs[n] # None
    <3>1. \A n \in 1..N : sizes[n] # None
      BY <1>5, <2>2, FailureStays DEF raw
    <3>. QED  BY <1>5, <3>1
  <2>4. PICK u \in Nat, v \in Nat : /\ u = ExactSum(exact) /\ v = ExactSum(plan.auxiliary)
                                    /\ raw = u /\ auxiliary = v
    BY <1>7, <1>9, <2>2, <2>3
  <2>5. required = IF u + v <= WordMax THEN u + v ELSE None
    BY <2>4, AddIsExact
  <2>6. required = ExactRequired(plan) /\ required \in 0..WordMax
    BY <1>6, <2>1, <2>4, <2>5
  <2>7. \A n \in DOMAIN plan.runs :
          /\ runs[n].mapped = ExactMapped(plan.runs[n], plan.page)
          /\ \A term \in DOMAIN runs[n] : runs[n][term] \in 0..WordMax
    BY <1>1, <1>8, <2>3
  <2>8. budget.required = required /\ budget.runs = runs
        /\ budget.pass = (plan.available >= required)
    OBVIOUS
  <2>. HIDE DEF budget, required
  <2>. QED  BY <1>10, <2>1, <2>6, <2>7, <2>8 DEF ExactBudget
<1>11. ASSUME WellFormed(plan), ~(ExactRequired(plan) > WordMax),
              \A n \in DOMAIN plan.runs : ~(ExactMapped(plan.runs[n], plan.page) > WordMax)
       PROVE  checked_stage_a_storage_budget(plan) # None
  <2>1. ASSUME NEW n \in 1..N
        PROVE  /\ ExactRaw(plan.runs[n]) \in Nat
               /\ ExactRaw(plan.runs[n]) <= WordMax => runs[n] # None /\ runs[n] \in RunBudgets
    <3>1. plan.page \in Nat \ {0} /\ plan.runs[n] \in RunSizes
      BY <1>0, <1>1, <1>3, <1>11 DEF WellFormed, Words
    <3>2. plan.runs[n].name \in 1..MaxNameBytes
      BY <1>1, <1>11 DEF WellFormed
    <3>3. ExactMapped(plan.runs[n], plan.page) \in Nat
      BY <3>1, <3>2, TermsHold
    <3>4. ExactMapped(plan.runs[n], plan.page) <= WordMax
      BY <1>0, <1>1, <1>11, <3>3
    <3>5. PICK b : b = checked_run_storage_budget(plan.runs[n], plan.page)
      OBVIOUS
    <3>6. /\ ExactRaw(plan.runs[n]) \in Nat
          /\ ExactRaw(plan.runs[n]) <= WordMax => b # None /\ b \in RunBudgets
      <4>1. plan.page # 0 /\ plan.runs[n].accepted <= plan.runs[n].scheduled
            /\ plan.runs[n].effective = None
        BY <1>1, <1>11 DEF WellFormed
      <4>. QED  BY <1>3, <3>1, <3>2, <3>4, <3>5, <4>1, RunIsExact
    <3>7. runs[n] = b
      BY <1>1, <3>5 DEF runs
    <3>. QED  BY <3>6, <3>7
  <2>2. ExactSum(exact) \in Nat /\ \A n \in 1..N : exact[n] <= ExactSum(exact)
    BY <1>5, <2>1, SumIsExact
  <2>3. PICK u \in Nat, v \in Nat : /\ u = ExactSum(exact) /\ v = ExactSum(plan.auxiliary)
                                    /\ u + v <= WordMax
    BY <1>0, <1>6, <1>7, <1>11, <2>2
  <2>4. ASSUME NEW n \in 1..N PROVE runs[n] # None /\ runs[n] \in RunBudgets
    <3>1. PICK w \in Nat : w = ExactRaw(plan.runs[n])
      BY <2>1
    <3>2. w <= u
      BY <1>5, <2>2, <2>3, <3>1
    <3>. QED  BY <1>0, <2>1, <2>3, <3>1, <3>2
  <2>5. raw = u /\ auxiliary = v
    BY <1>0, <1>7, <1>9, <2>3, <2>4
  <2>6. required = u + v
    BY <2>3, <2>5, AddIsExact
  <2>7. checked_multiply(CellsPerBlock, plan.rtotal) = Len(plan.runs)
    <3>1. checked_multiply(CellsPerBlock, plan.rtotal) =
            IF CellsPerBlock * plan.rtotal <= WordMax THEN CellsPerBlock * plan.rtotal ELSE None
      BY <1>0, <1>3, MultiplyIsExact
    <3>2. CellsPerBlock * plan.rtotal = N
      BY <1>1, <1>11 DEF WellFormed
    <3>. QED  BY <1>1, <3>1, <3>2
  <2>8. budget \in Budgets
    <3>1. runs \in Seq(RunBudgets)
      <4>1. runs = [n \in 1..N |-> runs[n]]
        BY <1>1 DEF runs
      <4>2. [n \in 1..N |-> runs[n]] \in Seq(RunBudgets)
        BY <2>4
      <4>. QED  BY <4>1, <4>2
    <3>2. required \in Nat /\ (plan.available >= required) \in BOOLEAN
      BY <2>6
    <3>. HIDE DEF required
    <3>. QED  BY <3>1, <3>2 DEF Budgets
  <2>9. required # None
    BY <1>0, <2>6
  <2>10. plan.rtotal # 0 /\ plan.rtotal = plan.blocks /\ plan.available # 0
    BY <1>3, <1>11 DEF WellFormed
  <2>. HIDE DEF required, budget
  <2>. QED  BY <1>0, <1>4, <2>7, <2>8, <2>9, <2>10
<1>12. CASE checked_stage_a_storage_budget(plan) = None
  BY <1>11, <1>12 DEF ExactBudget
<1>. QED  BY <1>10, <1>12

\* A plan is kept with the budget computed for it, until the schedules are
\* loaded.
SizingIsComputed ==
    sizing # None =>
        \E plan \in Plans :
            sizing = [plan |-> plan, budget |-> checked_stage_a_storage_budget(plan)]

\* Storage budgets are exact or refused for every plan and every width of a
\* word (checked_run_storage_budget, checked_stage_a_storage_budget).
THEOREM BudgetsAreExact == Spec => []StorageBudgetIsExact
<1>1. Init => SizingIsComputed
  BY DEF Init, SizingIsComputed
<1>2. SizingIsComputed /\ [Next]_vars => SizingIsComputed'
  <2>1. [Next]_vars => BudgetStorage \/ sizing' \in {None, sizing}
    BY DEF Next, vars, LoadSchedule, CompareUses, PlanRun, Prepare, WriteFile,
           BeginAdmission, VerifyFile, AdmitRunner, WarmAttempt, WarmConsume, ReachResetBarrier,
           CompleteWarmup, perform_and_verify_logical_reset, execute_static_measurement,
           ReadClock
  <2>2. BudgetStorage => SizingIsComputed'
    BY DEF BudgetStorage, SizingIsComputed
  <2>. QED  BY <2>1, <2>2 DEF SizingIsComputed
<1>3. SizingIsComputed => StorageBudgetIsExact
  <2>1. ASSUME NEW plan \in Plans,
               sizing = [plan |-> plan, budget |-> checked_stage_a_storage_budget(plan)]
        PROVE  ExactBudget(sizing.plan, sizing.budget)
    <3>1. sizing.plan = plan /\ sizing.budget = checked_stage_a_storage_budget(plan)
      BY <2>1
    <3>. QED  BY <3>1, BudgetIsExact
  <2>. QED  BY <2>1 DEF SizingIsComputed, StorageBudgetIsExact
<1>. QED  BY <1>1, <1>2, <1>3, PTL DEF Spec
=============================================================================

------------------------------ MODULE RunInputs ------------------------------
(***************************************************************************)
(* What a run is prepared from: sizes of its storage in words of a fixed   *)
(* width (storage/budget.cpp, storage/raw_observations.cpp), readings of   *)
(* the clock (timing/clock.cpp) and arrival schedules (schedule/           *)
(* schedule.cpp, protocol/semantic.cpp).  A hash is the content it covers: *)
(* two hashes are equal exactly when the contents are.                     *)
(***************************************************************************)
EXTENDS Integers, Sequences, FiniteSets, SequencesExt

CONSTANTS
    ByteValues, WordBytes,    \* values of a byte, bytes in a word
    LengthField, RowAlignment, ProducerBody, ConsumerBody, JoinedBody,
    MaxNameBytes,             \* longest run id a row can hold
    CellsPerBlock,            \* runs in a block
    NsPerSecond, PsPerNs,
    None

WordMax == ByteValues ^ WordBytes - 1

ASSUME InputsAssumption ==
    /\ ByteValues \in Nat /\ WordBytes \in Nat \ {0} /\ WordMax \in Nat
    /\ {NsPerSecond, PsPerNs, RowAlignment} \subseteq 1..WordMax

RowLayouts == [producer : Nat, consumer : Nat, joined : Nat]
RunBudgets ==
    [conservative : Nat, producerMapped : Nat, consumerMapped : Nat, mapped : Nat, raw : Nat]
Budgets == [runs : Seq(RunBudgets), required : Nat, pass : BOOLEAN]

\* Two rows of the longest run id fit a word, and None is no result.
ASSUME SizesAssumption ==
    /\ {LengthField, ProducerBody, ConsumerBody, JoinedBody, MaxNameBytes, CellsPerBlock}
         \subseteq Nat
    /\ 2 * (LengthField + MaxNameBytes + RowAlignment)
         + ProducerBody + ConsumerBody + JoinedBody <= WordMax
    /\ None \notin Nat \cup RowLayouts \cup RunBudgets \cup Budgets

-----------------------------------------------------------------------------
(* Arithmetic in words: None is the failure, and it propagates             *)

\* Mutant: the sum wraps.
checked_add_wrapping(a, b) == IF None \in {a, b} THEN None ELSE (a + b) % (WordMax + 1)

checked_add(a, b) ==
    IF None \in {a, b} THEN None ELSE IF b > WordMax - a THEN None ELSE a + b

checked_multiply(a, b) ==
    IF None \in {a, b} THEN None
    ELSE IF a # 0 /\ b > WordMax \div a THEN None ELSE a * b

checked_round_up(value, alignment) ==
    IF value = None \/ alignment = 0 THEN None
    ELSE IF value % alignment = 0 THEN value
    ELSE checked_add(value, alignment - (value % alignment))

\* The running total of a loop over sizes; a failure stays one.
checked_sum(sizes) ==
    LET total[n \in 0..Len(sizes)] ==
          IF n = 0 THEN 0 ELSE checked_add(total[n - 1], sizes[n])
    IN  total[Len(sizes)]

-----------------------------------------------------------------------------
(* Storage budget                                                          *)

\* Sizes of the rows of a run with an id of so many bytes.
make_row_layout(length) ==
    LET prefix == checked_round_up(checked_add(LengthField, length), RowAlignment)
        layout == [producer |-> checked_add(prefix, ProducerBody),
                   consumer |-> checked_add(prefix, ConsumerBody),
                   joined |-> checked_add(prefix, JoinedBody)]
    IN IF \/ length = 0 \/ length > MaxNameBytes
          \/ LengthField + length > WordMax - (RowAlignment - 1)
          \/ None \in {layout.producer, layout.consumer, layout.joined}
       THEN None ELSE layout

\* One temporary and two durable copies of the raw rows, two of the joined.
run_terms(run, page, layout) ==
    LET producer == checked_multiply(run.scheduled, layout.producer)
        consumer == checked_multiply(run.accepted, layout.consumer)
        raw == checked_add(producer, consumer)
        reserved == checked_multiply(run.scheduled, layout.consumer)
        producerMapped == checked_round_up(producer, page)
        consumerMapped == checked_round_up(reserved, page)
    IN [conservative |-> checked_multiply(run.scheduled,
                                          checked_add(layout.producer, layout.consumer)),
        producerMapped |-> producerMapped, consumerMapped |-> consumerMapped,
        mapped |-> checked_add(producerMapped, consumerMapped),
        raw |-> checked_add(checked_multiply(3, raw),
                            checked_multiply(2, checked_multiply(run.accepted, layout.joined)))]

checked_run_storage_budget(run, page) ==
    LET layout == make_row_layout(run.name) IN
    IF page = 0 \/ run.accepted > run.scheduled \/ layout = None THEN None
    ELSE IF run.effective # None /\ run.effective > run.accepted THEN None
    ELSE LET terms == run_terms(run, page, layout)
         IN IF \E term \in DOMAIN terms : terms[term] = None THEN None ELSE terms

\* The plan of a study: every run it has, what is kept beside the rows, and
\* the space there is.
checked_stage_a_storage_budget(plan) ==
    LET runs == [n \in DOMAIN plan.runs |-> checked_run_storage_budget(plan.runs[n], plan.page)]
        raw == checked_sum([n \in DOMAIN runs |-> IF runs[n] = None THEN None ELSE runs[n].raw])
        required == checked_add(raw, checked_sum(plan.auxiliary))
    IN IF \/ plan.rtotal = 0 \/ plan.rtotal # plan.blocks
          \/ checked_multiply(CellsPerBlock, plan.rtotal) # Len(plan.runs)
          \/ plan.available = 0
          \/ required = None
       THEN None
       ELSE [runs |-> runs, required |-> required, pass |-> plan.available >= required]

-----------------------------------------------------------------------------
(* Clock readings: status and value                                        *)

absolute_nanoseconds_from_timespec(seconds, nanoseconds) ==
    IF seconds < 0 \/ nanoseconds \notin 0..(NsPerSecond - 1)
    THEN [status |-> "invalid_timespec", ns |-> 0]
    ELSE IF \/ seconds > WordMax \div NsPerSecond
            \/ nanoseconds > WordMax - seconds * NsPerSecond
    THEN [status |-> "overflow", ns |-> 0]
    ELSE [status |-> "ok", ns |-> seconds * NsPerSecond + nanoseconds]

\* Mutant: the product with the picoseconds of a nanosecond wraps.
relative_clock_sample_wrapping(origin, ns) ==
    IF ns < origin THEN [status |-> "before_origin", ns |-> 0, ps |-> 0]
    ELSE [status |-> "ok", ns |-> ns, ps |-> ((ns - origin) * PsPerNs) % (WordMax + 1)]

\* Mutant: the product is not compared with the width of a word.
relative_clock_sample_wide(origin, ns) ==
    IF ns < origin THEN [status |-> "before_origin", ns |-> 0, ps |-> 0]
    ELSE [status |-> "ok", ns |-> ns, ps |-> (ns - origin) * PsPerNs]

relative_clock_sample(origin, ns) ==
    IF ns < origin THEN [status |-> "before_origin", ns |-> 0, ps |-> 0]
    ELSE IF ns - origin > WordMax \div PsPerNs THEN [status |-> "overflow", ns |-> 0, ps |-> 0]
    ELSE [status |-> "ok", ns |-> ns, ps |-> (ns - origin) * PsPerNs]

\* A reading of the machine's clock, None when the call fails.
read_monotonic_raw_absolute(time) ==
    IF time = None THEN [status |-> "call_failed", ns |-> 0]
    ELSE absolute_nanoseconds_from_timespec(time.seconds, time.nanoseconds)

\* The first reading, which later ones are relative to.
capture_origin(time) ==
    LET absolute == read_monotonic_raw_absolute(time)
    IN [status |-> absolute.status, ns |-> absolute.ns, ps |-> 0]

read(origin, time) ==
    LET absolute == read_monotonic_raw_absolute(time)
    IN IF absolute.status # "ok" THEN [status |-> absolute.status, ns |-> 0, ps |-> 0]
       ELSE relative_clock_sample(origin, absolute.ns)

-----------------------------------------------------------------------------
(* Arrival schedules                                                       *)

AcceptedProfile ==
    [arrival |-> "poisson_exponential", rng |-> "philox_decimal80_v1", unit |-> "ps",
     encoding |-> "absolute", rule |-> "fail_closed"]

\* Deadlines of an artifact: words, most significant byte first.
decode_u64_be(bytes) ==
    [n \in 1..(Len(bytes) \div WordBytes) |->
       FoldLeft(LAMBDA word, byte : word * ByteValues + byte, 0,
                SubSeq(bytes, (n - 1) * WordBytes + 1, n * WordBytes))]

decoded_hash(record, deadlines) == <<record.origin, record.horizon, record.rate, deadlines>>
envelope_hash(record) == [record EXCEPT !.hash = None]
derivation_hash(derivation) == [derivation EXCEPT !.hash = None]

Nondecreasing(ticks) == \A n \in 2..Len(ticks) : ticks[n - 1] <= ticks[n]
CoprimePositive(rate) ==
    /\ rate[1] # 0 /\ rate[2] # 0
    /\ \A d \in 2..rate[2] : ~(rate[1] % d = 0 /\ rate[2] % d = 0)

\* Inline ticks may be differences: their sums must stay in a word.
local_ticks(record) ==
    IF record.profile.encoding # "delta" THEN record.storage.ticks
    ELSE [n \in DOMAIN record.storage.ticks |->
            FoldLeft(LAMBDA sum, tick : sum + tick, record.origin,
                     SubSeq(record.storage.ticks, 1, n))]

\* What a record holds whatever its artifact (protocol/semantic.cpp).
validate_schedule(record) ==
    /\ record.horizon # 0 /\ record.rate[2] # 0
    /\ record.kind = "confirmatory" => record.profile.arrival = "poisson_exponential"
    /\ IF record.storage.kind = "external" THEN record.storage.rows = record.count
       ELSE LET ticks == local_ticks(record) IN
            /\ Len(ticks) = record.count
            /\ record.horizon <= WordMax - record.origin
            /\ Nondecreasing(ticks)
            /\ \A n \in DOMAIN ticks :
                 ticks[n] \in record.origin..(record.origin + record.horizon - 1)

\* A binding that is present but empty is not compared.
bound(value, expected) == value \in {None, expected}

validate_derivation_record(record, derivation) ==
    /\ bound(derivation.id, record.derivation) /\ bound(derivation.seed, record.seed)
    /\ bound(derivation.parent, record.parent)
    /\ bound(derivation.namespace, record.namespace)
    /\ derivation.key # None /\ derivation.runtime # None
    /\ derivation.hash = derivation_hash(derivation)

\* Mutant: the horizon is not half open.
in_horizon_closed(record, deadlines) ==
    /\ Nondecreasing(deadlines)
    /\ \A n \in DOMAIN deadlines : deadlines[n] \in record.origin..(record.origin + record.horizon)

in_horizon(record, deadlines) ==
    /\ Nondecreasing(deadlines)
    /\ \A n \in DOMAIN deadlines : deadlines[n] \in record.origin..(record.origin + record.horizon - 1)

\* The deadlines of an artifact or of the record itself, None if they are
\* not as declared.
decoded_deadlines(record, bytes) ==
    IF record.storage.kind = "inline" THEN IF bytes = <<>> THEN record.storage.ticks ELSE None
    ELSE IF /\ record.count <= WordMax \div WordBytes
            /\ record.storage.bytes = record.count * WordBytes
            /\ Len(bytes) = record.storage.bytes
            /\ record.storage.sha = bytes
         THEN decode_u64_be(bytes) ELSE None

decode_and_validate(record, bytes, derivation) ==
    LET deadlines == decoded_deadlines(record, bytes) IN
    IF /\ validate_schedule(record) /\ validate_derivation_record(record, derivation)
       /\ record.profile = AcceptedProfile
       /\ CoprimePositive(record.rate)
       /\ record.horizon <= WordMax - record.origin
       /\ deadlines # None
       /\ Len(deadlines) = record.count
       /\ in_horizon(record, deadlines)
       /\ record.decodedHash = decoded_hash(record, deadlines)
       /\ record.hash = envelope_hash(record)
    THEN deadlines ELSE None

-----------------------------------------------------------------------------
(* Uses of schedules by treatments                                         *)

is_confirmatory_role(role) == role \in {"h3_train", "h3_validation", "h1h2_supplemental"}

role_matches_kind(role, kind) ==
    kind = IF is_confirmatory_role(role) THEN "confirmatory" ELSE role

\* The identities and the timing two records have in common; storage, rule
\* and source document are not compared.
same_schedule(left, right) ==
    LET identity(r) == <<r.id, r.hash, r.decodedHash, r.namespace, r.parent, r.seed,
                         r.derivation, r.kind, r.profile.rng, r.profile.arrival,
                         r.profile.unit, r.profile.encoding, r.origin, r.horizon,
                         r.count, r.rate>>
    IN identity(left) = identity(right)

First(uses, Test(_)) == CHOOSE n \in DOMAIN uses : Test(uses[n]) /\ \A k \in 1..(n - 1) : ~Test(uses[k])

namespace_owner(uses, n) == uses[First(uses, LAMBDA u : u.record.namespace = uses[n].record.namespace)]
confirmatory_parent(uses) == uses[First(uses, LAMBDA u : is_confirmatory_role(u.role))].record.parent

\* Mutant: a use is compared with the one before it only.
family_first_previous(uses, n) ==
    IF n > 1 /\ uses[n - 1].family = uses[n].family THEN uses[n - 1] ELSE uses[n]

family_first(uses, n) == uses[First(uses, LAMBDA u : u.family = uses[n].family)]

\* Each use is compared with the first of its namespace, of its family and
\* of the confirmatory roles.
validate_schedule_uses(uses) ==
    \A n \in DOMAIN uses :
       LET use == uses[n] IN
       /\ use.treatment # None /\ use.family # None
       /\ role_matches_kind(use.role, use.record.kind)
       /\ namespace_owner(uses, n).role = use.role
       /\ same_schedule(namespace_owner(uses, n).record, use.record)
       /\ is_confirmatory_role(use.role) => use.record.parent = confirmatory_parent(uses)
       /\ same_schedule(family_first(uses, n).record, use.record)

\* What the executor asks of the deadlines it is given (lifecycle/runtime.cpp).
validate_prepared_schedule(view) ==
    /\ view.origin <= view.horizon
    /\ \A n \in DOMAIN view.deadlines : view.deadlines[n] \in view.origin..(view.horizon - 1)
    /\ Nondecreasing(view.deadlines)
=============================================================================

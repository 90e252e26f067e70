--------------------------- MODULE Reconciliation ---------------------------
(***************************************************************************)
(* What is concluded from the rows of one run, after it                    *)
(* (reconciliation/reconciliation.cpp, timing/intervals.cpp, the physical  *)
(* decoder of storage/raw_observations.cpp and the run records of          *)
(* protocol/semantic.cpp): the exact join of producer and consumer rows,   *)
(* the independent gates of a run manifest, and the Stage 12 validator     *)
(* that accepts a manifest with all it refers to, or not.  SHA-256 is the  *)
(* content it is taken of; a reference is an id and a content.  Rows are   *)
(* counted from 1, the ordinals they carry from 0.                         *)
(***************************************************************************)
EXTENDS Integers, Sequences, FiniteSets

CONSTANTS
    Threshold,  \* the N_eff a p99.9 needs (200000)
    None        \* an absent optional

JoinedRecords ==
    [ordinal : Nat, seq : Nat, index : Nat, prow : Nat, crow : Nat, times : Seq(Nat),
     lateness : Int, lookup : Int, enqueue : Int, admission : Int, residence : Int,
     dequeue : Int, delivery : Int, action : Int, latency : Int]

ASSUME ReconciliationAssumption == Threshold \in Nat /\ None \notin JoinedRecords

Relationships ==
    {"producer_raw", "consumer_raw", "join_audit", "joined_derived",
     "phase_integrity_report", "provenance"}
EarlyFailures == {"pre_run_failure", "warmup_failure", "reset_failure"}
FailureStates == EarlyFailures \cup {"measurement_failure", "drain_failure"}

-----------------------------------------------------------------------------
(* Derived intervals (derive_joined_record)                                *)

nondecreasing(times) == \A n \in 2..Len(times) : times[n - 1] <= times[n]

\* Both threads' boundaries in order, and the dequeue not before the enqueue.
timestamps_ordered(p, c) ==
    /\ nondecreasing(<<p.sched, p.begin, p.lookup, p.invoke, p.lin, p.done>>)
    /\ nondecreasing(<<c.invoke, c.lin, c.done, c.action>>)
    /\ p.lin <= c.lin

joined_record(p, prow, c, crow) ==
    [ordinal |-> p.ordinal, seq |-> p.seq, index |-> p.index, prow |-> prow, crow |-> crow,
     times |-> <<p.sched, p.begin, p.lookup, p.invoke, p.lin, p.done,
                 c.invoke, c.lin, c.done, c.action>>,
     lateness |-> p.begin - p.sched, lookup |-> p.lookup - p.begin,
     enqueue |-> p.done - p.invoke, admission |-> p.lin - p.sched,
     residence |-> c.lin - p.lin, dequeue |-> c.done - c.invoke,
     delivery |-> c.action - c.lin, action |-> c.action - c.done,
     latency |-> c.action - p.sched]

\* None when the pair is not one accepted event with its boundaries in order.
derive_joined_record(p, prow, c, crow) ==
    IF /\ p.outcome = "accepted" /\ p.lin # None /\ p.ordinal # None
       /\ p.ordinal = c.ordinal /\ p.index = c.index
       /\ timestamps_ordered(p, c)
    THEN joined_record(p, prow, c, crow) ELSE None

-----------------------------------------------------------------------------
(* Physical rows (append's words and decode_external_raw)                  *)

AcceptedFlags == 15
FullFlags == 1

\* A FULL attempt has no linearization and no ordinal: zeros, told from real
\* zeros by the flags.
producer_words(r) ==
    LET accepted == r.outcome = "accepted" IN
    [seq |-> r.seq, index |-> r.index, sched |-> r.sched, begin |-> r.begin,
     lookup |-> r.lookup, invoke |-> r.invoke, lin |-> IF accepted THEN r.lin ELSE 0,
     done |-> r.done, ordinal |-> IF accepted THEN r.ordinal ELSE 0,
     flags |-> IF accepted THEN AcceptedFlags ELSE FullFlags]

producer_row(w) ==
    LET accepted == w.flags = AcceptedFlags IN
    [seq |-> w.seq, index |-> w.index, sched |-> w.sched, begin |-> w.begin,
     lookup |-> w.lookup, invoke |-> w.invoke, lin |-> IF accepted THEN w.lin ELSE None,
     done |-> w.done, outcome |-> IF accepted THEN "accepted" ELSE "full",
     ordinal |-> IF accepted THEN w.ordinal ELSE None]

AcceptedBefore(words, n) == Cardinality({k \in 1..(n - 1) : words[k].flags = AcceptedFlags})

\* Order, flags and the zeros of absent values (RAW-PRODUCER-*, RAW-CONSUMER-
\* ORDER, RAW-JOINED-ORDER).
canonical_words(kind, words) ==
    \A n \in DOMAIN words :
       CASE kind = "producer" ->
              LET w == words[n] IN
              /\ w.seq = n - 1
              /\ \/ w.flags = AcceptedFlags /\ w.ordinal = AcceptedBefore(words, n)
                 \/ w.flags = FullFlags /\ w.lin = 0 /\ w.ordinal = 0
         [] OTHER -> words[n].ordinal = n - 1

\* validate_producer, validate_consumer and validate_joined: the rows alone.
logical_rows_valid(kind, rows) ==
    \A n \in DOMAIN rows :
       LET r == rows[n] IN
       CASE kind = "producer" ->
              /\ nondecreasing(<<r.sched, r.begin, r.lookup, r.invoke, r.done>>)
              /\ r.outcome = "accepted" => r.lin \in r.invoke..r.done
         [] kind = "consumer" -> nondecreasing(<<r.invoke, r.lin, r.done, r.action>>)
         [] kind = "joined" ->
              LET t == r.times
                  p == [seq |-> r.seq, index |-> r.index, ordinal |-> r.ordinal,
                        sched |-> t[1], begin |-> t[2], lookup |-> t[3],
                        invoke |-> t[4], lin |-> t[5], done |-> t[6]]
                  c == [invoke |-> t[7], lin |-> t[8], done |-> t[9], action |-> t[10]]
              IN /\ nondecreasing(<<t[1], t[2], t[3], t[4], t[5], t[6]>>)
                 /\ nondecreasing(<<t[7], t[8], t[9], t[10]>>) /\ t[5] <= t[8]
                 /\ r = joined_record(p, r.prow, c, r.crow)

\* The rows of a raw artifact, None when its envelope or its bytes are not
\* exactly what the format says.
decode_external_raw(envelope, bytes) ==
    IF /\ envelope.kind # "joined" => envelope.sources = <<>>
       /\ envelope.sha = bytes
       /\ envelope.rows = Len(bytes.words)
       /\ bytes.run = envelope.run
       /\ canonical_words(envelope.kind, bytes.words)
    THEN LET rows == IF envelope.kind = "producer"
                     THEN [n \in DOMAIN bytes.words |-> producer_row(bytes.words[n])]
                     ELSE bytes.words
         IN IF logical_rows_valid(envelope.kind, rows) THEN rows ELSE None
    ELSE None

-----------------------------------------------------------------------------
(* The exact join (reconcile)                                              *)

Shaped(r) == r.outcome = "accepted" /\ r.ordinal # None /\ r.lin # None

\* The members of S up to n, in order: what a loop over 1..n keeps.
in_order(S, n) ==
    LET upto[k \in 0..n] == IF k = 0 THEN <<>>
                            ELSE IF k \in S THEN Append(upto[k - 1], k) ELSE upto[k - 1]
    IN upto[n]

\* The rows of accepted events, each with its place in the producer stream.
accepted_rows(rows) ==
    LET kept == in_order({n \in DOMAIN rows : Shaped(rows[n])}, Len(rows))
    IN [k \in DOMAIN kept |-> [row |-> rows[kept[k]], place |-> kept[k] - 1]]

At(class, places) == {<<class, n>> : n \in places}

producer_issues(rows, mapping) ==
    LET before(n) == Cardinality({k \in 1..(n - 1) : Shaped(rows[k])}) IN
    At("producer_count", {n \in {0} : Len(rows) # Len(mapping)})
    \cup At("producer_logical_sequence", {n \in DOMAIN rows : rows[n].seq # n - 1})
    \cup At("producer_record_mapping",
            {n \in DOMAIN rows \cap DOMAIN mapping : rows[n].index # mapping[n]})
    \cup At("producer_outcome_shape",
            {n \in DOMAIN rows :
               IF rows[n].outcome = "accepted" THEN ~Shaped(rows[n])
               ELSE rows[n].ordinal # None \/ rows[n].lin # None})
    \cup At("accepted_ordinal",
            {n \in DOMAIN rows : Shaped(rows[n]) /\ rows[n].ordinal # before(n)})

\* The k-th consumer row against the k-th accepted producer row.
consumer_issues(rows, accepted) ==
    At("consumer_count", {n \in {0} : Len(rows) # Len(accepted)})
    \cup At("consumer_ordinal",
            {n \in DOMAIN rows \cap DOMAIN accepted :
               rows[n].ordinal # n - 1 \/ rows[n].ordinal # accepted[n].row.ordinal})
    \cup At("consumer_record_index",
            {n \in DOMAIN rows \cap DOMAIN accepted :
               rows[n].index # accepted[n].row.index})

\* No interval is derived before the whole audit has passed, and none is kept
\* unless all are.
reconcile(producers, consumers, mapping) ==
    LET accepted == accepted_rows(producers)
        audit == producer_issues(producers, mapping) \cup consumer_issues(consumers, accepted)
        derived == IF audit # {} THEN <<>>
                   ELSE [n \in DOMAIN accepted |->
                           derive_joined_record(accepted[n].row, accepted[n].place,
                                                consumers[n], n - 1)]
        issues == audit \cup At("timestamp_order", {n \in DOMAIN derived : derived[n] = None})
    IN [status |-> IF issues = {} THEN "passed" ELSE "failed",
        producer_rows |-> Len(producers), accepted_rows |-> Len(accepted),
        full_rows |-> Cardinality({n \in DOMAIN producers : producers[n].outcome = "full"}),
        consumer_rows |-> Len(consumers),
        joined |-> IF issues = {} THEN derived ELSE <<>>, issues |-> issues]

-----------------------------------------------------------------------------
(* Independent gates (evaluate_run_status)                                 *)

Gate(passed) == IF passed THEN "pass" ELSE "fail"

CountFields ==
    {"offered", "attempted", "accepted", "full", "consumed", "occupancy", "samples", "n_eff"}

complete_count_identities(counts) ==
    /\ \A f \in CountFields : counts[f] # None
    /\ counts.offered = counts.attempted
    /\ counts.attempted = counts.accepted + counts.full
    /\ counts.consumed = counts.accepted
    /\ counts.occupancy = 0
    /\ counts.samples = counts.accepted

summary_for(blockers) ==
    IF blockers = {} THEN "estimable"
    ELSE IF Cardinality(blockers) > 1 THEN "blocked_multiple"
    ELSE CHOOSE b \in blockers : TRUE

Pending == [validity |-> "not_evaluated", counting |-> "not_evaluated",
            zero_loss |-> "not_evaluated", tail |-> "not_evaluated"]

\* Mutant: a FULL attempt invalidates the run.
completed_gates_lossless(counts, join) ==
    LET counting == /\ complete_count_identities(counts) /\ join = "passed"
                    /\ counts.full = 0
    IN [validity |-> IF counting THEN "valid" ELSE "invalid", counting |-> Gate(counting),
        zero_loss |-> Gate(counts.full = 0), tail |-> Gate(counts.n_eff >= Threshold)]

\* What a completed lifecycle says of its own counts and join.
completed_gates(counts, join) ==
    LET counting == complete_count_identities(counts) /\ join = "passed" IN
    [validity |-> IF counting THEN "valid" ELSE "invalid", counting |-> Gate(counting),
     zero_loss |-> IF counts.full = None THEN "not_evaluated" ELSE Gate(counts.full = 0),
     tail |-> IF counts.n_eff = None THEN "not_evaluated" ELSE Gate(counts.n_eff >= Threshold)]

\* Mutant: only the gates of the run itself block it.
confirmatory_blockers_local(gates, block, access) ==
    {b \in {"blocked_effective_tail", "blocked_incomplete_block", "blocked_invalid_run",
            "blocked_zero_loss"} :
        CASE b = "blocked_effective_tail" -> gates.tail = "fail"
          [] b = "blocked_incomplete_block" -> block.status = "incomplete"
          [] b = "blocked_invalid_run" -> gates.validity = "invalid"
          [] b = "blocked_zero_loss" -> gates.zero_loss = "fail"}

confirmatory_blockers(gates, block, access) ==
    {b \in {"blocked_access_leakage", "blocked_effective_tail", "blocked_incomplete_block",
            "blocked_invalid_run", "blocked_zero_loss"} :
        CASE b = "blocked_access_leakage" -> access.status = "fail"
          [] b = "blocked_effective_tail" -> gates.tail = "fail"
          [] b = "blocked_incomplete_block" -> block.status = "incomplete"
          [] b = "blocked_invalid_run" -> gates.validity = "invalid"
          [] b = "blocked_zero_loss" -> gates.zero_loss = "fail"}

Status(gates, block, estimability, blockers) ==
    [validity |-> gates.validity, counting |-> gates.counting,
     zero_loss |-> gates.zero_loss, tail |-> gates.tail, block |-> block.status,
     estimability |-> estimability, blockers |-> blockers]

\* None when the evidence for the status asked for is missing.
evaluate_run_status(in) ==
    LET gates == CASE in.lifecycle = "completed" /\ in.counts # None ->
                        completed_gates(in.counts, in.join)
                   [] in.lifecycle \in FailureStates -> [Pending EXCEPT !.validity = "invalid"]
                   [] OTHER -> Pending
        authoritative == /\ gates.validity # "not_evaluated"
                         /\ gates.zero_loss # "not_evaluated"
                         /\ gates.tail # "not_evaluated"
                         /\ in.block.authoritative /\ in.access.authoritative
        blockers == confirmatory_blockers(gates, in.block, in.access)
    IN CASE in.lifecycle \in {"planned", "measurement_started"} ->
              Status(Pending, in.block, "not_evaluated", {})
         [] in.lifecycle = "completed" /\ in.counts = None -> None
         [] gates.validity = "invalid" /\ ~in.invalidating -> None
         [] OTHER ->
              IF in.stage # "stage_a" THEN Status(gates, in.block, "not_applicable", {})
              ELSE IF ~authoritative THEN Status(gates, in.block, "not_evaluated", {})
              ELSE Status(gates, in.block, summary_for(blockers), blockers)

-----------------------------------------------------------------------------
(* One manifest alone (semantic.cpp, validate_manifest at 2.0.0-pre.2)     *)

\* The blockers name exactly the locally failed gates, and the summary them.
manifest_blockers_valid(m) ==
    LET pending == "not_evaluated" \in {m.validity, m.zero_loss, m.tail, m.block} IN
    IF pending THEN m.estimability = "not_evaluated" /\ m.blockers = {}
    ELSE /\ "blocked_zero_loss" \in m.blockers <=> m.zero_loss = "fail"
         /\ "blocked_effective_tail" \in m.blockers <=> m.tail = "fail"
         /\ "blocked_invalid_run" \in m.blockers <=> m.validity = "invalid"
         /\ "blocked_incomplete_block" \in m.blockers <=> m.block = "incomplete"
         /\ m.estimability = summary_for(m.blockers)

\* Artifacts and failure records the lifecycle forbids or requires.
manifest_evidence_valid(m) ==
    LET refs == DOMAIN m.refs IN
    /\ m.lifecycle \in FailureStates => m.validity = "invalid" /\ m.failures # {}
    /\ m.validity = "invalid" => m.failures # {}
    /\ m.lifecycle \in EarlyFailures =>
         m.counts = None /\ ~m.integrity /\ refs \subseteq {"provenance"}
    /\ m.join = "failed" =>
         /\ m.validity = "invalid" /\ m.failures # {}
         /\ "join_audit" \in refs /\ "joined_derived" \notin refs

\* A valid completed Stage A run has everything, and its gates follow from
\* its counts.
manifest_completion_valid(m) ==
    (m.stage = "stage_a" /\ m.lifecycle = "completed" /\ m.validity = "valid") =>
      /\ m.counts # None /\ m.integrity /\ m.join = "passed" /\ m.counting = "pass"
      /\ Relationships \subseteq DOMAIN m.refs
      /\ complete_count_identities(m.counts)
      /\ m.zero_loss = Gate(m.counts.full = 0)
      /\ m.tail = Gate(m.counts.n_eff >= Threshold)

validate_manifest(m) ==
    manifest_blockers_valid(m) /\ manifest_evidence_valid(m) /\ manifest_completion_valid(m)

-----------------------------------------------------------------------------
(* The record graph of a run (Stage12CrossRecordSemanticValidator).  A     *)
(* graph holds the manifest, the artifact bytes by id, the envelopes, the  *)
(* failure and schedule records, and the injected evidence.                *)

Resolves(g, ref) == ref.id \in DOMAIN g.artifacts /\ g.artifacts[ref.id] = ref.sha
HasRef(g, r) == r \in DOMAIN g.manifest.refs

artifacts_resolve(g) ==
    /\ \A r \in DOMAIN g.manifest.refs : Resolves(g, g.manifest.refs[r])
    /\ \A e, f \in g.envelopes : e # f => e.id # f.id
    /\ \A f \in g.failures : f.selfHash /\ \A ref \in f.evidence : Resolves(g, ref)
    /\ g.manifest.selfHash

failures_resolve(g) ==
    \A id \in g.manifest.failures :
       \E f \in g.failures : f.id = id /\ f.run = g.manifest.run

invalidating_failure(g) ==
    \E f \in g.failures :
       f.id \in g.manifest.failures /\ f.run = g.manifest.run /\ f.invalidates

EnvelopeOf(g, r) ==
    IF ~HasRef(g, r) THEN None
    ELSE LET found == {e \in g.envelopes : e.id = g.manifest.refs[r].id}
         IN IF found = {} THEN None ELSE CHOOSE e \in found : TRUE

\* The decoded rows of a raw artifact of the manifest.
Rows(g, r) ==
    LET e == EnvelopeOf(g, r) IN
    IF e = None \/ g.manifest.refs[r].id \notin DOMAIN g.artifacts THEN None
    ELSE decode_external_raw(e, g.artifacts[g.manifest.refs[r].id])

RawRefs(g) == DOMAIN g.manifest.refs \cap {"producer_raw", "consumer_raw", "joined_derived"}

raw_decodes(g) == \A r \in RawRefs(g) : EnvelopeOf(g, r) # None /\ Rows(g, r) # None

\* The queue provenance names the queue of the manifest.
provenance_matches(g) ==
    HasRef(g, "provenance") => g.artifacts[g.manifest.refs["provenance"].id].queue =
                                 g.manifest.queue

\* make_join_audit: a passed join names the joined artifact, a failed one none.
make_join_audit(run, result, producer, consumer, joined) ==
    IF (result.status = "passed") = (joined # None)
    THEN [run |-> run, status |-> result.status, producer_rows |-> result.producer_rows,
          accepted_rows |-> result.accepted_rows, full_rows |-> result.full_rows,
          consumer_rows |-> result.consumer_rows, issues |-> result.issues,
          sources |-> <<producer, consumer>>, joined |-> joined, selfHash |-> TRUE]
    ELSE None

\* The stored audit agrees with the manifest.
audit_content(g) ==
    HasRef(g, "join_audit") =>
      LET audit == g.artifacts[g.manifest.refs["join_audit"].id] IN
      /\ audit.run = g.manifest.run /\ audit.selfHash
      /\ audit.status = IF g.manifest.join = "passed" THEN "passed" ELSE "failed"
      /\ audit.producer_rows = audit.accepted_rows + audit.full_rows
      /\ HasRef(g, "producer_raw") /\ HasRef(g, "consumer_raw")
      /\ audit.sources = <<g.manifest.refs["producer_raw"], g.manifest.refs["consumer_raw"]>>
      /\ IF g.manifest.join = "passed"
         THEN HasRef(g, "joined_derived") /\ audit.joined = g.manifest.refs["joined_derived"]
         ELSE audit.joined = None

\* The integrity report is the manifest's, matched, and named by every raw
\* envelope.
integrity_content(g) ==
    g.manifest.integrity /\ HasRef(g, "phase_integrity_report") =>
      LET ref == g.manifest.refs["phase_integrity_report"]
          report == g.artifacts[ref.id]
      IN /\ report.run = g.manifest.run /\ report.matched
         /\ report.checksums = g.manifest.checksums
         /\ \A r \in RawRefs(g) : EnvelopeOf(g, r) # None => EnvelopeOf(g, r).integrity = ref

\* The rows decoded are of this kind (inline_rows).
OfKind(g, r, kind) == Rows(g, r) # None /\ EnvelopeOf(g, r).kind = kind

\* The join is attempted when both streams decode, each as what it should be.
Attempted(g) ==
    /\ HasRef(g, "producer_raw") /\ HasRef(g, "consumer_raw")
    /\ OfKind(g, "producer_raw", "producer") /\ OfKind(g, "consumer_raw", "consumer")

Reconciled(g) ==
    reconcile(Rows(g, "producer_raw"), Rows(g, "consumer_raw"), g.evidence.mapping)

\* Mutant: the joined artifact is trusted once its envelope decodes.
joined_exact_trusted(g, result) ==
    result.status = "passed" => Rows(g, "joined_derived") # None

\* The joined artifact equals the rows derived here, and names its sources.
joined_exact(g, result) ==
    result.status = "passed" =>
      /\ HasRef(g, "joined_derived") /\ OfKind(g, "joined_derived", "joined")
      /\ Rows(g, "joined_derived") = result.joined
      /\ EnvelopeOf(g, "joined_derived").sources =
           <<g.manifest.refs["producer_raw"], g.manifest.refs["consumer_raw"]>>

\* Mutant: the manifest's counts are not compared with the rows.
raw_counts_unchecked(g, result) == TRUE

raw_counts(g, result) ==
    (result.status = "passed" /\ g.manifest.counts # None) =>
      LET counts == g.manifest.counts IN
      /\ counts.attempted = result.producer_rows
      /\ counts.accepted = result.accepted_rows
      /\ counts.full = result.full_rows
      /\ counts.consumed = result.consumer_rows
      /\ counts.samples = Len(result.joined)

\* The stored audit is the one generated again from the rows.
audit_exact(g, result) ==
    HasRef(g, "join_audit") =>
      g.artifacts[g.manifest.refs["join_audit"].id] =
        make_join_audit(g.manifest.run, result, g.manifest.refs["producer_raw"],
                        g.manifest.refs["consumer_raw"],
                        IF result.status = "passed" /\ HasRef(g, "joined_derived")
                        THEN g.manifest.refs["joined_derived"] ELSE None)

\* Every issue of the join is an error of the graph, so a graph whose rows do
\* not join is never accepted.
join_agrees(g) ==
    Attempted(g) =>
      /\ g.evidence # None
      /\ LET result == Reconciled(g) IN
         /\ result.status = g.manifest.join /\ result.issues = {}
         /\ joined_exact(g, result) /\ raw_counts(g, result) /\ audit_exact(g, result)

\* The schedules resolve, and the measurement one offered what was counted.
schedules_agree(g) ==
    LET m == g.manifest
        found(ref) == {s \in g.schedules : s.artifact = ref}
    IN /\ Resolves(g, m.schedule) /\ Resolves(g, m.warmup)
       /\ m.lifecycle = "completed" => found(m.schedule) # {} /\ found(m.warmup) # {}
       /\ \A s \in found(m.schedule) :
            m.counts # None => m.counts.offered \in {None, s.offered}

\* The gates the manifest states are the ones evaluated here.
status_agrees(g) ==
    LET m == g.manifest
        unknown == [status |-> "not_evaluated", authoritative |-> FALSE]
        status == evaluate_run_status(
            [stage |-> m.stage, lifecycle |-> m.lifecycle, join |-> m.join,
             counts |-> m.counts, invalidating |-> invalidating_failure(g),
             block |-> IF g.evidence = None THEN unknown ELSE g.evidence.block,
             access |-> IF g.evidence = None THEN unknown ELSE g.evidence.access])
    IN /\ status # None
       /\ status = [validity |-> m.validity, counting |-> m.counting,
                    zero_loss |-> m.zero_loss, tail |-> m.tail, block |-> m.block,
                    estimability |-> m.estimability, blockers |-> m.blockers]

Stage12_validate(g) ==
    /\ validate_manifest(g.manifest)
    /\ artifacts_resolve(g)
    /\ failures_resolve(g)
    /\ raw_decodes(g)
    /\ provenance_matches(g)
    /\ audit_content(g)
    /\ integrity_content(g)
    /\ join_agrees(g)
    /\ schedules_agree(g)
    /\ status_agrees(g)

=============================================================================

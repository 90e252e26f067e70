# TLA+ development for cpu_prefetch_research_code

The repository is a measurement program: a producer thread enqueues events at
scheduled times into one of two single-producer single-consumer queues, a
consumer thread dequeues them, both record timestamps, and everything around
them exists so that a run's evidence can be trusted (a lifecycle journal, an
append-only two-copy artifact store, reconciliation, access control,
statistics). This directory holds models of its core, the TLC configurations
that check them and TLAPS proofs about them.

`PROJECT.json` maps each definition to the source lines it stands for, lists
the runs, the deliberate defects each property was seen to catch (`mutants`),
the disagreements between documents and code (`findings`), the hazards and the
theorems.

## Inventory

| Component (source) | State | Operations | Interacts with | Hard part | What makes it correct |
|---|---|---|---|---|---|
| Ring queue (`queue/ring_spsc`) | slots, two cursors | enqueue, dequeue, prefetch targets | both worker threads through the slots | stale observations, wrap, capture failing half-way | bounded FIFO |
| Linked queue (`queue/linked_spsc`) | nodes, head, tail, recycler slots and its two cursors | enqueue, dequeue, quiescent audit | both worker threads | node reuse while the other thread reads, leaked node | bounded FIFO, one owner per node |
| Executor, start barrier, termination word (`lifecycle/executor.hpp`, `runtime`) | barrier words, cancellation, failure and end flags, per-thread counts | execute_measurement: controller, producer, consumer | queue, capture backend, clock | races of watchdogs with release, publication and failure | a success report is a whole run; every call returns |
| Capture backend (`storage/capture_backend.hpp`, `timing/capture`) | two row streams | producer attempt, consumer poll | queue, clock, streams | enqueue done but row lost | rows join by ordinal |
| Run state machine (`lifecycle/state_machine`) | phase, imported state, journal | transition, outcome annotation, recovery | its callers, validators | long legal sequences | failures retained, valid means whole, one time line |
| Preparation, warm-up, reset validators (`runtime.cpp`) | none; they judge the state warm-up leaves | prepare, complete warm-up, reset, validate a schedule | runner, executor | residue of the warm-up in what is measured | the measurement starts fresh |
| Artifact store (`storage/artifact_store`, `artifacts`) | files in two domains and a ledger, reserved identities | open, publish, recover staging | file system, finalization | crash between any two system calls | sealed means two durable copies |
| Observation streams (`storage/raw_observations`) | rows, capacity, completeness | append, seal, encode, decode | backend, finalization | full buffer after the enqueue took effect | never truncated silently |
| Finalization (`storage/finalization`) | none of its own | publish two streams and an integrity record | streams, store | early return between publications | integrity only with verified streams |
| Storage budget (`storage/budget`) | none | size arithmetic | runner | 64-bit edges | equals exact arithmetic or refuses |
| Clock, intervals (`timing/*`) | clock origin | read, derive intervals, qualify | capture, reconciliation | clocks of two cores, overflow | interval identities |
| Workload (`workload/*`) | arenas, working set | build, touch, compute | packages, runner | deterministic generation | addresses visited once |
| Schedules (`schedule`) | none | load, validate uses | runner | collisions over a list of uses | disjoint namespaces |
| Runner (`runner`) | admission, ticket | gates before a run | everything | evidence changed after it was hashed | the evidence of a ticket was seen as declared |
| Platform control (`platform`) | controls of the machine | observe, apply, restore | actuator | a step fails, rollback fails | restored or reported |
| Access ledger, replacement (`orchestration/access`) | ledger entries | append, authorize, replace block | analysis | release order, budget at its limit | no outcome seen early |
| Block planning, precision (`orchestration`) | the pool of plans | freeze counts, plan and validate blocks | schedules, access | two implementations, edits in between | matched within a block, independent across, counterbalanced |
| Reconciliation (`reconciliation`) | none | exact join, audit, run status, Stage 12 validation | streams, intervals, manifest | partial streams, gates known at different times | what is accepted is true |
| Calibration (`calibration`) | demand trace | record, compare | runner | exact rationals in 64 bits | exact or refused |
| Analysis (`analysis`) | none | resampling, decisions | reconciliation, access | floating point | — |
| Protocol documents (`protocol/*`) | none | parse, load, cross-check | everything | — | — |

How they meet: a study is planned in blocks (block planning), a run is budgeted,
scheduled, admitted, warmed up and reset (preparation), the state machine keeps
its journal, the executor runs both workers over one of the queues, the backend
fills two streams, finalization publishes them through the store,
reconciliation joins and judges what was published, and the access ledger says
who may look at the outcome and which blocks may be run again.

## Modules

**BoundedFifo** is the promise of a queue: accepted, full, item, empty, or an
operation abandoned by a failed capture, on a FIFO of at most `Capacity - lost`
events. `lost` counts places given up by abandoned enqueues; for the ring it is
always 0.

**RingSpsc** (`ring_spsc.hpp`, `ring_spsc.cpp`). `slots`, `producerPos` and
`consumerPos` are the fields. An operation is split where the other thread can
look: observe (the acquire load), then publish, capture-failed or clear. `fifo`
is the history of what is queued; a dequeue leaves it at the clearing store.
`next_position` and `position_at_distance` keep the code's compare-and-subtract
arithmetic.

**LinkedSpsc** (`linked_spsc.hpp`, `linked_spsc.cpp`). `next`, `event`, `head`,
`tail`, `recycler` and its two positions are the fields; `chain` and `lost` are
history. Enqueue: full, take from the recycler, prepare (plain writes), then
link or abandon. Dequeue: empty, observe, capture-failed, check the return slot,
return. `audit_quiescent` is an operator that walks the pointers as the code
does, with its step limit.

**Executor** (`executor.hpp`, `runtime.hpp`, `runtime.cpp`,
`capture_backend.hpp`). Three threads with a program counter each. The queue is
the FIFO of BoundedFifo with atomic operations, which is what the two queue
modules justify. An attempt is two steps: the enqueue, from which on the consumer
may take the event, and the append of the producer's row, which may come later
than the consumer's row or fail. The clock is abstract (early, due, or failing); only the
deadline sum keeps its width. `Faults` says what may fail.

**RunStateMachine** (`state_machine.cpp`). One action per public operation. A
refused request changes nothing, so each check is a conjunct of the guard.

**ArtifactStore** (`artifact_store.cpp`, `artifacts.cpp`). One action per system
call that changes what survives: stage, write, fsync, read back, link, directory
sync, read back, unlink, directory sync; the same for the ledger; opening; and
recovery. A file entry is cached or durable, its bytes synced or not. The file
system is external and its assumption is the usual one: after a power failure
an entry or bytes not yet synced may or may not be there, everything synced is.

**PlatformControl** (`platform.cpp`). One action per control tried, restored or
read back; the three calls apply, verify and manifest follow each other. The
machine, the actuator and the verifier are external: a failed operation may have
changed its target, anything may change between apply and verify, and a readback
that is fresh and by its declared mechanism tells the truth. Nothing else changes
the machine from the first readback to the manifest. Controls may share a target.
The placement checks count as one verdict of the request.

**AccessLedger** (`access.cpp`, freeze records in `semantic.cpp`). The state is
the ledger, the authority policy, the blocks, the decisions and the last grant.
Submitting a record appends it; a question about an outcome validates the whole
ledger again, against the blocks as they are by then, as the code does.
`validate_access_ledger` is the conjunction of one operator per rule;
`decide_complete_block_replacement` and the Stage 14 validator are two separate
sets of operators because they are two implementations in the code. A request
carries the caller's own copy of the block to replace, and the decider asks the
pool for its id only. A replacement block is kept with the request it was decided
on, which the properties refer to and the checks do not read. Failures are a list
because Stage 14 takes the first with an id. Whether the failure and the invalid
run are kept is the caller's choice, since the decider does not ask.

**Reconciliation** (`reconciliation.cpp`, `intervals.cpp`, the decoder of
`raw_observations.cpp`, manifests in `semantic.cpp`) holds operators only: the
join, the intervals, the gates and the Stage 12 validator. **RunEvidence**
(`capture.hpp`, `raw_observations.cpp`, `finalization.cpp`) is the state machine
around them: producer and consumer take their clock readings one step at a time
around the queue, rows are appended to streams of limited capacity, the five
objects are published in order with any outcome of the store, and a manifest is
judged together with what it refers to. The queue is the environment here and
may lose, repeat or exchange an event; the queue modules show that the real ones
do not. ArtifactStore is reduced to the outcomes of a publication. What is
submitted is about this run (`OfThisRun`): a raw stream it refers to is one that
was published, and the mapping is the generated one. Everything else in the
records, the joined rows, the counts, the audit and the status, may be false.

**StudyPlan** (`precision.cpp`, `block_planning.cpp`, block plans in
`semantic.cpp`). Counts are frozen, blocks are generated from seed catalogs,
a kept plan may be edited and hashed again, and the pool is validated. The order
a key derives is any permutation of a given set. **BlockIds** holds the block
identity that StudyPlan and AccessLedger both derive.

**RunInputs** (`budget.cpp`, `clock.cpp`, `schedule.cpp`, sizes of
`raw_observations.cpp`) holds operators over words of a given width.
**RunPreparation** (`runner.cpp`, `runtime.cpp`) is the sequence from the storage
plan to the measurement: budget, schedules and their uses, admission on files
that other processes write between any two reads, preparation, warm-up, reset,
the executor's entry and the readings of its clock.

The `MC` modules give the constants their values: documents that are right, and
documents with one thing wrong. Eight modules hold the theorems:
**RingSpscProofs**, **LinkedSpscProofs**, **ArtifactStoreProofs**,
**PlatformControlProofs**, **RunPreparationProofs** and **RunEvidenceProofs**
are about the module they are named after, **LifecycleProofs** is about Executor
and RunStateMachine, and **OrchestrationProofs** about AccessLedger and
StudyPlan. The two modules in one proof module do not share state, so the
operators of the second are named `JournalSpec` and `StudySpec`.

## Runs

| Run | Bounds | Shows |
|---|---|---|
| `ring` | capacity 3, 2 events, captures may fail; 6,835 states | types, slots hold the FIFO, observations stay true, prefetch targets (`MaxDistance` = 10 = 3·capacity + 1, so that they wrap more than twice), refinement of BoundedFifo |
| `linked` | capacity 3, 4 nodes, 2 events, captures may fail until no node is left; 681,185 states | chain and recycler shape at every step, single ownership, no concurrent access to plain fields, the audit's answer, refinement of BoundedFifo |
| `executor` | capacity 1 (so that full happens), four schedules, three sets of limits, every fault; 48,783 states | success report, drained claim, joinable rows, blame, termination |
| `lifecycle` | two timestamps, two notes of each kind, lists of artifact claims that pass and fail each rule; 85,848 states | failures retained, valid means whole, time line, append-only |
| `store` | two objects, two artifacts, one record, one payload, symmetric; 276,553 states | what is sealed or verified is on disk after any failure |
| `platform` | two targets, two values, up to three controls, two of them on one target, every combination of prior observations, requests that fail one check each; 157,049 states | what an eligible manifest and a complete rollback mean |
| `access` | a block of each role, ledgers of up to 7 records, 3 policies, every milestone in any order or with one of 8 to 12 faults, up to 2 replacements, each on a true or an edited copy of the block, with a failure id of its own or one used before, its evidence kept or not, and 1 amendment; 126,088 states | outcomes are granted in the order of the chronology; the pool a record sealed is the pool that counts; the budget is exact; decided replacements resolve and only true ones are accepted; unsealing takes two persons |
| `evidence` | 3 events of 2 records, queue of 2, clock of 2 values, rows for all or one too few, one queue fault or one failing publication, manifests with one false claim; 506,718 states | complete streams are whole, sound runs join, only exact joins pass, accepted counts and latencies are those of the run, honest manifests are accepted |
| `planning` | 2 packages, 2 placements, 2 loads (16 cells a block), up to 3 blocks, 8 catalogs, edits of two cells; 226,845 states | generator and validator agree; accepted pools are matched, independent, counterbalanced and of the frozen size |
| `preparation` | words of two bytes of 16 values, 22 schedule offers in up to 3 uses, 14 admissions on 2 files; 1,328,870 states | budgets equal exact arithmetic or refuse, uses agree pairwise, what decodes also runs, a ticket's evidence was seen, nothing of the warm-up is measured, readings keep their order |

Where several statements describe one piece of state they are the named conjuncts
of one invariant (`RingInv`, `LinkedInv`, `CopiesInv`, `StreamsAreWhole`,
`ReplacementsAreBounded` and so on; the type invariant of a module is one of
them), and `mutants` holds a deliberate defect for each conjunct.

A ledger of seven records is the shortest that passes every milestone up to the
archive; two replacements are the budget, so that the third is refused, and let
a replacement be replaced. Three events are the fewest for which a repeated
record, an exchange and a FULL attempt happen together. A word of 256 values
lets products, sums and rounding wrap with sizes of a few units, and the plans
lie around these edges. The bounds named for TLC only are `MaxDistance` (ring),
`MaxRecords`, `MaxAuthorizations`, `MaxAmendments`, `LastAuthorization` and `LongLedger`
(access), `MaxTime` and `MaxQueueFaults` (evidence), `MaxBlocks` (planning) and
`MaxUses` (preparation); evidence files are not written any more once the warm-up
has begun, as nothing reads them after that.

Capacity 3 is the smallest ring whose window can wrap with a free slot on
either side; four nodes let the recycler, the chain and a node in hand be
non-empty together. Two objects and one record let two publications compete for
one ledger name. The counters bounded for TLC are `MaxNotes` in RunStateMachine
and the poll limits of Executor, which the code bounds as well.

Deadlock is checked in `ring`, `linked`, `executor`, `store` and `platform`. A
finalized run, a finished study, a judged manifest and a run whose preparation
was refused have nothing left to do, so the other runs do not check it.

Two further runs each show a sentence of a document that the code does not keep
(details and quotations under `findings`):

| Run | What happens |
|---|---|
| `store_recovery` | a publication writes its staging file and the `fsync` fails; recovery reads the right bytes back from the cache, links them, syncs the directory and returns the copy as complete and verified, with bytes nobody has synced |
| `evidence_status` | the status evaluation gives a run whose access gate is still open is refused by the manifest's own validator |

Remarks, without a run:

* `docs/QUEUE_CORRECTNESS.md` places a ring dequeue at its acquire load. With
  that point an enqueue between the load and the clearing store returns full
  while fewer than `Capacity` events are queued. The ring refines the bounded
  FIFO with the dequeue at its clearing store.
* A worker whose start watchdog expires after the release is reported as a
  start-barrier failure although the other worker may have measured rows;
  `docs/LIFECYCLE.md` calls a barrier failure pre-measurement evidence.
* The consumer's wait watchdog (`executor.hpp` 351) reports a measurement
  failure without the second look at the termination word that a failed poll
  takes, so it may come after the publication.
* `validate_consequences` forbids measurement artifacts at a failure before the
  measurement, and accepts them at the finalization that follows.
* A capture that fails before publication (`linked_spsc.hpp` 151) leaves a node
  in neither the chain nor the recycler with no operation in progress, where
  `docs/QUEUE_CORRECTNESS.md` 100-102 counts every node in one of the two. The
  capacity shrinks by one; `AuditTellsTheTruth` says that the audit reports it.
* The drain watchdog (`executor.hpp` 321) breaks out before it counts an item
  that its poll has taken and whose row is kept; `docs/LIFECYCLE.md` 125 speaks
  of actual partial counts.
* A ledger that is linked and whose directory sync then fails
  (`artifact_store.cpp` 293) is reported as not persisted while the sealed
  record is on the disk.
* A platform control is changed when a prior observation of it exists, be it
  stale or without a value (`platform.cpp` 617); the message says "fresh
  pre-state evidence". An application that stopped before its last control gets
  no manifest (`platform.cpp` 798), where `docs/PLATFORM_CONTROL.md` 123-124
  says that partial manifests are valid artifacts.
* A validation unseal accepts any earlier record as the selection it links
  (`access.cpp` 810); the message says "must hash-link the earlier selection
  freeze". The order of the states makes sure that there is one.
* Stage 14 compares a replacement with the block and the original its
  authorization names, and takes the authorization's affected blocks only to be
  one (`access.cpp` 1283-1303, `semantic.cpp` 636): that the one is the original
  is not compared, and `AcceptedStudyIsAccountable` does not say it.
* `decide_complete_block_replacement` may authorize a block whose order breaks
  the counterbalance of the pool, which the pool validation then refuses.
* Stage 12 does not look at the completeness of a stream, only at its rows; a
  graph whose rows do not join is refused even when its manifest says so; two
  events with the same record index can be exchanged unnoticed.
* `validate_derivation_record` (`schedule.cpp` 265-271) compares only values
  that are not empty, so a derivation record without a seed, parent or
  namespace passes; `docs/STAGE7_DECISION_BUNDLE.md` 147-148 says that they must
  match. `validate_prepared_schedule` reads its horizon as an end where a
  schedule record's horizon is a length. They agree when the caller adds the
  origin; no code of the repository does this conversion, so `View` is external
  and a caller that confuses the two would not be noticed here.
* A runner's ticket does not expire and its evidence is hashed file by file, once
  (`runner.cpp` 525). A rewrite after the hash of a file is not noticed, between
  two hashes or later: that a file is immutable is a boolean of the admission
  document. The property says what is left.
* Recovery of an object that is already published (`artifact_store.cpp` 463) also
  syncs nothing: after a crash between the link and the directory sync it reports
  as verified a name that a power failure may remove.
* `decide_complete_block_replacement` authorizes a request whose copy of the block
  has another role, ordinal or subspace than the retained one (`access.cpp`
  956-958, 1057-1063), and the pool may then hold other numbers of each role. It
  also authorizes a request with a failure id that is used already. Stage 14
  refuses both when the study is validated.

### Fairness

Only Executor states fairness: weak fairness of each of the three threads. The
executor starts its two workers as `std::thread`s and joins them; platform
control requires two distinct online cores for them. No thread ever blocks on
another: every loop is a poll loop with a limit, so a thread that the operating
system keeps scheduling makes progress. No fairness is assumed of
the clock, of the outcome of a capture or of the race between threads, so
`RunReturns` holds for a clock that never becomes due.

## Proofs

The theorems hold for every value of the constants that the named assumptions
admit: every capacity, schedule, document, policy and set of identities, not
only those of the runs. Each component has one theorem `Spec => []I` for an
inductive `I`, and the properties the runs check follow from it. Where `I` holds
no quantifier that TLC cannot bound, it was checked as an invariant of the
component's run before it was proved.

| Module | Inductive invariant | Theorems about properties the runs check |
|---|---|---|
| RingSpscProofs | `RingInv` | `RingInvariant`, `RingTypeCorrect`, `RingSlotsHoldFifo`, `RingObservationStillTrue`, `RingTargetsLieAhead`, `RingImplementsFifo` |
| LinkedSpscProofs | `LinkedIndInv` | `LinkedShapeHolds`, `NodeFieldsAreNotShared`, `AuditStaysTrue`, `LinkedImplementsFifo` |
| LifecycleProofs (Executor) | `ExecutorIndInv` | `RowsJoin`, `DrainIsComplete`, `SuccessIsWhole`, `ReportNamesCause` |
| LifecycleProofs (RunStateMachine) | `LifecycleInv` | `JournalIsOrdered`, `FailureStaysRetained`, `ValidRunsAreWhole`, `HistoryStaysAppendOnly` |
| ArtifactStoreProofs | `StoreInv` | `CopiesAreSafe`, `SealedResultsAreOnDisk`, `PublishedStaysPermanent` |
| PlatformControlProofs | `PlatformIndInv` | `RollbackIsExact`, `EligibleIsInForce` |
| RunPreparationProofs | `PreparationIndInv` | `MeasurementIsPrepared`, `DecodedSchedulesRun`, `TicketEvidenceWasSeen`, `ClockOrderIsKept`, `AcceptedUsesMatch`, `BudgetsAreExact` |
| RunEvidenceProofs | `EvidenceInv` | `NothingIsTruncated`, `JoinIsExactAlways`, `AcceptedTellsTheTruth`, `EstimableIsClean` |
| OrchestrationProofs (AccessLedger) | `AccessIndInv` | `OutcomesStayInOrder`, `SealHolds`, `ReplacementsStayBounded`, `ReplacementsAccounted`, `UnsealTakesTwo` |
| OrchestrationProofs (StudyPlan) | `StudyInv` | `GeneratorAgreesWithValidator`, `SeedsStayMatched`, `PoolStaysAsFrozen` |

**Ring.** `RingInv == RingTypeOK /\ SlotsHoldFifo /\ ObservationStillTrue`, and
none of the three is inductive alone. That the slot seen free is still free
rests on the producer being the only one to fill slots; that the store keeps the
window contiguous rests on the slot at the cursor being free; both need the
cursors in range. The refinement follows action by action: an observe step
stutters, full needs that an occupied slot at the producer's cursor means
`Capacity` queued events. A prefetch target is compared with a recursive
function, the cursor moved d times. Its value is found without induction over an
operator: a function that satisfies the recursive equation is exhibited, and two
such functions cannot differ at a least argument.

**Linked queue.** `LinkedInv`, which the run checks, says that head and the next
pointers spell the chain (`ChainIsList`), that the recycler is a window
(`RecyclerIsFifo`), that a node has one owner (`NodesOwnedOnce`) and that a
dequeue finds its return slot free. `LinkedIndInv` adds `LocalsStillTrue`, what
each thread knows between its loads and its stores, because the link and return
steps store what earlier steps loaded; and `RingFollowsOrder`, the reuse order
place by place. Single ownership gives `NodeFieldsAreNotShared`: the node the
producer prepares is neither the sentinel nor its successor. For the audit,
`WalkEnds` shows that following the pointers meets no node twice and stops one
step behind the chain, within the code's limit; ownership then turns counting
nodes into `Capacity + 1 - lost`, so that "every node owned once" fails exactly
when an abandoned enqueue has kept a node.

**Executor.** `ExecutorIndInv` has a part for each thread: `StartIsOrderly` (the
barrier is released or abandoned, never both), `ProducerKnows` and
`ProducerCounts` (a failure is visible before the end of the arrivals is
published; every arrival is attempted once), `ConsumerKnows` (a queue polled
after the end and without a failure belongs to a complete producer),
`CancellationHasCause`, and `StreamsAgree`: the consumer's rows, followed by the
queue, are the accepted events in the order of their ordinals, the last of which
may have no producer row (`IsEvent`: the producer is between the enqueue and the
append, where it is `Uncounted`, or its append failed). This is what `SuccessIsWhole` needs, since
a success report compares counts only, and what `RowsJoin` says of a consumer row
without a partner. The queue
in it is the one that the two refinements justify.

**Run state machine.** The journal alone does not tell why a run is where it is.
`PhaseTellsHistory` relates the phase to the set of phases the journal holds:
the whole way to it when nothing failed, otherwise exactly one failure, which is
the imported value. `CompletionNamedArtifacts` and `RecoveriesFollowTheEnd`
complete it. Any number of notes is allowed.

**Artifact store.** `JobKnows` and `CallKnows` say what the system calls of a
publication have established so far, in the file system and not in memory, so
that a power failure between any two of them keeps the other parts. A sealed
ledger document is written only with both copies durable, is synced before it is
linked, and no step removes or replaces a published name: `SealedMeansTwoCopies`
and `VerifiedCopiesSurvive` follow for any sequence of publications, crashes and
recoveries. `PublishedStaysPermanent` is an action property.

**Platform control.** The difficulty is a target shared by several controls:
restoring from the last to the first leaves it at the value recorded before the
first change. `RestoreLoop` says so for the part of the list already restored;
`ApplyLoop` and `VerifyLoop` say what a clean prefix of the other two loops
means.

**Preparation.** `AdmissionKnows` keeps what the runner knows of each evidence
file while other processes still write: a file that was hashed has the declared
content, unless it was written since (`outdated`, a history of the files written
after their own hash). Nothing is assumed of files declared immutable. `QueueKnows` follows warm-up and reset stage by
stage, `UsesAreDecoded` ties each use to the offer it was decoded from, and
`SamplesFollowClock` measures every sample from the first. `BudgetsAreExact` is
about the storage budget alone: each word operation is the exact one or a
failure (the quotient test of `checked_multiply` is the comparison of the
product), so is each composition of them, and so are the loops over the runs and
the auxiliary sizes. The loops are recursive functions of the round; that such a
function exists, and that each round keeps the total exact, is shown by the
first round at which it would fail. `SizingIsComputed` is the only invariant it
needs.

**Access ledger.** `validate_access_ledger` accepts a list, and its meaning has
to be drawn from that list: that the state reached by a record was reached by a
step, that steps follow each other and that no state is passed twice. These are
facts about all positions of a ledger of any length; each is shown by the least
position at which it would fail. `PlansFollow` ties every replacement block to
the request that admitted it: the copy, the authorization, the failure and the
run. This makes the budget count exact and, where the copy is true and the
evidence kept, the replacement resolve under the second, separate implementation
of the rules in Stage 14. What an accepted study accounts for is drawn from
Stage 14's own lookups, since the copy may have been edited.

**Run evidence.** `EvidenceInv` follows an event from the attempt to the row and
into the object that is published:

* `Kept`: a stream has one row for each step of its thread until a row did not
  fit, and then the thread has failed and the stream is sealed incomplete. With
  `PublicationHolds`, that what was published is what the sealed streams hold,
  it gives `NothingIsTruncated`.
* `AttemptInHand`, `ProducerWordsHold`, `ConsumerInHand` and `ConsumerWordsHold`:
  the readings of a row, in hand or written, are in their order; the ordinal of
  an accepted row counts the accepted rows before it.
* `InOrderOfAcceptance`: while the queue is correct and neither thread has
  failed, what was observed and what is in the queue are the accepted events in
  their order, and the enqueue was stamped no later than the dequeue
  (`HandedOver`). The property alone is about sealed streams; this part holds
  at every step in between, where an event is in the queue, in a hand, or in one
  of the two streams only. With `DrainIsEmpty` it gives the first half of
  `JoinIsExactAlways`, that a sound run is never called inconsistent.

The second half of `JoinIsExactAlways` and `AcceptedTellsTheTruth` draw the
meaning from the check instead: the accepted rows are selected in order
(`in_order`, shown to be the increasing enumeration of the set it is given), so
the rows of a join that passed pair up one to one; the decoder is shown to
return the rows that were encoded; and the validator's own join over the
published bytes is the join of the rows the two threads wrote, whatever the
manifest says. The figures are those of a Stage A manifest, because completed
evidence is demanded of no other stage (`semantic.cpp` 392). `EstimableIsClean`
needs in addition that the status of the manifest is the one
`evaluate_run_status` gives.

**Study plan.** The control is small (`StudyInv`: what was frozen passed its
checks, a plan keeps its role, place and catalog whatever is edited, and the
generator was never refused) and the argument is about the computations. For
`GeneratorAgreesWithValidator`: the cells of a whole plot are numbered in mixed
radix over the factors, the numbering is one to one and onto, an order permutes
it, hence the generated cells are the factorial, each once, in two whole plots;
`arena_index` and `arrival_index` are one to one on contexts and on contexts with
loads, so that distinct seeds are shared exactly as the validator asks. For the
two theorems on accepted pools the same facts are drawn from the validator, not
the generator, since the plan may have been edited: `SeedsStayMatched` from
`seed_sharing` and `seeds_not_reused`, `PoolStaysAsFrozen` by counting runs as
the product of the block identities and the cells, and by locating the change
of the hardware state in `whole_plots_hold`. The sums of the frozen counts are
words that did not wrap.

Assumptions, each evaluated by TLC on the values of the runs:

* ring and linked queue: a positive capacity (the constructors check it), null
  is no event and no node, the node order is a permutation
  (`CapacityAssumption`, `EventsAssumption`, `DistanceAssumption`,
  `LinkedCapacityAssumption`, `NodeOrderAssumption`, `PointersAssumption`);
* `ExecutorAssumption`: deadlines, origins and horizons are ticks of the word's
  width and limits are natural numbers, as their unsigned types are;
* `LifecycleAssumption`: timestamps are numbers, consequences are lists of
  claims; `StoreAssumption`: object and record identities differ and a torn
  write is not a payload; `PlatformAssumption`: the prefetch control is among
  the required ones, and a call has the types of its declaration;
* `InputsAssumption`, `SizesAssumption`, `PlansAssumption`,
  `PreparationAssumption`: units fit a word, two rows of the longest run id fit
  a word (32-bit length in 64-bit sizes), numbers of a plan or record are words,
  the clock does not go back, and the absent value is not an admission;
* `AccessAssumption`: the blocks a study starts with are finite, have distinct
  identities and replace nothing; assignments and ids are what their types say;
* `ReconciliationAssumption`, `RunEvidenceAssumption`: scheduled arrivals, record
  indices, capacities and the threshold of the tail are natural numbers, there
  is one record index to an arrival, and the absent value is none of the values
  it is compared with;
* `StudyAssumption`: the factors are arrays of distinct values and not empty, a
  count is a word, seeds are lists, and a derived order is a permutation.

Model-checked only:

* `RunReturns`, the liveness property of the executor;
* `HonestRunIsAccepted` of RunEvidence: it is about the one manifest that tells
  the truth, and what that manifest holds is built by the configuration
  (`MCEvidence`); for arbitrary values of the constants it does not hold;
* the two runs that expect a violation.

## Not modelled

* Both queues interleave sequentially consistent accesses. That release and
  acquire suffice is not shown.
* A `std::thread` constructor that throws, and allocation failure.
* The text of documents: JSON parsing and loading (`protocol/json.cpp`,
  `load.cpp`), formatting and logging. A hash is the content it covers, so
  equal hashes mean equal contents.
* A file is hashed in one step; the chunks it is read in are not split.
* The resolution of the clock and its qualification: checks over one vector of
  samples and a probe of the process image.
* Workload generation and packages: pseudo-random data over millions of
  records, and instructions without an effect on the state.
* Calibration and statistics: 128-bit and floating-point computations over
  measured data, where TLC would check the arithmetic of a model and not of the
  program.
* The comparison registries of block planning and the derivation of an order
  from a key (Philox); the Stage A factor rules of a run manifest.
* The Linux inventory, repository information and the Python tools: input,
  constants and offline generation.

## Plan

1. A release/acquire view model of both queues.
2. The placement checks of `platform.cpp`, now one verdict of the request.

---------------------------- MODULE AccessLedger ----------------------------
(***************************************************************************)
(* Outcome access and block replacement (orchestration/access.cpp).  The   *)
(* study keeps an append-only ledger of freeze records.  Every question    *)
(* (may this analyst read that outcome?) is answered by validating the     *)
(* whole ledger again, against the blocks as they are by then; a block may *)
(* have been replaced since a record named it.  A record is what the       *)
(* checks tell apart: a reference is a name that resolves or not,          *)
(* a hash matches or not, text is there or not.                            *)
(***************************************************************************)
EXTENDS BlockIds, Integers, Sequences, FiniteSets

CONSTANTS
    Catalog,            \* artifact name -> [class, role, namespace, issuer]
    Policies,           \* authority policies the study may be set up with
    Namespace,          \* role_bindings: block role -> namespace
    InitialBlocks,      \* the common block pool before any replacement
    Counts,             \* the prospective counts of the precision plan
    Budget,             \* maximum_replacement_blocks
    BudgetArtifact,     \* the frozen budget in Catalog
    Submissions(_, _),  \* records a study may submit, given ledger and blocks
    Requests(_, _),     \* replacement requests, given ledger and blocks
    MaxRecords          \* bound: length of the ledger

PrincipalRoles ==
    {"freeze_authority", "custodian", "training_analyst", "validation_authority",
     "confirmatory_analyst", "replacement_authority"}
Domains == {"h3_training", "h3_validation", "h1h2"}
PoolRoles == {"h3_train", "h3_validation", "h1h2_supplemental"}
AccessStates ==
    <<"planned", "collected_sealed", "training_open", "selection_frozen",
      "validation_unsealed", "h3_evaluated", "h1h2_released", "archived">>
RecordKinds ==
    {"protocol_freeze", "selection_freeze", "validation_unseal", "h3_evaluated",
     "h1h2_released", "replacement_authorization", "amendment"}

\* The declaration order of AccessState, by which >= compares.
Rank(state) == CHOOSE n \in DOMAIN AccessStates : AccessStates[n] = state

ASSUME AccessAssumption ==
    /\ Budget \in Nat /\ MaxRecords \in Nat
    /\ BudgetArtifact \in DOMAIN Catalog
    /\ \A p \in Policies :
         /\ Len(p.assignments) \in Nat
         /\ DOMAIN p.assignments = 1..Len(p.assignments)
         /\ \A n \in DOMAIN p.assignments :
               <<"validation_authority", p.assignments[n].id>> # None
    /\ IsFiniteSet(InitialBlocks)
    /\ \A b \in InitialBlocks : b.role \in PoolRoles /\ b.replaces = None /\ b.id # None
    /\ \A b, c \in InitialBlocks :
         b # c => b.id # c.id /\ b.ordinal # c.ordinal /\ b.subspace # c.subspace
    /\ None \notin PrincipalRoles /\ None \notin PoolRoles \X Nat

VARIABLES
    policy,     \* AuthorityPolicy: assignments [role, id], overlaps [roles, id, ref]
    records,    \* the ledger, oldest first
    blocks,     \* the block plans, replaced ones included; a replacement is
                \* kept with the request it was decided on
    failures,   \* the failure records retained, oldest first
    manifests,  \* the run manifests retained
    unresolved, \* a replacement decision left the study unresolved
    grant       \* the last access granted: [role, actor, domain, block, at]

vars == <<policy, records, blocks, failures, manifests, unresolved, grant>>

-----------------------------------------------------------------------------
(* Authorities                                                             *)

principal_for(kind) ==
    CASE kind \in {"protocol_freeze", "selection_freeze"} -> "freeze_authority"
      [] kind \in {"validation_unseal", "h1h2_released"} -> "custodian"
      [] kind = "h3_evaluated" -> "confirmatory_analyst"
      [] kind = "replacement_authorization" -> "replacement_authority"
      [] kind = "amendment" -> None

\* The two analysts' roles that sign no record have no protocol role.
protocol_role_for(principal) ==
    CASE principal = "custodian" -> "validation_custodian"
      [] principal \in {"training_analyst", "validation_authority"} -> None
      [] OTHER -> principal

\* The first assignment of a role, None when there is none.
assignment_for(role) ==
    LET at == {n \in DOMAIN policy.assignments : policy.assignments[n].role = role}
    IN IF at = {} THEN None
       ELSE policy.assignments[CHOOSE n \in at : \A k \in at : n <= k].id

\* Six roles, each assigned once; one principal holds two of them only with
\* an immutable authorization of exactly that overlap.
validate_authority_policy ==
    LET held == policy.assignments IN
    /\ Len(held) = Cardinality(PrincipalRoles)
    /\ {held[n].role : n \in DOMAIN held} = PrincipalRoles
    /\ \A m, n \in DOMAIN held :
          m < n /\ held[m].id = held[n].id =>
            \E o \in policy.overlaps :
               /\ o.roles = {held[m].role, held[n].role}
               /\ o.id = held[m].id
               /\ o.ref \in DOMAIN Catalog

-----------------------------------------------------------------------------
(* Blocks                                                                  *)

id_in(id) == \E b \in blocks : b.id = id
Block(id) == CHOOSE b \in blocks : b.id = id
Replaced(id) == \E b \in blocks : b.replaces = id
ActiveBlocks == {b \in blocks : ~Replaced(b.id)}

\* Mutant: the pool a record must name keeps its replaced blocks.
exact_affected_blocks_stale(affected, roles) ==
    LET expected == {b.id : b \in {c \in blocks : c.replaces = None /\ c.role \in roles}}
        actual == {affected[n] : n \in DOMAIN affected}
    IN expected # {} /\ actual = expected /\ Cardinality(actual) = Len(affected)

\* The list names every active block of these roles, each once, and no other.
exact_affected_blocks(affected, roles) ==
    LET expected == {b.id : b \in {c \in ActiveBlocks : c.role \in roles}}
        actual == {affected[n] : n \in DOMAIN affected}
    IN expected # {} /\ actual = expected /\ Cardinality(actual) = Len(affected)

role_allowed_for_record(kind, role) ==
    CASE kind = "selection_freeze" -> role = "h3_train"
      [] kind \in {"validation_unseal", "h3_evaluated"} -> role = "h3_validation"
      [] kind \in {"h1h2_released", "protocol_freeze", "amendment"} -> role \in PoolRoles
      [] kind = "replacement_authorization" -> TRUE

-----------------------------------------------------------------------------
(* One record alone (protocol/semantic.cpp)                                *)

Transition(r, from, to) == r.before = from /\ r.after = to

\* What each kind of record must carry whatever the ledger holds.
validate_freeze(r) ==
    /\ r.kind \notin {"protocol_freeze", "amendment"} => r.affected # <<>>
    /\ CASE r.kind = "selection_freeze" ->
              /\ r.status = "frozen" /\ r.authorized /\ r.role = "freeze_authority"
              /\ Transition(r, "training_open", "selection_frozen") /\ r.prohibited
              /\ r.body.training # {}
         [] r.kind = "validation_unseal" ->
              /\ r.status = "authorized" /\ r.authorized
              /\ r.role = "validation_custodian"
              /\ Transition(r, "selection_frozen", "validation_unsealed")
              /\ ~r.prohibited
              /\ None \notin {r.body.selection, r.body.namespace, r.body.validation}
         [] r.kind = "h3_evaluated" ->
              /\ r.role = "confirmatory_analyst"
              /\ Transition(r, "validation_unsealed", "h3_evaluated")
              /\ None \notin {r.body.selection, r.body.unseal, r.body.evaluation,
                              r.body.namespace, r.body.validation}
         [] r.kind = "h1h2_released" ->
              /\ r.role = "validation_custodian"
              /\ Transition(r, "h3_evaluated", "h1h2_released")
              /\ None \notin {r.body.audit, r.body.evaluation}
         [] r.kind = "replacement_authorization" ->
              /\ Len(r.affected) = 1 /\ r.role = "replacement_authority"
              /\ Transition(r, "planned", "planned") /\ r.prohibited
         [] r.kind = "amendment" ->
              /\ r.role = "protocol_owner" /\ r.prohibited
              /\ r.body.supersedes # None /\ r.body.prior # {} /\ r.body.impact
         [] OTHER -> TRUE

\* The prospective precision freeze that opens training: exact families, seven
\* integer counts, and every artifact it names bound as a hashed input.
decode_training_open_decision(r) ==
    LET bound == {input.ref : input \in r.inputs} IN
    /\ r.body.complete
    /\ r.body.schemas # {}
    /\ r.body.counts # None
    /\ {r.body.delta, r.body.bootstrap} \cup r.body.schemas \subseteq bound

\* An input bound outside the outcome classes.
input_contains(r, ref) ==
    \E input \in r.inputs :
       /\ input.ref = ref
       /\ input.class \notin {"training_only", "validation_sealed", "validation_unsealed"}

-----------------------------------------------------------------------------
(* One record in the ledger (validate_access_ledger)                       *)

\* A reference to an earlier record of the ledger.
record_reference(before, ref) == \E n \in 1..(before - 1) : records[n].id = ref
reference_resolves(before, ref) == ref \in DOMAIN Catalog \/ record_reference(before, ref)

\* Mutant: any principal may sign for the role a record names.
authority_binding_by_role(r) ==
    LET principal == principal_for(r.kind) IN
    principal # None => r.role = protocol_role_for(principal)

\* The signer is the principal assigned to this kind of record.
authority_binding(r) ==
    LET principal == principal_for(r.kind) IN
    principal # None =>
        /\ assignment_for(principal) = r.author /\ r.author # None
        /\ r.role = protocol_role_for(principal)

\* Whether the kind of record authorizes the transition it names.
transition_allowed(n) ==
    LET r == records[n] IN
    CASE r.kind = "protocol_freeze" ->
           /\ \/ Transition(r, "planned", "collected_sealed")
              \/ Transition(r, "collected_sealed", "training_open")
              \/ Transition(r, "h1h2_released", "archived")
           /\ r.prohibited /\ r.role = "freeze_authority"
           /\ r.after \in {"collected_sealed", "archived"} =>
                exact_affected_blocks(r.affected, PoolRoles)
           /\ r.after = "training_open" =>
                /\ exact_affected_blocks(r.affected, {"h3_train"})
                /\ decode_training_open_decision(r)
      [] r.kind = "selection_freeze" ->
           /\ Transition(r, "training_open", "selection_frozen")
           /\ exact_affected_blocks(r.affected, {"h3_train"})
           /\ r.body.rule /\ r.body.checksum
           /\ Cardinality({i \in r.inputs : i.class = "training_only"}) =
                Cardinality(r.body.training)
      [] r.kind = "validation_unseal" ->
           /\ Transition(r, "selection_frozen", "validation_unsealed")
           /\ exact_affected_blocks(r.affected, {"h3_validation"})
      [] r.kind = "h3_evaluated" ->
           /\ Transition(r, "validation_unsealed", "h3_evaluated")
           /\ exact_affected_blocks(r.affected, {"h3_validation"})
      [] r.kind = "h1h2_released" ->
           /\ Transition(r, "h3_evaluated", "h1h2_released")
           /\ exact_affected_blocks(r.affected, PoolRoles)
      [] r.kind = "amendment" -> r.before = r.after /\ r.prohibited

\* Record n moves the ledger; an authorized replacement never does.
moves(n) == records[n].kind # "replacement_authorization" /\ transition_allowed(n)

\* The ledger state before record n: where the last record that moved it led.
state_before ==
    [n \in 1..(Len(records) + 1) |->
       LET moved == {k \in 1..(n - 1) : moves(k)} IN
       IF moved = {} THEN "planned"
       ELSE records[CHOOSE k \in moved : \A j \in moved : j <= k].after]

final_state == state_before[Len(records) + 1]

\* The validation authority's approval is among the inputs.
unseal_approved(r) ==
    \E input \in r.inputs :
       /\ input.ref \in DOMAIN Catalog
       /\ assignment_for("validation_authority") # None
       /\ Catalog[input.ref].issuer =
            <<"validation_authority", assignment_for("validation_authority")>>

\* The evidence each kind of record needs besides its transition.
evidence_resolves(n) ==
    LET r == records[n] IN
    CASE r.kind = "selection_freeze" ->
           /\ r.body.contexts
           /\ \A ref \in r.body.training :
                /\ ref \in DOMAIN Catalog
                /\ Catalog[ref].class = "training_only" /\ Catalog[ref].role = "h3_train"
                /\ [ref |-> ref, class |-> "training_only"] \in r.inputs
      [] r.kind = "validation_unseal" ->
           /\ r.body.namespace = Namespace["h3_validation"]
           /\ r.body.validation \in DOMAIN Catalog
           /\ Catalog[r.body.validation].class = "validation_sealed"
           /\ Catalog[r.body.validation].namespace = r.body.namespace
           /\ unseal_approved(r)
           /\ record_reference(n, r.body.selection)
      [] r.kind = "h3_evaluated" ->
           /\ record_reference(n, r.body.selection)
           /\ record_reference(n, r.body.unseal)
           /\ r.body.evaluation \in DOMAIN Catalog
      [] r.kind = "h1h2_released" ->
           r.body.evaluation \in DOMAIN Catalog /\ r.body.audit \in DOMAIN Catalog
      [] r.kind = "amendment" ->
           /\ \A k \in 1..(n - 1) :
                records[k].kind = "amendment" =>
                  records[k].body.supersedes # r.body.supersedes
           /\ record_reference(n, r.body.supersedes)
           /\ r.body.supersedes \in r.body.prior
           /\ \A input \in r.inputs :
                input.class \notin {"training_only", "validation_unsealed"}
      [] OTHER -> TRUE

\* Timestamps are normalized and do not go back; 0 is one that is not
\* normalized, which later records are not compared with.
in_chronology(n) ==
    LET stamped == {k \in 1..(n - 1) : records[k].stamp # 0} IN
    /\ records[n].stamp # 0
    /\ stamped # {} =>
         records[n].stamp >=
           records[CHOOSE k \in stamped : \A j \in stamped : j <= k].stamp

\* Mutant: a record may begin at a state the ledger has left.
predecessor_state_any(n, state) == TRUE

predecessor_state(n, state) == records[n].before = state[n]

\* Record n adds no error, given the ledger state before every record.
record_sound(n, state) ==
    LET r == records[n] IN
    /\ validate_freeze(r)
    /\ \A k \in 1..(n - 1) : records[k].id # r.id
    /\ r.selfHash
    /\ in_chronology(n)
    /\ \A input \in r.inputs : reference_resolves(n, input.ref)
    /\ authority_binding(r)
    /\ \A k \in DOMAIN r.affected :
         id_in(r.affected[k]) /\ role_allowed_for_record(r.kind, Block(r.affected[k]).role)
    /\ r.kind # "replacement_authorization" =>
         predecessor_state(n, state) /\ transition_allowed(n) /\ evidence_resolves(n)

\* validate_access_ledger returned no error.
ledger_sound ==
    /\ validate_authority_policy
    /\ LET state == state_before IN \A n \in DOMAIN records : record_sound(n, state)

-----------------------------------------------------------------------------
(* Access to outcomes (authorize_outcome_access)                           *)

\* Mutant: a ledger with errors still answers by its last state.
ledger_answers_always == TRUE

ledger_answers == ledger_sound

state_opens(role, domain, blockRole) ==
    \/ /\ domain = "h3_training" /\ role = "training_analyst" /\ blockRole = "h3_train"
       /\ Rank(final_state) >= Rank("training_open")
    \/ /\ domain = "h3_validation" /\ role = "confirmatory_analyst"
       /\ blockRole = "h3_validation" /\ Rank(final_state) >= Rank("validation_unsealed")
    \/ /\ domain = "h1h2" /\ role = "confirmatory_analyst"
       /\ Rank(final_state) >= Rank("h1h2_released")

authorize_outcome_access(actor, role, domain, id) ==
    /\ assignment_for(role) = actor
    /\ id_in(id) /\ ~Replaced(id)
    /\ state_opens(role, domain, Block(id).role)
    /\ ledger_answers
    /\ grant' = [role |-> role, actor |-> actor, domain |-> domain, block |-> id,
                 at |-> Len(records)]
    /\ UNCHANGED <<policy, records, blocks, failures, manifests, unresolved>>

-----------------------------------------------------------------------------
(* Replacement of an incomplete block (decide_complete_block_replacement)  *)

ReplacementCount == Cardinality({b \in blocks : b.replaces # None})

\* A request carries the caller's own copy of the block to replace: the pool
\* is asked for its id, and for nothing else of it.
Copy(b) ==
    [id |-> b.id, role |-> b.role, ordinal |-> b.ordinal, subspace |-> b.subspace,
     order |-> b.order, cells |-> b.cells]

\* An invalid run the block needs, and the failure that invalidates it.
failure_retained(q) ==
    /\ q.run.block = q.replaced.id /\ q.run.role = q.replaced.role
    /\ q.run.invalid /\ q.run.required
    /\ q.failure.id \in q.run.failures /\ q.failure.run = q.run.id
    /\ q.failure.block = q.replaced.id
    /\ q.failure.invalidates /\ q.failure.incomplete

\* Mutant: the authorization need not name the block that is replaced.
authorization_lineage_loose(q) ==
    /\ validate_freeze(q.auth) /\ q.auth.selfHash
    /\ q.auth.kind = "replacement_authorization"
    /\ q.auth.body.failure = q.failure.id

\* The authorization names this block, this failure and the frozen budget.
authorization_lineage(q) ==
    /\ validate_freeze(q.auth) /\ q.auth.selfHash
    /\ q.auth.kind = "replacement_authorization"
    /\ q.auth.affected = <<q.replaced.id>> /\ q.auth.body.original = q.replaced.id
    /\ q.auth.body.failure = q.failure.id
    /\ q.auth.body.budget = BudgetArtifact
    /\ \E input \in q.auth.inputs :
         /\ input.ref = BudgetArtifact
         /\ input.class \in {"public_protocol", "platform_evidence", "treatment_blind"}

failure_resolution(q) ==
    /\ q.failure.resolution = "replacement_authorized"
    /\ q.failure.auth = q.auth.id
    /\ q.failure.replacement = q.auth.body.block

\* The new plan is the one authorized and records the copy it replaces.
new_block_binding(q) ==
    /\ make_block_id(q.input.role, q.input.ordinal) = q.auth.body.block
    /\ q.input.ordinal = q.auth.body.ordinal
    /\ q.input.role = q.auth.body.role
    /\ q.input.subspace = q.auth.body.subspace
    /\ q.input.lineage =
         [auth |-> q.auth.id, block |-> q.replaced.id, ordinal |-> q.replaced.ordinal,
          role |-> q.replaced.role, subspace |-> q.replaced.subspace]

new_identity(q) ==
    \A b \in blocks :
       /\ b.id # make_block_id(q.input.role, q.input.ordinal)
       /\ b.ordinal # q.input.ordinal
       /\ b.subspace # q.input.subspace

\* Mutant: a block may be replaced again while its replacement stands.
no_branch_unchecked(id) == TRUE

no_branch(id) == ~Replaced(id)

\* generate_block_plan binds the role to a namespace and keeps it; the realized
\* order must differ from the one of the copy.
plan_generated(q) ==
    /\ q.input.role \in PoolRoles
    /\ q.input.lineage.role = q.input.role
    /\ <<q.input.order, q.input.cells>> # <<q.replaced.order, q.replaced.cells>>

replacement_authorized(q) ==
    /\ no_branch(q.replaced.id)
    /\ failure_retained(q)
    /\ authorization_lineage(q)
    /\ failure_resolution(q)
    /\ new_block_binding(q)
    /\ new_identity(q)
    /\ plan_generated(q)

\* Mutant: the budget is exhausted one block too early.
budget_exhausted_early == ReplacementCount + 1 >= Budget

budget_exhausted == ReplacementCount >= Budget

NewPlan(q) ==
    [id |-> make_block_id(q.input.role, q.input.ordinal), role |-> q.input.role,
     ordinal |-> q.input.ordinal, subspace |-> q.input.subspace, order |-> q.input.order,
     cells |-> q.input.cells, replaces |-> q.input.lineage.block,
     lineage |-> q.input.lineage, request |-> q]

\* Mutant: the replacement takes the place of the incomplete block.
pool_with_overwrite(q) == (blocks \ {Block(q.replaced.id)}) \cup {NewPlan(q)}

\* The incomplete block is retained beside its replacement.
pool_with(q) == blocks \cup {NewPlan(q)}

\* A refusal changes nothing.  The caller keeps an authorized plan; whether the
\* failure and the invalid run are kept with it the decision does not ask.
decide_complete_block_replacement(q) ==
    /\ id_in(q.replaced.id)
    /\ \/ /\ budget_exhausted
          /\ unresolved' = TRUE
          /\ UNCHANGED <<blocks, failures, manifests>>
       \/ /\ ~budget_exhausted /\ replacement_authorized(q)
          /\ UNCHANGED unresolved
          /\ blocks' = pool_with(q)
          /\ \/ /\ q.kept
                /\ failures' = Append(failures, q.failure)
                /\ manifests' = manifests \cup {q.run}
             \/ ~q.kept /\ UNCHANGED <<failures, manifests>>
    /\ UNCHANGED <<policy, records, grant>>

-----------------------------------------------------------------------------
(* The whole study (Stage14CrossRecordSemanticValidator)                   *)

\* Mutant: a replacement block is resolved by its own lineage alone.
replacement_resolves_alone(b) ==
    \E original \in blocks : original.id = b.replaces /\ b.role = original.role

\* The first entry with an id, the one a search from the front finds.
IsFirst(list, n, id) == list[n].id = id /\ \A k \in 1..(n - 1) : list[k].id # id

\* The failure an authorization names, retained with its invalid run.
failure_resolves(r, b) ==
    \E k \in DOMAIN failures :
       LET f == failures[k] IN
       /\ IsFirst(failures, k, r.body.failure)
       /\ \E run \in manifests : run.id = f.run /\ run.invalid
       /\ f.invalidates /\ f.block = b.replaces
       /\ f.resolution = "replacement_authorized"
       /\ f.auth = r.id /\ f.replacement = b.id

\* The authorization in the ledger names both blocks and the frozen budget.
authorization_resolves(r, b) ==
    /\ r.kind = "replacement_authorization"
    /\ r.body.block = b.id /\ r.body.original = b.replaces
    /\ r.body.ordinal = b.ordinal /\ r.body.subspace = b.subspace
    /\ r.body.role = b.role /\ r.body.budget = BudgetArtifact
    /\ input_contains(r, BudgetArtifact)

\* The lineage is the retained original's, and its place is taken anew.
original_resolves(b, original) ==
    /\ original.id = b.replaces
    /\ b.role = original.role /\ b.ordinal # original.ordinal
    /\ b.subspace # original.subspace
    /\ b.lineage = [auth |-> b.lineage.auth, block |-> original.id,
                    ordinal |-> original.ordinal, role |-> original.role,
                    subspace |-> original.subspace]
    /\ <<b.order, b.cells>> # <<original.order, original.cells>>

\* A replacement block resolves to its original, to an authorization in the
\* ledger and to a retained failure.
replacement_resolves(b) ==
    /\ \E original \in blocks : original_resolves(b, original)
    /\ \E n \in DOMAIN records :
         /\ IsFirst(records, n, b.lineage.auth)
         /\ authorization_resolves(records[n], b)
         /\ failure_resolves(records[n], b)

\* The active blocks are the frozen pool: counts per role, distinct
\* identities, and H0-first plans as many as H1-first ones, within one.
pool_complete ==
    LET first(o) == Cardinality({b \in ActiveBlocks : b.order = o}) IN
    /\ \A role \in PoolRoles :
         Cardinality({b \in ActiveBlocks : b.role = role}) = Counts.roles[role]
    /\ \A b, c \in ActiveBlocks :
         b # c => b.ordinal # c.ordinal /\ b.subspace # c.subspace
    /\ first("h0") - first("h1") \in -1..1

TrainingOpenings ==
    {n \in DOMAIN records :
        records[n].kind = "protocol_freeze" /\ records[n].after = "training_open"}

Stage14_validate ==
    /\ \A b, c \in blocks : b # c /\ b.replaces # None => b.replaces # c.replaces
    /\ pool_complete
    /\ ledger_sound
    /\ Cardinality(TrainingOpenings) = 1
    /\ \A n \in TrainingOpenings :
         decode_training_open_decision(records[n]) =>
           /\ records[n].body.counts = Counts.values
           /\ records[n].body.delta = Counts.delta
           /\ records[n].body.bootstrap = Counts.bootstrap
           /\ \A ref \in Counts.evidence : input_contains(records[n], ref)
    /\ ReplacementCount <= Budget
    /\ \A b \in blocks : b.replaces # None => replacement_resolves(b)

-----------------------------------------------------------------------------
Init ==
    /\ policy \in Policies
    /\ records = <<>>
    /\ blocks = InitialBlocks
    /\ failures = <<>>
    /\ manifests = {}
    /\ unresolved = FALSE
    /\ grant = None

AppendRecord ==
    /\ Len(records) < MaxRecords
    /\ \E r \in Submissions(records, blocks) :
         r.kind \in RecordKinds /\ records' = Append(records, r)
    /\ UNCHANGED <<policy, blocks, failures, manifests, unresolved, grant>>

AskForReplacement ==
    \E q \in Requests(records, blocks) :
       q.input.ordinal \in Nat /\ decide_complete_block_replacement(q)

AskForAccess ==
    \E n \in DOMAIN policy.assignments, domain \in Domains, b \in blocks :
       authorize_outcome_access(policy.assignments[n].id, policy.assignments[n].role,
                                domain, b.id)

Next == AppendRecord \/ AskForReplacement \/ AskForAccess

Spec == Init /\ [][Next]_vars

-----------------------------------------------------------------------------
(* Properties                                                              *)

BlockIds == {b.id : b \in blocks}

\* Types: the ledger, the blocks and the last grant are well formed.
AccessTypeOK ==
    /\ policy \in Policies
    /\ Len(records) <= MaxRecords
    /\ \A n \in DOMAIN records : records[n].kind \in RecordKinds
    /\ \A b \in blocks : b.role \in PoolRoles /\ b.replaces \in BlockIds \cup {None}
    /\ unresolved \in BOOLEAN
    /\ grant # None => grant.block \in BlockIds /\ grant.at \in 0..Len(records)

\* The milestones are the states after "planned", in order; this is who signs.
MilestoneSigners ==
    <<"freeze_authority", "freeze_authority", "freeze_authority", "custodian",
      "confirmatory_analyst", "custodian">>

\* How many of them an outcome domain waits for.
MilestonesDue(domain) ==
    CASE domain = "h3_training" -> 2
      [] domain = "h3_validation" -> 4
      [] domain = "h1h2" -> 6

\* The records of a ledger of the given length that reached milestone n.
Reached(length, n) ==
    {k \in 1..length : records[k].after = AccessStates[n + 1] /\ records[k].kind # "amendment"}

\* An outcome is opened (authorize_outcome_access) only after every milestone
\* of its domain was recorded, in order and by the principal whose duty it
\* is, whatever was submitted to the ledger in between.
GrantFollowsChronology ==
    grant # None =>
      /\ \A n \in 1..MilestonesDue(grant.domain) :
           \E k \in Reached(grant.at, n) :
              records[k].author = assignment_for(MilestoneSigners[n])
      /\ \A n \in 2..MilestonesDue(grant.domain) : \A k \in Reached(grant.at, n) :
           \E j \in Reached(grant.at, n - 1) : j < k

\* Once validation outcomes were opened no ledger that still answers holds a
\* later selection: what was selected cannot depend on what was read.
SelectionPrecedesOutcomes ==
    grant # None /\ grant.domain = "h3_validation" /\ ledger_sound =>
      \A n \in DOMAIN records : records[n].kind = "selection_freeze" => n <= grant.at

\* While the ledger answers beyond the collection seal, the pool that was
\* sealed is the pool there is: no replacement slips in under a seal.
SealedPoolStands ==
    ledger_sound /\ Rank(final_state) >= Rank("collected_sealed") =>
      \E n \in DOMAIN records :
         /\ records[n].kind = "protocol_freeze" /\ records[n].after = "collected_sealed"
         /\ {records[n].affected[k] : k \in DOMAIN records[n].affected} =
              {b.id : b \in ActiveBlocks}

\* The request's copy has the role the retained block has.
RoleIsPresented(b) ==
    \A original \in blocks : original.id = b.replaces => b.request.replaced.role = original.role

\* However blocks are replaced, replacements of replacements included, and
\* whatever copies of them the requests present, as many blocks stay active and
\* no ordinal or seed subspace is used twice; when the copies have the roles of
\* the retained blocks, each role keeps its number of active blocks
\* (decide_complete_block_replacement).
ReplacementKeepsPool ==
    /\ Cardinality(ActiveBlocks) = Cardinality(InitialBlocks)
    /\ \A b, c \in blocks : b # c => b.ordinal # c.ordinal /\ b.subspace # c.subspace
    /\ (\A b \in blocks : b.replaces # None => RoleIsPresented(b)) =>
         \A role \in PoolRoles :
            Cardinality({b \in ActiveBlocks : b.role = role}) =
              Cardinality({b \in InitialBlocks : b.role = role})

\* The study makes exactly the replacements R_replacement_max allows: never
\* more, and it is given up as unresolved only when the last one is used.
BudgetIsExact ==
    /\ ReplacementCount <= Budget
    /\ unresolved => ReplacementCount = Budget

\* The caller kept what the decision on b rested on: its authorization is a
\* sound record, its failure is the first retained under its id, and its invalid
\* run is retained.
DecisionIsKept(b) ==
    /\ \E n \in DOMAIN records :
         b.request.auth = records[n] /\ record_sound(n, state_before)
    /\ \E k \in DOMAIN failures :
         b.request.failure = failures[k] /\ IsFirst(failures, k, failures[k].id)
    /\ b.request.run \in manifests

\* The two implementations of the replacement rules agree: a block authorized
\* by decide_complete_block_replacement on a true copy of the block it replaces
\* passes the replacement checks of the Stage 14 validator when what the
\* decision rested on is kept.
AuthorizedReplacementResolves ==
    \A b, original \in blocks :
       /\ b.replaces = original.id
       /\ b.request.replaced = Copy(original)
       /\ DecisionIsKept(b)
       => replacement_resolves(b)

\* A study the Stage 14 validator accepts accounts for every replacement: it
\* was decided on a copy that had the identity of the retained block, the
\* authorization it was decided on is named in the ledger by the replacement
\* authority, and the failure and the invalid run behind it are retained.
AcceptedStudyIsAccountable ==
    Stage14_validate =>
      \A b \in blocks : b.replaces # None =>
         /\ \E original \in blocks :
              /\ original.id = b.replaces /\ original.id = b.request.replaced.id
              /\ original.role = b.request.replaced.role
              /\ original.ordinal = b.request.replaced.ordinal
              /\ original.subspace = b.request.replaced.subspace
         /\ \E n \in DOMAIN records, k \in DOMAIN failures, run \in manifests :
              /\ records[n].id = b.request.auth.id
              /\ records[n].author = assignment_for("replacement_authority")
              /\ records[n].body.block = b.id /\ records[n].body.original = b.replaces
              /\ failures[k].block = b.replaces /\ failures[k].auth = records[n].id
              /\ run.id = failures[k].run /\ run.invalid

\* Validation is unsealed by one person on the approval of another, unless
\* immutable evidence authorizes one person to hold both roles.
TwoPersonUnseal ==
    grant # None /\ grant.domain = "h3_validation" =>
      \E n \in 1..grant.at :
         /\ records[n].kind = "validation_unseal"
         /\ \E input \in records[n].inputs :
              /\ input.ref \in DOMAIN Catalog
              /\ LET issuer == Catalog[input.ref].issuer IN
                 /\ issuer # None /\ issuer[1] = "validation_authority"
                 /\ \/ issuer[2] # records[n].author
                    \/ \E o \in policy.overlaps :
                         /\ {"custodian", "validation_authority"} = o.roles
                         /\ o.id = records[n].author /\ o.ref \in DOMAIN Catalog

\* Outcomes open in the order of the study: what authorize_outcome_access
\* grants has its milestones before it, and no selection follows the opening of
\* validation outcomes in a ledger that still answers.
OutcomesOpenInOrder == GrantFollowsChronology /\ SelectionPrecedesOutcomes

\* Replacements stay within their budget, collection is not given up before it
\* is used, and the pool keeps its size and its distinct identities, and the
\* blocks of each role unless a request presents another role, however often
\* blocks are replaced (decide_complete_block_replacement).
ReplacementsAreBounded == AccessTypeOK /\ ReplacementKeepsPool /\ BudgetIsExact

\* The two implementations of the replacement rules agree: a decided
\* replacement resolves in the finished study, and a study that is accepted
\* accounts for each of its replacements.
ReplacementsAreAccountable == AuthorizedReplacementResolves /\ AcceptedStudyIsAccountable
=============================================================================

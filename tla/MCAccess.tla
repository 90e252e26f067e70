------------------------------ MODULE MCAccess ------------------------------
(* AccessLedger for TLC: a pool of three blocks, every milestone record in    *)
(* any order, each with at most one thing wrong, and two replacements.        *)
EXTENDS AccessLedger, SequencesExt

Plan(role, ordinal, order) ==
    [id |-> <<role, ordinal>>, role |-> role, ordinal |-> ordinal, subspace |-> ordinal,
     order |-> order, cells |-> 0, replaces |-> None, lineage |-> None,
     request |-> None]

MCBlocks ==
    {Plan("h3_train", 1, "h0"), Plan("h3_validation", 2, "h1"),
     Plan("h1h2_supplemental", 3, "h0")}

MCNamespace == [role \in PoolRoles |-> role]

Artifact(class, role, namespace, issuer) ==
    [class |-> class, role |-> role, namespace |-> namespace, issuer |-> issuer]

\* "approval" is issued by the validation authority of every policy, "hearsay"
\* by a person who is not.
MCCatalog ==
    [training |-> Artifact("training_only", "h3_train", None, None),
     sealed |-> Artifact("validation_sealed", "h3_validation", "h3_validation", None),
     astray |-> Artifact("validation_sealed", "h3_validation", "h3_train", None),
     approval |-> Artifact("public_protocol", None, None, <<"validation_authority", "vera">>),
     hearsay |-> Artifact("public_protocol", None, None, <<"validation_authority", "carl">>),
     evaluation |-> Artifact("validation_unsealed", None, None, None),
     budget |-> Artifact("public_protocol", None, None, None),
     sizing |-> Artifact("treatment_blind", None, None, None)]

Assign(custodian) ==
    <<[role |-> "freeze_authority", id |-> "fred"], [role |-> "custodian", id |-> custodian],
      [role |-> "training_analyst", id |-> "tara"],
      [role |-> "validation_authority", id |-> "vera"],
      [role |-> "confirmatory_analyst", id |-> "cleo"],
      [role |-> "replacement_authority", id |-> "rene"]>>

\* Six persons; five, without and with the evidence for the overlap.
MCPolicies ==
    {[assignments |-> Assign("carl"), overlaps |-> {}],
     [assignments |-> Assign("vera"), overlaps |-> {}],
     [assignments |-> Assign("vera"),
      overlaps |-> {[roles |-> {"custodian", "validation_authority"}, id |-> "vera",
                     ref |-> "sizing"]}]}

MCCounts ==
    [roles |-> [role \in PoolRoles |-> 1], values |-> 3, delta |-> "sizing",
     bootstrap |-> "sizing", evidence |-> {"sizing"}]

\* Bounds on the records that leave the ledger in its state.
MaxAuthorizations == 2
MaxAmendments == 1
LastAuthorization == 3
LongLedger == 5      \* beyond this length a ledger holds milestones only

-----------------------------------------------------------------------------
Failures == <<"f1", "f2", "f3", "f4", "f5", "f6", "f7", "f8", "f9">>
Names == <<"r1", "r2", "r3", "r4", "r5", "r6", "r7", "r8", "r9">>

Input(ref) == [ref |-> ref, class |-> MCCatalog[ref].class]

Active(blks, roles) ==
    SetToSeq({b.id : b \in {c \in blks : /\ c.role \in roles
                                         /\ \A d \in blks : d.replaces # c.id}})

\* A record as its author would write it, numbered n.
Draft(n, kind, author, role, from, to, affected, inputs, body) ==
    [kind |-> kind, id |-> Names[n], stamp |-> n, selfHash |-> TRUE, author |-> author,
     role |-> role, status |-> IF kind = "validation_unseal" THEN "authorized" ELSE "frozen",
     authorized |-> TRUE, before |-> from, after |-> to,
     prohibited |-> kind # "validation_unseal", affected |-> affected,
     inputs |-> {Input(ref) : ref \in inputs}, body |-> body]

Freeze(n, from, to, affected) ==
    Draft(n, "protocol_freeze", "fred", "freeze_authority", from, to, affected, {"sizing"},
          [complete |-> TRUE, schemas |-> {"sizing"}, counts |-> 3, delta |-> "sizing",
           bootstrap |-> "sizing"])

\* The id of the last record of a kind.
LastOf(recs, kind) ==
    LET at == {n \in DOMAIN recs : recs[n].kind = kind}
    IN IF at = {} THEN "dangling" ELSE recs[CHOOSE n \in at : \A k \in at : k <= n].id

LastState(recs) ==
    LET at == {n \in DOMAIN recs : recs[n].kind # "replacement_authorization"}
    IN IF at = {} THEN "planned" ELSE recs[CHOOSE n \in at : \A k \in at : k <= n].after

Authorize(n, b, role, ordinal, failure) ==
    Draft(n, "replacement_authorization", "rene", "replacement_authority", "planned",
          "planned", <<b.id>>, {"budget"},
          [original |-> b.id, block |-> <<role, ordinal>>, ordinal |-> ordinal,
           role |-> role, subspace |-> ordinal, failure |-> failure, budget |-> "budget"])

Fresh(blks) == Cardinality(blks) + 1

Milestone(recs, blks) ==
    LET n == Len(recs) + 1
        all == Active(blks, PoolRoles)
        train == Active(blks, {"h3_train"})
        valid == Active(blks, {"h3_validation"})
        selection == LastOf(recs, "selection_freeze")
    IN {Freeze(n, "planned", "collected_sealed", all),
        Freeze(n, "collected_sealed", "training_open", train),
        Freeze(n, "h1h2_released", "archived", all),
        Draft(n, "selection_freeze", "fred", "freeze_authority", "training_open",
              "selection_frozen", train, {"training"},
              [rule |-> TRUE, checksum |-> TRUE, contexts |-> TRUE,
               training |-> {"training"}]),
        Draft(n, "validation_unseal", "carl", "validation_custodian", "selection_frozen",
              "validation_unsealed", valid, {"approval"},
              [selection |-> selection, namespace |-> "h3_validation",
               validation |-> "sealed"]),
        Draft(n, "h3_evaluated", "cleo", "confirmatory_analyst", "validation_unsealed",
              "h3_evaluated", valid, {"evaluation"},
              [selection |-> selection, unseal |-> LastOf(recs, "validation_unseal"),
               namespace |-> "h3_validation", validation |-> "sealed",
               evaluation |-> "evaluation"]),
        Draft(n, "h1h2_released", "carl", "validation_custodian", "h3_evaluated",
              "h1h2_released", all, {"evaluation"},
              [audit |-> "sizing", evaluation |-> "evaluation"])}

Amend(recs) ==
    Draft(Len(recs) + 1, "amendment", "olga", "protocol_owner", LastState(recs),
          LastState(recs), <<>>, {"sizing"},
          [supersedes |-> recs[1].id, prior |-> {recs[1].id}, impact |-> TRUE])

\* One thing wrong with a record that would otherwise pass.
Deviations(recs, blks, r) ==
    {[r EXCEPT !.selfHash = FALSE], [r EXCEPT !.stamp = 0], [r EXCEPT !.author = "vera"],
     [r EXCEPT !.affected = <<>>], [r EXCEPT !.affected = @ \o @],
     [r EXCEPT !.affected = SetToSeq({b.id : b \in MCBlocks})],
     [r EXCEPT !.inputs = {}], [r EXCEPT !.prohibited = ~@]}
    \cup (IF recs = <<>> THEN {} ELSE {[r EXCEPT !.id = recs[1].id, !.stamp = 1]})
    \cup CASE r.kind = "selection_freeze" -> {[r EXCEPT !.body.contexts = FALSE]}
           [] r.kind = "validation_unseal" ->
                {[r EXCEPT !.body.validation = "astray"],
                 [r EXCEPT !.inputs = {Input("hearsay")}]}
                \cup {[r EXCEPT !.body.selection = q.id] : q \in {recs[k] : k \in DOMAIN recs}}
           [] r.kind = "replacement_authorization" ->
                {[r EXCEPT !.body.failure = "f2"], [r EXCEPT !.body.ordinal = 9],
                 [r EXCEPT !.body.role = "h3_train"]}
           [] r.after = "training_open" -> {[r EXCEPT !.body.counts = None]}
           [] OTHER -> {}

\* What comes next for the ledger as it stands.
Due(recs, blks) == {r \in Milestone(recs, blks) : r.before = LastState(recs)}

\* Authorizations to replace a block: on a failure of its own or on one whose
\* id was given before, in its role or, for the validation block, in another.
Authorizations(n, blks, ordinals) ==
    {Authorize(n, b, b.role, ordinal, failure) :
        b \in {c \in blks : c.role # "h1h2_supplemental"}, ordinal \in ordinals,
        failure \in IF n = 2 THEN {Failures[n], "f1"} ELSE {Failures[n]}}
    \cup {Authorize(n, b, "h3_train", ordinal, Failures[n]) :
            b \in {c \in blks : c.ordinal = 2 /\ n = 1}, ordinal \in ordinals}

\* The last record is one that was due, as its author would write it.
Clean(recs, blks) ==
    LET n == Len(recs) IN
    \/ recs = <<>>
    \/ Last(recs) \in Due(Front(recs), blks) \cup Authorizations(n, blks, 4..6)
    \/ n > 1 /\ Last(recs) = Amend(Front(recs))

\* A replacement on a recorded authorization and a true copy, its evidence kept.
Regular(blks, b) ==
    /\ b.lineage.auth # Names[9] /\ b.request.kept
    /\ b.request.replaced = Copy(CHOOSE c \in blks : c.id = b.replaces)

\* Any milestone, due or not; a due one or an authorization also with one
\* fault.  Bounds: a faulty ledger is not continued, and beside a replacement
\* that is not regular only due milestones are recorded.
MCSubmissions(recs, blks) ==
    LET n == Len(recs) + 1
        count(kind) == Cardinality({k \in DOMAIN recs : recs[k].kind = kind})
        authorize == IF \/ count("replacement_authorization") = MaxAuthorizations
                        \/ n > LastAuthorization
                     THEN {} ELSE Authorizations(n, blks, {Fresh(blks)})
        amend == IF recs = <<>> \/ count("amendment") = MaxAmendments THEN {}
                 ELSE {Amend(recs)}
        detours == count("replacement_authorization") + count("amendment")
        irregular == \E b \in blks : b.replaces # None /\ ~Regular(blks, b)
    IN IF ~Clean(recs, blks) \/ (n > LongLedger /\ detours > 0) THEN {}
       ELSE IF irregular THEN Due(recs, blks)
       ELSE
       Milestone(recs, blks) \cup authorize \cup amend
         \cup UNION {Deviations(recs, blks, r) : r \in Due(recs, blks)}
         \cup UNION {Deviations(recs, blks, r) : r \in {a \in authorize : a.affected[1][2] = 1 /\ a.body.failure = Failures[n]}}

Failure(a) ==
    [id |-> a.body.failure, run |-> a.id, block |-> a.body.original, invalidates |-> TRUE,
     incomplete |-> TRUE, resolution |-> "replacement_authorized", auth |-> a.id,
     replacement |-> a.body.block]

\* The caller's copy of block b, presented in the role of the authorization.
Presented(b, a) == [Copy(b) EXCEPT !.role = a.body.role]

\* What is asked of decide_complete_block_replacement on an authorization a and
\* a copy c.
Ask(c, a, order, cells) ==
    [replaced |-> c, kept |-> TRUE,
     run |-> [id |-> a.id, block |-> c.id, role |-> c.role, invalid |-> TRUE,
              required |-> TRUE, failures |-> {a.body.failure}],
     failure |-> [Failure(a) EXCEPT !.block = c.id], auth |-> a,
     input |-> [role |-> a.body.role, ordinal |-> a.body.ordinal,
                subspace |-> a.body.subspace, order |-> order, cells |-> cells,
                lineage |-> [auth |-> a.id, block |-> c.id, ordinal |-> c.ordinal,
                             role |-> c.role, subspace |-> c.subspace]]]

\* One thing wrong with a request that would otherwise pass.
Faulty(q) ==
    {[q EXCEPT !.run.required = FALSE], [q EXCEPT !.run.failures = {}],
     [q EXCEPT !.failure.run = "r9"], [q EXCEPT !.failure.auth = "r9"],
     [q EXCEPT !.failure.resolution = "open"], [q EXCEPT !.replaced.ordinal = 7],
     [q EXCEPT !.input.ordinal = 1, !.input.subspace = 1],
     [q EXCEPT !.input.subspace = 1, !.auth.body.subspace = 1]}

\* Requests on authorizations of the ledger, with or without one thing wrong;
\* on another block of the role; and, before the first record, on one that was
\* never recorded.  On the last record also irregular ones: the evidence is not
\* kept, or the copy of the block was edited, its cells so that the order of
\* the original is drawn again.
MCRequests(recs, blks) ==
    LET granted == {recs[n] : n \in {k \in DOMAIN recs :
                      recs[k].kind = "replacement_authorization"}}
        original(a) == CHOOSE c \in blks : c.id = a.body.original
        copy(a) == Presented(original(a), a)
        others(a) == {c \in blks : c.id # a.body.original /\ c.role = a.body.role}
        irregular(a) ==
            {[Ask(copy(a), a, "h0", 1) EXCEPT !.kept = FALSE],
             Ask([copy(a) EXCEPT !.ordinal = 7], a, "h0", 1),
             Ask([copy(a) EXCEPT !.subspace = 7], a, "h0", 1),
             Ask([copy(a) EXCEPT !.cells = 2], a, original(a).order, original(a).cells)}
    IN UNION {{Ask(copy(a), a, "h0", 1), Ask(copy(a), a, "h0", 0)}
              \cup Faulty(Ask(copy(a), a, "h0", 1))
              \cup {Ask(Copy(c), a, "h0", 1) : c \in others(a)}
              \cup (IF Last(recs) = a THEN irregular(a) ELSE {}) : a \in granted}
       \cup IF recs # <<>> \/ blks # MCBlocks THEN {}
            ELSE {Ask(Copy(b), Authorize(9, b, b.role, 4, "f9"), "h0", 1) :
                     b \in {c \in blks : c.ordinal = 1}}
=============================================================================

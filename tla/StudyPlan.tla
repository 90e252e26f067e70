------------------------------ MODULE StudyPlan ------------------------------
(***************************************************************************)
(* The plan of a Stage A study (orchestration/precision.cpp and            *)
(* orchestration/block_planning.cpp).  Frozen counts decide how many       *)
(* blocks of each role there are; each block runs every cell of the        *)
(* factorial once, one hardware state after the other, on seeds of its own *)
(* subspace.  Plans are documents: they are generated, kept, and may be    *)
(* edited and hashed again before the pool is validated.                   *)
(***************************************************************************)
EXTENDS BlockIds, Integers, Sequences, FiniteSets, SequencesExt

CONSTANTS
    Packages, Placements, WorkingSets, Loads,   \* the factors, in order
    LinkedPackages,
    WordMax,                \* largest value of an unsigned word
    MinH12, MinTrain, MinValidation, Ceiling,   \* frozen limits of the counts
    PrecisionInputs,        \* counts and evidence a study may freeze
    Registries,             \* role namespaces it may be set up with
    Catalogs,               \* seed catalogs
    Orders,                 \* orders of one whole plot that keys may derive
    Ordinals,               \* block ordinals
    Paths,                  \* identifiers that are file paths
    EditedPairs,            \* pairs of cells an edit exchanges
    MaxBlocks               \* bound: length of the pool

Roles == {"h3_train", "h3_validation", "h1h2_supplemental"}
Hardware == <<"h0", "h1">>

VARIABLES
    registry,      \* RoleNamespaceRegistry: [common, bindings]
    precision,     \* PrecisionResult of the frozen counts, None before
    pool,          \* generated plans, each with its seed catalog
    edited,        \* one of the plans was edited by hand
    contradicted   \* a plan was built that its own validation refused

studyVars == <<registry, precision, pool, edited, contradicted>>

Greater(a, b) == IF a >= b THEN a ELSE b
Place(order, value) == (CHOOSE n \in DOMAIN order : order[n] = value) - 1
Distinct(seq) == \A m, n \in DOMAIN seq : seq[m] = seq[n] => m = n
opaque(id) == id \notin Paths

CellsPerPlot == Len(Packages) * Len(Placements) * Len(WorkingSets) * Len(Loads)
CellsPerBlock == 2 * CellsPerPlot

\* The counts a study freezes, each a word.
FrozenCounts ==
    [r_h1 : 0..WordMax, r_h2 : 0..WordMax, r12 : 0..WordMax, rtrain : 0..WordMax,
     rval : 0..WordMax, rtotal : 0..WordMax, nruns : 0..WordMax]

\* The factors are arrays of distinct values, seeds are lists of identifiers,
\* and an order is a permutation of the cells of a whole plot.
ASSUME StudyAssumption ==
    /\ \A factor \in {Packages, Placements, WorkingSets, Loads} :
         factor \in Seq(ToSet(factor)) /\ factor # <<>> /\ Distinct(factor)
    /\ WordMax \in Nat /\ CellsPerBlock <= WordMax
    /\ \A in \in PrecisionInputs : in.counts # None => in.counts \in FrozenCounts
    /\ \A catalog \in Catalogs : \A seeds \in {catalog.arrival, catalog.node, catalog.event} :
         seeds \in Seq(ToSet(seeds)) /\ None \notin ToSet(seeds)
    /\ \A order \in Orders : DOMAIN order = 1..CellsPerPlot /\ Distinct(order)
                              /\ ToSet(order) = 1..CellsPerPlot
    /\ Ordinals \subseteq 0..WordMax /\ MaxBlocks \in Nat

-----------------------------------------------------------------------------
(* Prospective precision (evaluate_precision_plan)                         *)

\* Mutant: the supplement of the training and validation blocks is not made up.
supplemental_blocks_none(counts) == 0

\* Mutant: the difference is taken without the comparison.
supplemental_blocks_below(counts) == counts.r12 - (counts.rtrain + counts.rval)

\* The blocks H1 and H2 need beyond those of H3.
supplemental_blocks(counts) ==
    IF counts.r12 > counts.rtrain + counts.rval
    THEN counts.r12 - (counts.rtrain + counts.rval) ELSE 0

precision_evidence(e) ==
    /\ Distinct(e.references) /\ \A n \in DOMAIN e.references : opaque(e.references[n])
    /\ e.inputs # {}
    /\ e.inputs \subseteq {"treatment_blind", "public_protocol", "platform_evidence"}

\* Every sum and product is checked against the width of a word first.
precision_counts(c) ==
    /\ c.r_h1 >= MinH12 /\ c.r_h2 >= MinH12
    /\ c.rtrain >= MinTrain /\ c.rval >= MinValidation
    /\ c.r12 = Greater(c.r_h1, c.r_h2)
    /\ c.rtrain <= WordMax - c.rval
    /\ c.rtotal = Greater(c.r12, c.rtrain + c.rval)
    /\ c.rtotal <= WordMax \div CellsPerBlock
    /\ c.nruns = c.rtotal * CellsPerBlock

evaluate_precision_plan(in) ==
    IF in.counts = None \/ in.evidence = None
    THEN [state |-> "not_evaluated", counts |-> None, roles |-> None]
    ELSE IF ~precision_evidence(in.evidence) \/ ~precision_counts(in.counts)
    THEN None
    ELSE [state |-> IF Greater(in.counts.r_h1, in.counts.r_h2) > Ceiling
                    THEN "infeasible" ELSE "resolved",
          counts |-> in.counts,
          roles |-> [h3_train |-> in.counts.rtrain, h3_validation |-> in.counts.rval,
                     h1h2_supplemental |-> supplemental_blocks(in.counts)]]

-----------------------------------------------------------------------------
(* Namespaces and seeds                                                    *)

validate_role_namespaces ==
    LET held == registry.bindings
        names == <<registry.common>> \o [n \in DOMAIN held |-> held[n].namespace]
    IN /\ Len(held) = Cardinality(Roles)
       /\ {held[n].role : n \in DOMAIN held} = Roles
       /\ Distinct(names) /\ \A n \in DOMAIN names : opaque(names[n])
       /\ \A n \in DOMAIN held : held[n].parent = registry.common

Seeds(catalog) == catalog.arrival \o catalog.node \o catalog.event

\* As many seeds as matched domains, and no two of them the same.
validate_seed_catalog(catalog) ==
    /\ validate_role_namespaces
    /\ \E n \in DOMAIN registry.bindings :
         /\ registry.bindings[n].role = catalog.role
         /\ registry.bindings[n].namespace = catalog.namespace
    /\ opaque(catalog.subspace)
    /\ catalog.subspace \notin {catalog.namespace, registry.common}
    /\ opaque(catalog.derivation)
    /\ Len(catalog.arrival) = Len(Placements) * Len(WorkingSets) * Len(Loads)
    /\ Len(catalog.node) = Len(Placements) * Len(WorkingSets)
    /\ Len(catalog.event) = Len(Placements) * Len(WorkingSets)
    /\ \A n \in DOMAIN Seeds(catalog) : opaque(Seeds(catalog)[n])
    /\ Distinct(Seeds(catalog))

\* Places in the seed lists, counted from one.
arena_index(placement, workingSet) ==
    Place(Placements, placement) * Len(WorkingSets) + Place(WorkingSets, workingSet) + 1

arrival_index(placement, workingSet, load) ==
    (arena_index(placement, workingSet) - 1) * Len(Loads) + Place(Loads, load) + 1

-----------------------------------------------------------------------------
(* One block                                                               *)

linked(package) == package \in LinkedPackages

expected_stage_a_cells ==
    {<<p, h, pl, w, l>> : p \in ToSet(Packages), h \in ToSet(Hardware),
                          pl \in ToSet(Placements), w \in ToSet(WorkingSets), l \in ToSet(Loads)}

CellKey(c) == <<c.package, c.hardware, c.placement, c.workingSet, c.load>>
WithinPlotKey(c) == <<c.package, c.placement, c.workingSet, c.load>>

\* Cell k of a whole plot before it is permuted: the last factor fastest.
base(k) ==
    LET n == k - 1
        loads == Len(Loads)
        sets == loads * Len(WorkingSets)
        placements == sets * Len(Placements)
    IN [package |-> Packages[(n \div placements) + 1],
        placement |-> Placements[((n \div sets) % Len(Placements)) + 1],
        workingSet |-> WorkingSets[((n \div loads) % Len(WorkingSets)) + 1],
        load |-> Loads[(n % loads) + 1]]

\* Mutant: every package gets a node seed.
generated_cell_always_node(catalog, ordinal, hardware, key) ==
    LET arena == arena_index(key.placement, key.workingSet) IN
    [ordinal |-> ordinal, package |-> key.package, hardware |-> hardware,
     placement |-> key.placement, workingSet |-> key.workingSet, load |-> key.load,
     arrival |-> catalog.arrival[arrival_index(key.placement, key.workingSet, key.load)],
     node |-> catalog.node[arena], event |-> catalog.event[arena]]

generated_cell(catalog, ordinal, hardware, key) ==
    LET arena == arena_index(key.placement, key.workingSet) IN
    [ordinal |-> ordinal, package |-> key.package, hardware |-> hardware,
     placement |-> key.placement, workingSet |-> key.workingSet, load |-> key.load,
     arrival |-> catalog.arrival[arrival_index(key.placement, key.workingSet, key.load)],
     node |-> IF linked(key.package) THEN catalog.node[arena] ELSE None,
     event |-> catalog.event[arena]]

\* The cells in the order they run: one whole plot, then the other.
generated_cells(in) ==
    [n \in 1..CellsPerBlock |->
       LET plot == ((n - 1) \div CellsPerPlot) + 1
           hardware == in.wholePlots[plot]
           order == IF hardware = "h0" THEN in.h0 ELSE in.h1
       IN generated_cell(in.catalog, n - 1, hardware,
                         base(order[((n - 1) % CellsPerPlot) + 1]))]

\* The document hash covers every field.
PlanHash(plan) ==
    <<plan.id, plan.role, plan.ordinal, plan.subspace, plan.wholePlots, plan.cells>>

BuiltPlan(in) ==
    LET plan == [id |-> make_block_id(in.role, in.ordinal), role |-> in.role,
                 ordinal |-> in.ordinal, subspace |-> in.catalog.subspace,
                 wholePlots |-> in.wholePlots, cells |-> generated_cells(in), hash |-> None]
    IN [plan EXCEPT !.hash = PlanHash(plan)]

\* What a plan must hold whatever its catalog (protocol/semantic.cpp).
validate_block(plan) ==
    LET cells == ToSet(plan.cells) IN
    /\ ToSet(plan.wholePlots) = ToSet(Hardware) /\ Len(plan.wholePlots) = 2
    /\ Len(plan.cells) = CellsPerBlock
    /\ Cardinality({CellKey(c) : c \in cells}) = CellsPerBlock
    /\ {c.ordinal : c \in cells} = 0..(CellsPerBlock - 1)
    /\ \A c \in cells : linked(c.package) <=> c.node # None

\* Mutant: seeds are looked up but the arrival seed is not compared.
seed_sharing_arena_only(catalog, c) ==
    LET arena == arena_index(c.placement, c.workingSet) IN
    /\ c.event = catalog.event[arena]
    /\ c.node = IF linked(c.package) THEN catalog.node[arena] ELSE None

\* A cell runs on the seeds of its matched domain.
seed_sharing(catalog, c) ==
    LET arena == arena_index(c.placement, c.workingSet) IN
    /\ c.arrival = catalog.arrival[arrival_index(c.placement, c.workingSet, c.load)]
    /\ c.event = catalog.event[arena]
    /\ c.node = IF linked(c.package) THEN catalog.node[arena] ELSE None

\* Mutant: the two whole plots may be interleaved.
whole_plots_hold_mixed(plan) == TRUE

\* The first half of the ordinals has the first hardware state, and each
\* half has every package, context and load.
whole_plots_hold(plan) ==
    LET half(plot) == {c \in ToSet(plan.cells) :
                         c.ordinal \in ((plot - 1) * CellsPerPlot)..(plot * CellsPerPlot - 1)}
    IN \A plot \in 1..2 :
         /\ \A c \in half(plot) : c.hardware = plan.wholePlots[plot]
         /\ Cardinality({WithinPlotKey(c) : c \in half(plot)}) = CellsPerPlot

validate_block_plan(plan, catalog) ==
    /\ validate_seed_catalog(catalog)
    /\ validate_block(plan)
    /\ plan.id = make_block_id(plan.role, plan.ordinal)
    /\ plan.role = catalog.role /\ plan.subspace = catalog.subspace
    /\ plan.hash = PlanHash(plan)
    /\ {CellKey(c) : c \in ToSet(plan.cells)} = expected_stage_a_cells
    /\ \A c \in ToSet(plan.cells) : seed_sharing(catalog, c)
    /\ whole_plots_hold(plan)

\* A plan is built from its keys and validated like any other.
generate_block_plan(in) ==
    /\ validate_seed_catalog(in.catalog)
    /\ in.role = in.catalog.role
    /\ IF validate_block_plan(BuiltPlan(in), in.catalog)
       THEN /\ pool' = Append(pool, [plan |-> BuiltPlan(in), catalog |-> in.catalog])
            /\ UNCHANGED contradicted
       ELSE contradicted' = TRUE /\ UNCHANGED pool
    /\ UNCHANGED <<registry, precision, edited>>

-----------------------------------------------------------------------------
(* The pool (validate_block_pool)                                          *)

\* Mutant: seeds are unique in every block, not across blocks.
seeds_not_reused_within == \A n \in DOMAIN pool : Distinct(Seeds(pool[n].catalog))

seeds_not_reused ==
    \A m, n \in DOMAIN pool :
      \A i \in DOMAIN Seeds(pool[m].catalog), j \in DOMAIN Seeds(pool[n].catalog) :
         Seeds(pool[m].catalog)[i] = Seeds(pool[n].catalog)[j] => m = n /\ i = j

InRole(role) == {n \in DOMAIN pool : pool[n].plan.role = role}
FirstPlot(hardware) == {n \in DOMAIN pool : pool[n].plan.wholePlots[1] = hardware}

\* The counts of the roles are summed in words.
pool_counts(roles) ==
    LET h3 == roles.h3_train + roles.h3_validation IN
    /\ roles.h3_train <= WordMax - roles.h3_validation
    /\ h3 <= WordMax - roles.h1h2_supplemental
    /\ Len(pool) = h3 + roles.h1h2_supplemental
    /\ \A role \in Roles : Cardinality(InRole(role)) = roles[role]

validate_block_pool(roles) ==
    /\ pool_counts(roles)
    /\ \A n \in DOMAIN pool : validate_block_plan(pool[n].plan, pool[n].catalog)
    /\ \A m, n \in DOMAIN pool :
         m # n => /\ pool[m].plan.id # pool[n].plan.id
                  /\ pool[m].plan.ordinal # pool[n].plan.ordinal
                  /\ pool[m].catalog.subspace # pool[n].catalog.subspace
    /\ seeds_not_reused
    /\ Cardinality(FirstPlot("h0")) - Cardinality(FirstPlot("h1")) \in -1..1

PoolAccepted == precision # None /\ precision.state = "resolved"
                /\ validate_block_pool(precision.roles)

-----------------------------------------------------------------------------
StudyInit ==
    /\ registry \in Registries
    /\ precision = None /\ pool = <<>> /\ edited = FALSE /\ contradicted = FALSE

FreezePrecision ==
    /\ precision = None
    /\ \E in \in PrecisionInputs : precision' = evaluate_precision_plan(in)
    /\ precision' # None
    /\ UNCHANGED <<registry, pool, edited, contradicted>>

\* Blocks are numbered on, or the last number is given again.
GeneratePlan ==
    /\ precision # None /\ precision.state = "resolved"
    /\ Len(pool) < MaxBlocks /\ ~edited
    /\ \E role \in Roles, ordinal \in Ordinals \cap (Len(pool) - 1)..Len(pool), catalog \in Catalogs,
          h0 \in Orders, h1 \in Orders, wholePlots \in {Hardware, Reverse(Hardware)} :
         generate_block_plan([role |-> role, ordinal |-> ordinal, catalog |-> catalog,
                              h0 |-> h0, h1 |-> h1, wholePlots |-> wholePlots])

Swapped(cells, i, j, field) ==
    [cells EXCEPT ![i][field] = cells[j][field], ![j][field] = cells[i][field]]

\* The plan with its whole plots, or one field of two cells, exchanged.
EditedPlans(plan) ==
    {[plan EXCEPT !.wholePlots = Reverse(@)]} \cup
    {[plan EXCEPT !.cells = Swapped(@, pair[1], pair[2], field)] :
       pair \in EditedPairs,
       field \in {"ordinal", "package", "hardware", "arrival", "node", "event"}}

\* The author of the documents exchanges something and hashes the plan anew.
EditPlan ==
    /\ ~edited /\ Len(pool) > 1
    /\ \E plan \in EditedPlans(pool[1].plan) :
         /\ plan # pool[1].plan
         /\ pool' = [pool EXCEPT ![1].plan = [plan EXCEPT !.hash = PlanHash(plan)]]
    /\ edited' = TRUE
    /\ UNCHANGED <<registry, precision, contradicted>>

StudyNext == FreezePrecision \/ GeneratePlan \/ EditPlan

StudySpec == StudyInit /\ [][StudyNext]_studyVars

-----------------------------------------------------------------------------
(* Properties                                                              *)

\* Types of the counts, the registry and the plans.
StudyTypeOK ==
    /\ registry \in Registries
    /\ precision # None => precision.state \in {"not_evaluated", "infeasible", "resolved"}
    /\ precision # None /\ precision.roles # None => precision.roles \in [Roles -> 0..WordMax]
    /\ Len(pool) <= MaxBlocks
    /\ \A n \in DOMAIN pool : /\ pool[n].plan.role \in Roles
                              /\ pool[n].catalog \in Catalogs
                              /\ pool[n].plan.ordinal \in 0..WordMax
    /\ edited \in BOOLEAN /\ contradicted \in BOOLEAN

\* What generate_block_plan builds from a valid catalog is what
\* validate_block_plan asks for: its own validation never refuses it.
GeneratorMeetsValidator == ~contradicted

\* In an accepted pool, treatments meet on equal terms whatever was edited:
\* in every block each package and hardware state runs once in every context
\* and load, two cells have the arrivals in common exactly when their context
\* and load are the same, and a record arena exactly when their context is.
AcceptedBlocksAreMatched ==
    PoolAccepted =>
      \A n \in DOMAIN pool :
         LET cells == ToSet(pool[n].plan.cells) IN
         /\ Cardinality({CellKey(c) : c \in cells}) = CellsPerBlock
         /\ \A c, d \in cells :
              /\ c.arrival = d.arrival <=>
                   <<c.placement, c.workingSet, c.load>> = <<d.placement, d.workingSet, d.load>>
              /\ c.event = d.event <=>
                   <<c.placement, c.workingSet>> = <<d.placement, d.workingSet>>

\* Blocks are independent: no seed of one accepted block, in any use, is a
\* seed of another.
AcceptedBlocksAreIndependent ==
    PoolAccepted =>
      LET used(n) == UNION {{c.arrival, c.event, c.node} \ {None} : c \in ToSet(pool[n].plan.cells)}
      IN \A m, n \in DOMAIN pool : m # n => used(m) \cap used(n) = {}

\* An accepted pool is as large as every hypothesis needs, and the block and
\* the cell tell apart exactly the number of runs that was frozen.
AcceptedPoolMeetsPrecision ==
    PoolAccepted =>
      LET c == precision.counts
          runs == UNION {{<<pool[n].plan.id, CellKey(cell)>> : cell \in ToSet(pool[n].plan.cells)} :
                           n \in DOMAIN pool}
      IN
      /\ Len(pool) >= c.r_h1 /\ Len(pool) >= c.r_h2
      /\ Cardinality(InRole("h3_train")) = c.rtrain
      /\ Cardinality(InRole("h3_validation")) = c.rval
      /\ Cardinality(runs) = c.nruns

\* The hardware states are counterbalanced in time: the state the blocks
\* really start with is either one for half of them, within one, and no
\* block goes back to it.
AcceptedPoolIsCounterbalanced ==
    PoolAccepted =>
      LET at(n, ordinal) == CHOOSE c \in ToSet(pool[n].plan.cells) : c.ordinal = ordinal
          starts(h) == Cardinality({n \in DOMAIN pool : at(n, 0).hardware = h})
      IN /\ starts("h0") - starts("h1") \in -1..1
         /\ \A n \in DOMAIN pool, k \in 1..(CellsPerBlock - 1) :
              at(n, k).hardware # at(n, k - 1).hardware => k = CellsPerPlot

\* The seeds of an accepted pool: shared by matched treatments within a block,
\* and by nothing else.
AcceptedSeedsAreMatched == AcceptedBlocksAreMatched /\ AcceptedBlocksAreIndependent

\* An accepted pool has the blocks and runs that the frozen counts ask for, and
\* the hardware states take turns in being first (the pool validation).
AcceptedPoolIsAsFrozen ==
    StudyTypeOK /\ AcceptedPoolMeetsPrecision /\ AcceptedPoolIsCounterbalanced
=============================================================================

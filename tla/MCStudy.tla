------------------------------- MODULE MCStudy -------------------------------
(* Two packages in two placements and two loads: 16 cells to a block.       *)
EXTENDS StudyPlan

MCPackages == <<"r0", "l0">>
MCPlacements == <<"near", "far">>
MCWorkingSets == <<"l2">>
MCLoads == <<"l025", "l050">>

\* Identifiers are tuples: a name, or the key, use and place of a seed.
Sizing == [references |-> <<<<"delta">>, <<"bootstrap">>, <<"h1">>, <<"h2">>,
                            <<"training">>, <<"validation">>>>,
           inputs |-> {"treatment_blind"}]

Frozen(h1, h2, train, val, total) ==
    [r_h1 |-> h1, r_h2 |-> h2, r12 |-> IF h1 > h2 THEN h1 ELSE h2, rtrain |-> train,
     rval |-> val, rtotal |-> total, nruns |-> (total * 16) % 64]

With(counts) == [counts |-> counts, evidence |-> Sizing]

\* Pools of two and three blocks, with and without a supplement; counts that
\* only fit a word when they wrap; too few, too many and none; bad evidence.
MCPrecisionInputs ==
    {With(Frozen(1, 2, 1, 1, 2)), With(Frozen(3, 2, 1, 1, 3)), With(Frozen(2, 2, 2, 1, 3)),
     With(Frozen(1, 1, 1, 1, 3)), With(Frozen(4, 4, 63, 5, 4)), With(Frozen(0, 1, 1, 1, 2)),
     With(Frozen(1, 1, 1, 0, 1)), With(Frozen(5, 1, 2, 2, 5)),
     With([Frozen(2, 1, 1, 1, 2) EXCEPT !.nruns = 33]),
     [counts |-> None, evidence |-> Sizing],
     [counts |-> Frozen(2, 2, 1, 1, 2), evidence |-> [Sizing EXCEPT !.references[4] = <<"h1">>]],
     [counts |-> Frozen(2, 2, 1, 1, 2), evidence |-> [Sizing EXCEPT !.inputs = {"training_only"}]]}

Binding(role, name) == [role |-> role, namespace |-> <<name>>, parent |-> <<"stage_a">>]
MCRegistry ==
    [common |-> <<"stage_a">>,
     bindings |-> <<Binding("h3_train", "train"), Binding("h3_validation", "val"),
                    Binding("h1h2_supplemental", "supp")>>]
MCRegistries ==
    {MCRegistry, [MCRegistry EXCEPT !.bindings[2].namespace = <<"train">>],
     [MCRegistry EXCEPT !.bindings[3].role = "h3_train"]}

Catalog(role, namespace, id, seeds) ==
    [role |-> role, namespace |-> <<namespace>>, subspace |-> <<id>>, derivation |-> <<"derivation">>,
     arrival |-> [n \in 1..4 |-> <<seeds, "arrival", n>>],
     node |-> [n \in 1..2 |-> <<seeds, "node", n>>],
     event |-> [n \in 1..2 |-> <<seeds, "event", n>>]]

\* One catalog to a block; one that repeats the seeds of another subspace,
\* one that confuses two domains, one short of a seed and one with a path.
MCCatalogs ==
    {Catalog("h3_train", "train", "s1", "k1"), Catalog("h3_train", "train", "s2", "k2"),
     Catalog("h3_validation", "val", "s3", "k3"), Catalog("h3_validation", "val", "s4", "k1"),
     Catalog("h1h2_supplemental", "supp", "s5", "k5"),
     [Catalog("h3_train", "train", "s6", "k6") EXCEPT !.event = <<<<"k6", "node", 1>>, <<"k6", "event", 2>>>>],
     [Catalog("h3_train", "train", "s7", "k7") EXCEPT !.node = <<<<"k7", "node", 1>>>>],
     [Catalog("h3_train", "train", "s8", "k8") EXCEPT !.derivation = <<"a/path">>]}

MCPaths == {<<"a/path">>}
MCOrders == {<<3, 1, 2, 4, 6, 5, 8, 7>>}
MCPairs == {<<1, 2>>, <<2, 9>>, <<8, 12>>, <<3, 6>>}
==============================================================================

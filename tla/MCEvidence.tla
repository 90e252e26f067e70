------------------------------ MODULE MCEvidence ------------------------------
(* RunEvidence for TLC: three events of two records through a queue of two,   *)
(* and the manifest of the run with at most one thing wrong.                  *)
EXTENDS RunEvidence, TLC

MCSchedule == <<0, 0, 1>>
MCMapping == <<0, 1, 0>>
\* Enough rows for the run; one too few for the producer, and for the consumer.
MCCapacities == {<<3, 3>>, <<2, 3>>, <<3, 2>>}

\* One publication fails in a run that was otherwise sound.
MCPublishFaults(queueFaults, completed) ==
    IF queueFaults = 0 /\ completed THEN 1 ELSE 0

-----------------------------------------------------------------------------
Ref(id, content) == [id |-> id, sha |-> content]

\* The objects whose primary copy can be read.
Readable(objs) ==
    {n \in DOMAIN objs : objs[n].outcome \in {"primary", "no_ledger", "sealed"}}
Stored(objs, name) == CHOOSE n \in Readable(objs) : objs[n].object = name

\* The manifest that tells the truth about a finished run.
Honest(run, objs, stage, tail, block, access) ==
    LET result == reconcile([n \in DOMAIN run.producer.rows |->
                                producer_row(run.producer.rows[n])],
                            run.consumer.rows, MCMapping)
        passed == result.status = "passed"
        raw(name) == Ref(name, objs[Stored(objs, name)].bytes)
        joinedBytes == [run |-> "run", words |-> result.joined]
        joined == Ref("joined", joinedBytes)
        sources == <<raw("producer_raw"), raw("consumer_raw")>>
        audit == make_join_audit("run", result, sources[1], sources[2],
                                 IF passed THEN joined ELSE None)
        refs == [producer_raw |-> sources[1], consumer_raw |-> sources[2],
                 join_audit |-> Ref("audit", audit),
                 phase_integrity_report |-> IntegrityRef, provenance |-> Ref("queue", [queue |-> "q"])]
        failed == {b \in {"blocked_zero_loss", "blocked_effective_tail",
                          "blocked_incomplete_block", "blocked_access_leakage"} :
                     CASE b = "blocked_zero_loss" -> result.full_rows > 0
                       [] b = "blocked_effective_tail" -> ~tail
                       [] b = "blocked_incomplete_block" -> block = "incomplete"
                       [] b = "blocked_access_leakage" -> access.status = "fail"}
        applies == stage = "stage_a" /\ access.authoritative
        blockers == IF ~applies THEN {} ELSE IF passed THEN failed
                    ELSE failed \cup {"blocked_invalid_run"}
    IN [honest |-> applies,
        manifest |->
          [run |-> "run", queue |-> "q", selfHash |-> TRUE, stage |-> stage,
           lifecycle |-> IF run.completed THEN "completed" ELSE "measurement_failure",
           validity |-> IF passed THEN "valid" ELSE "invalid",
           counting |-> IF passed THEN "pass" ELSE "fail",
           zero_loss |-> IF result.full_rows = 0 THEN "pass" ELSE "fail",
           tail |-> IF tail THEN "pass" ELSE "fail", block |-> block,
           estimability |-> IF stage # "stage_a" THEN "not_applicable"
                            ELSE IF ~applies THEN "not_evaluated" ELSE summary_for(blockers),
           blockers |-> blockers,
           join |-> result.status, integrity |-> TRUE, checksums |-> 0,
           failures |-> IF passed THEN {} ELSE {"f"},
           schedule |-> Ref("schedule", MCSchedule), warmup |-> Ref("warmup", <<>>),
           counts |-> [offered |-> run.offered, attempted |-> result.producer_rows,
                       accepted |-> result.accepted_rows, full |-> result.full_rows,
                       consumed |-> result.consumer_rows, occupancy |-> 0,
                       samples |-> IF passed THEN Len(result.joined) ELSE 0,
                       n_eff |-> IF tail THEN Threshold ELSE Threshold - 1],
           refs |-> IF passed THEN refs @@ [joined_derived |-> joined] ELSE refs],
        artifacts |->
          [producer_raw |-> sources[1].sha, consumer_raw |-> sources[2].sha,
           joined |-> joinedBytes, audit |-> audit, integrity |-> Integrity,
           queue |-> [queue |-> "q"], schedule |-> MCSchedule, warmup |-> <<>>],
        envelopes |->
          {objs[Stored(objs, "producer_envelope")].bytes,
           objs[Stored(objs, "consumer_envelope")].bytes,
           [id |-> "joined", kind |-> "joined", run |-> "run", rows |-> Len(result.joined),
            sha |-> joinedBytes, sources |-> sources, integrity |-> IntegrityRef]},
        failures |-> IF passed THEN {}
                     ELSE {[id |-> "f", run |-> "run", invalidates |-> TRUE, selfHash |-> TRUE,
                            evidence |-> {}]},
        schedules |-> {[artifact |-> Ref("schedule", MCSchedule), offered |-> run.offered],
                       [artifact |-> Ref("warmup", <<>>), offered |-> 0]},
        evidence |-> [mapping |-> MCMapping, access |-> access,
                      block |-> [status |-> block, authoritative |-> TRUE]]]

\* The same joined rows, one tick of residence longer at the end.
Stretched(rows) ==
    [n \in DOMAIN rows |->
       IF n < Len(rows) THEN rows[n]
       ELSE [rows[n] EXCEPT !.times[10] = @ + 1, !.delivery = @ + 1, !.action = @ + 1,
                            !.latency = @ + 1]]

\* A joined artifact of other rows, with an audit and an envelope that fit it.
Forged(g, rows) ==
    LET bytes == [run |-> "run", words |-> rows]
        ref == Ref("joined", bytes)
        audit == [g.artifacts.audit EXCEPT !.joined = ref]
    IN [g EXCEPT !.honest = FALSE, !.artifacts.joined = bytes, !.artifacts.audit = audit,
                 !.manifest.refs.joined_derived = ref,
                 !.manifest.refs.join_audit = Ref("audit", audit),
                 !.envelopes = {IF e.id = "joined"
                                THEN [e EXCEPT !.sha = bytes, !.rows = Len(rows)]
                                ELSE e : e \in @}]

\* Claims that do not fit the run, each consistent in itself where it can be.
Deviations(g) ==
    LET valid == [g.manifest EXCEPT !.lifecycle = "completed", !.validity = "valid",
                    !.counting = "pass", !.join = "passed", !.failures = {},
                    !.blockers = {}, !.estimability = "estimable", !.zero_loss = "pass",
                    !.tail = "pass", !.block = "complete",
                    !.counts.attempted = g.manifest.counts.offered,
                    !.counts.accepted = g.manifest.counts.offered, !.counts.full = 0,
                    !.counts.consumed = g.manifest.counts.offered,
                    !.counts.samples = g.manifest.counts.offered, !.counts.n_eff = Threshold]
        with(m) == [g EXCEPT !.honest = FALSE, !.manifest = m]
    IN {with(valid), with([g.manifest EXCEPT !.lifecycle = "completed"]),
        with([g.manifest EXCEPT !.estimability = "estimable", !.blockers = {}]),
        with([g.manifest EXCEPT !.failures = {}]),
        [g EXCEPT !.honest = FALSE, !.evidence = None],
        [g EXCEPT !.honest = FALSE, !.artifacts.producer_raw.words = <<>>],
        [g EXCEPT !.honest = FALSE, !.envelopes = {e \in @ : e.id # "consumer_raw"}]}
       \cup IF g.manifest.join # "passed" THEN {}
            ELSE {Forged(g, Stretched(g.artifacts.joined.words))}

Yes == [status |-> "pass", authoritative |-> TRUE]
No == [status |-> "fail", authoritative |-> TRUE]
Unknown == [status |-> "not_evaluated", authoritative |-> FALSE]

MCGraphs(run, objs) ==
    LET all == {"producer_raw", "producer_envelope", "consumer_raw", "consumer_envelope"}
        there == {objs[n].object : n \in Readable(objs)}
        h == Honest(run, objs, "stage_a", TRUE, "complete", Yes)
        leaked == Honest(run, objs, "stage_a", TRUE, "complete", No)
    IN IF ~(all \subseteq there) THEN {}
       ELSE {h, Honest(run, objs, "stage_a", FALSE, "complete", Yes),
             Honest(run, objs, "stage_a", TRUE, "incomplete", No),
             leaked, [leaked EXCEPT !.honest = FALSE, !.manifest.estimability = "estimable",
                                    !.manifest.blockers = {}]} \cup Deviations(h)

\* Also runs of another stage, and before the access gate is known.
MCAnyGraphs(run, objs) ==
    IF Cardinality(Readable(objs)) < 5 THEN {}
    ELSE {Honest(run, objs, "stage_b", TRUE, "complete", Yes),
          Honest(run, objs, "stage_a", TRUE, "complete", Unknown)}
=============================================================================

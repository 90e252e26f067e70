---------------------------- MODULE MCPreparation ----------------------------
(* Words of two bytes of sixteen values; rows of seven, six and nine bytes. *)
EXTENDS RunPreparation

-----------------------------------------------------------------------------
(* Storage plans around the edge of a word                                  *)

Run(scheduled, accepted) ==
    [name |-> 3, scheduled |-> scheduled, accepted |-> accepted, effective |-> None]
Plan(run, page, auxiliary, available) ==
    [runs |-> <<run, Run(1, 1)>>, rtotal |-> 1, blocks |-> 1, page |-> page,
     auxiliary |-> auxiliary, available |-> available]
Ample == Plan(Run(2, 1), 4, <<3, 4>>, 255)

MCPlans ==
    {Plan(Run(s, a), page, aux, available) :
       s \in 0..9, a \in 0..6, page \in {0, 1, 8, 64, 200}, aux \in {<<0, 5>>, <<250, 9>>, <<6, 25>>},
       available \in {1, 180, 255}}
    \cup {Plan(Run(s, 0), page, <<0>>, 255) : s \in 15..40, page \in {1, 14, 64}}
    \cup {[Ample EXCEPT !.rtotal = 0, !.blocks = 0], [Ample EXCEPT !.blocks = 2],
          [Ample EXCEPT !.available = 0], [Ample EXCEPT !.runs = <<Run(1, 1)>>],
          [Ample EXCEPT !.runs[1].effective = 2], [Ample EXCEPT !.runs[1].effective = 1],
          [Ample EXCEPT !.runs[1].name = 0], [Ample EXCEPT !.runs[1].name = 5],
          [Ample EXCEPT !.rtotal = 200, !.blocks = 200]}

-----------------------------------------------------------------------------
(* Schedules                                                                *)

Bytes(ticks) == FlattenSeq([n \in DOMAIN ticks |-> <<ticks[n] \div 16, ticks[n] % 16>>])

\* A record gets its hashes last.
Sealed(record, deadlines) ==
    LET hashed == [record EXCEPT !.decodedHash = decoded_hash(record, deadlines)]
    IN [hashed EXCEPT !.hash = envelope_hash(hashed)]

Plain(id, kind, namespace, parent, origin, horizon, ticks) ==
    [id |-> id, kind |-> kind, namespace |-> namespace, parent |-> parent,
     seed |-> "seed", derivation |-> "derivation", profile |-> AcceptedProfile,
     origin |-> origin, horizon |-> horizon, rate |-> <<2, 3>>, count |-> Len(ticks),
     storage |-> [kind |-> "external", bytes |-> 2 * Len(ticks), rows |-> Len(ticks),
                  sha |-> Bytes(ticks), ticks |-> <<>>],
     decodedHash |-> None, hash |-> None]

Derivation(record) ==
    LET plain == [id |-> record.derivation, seed |-> record.seed, parent |-> record.parent,
                  namespace |-> record.namespace, key |-> "key", runtime |-> "python",
                  hash |-> None]
    IN [plain EXCEPT !.hash = derivation_hash(plain)]

Offer(record, bytes, role, treatment, family) ==
    [record |-> record, bytes |-> bytes, derivation |-> Derivation(record), role |-> role,
     treatment |-> treatment, family |-> family]

WarmTicks == <<0, 3, 3>>
MeasuredTicks == <<20, 21>>
WarmRecord == Sealed(Plain("w", "warmup", "wn", "root", 0, 9, WarmTicks), WarmTicks)
Warming == Offer(WarmRecord, Bytes(WarmTicks), "warmup", "r0", "warm")
Confirmed(id, namespace, parent, ticks) ==
    Sealed(Plain(id, "confirmatory", namespace, parent, 20, 4, ticks), ticks)
Train(id, namespace, ticks, treatment, family) ==
    Offer(Confirmed(id, namespace, "stage_a", ticks), Bytes(ticks), "h3_train", treatment, family)

Inlined(record, ticks) ==
    Sealed([record EXCEPT !.storage = [kind |-> "inline", bytes |-> 0, rows |-> 0,
                                       sha |-> None, ticks |-> ticks]], ticks)
Edge == <<250, 254>>
AtTheEdge(horizon) ==
    Sealed(Plain("e", "confirmatory", "en", "stage_a", 250, horizon, Edge), Edge)

\* Matched treatments, the same identity with other arrivals, another role or
\* parent, deadlines at the end of the horizon and of a word, and artifacts
\* that are not what the record says.
MCOffers ==
    {Warming, Train("m", "mn", MeasuredTicks, "r0", "f"), Train("m", "mn", MeasuredTicks, "l0", "f"),
     Train("m2", "mn2", <<20, 23>>, "l0", "f"), Train("m2", "mn2", <<20, 23>>, "l0", "g"),
     Train("m", "mn", <<22>>, "l0", "g"), Train("m", "mn", <<20, 24>>, "r0", "f"),
     Train("m", "mn", <<21, 20>>, "r0", "f"), Train("m3", "wn", MeasuredTicks, "r0", "h"),
     [Warming EXCEPT !.role = "pilot"],
     Offer(Confirmed("v", "vn", "stage_b", <<20>>), Bytes(<<20>>), "h3_validation", "r0", "v"),
     Offer(Confirmed("v", "vn", "stage_a", <<20>>), Bytes(<<20>>), "h3_validation", "r0", "v"),
     Offer(AtTheEdge(5), Bytes(Edge), "h3_train", "r0", "e"),
     Offer(AtTheEdge(6), Bytes(Edge), "h3_train", "r0", "e"),
     Offer(Inlined(WarmRecord, WarmTicks), <<>>, "warmup", "r0", "inline"),
     Offer(Inlined(WarmRecord, WarmTicks), Bytes(WarmTicks), "warmup", "r0", "inline"),
     Offer(Sealed([Inlined(WarmRecord, <<1, 2, 3>>) EXCEPT !.profile.encoding = "delta"],
                  <<1, 2, 3>>), <<>>, "warmup", "r0", "delta"),
     Offer([WarmRecord EXCEPT !.horizon = 8], Bytes(WarmTicks), "warmup", "r0", "warm"),
     Offer(Sealed([WarmRecord EXCEPT !.rate = <<2, 4>>], WarmTicks), Bytes(WarmTicks),
           "warmup", "r0", "warm"),
     [Warming EXCEPT !.bytes = Bytes(<<0, 3, 4>>)], [Warming EXCEPT !.bytes = <<0, 0>>],
     [Warming EXCEPT !.derivation.seed = "other"]}

-----------------------------------------------------------------------------
(* Admission                                                                *)

MCWorkerPairs == [near |-> <<2, 3>>, far |-> <<2, 9>>]
MCAnchor == [source |-> "rev", binary |-> "sha", stand |-> "stand", binding |-> "epoch2",
             dirty |-> FALSE]
MCAnchors == {MCAnchor, [MCAnchor EXCEPT !.dirty = TRUE]}

Reference(kind, path) ==
    [kind |-> kind, artifact |-> kind, path |-> path, sha |-> "good", binding |-> "epoch2",
     immutable |-> TRUE, eligible |-> TRUE]
Document ==
    [profile |-> "accepted", source |-> "rev", binary |-> "sha", stand |-> "stand",
     binding |-> "epoch2", package |-> "r0", placement |-> "near", workers |-> <<2, 3>>,
     limits |-> <<8, 8, 8, 8, 8>>,
     evidence |-> <<Reference("run_plan", "a"), Reference("clock_qualification", "b")>>]

\* Evidence in two files, in one, or in two contents of one; in a file declared
\* mutable, for another epoch, missing, twice or of no known kind; wrong CPUs
\* and limits.
MCAdmissions ==
    {Document, [Document EXCEPT !.package = "l0", !.placement = "far", !.workers = <<2, 9>>],
     [Document EXCEPT !.evidence[2].path = "a"],
     [Document EXCEPT !.evidence[2].path = "a", !.evidence[2].sha = "bad"],
     [Document EXCEPT !.evidence[2].immutable = FALSE],
     [Document EXCEPT !.evidence[1].binding = "epoch1"],
     [Document EXCEPT !.evidence = <<Reference("run_plan", "a")>>],
     [Document EXCEPT !.evidence[2].kind = "run_plan"],
     [Document EXCEPT !.evidence[2].artifact = "run_plan"],
     [Document EXCEPT !.evidence[2].kind = "rumour"],
     [Document EXCEPT !.workers = <<2, 9>>], [Document EXCEPT !.limits[4] = 0],
     [Document EXCEPT !.package = "mpsc"], [Document EXCEPT !.binary = "other"]}

MCTimes ==
    <<[seconds |-> -1, nanoseconds |-> 0], [seconds |-> 0, nanoseconds |-> 10],
      [seconds |-> 0, nanoseconds |-> 3], None, [seconds |-> 2, nanoseconds |-> 1],
      [seconds |-> 8, nanoseconds |-> 6], [seconds |-> 8, nanoseconds |-> 7],
      [seconds |-> 14, nanoseconds |-> 9], [seconds |-> 25, nanoseconds |-> 5],
      [seconds |-> 25, nanoseconds |-> 6], [seconds |-> 26, nanoseconds |-> 0]>>
==============================================================================

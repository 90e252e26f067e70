------------------------ MODULE OrchestrationProofs ------------------------
(***************************************************************************)
(* The orchestration of a study.  AccessLedger for every catalog, policy,  *)
(* pool of blocks and budget and whatever is submitted: outcomes open in   *)
(* the order of the study, a seal holds, replacements stay within their    *)
(* budget and are accounted for.  StudyPlan for every factorial, order,    *)
(* catalog of seeds and frozen counts and whatever is edited: what is      *)
(* generated is valid, and an accepted pool is matched, independent,       *)
(* counterbalanced and of the frozen size.                                 *)
(***************************************************************************)
EXTENDS AccessLedger, StudyPlan, FiniteSetTheorems, WellFoundedInduction, TLAPS

-----------------------------------------------------------------------------
(* Natural numbers                                                         *)

\* A set of natural numbers that is not empty has a least one.
LEMMA LeastNatural ==
    ASSUME NEW T, T \subseteq Nat, T # {}
    PROVE  \E x \in T : \A y \in T : x <= y
<1>1. \E x \in T : \A y \in T : ~ (<<y, x>> \in OpToRel(<, Nat))
  BY NatLessThanWellFounded, WFMin
<1>2. \A x \in T, y \in T : <<y, x>> \in OpToRel(<, Nat) <=> y < x
  BY DEF OpToRel
<1>3. \A x, y \in T : ~(y < x) => x <= y
  OBVIOUS
<1>. QED  BY <1>1, <1>2, <1>3

\* A set of numbers up to n that is not empty has a greatest one.
LEMMA GreatestNatural ==
    ASSUME NEW n \in Nat, NEW T, T \subseteq 1..n, T # {}
    PROVE  \E x \in T : \A y \in T : y <= x
<1>. DEFINE Bounds == {m \in Nat : \A y \in T : y <= m}
<1>1. n \in Bounds
  OBVIOUS
<1>2. PICK m \in Bounds : \A b \in Bounds : m <= b
  <2>1. Bounds \subseteq Nat /\ Bounds # {}
    BY <1>1
  <2>. HIDE DEF Bounds
  <2>. QED  BY <2>1, LeastNatural
<1>3. m \in T
  <2>1. SUFFICES ASSUME m \notin T PROVE FALSE
    OBVIOUS
  <2>2. \A y \in T : y \in 1..n /\ y <= m /\ y # m
    BY <1>2, <2>1
  <2>3. m \in Nat /\ m > 0
    <3>1. PICK y : y \in T
      OBVIOUS
    <3>. QED  BY <1>2, <2>2, <3>1
  <2>4. m - 1 \in Bounds
    BY <2>2, <2>3
  <2>. QED  BY <1>2, <2>3, <2>4
<1>. QED  BY <1>2, <1>3

-----------------------------------------------------------------------------
(* A sound ledger                                                          *)

\* The ledger is a list of records of the seven kinds.
LedgerShape ==
    /\ \E S : records \in Seq(S)
    /\ Len(records) \in Nat /\ DOMAIN records = 1..Len(records)
    /\ \A n \in 1..Len(records) : records[n].kind \in RecordKinds

\* The states are declared in the order of the chronology.
LEMMA Ranks ==
    /\ Rank("planned") = 1 /\ Rank("collected_sealed") = 2 /\ Rank("training_open") = 3
    /\ Rank("selection_frozen") = 4 /\ Rank("validation_unsealed") = 5
    /\ Rank("h3_evaluated") = 6 /\ Rank("h1h2_released") = 7 /\ Rank("archived") = 8
<1>1. /\ DOMAIN AccessStates = 1..8
      /\ AccessStates[1] = "planned" /\ AccessStates[2] = "collected_sealed"
      /\ AccessStates[3] = "training_open" /\ AccessStates[4] = "selection_frozen"
      /\ AccessStates[5] = "validation_unsealed" /\ AccessStates[6] = "h3_evaluated"
      /\ AccessStates[7] = "h1h2_released" /\ AccessStates[8] = "archived"
  BY DEF AccessStates
<1>2. ASSUME NEW s, NEW k \in 1..8, AccessStates[k] = s PROVE Rank(s) = k
  <2>1. \A j \in 1..8 : AccessStates[j] = s => j = k
    BY <1>1, <1>2
  <2>. QED  BY <1>1, <1>2, <2>1 DEF Rank
<1>. QED  BY <1>1, <1>2

\* The steps of the chronology.
Step(from, to) ==
    \/ from = "planned" /\ to = "collected_sealed"
    \/ from = "collected_sealed" /\ to = "training_open"
    \/ from = "training_open" /\ to = "selection_frozen"
    \/ from = "selection_frozen" /\ to = "validation_unsealed"
    \/ from = "validation_unsealed" /\ to = "h3_evaluated"
    \/ from = "h3_evaluated" /\ to = "h1h2_released"
    \/ from = "h1h2_released" /\ to = "archived"

\* A record of a sound ledger: an authorization leaves it in its state, an
\* amendment too, and any other record is a step of the chronology.
LEMMA SoundRecord ==
    ASSUME LedgerShape, ledger_sound, NEW n \in 1..Len(records)
    PROVE  /\ records[n].kind = "replacement_authorization" => records[n].after = "planned"
           /\ records[n].kind # "replacement_authorization" =>
                moves(n) /\ records[n].before = state_before[n]
           /\ records[n].kind = "amendment" => records[n].before = records[n].after
           /\ records[n].kind \notin {"amendment", "replacement_authorization"} =>
                Step(records[n].before, records[n].after)
<1>1. record_sound(n, state_before)
  BY DEF ledger_sound, LedgerShape
<1>2. PICK r : r = records[n]
  OBVIOUS
<1>3. r.kind \in RecordKinds
  BY <1>2 DEF LedgerShape
<1>4. ASSUME r.kind = "replacement_authorization" PROVE r.after = "planned"
  <2>1. validate_freeze(r)
    BY <1>1, <1>2 DEF record_sound
  <2>. QED  BY <1>4, <2>1 DEF validate_freeze, Transition
<1>5. ASSUME r.kind # "replacement_authorization"
      PROVE  moves(n) /\ records[n].before = state_before[n]
  BY <1>1, <1>2, <1>5 DEF record_sound, moves, predecessor_state
<1>6. ASSUME r.kind # "replacement_authorization"
      PROVE  /\ r.kind = "amendment" => r.before = r.after
             /\ r.kind # "amendment" => Step(r.before, r.after)
  <2>1. transition_allowed(n)
    BY <1>5, <1>6 DEF moves
  <2>2. r.kind \in {"protocol_freeze", "selection_freeze", "validation_unseal",
                    "h3_evaluated", "h1h2_released", "amendment"}
    BY <1>3, <1>6 DEF RecordKinds
  <2>. QED  BY <1>2, <2>1, <2>2 DEF transition_allowed, Transition, Step
<1>. QED  BY <1>2, <1>4, <1>5, <1>6

\* The state before a record is the one it was set to last.
LEMMA StateBefore ==
    ASSUME LedgerShape, ledger_sound, NEW n \in 1..(Len(records) + 1)
    PROVE  \/ /\ state_before[n] = "planned"
              /\ \A k \in 1..(n - 1) : records[k].kind = "replacement_authorization"
           \/ \E k \in 1..(n - 1) :
                /\ records[k].kind # "replacement_authorization"
                /\ state_before[n] = records[k].after
                /\ \A j \in 1..(n - 1) :
                     records[j].kind # "replacement_authorization" => j <= k
<1>. DEFINE moved == {k \in 1..(n - 1) : moves(k)}
<1>0. Len(records) \in Nat /\ n - 1 \in Nat /\ 1..(n - 1) \subseteq 1..Len(records)
  BY DEF LedgerShape
<1>1. moved = {k \in 1..(n - 1) : records[k].kind # "replacement_authorization"}
  <2>1. \A k \in 1..(n - 1) :
          records[k].kind # "replacement_authorization" <=> moves(k)
    BY <1>0, SoundRecord DEF moves
  <2>. QED  BY <2>1
<1>2. state_before[n] = IF moved = {} THEN "planned"
                        ELSE records[CHOOSE k \in moved : \A j \in moved : j <= k].after
  BY DEF state_before
<1>3. CASE moved = {}
  BY <1>1, <1>2, <1>3
<1>4. CASE moved # {}
  <2>1. moved \subseteq 1..(n - 1)
    OBVIOUS
  <2>. HIDE DEF moved
  <2>2. \E k \in moved : \A j \in moved : j <= k
    BY <1>0, <1>4, <2>1, GreatestNatural
  <2>3. PICK k : k = (CHOOSE x \in moved : \A j \in moved : j <= x)
    OBVIOUS
  <2>4. k \in moved /\ (\A j \in moved : j <= k)
    BY <2>2, <2>3
  <2>5. state_before[n] = records[k].after
    BY <1>2, <1>4, <2>3
  <2>. QED  BY <1>1, <2>4, <2>5
<1>. QED  BY <1>3, <1>4

\* A state is reached by a step of the chronology, never by an amendment alone.
LEMMA StateIsReached ==
    ASSUME LedgerShape, ledger_sound, NEW n \in 1..(Len(records) + 1),
           state_before[n] # "planned"
    PROVE  \E k \in 1..(n - 1) :
             /\ records[k].after = state_before[n]
             /\ records[k].kind \notin {"amendment", "replacement_authorization"}
<1>. DEFINE s == state_before[n]
            T == {k \in 1..(n - 1) : /\ records[k].after = s
                                     /\ records[k].kind # "replacement_authorization"}
<1>1. T \subseteq Nat /\ T # {}
  BY StateBefore
<1>2. PICK k \in T : \A j \in T : k <= j
  <2>. HIDE DEF T
  <2>. QED  BY <1>1, LeastNatural
<1>3. Len(records) \in Nat /\ k \in 1..Len(records) /\ k \in 1..(Len(records) + 1)
  BY DEF LedgerShape
<1>4. records[k].kind # "amendment"
  <2>1. SUFFICES ASSUME records[k].kind = "amendment" PROVE FALSE
    OBVIOUS
  <2>2. state_before[k] = s
    BY <1>3, <2>1, SoundRecord
  <2>3. PICK j \in 1..(k - 1) : /\ records[j].kind # "replacement_authorization"
                                /\ records[j].after = s
    BY <1>3, <2>2, StateBefore
  <2>4. j \in T
    BY <1>3, <2>3
  <2>5. j < k
    BY <1>3
  <2>. QED  BY <1>2, <1>3, <2>4, <2>5
<1>. QED  BY <1>2, <1>4

\* A record that takes a step of the chronology follows the step before it.
LEMMA StepsFollowEachOther ==
    ASSUME LedgerShape, ledger_sound, NEW n \in 1..Len(records),
           records[n].kind \notin {"amendment", "replacement_authorization"},
           records[n].after # "collected_sealed"
    PROVE  \E k \in 1..(n - 1) :
             /\ Step(records[k].before, records[k].after)
             /\ Step(records[k].after, records[n].after)
             /\ records[k].kind \notin {"amendment", "replacement_authorization"}
<1>1. /\ records[n].before = state_before[n]
      /\ Step(records[n].before, records[n].after)
  BY SoundRecord
<1>2. Len(records) \in Nat /\ n \in 1..(Len(records) + 1)
  BY DEF LedgerShape
<1>3. state_before[n] # "planned"
  BY <1>1 DEF Step
<1>4. PICK k \in 1..(n - 1) :
             /\ records[k].after = state_before[n]
             /\ records[k].kind \notin {"amendment", "replacement_authorization"}
  BY <1>2, <1>3, StateIsReached
<1>5. k \in 1..Len(records)
  BY <1>2
<1>. QED  BY <1>1, <1>4, <1>5, SoundRecord

\* The state never falls behind a record of the ledger.
LEMMA StateNeverFallsBack ==
    ASSUME LedgerShape, ledger_sound, NEW k \in 1..Len(records),
           records[k].kind \notin {"amendment", "replacement_authorization"},
           NEW n \in (k + 1)..(Len(records) + 1)
    PROVE  Rank(records[k].after) <= Rank(state_before[n])
<1>. DEFINE r == Rank(records[k].after)
            T == {m \in (k + 1)..(Len(records) + 1) : ~(r <= Rank(state_before[m]))}
<1>0. Len(records) \in Nat
  BY DEF LedgerShape
<1>1. SUFFICES ASSUME T # {} PROVE FALSE
  OBVIOUS
<1>2. PICK m \in T : \A j \in T : m <= j
  <2>1. T \subseteq Nat
    BY <1>0
  <2>. HIDE DEF T
  <2>. QED  BY <1>1, <2>1, LeastNatural
<1>3. m \in (k + 1)..(Len(records) + 1) /\ k \in 1..(m - 1)
      /\ m \in 1..(Len(records) + 1)
  BY <1>0
<1>4. PICK j \in 1..(m - 1) :
        /\ records[j].kind # "replacement_authorization"
        /\ state_before[m] = records[j].after
        /\ k <= j
  BY <1>3, StateBefore
<1>5. j \in 1..Len(records)
  BY <1>0, <1>3
<1>6. r \in 1..8
  BY SoundRecord, Ranks DEF Step
<1>7. CASE j = k
  BY <1>2, <1>4, <1>6, <1>7
<1>8. CASE j # k
  <2>1. j \in (k + 1)..(Len(records) + 1) /\ j < m
    BY <1>0, <1>3, <1>4, <1>5, <1>8
  <2>2. j \notin T
    BY <1>2, <1>3, <2>1
  <2>3. r <= Rank(state_before[j])
    BY <2>1, <2>2
  <2>4. /\ records[j].before = state_before[j]
        /\ \/ records[j].before = records[j].after
           \/ Step(records[j].before, records[j].after)
    BY <1>4, <1>5, SoundRecord
  <2>5. r <= Rank(records[j].after)
    BY <1>6, <2>3, <2>4, Ranks DEF Step
  <2>. QED  BY <1>2, <1>4, <2>5
<1>. QED  BY <1>7, <1>8

\* The step to a state was taken.
StepTaken(s) ==
    \E k \in 1..Len(records) :
       /\ records[k].after = s
       /\ records[k].kind \notin {"amendment", "replacement_authorization"}

\* Behind the state of a sound ledger lie all the steps to it.
LEMMA StepsTaken ==
    ASSUME LedgerShape, ledger_sound
    PROVE  /\ Rank(final_state) >= 2 => StepTaken("collected_sealed")
           /\ Rank(final_state) >= 3 => StepTaken("training_open")
           /\ Rank(final_state) >= 4 => StepTaken("selection_frozen")
           /\ Rank(final_state) >= 5 => StepTaken("validation_unsealed")
           /\ Rank(final_state) >= 6 => StepTaken("h3_evaluated")
           /\ Rank(final_state) >= 7 => StepTaken("h1h2_released")
<1>0. Len(records) \in Nat /\ Len(records) + 1 \in 1..(Len(records) + 1)
  BY DEF LedgerShape
<1>1. final_state # "planned" =>
        \E k \in 1..Len(records) :
           /\ records[k].after = final_state
           /\ records[k].kind \notin {"amendment", "replacement_authorization"}
           /\ Step(records[k].before, final_state)
  <2>1. SUFFICES ASSUME state_before[Len(records) + 1] # "planned"
                 PROVE  \E k \in 1..Len(records) :
                          /\ records[k].after = state_before[Len(records) + 1]
                          /\ records[k].kind \notin {"amendment", "replacement_authorization"}
                          /\ Step(records[k].before, state_before[Len(records) + 1])
    BY DEF final_state
  <2>2. PICK k \in 1..((Len(records) + 1) - 1) :
             /\ records[k].after = state_before[Len(records) + 1]
             /\ records[k].kind \notin {"amendment", "replacement_authorization"}
    BY <1>0, <2>1, StateIsReached
  <2>3. k \in 1..Len(records)
    BY <1>0
  <2>. QED  BY <2>2, <2>3, SoundRecord
<1>2. ASSUME NEW from, NEW to, Step(from, to), from # "planned", StepTaken(to)
      PROVE  StepTaken(from)
  <2>1. PICK n \in 1..Len(records) :
          /\ records[n].after = to
          /\ records[n].kind \notin {"amendment", "replacement_authorization"}
    BY <1>2 DEF StepTaken
  <2>2. to # "collected_sealed"
    BY <1>2 DEF Step
  <2>3. PICK k \in 1..(n - 1) :
             /\ Step(records[k].after, to)
             /\ records[k].kind \notin {"amendment", "replacement_authorization"}
    BY <2>1, <2>2, StepsFollowEachOther
  <2>4. records[k].after = from
    BY <1>2, <2>3 DEF Step
  <2>5. k \in 1..Len(records)
    BY <1>0
  <2>. QED  BY <2>3, <2>4, <2>5 DEF StepTaken
<1>3. /\ StepTaken("archived") => StepTaken("h1h2_released")
      /\ StepTaken("h1h2_released") => StepTaken("h3_evaluated")
      /\ StepTaken("h3_evaluated") => StepTaken("validation_unsealed")
      /\ StepTaken("validation_unsealed") => StepTaken("selection_frozen")
      /\ StepTaken("selection_frozen") => StepTaken("training_open")
      /\ StepTaken("training_open") => StepTaken("collected_sealed")
  BY <1>2 DEF Step
<1>4. final_state # "planned" =>
        /\ StepTaken(final_state)
        /\ final_state \in {"collected_sealed", "training_open", "selection_frozen",
                            "validation_unsealed", "h3_evaluated", "h1h2_released",
                            "archived"}
  BY <1>1 DEF StepTaken, Step
<1>. QED  BY <1>3, <1>4, Ranks

\* The state of a sound ledger is one of the eight.
LEMMA FinalState ==
    ASSUME LedgerShape, ledger_sound
    PROVE  final_state \in {"planned", "collected_sealed", "training_open",
                            "selection_frozen", "validation_unsealed", "h3_evaluated",
                            "h1h2_released", "archived"}
<1>1. CASE final_state = "planned"
  BY <1>1
<1>2. CASE final_state # "planned"
  <2>0. /\ Len(records) \in Nat /\ Len(records) + 1 \in 1..(Len(records) + 1)
        /\ (Len(records) + 1) - 1 = Len(records)
    BY DEF LedgerShape
  <2>1. PICK k \in 1..Len(records) :
          /\ records[k].after = final_state
          /\ records[k].kind \notin {"amendment", "replacement_authorization"}
    BY <1>2, <2>0, StateIsReached DEF final_state
  <2>. QED  BY <2>1, SoundRecord DEF Step
<1>. QED  BY <1>1, <1>2

\* The kind of record that takes a step, and so its signer.
LEMMA StepSigner ==
    ASSUME LedgerShape, ledger_sound, NEW n \in 1..Len(records),
           records[n].kind \notin {"amendment", "replacement_authorization"}
    PROVE  /\ records[n].after \in {"collected_sealed", "training_open", "selection_frozen"} =>
                records[n].author = assignment_for("freeze_authority")
           /\ records[n].after \in {"validation_unsealed", "h1h2_released"} =>
                records[n].author = assignment_for("custodian")
           /\ records[n].after = "h3_evaluated" =>
                records[n].author = assignment_for("confirmatory_analyst")
           /\ records[n].after = "validation_unsealed" =>
                /\ records[n].kind = "validation_unseal"
                /\ unseal_approved(records[n])
           /\ records[n].after = "collected_sealed" =>
                /\ records[n].kind = "protocol_freeze"
                /\ exact_affected_blocks(records[n].affected, PoolRoles)
           /\ records[n].kind = "selection_freeze" => records[n].before = "training_open"
<1>1. record_sound(n, state_before)
  BY DEF ledger_sound, LedgerShape
<1>2. PICK r : r = records[n]
  OBVIOUS
<1>3. r.kind \in {"protocol_freeze", "selection_freeze", "validation_unseal",
                  "h3_evaluated", "h1h2_released"}
  BY <1>2 DEF LedgerShape, RecordKinds
<1>4. authority_binding(r) /\ transition_allowed(n) /\ evidence_resolves(n)
  BY <1>1, <1>2, <1>3 DEF record_sound
<1>5. /\ r.kind \in {"protocol_freeze", "selection_freeze"} =>
           principal_for(r.kind) = "freeze_authority"
      /\ r.kind \in {"validation_unseal", "h1h2_released"} =>
           principal_for(r.kind) = "custodian"
      /\ r.kind = "h3_evaluated" => principal_for(r.kind) = "confirmatory_analyst"
  BY DEF principal_for
<1>6. /\ r.kind = "protocol_freeze" =>
           /\ r.after \in {"collected_sealed", "training_open", "archived"}
           /\ r.after = "collected_sealed" => exact_affected_blocks(r.affected, PoolRoles)
      /\ r.kind = "selection_freeze" =>
           r.before = "training_open" /\ r.after = "selection_frozen"
      /\ r.kind = "validation_unseal" => r.after = "validation_unsealed"
      /\ r.kind = "h3_evaluated" => r.after = "h3_evaluated"
      /\ r.kind = "h1h2_released" => r.after = "h1h2_released"
  BY <1>2, <1>3, <1>4 DEF transition_allowed, Transition
<1>7. r.kind = "validation_unseal" => unseal_approved(r)
  BY <1>2, <1>4 DEF evidence_resolves
<1>8. r.author = assignment_for(principal_for(r.kind))
  BY <1>3, <1>4, <1>5, AccessAssumption DEF authority_binding, PrincipalRoles
<1>. QED  BY <1>2, <1>3, <1>5, <1>6, <1>7, <1>8

-----------------------------------------------------------------------------
(* What a granted access and a sound ledger mean                           *)

\* The milestones and who signs them, one by one.
LEMMA MilestoneNames ==
    /\ AccessStates[1] = "planned" /\ AccessStates[2] = "collected_sealed"
    /\ AccessStates[3] = "training_open" /\ AccessStates[4] = "selection_frozen"
    /\ AccessStates[5] = "validation_unsealed" /\ AccessStates[6] = "h3_evaluated"
    /\ AccessStates[7] = "h1h2_released"
    /\ MilestoneSigners[1] = "freeze_authority" /\ MilestoneSigners[2] = "freeze_authority"
    /\ MilestoneSigners[3] = "freeze_authority" /\ MilestoneSigners[4] = "custodian"
    /\ MilestoneSigners[5] = "confirmatory_analyst" /\ MilestoneSigners[6] = "custodian"
  BY DEF AccessStates, MilestoneSigners

\* What the three domains wait for.
LEMMA DueBounds ==
    ASSUME NEW domain \in Domains
    PROVE  /\ MilestonesDue(domain) \in 2..6
           /\ domain = "h3_training" => MilestonesDue(domain) = 2
           /\ domain = "h3_validation" => MilestonesDue(domain) = 4
           /\ domain = "h1h2" => MilestonesDue(domain) = 6
  BY DEF Domains, MilestonesDue

\* What reached a milestone is a step of the chronology.
LEMMA ReachedIsStep ==
    ASSUME LedgerShape, ledger_sound, NEW n \in 1..6, NEW k \in Reached(Len(records), n)
    PROVE  /\ k \in 1..Len(records) /\ records[k].after = AccessStates[n + 1]
           /\ records[k].kind \notin {"amendment", "replacement_authorization"}
<1>1. /\ k \in 1..Len(records) /\ records[k].after = AccessStates[n + 1]
      /\ records[k].kind # "amendment"
  BY DEF Reached
<1>2. AccessStates[n + 1] # "planned"
  BY MilestoneNames
<1>. QED  BY <1>1, <1>2, SoundRecord

\* In a sound ledger far enough, every milestone due was reached, in order,
\* and signed by whose duty it is.
LEMMA MilestonesInOrder ==
    ASSUME LedgerShape, ledger_sound, NEW due \in 1..6, Rank(final_state) >= due + 1
    PROVE  /\ \A n \in 1..due : \E k \in Reached(Len(records), n) :
                records[k].author = assignment_for(MilestoneSigners[n])
           /\ \A n \in 2..due : \A k \in Reached(Len(records), n) :
                \E j \in Reached(Len(records), n - 1) : j < k
<1>1. ASSUME NEW n \in 1..due
      PROVE  \E k \in Reached(Len(records), n) :
                records[k].author = assignment_for(MilestoneSigners[n])
  <2>0. n \in 1..6 /\ Rank(final_state) >= n + 1
    <3>1. Rank(final_state) \in Int
      <4>1. final_state \in {"planned", "collected_sealed", "training_open",
                             "selection_frozen", "validation_unsealed", "h3_evaluated",
                             "h1h2_released", "archived"}
        BY FinalState
      <4>. QED  BY <4>1, Ranks
    <3>. QED  BY <3>1
  <2>1. StepTaken(AccessStates[n + 1])
    <3>1. n \in {1, 2, 3, 4, 5, 6}
      BY <2>0
    <3>. QED  BY <2>0, <3>1, StepsTaken, MilestoneNames
  <2>2. PICK k \in 1..Len(records) :
          /\ records[k].after = AccessStates[n + 1]
          /\ records[k].kind \notin {"amendment", "replacement_authorization"}
    BY <2>1 DEF StepTaken
  <2>3. k \in Reached(Len(records), n)
    BY <2>2 DEF Reached
  <2>4. records[k].author = assignment_for(MilestoneSigners[n])
    <3>1. n \in {1, 2, 3, 4, 5, 6}
      BY <2>0
    <3>. QED  BY <2>2, <3>1, StepSigner, MilestoneNames
  <2>. QED  BY <2>3, <2>4
<1>2. ASSUME NEW n \in 2..due, NEW k \in Reached(Len(records), n)
      PROVE  \E j \in Reached(Len(records), n - 1) : j < k
  <2>0. n \in {2, 3, 4, 5, 6} /\ n \in 1..6
    OBVIOUS
  <2>1. /\ k \in 1..Len(records) /\ records[k].after = AccessStates[n + 1]
        /\ records[k].kind \notin {"amendment", "replacement_authorization"}
    BY <2>0, ReachedIsStep
  <2>2. records[k].after # "collected_sealed"
    BY <2>0, <2>1, MilestoneNames
  <2>3. PICK j \in 1..(k - 1) :
          /\ Step(records[j].after, records[k].after)
          /\ records[j].kind \notin {"amendment", "replacement_authorization"}
    BY <2>1, <2>2, StepsFollowEachOther
  <2>4. records[j].after = AccessStates[(n - 1) + 1]
    <3>1. PICK from, to : from = records[j].after /\ to = records[k].after
      OBVIOUS
    <3>2. Step(from, to) /\ to = AccessStates[n + 1]
      BY <2>1, <2>3, <3>1
    <3>3. CASE n = 2
      BY <3>1, <3>2, <3>3, MilestoneNames DEF Step
    <3>4. CASE n = 3
      BY <3>1, <3>2, <3>4, MilestoneNames DEF Step
    <3>5. CASE n = 4
      BY <3>1, <3>2, <3>5, MilestoneNames DEF Step
    <3>6. CASE n = 5
      BY <3>1, <3>2, <3>6, MilestoneNames DEF Step
    <3>7. CASE n = 6
      BY <3>1, <3>2, <3>7, MilestoneNames DEF Step
    <3>. QED  BY <2>0, <3>3, <3>4, <3>5, <3>6, <3>7
  <2>5. j \in 1..Len(records) /\ j < k
    BY <2>1 DEF LedgerShape
  <2>. QED  BY <2>3, <2>4, <2>5 DEF Reached
<1>. QED  BY <1>1, <1>2

\* No selection follows an unsealing in a sound ledger.
LEMMA NoSelectionAfterUnseal ==
    ASSUME LedgerShape, ledger_sound, NEW k \in 1..Len(records), NEW n \in 1..Len(records),
           records[k].after = "validation_unsealed",
           records[k].kind \notin {"amendment", "replacement_authorization"},
           records[n].kind = "selection_freeze"
    PROVE  n <= k
<1>1. SUFFICES ASSUME k < n PROVE FALSE
  BY DEF LedgerShape
<1>2. n \in (k + 1)..(Len(records) + 1)
  BY <1>1 DEF LedgerShape
<1>3. Rank(records[k].after) <= Rank(state_before[n])
  BY <1>2, StateNeverFallsBack
<1>4. state_before[n] = "training_open"
  BY SoundRecord, StepSigner
<1>. QED  BY <1>3, <1>4, Ranks

\* Whoever read validation outcomes read them after the last selection.
LEMMA SelectionComesFirst ==
    ASSUME AccessTypeOK, LedgerShape, GrantFollowsChronology
    PROVE  SelectionPrecedesOutcomes
<1>1. SUFFICES ASSUME grant # None, grant.domain = "h3_validation", ledger_sound,
                      NEW n \in 1..Len(records), records[n].kind = "selection_freeze"
               PROVE  n <= grant.at
  BY DEF SelectionPrecedesOutcomes, LedgerShape
<1>2. PICK at \in 0..Len(records) : at = grant.at
  BY <1>1 DEF AccessTypeOK
<1>3. 4 \in 1..MilestonesDue(grant.domain)
  BY <1>1, DueBounds DEF Domains
<1>4. PICK k \in Reached(at, 4) : TRUE
  BY <1>1, <1>2, <1>3 DEF GrantFollowsChronology
<1>5. k \in Reached(Len(records), 4) /\ k <= at
  BY <1>2, <1>4 DEF Reached, LedgerShape
<1>6. /\ k \in 1..Len(records) /\ records[k].after = "validation_unsealed"
      /\ records[k].kind \notin {"amendment", "replacement_authorization"}
  BY <1>1, <1>5, ReachedIsStep, MilestoneNames
<1>7. n <= k
  BY <1>1, <1>6, NoSelectionAfterUnseal
<1>. QED  BY <1>2, <1>5, <1>6, <1>7 DEF LedgerShape

\* A sound ledger past the seal names the active blocks, as they are now.
LEMMA SealStands ==
    ASSUME AccessTypeOK, LedgerShape
    PROVE  SealedPoolStands
<1>1. SUFFICES ASSUME ledger_sound, Rank(final_state) >= 2
               PROVE  \E n \in DOMAIN records :
                        /\ records[n].kind = "protocol_freeze"
                        /\ records[n].after = "collected_sealed"
                        /\ {records[n].affected[k] : k \in DOMAIN records[n].affected} =
                             {b.id : b \in ActiveBlocks}
  BY Ranks DEF SealedPoolStands
<1>2. PICK n \in 1..Len(records) :
        /\ records[n].after = "collected_sealed"
        /\ records[n].kind \notin {"amendment", "replacement_authorization"}
  BY <1>1, StepsTaken DEF StepTaken
<1>3. /\ records[n].kind = "protocol_freeze"
      /\ exact_affected_blocks(records[n].affected, PoolRoles)
  BY <1>1, <1>2, StepSigner
<1>4. {c \in ActiveBlocks : c.role \in PoolRoles} = ActiveBlocks
  BY DEF ActiveBlocks, AccessTypeOK
<1>5. {records[n].affected[k] : k \in DOMAIN records[n].affected} = {b.id : b \in ActiveBlocks}
  BY <1>3, <1>4, Zenon DEF exact_affected_blocks
<1>. QED  BY <1>2, <1>3, <1>5 DEF LedgerShape

\* A principal that is assigned is one of the policy's assignments.
LEMMA AssignmentOf ==
    ASSUME policy \in Policies, NEW role, assignment_for(role) # None
    PROVE  \E n \in DOMAIN policy.assignments :
             /\ policy.assignments[n].role = role
             /\ policy.assignments[n].id = assignment_for(role)
<1>. DEFINE at == {n \in DOMAIN policy.assignments : policy.assignments[n].role = role}
<1>1. at # {}
  BY DEF assignment_for
<1>2. at \subseteq Nat
  BY AccessAssumption
<1>3. \E n \in at : \A k \in at : n <= k
  <2>. HIDE DEF at
  <2>. QED  BY <1>1, <1>2, LeastNatural
<1>4. assignment_for(role) =
        policy.assignments[CHOOSE n \in at : \A k \in at : n <= k].id
  BY <1>1 DEF assignment_for
<1>5. PICK n : n = (CHOOSE x \in at : \A k \in at : x <= k)
  OBVIOUS
<1>6. n \in at
  <2>. HIDE DEF at
  <2>. QED  BY <1>3, <1>5
<1>. QED  BY <1>4, <1>5, <1>6

\* An input by which one person approved what another signed.
Approval(p, r, input) ==
    /\ input.ref \in DOMAIN Catalog
    /\ LET issuer == Catalog[input.ref].issuer IN
       /\ issuer # None /\ issuer[1] = "validation_authority"
       /\ \/ issuer[2] # r.author
          \/ \E o \in p.overlaps :
               /\ {"custodian", "validation_authority"} = o.roles
               /\ o.id = r.author /\ o.ref \in DOMAIN Catalog

\* An unsealing of a sound ledger carries such an approval.
LEMMA UnsealIsApproved ==
    ASSUME policy \in Policies, LedgerShape, ledger_sound, NEW k \in 1..Len(records),
           records[k].after = "validation_unsealed",
           records[k].kind \notin {"amendment", "replacement_authorization"}
    PROVE  /\ records[k].kind = "validation_unseal"
           /\ \E input \in records[k].inputs : Approval(policy, records[k], input)
<1>1. /\ records[k].kind = "validation_unseal" /\ unseal_approved(records[k])
      /\ records[k].author = assignment_for("custodian")
  BY StepSigner
<1>2. records[k].author # None
  <2>1. record_sound(k, state_before)
    BY DEF ledger_sound, LedgerShape
  <2>2. authority_binding(records[k])
    BY <2>1 DEF record_sound
  <2>3. principal_for("validation_unseal") = "custodian"
    BY DEF principal_for
  <2>. QED  BY <1>1, <2>2, <2>3, AccessAssumption DEF authority_binding, PrincipalRoles
<1>3. PICK input \in records[k].inputs :
        /\ input.ref \in DOMAIN Catalog
        /\ assignment_for("validation_authority") # None
        /\ Catalog[input.ref].issuer =
             <<"validation_authority", assignment_for("validation_authority")>>
  BY <1>1 DEF unseal_approved
<1>4. PICK m \in DOMAIN policy.assignments :
        /\ policy.assignments[m].role = "custodian"
        /\ policy.assignments[m].id = assignment_for("custodian")
  BY <1>1, <1>2, AssignmentOf
<1>5. PICK n \in DOMAIN policy.assignments :
        /\ policy.assignments[n].role = "validation_authority"
        /\ policy.assignments[n].id = assignment_for("validation_authority")
  BY <1>3, AssignmentOf
<1>6. m \in Nat /\ n \in Nat /\ m # n
  BY <1>4, <1>5, AccessAssumption
<1>7. ASSUME assignment_for("validation_authority") = records[k].author
      PROVE  \E o \in policy.overlaps :
               /\ {"custodian", "validation_authority"} = o.roles
               /\ o.id = records[k].author /\ o.ref \in DOMAIN Catalog
  <2>1. validate_authority_policy
    BY DEF ledger_sound
  <2>2. policy.assignments[m].id = policy.assignments[n].id
    BY <1>1, <1>4, <1>5, <1>7
  <2>3. PICK o \in policy.overlaps :
          /\ \/ o.roles = {policy.assignments[m].role, policy.assignments[n].role}
             \/ o.roles = {policy.assignments[n].role, policy.assignments[m].role}
          /\ o.id = policy.assignments[m].id /\ o.ref \in DOMAIN Catalog
    <3>1. CASE m < n
      BY <2>1, <2>2, <3>1 DEF validate_authority_policy
    <3>2. CASE n < m
      BY <2>1, <2>2, <3>2 DEF validate_authority_policy
    <3>. QED  BY <1>6, <3>1, <3>2
  <2>. QED  BY <1>1, <1>4, <1>5, <2>3
<1>8. Catalog[input.ref].issuer # None
  BY <1>3, <1>5, AccessAssumption
<1>9. /\ Catalog[input.ref].issuer[1] = "validation_authority"
      /\ Catalog[input.ref].issuer[2] = assignment_for("validation_authority")
  BY <1>3
<1>. QED  BY <1>1, <1>3, <1>7, <1>8, <1>9 DEF Approval

-----------------------------------------------------------------------------
(* The inductive invariant                                                 *)

\* The pool is finite, and what distinguishes a block is its own.
PoolShape ==
    /\ IsFiniteSet(blocks)
    /\ \A b \in blocks : b.id # None
    /\ \A b, c \in blocks : b # c => b.id # c.id

\* The plan records the copy its request presented, and takes its place anew.
Succeeds(b, copy, auth) ==
    /\ b.replaces = copy.id /\ b.id # copy.id /\ b.role = copy.role
    /\ b.lineage = [auth |-> auth.id, block |-> copy.id, ordinal |-> copy.ordinal,
                    role |-> copy.role, subspace |-> copy.subspace]
    /\ <<b.order, b.cells>> # <<copy.order, copy.cells>>

\* The failure the authorization names, and the run it invalidates.
Causes(f, run, auth, b) ==
    /\ f.id = auth.body.failure /\ f.run = run.id /\ run.invalid
    /\ f.invalidates /\ f.block = b.replaces
    /\ f.resolution = "replacement_authorized"
    /\ f.auth = auth.id /\ f.replacement = b.id

\* A replacement block keeps to the request it was decided on.
PlanFollows(b) ==
    /\ Succeeds(b, b.request.replaced, b.request.auth)
    /\ authorization_resolves(b.request.auth, b)
    /\ Causes(b.request.failure, b.request.run, b.request.auth, b)

\* Every replacement block does.
PlansFollow == \A b \in blocks : b.replaces # None => PlanFollows(b)

\* The conjunction is inductive; none of its parts is alone.
AccessIndInv ==
    /\ LedgerShape
    /\ PoolShape
    /\ PlansFollow
    /\ ReplacementsAreBounded
    /\ GrantFollowsChronology
    /\ TwoPersonUnseal

\* Such a block passes the replacement checks of Stage 14, when its copy was
\* true and its evidence is kept.
LEMMA PlansResolve ==
    PlansFollow /\ PoolShape /\ ReplacementKeepsPool => AuthorizedReplacementResolves
<1>1. SUFFICES ASSUME PlansFollow, PoolShape, ReplacementKeepsPool,
                      NEW b \in blocks, NEW original \in blocks,
                      b.replaces = original.id, b.request.replaced = Copy(original),
                      DecisionIsKept(b)
               PROVE  replacement_resolves(b)
  BY Zenon DEF AuthorizedReplacementResolves
<1>2. PICK auth, f, run : /\ auth = b.request.auth /\ f = b.request.failure
                          /\ run = b.request.run
  OBVIOUS
<1>3. b.replaces # None
  BY <1>1 DEF PoolShape
<1>4. /\ Succeeds(b, Copy(original), auth)
      /\ authorization_resolves(auth, b)
      /\ Causes(f, run, auth, b)
  BY <1>1, <1>2, <1>3, Zenon DEF PlansFollow, PlanFollows
<1>5. /\ Copy(original).id = original.id /\ Copy(original).role = original.role
      /\ Copy(original).ordinal = original.ordinal
      /\ Copy(original).subspace = original.subspace
      /\ Copy(original).order = original.order /\ Copy(original).cells = original.cells
  BY DEF Copy
<1>6. original_resolves(b, original) /\ b.lineage.auth = auth.id
  <2>1. b.lineage = [auth |-> auth.id, block |-> original.id, ordinal |-> original.ordinal,
                     role |-> original.role, subspace |-> original.subspace]
    BY <1>4, <1>5, Zenon DEF Succeeds
  <2>2. b.lineage.auth = auth.id
    BY <2>1
  <2>3. b # original
    BY <1>4, <1>5 DEF Succeeds
  <2>4. b.ordinal # original.ordinal /\ b.subspace # original.subspace
    BY <1>1, <2>3, Zenon DEF ReplacementKeepsPool
  <2>5. b.role = original.role /\ <<b.order, b.cells>> # <<original.order, original.cells>>
    BY <1>4, <1>5 DEF Succeeds
  <2>. QED  BY <1>1, <2>1, <2>2, <2>4, <2>5, Zenon DEF original_resolves
<1>7. PICK n \in DOMAIN records : auth = records[n] /\ record_sound(n, state_before)
  BY <1>1, <1>2, Zenon DEF DecisionIsKept
<1>8. IsFirst(records, n, b.lineage.auth)
  <2>1. \A k \in 1..(n - 1) : records[k].id # records[n].id
    BY <1>7, Zenon DEF record_sound
  <2>. QED  BY <1>6, <1>7, <2>1, Zenon DEF IsFirst
<1>9. failure_resolves(auth, b)
  <2>1. PICK k \in DOMAIN failures : f = failures[k] /\ IsFirst(failures, k, failures[k].id)
    BY <1>1, <1>2, Zenon DEF DecisionIsKept
  <2>2. run \in manifests
    BY <1>1, <1>2 DEF DecisionIsKept
  <2>3. IsFirst(failures, k, auth.body.failure)
    BY <1>4, <2>1, Zenon DEF Causes
  <2>. QED  BY <1>4, <2>1, <2>2, <2>3, Zenon DEF Causes, failure_resolves
<1>. QED  BY <1>1, <1>4, <1>6, <1>7, <1>8, <1>9, Zenon DEF replacement_resolves

\* Stage 14 accepts a replacement only with its signed authorization, its
\* failure and its run, and only when it was decided on a true copy.
LEMMA AcceptedIsAccountable == LedgerShape /\ PlansFollow => AcceptedStudyIsAccountable
<1>1. SUFFICES ASSUME LedgerShape, PlansFollow, Stage14_validate,
                      NEW b \in blocks, b.replaces # None
               PROVE  /\ \E original \in blocks :
                           /\ original.id = b.replaces
                           /\ original.id = b.request.replaced.id
                           /\ original.role = b.request.replaced.role
                           /\ original.ordinal = b.request.replaced.ordinal
                           /\ original.subspace = b.request.replaced.subspace
                      /\ \E n \in DOMAIN records, k \in DOMAIN failures, run \in manifests :
                           /\ records[n].id = b.request.auth.id
                           /\ records[n].author = assignment_for("replacement_authority")
                           /\ records[n].body.block = b.id
                           /\ records[n].body.original = b.replaces
                           /\ failures[k].block = b.replaces
                           /\ failures[k].auth = records[n].id
                           /\ run.id = failures[k].run /\ run.invalid
  BY Zenon DEF AcceptedStudyIsAccountable
<1>2. replacement_resolves(b) /\ ledger_sound
  BY <1>1 DEF Stage14_validate
<1>3. PICK original \in blocks : original_resolves(b, original)
  BY <1>2 DEF replacement_resolves
<1>4. PICK n \in DOMAIN records :
        /\ IsFirst(records, n, b.lineage.auth)
        /\ authorization_resolves(records[n], b) /\ failure_resolves(records[n], b)
  BY <1>2, Zenon DEF replacement_resolves
<1>5. PICK copy, auth : /\ copy = b.request.replaced /\ auth = b.request.auth
                        /\ Succeeds(b, copy, auth)
  BY <1>1, Zenon DEF PlansFollow, PlanFollows
<1>6. /\ b.lineage.auth = auth.id /\ b.lineage.block = copy.id
      /\ b.lineage.ordinal = copy.ordinal /\ b.lineage.role = copy.role
      /\ b.lineage.subspace = copy.subspace
  BY <1>5 DEF Succeeds
<1>7. /\ original.id = b.replaces /\ b.lineage.block = original.id
      /\ b.lineage.ordinal = original.ordinal /\ b.lineage.role = original.role
      /\ b.lineage.subspace = original.subspace
  BY <1>3 DEF original_resolves
<1>8. records[n].author = assignment_for("replacement_authority")
  <2>1. record_sound(n, state_before)
    BY <1>2 DEF ledger_sound
  <2>2. authority_binding(records[n])
    BY <2>1 DEF record_sound
  <2>3. principal_for("replacement_authorization") = "replacement_authority"
    BY DEF principal_for
  <2>4. records[n].kind = "replacement_authorization"
    BY <1>4 DEF authorization_resolves
  <2>. QED  BY <2>2, <2>3, <2>4, AccessAssumption DEF authority_binding, PrincipalRoles
<1>9. PICK k \in DOMAIN failures, run \in manifests :
        /\ failures[k].block = b.replaces /\ failures[k].auth = records[n].id
        /\ run.id = failures[k].run /\ run.invalid
  BY <1>4, Zenon DEF failure_resolves
<1>10. /\ records[n].id = auth.id /\ records[n].body.block = b.id
       /\ records[n].body.original = b.replaces
  BY <1>4, <1>6, Zenon DEF IsFirst, authorization_resolves
<1>. QED  BY <1>5, <1>6, <1>7, <1>8, <1>9, <1>10, Zenon

-----------------------------------------------------------------------------
(* The pool under a replacement                                            *)

\* The blocks of a pool that no other block replaces.
ActiveOf(held) == {b \in held : ~ \E c \in held : c.replaces = b.id}

\* How many of them have a role.
ActiveCount(held, role) == Cardinality({b \in ActiveOf(held) : b.role = role})

\* A new block beside the one it replaces.
ReplacesIn(held, old, new) ==
    /\ old \in held /\ new.replaces = old.id /\ new.id # None
    /\ \A b \in held : b.id # new.id /\ b.replaces # old.id
    /\ \A b \in held : b.id # None
    /\ \A b, c \in held : b # c => b.id # c.id
    /\ \A b \in held : b.replaces \in {c.id : c \in held} \cup {None}

\* The new block takes the place of the old one among the active blocks.
LEMMA ActiveAfter ==
    ASSUME NEW held, NEW old, NEW new, ReplacesIn(held, old, new)
    PROVE  /\ new \notin held /\ new # old /\ old \in ActiveOf(held)
           /\ ActiveOf(held \cup {new}) = (ActiveOf(held) \ {old}) \cup {new}
<1>1. new \notin held /\ new # old /\ old \in ActiveOf(held)
  BY DEF ReplacesIn, ActiveOf
<1>2. new \in ActiveOf(held \cup {new})
  <2>1. \A c \in held : c.replaces # new.id
    BY DEF ReplacesIn
  <2>2. new.replaces # new.id
    BY DEF ReplacesIn
  <2>. QED  BY <2>1, <2>2 DEF ActiveOf
<1>3. ASSUME NEW b \in held
      PROVE  b \in ActiveOf(held \cup {new}) <=> b \in ActiveOf(held) /\ b # old
  BY DEF ReplacesIn, ActiveOf
<1>4. ActiveOf(held \cup {new}) \subseteq held \cup {new} /\ ActiveOf(held) \subseteq held
  BY DEF ActiveOf
<1>. QED  BY <1>1, <1>2, <1>3, <1>4

\* So as many blocks stay active.
LEMMA SizeAfter ==
    ASSUME NEW held, NEW old, NEW new, ReplacesIn(held, old, new), IsFiniteSet(held)
    PROVE  Cardinality(ActiveOf(held \cup {new})) = Cardinality(ActiveOf(held))
<1>. DEFINE S == ActiveOf(held)
<1>1. /\ old \in S /\ new \notin S /\ S \subseteq held
      /\ ActiveOf(held \cup {new}) = (S \ {old}) \cup {new}
  <2>1. S \subseteq held
    BY DEF ActiveOf
  <2>. QED  BY <2>1, ActiveAfter
<1>. HIDE DEF S
<1>2. IsFiniteSet(S) /\ Cardinality(S) \in Nat
  <2>1. IsFiniteSet(S)
    BY <1>1, FS_Subset
  <2>. QED  BY <2>1, FS_CardinalityType
<1>3. IsFiniteSet(S \ {old}) /\ Cardinality(S \ {old}) = Cardinality(S) - 1
  BY <1>1, <1>2, FS_RemoveElement
<1>4. Cardinality((S \ {old}) \cup {new}) = Cardinality(S \ {old}) + 1
  BY <1>1, <1>3, FS_AddElement
<1>5. Cardinality((S \ {old}) \cup {new}) = Cardinality(S)
  BY <1>2, <1>3, <1>4
<1>. QED  BY <1>1, <1>5, Zenon DEF S

\* And when the role stays, every role keeps its number of active blocks.
LEMMA CountAfter ==
    ASSUME NEW held, NEW old, NEW new, NEW role, ReplacesIn(held, old, new),
           new.role = old.role, IsFiniteSet(held)
    PROVE  ActiveCount(held \cup {new}, role) = ActiveCount(held, role)
<1>. DEFINE S == {b \in ActiveOf(held) : b.role = role}
            After == {b \in ActiveOf(held \cup {new}) : b.role = role}
<1>1. /\ new \notin held /\ new # old /\ old \in ActiveOf(held)
      /\ ActiveOf(held \cup {new}) = (ActiveOf(held) \ {old}) \cup {new}
  BY ActiveAfter
<1>2. S \subseteq held /\ new \notin S
  BY <1>1 DEF ActiveOf
<1>3. IsFiniteSet(S) /\ Cardinality(S) \in Nat
  <2>1. IsFiniteSet(S)
    BY <1>2, FS_Subset
  <2>. QED  BY <2>1, FS_CardinalityType
<1>4. CASE old.role = role
  <2>1. After = (S \ {old}) \cup {new} /\ old \in S
    BY <1>1, <1>4
  <2>. HIDE DEF S, After
  <2>2. IsFiniteSet(S \ {old}) /\ Cardinality(S \ {old}) = Cardinality(S) - 1
    BY <1>3, <2>1, FS_RemoveElement
  <2>3. new \notin S \ {old}
    BY <1>2
  <2>4. Cardinality((S \ {old}) \cup {new}) = Cardinality(S \ {old}) + 1
    BY <2>2, <2>3, FS_AddElement
  <2>5. Cardinality(After) = Cardinality(S)
    BY <1>3, <2>1, <2>2, <2>4
  <2>. QED  BY <2>5 DEF S, After, ActiveCount
<1>5. CASE old.role # role
  <2>1. After = S
    BY <1>1, <1>5
  <2>. QED  BY <2>1 DEF ActiveCount
<1>. QED  BY <1>4, <1>5

\* And there is one replacement more.
LEMMA ReplacedAfter ==
    ASSUME NEW held, NEW old, NEW new, ReplacesIn(held, old, new), IsFiniteSet(held)
    PROVE  /\ Cardinality({b \in held : b.replaces # None}) \in Nat
           /\ Cardinality({b \in held \cup {new} : b.replaces # None}) =
                Cardinality({b \in held : b.replaces # None}) + 1
<1>. DEFINE S == {b \in held : b.replaces # None}
            After == {b \in held \cup {new} : b.replaces # None}
<1>1. After = S \cup {new} /\ new \notin S
  BY DEF ReplacesIn
<1>2. IsFiniteSet(S)
  <2>1. S \subseteq held
    OBVIOUS
  <2>. QED  BY <2>1, FS_Subset
<1>3. Cardinality(S) \in Nat
  BY <1>2, FS_CardinalityType
<1>4. Cardinality(S \cup {new}) = Cardinality(S) + 1
  <2>. HIDE DEF S
  <2>. QED  BY <1>1, <1>2, FS_AddElement
<1>5. Cardinality(After) = Cardinality(S) + 1
  BY <1>1, <1>4
<1>. QED  BY <1>3, <1>5

-----------------------------------------------------------------------------
(* The steps                                                               *)

LEMMA AccessInit == Init => AccessIndInv
<1> SUFFICES ASSUME Init PROVE AccessIndInv
  OBVIOUS
<1>1. /\ policy \in Policies /\ records = <<>> /\ blocks = InitialBlocks
      /\ unresolved = FALSE /\ grant = None
  BY DEF Init
<1>2. LedgerShape
  BY <1>1 DEF LedgerShape
<1>3. PoolShape /\ PlansFollow
  BY <1>1, AccessAssumption DEF PoolShape, PlansFollow
<1>4. AccessTypeOK
  <2>1. Len(records) <= MaxRecords /\ DOMAIN records = {}
    BY <1>1, AccessAssumption
  <2>2. \A b \in blocks : b.role \in PoolRoles /\ b.replaces = None
    BY <1>1, AccessAssumption
  <2>. QED  BY <1>1, <2>1, <2>2 DEF AccessTypeOK
<1>5. ReplacementKeepsPool
  <2>1. ActiveBlocks = InitialBlocks
    BY <1>1, AccessAssumption DEF ActiveBlocks, Replaced
  <2>. QED  BY <1>1, <2>1, AccessAssumption DEF ReplacementKeepsPool
<1>6. BudgetIsExact
  <2>1. {b \in blocks : b.replaces # None} = {}
    BY <1>1, AccessAssumption
  <2>2. ReplacementCount = 0
    BY <2>1, FS_EmptySet DEF ReplacementCount
  <2>. QED  BY <1>1, <2>2, AccessAssumption DEF BudgetIsExact
<1>7. GrantFollowsChronology /\ TwoPersonUnseal
  BY <1>1 DEF GrantFollowsChronology, TwoPersonUnseal
<1>. QED  BY <1>2, <1>3, <1>4, <1>5, <1>6, <1>7 DEF AccessIndInv, ReplacementsAreBounded

\* The assignment of a role in a given policy.
AssignmentIn(p, role) ==
    LET at == {n \in DOMAIN p.assignments : p.assignments[n].role = role}
    IN IF at = {} THEN None
       ELSE p.assignments[CHOOSE n \in at : \A k \in at : n <= k].id

\* What a grant rests on is not taken back: the ledger grows behind it.
LEMMA GrantStands ==
    ASSUME AccessTypeOK, LedgerShape, GrantFollowsChronology, TwoPersonUnseal,
           UNCHANGED <<policy, grant>>,
           \A k \in 1..Len(records) : records'[k] = records[k]
    PROVE  GrantFollowsChronology' /\ TwoPersonUnseal'
<1>1. CASE grant = None
  BY <1>1 DEF GrantFollowsChronology, TwoPersonUnseal
<1>2. CASE grant # None
  <2>1. PICK at \in 0..Len(records) : at = grant.at
    BY <1>2 DEF AccessTypeOK
  <2>2. \A k \in 1..at : records'[k] = records[k]
    BY DEF LedgerShape
  <2>3. \A role : assignment_for(role)' = assignment_for(role)
    <3>1. \A role : /\ assignment_for(role) = AssignmentIn(policy, role)
                    /\ assignment_for(role)' = AssignmentIn(policy', role)
      BY Zenon DEF assignment_for, AssignmentIn
    <3>2. policy' = policy
      OBVIOUS
    <3>. QED  BY <3>1, <3>2, Zenon
  <2>4. \A n : Reached(at, n)' = Reached(at, n)
    BY <2>2 DEF Reached
  <2>5. GrantFollowsChronology'
    <3>1. \A n \in 1..MilestonesDue(grant.domain) :
           \E k \in Reached(at, n) : k \in 1..at /\
              records[k].author = assignment_for(MilestoneSigners[n])
      BY <1>2, <2>1 DEF GrantFollowsChronology, Reached
    <3>2. \A n \in 1..MilestonesDue(grant.domain) :
           \E k \in Reached(at, n) : records'[k].author = assignment_for(MilestoneSigners[n])
      BY <2>2, <3>1
    <3>3. \A n \in 2..MilestonesDue(grant.domain) : \A k \in Reached(at, n) :
           \E j \in Reached(at, n - 1) : j < k
      BY <1>2, <2>1 DEF GrantFollowsChronology
    <3>. QED  BY <1>2, <2>1, <2>3, <2>4, <3>2, <3>3 DEF GrantFollowsChronology
  <2>6. TwoPersonUnseal'
    BY <1>2, <2>1, <2>2 DEF TwoPersonUnseal
  <2>. QED  BY <2>5, <2>6
<1>. QED  BY <1>1, <1>2

\* What is said of the pool rests on the blocks alone.
LEMMA PoolStands ==
    ASSUME PoolShape, PlansFollow, ReplacementKeepsPool, BudgetIsExact,
           UNCHANGED <<blocks, unresolved>>
    PROVE  PoolShape' /\ PlansFollow' /\ ReplacementKeepsPool' /\ BudgetIsExact'
<1>1. blocks' = blocks /\ unresolved' = unresolved
  OBVIOUS
<1>2. PoolShape' /\ PlansFollow'
  BY <1>1 DEF PoolShape, PlansFollow
<1>3. ReplacementKeepsPool'
  BY <1>1 DEF ReplacementKeepsPool, ActiveBlocks, Replaced, RoleIsPresented
<1>4. BudgetIsExact'
  BY <1>1 DEF BudgetIsExact, ReplacementCount
<1>. QED  BY <1>2, <1>3, <1>4

LEMMA AppendKeeps == AccessIndInv /\ AppendRecord => AccessIndInv'
<1> SUFFICES ASSUME AccessIndInv, AppendRecord PROVE AccessIndInv'
  OBVIOUS
<1>. USE DEF AccessIndInv, ReplacementsAreBounded
<1>1. PICK r : r.kind \in RecordKinds /\ records' = Append(records, r)
  BY DEF AppendRecord
<1>2. /\ Len(records) < MaxRecords
      /\ UNCHANGED <<policy, blocks, unresolved, grant>>
  BY DEF AppendRecord
<1>3. PICK S : records \in Seq(S)
  BY DEF LedgerShape
<1>4. /\ records' \in Seq(S \cup {r}) /\ Len(records') = Len(records) + 1
      /\ DOMAIN records' = 1..Len(records') /\ Len(records) \in Nat
      /\ records'[Len(records) + 1] = r
      /\ \A k \in 1..Len(records) : records'[k] = records[k]
  BY <1>1, <1>3
<1>5. LedgerShape'
  BY <1>1, <1>4 DEF LedgerShape
<1>6. AccessTypeOK'
  <2>1. BlockIds' = BlockIds
    BY <1>2 DEF BlockIds
  <2>2. \A n \in DOMAIN records' : records'[n].kind \in RecordKinds
    BY <1>5 DEF LedgerShape
  <2>3. Len(records') <= MaxRecords
    BY <1>2, <1>4, AccessAssumption
  <2>. QED  BY <1>2, <1>4, <2>1, <2>2, <2>3 DEF AccessTypeOK
<1>7. PoolShape' /\ PlansFollow' /\ ReplacementKeepsPool' /\ BudgetIsExact'
  BY <1>2, PoolStands
<1>8. GrantFollowsChronology' /\ TwoPersonUnseal'
  BY <1>2, <1>4, GrantStands
<1>. QED  BY <1>5, <1>6, <1>7, <1>8

LEMMA AccessKeeps == AccessIndInv /\ AskForAccess => AccessIndInv'
<1> SUFFICES ASSUME AccessIndInv, AskForAccess PROVE AccessIndInv'
  OBVIOUS
<1>. USE DEF AccessIndInv, ReplacementsAreBounded
<1>0. PICK a \in DOMAIN policy.assignments, domain \in Domains, b \in blocks :
        authorize_outcome_access(policy.assignments[a].id, policy.assignments[a].role,
                                 domain, b.id)
  BY Zenon DEF AskForAccess
<1>1. PICK role, actor : authorize_outcome_access(actor, role, domain, b.id)
  BY <1>0, Zenon
<1>2. /\ state_opens(role, domain, Block(b.id).role) /\ ledger_sound
      /\ grant' = [role |-> role, actor |-> actor, domain |-> domain, block |-> b.id,
                   at |-> Len(records)]
      /\ UNCHANGED <<policy, records, blocks, unresolved>>
  BY <1>1 DEF authorize_outcome_access, ledger_answers
<1>3. grant'.domain = domain /\ grant'.at = Len(records) /\ grant'.block = b.id
  BY <1>2
<1>4. PICK due \in 2..6 : due = MilestonesDue(domain)
  BY DueBounds
<1>5. Rank(final_state) >= due + 1
  BY <1>2, <1>4, DueBounds, Ranks DEF state_opens
<1>6. LedgerShape' /\ PoolShape' /\ PlansFollow' /\ ReplacementKeepsPool' /\ BudgetIsExact'
  <2>1. LedgerShape'
    BY <1>2 DEF LedgerShape
  <2>. QED  BY <1>2, <2>1, PoolStands
<1>7. AccessTypeOK'
  <2>1. BlockIds' = BlockIds /\ b.id \in BlockIds
    BY <1>2 DEF BlockIds
  <2>2. Len(records) \in 0..Len(records)
    BY DEF LedgerShape
  <2>. QED  BY <1>2, <1>3, <2>1, <2>2 DEF AccessTypeOK
<1>8. GrantFollowsChronology'
  <2>1. /\ \A n \in 1..due : \E k \in Reached(Len(records), n) :
             records[k].author = assignment_for(MilestoneSigners[n])
        /\ \A n \in 2..due : \A k \in Reached(Len(records), n) :
             \E j \in Reached(Len(records), n - 1) : j < k
    <3>1. due \in 1..6
      OBVIOUS
    <3>. QED  BY <1>2, <1>5, <3>1, MilestonesInOrder, Zenon
  <2>2. \A x : assignment_for(x)' = assignment_for(x)
    <3>1. \A x : /\ assignment_for(x) = AssignmentIn(policy, x)
                 /\ assignment_for(x)' = AssignmentIn(policy', x)
      BY Zenon DEF assignment_for, AssignmentIn
    <3>2. policy' = policy
      BY <1>2
    <3>. QED  BY <3>1, <3>2, Zenon
  <2>3. \A n : Reached(Len(records), n)' = Reached(Len(records), n)
    BY <1>2 DEF Reached
  <2>. QED  BY <1>2, <1>3, <1>4, <2>1, <2>2, <2>3 DEF GrantFollowsChronology
<1>9. TwoPersonUnseal'
  <2>1. SUFFICES ASSUME domain = "h3_validation"
                 PROVE  \E n \in 1..Len(records) :
                          /\ records[n].kind = "validation_unseal"
                          /\ \E input \in records[n].inputs :
                               Approval(policy, records[n], input)
    BY <1>2, <1>3 DEF TwoPersonUnseal, Approval
  <2>2. Rank(final_state) >= 5
    BY <1>4, <1>5, <2>1, DueBounds
  <2>3. PICK k \in 1..Len(records) :
          /\ records[k].after = "validation_unsealed"
          /\ records[k].kind \notin {"amendment", "replacement_authorization"}
    BY <1>2, <2>2, StepsTaken DEF StepTaken
  <2>4. policy \in Policies
    BY DEF AccessTypeOK
  <2>. QED  BY <1>2, <2>3, <2>4, UnsealIsApproved
<1>. QED  BY <1>6, <1>7, <1>8, <1>9

LEMMA ReplacementKeeps == AccessIndInv /\ AskForReplacement => AccessIndInv'
<1> SUFFICES ASSUME AccessIndInv, AskForReplacement PROVE AccessIndInv'
  OBVIOUS
<1>. USE DEF AccessIndInv, ReplacementsAreBounded
<1>1. PICK q : q.input.ordinal \in Nat /\ decide_complete_block_replacement(q)
  BY DEF AskForReplacement
<1>2. id_in(q.replaced.id) /\ UNCHANGED <<policy, records, grant>>
  BY <1>1 DEF decide_complete_block_replacement
<1>3. LedgerShape' /\ GrantFollowsChronology' /\ TwoPersonUnseal'
  <2>1. LedgerShape'
    BY <1>2 DEF LedgerShape
  <2>. QED  BY <1>2, <2>1, GrantStands
<1>4. CASE budget_exhausted /\ unresolved' = TRUE /\ UNCHANGED blocks
  <2>1. PoolShape' /\ PlansFollow' /\ ReplacementKeepsPool'
    <3>1. blocks' = blocks
      BY <1>4
    <3>2. PoolShape' /\ PlansFollow'
      BY <3>1 DEF PoolShape, PlansFollow
    <3>. QED  BY <3>1, <3>2 DEF ReplacementKeepsPool, ActiveBlocks, Replaced, RoleIsPresented
  <2>2. AccessTypeOK'
    BY <1>2, <1>4 DEF AccessTypeOK, BlockIds
  <2>3. BudgetIsExact'
    <3>1. PICK count \in Nat : count = ReplacementCount
      <4>1. IsFiniteSet({b \in blocks : b.replaces # None})
        BY FS_Subset DEF PoolShape
      <4>. QED  BY <4>1, FS_CardinalityType DEF ReplacementCount
    <3>2. ReplacementCount' = ReplacementCount
      BY <1>4 DEF ReplacementCount
    <3>. QED  BY <1>4, <3>1, <3>2, AccessAssumption DEF BudgetIsExact, budget_exhausted
  <2>. QED  BY <1>3, <2>1, <2>2, <2>3
<1>5. CASE /\ ~budget_exhausted /\ replacement_authorized(q)
           /\ UNCHANGED unresolved
           /\ blocks' = pool_with(q)
  <2>1. PICK old \in blocks : old.id = q.replaced.id
    BY <1>2 DEF id_in
  <2>2. PICK new : new = NewPlan(q)
    OBVIOUS
  <2>3. /\ new.id = <<q.input.role, q.input.ordinal>> /\ new.role = q.input.role
        /\ new.ordinal = q.input.ordinal /\ new.subspace = q.input.subspace
        /\ new.order = q.input.order /\ new.cells = q.input.cells
        /\ new.replaces = q.input.lineage.block /\ new.lineage = q.input.lineage
        /\ new.request = q
    BY <2>2 DEF NewPlan, make_block_id
  <2>4. blocks' = blocks \cup {new}
    BY <1>5, <2>2 DEF pool_with
  <2>5. /\ q.input.lineage =
             [auth |-> q.auth.id, block |-> q.replaced.id, ordinal |-> q.replaced.ordinal,
              role |-> q.replaced.role, subspace |-> q.replaced.subspace]
        /\ <<q.input.role, q.input.ordinal>> = q.auth.body.block
        /\ q.input.ordinal = q.auth.body.ordinal
        /\ q.input.role = q.auth.body.role
        /\ q.input.subspace = q.auth.body.subspace
    BY <1>5 DEF replacement_authorized, new_block_binding, make_block_id
  <2>6. new.role = q.replaced.role /\ new.role \in PoolRoles /\ new.replaces = old.id
    <3>1. q.input.lineage.role = q.input.role /\ q.input.role \in PoolRoles
      BY <1>5 DEF replacement_authorized, plan_generated
    <3>. QED  BY <2>1, <2>3, <2>5, <3>1
  <2>7. \A b \in blocks : /\ b.id # new.id /\ b.ordinal # new.ordinal
                          /\ b.subspace # new.subspace /\ b.replaces # old.id
    BY <1>5, <2>1, <2>3
       DEF replacement_authorized, new_identity, make_block_id, no_branch, Replaced
  <2>8. new.id # None
    BY <1>1, <2>3, <2>6, AccessAssumption
  <2>9. ReplacesIn(blocks, old, new)
    BY <2>1, <2>3, <2>6, <2>7, <2>8 DEF ReplacesIn, PoolShape, AccessTypeOK, BlockIds
  <2>10. IsFiniteSet(blocks)
    BY DEF PoolShape
  <2>11. PoolShape'
    <3>1. IsFiniteSet(blocks')
      BY <2>4, <2>10, FS_AddElement
    <3>. QED  BY <2>4, <2>7, <2>8, <3>1 DEF PoolShape
  <2>12. AccessTypeOK'
    <3>1. BlockIds' = BlockIds \cup {new.id}
      BY <2>4 DEF BlockIds
    <3>2. new.role \in PoolRoles /\ new.replaces \in BlockIds
      BY <2>1, <2>6 DEF BlockIds
    <3>. QED  BY <1>2, <1>5, <2>4, <3>1, <3>2 DEF AccessTypeOK
  <2>13. ReplacementKeepsPool'
    <3>1. ActiveBlocks = ActiveOf(blocks) /\ ActiveBlocks' = ActiveOf(blocks')
      BY DEF ActiveBlocks, ActiveOf, Replaced
    <3>2. Cardinality(ActiveBlocks') = Cardinality(InitialBlocks)
      <4>1. Cardinality(ActiveOf(blocks')) = Cardinality(ActiveOf(blocks))
        BY <2>4, <2>9, <2>10, SizeAfter
      <4>. QED  BY <3>1, <4>1 DEF ReplacementKeepsPool
    <3>3. ASSUME \A b \in blocks' : b.replaces # None => RoleIsPresented(b)'
          PROVE  \A role \in PoolRoles :
                   Cardinality({b \in ActiveBlocks' : b.role = role}) =
                     Cardinality({b \in InitialBlocks : b.role = role})
      <4>1. \A b \in blocks : b.replaces # None => RoleIsPresented(b)
        BY <2>4, <3>3 DEF RoleIsPresented
      <4>2. new.role = old.role
        <5>1. new \in blocks' /\ old \in blocks' /\ new.replaces # None
          BY <2>1, <2>4, <2>6 DEF PoolShape
        <5>2. new.request.replaced.role = old.role
          BY <2>6, <3>3, <5>1 DEF RoleIsPresented
        <5>. QED  BY <2>3, <2>6, <5>2
      <4>3. \A role \in PoolRoles : ActiveCount(blocks', role) = ActiveCount(blocks, role)
        BY <2>4, <2>9, <2>10, <4>2, CountAfter
      <4>4. \A role : /\ ActiveCount(blocks, role) =
                           Cardinality({b \in ActiveBlocks : b.role = role})
                      /\ ActiveCount(blocks', role) =
                           Cardinality({b \in ActiveBlocks' : b.role = role})
        BY <3>1, Zenon DEF ActiveCount
      <4>5. \A role \in PoolRoles :
              Cardinality({b \in ActiveBlocks : b.role = role}) =
                Cardinality({b \in InitialBlocks : b.role = role})
        BY <4>1, Zenon DEF ReplacementKeepsPool
      <4>. QED  BY <4>3, <4>4, <4>5, Zenon
    <3>4. \A b, c \in blocks' : b # c => b.ordinal # c.ordinal /\ b.subspace # c.subspace
      BY <2>4, <2>7 DEF ReplacementKeepsPool
    <3>. QED  BY <3>2, <3>3, <3>4, Zenon DEF ReplacementKeepsPool
  <2>14. BudgetIsExact'
    <3>1. PICK count \in Nat : count = ReplacementCount
      BY <2>9, <2>10, ReplacedAfter DEF ReplacementCount
    <3>2. ReplacementCount' = count + 1
      BY <2>4, <2>9, <2>10, <3>1, ReplacedAfter DEF ReplacementCount
    <3>3. ~(count >= Budget)
      BY <1>5, <3>1 DEF budget_exhausted
    <3>. QED  BY <1>5, <3>1, <3>2, <3>3, AccessAssumption DEF BudgetIsExact
  <2>15. PlansFollow'
    <3>1. /\ q.auth.kind = "replacement_authorization"
          /\ q.auth.body.original = q.replaced.id /\ q.auth.body.failure = q.failure.id
          /\ q.auth.body.budget = BudgetArtifact
          /\ input_contains(q.auth, BudgetArtifact)
      BY <1>5 DEF replacement_authorized, authorization_lineage, input_contains
    <3>2. /\ q.failure.run = q.run.id /\ q.run.invalid
          /\ q.failure.block = q.replaced.id /\ q.failure.invalidates
          /\ q.failure.resolution = "replacement_authorized"
          /\ q.failure.auth = q.auth.id /\ q.failure.replacement = q.auth.body.block
      BY <1>5 DEF replacement_authorized, failure_retained, failure_resolution
    <3>3. Succeeds(new, q.replaced, q.auth)
      <4>1. <<new.order, new.cells>> # <<q.replaced.order, q.replaced.cells>>
        BY <1>5, <2>3 DEF replacement_authorized, plan_generated
      <4>2. new.id # q.replaced.id /\ new.replaces = q.replaced.id
        BY <2>1, <2>6, <2>7
      <4>3. new.lineage = [auth |-> q.auth.id, block |-> q.replaced.id,
                           ordinal |-> q.replaced.ordinal, role |-> q.replaced.role,
                           subspace |-> q.replaced.subspace]
        BY <2>3, <2>5, Zenon
      <4>. QED  BY <2>6, <4>1, <4>2, <4>3, Zenon DEF Succeeds
    <3>4. authorization_resolves(q.auth, new)
      BY <2>1, <2>3, <2>5, <2>6, <3>1, Zenon DEF authorization_resolves
    <3>5. Causes(q.failure, q.run, q.auth, new)
      BY <2>1, <2>3, <2>5, <2>6, <3>1, <3>2, Zenon DEF Causes
    <3>6. PlanFollows(new)
      BY <2>3, <3>3, <3>4, <3>5, Zenon DEF PlanFollows
    <3>. QED  BY <2>4, <3>6, Zenon DEF PlansFollow
  <2>. QED  BY <1>3, <2>11, <2>12, <2>13, <2>14, <2>15
<1>. QED  BY <1>1, <1>4, <1>5 DEF decide_complete_block_replacement

-----------------------------------------------------------------------------
(* Theorems                                                                *)

\* The inductive invariant: what a grant rests on lies behind it in the ledger,
\* and every replacement block keeps to the request it was decided on: to its
\* copy of the replaced block, true or not, its authorization, failure and run.
THEOREM AccessInvariant == Spec => []AccessIndInv
<1>1. Init => AccessIndInv
  BY AccessInit
<1>2. AccessIndInv /\ [Next]_vars => AccessIndInv'
  <2>1. AccessIndInv /\ UNCHANGED vars => AccessIndInv'
    <3> SUFFICES ASSUME AccessIndInv, UNCHANGED vars PROVE AccessIndInv'
      OBVIOUS
    <3>. USE DEF AccessIndInv, ReplacementsAreBounded
    <3>1. UNCHANGED <<policy, records, blocks, unresolved, grant>>
      BY DEF vars
    <3>2. PoolShape' /\ PlansFollow' /\ ReplacementKeepsPool' /\ BudgetIsExact'
      BY <3>1, PoolStands
    <3>3. LedgerShape' /\ AccessTypeOK'
      BY <3>1 DEF LedgerShape, AccessTypeOK, BlockIds
    <3>4. GrantFollowsChronology' /\ TwoPersonUnseal'
      BY <3>1, GrantStands
    <3>. QED  BY <3>2, <3>3, <3>4
  <2>. QED  BY <2>1, AppendKeeps, ReplacementKeeps, AccessKeeps DEF Next
<1>. QED  BY <1>1, <1>2, PTL DEF Spec

\* Replacements stay within their budget and keep the pool's size, its distinct
\* identities and, where requests present true roles, its blocks of each role
\* (decide_complete_block_replacement), however long the study goes on.
THEOREM ReplacementsStayBounded == Spec => []ReplacementsAreBounded
<1>1. AccessIndInv => ReplacementsAreBounded
  BY DEF AccessIndInv
<1>. QED  BY <1>1, AccessInvariant, PTL

\* Outcomes open in the order of the study (authorize_outcome_access), for
\* ledgers of any length and any content.
THEOREM OutcomesStayInOrder == Spec => []OutcomesOpenInOrder
<1>1. AccessIndInv => OutcomesOpenInOrder
  BY SelectionComesFirst DEF AccessIndInv, ReplacementsAreBounded, OutcomesOpenInOrder
<1>. QED  BY <1>1, AccessInvariant, PTL

\* The pool a record sealed is the pool there is while the ledger answers
\* (validate_access_ledger), whatever was replaced in between.
THEOREM SealHolds == Spec => []SealedPoolStands
<1>1. AccessIndInv => SealedPoolStands
  BY SealStands DEF AccessIndInv, ReplacementsAreBounded
<1>. QED  BY <1>1, AccessInvariant, PTL

\* Replacements decided on a true copy resolve in a study that keeps their
\* evidence, and an accepted study accounts for every one and was decided on
\* true identities (decide_complete_block_replacement, Stage 14).
THEOREM ReplacementsAccounted == Spec => []ReplacementsAreAccountable
<1>1. AccessIndInv => ReplacementsAreAccountable
  BY PlansResolve, AcceptedIsAccountable
     DEF AccessIndInv, ReplacementsAreBounded, ReplacementsAreAccountable
<1>. QED  BY <1>1, AccessInvariant, PTL

\* Validation outcomes were unsealed by one person on the approval of another
\* (validate_access_ledger, unseal), unless the overlap is authorized.
THEOREM UnsealTakesTwo == Spec => []TwoPersonUnseal
<1>1. AccessIndInv => TwoPersonUnseal
  BY DEF AccessIndInv
<1>. QED  BY <1>1, AccessInvariant, PTL

-----------------------------------------------------------------------------
(* Mixed radix                                                             *)

\* Quotient and remainder of a number written with a digit below the base.
LEMMA Digits ==
    ASSUME NEW q \in Nat, NEW w \in Nat, NEW d \in Nat, d < w
    PROVE  /\ (q * w + d) \div w = q /\ ((q * w + d) % w) = d
           /\ q * w + d \in Nat
  OBVIOUS

\* A number has a quotient and a remainder.
LEMMA Division ==
    ASSUME NEW n \in Nat, NEW w \in Nat, w > 0
    PROVE  /\ n \div w \in Nat /\ (n % w) \in Nat /\ (n % w) < w
           /\ n = (n \div w) * w + (n % w)
  OBVIOUS

\* Products of natural numbers are ordered like their factors.
LEMMA ProductsInOrder ==
    ASSUME NEW a \in Nat, NEW b \in Nat, NEW w \in Nat, a < b
    PROVE  a * w + w <= b * w /\ a * w \in Nat /\ b * w \in Nat
  OBVIOUS

LEMMA BelowProduct ==
    ASSUME NEW a \in Nat, NEW b \in Nat, NEW w \in Nat, NEW d \in Nat, a < b, d < w
    PROVE  a * w + d < b * w
  BY ProductsInOrder

LEMMA QuotientBelow ==
    ASSUME NEW n \in Nat, NEW a \in Nat, NEW w \in Nat, w > 0, n < a * w
    PROVE  n \div w < a
  BY Division, ProductsInOrder

\* A number that is written with a digit below the base.
LEMMA DigitsOf ==
    ASSUME NEW n \in Nat, NEW q \in Nat, NEW w \in Nat, NEW d \in Nat, d < w, n = q * w + d
    PROVE  n \div w = q /\ (n % w) = d
  BY Digits

\* Every number below a product is written with a quotient below the one
\* factor and a digit below the other.
LEMMA Written ==
    ASSUME NEW n \in Nat, NEW a \in Nat, NEW w \in Nat, w > 0, n < a * w
    PROVE  \E q \in Nat, d \in Nat : d < w /\ n = q * w + d /\ q < a
<1>1. PICK q \in Nat, d \in Nat : q = n \div w /\ d < w /\ n = q * w + d
  BY Division
<1>2. q < a
  BY <1>1, QuotientBelow
<1>. QED  BY <1>1, <1>2

\* A number is written in one way only.
LEMMA SameDigits ==
    ASSUME NEW q \in Nat, NEW r \in Nat, NEW w \in Nat, NEW c \in Nat, NEW d \in Nat,
           c < w, d < w, q * w + c + 1 = r * w + d + 1
    PROVE  q = r /\ c = d
<1>1. q * w + c = r * w + d /\ q * w \in Nat /\ r * w \in Nat
  OBVIOUS
<1>2. (q * w + c) \div w = q /\ (r * w + d) \div w = r
  BY Digits
<1>. QED  BY <1>1, <1>2

\* Dividing twice is dividing by the product.
LEMMA Divisions ==
    ASSUME NEW n \in Nat, NEW v \in Nat, NEW w \in Nat, v > 0, w > 0
    PROVE  n \div (v * w) = (n \div v) \div w /\ v * w \in Nat /\ v * w > 0
<1>1. PICK q \in Nat, d \in Nat : n \div v = q /\ d < v /\ n = q * v + d
  BY Division
<1>2. PICK r \in Nat, c \in Nat : q \div w = r /\ c < w /\ q = r * w + c
  BY Division
<1>3. PICK e \in Nat : e = c * v + d
  OBVIOUS
<1>4. PICK u \in Nat : u = v * w
  OBVIOUS
<1>5. e < u
  <2>1. c * v + d < w * v
    BY <1>1, <1>2, BelowProduct
  <2>. QED  BY <1>3, <1>4, <2>1
<1>6. n = r * u + e
  <2>1. q * v = (r * w) * v + c * v
    BY <1>2
  <2>2. (r * w) * v = r * u
    BY <1>4
  <2>. QED  BY <1>1, <1>3, <2>1, <2>2
<1>7. n \div u = r
  BY <1>5, <1>6, Digits
<1>8. v * w > 0
  BY ProductsInOrder
<1>. QED  BY <1>1, <1>2, <1>4, <1>7, <1>8

-----------------------------------------------------------------------------
(* Factors and their places                                                *)

\* A list has places.
LEMMA ListPlaces ==
    ASSUME NEW W, NEW s \in Seq(W)
    PROVE  /\ Len(s) \in Nat /\ DOMAIN s = 1..Len(s)
           /\ s # <<>> => Len(s) > 0
           /\ \A n \in 1..Len(s) : s[n] \in W
           /\ ToSet(s) = {s[n] : n \in 1..Len(s)}
  BY DEF ToSet

\* Every factor has at least one level and names none of them twice.
LEMMA FactorLevels ==
    /\ \A factor \in {Packages, Placements, WorkingSets, Loads} :
         /\ Len(factor) \in Nat /\ Len(factor) > 0 /\ DOMAIN factor = 1..Len(factor)
         /\ ToSet(factor) = {factor[n] : n \in 1..Len(factor)}
         /\ \A m, n \in 1..Len(factor) : factor[m] = factor[n] => m = n
<1>1. SUFFICES ASSUME NEW factor \in {Packages, Placements, WorkingSets, Loads}
               PROVE  /\ Len(factor) \in Nat /\ Len(factor) > 0 /\ DOMAIN factor = 1..Len(factor)
                      /\ ToSet(factor) = {factor[n] : n \in 1..Len(factor)}
                      /\ \A m, n \in 1..Len(factor) : factor[m] = factor[n] => m = n
  OBVIOUS
<1>2. factor \in Seq(ToSet(factor)) /\ factor # <<>> /\ Distinct(factor)
  BY <1>1, StudyAssumption
<1>3. /\ Len(factor) \in Nat /\ Len(factor) > 0 /\ DOMAIN factor = 1..Len(factor)
      /\ ToSet(factor) = {factor[n] : n \in 1..Len(factor)}
  BY ONLY <1>2, ListPlaces
<1>4. \A m, n \in 1..Len(factor) : factor[m] = factor[n] => m = n
  BY ONLY <1>2, <1>3 DEF Distinct
<1>. QED  BY <1>3, <1>4

\* The place of a level is the one at which it is listed.
LEMMA PlaceOfLevel ==
    ASSUME NEW factor, NEW size \in Nat, DOMAIN factor = 1..size,
           \A m, n \in 1..size : factor[m] = factor[n] => m = n,
           NEW value \in ToSet(factor)
    PROVE  Place(factor, value) \in Nat /\ Place(factor, value) < size
           /\ factor[Place(factor, value) + 1] = value
<1>1. PICK k \in 1..size : factor[k] = value
  BY DEF ToSet
<1>2. PICK p : p = CHOOSE n \in DOMAIN factor : factor[n] = value
  OBVIOUS
<1>3. p \in 1..size /\ factor[p] = value
  BY <1>1, <1>2
<1>4. Place(factor, value) = p - 1
  BY <1>2 DEF Place
<1>. QED  BY <1>3, <1>4

\* A cell's factors have places.
LEMMA LevelPlaces ==
    ASSUME NEW placement \in ToSet(Placements), NEW workingSet \in ToSet(WorkingSets)
    PROVE  /\ Place(Placements, placement) \in Nat
           /\ Place(Placements, placement) < Len(Placements)
           /\ Placements[Place(Placements, placement) + 1] = placement
           /\ Place(WorkingSets, workingSet) \in Nat
           /\ Place(WorkingSets, workingSet) < Len(WorkingSets)
           /\ WorkingSets[Place(WorkingSets, workingSet) + 1] = workingSet
<1>1. /\ Len(Placements) \in Nat /\ DOMAIN Placements = 1..Len(Placements)
      /\ \A m, n \in 1..Len(Placements) : Placements[m] = Placements[n] => m = n
  BY FactorLevels
<1>2. /\ Len(WorkingSets) \in Nat /\ DOMAIN WorkingSets = 1..Len(WorkingSets)
      /\ \A m, n \in 1..Len(WorkingSets) : WorkingSets[m] = WorkingSets[n] => m = n
  BY FactorLevels
<1>. QED  BY <1>1, <1>2, PlaceOfLevel

LEMMA LoadPlaces ==
    ASSUME NEW load \in ToSet(Loads)
    PROVE  /\ Place(Loads, load) \in Nat /\ Place(Loads, load) < Len(Loads)
           /\ Loads[Place(Loads, load) + 1] = load
<1>1. /\ Len(Loads) \in Nat /\ DOMAIN Loads = 1..Len(Loads)
      /\ \A m, n \in 1..Len(Loads) : Loads[m] = Loads[n] => m = n
  BY FactorLevels
<1>. QED  BY <1>1, PlaceOfLevel

\* Every context has an arena of its own (arena_index).
LEMMA ArenaPlaces ==
    ASSUME NEW placement \in ToSet(Placements), NEW workingSet \in ToSet(WorkingSets)
    PROVE  /\ arena_index(placement, workingSet) \in 1..(Len(Placements) * Len(WorkingSets))
           /\ Len(Placements) * Len(WorkingSets) \in Nat
<1>1. PICK a \in Nat, c \in Nat : a = Place(Placements, placement) /\ c = Place(WorkingSets, workingSet)
                                  /\ a < Len(Placements) /\ c < Len(WorkingSets)
  BY LevelPlaces
<1>2. PICK m \in Nat, w \in Nat : m = Len(Placements) /\ w = Len(WorkingSets)
  BY FactorLevels
<1>3. arena_index(placement, workingSet) = a * w + c + 1
  BY <1>1, <1>2 DEF arena_index
<1>4. a * w + c < m * w /\ a * w \in Nat /\ m * w \in Nat
  BY <1>1, <1>2, BelowProduct, ProductsInOrder
<1>. QED  BY <1>2, <1>3, <1>4

\* Two contexts never share an arena.
LEMMA ArenasAreApart ==
    ASSUME NEW p \in ToSet(Placements), NEW w \in ToSet(WorkingSets),
           NEW p2 \in ToSet(Placements), NEW w2 \in ToSet(WorkingSets),
           arena_index(p, w) = arena_index(p2, w2)
    PROVE  p = p2 /\ w = w2
<1>1. PICK a \in Nat, c \in Nat, a2 \in Nat, c2 \in Nat :
         /\ a = Place(Placements, p) /\ c = Place(WorkingSets, w)
         /\ a2 = Place(Placements, p2) /\ c2 = Place(WorkingSets, w2)
         /\ c < Len(WorkingSets) /\ c2 < Len(WorkingSets)
  BY LevelPlaces
<1>2. PICK s \in Nat : s = Len(WorkingSets)
  BY FactorLevels
<1>3. a * s + c + 1 = a2 * s + c2 + 1
  BY <1>1, <1>2 DEF arena_index
<1>4. a = a2 /\ c = c2
  <2>1. c < s /\ c2 < s
    BY <1>1, <1>2
  <2>. QED  BY ONLY <1>3, <2>1, SameDigits
<1>5. Placements[a + 1] = p /\ Placements[a2 + 1] = p2
  BY <1>1, LevelPlaces
<1>6. WorkingSets[c + 1] = w /\ WorkingSets[c2 + 1] = w2
  BY <1>1, LevelPlaces
<1>. QED  BY <1>4, <1>5, <1>6

\* Every context and load has an arrival list of its own (arrival_index).
LEMMA ArrivalPlaces ==
    ASSUME NEW placement \in ToSet(Placements), NEW workingSet \in ToSet(WorkingSets),
           NEW load \in ToSet(Loads)
    PROVE  arrival_index(placement, workingSet, load) \in
               1..(Len(Placements) * Len(WorkingSets) * Len(Loads))
<1>1. PICK g \in Nat, d \in Nat, s \in Nat, v \in Nat :
         /\ g = arena_index(placement, workingSet) - 1 /\ d = Place(Loads, load)
         /\ s = Len(Placements) * Len(WorkingSets) /\ v = Len(Loads) /\ g < s /\ d < v
  <2>1. PICK g \in Nat, s \in Nat : g = arena_index(placement, workingSet) - 1
                                    /\ s = Len(Placements) * Len(WorkingSets) /\ g < s
    <3>1. PICK x, s \in Nat : x = arena_index(placement, workingSet)
                              /\ s = Len(Placements) * Len(WorkingSets)
      BY ArenaPlaces
    <3>2. x \in 1..s
      BY <3>1, ArenaPlaces
    <3>. QED  BY <3>1, <3>2
  <2>2. PICK d \in Nat, v \in Nat : d = Place(Loads, load) /\ v = Len(Loads) /\ d < v
    BY LoadPlaces, FactorLevels
  <2>. QED  BY <2>1, <2>2
<1>2. arrival_index(placement, workingSet, load) = g * v + d + 1
  BY <1>1 DEF arrival_index
<1>3. g * v + d < s * v /\ g * v \in Nat /\ s * v \in Nat
  BY <1>1, BelowProduct, ProductsInOrder
<1>4. arrival_index(placement, workingSet, load) \in 1..(s * v)
  BY <1>2, <1>3
<1>. QED  BY <1>1, <1>4

\* Two pairs of context and load never share an arrival list.
LEMMA ArrivalsAreApart ==
    ASSUME NEW p \in ToSet(Placements), NEW w \in ToSet(WorkingSets), NEW l \in ToSet(Loads),
           NEW p2 \in ToSet(Placements), NEW w2 \in ToSet(WorkingSets), NEW l2 \in ToSet(Loads),
           arrival_index(p, w, l) = arrival_index(p2, w2, l2)
    PROVE  p = p2 /\ w = w2 /\ l = l2
<1>1. PICK x \in Nat, x2 \in Nat : x = arena_index(p, w) /\ x2 = arena_index(p2, w2)
                                   /\ x > 0 /\ x2 > 0
  <2>1. PICK s \in Nat : s = Len(Placements) * Len(WorkingSets)
    BY ArenaPlaces
  <2>2. arena_index(p, w) \in 1..s /\ arena_index(p2, w2) \in 1..s
    BY <2>1, ArenaPlaces
  <2>. QED  BY <2>2
<1>2. PICK d \in Nat, d2 \in Nat, v \in Nat :
         d = Place(Loads, l) /\ d2 = Place(Loads, l2) /\ v = Len(Loads) /\ d < v /\ d2 < v
  BY LoadPlaces, FactorLevels
<1>3. (x - 1) * v + d + 1 = (x2 - 1) * v + d2 + 1
  BY <1>1, <1>2 DEF arrival_index
<1>4. PICK g \in Nat, g2 \in Nat : g = x - 1 /\ g2 = x2 - 1
  BY <1>1
<1>5. g = g2 /\ d = d2
  <2>1. g * v + d + 1 = g2 * v + d2 + 1
    BY <1>3, <1>4
  <2>2. d < v /\ d2 < v
    BY <1>2
  <2>. QED  BY ONLY <2>1, <2>2, SameDigits
<1>6. l = l2
  BY <1>2, <1>5, LoadPlaces
<1>. QED  BY <1>1, <1>4, <1>5, <1>6, ArenasAreApart

-----------------------------------------------------------------------------
(* Seeds                                                                   *)

\* One list after another.
LEMMA Concatenated ==
    ASSUME NEW W, NEW a \in Seq(W), NEW b \in Seq(W)
    PROVE  /\ a \o b \in Seq(W) /\ Len(a \o b) = Len(a) + Len(b)
           /\ Len(a) \in Nat /\ Len(b) \in Nat
           /\ \A n \in 1..Len(a) : (a \o b)[n] = a[n]
           /\ \A n \in 1..Len(b) : (a \o b)[Len(a) + n] = b[n]
  OBVIOUS

\* Three lists one after another.
LEMMA ThreeLists ==
    ASSUME NEW W, NEW a \in Seq(W), NEW b \in Seq(W), NEW e \in Seq(W),
           NEW all, all = (a \o b) \o e
    PROVE  /\ Len(a) \in Nat /\ Len(b) \in Nat /\ Len(e) \in Nat
           /\ DOMAIN all = 1..(Len(a) + Len(b) + Len(e))
           /\ \A n \in 1..Len(a) : all[n] = a[n]
           /\ \A n \in 1..Len(b) : all[Len(a) + n] = b[n]
           /\ \A n \in 1..Len(e) : all[Len(a) + Len(b) + n] = e[n]
<1>1. PICK ab : ab = a \o b
  OBVIOUS
<1>2. /\ ab \in Seq(W) /\ Len(ab) = Len(a) + Len(b)
      /\ Len(a) \in Nat /\ Len(b) \in Nat
      /\ \A n \in 1..Len(a) : ab[n] = a[n]
      /\ \A n \in 1..Len(b) : ab[Len(a) + n] = b[n]
  BY <1>1, Concatenated
<1>3. /\ all \in Seq(W) /\ Len(all) = Len(ab) + Len(e) /\ Len(e) \in Nat
      /\ \A n \in 1..Len(ab) : all[n] = ab[n]
      /\ \A n \in 1..Len(e) : all[Len(ab) + n] = e[n]
  BY <1>1, <1>2, Concatenated
<1>4. PICK x \in Nat, y \in Nat, z \in Nat : x = Len(a) /\ y = Len(b) /\ z = Len(e)
  BY <1>2, <1>3
<1>5. DOMAIN all = 1..(x + y + z)
  BY <1>2, <1>3, <1>4, ListPlaces
<1>6. \A n \in 1..x : all[n] = a[n]
  BY <1>2, <1>3, <1>4
<1>7. \A n \in 1..y : all[x + n] = b[n]
  BY <1>2, <1>3, <1>4
<1>8. \A n \in 1..z : all[x + y + n] = e[n]
  BY <1>2, <1>3, <1>4
<1>. QED  BY <1>4, <1>5, <1>6, <1>7, <1>8

\* The seeds of a catalog are its three lists one after the other.
LEMMA SeedPlaces ==
    ASSUME NEW catalog \in Catalogs
    PROVE  /\ Len(catalog.arrival) \in Nat /\ Len(catalog.node) \in Nat /\ Len(catalog.event) \in Nat
           /\ DOMAIN Seeds(catalog) =
                1..(Len(catalog.arrival) + Len(catalog.node) + Len(catalog.event))
           /\ \A n \in 1..Len(catalog.arrival) : Seeds(catalog)[n] = catalog.arrival[n]
           /\ \A n \in 1..Len(catalog.node) :
                Seeds(catalog)[Len(catalog.arrival) + n] = catalog.node[n]
           /\ \A n \in 1..Len(catalog.event) :
                Seeds(catalog)[Len(catalog.arrival) + Len(catalog.node) + n] = catalog.event[n]
           /\ \A n \in 1..Len(catalog.node) : catalog.node[n] # None
<1>1. PICK W, a, b, e :
         /\ a \in Seq(W) /\ b \in Seq(W) /\ e \in Seq(W)
         /\ a = catalog.arrival /\ b = catalog.node /\ e = catalog.event
         /\ \A n \in 1..Len(b) : b[n] # None
  <2>. DEFINE W == ToSet(catalog.arrival) \cup ToSet(catalog.node) \cup ToSet(catalog.event)
  <2>1. /\ catalog.arrival \in Seq(ToSet(catalog.arrival))
        /\ catalog.node \in Seq(ToSet(catalog.node)) /\ None \notin ToSet(catalog.node)
        /\ catalog.event \in Seq(ToSet(catalog.event))
    BY StudyAssumption
  <2>2. \A s, V : s \in Seq(V) /\ V \subseteq W => s \in Seq(W)
    OBVIOUS
  <2>3. \A n \in 1..Len(catalog.node) : catalog.node[n] # None
    <3>1. PICK b, V : b = catalog.node /\ b \in Seq(V) /\ None \notin V
      BY <2>1
    <3>2. \A n \in 1..Len(b) : b[n] \in V
      BY ONLY <3>1, ListPlaces
    <3>. QED  BY <3>1, <3>2
  <2>4. catalog.arrival \in Seq(W) /\ catalog.node \in Seq(W) /\ catalog.event \in Seq(W)
    BY <2>1, <2>2
  <2>. QED  BY <2>3, <2>4
<1>2. Seeds(catalog) = (a \o b) \o e
  BY <1>1 DEF Seeds
<1>3. PICK all : all = (a \o b) \o e
  OBVIOUS
<1>4. /\ Len(a) \in Nat /\ Len(b) \in Nat /\ Len(e) \in Nat
      /\ DOMAIN all = 1..(Len(a) + Len(b) + Len(e))
      /\ \A n \in 1..Len(a) : all[n] = a[n]
      /\ \A n \in 1..Len(b) : all[Len(a) + n] = b[n]
      /\ \A n \in 1..Len(e) : all[Len(a) + Len(b) + n] = e[n]
  <2>1. a \in Seq(W) /\ b \in Seq(W) /\ e \in Seq(W)
    BY <1>1
  <2>. QED  BY ONLY <1>3, <2>1, ThreeLists
<1>5. Seeds(catalog) = all
  BY <1>2, <1>3
<1>6. \A n \in 1..Len(b) : b[n] # None
  BY <1>1
<1>7. a = catalog.arrival /\ b = catalog.node /\ e = catalog.event
  BY <1>1
<1>. QED  BY ONLY <1>4, <1>5, <1>6, <1>7

\* In a catalog that is valid the seeds of one use differ, and there is one
\* for each matched domain (validate_seed_catalog).
LEMMA SeedsOfValidCatalog ==
    ASSUME NEW catalog \in Catalogs, validate_seed_catalog(catalog)
    PROVE  /\ Len(catalog.arrival) = Len(Placements) * Len(WorkingSets) * Len(Loads)
           /\ Len(catalog.node) = Len(Placements) * Len(WorkingSets)
           /\ Len(catalog.event) = Len(Placements) * Len(WorkingSets)
           /\ \A m, n \in 1..Len(catalog.arrival) :
                catalog.arrival[m] = catalog.arrival[n] => m = n
           /\ \A m, n \in 1..Len(catalog.event) :
                catalog.event[m] = catalog.event[n] => m = n
<1>1. PICK x \in Nat, y \in Nat, z \in Nat :
         x = Len(catalog.arrival) /\ y = Len(catalog.node) /\ z = Len(catalog.event)
  BY SeedPlaces
<1>2. \A m, n \in 1..(x + y + z) : Seeds(catalog)[m] = Seeds(catalog)[n] => m = n
  <2>1. DOMAIN Seeds(catalog) = 1..(x + y + z)
    BY <1>1, SeedPlaces
  <2>. QED  BY <2>1 DEF validate_seed_catalog, Distinct
<1>3. ASSUME NEW m \in 1..x, NEW n \in 1..x, catalog.arrival[m] = catalog.arrival[n]
      PROVE  m = n
  <2>1. Seeds(catalog)[m] = Seeds(catalog)[n]
    BY <1>1, <1>3, SeedPlaces
  <2>2. m \in 1..(x + y + z) /\ n \in 1..(x + y + z)
    OBVIOUS
  <2>. QED  BY <1>2, <2>1, <2>2
<1>4. ASSUME NEW m \in 1..z, NEW n \in 1..z, catalog.event[m] = catalog.event[n]
      PROVE  m = n
  <2>1. Seeds(catalog)[x + y + m] = Seeds(catalog)[x + y + n]
    BY <1>1, <1>4, SeedPlaces
  <2>2. x + y + m \in 1..(x + y + z) /\ x + y + n \in 1..(x + y + z)
    OBVIOUS
  <2>3. x + y + m = x + y + n
    BY <1>2, <2>1, <2>2
  <2>. QED  BY <2>3
<1>. QED  BY <1>1, <1>3, <1>4 DEF validate_seed_catalog

-----------------------------------------------------------------------------
(* A plan that was accepted                                                *)

\* The cells of an accepted plan have levels of the factors and the seeds of
\* their catalog.
LEMMA CellsOfValidPlan ==
    ASSUME NEW plan, NEW catalog, validate_block_plan(plan, catalog),
           NEW c \in ToSet(plan.cells)
    PROVE  /\ c.placement \in ToSet(Placements) /\ c.workingSet \in ToSet(WorkingSets)
           /\ c.load \in ToSet(Loads) /\ seed_sharing(catalog, c)
<1>1. CellKey(c) \in expected_stage_a_cells
  BY DEF validate_block_plan
<1>2. PICK p \in ToSet(Packages), h \in ToSet(Hardware), pl \in ToSet(Placements),
           w \in ToSet(WorkingSets), l \in ToSet(Loads) : CellKey(c) = <<p, h, pl, w, l>>
  BY <1>1 DEF expected_stage_a_cells
<1>3. c.placement = pl /\ c.workingSet = w /\ c.load = l
  BY <1>2 DEF CellKey
<1>. QED  BY <1>2, <1>3 DEF validate_block_plan

\* The indices a cell's seeds are taken from lie in the lists.
LEMMA IndicesOfCell ==
    ASSUME NEW catalog \in Catalogs, validate_seed_catalog(catalog), NEW c,
           c.placement \in ToSet(Placements), c.workingSet \in ToSet(WorkingSets),
           c.load \in ToSet(Loads)
    PROVE  /\ arena_index(c.placement, c.workingSet) \in 1..Len(catalog.event)
           /\ arena_index(c.placement, c.workingSet) \in 1..Len(catalog.node)
           /\ arrival_index(c.placement, c.workingSet, c.load) \in 1..Len(catalog.arrival)
  BY SeedsOfValidCatalog, ArenaPlaces, ArrivalPlaces

\* Within an accepted plan the arrivals and the arenas are shared by matched
\* cells and by no others.
LEMMA MatchedCells ==
    ASSUME NEW plan, NEW catalog \in Catalogs, validate_block_plan(plan, catalog),
           NEW c \in ToSet(plan.cells), NEW d \in ToSet(plan.cells)
    PROVE  /\ c.arrival = d.arrival <=>
                <<c.placement, c.workingSet, c.load>> = <<d.placement, d.workingSet, d.load>>
           /\ c.event = d.event <=>
                <<c.placement, c.workingSet>> = <<d.placement, d.workingSet>>
<1>1. validate_seed_catalog(catalog)
  BY DEF validate_block_plan
<1>2. /\ c.placement \in ToSet(Placements) /\ c.workingSet \in ToSet(WorkingSets)
      /\ c.load \in ToSet(Loads) /\ seed_sharing(catalog, c)
      /\ d.placement \in ToSet(Placements) /\ d.workingSet \in ToSet(WorkingSets)
      /\ d.load \in ToSet(Loads) /\ seed_sharing(catalog, d)
  BY CellsOfValidPlan
<1>3. PICK i, j, m, n :
         /\ i = arrival_index(c.placement, c.workingSet, c.load)
         /\ j = arrival_index(d.placement, d.workingSet, d.load)
         /\ m = arena_index(c.placement, c.workingSet)
         /\ n = arena_index(d.placement, d.workingSet)
  OBVIOUS
<1>4. /\ i \in 1..Len(catalog.arrival) /\ j \in 1..Len(catalog.arrival)
      /\ m \in 1..Len(catalog.event) /\ n \in 1..Len(catalog.event)
  BY <1>1, <1>2, <1>3, IndicesOfCell
<1>5. /\ c.arrival = catalog.arrival[i] /\ d.arrival = catalog.arrival[j]
      /\ c.event = catalog.event[m] /\ d.event = catalog.event[n]
  BY <1>2, <1>3 DEF seed_sharing
<1>6. c.arrival = d.arrival <=> i = j
  BY <1>1, <1>4, <1>5, SeedsOfValidCatalog
<1>7. c.event = d.event <=> m = n
  BY <1>1, <1>4, <1>5, SeedsOfValidCatalog
<1>8. i = j <=> <<c.placement, c.workingSet, c.load>> = <<d.placement, d.workingSet, d.load>>
  BY <1>2, <1>3, ArrivalsAreApart
<1>9. m = n <=> <<c.placement, c.workingSet>> = <<d.placement, d.workingSet>>
  BY <1>2, <1>3, ArenasAreApart
<1>. QED  BY <1>6, <1>7, <1>8, <1>9

\* Every seed a cell of an accepted plan runs on is a seed of the catalog.
LEMMA SeedsComeFromCatalog ==
    ASSUME NEW plan, NEW catalog \in Catalogs, validate_block_plan(plan, catalog),
           NEW c \in ToSet(plan.cells), NEW seed \in {c.arrival, c.event, c.node} \ {None}
    PROVE  \E i \in DOMAIN Seeds(catalog) : Seeds(catalog)[i] = seed
<1>1. validate_seed_catalog(catalog)
  BY DEF validate_block_plan
<1>2. /\ c.placement \in ToSet(Placements) /\ c.workingSet \in ToSet(WorkingSets)
      /\ c.load \in ToSet(Loads) /\ seed_sharing(catalog, c)
  BY CellsOfValidPlan
<1>3. PICK i, m : /\ i = arrival_index(c.placement, c.workingSet, c.load)
                  /\ m = arena_index(c.placement, c.workingSet)
  OBVIOUS
<1>4. PICK x \in Nat, y \in Nat, z \in Nat :
         x = Len(catalog.arrival) /\ y = Len(catalog.node) /\ z = Len(catalog.event)
  BY SeedPlaces
<1>5. i \in 1..x /\ m \in 1..y /\ m \in 1..z
  BY <1>1, <1>2, <1>3, <1>4, IndicesOfCell
<1>6. /\ c.arrival = catalog.arrival[i] /\ c.event = catalog.event[m]
      /\ c.node \in {None, catalog.node[m]}
  BY <1>2, <1>3 DEF seed_sharing
<1>7. DOMAIN Seeds(catalog) = 1..(x + y + z)
  BY <1>4, SeedPlaces
<1>8. CASE seed = c.arrival
  <2>1. Seeds(catalog)[i] = seed
    BY <1>4, <1>5, <1>6, <1>8, SeedPlaces
  <2>2. i \in 1..(x + y + z)
    BY <1>5
  <2>. QED  BY <1>7, <2>1, <2>2
<1>9. CASE seed = c.event
  <2>1. Seeds(catalog)[x + y + m] = seed
    BY <1>4, <1>5, <1>6, <1>9, SeedPlaces
  <2>2. x + y + m \in 1..(x + y + z)
    BY <1>5
  <2>. QED  BY <1>7, <2>1, <2>2
<1>10. CASE seed = c.node
  <2>1. Seeds(catalog)[x + m] = seed
    BY <1>4, <1>5, <1>6, <1>10, SeedPlaces
  <2>2. x + m \in 1..(x + y + z)
    BY <1>5
  <2>. QED  BY <1>7, <2>1, <2>2
<1>. QED  BY <1>8, <1>9, <1>10

-----------------------------------------------------------------------------
(* The cells of a whole plot                                               *)

\* The number of a cell from the places of its package, placement, working
\* set and load.
Numbered(a, b, c, d) ==
    ((a * Len(Placements) + b) * Len(WorkingSets) + c) * Len(Loads) + d + 1

\* A whole plot has at least one cell.
LEMMA PlotSize ==
    /\ CellsPerPlot \in Nat /\ CellsPerPlot > 0
    /\ CellsPerBlock = 2 * CellsPerPlot /\ CellsPerBlock \in Nat
<1>1. PICK m \in Nat, p \in Nat, w \in Nat, l \in Nat :
         /\ m = Len(Packages) /\ p = Len(Placements) /\ w = Len(WorkingSets) /\ l = Len(Loads)
         /\ m > 0 /\ p > 0 /\ w > 0 /\ l > 0
  BY FactorLevels
<1>2. PICK mp \in Nat : mp = m * p /\ mp > 0
  BY <1>1, Divisions
<1>3. PICK mpw \in Nat : mpw = mp * w /\ mpw > 0
  BY <1>1, <1>2, Divisions
<1>4. PICK all \in Nat : all = mpw * l /\ all > 0
  BY <1>1, <1>3, Divisions
<1>5. CellsPerPlot = all
  BY <1>1, <1>2, <1>3, <1>4 DEF CellsPerPlot
<1>. QED  BY <1>4, <1>5 DEF CellsPerBlock

\* The cell with that number has these levels.
LEMMA BaseOfNumber ==
    ASSUME NEW a \in Nat, NEW b \in Nat, NEW c \in Nat, NEW d \in Nat,
           a < Len(Packages), b < Len(Placements), c < Len(WorkingSets), d < Len(Loads)
    PROVE  /\ Numbered(a, b, c, d) \in 1..CellsPerPlot
           /\ base(Numbered(a, b, c, d)).package = Packages[a + 1]
           /\ base(Numbered(a, b, c, d)).placement = Placements[b + 1]
           /\ base(Numbered(a, b, c, d)).workingSet = WorkingSets[c + 1]
           /\ base(Numbered(a, b, c, d)).load = Loads[d + 1]
<1>1. PICK m \in Nat, p \in Nat, w \in Nat, l \in Nat :
         m = Len(Packages) /\ p = Len(Placements) /\ w = Len(WorkingSets) /\ l = Len(Loads)
  BY FactorLevels
<1>2. a < m /\ b < p /\ c < w /\ d < l
  BY <1>1
<1>3. PICK q2 \in Nat : q2 = a * p + b
  OBVIOUS
<1>4. PICK q1 \in Nat : q1 = q2 * w + c
  OBVIOUS
<1>5. PICK n \in Nat : n = q1 * l + d
  OBVIOUS
<1>6. Numbered(a, b, c, d) = n + 1
  BY <1>1, <1>3, <1>4, <1>5 DEF Numbered
<1>7. n < CellsPerPlot
  <2>1. q2 < m * p /\ m * p \in Nat
    BY <1>2, <1>3, BelowProduct
  <2>2. q1 < (m * p) * w /\ (m * p) * w \in Nat
    BY <1>2, <1>4, <2>1, BelowProduct
  <2>3. n < ((m * p) * w) * l
    BY <1>2, <1>5, <2>2, BelowProduct
  <2>. QED  BY <1>1, <2>3 DEF CellsPerPlot
<1>8. n \div l = q1 /\ (n % l) = d
  <2>1. d < l
    BY <1>2
  <2>. QED  BY ONLY <1>5, <2>1, DigitsOf
<1>9. q1 \div w = q2 /\ (q1 % w) = c
  <2>1. c < w
    BY <1>2
  <2>. QED  BY ONLY <1>4, <2>1, DigitsOf
<1>10. q2 \div p = a /\ (q2 % p) = b
  <2>1. b < p
    BY <1>2
  <2>. QED  BY ONLY <1>3, <2>1, DigitsOf
<1>11. n \div (l * w) = q2 /\ l * w \in Nat /\ l * w > 0
  BY <1>2, <1>8, <1>9, Divisions
<1>12. n \div ((l * w) * p) = a
  BY <1>2, <1>10, <1>11, Divisions
<1>13. /\ base(n + 1).package = Packages[a + 1] /\ base(n + 1).placement = Placements[b + 1]
       /\ base(n + 1).workingSet = WorkingSets[c + 1] /\ base(n + 1).load = Loads[d + 1]
  <2>1. (n + 1) - 1 = n
    OBVIOUS
  <2>2. base(n + 1) =
          [package |-> Packages[(n \div ((l * w) * p)) + 1],
           placement |-> Placements[((n \div (l * w)) % p) + 1],
           workingSet |-> WorkingSets[((n \div l) % w) + 1],
           load |-> Loads[(n % l) + 1]]
    BY <1>1, <2>1 DEF base
  <2>3. base(n + 1) =
          [package |-> Packages[a + 1], placement |-> Placements[b + 1],
           workingSet |-> WorkingSets[c + 1], load |-> Loads[d + 1]]
    BY <1>8, <1>9, <1>10, <1>11, <1>12, <2>2
  <2>. QED  BY ONLY <2>3
<1>14. n + 1 \in 1..CellsPerPlot
  BY <1>7, PlotSize
<1>. QED  BY <1>6, <1>13, <1>14

\* Every cell of a whole plot has a number of that form.
LEMMA NumberOfCell ==
    ASSUME NEW k \in 1..CellsPerPlot
    PROVE  \E a, b, c, d \in Nat :
             /\ a < Len(Packages) /\ b < Len(Placements) /\ c < Len(WorkingSets) /\ d < Len(Loads)
             /\ k = Numbered(a, b, c, d)
             /\ base(k).package = Packages[a + 1] /\ base(k).placement = Placements[b + 1]
             /\ base(k).workingSet = WorkingSets[c + 1] /\ base(k).load = Loads[d + 1]
<1>1. PICK m \in Nat, p \in Nat, w \in Nat, l \in Nat :
         /\ m = Len(Packages) /\ p = Len(Placements) /\ w = Len(WorkingSets) /\ l = Len(Loads)
         /\ p > 0 /\ w > 0 /\ l > 0
  BY FactorLevels
<1>2. PICK n \in Nat : k = n + 1 /\ n < CellsPerPlot
  BY PlotSize
<1>3. n < ((m * p) * w) * l /\ m * p \in Nat /\ (m * p) * w \in Nat
  BY <1>1, <1>2 DEF CellsPerPlot
<1>. DEFINE mp == m * p
             mpw == mp * w
<1>4. PICK q1 \in Nat, d \in Nat : d < l /\ n = q1 * l + d /\ q1 < mpw
  <2>1. n < mpw * l /\ mpw \in Nat /\ l > 0
    BY <1>1, <1>3
  <2>. HIDE DEF mpw
  <2>. QED  BY ONLY <2>1, Written
<1>5. PICK q2 \in Nat, c \in Nat : c < w /\ q1 = q2 * w + c /\ q2 < mp
  <2>1. q1 < mp * w /\ mp \in Nat /\ w > 0
    BY <1>1, <1>4
  <2>. HIDE DEF mp
  <2>. QED  BY ONLY <2>1, Written
<1>6. PICK a \in Nat, b \in Nat : b < p /\ q2 = a * p + b /\ a < m
  <2>1. q2 < m * p /\ p > 0
    BY <1>1, <1>5
  <2>. QED  BY ONLY <2>1, Written
<1>7. k = Numbered(a, b, c, d)
  BY <1>1, <1>2, <1>4, <1>5, <1>6 DEF Numbered
<1>8. a < Len(Packages) /\ b < Len(Placements) /\ c < Len(WorkingSets) /\ d < Len(Loads)
  BY <1>1, <1>4, <1>5, <1>6
<1>9. /\ base(Numbered(a, b, c, d)).package = Packages[a + 1]
      /\ base(Numbered(a, b, c, d)).placement = Placements[b + 1]
      /\ base(Numbered(a, b, c, d)).workingSet = WorkingSets[c + 1]
      /\ base(Numbered(a, b, c, d)).load = Loads[d + 1]
  BY ONLY <1>8, BaseOfNumber
<1>. QED  BY <1>7, <1>8, <1>9

\* Equal levels are at equal places.
LEMMA SameLevel ==
    ASSUME NEW factor, NEW size \in Nat, \A m, n \in 1..size : factor[m] = factor[n] => m = n,
           NEW a \in Nat, NEW b \in Nat, a < size, b < size, factor[a + 1] = factor[b + 1]
    PROVE  a = b
<1>1. a + 1 \in 1..size /\ b + 1 \in 1..size
  OBVIOUS
<1>2. a + 1 = b + 1
  BY <1>1
<1>. QED  BY <1>2

\* No two cells of a whole plot are the same.
LEMMA BaseIsOneToOne ==
    ASSUME NEW j \in 1..CellsPerPlot, NEW k \in 1..CellsPerPlot,
           base(j).package = base(k).package, base(j).placement = base(k).placement,
           base(j).workingSet = base(k).workingSet, base(j).load = base(k).load
    PROVE  j = k
<1>1. PICK a, b, c, d \in Nat :
         /\ a < Len(Packages) /\ b < Len(Placements) /\ c < Len(WorkingSets) /\ d < Len(Loads)
         /\ j = Numbered(a, b, c, d)
         /\ base(j).package = Packages[a + 1] /\ base(j).placement = Placements[b + 1]
         /\ base(j).workingSet = WorkingSets[c + 1] /\ base(j).load = Loads[d + 1]
  BY NumberOfCell
<1>2. PICK a2, b2, c2, d2 \in Nat :
         /\ a2 < Len(Packages) /\ b2 < Len(Placements) /\ c2 < Len(WorkingSets) /\ d2 < Len(Loads)
         /\ k = Numbered(a2, b2, c2, d2)
         /\ base(k).package = Packages[a2 + 1] /\ base(k).placement = Placements[b2 + 1]
         /\ base(k).workingSet = WorkingSets[c2 + 1] /\ base(k).load = Loads[d2 + 1]
  BY NumberOfCell
<1>3. /\ Packages[a + 1] = Packages[a2 + 1] /\ Placements[b + 1] = Placements[b2 + 1]
      /\ WorkingSets[c + 1] = WorkingSets[c2 + 1] /\ Loads[d + 1] = Loads[d2 + 1]
  BY <1>1, <1>2
<1>4. a = a2
  <2>1. /\ Len(Packages) \in Nat
        /\ \A m, n \in 1..Len(Packages) : Packages[m] = Packages[n] => m = n
    BY FactorLevels
  <2>. QED  BY <1>1, <1>2, <1>3, <2>1, SameLevel
<1>5. b = b2
  <2>1. /\ Len(Placements) \in Nat
        /\ \A m, n \in 1..Len(Placements) : Placements[m] = Placements[n] => m = n
    BY FactorLevels
  <2>. QED  BY <1>1, <1>2, <1>3, <2>1, SameLevel
<1>6. c = c2
  <2>1. /\ Len(WorkingSets) \in Nat
        /\ \A m, n \in 1..Len(WorkingSets) : WorkingSets[m] = WorkingSets[n] => m = n
    BY FactorLevels
  <2>. QED  BY <1>1, <1>2, <1>3, <2>1, SameLevel
<1>7. d = d2
  <2>1. /\ Len(Loads) \in Nat
        /\ \A m, n \in 1..Len(Loads) : Loads[m] = Loads[n] => m = n
    BY FactorLevels
  <2>. QED  BY <1>1, <1>2, <1>3, <2>1, SameLevel
<1>. QED  BY <1>1, <1>2, <1>4, <1>5, <1>6, <1>7

\* The cells of a whole plot have levels of the factors.
LEMMA BaseHasLevels ==
    ASSUME NEW k \in 1..CellsPerPlot
    PROVE  /\ base(k).package \in ToSet(Packages) /\ base(k).placement \in ToSet(Placements)
           /\ base(k).workingSet \in ToSet(WorkingSets) /\ base(k).load \in ToSet(Loads)
<1>1. PICK a, b, c, d \in Nat :
         /\ a < Len(Packages) /\ b < Len(Placements) /\ c < Len(WorkingSets) /\ d < Len(Loads)
         /\ k = Numbered(a, b, c, d)
         /\ base(k).package = Packages[a + 1] /\ base(k).placement = Placements[b + 1]
         /\ base(k).workingSet = WorkingSets[c + 1] /\ base(k).load = Loads[d + 1]
  BY NumberOfCell
<1>2. /\ a + 1 \in DOMAIN Packages /\ b + 1 \in DOMAIN Placements
      /\ c + 1 \in DOMAIN WorkingSets /\ d + 1 \in DOMAIN Loads
  BY <1>1, FactorLevels
<1>. QED  BY <1>1, <1>2 DEF ToSet

\* Every combination of levels is a cell of a whole plot.
LEMMA BaseIsOnto ==
    ASSUME NEW package \in ToSet(Packages), NEW placement \in ToSet(Placements),
           NEW workingSet \in ToSet(WorkingSets), NEW load \in ToSet(Loads)
    PROVE  \E k \in 1..CellsPerPlot :
             /\ base(k).package = package /\ base(k).placement = placement
             /\ base(k).workingSet = workingSet /\ base(k).load = load
<1>1. /\ \A factor \in {Packages, Placements, WorkingSets, Loads} : \A v \in ToSet(factor) :
           \E a \in Nat : a < Len(factor) /\ factor[a + 1] = v
  <2>1. SUFFICES ASSUME NEW factor \in {Packages, Placements, WorkingSets, Loads},
                        NEW v \in ToSet(factor)
                 PROVE  \E a \in Nat : a < Len(factor) /\ factor[a + 1] = v
    OBVIOUS
  <2>2. PICK n \in 1..Len(factor) : factor[n] = v
    BY FactorLevels
  <2>3. Len(factor) \in Nat
    BY FactorLevels
  <2>4. n - 1 \in Nat /\ n - 1 < Len(factor) /\ (n - 1) + 1 = n
    BY <2>3
  <2>. QED  BY <2>2, <2>4
<1>2. PICK a \in Nat : a < Len(Packages) /\ Packages[a + 1] = package
  BY <1>1
<1>3. PICK b \in Nat : b < Len(Placements) /\ Placements[b + 1] = placement
  BY <1>1
<1>4. PICK c \in Nat : c < Len(WorkingSets) /\ WorkingSets[c + 1] = workingSet
  BY <1>1
<1>5. PICK d \in Nat : d < Len(Loads) /\ Loads[d + 1] = load
  BY <1>1
<1>6. a < Len(Packages) /\ b < Len(Placements) /\ c < Len(WorkingSets) /\ d < Len(Loads)
  BY <1>2, <1>3, <1>4, <1>5
<1>7. /\ Numbered(a, b, c, d) \in 1..CellsPerPlot
      /\ base(Numbered(a, b, c, d)).package = Packages[a + 1]
      /\ base(Numbered(a, b, c, d)).placement = Placements[b + 1]
      /\ base(Numbered(a, b, c, d)).workingSet = WorkingSets[c + 1]
      /\ base(Numbered(a, b, c, d)).load = Loads[d + 1]
  BY ONLY <1>6, BaseOfNumber
<1>. QED  BY <1>2, <1>3, <1>4, <1>5, <1>7

-----------------------------------------------------------------------------
(* A generated block                                                       *)

\* Counting to a number.
LEMMA IntervalSize ==
    ASSUME NEW size \in Nat
    PROVE  IsFiniteSet(1..size) /\ Cardinality(1..size) = size
<1>1. IsFiniteSet(1..size) /\ Cardinality(1..size) = IF 1 > size THEN 0 ELSE size - 1 + 1
  BY FS_Interval
<1>2. (IF 1 > size THEN 0 ELSE size - 1 + 1) = size
  OBVIOUS
<1>. QED  BY <1>1, <1>2

\* As many values as numbers, when no two numbers have the same.
LEMMA ImageSize ==
    ASSUME NEW size \in Nat, NEW f, DOMAIN f = 1..size, f = [n \in 1..size |-> f[n]],
           \A m, n \in 1..size : f[m] = f[n] => m = n
    PROVE  /\ IsFiniteSet({f[n] : n \in 1..size})
           /\ Cardinality({f[n] : n \in 1..size}) = size
<1>. DEFINE T == {f[n] : n \in 1..size}
<1>1. f \in Bijection(1..size, T)
  BY DEF Bijection, Injection, Surjection, IsInjective
<1>2. ExistsBijection(1..size, T)
  BY <1>1 DEF ExistsBijection
<1>3. IsFiniteSet(1..size) /\ Cardinality(1..size) = size
  BY ONLY IntervalSize
<1>. HIDE DEF T
<1>4. IsFiniteSet(T) /\ Cardinality(T) = size
  BY <1>2, <1>3, FS_Bijection
<1>. QED  BY <1>4 DEF T

\* The whole plot a cell is in, and its number in that plot before permuting.
PlotOf(n) == ((n - 1) \div CellsPerPlot) + 1
OrderOf(in, n) == IF in.wholePlots[PlotOf(n)] = "h0" THEN in.h0 ELSE in.h1
NumberOf(in, n) == OrderOf(in, n)[((n - 1) % CellsPerPlot) + 1]

\* What a block is generated from.
Generates(in) ==
    /\ in.catalog \in Catalogs /\ in.h0 \in Orders /\ in.h1 \in Orders
    /\ in.wholePlots \in {Hardware, Reverse(Hardware)}

\* Each whole plot has a hardware state of its own.
LEMMA PlotStates ==
    ASSUME NEW plots \in {Hardware, Reverse(Hardware)}
    PROVE  /\ Len(plots) = 2 /\ DOMAIN plots = 1..2 /\ ToSet(plots) = ToSet(Hardware)
           /\ plots[1] # plots[2] /\ plots[1] \in {"h0", "h1"} /\ plots[2] \in {"h0", "h1"}
           /\ ToSet(Hardware) = {"h0", "h1"}
<1>1. Len(Hardware) = 2 /\ DOMAIN Hardware = 1..2 /\ Hardware[1] = "h0" /\ Hardware[2] = "h1"
  BY DEF Hardware
<1>2. PICK r : r = [i \in 1..2 |-> Hardware[(2 - i) + 1]]
  OBVIOUS
<1>3. r[1] = "h1" /\ r[2] = "h0" /\ DOMAIN r = 1..2
  BY <1>1, <1>2
<1>4. Len(r) = 2
  BY <1>2
<1>5. Reverse(Hardware) = r
  BY <1>1, <1>2 DEF Reverse
<1>6. ToSet(Hardware) = {"h0", "h1"} /\ ToSet(r) = {"h0", "h1"}
  BY <1>1, <1>3 DEF ToSet
<1>. QED  BY <1>1, <1>3, <1>4, <1>5, <1>6

\* The first half of the cells is the first whole plot.
LEMMA PlotBounds ==
    ASSUME NEW n \in 1..CellsPerBlock
    PROVE  /\ PlotOf(n) \in 1..2 /\ ((n - 1) % CellsPerPlot) + 1 \in 1..CellsPerPlot
           /\ n = (PlotOf(n) - 1) * CellsPerPlot + ((n - 1) % CellsPerPlot) + 1
           /\ \A plot \in 1..2 :
                n - 1 \in ((plot - 1) * CellsPerPlot)..(plot * CellsPerPlot - 1) <=> PlotOf(n) = plot
<1>1. PICK s \in Nat : s = CellsPerPlot /\ s > 0 /\ CellsPerBlock = 2 * s
  BY PlotSize
<1>2. PICK k \in Nat : k = n - 1 /\ k < 2 * s
  BY <1>1
<1>3. PICK q \in Nat, d \in Nat : q = k \div s /\ d = (k % s) /\ d < s /\ k = q * s + d
  BY <1>1, Division
<1>4. q < 2
  BY <1>1, <1>2, <1>3, QuotientBelow
<1>5. q \in {0, 1} /\ PlotOf(n) = q + 1
  BY <1>1, <1>2, <1>3, <1>4 DEF PlotOf
<1>6. \A plot \in 1..2 : k \in ((plot - 1) * s)..(plot * s - 1) <=> q + 1 = plot
  <2>1. CASE q = 0
    <3>1. k = d
      BY <1>3, <2>1
    <3>2. k \in ((1 - 1) * s)..(1 * s - 1) /\ k \notin ((2 - 1) * s)..(2 * s - 1)
      BY <1>3, <3>1
    <3>. QED  BY <2>1, <3>2
  <2>2. CASE q = 1
    <3>1. k = s + d
      BY <1>3, <2>2
    <3>2. k \notin ((1 - 1) * s)..(1 * s - 1) /\ k \in ((2 - 1) * s)..(2 * s - 1)
      BY <1>3, <3>1
    <3>. QED  BY <2>2, <3>2
  <2>. QED  BY <1>5, <2>1, <2>2
<1>7. n = q * s + d + 1
  BY <1>2, <1>3
<1>8. d + 1 \in 1..s
  BY <1>3
<1>. QED  BY <1>1, <1>2, <1>3, <1>5, <1>6, <1>7, <1>8

\* An order has every number of a whole plot once.
LEMMA OrderPermutes ==
    ASSUME NEW order \in Orders
    PROVE  /\ \A i \in 1..CellsPerPlot : order[i] \in 1..CellsPerPlot
           /\ \A i, j \in 1..CellsPerPlot : order[i] = order[j] => i = j
           /\ \A k \in 1..CellsPerPlot : \E i \in 1..CellsPerPlot : order[i] = k
<1>1. /\ DOMAIN order = 1..CellsPerPlot /\ Distinct(order)
      /\ ToSet(order) = 1..CellsPerPlot
  BY StudyAssumption
<1>2. {order[i] : i \in 1..CellsPerPlot} = 1..CellsPerPlot
  BY <1>1 DEF ToSet
<1>. QED  BY <1>1, <1>2 DEF Distinct

\* Within a whole plot the cells have different numbers.
LEMMA NumbersApart ==
    ASSUME NEW in, Generates(in), NEW m \in 1..CellsPerBlock, NEW n \in 1..CellsPerBlock,
           PlotOf(m) = PlotOf(n), NumberOf(in, m) = NumberOf(in, n)
    PROVE  m = n
<1>1. PICK order \in Orders : order = OrderOf(in, m) /\ order = OrderOf(in, n)
  BY DEF Generates, OrderOf
<1>2. PICK i, j : i = ((m - 1) % CellsPerPlot) + 1 /\ j = ((n - 1) % CellsPerPlot) + 1
  OBVIOUS
<1>3. i \in 1..CellsPerPlot /\ j \in 1..CellsPerPlot /\ order[i] = order[j]
  BY <1>1, <1>2, PlotBounds DEF NumberOf
<1>4. i = j
  BY <1>3, OrderPermutes
<1>5. ((m - 1) % CellsPerPlot) = ((n - 1) % CellsPerPlot)
  <2>1. PICK x \in Int, y \in Int : x = ((m - 1) % CellsPerPlot) /\ y = ((n - 1) % CellsPerPlot)
    BY PlotSize
  <2>. QED  BY <1>2, <1>4, <2>1
<1>. QED  BY <1>5, PlotBounds

\* Every number is the number of a cell in each whole plot.
LEMMA NumbersOnto ==
    ASSUME NEW in, Generates(in), NEW plot \in 1..2, NEW k \in 1..CellsPerPlot
    PROVE  \E n \in 1..CellsPerBlock : PlotOf(n) = plot /\ NumberOf(in, n) = k
<1>1. PICK order \in Orders : order = IF in.wholePlots[plot] = "h0" THEN in.h0 ELSE in.h1
  BY DEF Generates
<1>2. PICK i \in 1..CellsPerPlot : order[i] = k
  BY OrderPermutes
<1>3. PICK s \in Nat, q \in Nat, d \in Nat : s = CellsPerPlot /\ q = plot - 1 /\ d = i - 1 /\ d < s
                                           /\ CellsPerBlock = 2 * s
  BY PlotSize
<1>4. PICK n \in Nat : n = q * s + d
  OBVIOUS
<1>5. n \div s = q /\ (n % s) = d
  <2>1. d < s
    BY <1>3
  <2>. QED  BY ONLY <1>4, <2>1, DigitsOf
<1>6. n + 1 \in 1..CellsPerBlock
  <2>1. q \in {0, 1}
    BY <1>3
  <2>2. q * s \in {0, s}
    BY <2>1
  <2>. QED  BY <1>3, <1>4, <2>2
<1>7. (n + 1) - 1 = n
  OBVIOUS
<1>8. PlotOf(n + 1) = plot
  BY <1>3, <1>5, <1>7 DEF PlotOf
<1>9. NumberOf(in, n + 1) = k
  <2>1. ((((n + 1) - 1) % CellsPerPlot) + 1) = i
    BY <1>3, <1>5, <1>7
  <2>2. OrderOf(in, n + 1) = order
    BY <1>1, <1>8 DEF OrderOf
  <2>. QED  BY <1>2, <2>1, <2>2 DEF NumberOf
<1>. QED  BY <1>6, <1>8, <1>9

\* A generated cell has the levels of its number, the state of its whole plot
\* and the seeds of its context and load.
LEMMA GeneratedCell ==
    ASSUME NEW in, Generates(in), NEW cells, cells = generated_cells(in),
           NEW n \in 1..CellsPerBlock
    PROVE  /\ NumberOf(in, n) \in 1..CellsPerPlot
           /\ cells[n].ordinal = n - 1 /\ cells[n].hardware = in.wholePlots[PlotOf(n)]
           /\ cells[n].package = base(NumberOf(in, n)).package
           /\ cells[n].placement = base(NumberOf(in, n)).placement
           /\ cells[n].workingSet = base(NumberOf(in, n)).workingSet
           /\ cells[n].load = base(NumberOf(in, n)).load
           /\ seed_sharing(in.catalog, cells[n])
<1>1. PICK k : k = NumberOf(in, n)
  OBVIOUS
<1>2. k \in 1..CellsPerPlot
  <2>1. OrderOf(in, n) \in Orders
    BY DEF Generates, OrderOf
  <2>2. ((n - 1) % CellsPerPlot) + 1 \in 1..CellsPerPlot
    BY PlotBounds
  <2>. QED  BY <1>1, <2>1, <2>2, OrderPermutes DEF NumberOf
<1>3. PICK key : key = base(k)
  OBVIOUS
<1>4. PICK h : h = in.wholePlots[PlotOf(n)]
  OBVIOUS
<1>5. cells[n] = generated_cell(in.catalog, n - 1, h, key)
  BY <1>1, <1>3, <1>4 DEF generated_cells, NumberOf, OrderOf, PlotOf
<1>6. PICK c, ordinal : c = cells[n] /\ ordinal = n - 1
  OBVIOUS
<1>7. c = generated_cell(in.catalog, ordinal, h, key)
  BY <1>5, <1>6
<1>8. /\ c.ordinal = ordinal /\ c.hardware = h /\ c.package = key.package
      /\ c.placement = key.placement /\ c.workingSet = key.workingSet /\ c.load = key.load
  BY ONLY <1>7 DEF generated_cell
<1>9. /\ c.arrival = in.catalog.arrival[arrival_index(key.placement, key.workingSet, key.load)]
      /\ c.event = in.catalog.event[arena_index(key.placement, key.workingSet)]
      /\ c.node = IF linked(key.package)
                  THEN in.catalog.node[arena_index(key.placement, key.workingSet)] ELSE None
  BY ONLY <1>7 DEF generated_cell
<1>10. seed_sharing(in.catalog, c)
  BY <1>8, <1>9 DEF seed_sharing
<1>. QED  BY <1>1, <1>2, <1>3, <1>4, <1>6, <1>8, <1>10

\* The cells of a generated block are listed in full.
LEMMA GeneratedList ==
    ASSUME NEW in, NEW cells, cells = generated_cells(in)
    PROVE  /\ Len(cells) = CellsPerBlock /\ DOMAIN cells = 1..CellsPerBlock
           /\ ToSet(cells) = {cells[n] : n \in 1..CellsPerBlock}
<1>1. DOMAIN cells = 1..CellsPerBlock
  BY DEF generated_cells
<1>2. PICK s \in Nat : s = CellsPerBlock
  BY PlotSize
<1>3. Len(cells) = s
  BY <1>2 DEF generated_cells
<1>. QED  BY <1>1, <1>2, <1>3 DEF ToSet

\* Every combination of levels is a cell of the block, and the block has no
\* cell twice.
LEMMA GeneratedKeys ==
    ASSUME NEW in, Generates(in), NEW cells, cells = generated_cells(in)
    PROVE  /\ {CellKey(c) : c \in ToSet(cells)} = expected_stage_a_cells
           /\ IsFiniteSet(expected_stage_a_cells)
           /\ Cardinality(expected_stage_a_cells) = CellsPerBlock
<1>. DEFINE f == [n \in 1..CellsPerBlock |-> CellKey(cells[n])]
<1>1. PICK size \in Nat : size = CellsPerBlock
  BY PlotSize
<1>2. \A n \in 1..size : f[n] = CellKey(cells[n])
  BY <1>1
<1>3. {CellKey(c) : c \in ToSet(cells)} = {f[n] : n \in 1..size}
  BY <1>1, <1>2, GeneratedList
<1>4. DOMAIN f = 1..size /\ f = [n \in 1..size |-> f[n]]
  BY <1>1
<1>. HIDE DEF f
<1>5. ASSUME NEW m \in 1..size, NEW n \in 1..size, f[m] = f[n]
      PROVE  m = n
  <2>1. m \in 1..CellsPerBlock /\ n \in 1..CellsPerBlock
    BY <1>1
  <2>2. PICK c, d : c = cells[m] /\ d = cells[n]
    OBVIOUS
  <2>3. CellKey(c) = CellKey(d)
    BY <1>2, <1>5, <2>2
  <2>4. /\ c.package = d.package /\ c.hardware = d.hardware /\ c.placement = d.placement
        /\ c.workingSet = d.workingSet /\ c.load = d.load
    BY <2>3 DEF CellKey
  <2>5. PlotOf(m) = PlotOf(n)
    <3>1. in.wholePlots[PlotOf(m)] = in.wholePlots[PlotOf(n)]
      BY <2>1, <2>2, <2>4, GeneratedCell
    <3>2. PlotOf(m) \in 1..2 /\ PlotOf(n) \in 1..2
      BY <2>1, PlotBounds
    <3>3. in.wholePlots[1] # in.wholePlots[2]
      BY PlotStates DEF Generates
    <3>. QED  BY <3>1, <3>2, <3>3
  <2>6. NumberOf(in, m) = NumberOf(in, n)
    <3>1. PICK j, k : j = NumberOf(in, m) /\ k = NumberOf(in, n)
      OBVIOUS
    <3>2. /\ j \in 1..CellsPerPlot /\ k \in 1..CellsPerPlot
          /\ base(j).package = base(k).package /\ base(j).placement = base(k).placement
          /\ base(j).workingSet = base(k).workingSet /\ base(j).load = base(k).load
      BY <2>1, <2>2, <2>4, <3>1, GeneratedCell
    <3>. QED  BY ONLY <3>1, <3>2, BaseIsOneToOne
  <2>. QED  BY <2>1, <2>5, <2>6, NumbersApart
<1>6. /\ IsFiniteSet({f[n] : n \in 1..size}) /\ Cardinality({f[n] : n \in 1..size}) = size
  BY <1>4, <1>5, ImageSize
<1>7. \A n \in 1..size : f[n] \in expected_stage_a_cells
  <2>1. SUFFICES ASSUME NEW n \in 1..size PROVE f[n] \in expected_stage_a_cells
    OBVIOUS
  <2>2. n \in 1..CellsPerBlock
    BY <1>1
  <2>3. PICK k, c : k = NumberOf(in, n) /\ c = cells[n]
    OBVIOUS
  <2>4. /\ k \in 1..CellsPerPlot /\ c.hardware = in.wholePlots[PlotOf(n)]
        /\ c.package = base(k).package /\ c.placement = base(k).placement
        /\ c.workingSet = base(k).workingSet /\ c.load = base(k).load
    BY <2>2, <2>3, GeneratedCell
  <2>5. /\ c.package \in ToSet(Packages) /\ c.placement \in ToSet(Placements)
        /\ c.workingSet \in ToSet(WorkingSets) /\ c.load \in ToSet(Loads)
    BY <2>4, BaseHasLevels
  <2>6. c.hardware \in ToSet(Hardware)
    <3>1. PlotOf(n) \in 1..2
      BY <2>2, PlotBounds
    <3>2. /\ in.wholePlots[1] \in ToSet(Hardware) /\ in.wholePlots[2] \in ToSet(Hardware)
      BY PlotStates DEF Generates
    <3>. QED  BY <2>4, <3>1, <3>2
  <2>7. f[n] = <<c.package, c.hardware, c.placement, c.workingSet, c.load>>
    BY <1>2, <2>3 DEF CellKey
  <2>. QED  BY <2>5, <2>6, <2>7 DEF expected_stage_a_cells
<1>8. \A x \in expected_stage_a_cells : \E n \in 1..size : f[n] = x
  <2>1. SUFFICES ASSUME NEW x \in expected_stage_a_cells PROVE \E n \in 1..size : f[n] = x
    OBVIOUS
  <2>2. PICK p \in ToSet(Packages), h \in ToSet(Hardware), pl \in ToSet(Placements),
             w \in ToSet(WorkingSets), l \in ToSet(Loads) : x = <<p, h, pl, w, l>>
    BY DEF expected_stage_a_cells
  <2>3. PICK k \in 1..CellsPerPlot :
          base(k).package = p /\ base(k).placement = pl /\ base(k).workingSet = w /\ base(k).load = l
    BY BaseIsOnto
  <2>4. PICK plot \in 1..2 : in.wholePlots[plot] = h
    <3>1. ToSet(in.wholePlots) = ToSet(Hardware) /\ DOMAIN in.wholePlots = 1..2
      BY PlotStates DEF Generates
    <3>. QED  BY <3>1 DEF ToSet
  <2>5. PICK n \in 1..CellsPerBlock : PlotOf(n) = plot /\ NumberOf(in, n) = k
    BY NumbersOnto
  <2>6. PICK c : c = cells[n]
    OBVIOUS
  <2>7. c.package = p /\ c.hardware = h /\ c.placement = pl /\ c.workingSet = w /\ c.load = l
    BY <2>3, <2>4, <2>5, <2>6, GeneratedCell
  <2>8. f[n] = x
    BY <1>1, <1>2, <2>2, <2>6, <2>7 DEF CellKey
  <2>. QED  BY <1>1, <2>8
<1>9. {f[n] : n \in 1..size} = expected_stage_a_cells
  BY <1>7, <1>8
<1>. QED  BY <1>1, <1>3, <1>6, <1>9

\* Each whole plot has its own hardware state and every cell once.
LEMMA GeneratedPlots ==
    ASSUME NEW in, Generates(in), NEW plan, plan.cells = generated_cells(in),
           plan.wholePlots = in.wholePlots
    PROVE  whole_plots_hold(plan)
<1>. DEFINE half(plot) == {c \in ToSet(plan.cells) :
                             c.ordinal \in ((plot - 1) * CellsPerPlot)..(plot * CellsPerPlot - 1)}
            f == [k \in 1..CellsPerPlot |->
                    <<base(k).package, base(k).placement, base(k).workingSet, base(k).load>>]
<1>1. PICK cells : cells = plan.cells /\ cells = generated_cells(in)
  OBVIOUS
<1>2. PICK size \in Nat : size = CellsPerPlot
  BY PlotSize
<1>3. Cardinality({f[k] : k \in 1..size}) = size
  <2>1. DOMAIN f = 1..size /\ f = [k \in 1..size |-> f[k]]
    BY <1>2
  <2>2. \A j, k \in 1..size : f[j] = f[k] => j = k
    <3>1. SUFFICES ASSUME NEW j \in 1..size, NEW k \in 1..size, f[j] = f[k] PROVE j = k
      OBVIOUS
    <3>2. <<base(j).package, base(j).placement, base(j).workingSet, base(j).load>> =
          <<base(k).package, base(k).placement, base(k).workingSet, base(k).load>>
      BY <1>2, <3>1
    <3>3. j \in 1..CellsPerPlot /\ k \in 1..CellsPerPlot
      BY <1>2
    <3>. QED  BY ONLY <3>2, <3>3, BaseIsOneToOne
  <2>. HIDE DEF f
  <2>3. IsFiniteSet({f[k] : k \in 1..size}) /\ Cardinality({f[k] : k \in 1..size}) = size
    BY <2>1, <2>2, ImageSize
  <2>. QED  BY <2>3
<1>4. ASSUME NEW plot \in 1..2
      PROVE  /\ \A c \in half(plot) : c.hardware = plan.wholePlots[plot]
             /\ Cardinality({WithinPlotKey(c) : c \in half(plot)}) = CellsPerPlot
  <2>1. half(plot) = {cells[n] : n \in {m \in 1..CellsPerBlock : PlotOf(m) = plot}}
    <3>1. \A n \in 1..CellsPerBlock :
            cells[n].ordinal \in ((plot - 1) * CellsPerPlot)..(plot * CellsPerPlot - 1)
              <=> PlotOf(n) = plot
      <4>1. SUFFICES ASSUME NEW n \in 1..CellsPerBlock
                     PROVE  cells[n].ordinal \in ((plot - 1) * CellsPerPlot)..(plot * CellsPerPlot - 1)
                              <=> PlotOf(n) = plot
        OBVIOUS
      <4>2. cells[n].ordinal = n - 1
        BY <1>1, GeneratedCell
      <4>. QED  BY <4>2, PlotBounds
    <3>2. ToSet(cells) = {cells[n] : n \in 1..CellsPerBlock}
      BY <1>1, GeneratedList
    <3>. QED  BY <1>1, <3>1, <3>2
  <2>2. \A c \in half(plot) : c.hardware = plan.wholePlots[plot]
    <3>1. SUFFICES ASSUME NEW n \in 1..CellsPerBlock, PlotOf(n) = plot
                   PROVE  cells[n].hardware = plan.wholePlots[plot]
      BY <2>1
    <3>. QED  BY <1>1, <3>1, GeneratedCell
  <2>3. {WithinPlotKey(c) : c \in half(plot)} = {f[k] : k \in 1..size}
    <3>1. \A n \in 1..CellsPerBlock :
            NumberOf(in, n) \in 1..size /\ WithinPlotKey(cells[n]) = f[NumberOf(in, n)]
      <4>1. SUFFICES ASSUME NEW n \in 1..CellsPerBlock
                     PROVE  NumberOf(in, n) \in 1..size /\ WithinPlotKey(cells[n]) = f[NumberOf(in, n)]
        OBVIOUS
      <4>2. PICK k, c : k = NumberOf(in, n) /\ c = cells[n]
        OBVIOUS
      <4>3. /\ k \in 1..size /\ c.package = base(k).package /\ c.placement = base(k).placement
            /\ c.workingSet = base(k).workingSet /\ c.load = base(k).load
        BY <1>1, <1>2, <4>2, GeneratedCell
      <4>4. f[k] = <<base(k).package, base(k).placement, base(k).workingSet, base(k).load>>
        BY <1>2, <4>3
      <4>. QED  BY <4>2, <4>3, <4>4 DEF WithinPlotKey
    <3>2. \A k \in 1..size : \E n \in 1..CellsPerBlock : PlotOf(n) = plot /\ NumberOf(in, n) = k
      BY <1>2, NumbersOnto
    <3>. HIDE DEF f, half
    <3>3. {WithinPlotKey(c) : c \in half(plot)} \subseteq {f[k] : k \in 1..size}
      BY <2>1, <3>1
    <3>4. {f[k] : k \in 1..size} \subseteq {WithinPlotKey(c) : c \in half(plot)}
      BY <2>1, <3>1, <3>2
    <3>. QED  BY <3>3, <3>4
  <2>. QED  BY <1>2, <1>3, <2>2, <2>3
<1>. QED  BY <1>4 DEF whole_plots_hold

\* Exactly the cells of linked packages have a node seed.
LEMMA GeneratedNodes ==
    ASSUME NEW in, Generates(in), validate_seed_catalog(in.catalog),
           NEW cells, cells = generated_cells(in), NEW n \in 1..CellsPerBlock
    PROVE  linked(cells[n].package) <=> cells[n].node # None
<1>1. PICK c, k, catalog : c = cells[n] /\ k = NumberOf(in, n) /\ catalog = in.catalog
  OBVIOUS
<1>2. catalog \in Catalogs /\ validate_seed_catalog(catalog)
  BY <1>1 DEF Generates
<1>3. /\ k \in 1..CellsPerPlot /\ c.placement = base(k).placement
      /\ c.workingSet = base(k).workingSet /\ c.load = base(k).load /\ seed_sharing(catalog, c)
  BY <1>1, GeneratedCell
<1>4. /\ c.placement \in ToSet(Placements) /\ c.workingSet \in ToSet(WorkingSets)
      /\ c.load \in ToSet(Loads)
  BY <1>3, BaseHasLevels
<1>5. arena_index(c.placement, c.workingSet) \in 1..Len(catalog.node)
  BY <1>2, <1>4, IndicesOfCell
<1>6. catalog.node[arena_index(c.placement, c.workingSet)] # None
  BY <1>2, <1>5, SeedPlaces
<1>. QED  BY <1>1, <1>3, <1>6 DEF seed_sharing

\* What is generated from a valid catalog is valid.
LEMMA GeneratedIsValid ==
    ASSUME NEW in, Generates(in), validate_seed_catalog(in.catalog), in.role = in.catalog.role
    PROVE  validate_block_plan(BuiltPlan(in), in.catalog)
<1>1. PICK plan : plan = BuiltPlan(in)
  OBVIOUS
<1>2. /\ plan.id = make_block_id(in.role, in.ordinal) /\ plan.role = in.role
      /\ plan.ordinal = in.ordinal /\ plan.subspace = in.catalog.subspace
      /\ plan.wholePlots = in.wholePlots /\ plan.cells = generated_cells(in)
  BY <1>1 DEF BuiltPlan
<1>3. plan.hash = PlanHash(plan)
  BY <1>1 DEF BuiltPlan, PlanHash
<1>4. PICK cells : cells = plan.cells /\ cells = generated_cells(in)
  BY <1>2
<1>5. /\ Len(cells) = CellsPerBlock /\ ToSet(cells) = {cells[n] : n \in 1..CellsPerBlock}
  BY <1>4, GeneratedList
<1>6. {CellKey(c) : c \in ToSet(cells)} = expected_stage_a_cells
      /\ Cardinality(expected_stage_a_cells) = CellsPerBlock
  BY <1>4, GeneratedKeys
<1>7. {c.ordinal : c \in ToSet(cells)} = 0..(CellsPerBlock - 1)
  <2>1. PICK size \in Nat : size = CellsPerBlock
    BY PlotSize
  <2>2. \A n \in 1..size : cells[n].ordinal = n - 1
    BY <1>4, <2>1, GeneratedCell
  <2>3. \A k \in 0..(size - 1) : k + 1 \in 1..size /\ (k + 1) - 1 = k
    OBVIOUS
  <2>4. \A n \in 1..size : n - 1 \in 0..(size - 1)
    OBVIOUS
  <2>5. {c.ordinal : c \in ToSet(cells)} = {n - 1 : n \in 1..size}
    <3>1. \A c \in ToSet(cells) : \E n \in 1..size : c.ordinal = n - 1
      BY <1>5, <2>1, <2>2
    <3>2. \A n \in 1..size : cells[n] \in ToSet(cells)
      BY <1>5, <2>1
    <3>. QED  BY <2>2, <3>1, <3>2
  <2>6. {n - 1 : n \in 1..size} = 0..(size - 1)
    BY <2>3, <2>4
  <2>. QED  BY <2>1, <2>5, <2>6
<1>8. \A c \in ToSet(cells) : seed_sharing(in.catalog, c) /\ (linked(c.package) <=> c.node # None)
  <2>1. \A n \in 1..CellsPerBlock : /\ seed_sharing(in.catalog, cells[n])
                                    /\ (linked(cells[n].package) <=> cells[n].node # None)
    BY <1>4, GeneratedCell, GeneratedNodes
  <2>. QED  BY <1>5, <2>1
<1>9. ToSet(plan.wholePlots) = ToSet(Hardware) /\ Len(plan.wholePlots) = 2
  BY <1>2, PlotStates DEF Generates
<1>10. whole_plots_hold(plan)
  BY <1>2, GeneratedPlots
<1>11. validate_block(plan)
  BY <1>4, <1>5, <1>6, <1>7, <1>8, <1>9 DEF validate_block
<1>12. validate_block_plan(plan, in.catalog)
  BY <1>2, <1>3, <1>4, <1>6, <1>8, <1>10, <1>11 DEF validate_block_plan
<1>. QED  BY <1>1, <1>12

-----------------------------------------------------------------------------
(* The invariant of a study                                                *)

\* The blocks of each role that the frozen counts ask for.
RoleBlocks(c) ==
    [h3_train |-> c.rtrain, h3_validation |-> c.rval,
     h1h2_supplemental |-> supplemental_blocks(c)]

\* What was frozen passed the checks and has the blocks that follow from it.
FrozenSoundly ==
    precision # None =>
      \/ precision.state = "not_evaluated" /\ precision.roles = None
      \/ /\ precision.state \in {"infeasible", "resolved"}
         /\ precision.counts \in FrozenCounts /\ precision_counts(precision.counts)
         /\ precision.roles = RoleBlocks(precision.counts)

PlanFields == {"id", "role", "ordinal", "subspace", "wholePlots", "cells", "hash"}

\* A plan in the pool keeps its fields, its role, its place and its catalog,
\* whatever is edited.
EntryHolds(entry) ==
    /\ DOMAIN entry = {"plan", "catalog"} /\ DOMAIN entry.plan = PlanFields
    /\ entry.catalog \in Catalogs
    /\ entry.plan.role \in Roles /\ entry.plan.ordinal \in 0..WordMax

EntriesHold ==
    /\ \E S : pool \in Seq(S)
    /\ Len(pool) <= MaxBlocks
    /\ \A n \in 1..Len(pool) : EntryHolds(pool[n])

\* The invariant that carries the others.
StudyInv ==
    /\ registry \in Registries
    /\ FrozenSoundly
    /\ EntriesHold
    /\ edited \in BOOLEAN
    /\ contradicted = FALSE

\* The role counts add up to the frozen total, in words.
LEMMA RolesAddUp ==
    ASSUME NEW c \in FrozenCounts, precision_counts(c)
    PROVE  /\ c.rtrain \in 0..WordMax /\ c.rval \in 0..WordMax
           /\ supplemental_blocks(c) \in 0..WordMax
           /\ c.rtrain + c.rval + supplemental_blocks(c) = c.rtotal
           /\ c.rtotal >= c.r_h1 /\ c.rtotal >= c.r_h2 /\ c.rtotal \in Nat
           /\ c.nruns = c.rtotal * CellsPerBlock
<1>1. PICK w \in Nat : w = WordMax
  BY StudyAssumption
<1>2. PICK h1 \in 0..w, h2 \in 0..w, r12 \in 0..w, train \in 0..w, val \in 0..w, total \in 0..w :
         /\ h1 = c.r_h1 /\ h2 = c.r_h2 /\ r12 = c.r12 /\ train = c.rtrain /\ val = c.rval
         /\ total = c.rtotal
  BY <1>1 DEF FrozenCounts
<1>3. r12 = Greater(h1, h2) /\ total = Greater(r12, train + val)
  BY <1>2 DEF precision_counts
<1>4. supplemental_blocks(c) = IF r12 > train + val THEN r12 - (train + val) ELSE 0
  BY <1>2 DEF supplemental_blocks
<1>5. r12 >= h1 /\ r12 >= h2 /\ total >= r12
  BY <1>3 DEF Greater
<1>6. /\ supplemental_blocks(c) \in 0..w
      /\ train + val + supplemental_blocks(c) = total
  <2>1. CASE r12 > train + val
    BY <1>3, <1>4, <2>1 DEF Greater
  <2>2. CASE ~(r12 > train + val)
    <3>1. supplemental_blocks(c) = 0
      BY <1>4, <2>2
    <3>2. total = train + val
      BY <1>3, <2>2 DEF Greater
    <3>. QED  BY <3>1, <3>2
  <2>. QED  BY <2>1, <2>2
<1>7. total >= h1 /\ total >= h2 /\ total \in Nat
  BY <1>5
<1>. QED  BY <1>1, <1>2, <1>6, <1>7 DEF precision_counts

LEMMA RolesAreWords ==
    ASSUME NEW c \in FrozenCounts, precision_counts(c)
    PROVE  RoleBlocks(c) \in [Roles -> 0..WordMax]
<1>1. /\ c.rtrain \in 0..WordMax /\ c.rval \in 0..WordMax
      /\ supplemental_blocks(c) \in 0..WordMax
  BY RolesAddUp
<1>. QED  BY <1>1 DEF RoleBlocks, Roles

LEMMA StudyInitially == StudyInit => StudyInv
<1> SUFFICES ASSUME StudyInit PROVE StudyInv
  OBVIOUS
<1>1. pool = <<>> /\ pool \in Seq({}) /\ Len(pool) = 0
  BY DEF StudyInit
<1>2. EntriesHold
  BY <1>1, StudyAssumption DEF EntriesHold
<1>. QED  BY <1>2 DEF StudyInit, StudyInv, FrozenSoundly

\* Only what passes the checks is frozen.
LEMMA FreezeKeeps == StudyInv /\ FreezePrecision => StudyInv'
<1> SUFFICES ASSUME StudyInv, FreezePrecision PROVE StudyInv'
  OBVIOUS
<1>1. PICK in \in PrecisionInputs : precision' = evaluate_precision_plan(in)
  BY DEF FreezePrecision
<1>2. UNCHANGED <<registry, pool, edited, contradicted>> /\ precision' # None
  BY DEF FreezePrecision
<1>3. FrozenSoundly'
  <2>1. CASE in.counts = None \/ in.evidence = None
    <3>1. precision' = [state |-> "not_evaluated", counts |-> None, roles |-> None]
      BY <1>1, <2>1 DEF evaluate_precision_plan
    <3>2. precision'.state = "not_evaluated" /\ precision'.roles = None
      BY <3>1
    <3>. QED  BY <3>2 DEF FrozenSoundly
  <2>2. CASE ~(in.counts = None \/ in.evidence = None)
    <3>1. precision_evidence(in.evidence) /\ precision_counts(in.counts)
      BY <1>1, <1>2, <2>2 DEF evaluate_precision_plan
    <3>2. PICK c \in FrozenCounts : c = in.counts
      BY <2>2, StudyAssumption
    <3>3. PICK s \in {"infeasible", "resolved"} :
            precision' = [state |-> s, counts |-> c, roles |-> RoleBlocks(c)]
      BY <1>1, <2>2, <3>1, <3>2 DEF evaluate_precision_plan, RoleBlocks
    <3>4. precision'.state = s /\ precision'.counts = c /\ precision'.roles = RoleBlocks(c)
      BY <3>3
    <3>. QED  BY <3>1, <3>2, <3>4 DEF FrozenSoundly
  <2>. QED  BY <2>1, <2>2
<1>. QED  BY <1>2, <1>3 DEF StudyInv, EntriesHold

\* A plan that is generated is never refused, and it is kept.
LEMMA GenerateKeeps == StudyInv /\ GeneratePlan => StudyInv'
<1> SUFFICES ASSUME StudyInv, GeneratePlan PROVE StudyInv'
  OBVIOUS
<1>1. PICK role \in Roles, ordinal \in Ordinals \cap (Len(pool) - 1)..Len(pool),
           catalog \in Catalogs, h0 \in Orders, h1 \in Orders,
           wholePlots \in {Hardware, Reverse(Hardware)} :
         generate_block_plan([role |-> role, ordinal |-> ordinal, catalog |-> catalog,
                              h0 |-> h0, h1 |-> h1, wholePlots |-> wholePlots])
  BY DEF GeneratePlan
<1>2. PICK in : in = [role |-> role, ordinal |-> ordinal, catalog |-> catalog,
                      h0 |-> h0, h1 |-> h1, wholePlots |-> wholePlots]
  OBVIOUS
<1>3. /\ in.role = role /\ in.ordinal = ordinal /\ in.catalog = catalog
      /\ in.h0 = h0 /\ in.h1 = h1 /\ in.wholePlots = wholePlots
  BY <1>2
<1>4. Generates(in)
  BY <1>3 DEF Generates
<1>5. generate_block_plan(in)
  BY <1>1, <1>2
<1>6. validate_seed_catalog(in.catalog) /\ in.role = in.catalog.role
  BY <1>5 DEF generate_block_plan
<1>7. validate_block_plan(BuiltPlan(in), in.catalog)
  BY <1>4, <1>6, GeneratedIsValid
<1>8. PICK plan, entry : plan = BuiltPlan(in) /\ entry = [plan |-> plan, catalog |-> catalog]
  OBVIOUS
<1>9. pool' = Append(pool, entry) /\ UNCHANGED <<registry, precision, edited, contradicted>>
  BY <1>3, <1>5, <1>7, <1>8 DEF generate_block_plan
<1>10. EntryHolds(entry)
  <2>1. DOMAIN plan = PlanFields /\ plan.role = role /\ plan.ordinal = ordinal
    BY <1>3, <1>8 DEF BuiltPlan, PlanFields
  <2>2. DOMAIN entry = {"plan", "catalog"} /\ entry.plan = plan /\ entry.catalog = catalog
    BY <1>8
  <2>3. ordinal \in 0..WordMax
    BY StudyAssumption
  <2>. QED  BY <2>1, <2>2, <2>3 DEF EntryHolds
<1>11. EntriesHold'
  <2>1. PICK S : pool \in Seq(S)
    BY DEF StudyInv, EntriesHold
  <2>2. PICK T : T = S \cup {entry}
    OBVIOUS
  <2>3. pool \in Seq(T) /\ entry \in T
    BY <2>1, <2>2
  <2>4. /\ Append(pool, entry) \in Seq(T) /\ Len(Append(pool, entry)) = Len(pool) + 1
        /\ \A n \in 1..Len(pool) : Append(pool, entry)[n] = pool[n]
        /\ Append(pool, entry)[Len(pool) + 1] = entry
        /\ Len(pool) \in Nat
    BY <2>3
  <2>5. Len(pool) < MaxBlocks /\ MaxBlocks \in Nat
    BY StudyAssumption DEF GeneratePlan
  <2>6. \A n \in 1..Len(pool) : EntryHolds(pool[n])
    BY DEF StudyInv, EntriesHold
  <2>7. Len(pool') <= MaxBlocks
    BY <1>9, <2>4, <2>5
  <2>8. \A n \in 1..Len(pool') : EntryHolds(pool'[n])
    BY <1>9, <1>10, <2>4, <2>6
  <2>9. \E V : pool' \in Seq(V)
    BY <1>9, <2>4
  <2>. QED  BY <2>7, <2>8, <2>9 DEF EntriesHold, EntryHolds
<1>. QED  BY <1>9, <1>11 DEF StudyInv, FrozenSoundly

\* An edit keeps the role, the place and the catalog of the plan.
LEMMA EditKeeps == StudyInv /\ EditPlan => StudyInv'
<1> SUFFICES ASSUME StudyInv, EditPlan PROVE StudyInv'
  OBVIOUS
<1>1. PICK entry, old : entry = pool[1] /\ old = entry.plan
  OBVIOUS
<1>2. PICK plan \in EditedPlans(pool[1].plan) :
         /\ plan # pool[1].plan
         /\ pool' = [pool EXCEPT ![1].plan = [plan EXCEPT !.hash = PlanHash(plan)]]
  BY DEF EditPlan
<1>3. UNCHANGED <<registry, precision, contradicted>> /\ edited' = TRUE
  BY DEF EditPlan
<1>4. \/ \E x : plan = [old EXCEPT !.wholePlots = x]
      \/ \E x : plan = [old EXCEPT !.cells = x]
  BY <1>1, <1>2 DEF EditedPlans
<1>5. PICK S : pool \in Seq(S)
  BY DEF StudyInv, EntriesHold
<1>6. Len(pool) \in Nat /\ 1 \in 1..Len(pool) /\ DOMAIN pool = 1..Len(pool)
  BY <1>5 DEF EditPlan
<1>7. EntryHolds(entry)
  BY <1>1, <1>6 DEF StudyInv, EntriesHold
<1>8. DOMAIN plan = PlanFields /\ plan.role = old.role /\ plan.ordinal = old.ordinal
  BY <1>1, <1>4, <1>7 DEF EntryHolds, PlanFields
<1>9. PICK new : new = [plan EXCEPT !.hash = PlanHash(plan)]
  OBVIOUS
<1>10. DOMAIN new = PlanFields /\ new.role = old.role /\ new.ordinal = old.ordinal
  BY <1>8, <1>9 DEF PlanFields
<1>11. PICK after : after = [entry EXCEPT !.plan = new]
  OBVIOUS
<1>12. EntryHolds(after)
  BY <1>1, <1>7, <1>10, <1>11 DEF EntryHolds
<1>13. pool' = [pool EXCEPT ![1] = after]
  BY <1>1, <1>2, <1>9, <1>11
<1>14. EntriesHold'
  <2>1. PICK T : T = S \cup {after}
    OBVIOUS
  <2>2. pool \in Seq(T) /\ after \in T
    BY <1>5, <2>1
  <2>3. pool' \in Seq(T) /\ Len(pool') = Len(pool)
    BY <1>6, <1>13, <2>2
  <2>4. \A n \in 1..Len(pool) : pool'[n] = IF n = 1 THEN after ELSE pool[n]
    BY <1>6, <1>13
  <2>5. \A n \in 1..Len(pool') : EntryHolds(pool'[n])
    BY <1>12, <2>3, <2>4 DEF StudyInv, EntriesHold
  <2>6. Len(pool') <= MaxBlocks
    BY <2>3 DEF StudyInv, EntriesHold
  <2>. QED  BY <2>3, <2>5, <2>6 DEF EntriesHold, EntryHolds
<1>. QED  BY <1>3, <1>14 DEF StudyInv, FrozenSoundly

\* The invariant of a study holds whatever is frozen, generated and edited.
THEOREM StudyInvariant == StudySpec => []StudyInv
<1>1. StudyInv /\ [StudyNext]_studyVars => StudyInv'
  <2>1. CASE UNCHANGED studyVars
    BY <2>1 DEF studyVars, StudyInv, FrozenSoundly, EntriesHold
  <2>. QED  BY <2>1, FreezeKeeps, GenerateKeeps, EditKeeps DEF StudyNext
<1>. QED  BY <1>1, StudyInitially, PTL DEF StudySpec

-----------------------------------------------------------------------------
(* An accepted pool                                                        *)

\* The pool has the shape of a list of plans with their catalogs.
LEMMA PoolList ==
    ASSUME StudyInv
    PROVE  /\ Len(pool) \in Nat /\ DOMAIN pool = 1..Len(pool)
           /\ \A n \in 1..Len(pool) : EntryHolds(pool[n])
<1>1. PICK S : pool \in Seq(S)
  BY DEF StudyInv, EntriesHold
<1>. QED  BY <1>1 DEF StudyInv, EntriesHold

\* Every plan of an accepted pool was validated against its catalog.
LEMMA AcceptedPlans ==
    ASSUME StudyInv, PoolAccepted, NEW n \in DOMAIN pool
    PROVE  pool[n].catalog \in Catalogs /\ validate_block_plan(pool[n].plan, pool[n].catalog)
  BY PoolList DEF PoolAccepted, validate_block_pool, EntryHolds

LEMMA BlocksAreMatched == StudyInv => AcceptedBlocksAreMatched
<1> SUFFICES ASSUME StudyInv, PoolAccepted, NEW n \in DOMAIN pool
             PROVE  /\ Cardinality({CellKey(c) : c \in ToSet(pool[n].plan.cells)}) = CellsPerBlock
                    /\ \A c, d \in ToSet(pool[n].plan.cells) :
                         /\ c.arrival = d.arrival <=>
                              <<c.placement, c.workingSet, c.load>> = <<d.placement, d.workingSet, d.load>>
                         /\ c.event = d.event <=>
                              <<c.placement, c.workingSet>> = <<d.placement, d.workingSet>>
  BY DEF AcceptedBlocksAreMatched
<1>1. PICK plan, catalog : plan = pool[n].plan /\ catalog = pool[n].catalog
  OBVIOUS
<1>2. catalog \in Catalogs /\ validate_block_plan(plan, catalog)
  BY <1>1, AcceptedPlans
<1>3. Cardinality({CellKey(c) : c \in ToSet(plan.cells)}) = CellsPerBlock
  BY <1>2 DEF validate_block_plan, validate_block
<1>4. \A c, d \in ToSet(plan.cells) :
        /\ c.arrival = d.arrival <=>
             <<c.placement, c.workingSet, c.load>> = <<d.placement, d.workingSet, d.load>>
        /\ c.event = d.event <=>
             <<c.placement, c.workingSet>> = <<d.placement, d.workingSet>>
  BY <1>2, MatchedCells
<1>. QED  BY <1>1, <1>3, <1>4

LEMMA BlocksAreIndependent == StudyInv => AcceptedBlocksAreIndependent
<1>. DEFINE used(n) == UNION {{c.arrival, c.event, c.node} \ {None} : c \in ToSet(pool[n].plan.cells)}
<1>1. SUFFICES ASSUME StudyInv, PoolAccepted, NEW m \in DOMAIN pool, NEW n \in DOMAIN pool, m # n,
                      NEW seed \in used(m), seed \in used(n)
               PROVE  FALSE
  BY DEF AcceptedBlocksAreIndependent
<1>2. ASSUME NEW k \in DOMAIN pool, seed \in used(k)
      PROVE  \E i \in DOMAIN Seeds(pool[k].catalog) : Seeds(pool[k].catalog)[i] = seed
  <2>1. PICK plan, catalog : plan = pool[k].plan /\ catalog = pool[k].catalog
    OBVIOUS
  <2>2. catalog \in Catalogs /\ validate_block_plan(plan, catalog)
    BY <1>1, <2>1, AcceptedPlans
  <2>3. PICK c \in ToSet(plan.cells) : seed \in {c.arrival, c.event, c.node} \ {None}
    BY <1>2, <2>1
  <2>4. \E i \in DOMAIN Seeds(catalog) : Seeds(catalog)[i] = seed
    BY <2>2, <2>3, SeedsComeFromCatalog
  <2>. QED  BY <2>1, <2>4
<1>3. PICK i \in DOMAIN Seeds(pool[m].catalog) : Seeds(pool[m].catalog)[i] = seed
  BY <1>1, <1>2
<1>4. PICK j \in DOMAIN Seeds(pool[n].catalog) : Seeds(pool[n].catalog)[j] = seed
  BY <1>1, <1>2
<1>5. seeds_not_reused
  BY <1>1 DEF PoolAccepted, validate_block_pool
<1>. QED  BY <1>1, <1>3, <1>4, <1>5 DEF seeds_not_reused

\* The factorial has finitely many cells.
LEMMA ExpectedIsFinite == IsFiniteSet(expected_stage_a_cells)
<1>. DEFINE S == (1..CellsPerPlot) \X (1..2)
            cell(k, h) == <<base(k).package, Hardware[h], base(k).placement,
                            base(k).workingSet, base(k).load>>
            g == [x \in S |-> cell(x[1], x[2])]
<1>1. IsFiniteSet(S)
  <2>1. IsFiniteSet(1..CellsPerPlot) /\ IsFiniteSet(1..2)
    BY PlotSize, IntervalSize
  <2>. QED  BY <2>1, FS_Product
<1>2. ToSet(Hardware) = {"h0", "h1"} /\ Hardware[1] = "h0" /\ Hardware[2] = "h1"
  BY PlotStates DEF Hardware
<1>3. \A x \in S : g[x] \in expected_stage_a_cells
  <2>1. SUFFICES ASSUME NEW k \in 1..CellsPerPlot, NEW h \in 1..2
                 PROVE  cell(k, h) \in expected_stage_a_cells
    OBVIOUS
  <2>2. /\ base(k).package \in ToSet(Packages) /\ base(k).placement \in ToSet(Placements)
        /\ base(k).workingSet \in ToSet(WorkingSets) /\ base(k).load \in ToSet(Loads)
    BY BaseHasLevels
  <2>3. Hardware[h] \in ToSet(Hardware)
    BY <1>2
  <2>. QED  BY <2>2, <2>3 DEF expected_stage_a_cells
<1>4. \A y \in expected_stage_a_cells : \E x \in S : g[x] = y
  <2>1. SUFFICES ASSUME NEW y \in expected_stage_a_cells PROVE \E x \in S : g[x] = y
    OBVIOUS
  <2>2. PICK p \in ToSet(Packages), h \in ToSet(Hardware), pl \in ToSet(Placements),
             w \in ToSet(WorkingSets), l \in ToSet(Loads) : y = <<p, h, pl, w, l>>
    BY DEF expected_stage_a_cells
  <2>3. PICK k \in 1..CellsPerPlot :
          base(k).package = p /\ base(k).placement = pl /\ base(k).workingSet = w /\ base(k).load = l
    BY BaseIsOnto
  <2>4. PICK i \in 1..2 : Hardware[i] = h
    BY <1>2
  <2>5. <<k, i>> \in S /\ g[<<k, i>>] = cell(k, i)
    OBVIOUS
  <2>6. cell(k, i) = y
    BY <2>2, <2>3, <2>4
  <2>. QED  BY <2>5, <2>6
<1>5. DOMAIN g = S /\ g = [x \in S |-> g[x]]
  OBVIOUS
<1>. HIDE DEF S, g, cell
<1>6. g \in [S -> expected_stage_a_cells]
  BY <1>3, <1>5
<1>7. g \in Surjection(S, expected_stage_a_cells)
  BY <1>4, <1>6 DEF Surjection
<1>. QED  BY <1>1, <1>7, FS_Surjection

LEMMA PoolMeetsPrecision == StudyInv => AcceptedPoolMeetsPrecision
<1>. DEFINE runs == UNION {{<<pool[n].plan.id, CellKey(cell)>> : cell \in ToSet(pool[n].plan.cells)} :
                             n \in DOMAIN pool}
<1>1. SUFFICES ASSUME StudyInv, PoolAccepted
               PROVE  /\ Len(pool) >= precision.counts.r_h1 /\ Len(pool) >= precision.counts.r_h2
                      /\ Cardinality(InRole("h3_train")) = precision.counts.rtrain
                      /\ Cardinality(InRole("h3_validation")) = precision.counts.rval
                      /\ Cardinality(runs) = precision.counts.nruns
  BY DEF AcceptedPoolMeetsPrecision
<1>2. PICK c : c = precision.counts
  OBVIOUS
<1>3. c \in FrozenCounts /\ precision_counts(c) /\ precision.roles = RoleBlocks(c)
  BY <1>1, <1>2 DEF StudyInv, FrozenSoundly, PoolAccepted
<1>4. /\ precision.roles.h3_train = c.rtrain /\ precision.roles.h3_validation = c.rval
      /\ precision.roles.h1h2_supplemental = supplemental_blocks(c)
      /\ precision.roles["h3_train"] = c.rtrain /\ precision.roles["h3_validation"] = c.rval
  BY <1>3 DEF RoleBlocks
<1>5. pool_counts(precision.roles)
  BY <1>1 DEF PoolAccepted, validate_block_pool
<1>6. Len(pool) = c.rtrain + c.rval + supplemental_blocks(c)
  BY <1>4, <1>5 DEF pool_counts
<1>7. Len(pool) = c.rtotal
  BY <1>3, <1>6, RolesAddUp
<1>8. Cardinality(InRole("h3_train")) = c.rtrain /\ Cardinality(InRole("h3_validation")) = c.rval
  BY <1>4, <1>5 DEF pool_counts, Roles
<1>9. Cardinality(runs) = c.nruns
  <2>. DEFINE f == [n \in 1..Len(pool) |-> pool[n].plan.id]
  <2>1. PICK size \in Nat : size = Len(pool) /\ DOMAIN pool = 1..size
    BY <1>1, PoolList
  <2>2. DOMAIN f = 1..size /\ f = [n \in 1..size |-> f[n]]
    BY <2>1
  <2>3. \A n \in 1..size : f[n] = pool[n].plan.id
    BY <2>1
  <2>4. \A m, n \in 1..size : f[m] = f[n] => m = n
    BY <1>1, <2>1, <2>3 DEF PoolAccepted, validate_block_pool
  <2>. HIDE DEF f
  <2>5. PICK ids : ids = {f[n] : n \in 1..size}
    OBVIOUS
  <2>6. IsFiniteSet({f[n] : n \in 1..size}) /\ Cardinality({f[n] : n \in 1..size}) = size
    BY ONLY <2>2, <2>4, ImageSize
  <2>7. runs = ids \X expected_stage_a_cells
    <3>1. \A n \in 1..size :
            {CellKey(cell) : cell \in ToSet(pool[n].plan.cells)} = expected_stage_a_cells
      BY <1>1, <2>1, AcceptedPlans DEF validate_block_plan
    <3>2. runs = UNION {{<<f[n], x>> : x \in {CellKey(cell) : cell \in ToSet(pool[n].plan.cells)}} :
                          n \in 1..size}
      BY <2>1, <2>3
    <3>3. runs = UNION {{<<f[n], x>> : x \in expected_stage_a_cells} : n \in 1..size}
      BY <3>1, <3>2
    <3>. QED  BY <2>5, <3>3
  <2>8. /\ Cardinality(runs) = Cardinality(ids) * Cardinality(expected_stage_a_cells)
        /\ Cardinality(expected_stage_a_cells) \in Nat
    BY <2>5, <2>6, <2>7, ExpectedIsFinite, FS_Product, FS_CardinalityType
  <2>9. Cardinality(ids) = size /\ c.nruns = size * CellsPerBlock
    BY <1>3, <1>7, <2>1, <2>5, <2>6, RolesAddUp
  <2>10. CASE size = 0
    BY <2>8, <2>9, <2>10, PlotSize
  <2>11. CASE size > 0
    <3>1. 1 \in DOMAIN pool
      BY <2>1, <2>11
    <3>2. /\ Cardinality({CellKey(x) : x \in ToSet(pool[1].plan.cells)}) = CellsPerBlock
          /\ {CellKey(x) : x \in ToSet(pool[1].plan.cells)} = expected_stage_a_cells
      BY <1>1, <3>1, AcceptedPlans DEF validate_block_plan, validate_block
    <3>. QED  BY <2>8, <2>9, <3>2
  <2>. QED  BY <2>10, <2>11
<1>10. Len(pool) >= c.r_h1 /\ Len(pool) >= c.r_h2
  BY <1>3, <1>7, RolesAddUp
<1>. QED  BY <1>2, <1>8, <1>9, <1>10

LEMMA PoolIsCounterbalanced == StudyInv => AcceptedPoolIsCounterbalanced
<1>. DEFINE at(n, ordinal) == CHOOSE c \in ToSet(pool[n].plan.cells) : c.ordinal = ordinal
            starts(h) == Cardinality({n \in DOMAIN pool : at(n, 0).hardware = h})
<1>1. SUFFICES ASSUME StudyInv, PoolAccepted
               PROVE  /\ starts("h0") - starts("h1") \in -1..1
                      /\ \A n \in DOMAIN pool, k \in 1..(CellsPerBlock - 1) :
                           at(n, k).hardware # at(n, k - 1).hardware => k = CellsPerPlot
  BY DEF AcceptedPoolIsCounterbalanced
<1>2. PICK s \in Nat : s = CellsPerPlot /\ s > 0 /\ CellsPerBlock = 2 * s
  BY PlotSize
<1>3. ASSUME NEW n \in DOMAIN pool, NEW plot \in 1..2,
             NEW k \in ((plot - 1) * s)..(plot * s - 1)
      PROVE  at(n, k).hardware = pool[n].plan.wholePlots[plot]
  <2>1. PICK plan : plan = pool[n].plan
    OBVIOUS
  <2>2. validate_block_plan(plan, pool[n].catalog)
    BY <1>1, <2>1, AcceptedPlans
  <2>3. {c.ordinal : c \in ToSet(plan.cells)} = 0..(2 * s - 1)
    BY <1>2, <2>2 DEF validate_block_plan, validate_block
  <2>4. k \in 0..(2 * s - 1)
    <3>1. plot = 1 \/ plot = 2
      OBVIOUS
    <3>. QED  BY <1>3, <3>1
  <2>5. \E c \in ToSet(plan.cells) : c.ordinal = k
    BY <2>3, <2>4
  <2>6. PICK c : c = CHOOSE d \in ToSet(plan.cells) : d.ordinal = k
    OBVIOUS
  <2>7. c \in ToSet(plan.cells) /\ c.ordinal = k
    BY <2>5, <2>6
  <2>8. c.hardware = plan.wholePlots[plot]
    BY <1>2, <1>3, <2>2, <2>7 DEF validate_block_plan, whole_plots_hold
  <2>. QED  BY <2>1, <2>6, <2>8
<1>4. \A n \in DOMAIN pool : at(n, 0).hardware = pool[n].plan.wholePlots[1]
  <2>1. 1 \in 1..2 /\ 0 \in ((1 - 1) * s)..(1 * s - 1)
    BY <1>2
  <2>. HIDE DEF at
  <2>. QED  BY <1>3, <2>1
<1>5. starts("h0") - starts("h1") \in -1..1
  <2>1. starts("h0") = Cardinality(FirstPlot("h0")) /\ starts("h1") = Cardinality(FirstPlot("h1"))
    <3>. HIDE DEF at
    <3>. QED  BY <1>4 DEF FirstPlot
  <2>. HIDE DEF starts
  <2>. QED  BY <1>1, <2>1 DEF PoolAccepted, validate_block_pool
<1>6. ASSUME NEW n \in DOMAIN pool, NEW k \in 1..(CellsPerBlock - 1), k # CellsPerPlot
      PROVE  at(n, k).hardware = at(n, k - 1).hardware
  <2>1. k \in 1..(2 * s - 1) /\ k # s
    BY <1>2, <1>6
  <2>2. CASE k < s
    <3>1. 1 \in 1..2 /\ k \in ((1 - 1) * s)..(1 * s - 1) /\ k - 1 \in ((1 - 1) * s)..(1 * s - 1)
      BY <2>1, <2>2
    <3>. HIDE DEF at
    <3>. QED  BY <1>3, <3>1
  <2>3. CASE k > s
    <3>1. 2 \in 1..2 /\ k \in ((2 - 1) * s)..(2 * s - 1) /\ k - 1 \in ((2 - 1) * s)..(2 * s - 1)
      BY <2>1, <2>3
    <3>. HIDE DEF at
    <3>. QED  BY <1>3, <3>1
  <2>. QED  BY <2>1, <2>2, <2>3
<1>. HIDE DEF at, starts
<1>. QED  BY <1>5, <1>6

LEMMA StudyTypes == StudyInv => StudyTypeOK
<1> SUFFICES ASSUME StudyInv PROVE StudyTypeOK
  OBVIOUS
<1>1. precision # None => precision.state \in {"not_evaluated", "infeasible", "resolved"}
  BY DEF StudyInv, FrozenSoundly
<1>2. ASSUME precision # None, precision.roles # None
      PROVE  precision.roles \in [Roles -> 0..WordMax]
  <2>1. PICK c \in FrozenCounts : precision_counts(c) /\ precision.roles = RoleBlocks(c)
    BY <1>2 DEF StudyInv, FrozenSoundly
  <2>. QED  BY <2>1, RolesAreWords
<1>3. \A n \in DOMAIN pool : /\ pool[n].plan.role \in Roles
                             /\ pool[n].catalog \in Catalogs
                             /\ pool[n].plan.ordinal \in 0..WordMax
  BY PoolList DEF EntryHolds
<1>. QED  BY <1>1, <1>2, <1>3 DEF StudyTypeOK, StudyInv, EntriesHold

\* The block that generate_block_plan builds from a valid catalog always
\* passes validate_block_plan.
THEOREM GeneratorAgreesWithValidator == StudySpec => []GeneratorMeetsValidator
<1>1. StudyInv => GeneratorMeetsValidator
  BY DEF StudyInv, GeneratorMeetsValidator
<1>. QED  BY <1>1, StudyInvariant, PTL

\* In every accepted pool matched cells of a block, and no other cells, share
\* arrivals and arenas, and no two blocks share a seed.
THEOREM SeedsStayMatched == StudySpec => []AcceptedSeedsAreMatched
<1>1. StudyInv => AcceptedSeedsAreMatched
  BY BlocksAreMatched, BlocksAreIndependent DEF AcceptedSeedsAreMatched
<1>. QED  BY <1>1, StudyInvariant, PTL

\* Every accepted pool has the blocks and the runs of the frozen counts and is
\* counterbalanced.
THEOREM PoolStaysAsFrozen == StudySpec => []AcceptedPoolIsAsFrozen
<1>1. StudyInv => AcceptedPoolIsAsFrozen
  BY StudyTypes, PoolMeetsPrecision, PoolIsCounterbalanced DEF AcceptedPoolIsAsFrozen
<1>. QED  BY <1>1, StudyInvariant, PTL
=============================================================================

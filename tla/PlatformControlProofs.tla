----------------------- MODULE PlatformControlProofs -----------------------
(***************************************************************************)
(* What a rollback and an eligible manifest mean, for every request: the   *)
(* rollback of a partly applied request and the readback loop, each with   *)
(* what it has established so far.                                         *)
(***************************************************************************)
EXTENDS PlatformControl, TLAPS

Reports ==
    [complete : BOOLEAN, steps : Seq(Steps), attempted : BOOLEAN, restored : BOOLEAN,
     restoration : Seq(Steps)]
Verifications == [complete : BOOLEAN, match : BOOLEAN, steps : Seq(Steps)]

PlatformShape ==
    /\ call \in Calls
    /\ machine \in [Targets -> Values]
    /\ pc \in {"apply", "restore", "applied", "verify", "verified", "done"}
    /\ position \in 0 .. Len(controls) + 1
    /\ applied \in Seq(Controls)
    /\ Len(applied) <= Len(controls)
    /\ report \in Reports
    /\ Len(report.restoration) <= Len(applied)
    /\ verification \in Verifications
    /\ manifest \in {"none", "refused", "eligible", "ineligible"}

\* A pass in which nothing failed, over the first n controls.
CleanPass(n) ==
    /\ MutatingInOrder(applied, controls, n)
    /\ report.restoration = << >>
    /\ \A i \in 1 .. Len(report.steps) : report.steps[i].status # "apply_failed"

\* The loop of apply_requested_state: a clean pass up to its position.
ApplyLoop ==
    pc = "apply" => /\ position >= 1
                    /\ Len(applied) <= position - 1
                    /\ CleanPass(position - 1)

\* The loop of restore_platform_state: one step for each control from the last
\* applied one down, and the targets of those already tried hold what was
\* recorded for the first of them that changed the target.
RestoreLoop ==
    pc = "restore" =>
        /\ position <= Len(applied)
        /\ Len(report.restoration) = Len(applied) - position
        /\ ~ report.complete
        /\ report.restored =>
             \A i \in position + 1 .. Len(applied) :
                 (\A j \in position + 1 .. i - 1 : applied[j].target # applied[i].target) =>
                     machine[applied[i].target] = call.prior[applied[i].id].value

\* What a returned apply_requested_state reported as complete.
CompleteMeansClean ==
    pc \in {"applied", "verify", "verified", "done"}
        /\ call.mode = "authorized_apply" /\ report.complete => CleanPass(Len(controls))

\* The loop of verify_requested_state: nothing acts on the machine while it
\* runs, so what it has verified is still so.
VerifyLoop ==
    /\ pc = "verify" => position >= 1
    /\ pc = "verify" /\ verification.complete =>
         \A i \in 1 .. position - 1 : machine[controls[i].target] = controls[i].value
    /\ pc \in {"verified", "done"} /\ verification.complete =>
         \A i \in 1 .. Len(controls) : machine[controls[i].target] = controls[i].value

VerdictIsJustified == manifest = "eligible" => pc = "done" /\ eligible

PlatformIndInv ==
    /\ PlatformShape
    /\ ApplyLoop
    /\ RestoreLoop
    /\ CompleteMeansClean
    /\ VerifyLoop
    /\ VerdictIsJustified

-----------------------------------------------------------------------------
\* What IsCall says of the arguments.
LEMMA CallFacts ==
    ASSUME PlatformShape
    PROVE  /\ controls \in Seq(Controls)
           /\ \A i \in 1 .. Len(controls) :
                /\ controls[i] \in Controls
                /\ controls[i].target \in Targets
                /\ controls[i].value \in Values
                /\ controls[i].id \in STRING
           /\ \A id \in DOMAIN call.prior : call.prior[id] \in Prior
<1>1. IsCall(call)
  BY PlatformAssumption DEF PlatformShape
<1>2. controls \in Seq(Controls)
  BY <1>1 DEF IsCall, controls
<1>3. \A i \in 1 .. Len(controls) : controls[i] \in Controls
  BY <1>2
<1>4. \A c \in Controls : c.target \in Targets /\ c.value \in Values /\ c.id \in STRING
  BY DEF Controls
<1>. QED  BY <1>1, <1>2, <1>3, <1>4 DEF IsCall

\* A step of a report.
LEMMA StepFacts ==
    ASSUME NEW c \in Controls,
           NEW status \in {"planned", "applied", "apply_failed", "verified",
               "verification_failed", "stale", "restored", "restoration_failed"}
    PROVE  Step(c, status) \in Steps /\ Step(c, status).status = status
<1>1. c.id \in STRING
  BY DEF Controls
<1>. QED  BY <1>1 DEF Step, Steps

\* What appending a step does to a report.
LEMMA AppendedStep ==
    ASSUME NEW s \in Seq(Steps), NEW e \in Steps
    PROVE  /\ Append(s, e) \in Seq(Steps)
           /\ Len(Append(s, e)) = Len(s) + 1
           /\ e.status # "apply_failed"
                /\ (\A i \in 1 .. Len(s) : s[i].status # "apply_failed") =>
                \A i \in 1 .. Len(Append(s, e)) : Append(s, e)[i].status # "apply_failed"
  OBVIOUS

\* The order of application, one control of the request further.
LEMMA NothingInOrder ==
    ASSUME NEW request PROVE MutatingInOrder(<< >>, request, 0)
<1>1. 1 .. Len(<< >>) = {} /\ 1 .. 0 = {}
  OBVIOUS
<1>2. PICK place : place = [k \in {} |-> 0]
  OBVIOUS
<1>3. place \in [{} -> {}]
  BY <1>2
<1>. QED  BY <1>1, <1>3 DEF MutatingInOrder

\* MutatingInOrder, with the number of chosen controls as a parameter.
InOrder(chosen, m, request, n) ==
    \E place \in [1 .. m -> 1 .. n] :
        /\ \A k \in 1 .. m : chosen[k] = request[place[k]] /\ request[place[k]].mutating
        /\ \A k, l \in 1 .. m : k < l => place[k] < place[l]
        /\ \A i \in 1 .. n : request[i].mutating => \E k \in 1 .. m : place[k] = i

\* One control further: a mutating one is appended, any other is passed over.
LEMMA OneMoreInOrder ==
    ASSUME NEW chosen \in Seq(Controls), NEW request, NEW p \in Nat \ {0},
           MutatingInOrder(chosen, request, p - 1),
           NEW further \in Seq(Controls),
           IF request[p].mutating THEN further = Append(chosen, request[p])
           ELSE further = chosen,
           request[p] \in Controls
    PROVE  MutatingInOrder(further, request, p)
<1>1. PICK m \in Nat : m = Len(chosen)
  OBVIOUS
<1>2. PICK place \in [1 .. m -> 1 .. p - 1] :
        /\ \A k \in 1 .. m : chosen[k] = request[place[k]] /\ request[place[k]].mutating
        /\ \A k, l \in 1 .. m : k < l => place[k] < place[l]
        /\ \A i \in 1 .. p - 1 : request[i].mutating => \E k \in 1 .. m : place[k] = i
  <2>1. InOrder(chosen, Len(chosen), request, p - 1)
    BY Zenon DEF MutatingInOrder, InOrder
  <2>2. InOrder(chosen, m, request, p - 1)
    BY <1>1, <2>1
  <2>. QED  BY <2>2, Zenon DEF InOrder
<1>3. \A k \in 1 .. m : place[k] \in 1 .. p - 1
  BY <1>2
<1>4. \A i \in 1 .. p : i = p \/ i \in 1 .. p - 1
  OBVIOUS
<1>5. CASE ~ request[p].mutating
  <2>1. place \in [1 .. m -> 1 .. p]
    BY <1>2
  <2>2. \A i \in 1 .. p : request[i].mutating => \E k \in 1 .. m : place[k] = i
    BY <1>2, <1>4, <1>5
  <2>3. further = chosen
    BY <1>5
  <2>4. /\ place \in [1 .. Len(further) -> 1 .. p]
        /\ \A k \in 1 .. Len(further) :
             further[k] = request[place[k]] /\ request[place[k]].mutating
        /\ \A k, l \in 1 .. Len(further) : k < l => place[k] < place[l]
        /\ \A i \in 1 .. p : request[i].mutating =>
             \E k \in 1 .. Len(further) : place[k] = i
    BY <1>1, <1>2, <2>1, <2>2, <2>3
  <2>. QED  BY <2>4, Zenon DEF MutatingInOrder
<1>6. CASE request[p].mutating
  <2>1. /\ Len(further) = m + 1 /\ further[m + 1] = request[p]
        /\ \A k \in 1 .. m : further[k] = chosen[k]
    BY <1>1, <1>6
  <2>2. PICK next : next = [k \in 1 .. m + 1 |-> IF k <= m THEN place[k] ELSE p]
    OBVIOUS
  <2>3. \A k \in 1 .. m + 1 : (IF k <= m THEN place[k] ELSE p) \in 1 .. p
    BY <1>1, <1>3
  <2>4. /\ next \in [1 .. m + 1 -> 1 .. p] /\ next[m + 1] = p
        /\ \A k \in 1 .. m : next[k] = place[k] /\ place[k] \in 1 .. p - 1
    BY <1>1, <1>3, <2>2, <2>3
  <2>5. \A k \in 1 .. m + 1 : further[k] = request[next[k]] /\ request[next[k]].mutating
    BY <1>1, <1>2, <1>6, <2>1, <2>4
  <2>6. \A k, l \in 1 .. m + 1 : k < l => next[k] < next[l]
    <3> SUFFICES ASSUME NEW k \in 1 .. m + 1, NEW l \in 1 .. m + 1, k < l
                 PROVE  next[k] < next[l]
      OBVIOUS
    <3>1. k \in 1 .. m /\ (l \in 1 .. m \/ l = m + 1)
      BY <1>1
    <3>2. next[k] \in 1 .. p - 1
      BY <2>4, <3>1
    <3>3. l = m + 1 => next[k] < next[l]
      BY <2>4, <3>2
    <3>4. l \in 1 .. m => place[k] < place[l]
      BY <1>2, <3>1
    <3>. QED  BY <2>4, <3>1, <3>3, <3>4
  <2>7. \A i \in 1 .. p : request[i].mutating => \E k \in 1 .. m + 1 : next[k] = i
    BY <1>1, <1>2, <1>4, <2>4
  <2>8. /\ next \in [1 .. Len(further) -> 1 .. p]
        /\ \A k \in 1 .. Len(further) :
             further[k] = request[next[k]] /\ request[next[k]].mutating
        /\ \A k, l \in 1 .. Len(further) : k < l => next[k] < next[l]
        /\ \A i \in 1 .. p : request[i].mutating =>
             \E k \in 1 .. Len(further) : next[k] = i
    BY <2>1, <2>4, <2>5, <2>6, <2>7
  <2>. QED  BY <2>8, Zenon DEF MutatingInOrder
<1>. QED  BY <1>5, <1>6

-----------------------------------------------------------------------------
LEMMA InitKeepsInv == Init => PlatformIndInv
<1> SUFFICES ASSUME Init PROVE PlatformIndInv
  OBVIOUS
<1>1. IsCall(call)
  BY PlatformAssumption DEF Init
<1>2. Len(controls) \in Nat
  BY <1>1 DEF IsCall, controls
<1>3. /\ applied \in Seq(Controls) /\ Len(applied) = 0
      /\ report \in Reports /\ Len(report.restoration) = 0
      /\ Len(report.steps) = 0 /\ report.restoration = << >>
      /\ verification \in Verifications
  BY DEF Init, Reports, Verifications
<1>4. PlatformShape
  BY <1>2, <1>3 DEF Init, PlatformShape
<1>5. MutatingInOrder(applied, controls, 0)
  BY NothingInOrder DEF Init
<1>6. ApplyLoop
  BY <1>3, <1>5 DEF Init, ApplyLoop, CleanPass
<1>. QED  BY <1>4, <1>6 DEF Init, PlatformIndInv, RestoreLoop, CompleteMeansClean,
            VerifyLoop, VerdictIsJustified

\* apply_requested_state without an actuation.
LEMMA UnappliedKeepsInv ==
    ASSUME PlatformIndInv, DryRun \/ NoActuator \/ ApplyReturns
    PROVE  PlatformIndInv'
<1> USE DEF PlatformIndInv
<1>1. controls \in Seq(Controls) /\ \A i \in 1 .. Len(controls) : controls[i] \in Controls
  BY CallFacts
<1>2. call' = call /\ machine' = machine /\ position' = position /\ applied' = applied
      /\ verification' = verification /\ manifest' = manifest /\ pc' = "applied"
      /\ pc = "apply" /\ controls' = controls
  BY DEF DryRun, NoActuator, ApplyReturns, controls
<1>3. manifest' # "eligible"
  BY <1>2 DEF VerdictIsJustified
<1>4. CASE DryRun
  <2>1. report.steps \in Seq(Steps) /\ report \in Reports
    BY DEF PlatformShape, Reports
  <2>2. PICK n \in Nat : n = Len(controls)
    BY <1>1
  <2>3. PICK steps : steps = [i \in 1 .. Len(controls) |-> Step(controls[i], "planned")]
    OBVIOUS
  <2>4. steps \in Seq(Steps)
    <3>1. \A i \in 1 .. n : Step(controls[i], "planned") \in Steps
      BY <1>1, <2>2, StepFacts
    <3>. QED  BY <2>2, <2>3, <3>1
  <2>5. report' = [report EXCEPT !.steps = steps]
    BY <1>4, <2>3 DEF DryRun
  <2>6. report' \in Reports /\ report'.restoration = report.restoration
    BY <2>1, <2>4, <2>5 DEF Reports
  <2>7. PlatformShape'
    BY <1>2, <2>6 DEF PlatformShape
  <2>8. call'.mode # "authorized_apply"
    BY <1>2, <1>4 DEF DryRun
  <2>. QED  BY <1>2, <1>3, <2>7, <2>8 DEF ApplyLoop, RestoreLoop, CompleteMeansClean,
              VerifyLoop, VerdictIsJustified
<1>5. CASE NoActuator
  <2>1. report \in Reports
    BY DEF PlatformShape
  <2>2. report' \in Reports /\ report'.restoration = report.restoration
        /\ report'.complete = FALSE
    BY <1>5, <2>1 DEF NoActuator, Reports
  <2>3. PlatformShape'
    BY <1>2, <2>2 DEF PlatformShape
  <2>. QED  BY <1>2, <1>3, <2>2, <2>3 DEF ApplyLoop, RestoreLoop, CompleteMeansClean,
              VerifyLoop, VerdictIsJustified
<1>6. CASE ApplyReturns
  <2>1. report' = report /\ position = Len(controls) + 1
    BY <1>1, <1>6 DEF ApplyReturns, PlatformShape
  <2>2. PlatformShape'
    BY <1>2, <2>1 DEF PlatformShape
  <2>3. CleanPass(position - 1)
    BY <1>2 DEF ApplyLoop
  <2>4. position - 1 = Len(controls)
    BY <1>1, <2>1
  <2>5. CleanPass(Len(controls))
    BY <2>3, <2>4
  <2>6. CleanPass(Len(controls))'
    BY <1>2, <2>1, <2>5 DEF CleanPass
  <2>. QED  BY <1>2, <1>3, <2>1, <2>2, <2>6 DEF ApplyLoop, RestoreLoop,
              CompleteMeansClean, VerifyLoop, VerdictIsJustified
<1>. QED  BY <1>4, <1>5, <1>6

\* One control of the loop that reports no failure.
LEMMA LoopStepKeepsInv ==
    ASSUME PlatformIndInv, ObserveOnly \/ ApplySucceeds
    PROVE  PlatformIndInv'
<1> USE DEF PlatformIndInv
<1>1. /\ controls \in Seq(Controls)
      /\ \A i \in 1 .. Len(controls) :
           /\ controls[i] \in Controls /\ controls[i].target \in Targets
           /\ controls[i].value \in Values
  BY CallFacts
<1>2. /\ pc = "apply" /\ pc' = pc /\ call' = call /\ controls' = controls
      /\ verification' = verification /\ manifest' = manifest
      /\ position' = position + 1
  BY DEF ObserveOnly, ApplySucceeds, Applying, controls
<1>3. PICK n \in Nat, p \in Nat, c \in Controls :
        n = Len(controls) /\ p = position /\ p \in 1 .. n /\ c = Current /\ c = controls[p]
        /\ c.target \in Targets /\ c.value \in Values
  <2>1. position \in 1 .. Len(controls)
    BY <1>1, <1>2 DEF ObserveOnly, ApplySucceeds, Applying, PlatformShape, ApplyLoop
  <2>. QED  BY <1>1, <2>1 DEF Current
<1>4. PICK status \in {"planned", "applied"} :
        report' = [report EXCEPT !.steps = Append(@, Step(c, status))]
  BY <1>3 DEF ObserveOnly, ApplySucceeds, Reported
<1>5. /\ report' \in Reports
      /\ report'.restoration = report.restoration
      /\ \A i \in 1 .. Len(report'.steps) : report'.steps[i].status # "apply_failed"
  <2>1. report \in Reports /\ report.steps \in Seq(Steps)
    BY DEF PlatformShape, Reports
  <2>2. PICK s \in Seq(Steps), e \in Steps :
          s = report.steps /\ e = Step(c, status) /\ e.status # "apply_failed"
    BY <2>1, StepFacts
  <2>3. report' = [report EXCEPT !.steps = Append(s, e)]
    BY <1>4, <2>2
  <2>4. \A i \in 1 .. Len(s) : s[i].status # "apply_failed"
    BY <1>2, <2>2 DEF ApplyLoop, CleanPass
  <2>5. PICK t \in Seq(Steps) :
          t = Append(s, e) /\ \A i \in 1 .. Len(t) : t[i].status # "apply_failed"
    BY <2>2, <2>4, AppendedStep
  <2>6. report' \in Reports /\ report'.restoration = report.restoration
        /\ report'.steps = t
    BY <2>1, <2>3, <2>5 DEF Reports
  <2>. QED  BY <2>5, <2>6
<1>6. MutatingInOrder(applied, controls, p - 1)
  BY <1>2, <1>3 DEF ApplyLoop, CleanPass
<1>7. PICK m \in Nat : m = Len(applied) /\ m <= p - 1
  BY <1>2, <1>3 DEF ApplyLoop, PlatformShape
<1>8. manifest' # "eligible"
  BY <1>2 DEF VerdictIsJustified
<1>9. CASE ObserveOnly
  <2>1. ~ c.mutating /\ applied' = applied /\ machine' = machine
    BY <1>3, <1>9 DEF ObserveOnly
  <2>2. MutatingInOrder(applied', controls', p)
    BY <1>2, <1>3, <1>6, <2>1, OneMoreInOrder DEF PlatformShape
  <2>3. p' = p /\ position' - 1 = p
    BY <1>2, <1>3
  <2>4. PlatformShape'
    BY <1>2, <1>3, <1>5, <2>1 DEF PlatformShape
  <2>5. ApplyLoop'
    <3>1. CleanPass(p)'
      BY <1>2, <1>5, <2>2 DEF CleanPass, ApplyLoop
    <3>2. (position - 1)' = p
      BY <2>3
    <3>3. CleanPass(position - 1)'
      BY <3>1, <3>2 DEF CleanPass
    <3>. QED  BY <1>2, <1>3, <1>7, <2>1, <3>3 DEF ApplyLoop
  <2>. QED  BY <1>2, <1>8, <2>4, <2>5 DEF RestoreLoop, CompleteMeansClean, VerifyLoop,
              VerdictIsJustified
<1>10. CASE ApplySucceeds
  <2>1. /\ c.mutating /\ applied' = Append(applied, c)
        /\ machine' = [machine EXCEPT ![c.target] = c.value]
    BY <1>3, <1>10 DEF ApplySucceeds
  <2>2. /\ applied' \in Seq(Controls) /\ Len(applied') = m + 1
        /\ applied'[m + 1] = c
        /\ \A k \in 1 .. m : applied'[k] = applied[k]
    BY <1>3, <1>7, <2>1 DEF PlatformShape
  <2>3. MutatingInOrder(applied', controls', p)
    <3>1. PICK request \in Seq(Controls), chosen \in Seq(Controls), further \in Seq(Controls) :
            request = controls /\ chosen = applied /\ further = applied'
      BY <1>1, <2>2 DEF PlatformShape
    <3>2. request[p] = c /\ p \in Nat \ {0}
      BY <1>3, <3>1
    <3>3. MutatingInOrder(further, request, p)
      BY <1>6, <2>1, <3>1, <3>2, OneMoreInOrder
    <3>. QED  BY <1>2, <3>1, <3>3
  <2>4. PlatformShape'
    BY <1>2, <1>3, <1>5, <1>7, <2>1, <2>2 DEF PlatformShape
  <2>5. ApplyLoop'
    <3>1. CleanPass(p)'
      BY <1>2, <1>5, <2>3 DEF CleanPass, ApplyLoop
    <3>2. (position - 1)' = p
      BY <1>2, <1>3
    <3>3. CleanPass(position - 1)'
      BY <3>1, <3>2 DEF CleanPass
    <3>. QED  BY <1>2, <1>3, <1>7, <2>2, <3>3 DEF ApplyLoop
  <2>. QED  BY <1>2, <1>8, <2>4, <2>5 DEF RestoreLoop, CompleteMeansClean, VerifyLoop,
              VerdictIsJustified
<1>. QED  BY <1>9, <1>10

\* A failed application starts the rollback.
LEMMA FailureKeepsInv ==
    ASSUME PlatformIndInv, NoPreState \/ \E v \in Values : ApplyFails(v)
    PROVE  PlatformIndInv'
<1> USE DEF PlatformIndInv
<1>1. /\ controls \in Seq(Controls)
      /\ \A i \in 1 .. Len(controls) :
           /\ controls[i] \in Controls /\ controls[i].target \in Targets
  BY CallFacts
<1>2. /\ pc = "apply" /\ pc' = "restore" /\ call' = call /\ controls' = controls
      /\ verification' = verification /\ manifest' = manifest
      /\ applied' = applied /\ position' = Len(applied) /\ BeginRestore
  BY DEF NoPreState, ApplyFails, Applying, BeginRestore, controls
<1>3. Current \in Controls /\ Current.target \in Targets
  <2>1. position \in 1 .. Len(controls)
    BY <1>1, <1>2 DEF NoPreState, ApplyFails, Applying, PlatformShape, ApplyLoop
  <2>. QED  BY <1>1, <2>1 DEF Current
<1>4. machine' \in [Targets -> Values]
  BY <1>3 DEF PlatformShape, NoPreState, ApplyFails
<1>5. report' \in Reports /\ report'.restoration = << >> /\ report'.complete = FALSE
  <2>1. report \in Reports /\ report.steps \in Seq(Steps) /\ report.restoration = << >>
    BY <1>2 DEF PlatformShape, Reports, ApplyLoop, CleanPass
  <2>2. PICK t \in Seq(Steps) : t = Append(report.steps, Step(Current, "apply_failed"))
    <3>1. PICK e \in Steps : e = Step(Current, "apply_failed")
      BY <1>3, StepFacts
    <3>2. PICK s \in Seq(Steps) : s = report.steps
      BY <2>1
    <3>. QED  BY <3>1, <3>2, AppendedStep
  <2>3. PICK attempted \in BOOLEAN : attempted = (applied # << >>)
    OBVIOUS
  <2>4. report' = [[report EXCEPT !.steps = t] EXCEPT !.complete = FALSE,
                                                      !.attempted = attempted]
    BY <1>2, <2>1, <2>2, <2>3 DEF BeginRestore, Reported
  <2>. QED  BY <2>1, <2>4 DEF Reports
<1>6. Len(applied) \in Nat
  BY DEF PlatformShape
<1>7. PlatformShape'
  BY <1>1, <1>2, <1>4, <1>5, <1>6 DEF PlatformShape
<1>8. RestoreLoop'
  BY <1>2, <1>5, <1>6 DEF RestoreLoop
<1>. QED  BY <1>2, <1>7, <1>8 DEF ApplyLoop, CompleteMeansClean, VerifyLoop,
            VerdictIsJustified

\* One step of the rollback: the control tried now is the first one that
\* changed its target among those tried so far, and the later ones of other
\* targets keep what they hold.
LEMMA RestoreStepKeepsInv ==
    ASSUME PlatformIndInv,
           \/ NothingToRestoreTo \/ RestoreSucceeds \/ \E v \in Values : RestoreFails(v)
    PROVE  PlatformIndInv'
<1> USE DEF PlatformIndInv
<1>1. /\ pc = "restore" /\ pc' = pc /\ call' = call /\ controls' = controls
      /\ applied' = applied /\ position' = position - 1 /\ position > 0
      /\ verification' = verification /\ manifest' = manifest
  BY DEF NothingToRestoreTo, RestoreSucceeds, RestoreFails, Restoring, controls
<1>2. PICK m \in Nat, p \in Nat, u \in Controls :
        /\ m = Len(applied) /\ p = position /\ p \in 1 .. m
        /\ u = Undo /\ u = applied[p] /\ u.target \in Targets
  <2>1. position \in 1 .. Len(applied) /\ applied \in Seq(Controls)
    BY <1>1 DEF PlatformShape, RestoreLoop
  <2>2. applied[position] \in Controls
    BY <2>1
  <2>3. applied[position].target \in Targets
    BY <2>2 DEF Controls
  <2>. QED  BY <2>1, <2>2, <2>3 DEF Undo
<1>3. PICK n \in Nat : n = Len(controls) /\ m <= n
  <2>1. controls \in Seq(Controls)
    BY CallFacts
  <2>. QED  BY <1>2, <2>1 DEF PlatformShape
<1>4. PICK status \in {"restored", "restoration_failed"} :
        /\ report' = Restored(status)
        /\ status = "restored" => RestoreSucceeds
  BY DEF NothingToRestoreTo, RestoreSucceeds, RestoreFails
<1>5. /\ report' \in Reports
      /\ Len(report'.restoration) = m - (p - 1)
      /\ report'.complete = report.complete
      /\ report'.restored => report.restored /\ status = "restored"
  <2>1. report \in Reports /\ report.restoration \in Seq(Steps) /\ report.restored \in BOOLEAN
    BY DEF PlatformShape, Reports
  <2>2. PICK e \in Steps : e = Step(Undo, status)
    BY <1>2, StepFacts
  <2>3. PICK r \in Seq(Steps), t \in Seq(Steps) :
          r = report.restoration /\ t = Append(r, e) /\ Len(t) = Len(r) + 1
    BY <2>1, AppendedStep
  <2>4. PICK whole \in BOOLEAN : whole = (report.restored /\ status = "restored")
    OBVIOUS
  <2>5. report' = [report EXCEPT !.restoration = t, !.restored = whole]
    BY <1>4, <2>1, <2>2, <2>3, <2>4 DEF Restored
  <2>6. report' \in Reports /\ report'.restoration = t /\ report'.complete = report.complete
        /\ report'.restored = whole
    BY <2>1, <2>5 DEF Reports
  <2>7. Len(r) = m - p
    BY <1>1, <1>2, <2>3 DEF RestoreLoop
  <2>8. Len(t) = m - (p - 1)
    BY <1>2, <2>3, <2>7
  <2>9. whole => report.restored /\ status = "restored"
    BY <2>4
  <2>. QED  BY <2>6, <2>8, <2>9
<1>6. machine' \in [Targets -> Values]
  <2>1. machine \in [Targets -> Values]
    BY DEF PlatformShape
  <2>2. ASSUME RestoreSucceeds PROVE call.prior[u.id].value \in Values
    <3>1. u.id \in DOMAIN call.prior /\ call.prior[u.id].value # NoValue
      BY <1>2, <2>2 DEF RestoreSucceeds, HasPreState, observation_for
    <3>2. call.prior[u.id] \in Prior
      BY <3>1, CallFacts
    <3>. QED  BY <3>1, <3>2 DEF Prior
  <2>. QED  BY <1>2, <2>1, <2>2 DEF NothingToRestoreTo, RestoreSucceeds, RestoreFails
<1>7. PlatformShape'
  BY <1>1, <1>2, <1>3, <1>5, <1>6 DEF PlatformShape
<1>8. ASSUME report'.restored, NEW i \in p .. m,
             \A j \in p .. i - 1 : applied[j].target # applied[i].target
      PROVE  machine'[applied[i].target] = call.prior[applied[i].id].value
  <2>1. /\ machine' = [machine EXCEPT ![u.target] = call.prior[u.id].value]
        /\ report.restored
    BY <1>2, <1>4, <1>5, <1>8 DEF RestoreSucceeds
  <2>2. machine \in [Targets -> Values]
    BY DEF PlatformShape
  <2>3. CASE i = p
    BY <1>2, <2>1, <2>2, <2>3
  <2>4. CASE i # p
    <3>1. i \in p + 1 .. m /\ p \in p .. i - 1
      BY <1>2, <2>4
    <3>2. applied[i].target # u.target
      BY <1>2, <1>8, <3>1
    <3>3. \A j \in p + 1 .. i - 1 : applied[j].target # applied[i].target
      BY <1>2, <1>8, <3>1
    <3>4. machine[applied[i].target] = call.prior[applied[i].id].value
      BY <1>1, <1>2, <2>1, <3>1, <3>3 DEF RestoreLoop
    <3>5. applied[i].target \in Targets
      <4>1. applied[i] \in Controls
        BY <1>2, <3>1 DEF PlatformShape
      <4>. QED  BY <4>1 DEF Controls
    <3>. QED  BY <2>1, <2>2, <3>2, <3>4, <3>5
  <2>. QED  BY <2>3, <2>4
<1>9. RestoreLoop'
  <2>1. position' + 1 = p /\ position' = p - 1 /\ Len(applied') = m
    BY <1>1, <1>2
  <2>2. ~ report'.complete
    BY <1>1, <1>5 DEF RestoreLoop
  <2>3. report'.restored =>
          \A i \in p .. m : (\A j \in p .. i - 1 : applied[j].target # applied[i].target) =>
            machine'[applied[i].target] = call.prior[applied[i].id].value
    BY <1>8
  <2>. QED  BY <1>1, <1>2, <1>5, <2>1, <2>2, <2>3 DEF RestoreLoop
<1>. QED  BY <1>1, <1>7, <1>9 DEF ApplyLoop, CompleteMeansClean, VerifyLoop,
            VerdictIsJustified

\* The rollback has tried every control; the machine drifts; the readback
\* starts and ends.
LEMMA BetweenLoopsKeepsInv ==
    ASSUME PlatformIndInv,
           \/ RestoreReturns \/ BeginVerify \/ VerifyReturns
           \/ \E t \in Targets, v \in Values : Drift(t, v)
    PROVE  PlatformIndInv'
<1> USE DEF PlatformIndInv
<1>1. /\ call' = call /\ controls' = controls /\ applied' = applied /\ report' = report
      /\ verification' = verification /\ manifest' = manifest
  BY DEF RestoreReturns, BeginVerify, VerifyReturns, Drift, controls
<1>2. PICK n \in Nat : n = Len(controls) /\ position \in 0 .. n + 1
  <2>1. controls \in Seq(Controls)
    BY CallFacts
  <2>. QED  BY <2>1 DEF PlatformShape
<1>3. manifest' # "eligible"
  BY <1>1 DEF VerdictIsJustified, RestoreReturns, BeginVerify, VerifyReturns, Drift
<1>4. CASE RestoreReturns
  <2>1. pc' = "applied" /\ machine' = machine /\ position' = position /\ ~ report.complete
    BY <1>4 DEF RestoreReturns, RestoreLoop
  <2>2. PlatformShape'
    BY <1>1, <2>1 DEF PlatformShape
  <2>. QED  BY <1>1, <1>3, <2>1, <2>2 DEF ApplyLoop, RestoreLoop, CompleteMeansClean,
              VerifyLoop, VerdictIsJustified
<1>5. CASE \E t \in Targets, v \in Values : Drift(t, v)
  <2>1. pc = "applied" /\ pc' = "applied" /\ position' = position
        /\ machine' \in [Targets -> Values]
    BY <1>5 DEF Drift, PlatformShape
  <2>2. PlatformShape'
    BY <1>1, <2>1 DEF PlatformShape
  <2>. QED  BY <1>1, <1>3, <2>1, <2>2 DEF ApplyLoop, RestoreLoop, CompleteMeansClean,
              CleanPass, VerifyLoop, VerdictIsJustified
<1>6. CASE BeginVerify
  <2>1. pc = "applied" /\ pc' = "verify" /\ position' = 1 /\ machine' = machine
    BY <1>6 DEF BeginVerify
  <2>2. PlatformShape'
    BY <1>1, <1>2, <2>1 DEF PlatformShape
  <2>. QED  BY <1>1, <1>3, <2>1, <2>2 DEF ApplyLoop, RestoreLoop, CompleteMeansClean,
              CleanPass, VerifyLoop, VerdictIsJustified
<1>7. CASE VerifyReturns
  <2>1. /\ pc = "verify" /\ pc' = "verified" /\ position' = position /\ machine' = machine
        /\ position > Len(controls)
    BY <1>7 DEF VerifyReturns
  <2>2. PlatformShape'
    BY <1>1, <1>2, <2>1 DEF PlatformShape
  <2>3. position - 1 = n
    BY <1>2, <2>1
  <2>4. VerifyLoop'
    BY <1>1, <1>2, <2>1, <2>3 DEF VerifyLoop
  <2>. QED  BY <1>1, <1>3, <2>1, <2>2, <2>4 DEF ApplyLoop, RestoreLoop, CompleteMeansClean,
              CleanPass, VerdictIsJustified
<1>. QED  BY <1>4, <1>5, <1>6, <1>7

\* One readback: only a fresh one, by the declared mechanism, of the requested
\* value counts, and such a readback tells the target's value.
LEMMA VerifyStepKeepsInv ==
    ASSUME PlatformIndInv,
           ReadbackUnavailable \/ (Verifying /\ \E o \in Readbacks : Readback(o))
    PROVE  PlatformIndInv'
<1> USE DEF PlatformIndInv
<1>1. /\ call' = call /\ controls' = controls /\ applied' = applied /\ report' = report
      /\ machine' = machine /\ manifest' = manifest
      /\ pc = "verify" /\ pc' = pc /\ position' = position + 1
      /\ position <= Len(controls)
  BY DEF ReadbackUnavailable, Verifying, Readback, controls
<1>2. PICK n \in Nat, p \in Nat, c \in Controls :
        /\ n = Len(controls) /\ p = position /\ p \in 1 .. n
        /\ c = Current /\ c = controls[p] /\ c.value \in Values
  <2>1. controls \in Seq(Controls) /\ position \in 1 .. Len(controls)
    BY <1>1, CallFacts DEF PlatformShape, VerifyLoop
  <2>2. controls[position] \in Controls /\ controls[position].value \in Values
    BY <2>1, CallFacts
  <2>. QED  BY <2>1, <2>2 DEF Current
<1>3. PICK status \in {"verified", "verification_failed", "stale"} :
        /\ verification' = Verified(status)
        /\ status = "verified" => machine[c.target] = c.value
  <2>1. CASE ReadbackUnavailable
    BY <2>1 DEF ReadbackUnavailable
  <2>2. CASE Verifying /\ \E o \in Readbacks : Readback(o)
    <3>1. PICK o \in Readbacks : verification' = Verified(readback_status(o))
      BY <2>2 DEF Readback
    <3>2. readback_status(o) \in {"verified", "verification_failed", "stale"}
      BY DEF readback_status
    <3>3. ASSUME readback_status(o) = "verified" PROVE machine[c.target] = c.value
      <4>1. ~ o.stale /\ o.mechanism = Current.check /\ o.value = c.value
        BY <1>2, <3>3 DEF readback_status
      <4>2. o.value \in {machine[Current.target], NoValue}
        BY <3>1, <4>1 DEF Readbacks
      <4>3. c.value # NoValue
        BY <1>2, PlatformAssumption
      <4>. QED  BY <1>2, <4>1, <4>2, <4>3
    <3>. QED  BY <3>1, <3>2, <3>3
  <2>. QED  BY <2>1, <2>2
<1>4. /\ verification' \in Verifications
      /\ verification'.complete => verification.complete /\ status = "verified"
  <2>1. /\ verification.steps \in Seq(Steps)
        /\ {verification.complete, verification.match} \subseteq BOOLEAN
    BY DEF PlatformShape, Verifications
  <2>2. PICK e \in Steps : e = Step(Current, status)
    BY <1>2, StepFacts
  <2>3. PICK t \in Seq(Steps) : t = Append(verification.steps, e)
    <3>1. PICK v \in Seq(Steps) : v = verification.steps
      BY <2>1
    <3>. QED  BY <2>2, <3>1, AppendedStep
  <2>4. PICK complete \in BOOLEAN, match \in BOOLEAN :
          /\ complete = (verification.complete /\ status = "verified")
          /\ match = (verification.match /\ (status = "verified" \/ ~ Current.mandatory))
    OBVIOUS
  <2>5. verification' = [complete |-> complete, match |-> match, steps |-> t]
    BY <1>3, <2>2, <2>3, <2>4 DEF Verified
  <2>. QED  BY <2>4, <2>5 DEF Verifications
<1>5. PlatformShape'
  BY <1>1, <1>2, <1>4 DEF PlatformShape
<1>6. VerifyLoop'
  <2>1. position' - 1 = p /\ position' >= 1
    BY <1>1, <1>2
  <2>2. ASSUME verification'.complete, NEW i \in 1 .. p
        PROVE  machine[controls[i].target] = controls[i].value
    <3>1. i = p \/ i \in 1 .. p - 1
      OBVIOUS
    <3>2. verification.complete /\ status = "verified"
      BY <1>4, <2>2
    <3>3. i \in 1 .. p - 1 => machine[controls[i].target] = controls[i].value
      BY <1>1, <1>2, <3>2 DEF VerifyLoop
    <3>. QED  BY <1>2, <1>3, <3>1, <3>2, <3>3
  <2>. QED  BY <1>1, <2>1, <2>2 DEF VerifyLoop
<1>. QED  BY <1>1, <1>5, <1>6 DEF ApplyLoop, RestoreLoop, CompleteMeansClean, CleanPass,
            VerdictIsJustified

LEMMA EmitKeepsInv ==
    ASSUME PlatformIndInv, emit_manifest
    PROVE  PlatformIndInv'
<1> USE DEF PlatformIndInv
<1>1. /\ call' = call /\ controls' = controls /\ applied' = applied /\ report' = report
      /\ machine' = machine /\ position' = position /\ verification' = verification
      /\ pc = "verified" /\ pc' = "done"
      /\ manifest' \in {"refused", "eligible", "ineligible"}
      /\ manifest' = "eligible" => eligible
  BY DEF emit_manifest, controls
<1>2. PlatformShape'
  BY <1>1 DEF PlatformShape
<1>3. eligible => eligible'
  BY <1>1 DEF eligible, validate_requested_state, required_controls, control_valid,
             capability_for
<1>. QED  BY <1>1, <1>2, <1>3 DEF ApplyLoop, RestoreLoop, CompleteMeansClean, CleanPass,
            VerifyLoop, VerdictIsJustified

-----------------------------------------------------------------------------
\* Every step of the three calls keeps the invariant.
THEOREM PlatformInvariant == Spec => []PlatformIndInv
<1>1. PlatformIndInv /\ [Next]_vars => PlatformIndInv'
  <2> SUFFICES ASSUME PlatformIndInv, [Next]_vars PROVE PlatformIndInv'
    OBVIOUS
  <2>1. CASE UNCHANGED vars
    BY <2>1 DEF vars, PlatformIndInv, PlatformShape, ApplyLoop, RestoreLoop,
       CompleteMeansClean, CleanPass, VerifyLoop, VerdictIsJustified, eligible, controls,
       validate_requested_state, required_controls, control_valid, capability_for
  <2>2. CASE Returned
    BY <2>1, <2>2 DEF Returned
  <2>. QED  BY <2>1, <2>2, UnappliedKeepsInv, LoopStepKeepsInv, FailureKeepsInv,
              RestoreStepKeepsInv, BetweenLoopsKeepsInv, VerifyStepKeepsInv, EmitKeepsInv
           DEF Next
<1>. QED  BY <1>1, InitKeepsInv, PTL DEF Spec

\* A rollback that reports every control as restored has brought every target
\* it touched back to what was recorded for the first control that changed it
\* (restore_platform_state), for every request.
THEOREM RollbackIsExact == Spec => []PlatformInv
<1>1. PlatformIndInv => PlatformInv
  <2> SUFFICES ASSUME PlatformIndInv PROVE PlatformInv
    OBVIOUS
  <2>1. PlatformTypeOK
    <3>1. /\ report.steps \in Seq(Steps) /\ report.restoration \in Seq(Steps)
          /\ {report.complete, report.attempted, report.restored} \subseteq BOOLEAN
      BY DEF PlatformIndInv, PlatformShape, Reports
    <3>2. /\ verification.steps \in Seq(Steps)
          /\ {verification.complete, verification.match} \subseteq BOOLEAN
      BY DEF PlatformIndInv, PlatformShape, Verifications
    <3>. QED  BY <3>1, <3>2 DEF PlatformIndInv, PlatformShape, PlatformTypeOK
  <2>2. RollbackRestoresRecord
    BY DEF PlatformIndInv, RestoreLoop, RollbackRestoresRecord
  <2>. QED  BY <2>1, <2>2 DEF PlatformInv
<1>. QED  BY <1>1, PlatformInvariant, PTL

\* An eligible manifest means that the machine is as requested, control by
\* control and all at the same time, and that one clean pass under authority
\* made it so (verify_requested_state, emit_manifest), for every request.
THEOREM EligibleIsInForce == Spec => []EligibleMeansInForce
<1>1. PlatformIndInv => EligibleMeansInForce
  <2> SUFFICES ASSUME PlatformIndInv, manifest = "eligible"
               PROVE  EligibleMeansInForce
    BY DEF EligibleMeansInForce, EligibleMeansAsRequested, EligibleMeansApplied
  <2>1. pc = "done" /\ eligible
    BY DEF PlatformIndInv, VerdictIsJustified
  <2>2. EligibleMeansAsRequested
    BY <2>1 DEF PlatformIndInv, VerifyLoop, EligibleMeansAsRequested, eligible
  <2>3. CleanPass(Len(controls))
    BY <2>1 DEF PlatformIndInv, CompleteMeansClean, eligible
  <2>4. \A i \in 1 .. Len(applied) : applied[i].authority
    <3>1. PICK place \in [1 .. Len(applied) -> 1 .. Len(controls)] :
            \A k \in 1 .. Len(applied) :
              applied[k] = controls[place[k]] /\ controls[place[k]].mutating
      BY <2>3 DEF CleanPass, MutatingInOrder
    <3>2. \A i \in 1 .. Len(controls) : controls[i].mutating => controls[i].authority
      BY <2>1 DEF eligible, validate_requested_state, control_valid
    <3>. QED  BY <3>1, <3>2
  <2>5. EligibleMeansApplied
    BY <2>3, <2>4 DEF CleanPass, EligibleMeansApplied
  <2>. QED  BY <2>2, <2>5 DEF EligibleMeansInForce
<1>. QED  BY <1>1, PlatformInvariant, PTL
=============================================================================

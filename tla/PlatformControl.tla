-------------------------- MODULE PlatformControl --------------------------
(***************************************************************************)
(* platform/platform.cpp: apply_requested_state with the rollback of       *)
(* restore_platform_state, then verify_requested_state, then the verdict   *)
(* of emit_manifest on both reports.                                       *)
(*                                                                         *)
(* The actuator, the verifier and the machine they act on are external: an *)
(* operation that fails may have changed its target all the same, and a    *)
(* readback may be unavailable, stale or by another mechanism.  Texts and  *)
(* identities count only as given or not; the checks of the placement are  *)
(* one verdict of the request; a step's evidence and detail are left out.  *)
(***************************************************************************)
EXTENDS Integers, Sequences

CONSTANTS
    Calls,          \* arguments to try, see IsCall
    Targets,        \* what controls act on
    Values,         \* values of a target
    RequiredKinds   \* control kinds every manifest needs, hardware_prefetch included

NoValue == "no value"
Prior == [value : Values \cup {NoValue}, fresh : BOOLEAN]
Statuses == {"read_only", "external_authority_required", "unavailable",
             "mapping_unresolved"}
Controls ==
    [id : STRING, kind : STRING, target : Targets, value : Values,
     mandatory : BOOLEAN, mutating : BOOLEAN,
     filled : BOOLEAN,          \* no identity, target, value or mechanism is empty
     authority : BOOLEAN,       \* authority and actuation mechanism are given
     act : STRING, check : STRING]  \* mechanisms of actuation and verification

\* controls: the request's; bound: it names this inventory snapshot; sound: its
\* identity, hardware state and placement pass; prior: observations by control,
\* possibly none; capability: by kind; mode and actuator: how it is applied;
\* context: whether the manifest's own fields and the inventory are complete.
IsCall(c) ==
    /\ DOMAIN c = {"controls", "bound", "sound", "prior", "capability", "mode",
                   "actuator", "context"}
    /\ c.controls \in Seq(Controls)
    /\ c.mode \in {"dry_run", "authorized_apply"}
    /\ {c.bound, c.sound, c.actuator, c.context} \subseteq BOOLEAN
    /\ \A id \in DOMAIN c.prior : c.prior[id] \in Prior
    /\ \A kind \in DOMAIN c.capability : c.capability[kind] \in Statuses

ASSUME PlatformAssumption ==
    /\ NoValue \notin Values
    /\ "hardware_prefetch" \in RequiredKinds
    /\ \A c \in Calls : IsCall(c)

VARIABLES
    call,           \* the arguments
    machine,        \* the value of each target
    pc,             \* apply, restore, applied, verify, verified, done
    position,       \* of the loop over the controls
    applied,        \* the vector of controls that were applied
    report,         \* ApplyReport, with its RestorationReport
    verification,   \* VerificationReport
    manifest        \* none, refused, eligible, ineligible

vars == <<call, machine, pc, position, applied, report, verification, manifest>>

controls == call.controls
Current == controls[position]
Step(control, status) == [id |-> control.id, status |-> status]

Init ==
    /\ call \in Calls
    /\ machine \in [Targets -> Values]
    \* A fresh observation was true when it was made.
    /\ \A i \in 1 .. Len(controls) :
         controls[i].id \in DOMAIN call.prior =>
             LET seen == call.prior[controls[i].id]
             IN  seen.fresh /\ seen.value # NoValue =>
                     seen.value = machine[controls[i].target]
    /\ pc = "apply"
    /\ position = 1
    /\ applied = << >>
    /\ report = [complete |-> TRUE, steps |-> << >>, attempted |-> FALSE,
                 restored |-> TRUE, restoration |-> << >>]
    /\ verification = [complete |-> TRUE, match |-> TRUE, steps |-> << >>]
    /\ manifest = "none"

-----------------------------------------------------------------------------
(* apply_requested_state.                                                  *)

Reported(status) == [report EXCEPT !.steps = Append(@, Step(Current, status))]

DryRun ==
    /\ pc = "apply" /\ call.mode = "dry_run"
    /\ report' = [report EXCEPT !.steps =
                    [i \in 1 .. Len(controls) |-> Step(controls[i], "planned")]]
    /\ pc' = "applied"
    /\ UNCHANGED <<call, machine, position, applied, verification, manifest>>

NoActuator ==
    /\ pc = "apply" /\ call.mode = "authorized_apply" /\ ~ call.actuator
    /\ report' = [report EXCEPT !.complete = FALSE]
    /\ pc' = "applied"
    /\ UNCHANGED <<call, machine, position, applied, verification, manifest>>

Applying ==
    /\ pc = "apply" /\ call.mode = "authorized_apply" /\ call.actuator
    /\ position <= Len(controls)

observation_for(control) == control.id \in DOMAIN call.prior

ObserveOnly ==
    /\ Applying /\ ~ Current.mutating
    /\ report' = Reported("planned")
    /\ position' = position + 1
    /\ UNCHANGED <<call, machine, pc, applied, verification, manifest>>

\* A failure ends the loop and starts restore_platform_state, from the last
\* applied control back.
BeginRestore ==
    /\ report' = [Reported("apply_failed") EXCEPT !.complete = FALSE,
                                                  !.attempted = applied # << >>]
    /\ pc' = "restore"
    /\ position' = Len(applied)
    /\ UNCHANGED applied

NoPreState ==
    /\ Applying /\ Current.mutating
    /\ ~ observation_for(Current)
    /\ BeginRestore
    /\ UNCHANGED <<call, machine, verification, manifest>>

ApplySucceeds ==
    /\ Applying /\ Current.mutating
    /\ observation_for(Current)
    /\ machine' = [machine EXCEPT ![Current.target] = Current.value]
    /\ report' = Reported("applied")
    /\ applied' = Append(applied, Current)
    /\ position' = position + 1
    /\ UNCHANGED <<call, pc, verification, manifest>>

ApplyFails(v) ==
    /\ Applying /\ Current.mutating
    /\ observation_for(Current)
    /\ machine' = [machine EXCEPT ![Current.target] = v]
    /\ BeginRestore
    /\ UNCHANGED <<call, verification, manifest>>

ApplyReturns ==
    /\ pc = "apply" /\ call.mode = "authorized_apply" /\ call.actuator
    /\ position > Len(controls)
    /\ pc' = "applied"
    /\ UNCHANGED <<call, machine, position, applied, report, verification, manifest>>

-----------------------------------------------------------------------------
(* restore_platform_state: every applied control is tried, whatever failed *)
(* before it.                                                              *)

Restoring == pc = "restore" /\ position > 0

\* Mutant: the rollback goes through the controls in the order of application.
UndoFirstApplied == applied[Len(applied) + 1 - position]

Undo == applied[position]
Restored(status) ==
    [report EXCEPT !.restoration = Append(@, Step(Undo, status)),
                   !.restored = @ /\ status = "restored"]
HasPreState == observation_for(Undo) /\ call.prior[Undo.id].value # NoValue

NothingToRestoreTo ==
    /\ Restoring /\ ~ HasPreState
    /\ report' = Restored("restoration_failed")
    /\ position' = position - 1
    /\ UNCHANGED <<call, machine, pc, applied, verification, manifest>>

RestoreSucceeds ==
    /\ Restoring /\ HasPreState
    /\ machine' = [machine EXCEPT ![Undo.target] = call.prior[Undo.id].value]
    /\ report' = Restored("restored")
    /\ position' = position - 1
    /\ UNCHANGED <<call, pc, applied, verification, manifest>>

\* Mutant: a failed restoration is tried again.
RestoreFailsRetried(v) ==
    /\ Restoring /\ HasPreState
    /\ machine' = [machine EXCEPT ![Undo.target] = v]
    /\ report' = Restored("restoration_failed")
    /\ UNCHANGED <<call, pc, position, applied, verification, manifest>>

RestoreFails(v) ==
    /\ Restoring /\ HasPreState
    /\ machine' = [machine EXCEPT ![Undo.target] = v]
    /\ report' = Restored("restoration_failed")
    /\ position' = position - 1
    /\ UNCHANGED <<call, pc, applied, verification, manifest>>

RestoreReturns ==
    /\ pc = "restore" /\ position = 0
    /\ pc' = "applied"
    /\ UNCHANGED <<call, machine, position, applied, report, verification, manifest>>

-----------------------------------------------------------------------------
(* verify_requested_state.                                                 *)

\* Between the two calls anything may happen to the machine.
Drift(t, v) ==
    /\ pc = "applied"
    /\ machine' = [machine EXCEPT ![t] = v]
    /\ UNCHANGED <<call, pc, position, applied, report, verification, manifest>>

BeginVerify ==
    /\ pc = "applied"
    /\ pc' = "verify"
    /\ position' = 1
    /\ UNCHANGED <<call, machine, applied, report, verification, manifest>>

Verifying == pc = "verify" /\ position <= Len(controls)

Verified(status) ==
    [complete |-> verification.complete /\ status = "verified",
     match |-> verification.match /\ (status = "verified" \/ ~ Current.mandatory),
     steps |-> Append(verification.steps, Step(Current, status))]

ReadbackUnavailable ==
    /\ Verifying
    /\ verification' = Verified("verification_failed")
    /\ position' = position + 1
    /\ UNCHANGED <<call, machine, pc, applied, report, manifest>>

\* What a verifier may return: by its declared mechanism and for the request's
\* snapshot and epoch it tells the target's value, or that there is none.
Readbacks ==
    {o \in [value : Values \cup {NoValue}, stale : BOOLEAN, evidence : BOOLEAN,
            mechanism : {Current.check, Current.act}] :
        ~ o.stale /\ o.mechanism = Current.check =>
            o.value \in {machine[Current.target], NoValue}}

\* Mutant: a readback of another snapshot or epoch is as good as a fresh one.
readback_status_any_epoch(o) ==
    IF /\ o.mechanism = Current.check
       /\ Current.mutating => o.mechanism # Current.act
       /\ o.value = Current.value
       /\ o.evidence
    THEN "verified"
    ELSE "verification_failed"

readback_status(o) ==
    IF o.stale THEN "stale"
    ELSE IF /\ o.mechanism = Current.check
            /\ Current.mutating => o.mechanism # Current.act
            /\ o.value = Current.value
            /\ o.evidence
         THEN "verified"
    ELSE "verification_failed"

Readback(o) ==
    /\ Verifying
    /\ verification' = Verified(readback_status(o))
    /\ position' = position + 1
    /\ UNCHANGED <<call, machine, pc, applied, report, manifest>>

VerifyReturns ==
    /\ pc = "verify" /\ position > Len(controls)
    /\ pc' = "verified"
    /\ UNCHANGED <<call, machine, position, applied, report, verification, manifest>>

-----------------------------------------------------------------------------
(* emit_manifest.                                                          *)

capability_for(kind) ==
    IF kind \in DOMAIN call.capability THEN call.capability[kind] ELSE "unavailable"

\* The checks of one control.
control_valid(c) ==
    /\ c.filled
    /\ c.mutating => c.authority /\ c.act # c.check
    /\ capability_for(c.kind) \notin {"unavailable", "mapping_unresolved"}
    /\ c.mutating => capability_for(c.kind) # "read_only"

validate_requested_state ==
    /\ call.bound /\ call.sound
    /\ \A i, j \in 1 .. Len(controls) : controls[i].id = controls[j].id => i = j
    /\ \A i \in 1 .. Len(controls) : control_valid(controls[i])
    /\ \E i \in 1 .. Len(controls) : controls[i].kind = "hardware_prefetch"

\* Every kind that a manifest needs is requested as mandatory.
required_controls ==
    \A kind \in RequiredKinds :
        \E i \in 1 .. Len(controls) : controls[i].kind = kind /\ controls[i].mandatory

\* Mutant: a rolled-back request is judged by its readback alone.
eligible_by_readback ==
    /\ call.mode = "authorized_apply"
    /\ validate_requested_state /\ required_controls
    /\ verification.complete /\ verification.match

eligible ==
    /\ call.mode = "authorized_apply"
    /\ validate_requested_state /\ required_controls
    /\ report.complete /\ ~ report.attempted
    /\ verification.complete /\ verification.match

emit_manifest ==
    /\ pc = "verified"
    /\ manifest' =
         IF \/ ~ call.context \/ ~ call.bound
            \/ Len(report.steps) # Len(controls)
            \/ Len(verification.steps) # Len(controls)
         THEN "refused"
         ELSE IF eligible THEN "eligible" ELSE "ineligible"
    /\ pc' = "done"
    /\ UNCHANGED <<call, machine, position, applied, report, verification>>

-----------------------------------------------------------------------------
\* The three calls have returned.
Returned == pc = "done" /\ UNCHANGED vars

Next ==
    \/ DryRun \/ NoActuator \/ ObserveOnly \/ NoPreState \/ ApplySucceeds
    \/ \E v \in Values : ApplyFails(v) \/ RestoreFails(v)
    \/ ApplyReturns \/ NothingToRestoreTo \/ RestoreSucceeds \/ RestoreReturns
    \/ \E t \in Targets, v \in Values : Drift(t, v)
    \/ BeginVerify \/ ReadbackUnavailable
    \/ Verifying /\ \E o \in Readbacks : Readback(o)
    \/ VerifyReturns \/ emit_manifest \/ Returned

Spec == Init /\ [][Next]_vars

-----------------------------------------------------------------------------
(* Properties.                                                             *)

Steps == [id : STRING, status : {"planned", "applied", "apply_failed", "verified",
            "verification_failed", "stale", "restored", "restoration_failed"}]

PlatformTypeOK ==
    /\ machine \in [Targets -> Values]
    /\ pc \in {"apply", "restore", "applied", "verify", "verified", "done"}
    /\ position \in 0 .. Len(controls) + 1
    /\ Len(report.restoration) <= Len(applied) /\ Len(applied) <= Len(controls)
    /\ report.steps \in Seq(Steps) /\ report.restoration \in Seq(Steps)
    /\ verification.steps \in Seq(Steps)
    /\ {report.complete, report.attempted, report.restored, verification.complete,
        verification.match} \subseteq BOOLEAN
    /\ manifest \in {"none", "refused", "eligible", "ineligible"}

\* An eligible manifest describes the machine: every control of the request,
\* mandatory or not, has its requested value at the same time, although the
\* controls were applied and read back one by one, may share a target, and
\* anything could happen in between (verify_requested_state, emit_manifest).
EligibleMeansAsRequested ==
    manifest = "eligible" =>
        \A i \in 1 .. Len(controls) : machine[controls[i].target] = controls[i].value

\* chosen is the mutating controls among the first n of a request, each once
\* and in the request's order.
MutatingInOrder(chosen, request, n) ==
    \E place \in [1 .. Len(chosen) -> 1 .. n] :
        /\ \A k \in 1 .. Len(chosen) :
             chosen[k] = request[place[k]] /\ request[place[k]].mutating
        /\ \A k, l \in 1 .. Len(chosen) : k < l => place[k] < place[l]
        /\ \A i \in 1 .. n : request[i].mutating =>
             \E k \in 1 .. Len(chosen) : place[k] = i

\* An eligible manifest comes from one clean pass: every mutating control was
\* applied under authority, nothing failed and nothing was rolled back, even
\* where the readback alone looks right (apply_requested_state, emit_manifest).
EligibleMeansApplied ==
    manifest = "eligible" =>
        /\ MutatingInOrder(applied, controls, Len(controls))
        /\ \A i \in 1 .. Len(applied) : applied[i].authority
        /\ report.restoration = << >>
        /\ \A i \in 1 .. Len(report.steps) : report.steps[i].status # "apply_failed"

\* A rollback reported as complete has brought every target it touched back to
\* what was recorded for the first control that changed it, also where several
\* controls changed one target and where the control that failed has left its
\* mark on it (restore_platform_state's reverse order).
RollbackRestoresRecord ==
    pc = "restore" /\ position = 0 /\ report.restored =>
        \A i \in 1 .. Len(applied) :
            (\A j \in 1 .. i - 1 : applied[j].target # applied[i].target) =>
                machine[applied[i].target] = call.prior[applied[i].id].value

\* Where a rollback leaves the machine: a complete one has brought back every
\* recorded value (restore_platform_state).
PlatformInv == PlatformTypeOK /\ RollbackRestoresRecord

\* What an eligible manifest means: the machine is as requested, and every
\* mutating control was applied under authority in one clean pass
\* (verify_requested_state, emit_manifest).
EligibleMeansInForce == EligibleMeansAsRequested /\ EligibleMeansApplied
=============================================================================

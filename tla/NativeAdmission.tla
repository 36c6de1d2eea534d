--------------------------- MODULE NativeAdmission ---------------------------
(***************************************************************************)
(* A native installation as a whole: the prepared storage, the staged      *)
(* packages behind a closed network gate, the admission that opens it, the *)
(* operator's recovery approvals and the first administrator               *)
(* (internal/installapply/admission*.go, continuation*.go,                 *)
(* native_runtime*.go, native_operator*.go, native_completed*.go,          *)
(* native_setup_registration_linux.go).                                    *)
(*                                                                         *)
(* Every boot runs the chain gate, finalize, verify-storage, mount, admit;  *)
(* one that fails stops the chain.  The installation lock admits one        *)
(* process; the quarantine (close the gate, stop the consumers) needs no    *)
(* lock.  The gate is a nftables table: it is gone after a reboot.          *)
(***************************************************************************)
EXTENDS NativeOnboarding, Installation, Bootstrap

CONSTANTS MaxApprovals, MaxAttempts

VARIABLES
  mounted,      \* the hosting tree is mounted in this boot
  adm,          \* the admission record: phase, attempt, boot
  approval,     \* the operator's recovery approval
  approvals,    \* how many were given
  registered,   \* the setup registration is on disk
  inspected     \* a rerun of the installer saw a completed installation

admissionVars == <<mounted, adm, approval, approvals, registered, inspected>>
vars == <<storageVars, onboardingVars, installVars, bootstrapVars, admissionVars>>

ASSUME AdmissionAssumption == MaxApprovals \in Nat /\ MaxAttempts \in Nat

NoAdmission == [phase |-> "none", attempt |-> 0, boot |-> 0]
NoApproval == [status |-> "none", review |-> [adm |-> NoAdmission, pkg |-> NoPackages]]

Init ==
  /\ InitStorage /\ InitOnboarding /\ InitInstall /\ InitBootstrap
  /\ mounted = FALSE /\ adm = NoAdmission /\ approval = NoApproval /\ approvals = 0
  /\ registered = FALSE /\ inspected = FALSE

storageUnchanged ==
  UNCHANGED <<host, ram, env, fs, fstab, quota, grub, grubDisk, files, conversions>> /\ UNCHANGED onboardingVars

-----------------------------------------------------------------------------
(* The gate, the units of a boot, the quarantine.                          *)

Quarantining == [kind |-> "quarantine", step |-> "none"]
StopConsumers == running' = {} /\ RequestsLost /\ UNCHANGED <<codes, admin, limiter>>

\* The gate unit; without it neither the storage nor a consumer is started.
GateUnit ==
  /\ proc.kind = "boot" /\ proc.step = "gate"
  /\ \/ CloseGate /\ Step("finalize") /\ UNCHANGED faults
     \/ Fault /\ proc' = NoProc /\ UNCHANGED gate
  /\ storageUnchanged /\ UNCHANGED st /\ UNCHANGED <<installVars, bootstrapVars, admissionVars>>

\* The distribution's package enables nginx, the services' stage the others.
Enabled == {s \in {"nginx", "services"} : IF s = "nginx" THEN installed["packages"] # "none" ELSE installed[s] = "whole"}

\* The mounted tree lets the enabled consumers start, behind the gate.
MountUnit ==
  /\ proc.kind = "boot" /\ proc.step = "mount" /\ mounted' = TRUE
  /\ running' \in {running, Enabled}
  /\ proc' = [kind |-> "admit", step |-> "admit", recovery |-> NoApproval.review]
  /\ storageUnchanged /\ UNCHANGED <<st, gate, faults, pkg, installed, adm, approval, approvals, registered, inspected>> /\ UNCHANGED bootstrapVars

\* The unit is started once more in the same boot.
StartAdmit ==
  /\ Up /\ proc = NoProc /\ host.step = "none" /\ mounted /\ (gate = "open" => adm.phase = "recovery")
  /\ adm.attempt < MaxAttempts
  /\ \/ CloseGate /\ proc' = [kind |-> "admit", step |-> "admit", recovery |-> NoApproval.review] /\ UNCHANGED faults
     \/ Fault /\ proc' = Quarantining /\ UNCHANGED gate
  /\ storageUnchanged /\ UNCHANGED st /\ UNCHANGED <<installVars, bootstrapVars, admissionVars>>

\* Closing the gate and stopping the consumers are tried both; one or both may fail.
quarantine ==
  \/ CloseGate /\ StopConsumers /\ UNCHANGED faults
  \/ /\ Fault /\ gate' \in {gate, "closed"} /\ running' \in SUBSET running
     /\ IF "services" \in running' THEN UNCHANGED tries ELSE RequestsLost
     /\ UNCHANGED <<codes, admin, limiter>>

\* ExecStopPost of an admission that did not end well.
Quarantine ==
  /\ proc.kind = "quarantine" /\ quarantine /\ proc' = NoProc
  /\ storageUnchanged /\ UNCHANGED <<st, pkg, installed>> /\ UNCHANGED admissionVars

-----------------------------------------------------------------------------
(* The operator's approval of one more attempt.                            *)

Review == [adm |-> adm, pkg |-> pkg]

\* A started installation that was not admitted goes on only with an approval.
needsAdmissionRecovery == adm # NoAdmission /\ (adm.phase # "admitted" \/ pkg.status # "complete")

\* native-installation approve: for exactly the state that was reviewed; a pending
\* approval of another state has to be cancelled first.
manageNative ==
  /\ Up /\ proc = NoProc /\ host.step = "none"
  /\ \/ /\ st.phase = "ready" /\ needsAdmissionRecovery /\ approvals < MaxApprovals
        /\ approval.status # "pending" /\ approval' = [status |-> "pending", review |-> Review] /\ approvals' = approvals + 1
     \/ approval.status = "pending" /\ approval' = [approval EXCEPT !.status = "cancelled"] /\ UNCHANGED approvals
  /\ storageUnchanged /\ UNCHANGED <<st, gate, proc, faults, mounted, adm, registered, inspected>> /\ UNCHANGED <<installVars, bootstrapVars>>

\* A refused admission ends in the quarantine.
Refused ==
  /\ proc' = Quarantining
  /\ UNCHANGED <<gate, running, pkg, installed, approval, adm>> /\ UNCHANGED bootstrapVars

\* The approval is spent before anything is installed; a stale one is refused.
takeRecoveryApproval ==
  /\ proc.kind = "admit" /\ proc.step = "admit"
  /\ \/ /\ approval.status = "pending" /\ needsAdmissionRecovery /\ approval.review = Review
        /\ approval' = [approval EXCEPT !.status = "consumed"]
        /\ proc' = [proc EXCEPT !.step = "decide", !.recovery = Review]
        /\ UNCHANGED <<gate, pkg, installed, running, adm>> /\ UNCHANGED bootstrapVars
     \/ approval.status = "pending" /\ ~(needsAdmissionRecovery /\ approval.review = Review) /\ Refused
     \/ /\ approval.status # "pending" /\ Step("decide")
        /\ UNCHANGED <<gate, pkg, installed, running, adm, approval>> /\ UNCHANGED bootstrapVars
  /\ storageUnchanged /\ UNCHANGED <<st, faults, mounted, approvals, registered, inspected>>

-----------------------------------------------------------------------------
(* One attempt (admissionCoordinator.run).                                 *)

AttemptSteps == {"check", "install", "stage", "apply", "verified", "register", "receipt", "final", "open", "opened"}

\* Mutation: an installation that was admitted in an earlier boot is opened again.
BeginAttempt_Trusting ==
  /\ proc.step = "decide" /\ gate = "closed"
  /\ IF adm.phase = "admitted" /\ pkg.status = "complete"
     THEN Step("open") /\ UNCHANGED <<adm, gate, pkg, installed, running, approval>> /\ UNCHANGED bootstrapVars
     ELSE IF needsAdmissionRecovery => proc.recovery = Review
     THEN /\ adm' = [phase |-> "checking", attempt |-> adm.attempt + 1, boot |-> host.boot]
          /\ Step("check") /\ UNCHANGED <<gate, pkg, installed, running, approval>> /\ UNCHANGED bootstrapVars
     ELSE Refused
  /\ storageUnchanged /\ UNCHANGED <<st, faults, mounted, approvals, registered, inspected>>

\* A new attempt is recorded before its first check.
BeginAttempt ==
  /\ proc.step = "decide" /\ gate = "closed"
  /\ IF needsAdmissionRecovery => proc.recovery = Review
     THEN /\ adm' = [phase |-> "checking", attempt |-> adm.attempt + 1, boot |-> host.boot]
          /\ Step("check") /\ UNCHANGED <<gate, pkg, installed, running, approval>> /\ UNCHANGED bootstrapVars
     ELSE Refused
  /\ storageUnchanged /\ UNCHANGED <<st, faults, mounted, approvals, registered, inspected>>

\* The end of an attempt that went wrong: the quarantine and, if it can be saved,
\* recovery-required.  The unit's ExecStopPost tries a failed quarantine again.
Fails == Step("cleanup") /\ UNCHANGED <<gate, running, adm>> /\ UNCHANGED bootstrapVars
Cleanup ==
  /\ proc.step = "cleanup" /\ quarantine /\ proc' = (IF faults' = faults THEN NoProc ELSE Quarantining)
  /\ adm' \in {adm, [adm EXCEPT !.phase = "recovery"]}
  /\ storageUnchanged /\ UNCHANGED <<st, pkg, installed, mounted, approval, approvals, registered, inspected>>

\* The storage is live and ready before the installation and after it; only then,
\* and with the gate still closed, the installation is admitted.
CheckStorage ==
  /\ proc.step \in {"check", "final"}
  /\ IF MustBeReady /\ gate = "closed"
     THEN /\ IF proc.step = "check" THEN Step("install") /\ UNCHANGED adm
             ELSE adm' = [adm EXCEPT !.phase = "admitted"] /\ Step("open")
          /\ UNCHANGED <<gate, running, st>> /\ UNCHANGED bootstrapVars
     ELSE (IF MustBeReady THEN UNCHANGED st ELSE recoverState) /\ Fails
  /\ storageUnchanged /\ UNCHANGED <<faults, pkg, installed, mounted, approval, approvals, registered, inspected>>

\* The binding is sealed and the journal begun, or an installed release is started.
continueInstallation ==
  /\ proc.step = "install"
  /\ pkg' = IF pkg = NoPackages THEN [pkg EXCEPT !.status = "pending"] ELSE pkg
  /\ IF pkg.done >= 8 THEN startForAdmission ELSE UNCHANGED running
  /\ Step("stage")
  /\ storageUnchanged /\ UNCHANGED <<st, gate, faults, installed, mounted, adm, approval, approvals, registered, inspected>> /\ UNCHANGED bootstrapVars

\* Complete stages are verified only, then the next one is applied.
Done == {orderedStages[i] : i \in 1..pkg.done}
Install ==
  /\ proc.step = "stage" /\ \A s \in Done : Verify(s, installed, running)
  /\ IF pkg.done = Count
     THEN pkg' = [pkg EXCEPT !.status = "complete"] /\ Step("register")
     ELSE pkg' = [pkg EXCEPT !.status = "pending", !.next = "applying"] /\ Step("apply")
  /\ storageUnchanged /\ UNCHANGED <<st, gate, faults, installed, running, mounted, adm, approval, approvals, registered, inspected>> /\ UNCHANGED bootstrapVars

\* A complete stage is no longer what it was, for instance because a quarantine
\* stopped what it had started; the last check of all stages fails the journal, too.
VerifyFails ==
  /\ proc.step = "stage" /\ \E s \in Done : ~Verify(s, installed, running)
  /\ Fails
  /\ \/ UNCHANGED pkg
     \/ pkg.done = Count /\ pkg.status = "pending" /\ pkg' = [pkg EXCEPT !.status = "failed"]
  /\ storageUnchanged /\ UNCHANGED <<st, faults, installed, mounted, approval, approvals, registered, inspected>>

ApplyStage ==
  /\ proc.step = "apply"
  /\ installed' = Apply(NextStage, installed) /\ running' = RunningAfter(NextStage)
  /\ Verify(NextStage, installed', running') /\ Step("verified")
  /\ storageUnchanged /\ UNCHANGED <<st, gate, faults, pkg, mounted, adm, approval, approvals, registered, inspected>> /\ UNCHANGED bootstrapVars

\* The stage refuses what it finds, or one of its commands fails.
StageFails ==
  /\ proc.step = "apply"
  /\ \/ installed' = Apply(NextStage, installed) /\ ~Verify(NextStage, installed', RunningAfter(NextStage)) /\ UNCHANGED faults
     \/ Fault /\ \E left \in AfterFailure(NextStage) : installed' = [installed EXCEPT ![NextStage] = left]
  /\ running' \in RunningWithin(NextStage)
  /\ pkg' = [pkg EXCEPT !.next = "failed", !.status = "failed"] /\ Step("cleanup")
  /\ storageUnchanged /\ UNCHANGED <<st, gate, mounted, adm, approval, approvals, registered, inspected>> /\ UNCHANGED bootstrapVars

StageComplete ==
  /\ proc.step = "verified" /\ pkg' = [pkg EXCEPT !.done = @ + 1, !.next = "pending"] /\ Step("stage")
  /\ storageUnchanged /\ UNCHANGED <<st, gate, faults, installed, running, mounted, adm, approval, approvals, registered, inspected>> /\ UNCHANGED bootstrapVars

\* The digest of the sealed setup code is registered once; the retry of an import
\* whose receipt was lost succeeds while the code is active.
registerNativeSetup ==
  /\ \/ proc.step = "register" /\ registered /\ Step("final") /\ UNCHANGED <<registered, codes, gate, running, adm, tries, admin, limiter>>
     \/ /\ proc.step = "register" /\ ~registered
        /\ IF platformAdministratorExistsTx \/ codes["sealed"] \in {"expired", "invalid", "used"}
              \/ (codes["sealed"] = "none" /\ codes["local"] = "active")
           THEN Fails /\ UNCHANGED registered
           ELSE /\ registerBootstrapDigest("sealed", FALSE, TRUE, codes') /\ Step("receipt")
                /\ UNCHANGED <<registered, gate, running, adm, tries, admin, limiter>>
     \/ proc.step = "receipt" /\ registered' = TRUE /\ Step("final") /\ UNCHANGED <<codes, gate, running, adm, tries, admin, limiter>>
  /\ storageUnchanged /\ UNCHANGED <<st, faults, pkg, installed, mounted, approval, approvals, inspected>>

\* The gate is opened, and the attempt ends when it was seen open.
OpenGate ==
  /\ \/ proc.step = "open" /\ gate' = "open" /\ Step("opened")
     \/ proc.step = "opened" /\ proc' = NoProc /\ UNCHANGED gate
  /\ UNCHANGED <<running, adm>> /\ UNCHANGED bootstrapVars
  /\ storageUnchanged /\ UNCHANGED <<st, faults, pkg, installed, mounted, approval, approvals, registered, inspected>>

\* A command outside of the stages fails.
AttemptFails ==
  /\ Fault /\ proc.step \in AttemptSteps \ {"apply"} /\ Fails
  /\ storageUnchanged /\ UNCHANGED <<st, pkg, installed, mounted, approval, approvals, registered, inspected>>

\* The admission is killed: systemd runs the quarantine, and the record says "checking".
AdmitKilled ==
  /\ Fault /\ proc.kind \in {"admit", "recheck"} /\ proc' = Quarantining
  /\ IF proc.step = "apply" THEN Interrupted(installed') /\ running' \in RunningWithin(NextStage) ELSE UNCHANGED <<installed, running>>
  /\ storageUnchanged /\ UNCHANGED <<st, gate, pkg>> /\ UNCHANGED <<bootstrapVars, admissionVars>>

-----------------------------------------------------------------------------
(* The installer is run again on a completed installation.                 *)

completedNativeManifest ==
  /\ st.phase = "ready" /\ adm.phase = "admitted" /\ pkg.status = "complete"
  /\ registered /\ approval.status # "pending" /\ evidence = "selected"

\* The inspection takes the lock (between two units of a boot, or later), the check
\* that follows is another process.
InspectCompleted ==
  /\ Up /\ (proc = NoProc \/ proc.step = "mount") /\ host.step = "none" /\ ~inspected /\ completedNativeManifest /\ inspected' = TRUE
  /\ storageUnchanged /\ UNCHANGED <<st, gate, proc, faults, mounted, adm, approval, approvals, registered>> /\ UNCHANGED <<installVars, bootstrapVars>>

\* The gate is closed first.  Without the lock, or if the installation is no longer a
\* completed one, the check ends in the quarantine.
RunNativeServiceRecheck ==
  /\ Up /\ host.step = "none" /\ inspected /\ inspected' = FALSE
  /\ IF proc = NoProc /\ completedNativeManifest
     THEN /\ adm.attempt < MaxAttempts
          /\ \/ CloseGate /\ proc' = [kind |-> "recheck", step |-> "decide", recovery |-> NoApproval.review] /\ UNCHANGED faults
             \/ Fault /\ proc' = Quarantining /\ UNCHANGED gate
          /\ UNCHANGED running /\ UNCHANGED bootstrapVars
     ELSE quarantine /\ UNCHANGED proc
  /\ storageUnchanged /\ UNCHANGED <<st, pkg, installed, mounted, adm, approval, approvals, registered>>

-----------------------------------------------------------------------------
\* What a shutdown or a power loss takes along.
HostSteps ==
  /\ Storage
  /\ IF Up /\ ~(host'.mode = "up")
     THEN /\ mounted' = FALSE /\ running' = {} /\ inspected' = FALSE /\ RequestsLost
          /\ IF proc.step = "apply" THEN Interrupted(installed') ELSE UNCHANGED installed
     ELSE UNCHANGED <<mounted, running, inspected, tries, installed>>
  /\ UNCHANGED <<pkg, adm, approval, approvals, registered, codes, admin, limiter>>

\* Requests come in through the gate and go on behind a closed one; the local command needs the installed binary.
Administrator ==
  /\ \/ "services" \in running /\ (BootstrapRequest \/ (gate = "open" /\ RequestArrives))
     \/ Up /\ installed["payload"] = "whole" /\ CreateBootstrapCapability
     \/ Expire
  /\ UNCHANGED <<storageVars, onboardingVars, installVars, admissionVars>>

Next ==
  \/ HostSteps
  \/ Onboarding /\ UNCHANGED <<installVars, bootstrapVars, admissionVars>>
  \/ GateUnit \/ MountUnit \/ StartAdmit \/ Quarantine \/ manageNative \/ takeRecoveryApproval
  \/ BeginAttempt \/ CheckStorage \/ continueInstallation \/ Install \/ VerifyFails \/ ApplyStage \/ StageFails \/ StageComplete
  \/ registerNativeSetup \/ OpenGate \/ AttemptFails \/ AdmitKilled \/ Cleanup
  \/ InspectCompleted \/ RunNativeServiceRecheck \/ Administrator

Spec == Init /\ [][Next]_vars

-----------------------------------------------------------------------------
(* Properties.                                                             *)

\* The world reaches a service only when the storage is converted, live and recorded
\* ready, every stage is installed, the setup code is registered, and the admission
\* of this very boot got through all its checks; a gate that is merely absent is never
\* in front of a running consumer.  (The record says recovery-required instead of
\* admitted when the look at the opened gate and the quarantine after it both failed.)
ServedIsAdmitted ==
  running # {} /\ gate # "closed" =>
    /\ gate = "open" /\ st.phase = "ready" /\ fs = "converted" /\ quota /\ fstab = "after"
    /\ adm.phase \in {"admitted", "recovery"} /\ adm.boot = host.boot /\ pkg.status = "complete" /\ registered
    /\ \A s \in Stages : installed[s] = "whole"

\* An installation that was interrupted or failed is continued only with an approval
\* for exactly the recorded state, and that approval is on disk as spent before the
\* attempt begins: no crash lets one approval allow two attempts.
ApprovalSpent ==
  [][adm'.attempt > adm.attempt /\ needsAdmissionRecovery => approval.status = "consumed" /\ approval.review = Review]_vars
==============================================================================

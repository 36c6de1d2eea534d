-------------------------- MODULE NativeOnboarding --------------------------
(***************************************************************************)
(* From the operator's review to the armed boot                            *)
(* (internal/installapply/native_onboarding*.go, source_*.go,              *)
(* native_recovery_choice*.go, native_prerequisites*.go, native_host*.go,  *)
(* native_setup*.go, prepareNativeBoot, cmd/stackfort-installer).          *)
(*                                                                         *)
(* One process runs from the review to the reboot.  What it writes is      *)
(* created exclusively: the verified source, the selection, the setup      *)
(* commitment, the recovery choice, the prerequisites' journal, the        *)
(* runtime, the manifest and the storage journal.  A process that stops    *)
(* leaves evidence that every later onboarding refuses.  The package       *)
(* locks are held from the choice on, but for the two calls of apt.        *)
(***************************************************************************)
EXTENDS StoragePreparation

VARIABLES
  evidence,     \* the staged source: none, partial or selected
  setup,        \* the commitment of the setup code is on disk
  choice,       \* the recovery choice: the host that the operator reviewed
  prereq,       \* the prerequisites' journal
  policy,       \* policy-rc.d of this operation is on disk
  sealed        \* runtime, manifest and units

onboardingVars == <<evidence, setup, choice, prereq, policy, sealed>>
recordsUnchanged == UNCHANGED <<host, ram, fs, fstab, quota, grub, grubDisk, files, conversions>>

Nothing == [layout |-> MaxDrift + 1]
NoPrerequisites == [phase |-> "none"]

InitOnboarding ==
  evidence = "none" /\ setup = FALSE /\ choice = Nothing /\ prereq = NoPrerequisites /\ policy = FALSE /\ sealed = {}

-----------------------------------------------------------------------------
(* The host and its package manager.                                       *)

GapSteps == {"update", "apt", "delta"}
GuardSteps == {"prerequisites", "plan", "seal", "manifest", "journal", "units", "arm", "reboot"} \union ArmSteps

\* dpkg's locks: held by the preparation, and while the finalisation decides.
acquireNativePackageGuard == proc.step \in GuardSteps \union ResumeSteps \/ (proc.step = "finalize" /\ st.phase # "ready")

\* Somebody else installs a package; it may change what the host boots.
PackageWriter ==
  /\ Up /\ ~acquireNativePackageGuard /\ env.other < MaxDrift /\ st.phase # "ready"
  /\ \E l \in {env.layout, env.layout + 1} : env' = [env EXCEPT !.other = @ + 1, !.layout = l]
  /\ UNCHANGED <<fs, gate, st, proc, faults>> /\ UNCHANGED onboardingVars /\ recordsUnchanged

\* A fresh host: unconverted storage, no boot artifact of an earlier operation.
inspectNativeHost == fs = "plain" /\ fstab = "before" /\ files = {}

\* What the operator reviews, and what the later checks compare with.
nativeHostLayout == env.layout
nativeHostPackages == [other |-> env.other, tools |-> env.tools]
Snapshot == [layout |-> nativeHostLayout, packages |-> nativeHostPackages, boot |-> host.boot]

\* The same boot layout; the packages are compared by checkNativePackageDelta.
sameNativeHost(a, b) == a.layout = b.layout /\ a.boot = b.boot
checkNativePackageDelta(a, b) == b.packages = [a.packages EXCEPT !.tools = TRUE]

-----------------------------------------------------------------------------
(* The release that is installed.                                          *)

Bundles == {"whole", "incomplete", "unattested", "mismatched"}
InspectSource(b) == b # "incomplete"
verifyOriginCommand(b) == b # "unattested"
matchOriginArchive(b) == b # "mismatched"

\* Another state of the directory than an empty one is evidence, and is refused.
FreshState == evidence = "none" /\ st = NoJournal

\* The source is inspected, then copied; its receipt is written last.
Prepare ==
  /\ Up /\ proc = NoProc /\ host.step = "none" /\ FreshState /\ inspectNativeHost
  /\ \E b \in Bundles :
       IF InspectSource(b)
       THEN evidence' = "partial" /\ proc' = [kind |-> "onboard", step |-> "origin", bundle |-> b, review |-> Snapshot]
       ELSE UNCHANGED <<evidence, proc>>
  /\ UNCHANGED <<env, st, gate, faults, setup, choice, prereq, policy, sealed>> /\ recordsUnchanged

\* The archive is attested and is the archive of the staged source; the selection
\* is saved after that, and the host is reviewed.
BindOrigin ==
  /\ proc.step = "origin"
  /\ IF verifyOriginCommand(proc.bundle) /\ matchOriginArchive(proc.bundle) /\ inspectNativeHost
     THEN evidence' = "selected" /\ proc' = [proc EXCEPT !.step = "consent", !.review = Snapshot]
     ELSE proc' = NoProc /\ UNCHANGED evidence
  /\ UNCHANGED <<env, st, gate, faults, setup, choice, prereq, policy, sealed>> /\ recordsUnchanged

\* The operator declines, or acknowledges the review and gets the setup code; the
\* commitment is saved once the host is found as it was reviewed.
prepareWithHandoff ==
  /\ proc.step = "consent"
  /\ \/ proc' = NoProc /\ UNCHANGED setup
     \/ /\ evidence = "selected" /\ ~setup /\ st = NoJournal
        /\ IF inspectNativeHost /\ Snapshot = proc.review THEN setup' = TRUE /\ Step("choice")
           ELSE proc' = NoProc /\ UNCHANGED setup
  /\ UNCHANGED <<env, st, gate, faults, evidence, choice, prereq, policy, sealed>> /\ recordsUnchanged

\* The package locks are taken, the host is inspected again and must still be the
\* one that the decision names.
startNativeRecoveryChoice ==
  /\ proc.step = "choice"
  /\ IF inspectNativeHost /\ Snapshot = proc.review /\ choice = Nothing
     THEN choice' = Snapshot /\ Step("prerequisites")
     ELSE proc' = NoProc /\ UNCHANGED choice
  /\ UNCHANGED <<env, st, gate, faults, evidence, setup, prereq, policy, sealed>> /\ recordsUnchanged

-----------------------------------------------------------------------------
(* The prerequisites.                                                      *)

SavePrereq(phase) == prereq' = [prereq EXCEPT !.phase = phase]
PrereqFails == SavePrereq("recovery") /\ proc' = NoProc

BeginPrerequisites ==
  /\ proc.step = "prerequisites" /\ prereq = NoPrerequisites /\ Snapshot = choice
  /\ prereq' = [phase |-> "checking", before |-> Snapshot]
  /\ Step(IF env.tools THEN "delta" ELSE "update")
  /\ UNCHANGED <<env, st, gate, faults, evidence, setup, choice, policy, sealed>> /\ recordsUnchanged

\* After apt update: the plan is for the host that was inspected before.
PlanPrerequisites ==
  /\ proc.step = "update"
  /\ IF Snapshot = prereq.before
     THEN SavePrereq("applying") /\ policy' = TRUE /\ Step("apt")
     ELSE PrereqFails /\ UNCHANGED policy
  /\ UNCHANGED <<env, st, gate, faults, evidence, setup, choice, sealed>> /\ recordsUnchanged

\* apt's hook: the transaction is the plan, and nothing has changed since.
CheckNativePrerequisiteTransaction == prereq.phase = "applying" /\ Snapshot = prereq.before

ApplyPrerequisites ==
  /\ proc.step = "apt"
  /\ policy' = FALSE
  /\ IF CheckNativePrerequisiteTransaction
     THEN env' = [env EXCEPT !.tools = TRUE] /\ Step("delta") /\ UNCHANGED prereq
     ELSE PrereqFails /\ UNCHANGED env
  /\ UNCHANGED <<st, gate, faults, evidence, setup, choice, sealed>> /\ recordsUnchanged

\* With the locks again: the same boot layout, and exactly the planned packages.
ensureNativePrerequisites ==
  /\ proc.step = "delta"
  /\ IF sameNativeHost(prereq.before, Snapshot) /\ checkNativePackageDelta(prereq.before, Snapshot)
     THEN SavePrereq("complete") /\ Step("seal") ELSE PrereqFails
  /\ UNCHANGED <<env, st, gate, faults, evidence, setup, choice, policy, sealed>> /\ recordsUnchanged

PrerequisitesFail ==
  /\ Fault /\ proc.step \in GapSteps /\ PrereqFails /\ policy' = FALSE
  /\ UNCHANGED <<env, st, gate, evidence, setup, choice, sealed>> /\ recordsUnchanged

-----------------------------------------------------------------------------
(* Sealing.                                                                *)

\* The intent that is sealed has the boot baseline of the recovery choice.
checkNativeRecoveryChoiceData == choice.layout = nativeHostLayout /\ choice.boot = host.boot

SealNativeRuntime ==
  /\ proc.step = "seal"
  /\ IF checkNativeRecoveryChoiceData /\ inspectNativeHost
     THEN sealed' = {"runtime"} /\ Step("manifest") ELSE proc' = NoProc /\ UNCHANGED sealed
  /\ UNCHANGED <<env, st, gate, faults, evidence, setup, choice, prereq, policy>> /\ recordsUnchanged

\* The manifest is on disk before the journal of its plan begins.
SealManifest ==
  /\ \/ proc.step = "manifest" /\ sealed' = sealed \union {"manifest"} /\ Step("journal") /\ UNCHANGED st
     \/ /\ proc.step = "journal" /\ "manifest" \in sealed /\ st = NoJournal
        /\ st' = [phase |-> "planned", boot |-> host.boot, layout |-> env.layout, other |-> env.other]
        /\ Step("units") /\ UNCHANGED sealed
  /\ UNCHANGED <<env, gate, faults, evidence, setup, choice, prereq, policy>> /\ recordsUnchanged

\* The gate is closed before a unit exists that could start a consumer.
prepareNativeBoot ==
  /\ proc.step = "units" /\ CloseGate
  /\ sealed' = sealed \union {"units"} /\ Step("arm")
  /\ UNCHANGED <<env, st, faults, evidence, setup, choice, prereq, policy>> /\ recordsUnchanged

\* An operator arms by hand what a stopped onboarding had planned.
ArmByHand ==
  /\ Up /\ proc = NoProc /\ host.step = "none" /\ "units" \in sealed /\ st.phase \in {"planned", "awaiting"}
  /\ proc' = [kind |-> "arm", step |-> "arm"] /\ CloseGate
  /\ UNCHANGED <<env, st, faults>> /\ UNCHANGED onboardingVars /\ recordsUnchanged

\* The onboarding is killed; what it wrote stays.
Killed ==
  /\ Fault /\ proc.kind \in {"onboard", "arm"} /\ proc' = NoProc
  /\ UNCHANGED <<env, st, gate>> /\ UNCHANGED onboardingVars /\ recordsUnchanged

Onboarding ==
  \/ PackageWriter \/ Prepare \/ BindOrigin \/ prepareWithHandoff \/ startNativeRecoveryChoice
  \/ BeginPrerequisites \/ PlanPrerequisites \/ ApplyPrerequisites \/ ensureNativePrerequisites \/ PrerequisitesFail
  \/ SealNativeRuntime \/ SealManifest \/ prepareNativeBoot \/ ArmByHand \/ Killed

\* The boot's units are started when they were installed.
Storage ==
  /\ \/ RunNativeBootArm \/ BuildImage \/ Arm \/ ArmFails
     \/ RebootHost \/ ShutDown \/ Reboot \/ PowerLoss \/ SwitchOff \/ GrubBoot("units" \in sealed)
     \/ EarlyAuthorise \/ EarlyRefusesPartial \/ EarlyFlush \/ EarlyConvert \/ EarlyProof("units" \in sealed) \/ EarlyFails
     \/ Advance \/ Resume \/ ResumeFails \/ VerifyStorage
  /\ UNCHANGED onboardingVars

-----------------------------------------------------------------------------
(* Properties.                                                             *)

\* Whatever is lost or fails, the root filesystem is never mounted while its
\* conversion is unfinished: custom.cfg leads every boot into the image, and the
\* image goes on only with a filesystem that it converted and checked.
RootIsWhole == Up => fs # "partial"

\* The conversion is started at most once, also when the power goes while GRUB's
\* write of the consumed latch is in the device's cache (nativeBootEarly).
ConvertedOnce == conversions <= 1

\* The filesystem is converted only on a host that boots what the operator reviewed,
\* with the setup code committed: packages that change the boot layout after the
\* decision stop the conversion.
ConsentedConversion ==
  [][conversions' > conversions => setup /\ prereq.phase = "complete" /\ env.layout = choice.layout /\ "custom" \in files]_<<storageVars, onboardingVars>>
=============================================================================

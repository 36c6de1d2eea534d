------------------------- MODULE StoragePreparation -------------------------
(***************************************************************************)
(* The one offline change of the native installation: project quotas are   *)
(* switched on in the unmounted root filesystem, once, during a boot that  *)
(* was armed before (internal/storageprep, internal/installapply/          *)
(* native_boot*.go, native_ready*.go).                                     *)
(*                                                                         *)
(* The storage journal (planned, arming, awaiting-reboot, verifying, ready  *)
(* or recovery-required) is replaced as a whole and fsynced.  GRUB's        *)
(* environment block is not: "grub" is what a reader sees, "grubDisk" what  *)
(* a power loss is sure to leave.  While custom.cfg exists GRUB boots the   *)
(* one-shot image, with the conversion's token if the latch is armed and    *)
(* not consumed, with the recovery token otherwise; that image mounts the   *)
(* root filesystem only after a conversion that it proved.  An              *)
(* administrator who picks another entry of the menu is not modelled.       *)
(***************************************************************************)
EXTENDS Naturals, FiniteSets

CONSTANTS
  MaxBoots,     \* boots of the host
  MaxFaults,    \* power losses, killed processes and failed commands
  MaxDrift      \* packages installed or changed by someone else

VARIABLES
  host,         \* power, boot number, chosen GRUB entry, step of the one-shot image
  ram,          \* files in /run of the current boot
  env,          \* boot layout, other packages and the prerequisites' packages
  fs,           \* the root filesystem: plain, partial (being converted) or converted
  fstab,        \* before or after the change
  quota,        \* project quotas are live on the mounted root
  grub,         \* GRUB's environment block as it is read
  grubDisk,     \* ... as it is on stable storage
  files,        \* the one-shot image, custom.cfg, the artifact receipt, the completion record
  st,           \* the storage journal
  gate,         \* the nftables admission gate
  conversions,  \* how often the quota conversion was started
  proc,         \* the process under the installation lock, or the boot's chain of units
  faults

storageVars == <<host, ram, env, fs, fstab, quota, grub, grubDisk, files, st, gate, conversions, proc, faults>>

ASSUME StorageAssumption == MaxBoots \in Nat \ {0} /\ MaxFaults \in Nat /\ MaxDrift \in Nat

NoJournal == [phase |-> "none"]
NoProc == [kind |-> "none", step |-> "none"]
Step(s) == proc' = [proc EXCEPT !.step = s]
Fault == faults < MaxFaults /\ faults' = faults + 1
Up == host.mode = "up"

InitStorage ==
  /\ host = [mode |-> "up", boot |-> 0, entry |-> "normal", step |-> "none"]
  /\ ram = {} /\ env \in [layout: {0}, other: {0}, tools: BOOLEAN]
  /\ fs = "plain" /\ fstab = "before" /\ quota = FALSE
  /\ grub = [armed |-> FALSE, next |-> FALSE, consumed |-> FALSE] /\ grubDisk = grub
  /\ files = {} /\ st = NoJournal /\ gate = "absent" /\ conversions = 0 /\ proc = NoProc /\ faults = 0

TypeOK ==
  /\ host \in [mode: {"off", "initramfs", "held", "up"}, boot: 0..MaxBoots, entry: {"normal", "convert", "recovery"},
               step: {"none", "stopping", "authorise", "flush", "convert", "finish", "proof"}]
  /\ ram \subseteq {"marker", "proof"}
  /\ env \in [layout: 0..MaxDrift, other: 0..MaxDrift, tools: BOOLEAN]
  /\ fs \in {"plain", "partial", "converted"} /\ fstab \in {"before", "after"} /\ quota \in BOOLEAN
  /\ {grub, grubDisk} \subseteq [armed: BOOLEAN, next: BOOLEAN, consumed: BOOLEAN]
  /\ files \subseteq {"image", "custom", "receipt", "completed"}
  /\ gate \in {"absent", "closed", "open"} /\ conversions \in 0..MaxBoots /\ faults \in 0..MaxFaults

-----------------------------------------------------------------------------
(* The storage journal.                                                    *)

\* A journal goes through its phases in order, or to recovery-required.
Follows == [planned |-> "arming", arming |-> "awaiting", awaiting |-> "verifying", verifying |-> "ready"]

\* A phase that cannot follow is refused, and so is a change of the plan.
ValidateTransition(p) ==
  \/ p = "recovery" \/ p = st.phase
  \/ st.phase \in DOMAIN Follows /\ p = Follows[st.phase]

Save(p) == ValidateTransition(p) /\ st' = [st EXCEPT !.phase = p]

recoverState == Save("recovery")

\* The boot and the layout that the plan names are the ones observed now.
SameLayout == env.layout = st.layout

\* The packages are those that the prerequisites' record ends with.
checkPackageBaseline == env.other = st.other /\ env.tools

CloseGate == gate' = "closed"

-----------------------------------------------------------------------------
(* Arming the next boot (native-boot arm).  The package locks are held from *)
(* the first check to the last one.                                        *)

ArmSteps == {"build", "config", "artifacts", "latch", "next", "sync", "armed"}

\* RunNativeBoot refuses another boot than the plan's and every later phase.
RunNativeBootArm ==
  /\ proc.step = "arm"
  /\ IF host.boot = st.boot /\ st.phase = "planned" THEN Save("arming") /\ Step("build")
     ELSE IF host.boot = st.boot /\ st.phase = "awaiting" THEN Step("reboot") /\ UNCHANGED st
     ELSE proc' = NoProc /\ UNCHANGED st
  /\ UNCHANGED <<host, ram, env, fs, fstab, quota, grub, grubDisk, files, gate, conversions, faults>>

\* The image is built from the sealed inputs while nothing of an earlier build is there.
BuildImage ==
  /\ proc.step = "build"
  /\ IF checkPackageBaseline /\ SameLayout /\ fstab = "before" /\ fs = "plain" /\ files = {}
     THEN files' = {"image"} /\ Step("config") /\ UNCHANGED st
     ELSE recoverState /\ proc' = NoProc /\ UNCHANGED files
  /\ UNCHANGED <<host, ram, env, fs, fstab, quota, grub, grubDisk, gate, conversions, faults>>

Arm ==
  /\ \/ proc.step = "config" /\ files' = files \union {"custom"} /\ Step("artifacts") /\ UNCHANGED <<grub, grubDisk, st>>
     \/ proc.step = "artifacts" /\ files' = files \union {"receipt"} /\ Step("latch") /\ UNCHANGED <<grub, grubDisk, st>>
     \/ proc.step = "latch" /\ grub' = [grub EXCEPT !.armed = TRUE] /\ Step("next") /\ UNCHANGED <<files, grubDisk, st>>
     \/ proc.step = "next" /\ grub' = [grub EXCEPT !.next = TRUE] /\ Step("sync") /\ UNCHANGED <<files, grubDisk, st>>
     \/ proc.step = "sync" /\ grubDisk' = grub /\ Step("armed") /\ UNCHANGED <<files, grub, st>>
     \/ proc.step = "armed" /\ Save("awaiting") /\ Step("reboot") /\ UNCHANGED <<files, grub, grubDisk>>
  /\ UNCHANGED <<host, ram, env, fs, fstab, quota, gate, conversions, faults>>

\* A command of the arming fails: nothing is undone, the journal says so.
ArmFails ==
  /\ Fault /\ proc.step \in ArmSteps
  /\ recoverState \/ UNCHANGED st
  /\ proc' = NoProc
  /\ UNCHANGED <<host, ram, env, fs, fstab, quota, grub, grubDisk, files, gate, conversions>>

-----------------------------------------------------------------------------
(* Shutdown, power loss, GRUB.                                             *)

PowerOff(g) ==
  /\ host' = [host EXCEPT !.mode = "off", !.step = "none"]
  /\ grub' = g /\ grubDisk' = g
  /\ ram' = {} /\ quota' = FALSE /\ gate' = "absent" /\ proc' = NoProc
  /\ UNCHANGED <<env, fs, fstab, files, st, conversions>>

\* The reboot that ends the preparation: the request frees the package locks, the
\* orderly shutdown that follows writes everything.
RebootHost ==
  /\ Up /\ proc.step = "reboot" /\ proc' = NoProc /\ host' = [host EXCEPT !.step = "stopping"]
  /\ UNCHANGED <<ram, env, fs, fstab, quota, grub, grubDisk, files, st, gate, conversions, faults>>

ShutDown == Up /\ host.step = "stopping" /\ PowerOff(grub) /\ UNCHANGED faults

\* An administrator reboots the host.
Reboot == Up /\ Fault /\ PowerOff(grub)

PowerLoss == Fault /\ host.mode \in {"initramfs", "up"} /\ \E g \in {grub, grubDisk} : PowerOff(g)

\* A host that is held in its image is switched off by an operator.
SwitchOff == Fault /\ host.mode = "held" /\ PowerOff(grub)

\* Mutation: custom.cfg has no recovery entry, a consumed latch boots normally.
Entry_Normal ==
  IF "custom" \notin files THEN "normal"
  ELSE IF grub.armed /\ ~grub.consumed THEN "convert" ELSE "normal"

Entry ==
  IF "custom" \notin files THEN "normal"
  ELSE IF grub.armed /\ ~grub.consumed THEN "convert" ELSE "recovery"

\* The latch as GRUB leaves it; its save_env may fail.
Latched(g) ==
  \/ g = [grub EXCEPT !.next = FALSE]
  \/ Entry = "convert" /\ g = [armed |-> FALSE, next |-> FALSE, consumed |-> TRUE]

\* Units of a boot start when they were installed (see NativeAdmission).
BootedProc(units) == IF units THEN [kind |-> "boot", step |-> "gate"] ELSE NoProc

\* GRUB's header clears next_entry; the entry consumes the latch before it loads the image.
GrubBoot(units) ==
  /\ host.mode = "off" /\ host.boot < MaxBoots
  /\ Latched(grub')
  /\ host' = [mode |-> IF Entry = "normal" THEN "up" ELSE IF "image" \in files THEN "initramfs" ELSE "held",
              boot |-> host.boot + 1, entry |-> Entry,
              step |-> IF Entry # "normal" /\ "image" \in files THEN "authorise" ELSE "none"]
  /\ quota' = (Entry = "normal" /\ fstab = "after" /\ fs = "converted")
  /\ proc' = IF Entry = "normal" THEN BootedProc(units) ELSE NoProc
  /\ UNCHANGED <<ram, env, fs, fstab, grubDisk, files, st, gate, conversions, faults>>

-----------------------------------------------------------------------------
(* The one-shot image (native-boot early).  Whatever fails, the image's     *)
(* script never goes on to mount the root filesystem.                      *)

Image == host.mode = "initramfs"
Held == host' = [host EXCEPT !.mode = "held", !.step = "none"]
imageUnchanged == <<env, fstab, quota, grub, files, st, gate, proc>>

\* What dumpe2fs can show of a filesystem whose conversion stopped half-way.
nativeBootCheckDevice(converted) ==
  IF converted THEN fs = "converted" ELSE fs \in {"plain", "partial"}

\* The journal awaits this boot, of this layout, by the entry that spent the latch.
CheckBootAuthorization ==
  /\ st.phase = "awaiting" /\ SameLayout /\ host.boot # st.boot
  /\ host.entry = "convert"
  /\ grub = [armed |-> FALSE, next |-> FALSE, consumed |-> TRUE]

\* The records, the artifacts and fstab are those that the embedded intent names.
EarlyBindings == fstab = "before" /\ "receipt" \in files /\ ram = {}

EarlyAuthorise ==
  /\ Image /\ host.step = "authorise"
  /\ IF CheckBootAuthorization /\ nativeBootCheckDevice(FALSE) /\ EarlyBindings
     THEN host' = [host EXCEPT !.step = "flush"] ELSE Held
  /\ UNCHANGED <<ram, fs, grubDisk, conversions, faults>> /\ UNCHANGED imageUnchanged

\* A partial conversion that dumpe2fs does show is refused.
EarlyRefusesPartial ==
  /\ Image /\ host.step = "authorise" /\ fs = "partial" /\ Held
  /\ UNCHANGED <<ram, fs, grubDisk, conversions, faults>> /\ UNCHANGED imageUnchanged

\* Mutation: the latch that GRUB wrote is not flushed before the conversion.
EarlyFlush_Unflushed ==
  /\ Image /\ host.step = "flush"
  /\ ram' = ram \union {"marker"} /\ host' = [host EXCEPT !.step = "convert"]
  /\ UNCHANGED <<fs, grubDisk, conversions, faults>> /\ UNCHANGED imageUnchanged

\* The device is flushed, the latch read again; then the marker is written.
EarlyFlush ==
  /\ Image /\ host.step = "flush"
  /\ grubDisk' = grub
  /\ ram' = ram \union {"marker"} /\ host' = [host EXCEPT !.step = "convert"]
  /\ UNCHANGED <<fs, conversions, faults>> /\ UNCHANGED imageUnchanged

\* e2fsck, tune2fs, e2fsck: the filesystem is whole again when the last flush is done.
EarlyConvert ==
  /\ Image
  /\ \/ host.step = "convert" /\ fs' = "partial" /\ conversions' = conversions + 1 /\ host' = [host EXCEPT !.step = "finish"]
     \/ host.step = "finish" /\ fs' = "converted" /\ host' = [host EXCEPT !.step = "proof"] /\ UNCHANGED conversions
  /\ UNCHANGED <<ram, grubDisk, faults>> /\ UNCHANGED imageUnchanged

\* The proof names this boot; the image mounts the root filesystem and the units start.
EarlyProof(units) ==
  /\ Image /\ host.step = "proof" /\ nativeBootCheckDevice(TRUE)
  /\ ram' = {"proof"} /\ host' = [host EXCEPT !.mode = "up", !.step = "none"]
  /\ proc' = BootedProc(units)
  /\ UNCHANGED <<env, fs, fstab, quota, grub, grubDisk, files, st, gate, conversions, faults>>

EarlyFails ==
  /\ Fault /\ Image /\ Held
  /\ UNCHANGED <<ram, fs, grubDisk, conversions>> /\ UNCHANGED imageUnchanged

-----------------------------------------------------------------------------
(* Finalisation, in the boot of the conversion and, as a check, in every    *)
(* later one (native-boot finalize, native-service verify-storage).         *)

VerifyBoot ==
  /\ SameLayout /\ host.entry = "convert" /\ ram = {"proof"}
  /\ {"image", "custom", "receipt"} \subseteq files
  /\ grub = [armed |-> FALSE, next |-> FALSE, consumed |-> TRUE]
  /\ fs = "converted" /\ fstab = "before"

\* Once the completion record is there the boot layout may change.
postConversionReady == "completed" \in files \/ SameLayout

VerifyReady ==
  /\ host.boot # st.boot /\ fs = "converted" /\ quota /\ fstab = "after"
  /\ postConversionReady /\ files \intersect {"image", "custom"} = {}
  /\ grub = [armed |-> FALSE, next |-> FALSE, consumed |-> TRUE]

\* storageprep.Advance on a journal that nobody works on: the phase it leaves.
AdvanceTo ==
  CASE st.phase = "ready" -> IF VerifyReady THEN "ready" ELSE "recovery"
    [] st.phase = "awaiting" /\ host.boot = st.boot -> "awaiting"
    [] st.phase = "awaiting" /\ host.boot # st.boot -> IF VerifyBoot THEN "verifying" ELSE "recovery"
    [] OTHER -> "recovery"

\* The package baseline is checked, with the package locks held, unless the storage is ready.
Advance ==
  /\ proc.step = "finalize"
  /\ IF st.phase \in {"none", "planned"} \/ (st.phase # "ready" /\ ~checkPackageBaseline)
     THEN proc' = NoProc /\ UNCHANGED st
     ELSE /\ Save(AdvanceTo)
          /\ CASE AdvanceTo = "ready" -> Step("verify")
               [] AdvanceTo = "verifying" -> Step("quota")
               [] OTHER -> proc' = NoProc
  /\ UNCHANGED <<host, ram, env, fs, fstab, quota, grub, grubDisk, files, gate, conversions, faults>>

ResumeSteps == {"quota", "fstab", "complete", "retire"}

\* The two one-shot files go in any order; the storage is ready only without them.
nativeBootRetire ==
  \/ \E f \in files \intersect {"image", "custom"} : files' = files \ {f} /\ UNCHANGED <<st, proc>>
  \/ /\ files \intersect {"image", "custom"} = {}
     /\ IF VerifyReady THEN Save("ready") /\ Step("verify") ELSE recoverState /\ proc' = NoProc
     /\ UNCHANGED files

Resume ==
  /\ \/ proc.step = "quota" /\ quota' = TRUE /\ Step("fstab") /\ UNCHANGED <<fstab, files, st>>
     \/ proc.step = "fstab" /\ fstab' = "after" /\ Step("complete") /\ UNCHANGED <<quota, files, st>>
     \/ proc.step = "complete" /\ files' = files \union {"completed"} /\ Step("retire") /\ UNCHANGED <<quota, fstab, st>>
     \/ proc.step = "retire" /\ nativeBootRetire /\ UNCHANGED <<quota, fstab>>
  /\ UNCHANGED <<host, ram, env, fs, grub, grubDisk, gate, conversions, faults>>

ResumeFails ==
  /\ Fault /\ proc.step \in ResumeSteps
  /\ recoverState /\ proc' = NoProc
  /\ UNCHANGED <<host, ram, env, fs, fstab, quota, grub, grubDisk, files, gate, conversions>>

\* AdvanceManifest for a journal that must be ready already.
MustBeReady == st.phase = "ready" /\ VerifyReady

\* native-service verify-storage, before the hosting tree is mounted.
VerifyStorage ==
  /\ proc.step = "verify"
  /\ IF MustBeReady THEN Step("mount") /\ UNCHANGED st ELSE recoverState /\ proc' = NoProc
  /\ UNCHANGED <<host, ram, env, fs, fstab, quota, grub, grubDisk, files, gate, conversions, faults>>
=============================================================================

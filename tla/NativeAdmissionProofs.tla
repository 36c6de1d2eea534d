------------------------ MODULE NativeAdmissionProofs ------------------------
(***************************************************************************)
(* A native installation, proved for any number of boots, faults, foreign   *)
(* packages, approvals, attempts and concurrent requests: the root          *)
(* filesystem is never mounted half converted, the conversion runs at most  *)
(* once, nothing is served before the admission of this boot, and one       *)
(* valid code creates the first administrator.                              *)
(***************************************************************************)
EXTENDS NativeAdmission, TLAPS

------------------------------------------------------------------------------
(* The process under the installation lock, and the chain of a boot.        *)

ArmingSteps == {"arm", "reboot"} \cup ArmSteps
OnboardSteps ==
  {"origin", "consent", "choice", "prerequisites", "update", "apt", "delta", "seal", "manifest", "journal",
   "units"} \cup ArmingSteps
BootSteps == {"gate", "finalize", "verify", "mount"} \cup ResumeSteps
AdmitSteps == {"admit", "decide"} \cup (AttemptSteps \ {"opened"})
LastSteps == {"opened", "cleanup"}

StepsOf(kind) ==
  CASE kind = "onboard" -> OnboardSteps
    [] kind = "arm" -> ArmingSteps
    [] kind = "boot" -> BootSteps
    [] kind \in {"admit", "recheck"} -> AdmitSteps \cup LastSteps
    [] kind \in {"none", "quarantine"} -> {"none"}

ProcInv ==
  /\ proc = [f \in DOMAIN proc |-> proc[f]] /\ {"kind", "step"} \subseteq DOMAIN proc
  /\ proc.kind \in {"none", "onboard", "arm", "boot", "admit", "recheck", "quarantine"}
  /\ proc.step \in StepsOf(proc.kind)
  /\ proc.kind = "none" => proc = NoProc
  /\ ~Up => proc = NoProc

------------------------------------------------------------------------------
(* The conversion.                                                          *)

\* The latch as the conversion's entry leaves it.
Spent == [armed |-> FALSE, next |-> FALSE, consumed |-> TRUE]

\* What holds once the conversion was started: the latch is spent, also on stable
\* storage, the journal is past the arming, and this boot's image is past it.
Started ==
  /\ conversions = 1
  /\ grub = Spent /\ grubDisk = Spent
  /\ st.phase \in {"awaiting", "verifying", "ready", "recovery"}
  /\ host.step \notin {"flush", "convert"}
  /\ host.step = "authorise" => host.entry # "convert"

ConversionInv ==
  /\ host = [f \in {"mode", "boot", "entry", "step"} |-> host[f]]
  /\ st = [f \in DOMAIN st |-> st[f]] /\ "phase" \in DOMAIN st
  /\ grub = [f \in {"armed", "next", "consumed"} |-> grub[f]]
  /\ grubDisk = [f \in {"armed", "next", "consumed"} |-> grubDisk[f]]
  /\ host.step \in {"authorise", "flush", "convert", "finish", "proof"} => Image
  /\ Image => "custom" \in files
  /\ fs = "partial" => ~Up /\ "custom" \in files
  /\ proc.step \in ArmSteps => st.phase = "arming"
  /\ host.step \in {"flush", "convert"} => grub = Spent /\ st.phase = "awaiting"
  /\ host.step = "convert" => grubDisk = Spent
  /\ conversions = 0 \/ Started

------------------------------------------------------------------------------
(* The gate and what is behind it.                                          *)

\* What an attempt has established when it comes to a step; its admission may be
\* turned into recovery-required by a failure after the gate was opened.
AttemptOf == adm.boot = host.boot
Installed == AttemptOf /\ pkg.status = "complete" /\ \A s \in Stages : installed[s] = "whole"
Admitted ==
  /\ Installed /\ registered /\ adm.phase \in {"admitted", "recovery"}
  /\ st.phase = "ready" /\ fs = "converted" /\ quota /\ fstab = "after"

\* The processes that start consumers do so behind the gate.
Behind == proc.step \in AdmitSteps \/ (proc.kind = "boot" /\ proc.step # "gate")

\* Where the gate may be open.
Quiet == proc.kind \in {"none", "quarantine"} \/ proc.step \in LastSteps

GateInv ==
  /\ adm = [f \in {"phase", "attempt", "boot"} |-> adm[f]]
  /\ pkg = [f \in {"status", "done", "next"} |-> pkg[f]]
  /\ Behind => gate = "closed"
  /\ running # {} => Up /\ gate # "absent"
  /\ gate = "open" => Up /\ Quiet /\ Admitted
  /\ gate \in {"absent", "closed", "open"}
  /\ proc.step \in AttemptSteps => AttemptOf
  /\ proc.step \in {"register", "receipt", "final", "open", "opened"} => Installed
  /\ proc.step \in {"final", "open", "opened"} => registered
  /\ proc.step \in {"open", "opened"} => Admitted

Inv == ProcInv /\ ConversionInv /\ GateInv

------------------------------------------------------------------------------
(* The process.                                                             *)

LEMMA KindOfStep ==
  ASSUME ProcInv
  PROVE  /\ proc.step \in OnboardSteps => proc.kind \in {"onboard", "arm"}
         /\ proc.step \in OnboardSteps \ ArmingSteps => proc.kind = "onboard"
         /\ proc.step \in BootSteps => proc.kind = "boot"
         /\ proc.step \in AdmitSteps \cup LastSteps => proc.kind \in {"admit", "recheck"}
         /\ proc.step # "none" => Up /\ proc # NoProc
  BY DEF ProcInv, StepsOf, OnboardSteps, ArmingSteps, ArmSteps, BootSteps, ResumeSteps, AdmitSteps, AttemptSteps, LastSteps, NoProc

\* The onboarding, the arming and the chain of a boot work behind no open gate.
LEMMA Outside ==
  ASSUME ProcInv, proc.kind \in {"onboard", "arm", "boot"}
  PROVE  ~Quiet
  BY DEF ProcInv, StepsOf, OnboardSteps, ArmingSteps, ArmSteps, BootSteps, ResumeSteps, LastSteps, Quiet

\* A process that goes on to another step of its kind.
LEMMA Goes ==
  ASSUME ProcInv, NEW s, Step(s), s \in StepsOf(proc.kind), Up, Up', proc.kind # "none"
  PROVE  ProcInv' /\ proc'.step = s /\ proc'.kind = proc.kind
  BY DEF ProcInv, Step, NoProc

LEMMA Ends ==
  ASSUME proc' = NoProc
  PROVE  ProcInv' /\ proc'.step = "none" /\ proc'.kind = "none" /\ ~Behind' /\ Quiet'
  BY DEF ProcInv, NoProc, StepsOf, Behind, Quiet, AdmitSteps, AttemptSteps

LEMMA Begins ==
  ASSUME NEW k \in {"onboard", "arm", "boot", "admit", "recheck", "quarantine"}, NEW s \in StepsOf(k), Up',
         proc' = [f \in DOMAIN proc' |-> proc'[f]], {"kind", "step"} \subseteq DOMAIN proc',
         proc'.kind = k, proc'.step = s
  PROVE  ProcInv'
  BY DEF ProcInv

------------------------------------------------------------------------------
(* Steps that leave the conversion alone.                                   *)

Converter == <<host, fs, grub, grubDisk, files, st, conversions>>

LEMMA ConversionStays ==
  ASSUME ConversionInv, UNCHANGED Converter, proc'.step \in ArmSteps => proc.step \in ArmSteps
  PROVE  ConversionInv'
  BY DEF ConversionInv, Converter, Started, Image, Up

\* The journal is saved by a process that is in none of the arming's later steps.
LEMMA ConversionSaved ==
  ASSUME ConversionInv, NEW p, Save(p), Up, UNCHANGED <<host, fs, grub, grubDisk, conversions>>,
         "custom" \in files => "custom" \in files' \/ fs # "partial",
         proc'.step \in ArmSteps => p = "arming"
  PROVE  ConversionInv' /\ st'.phase = p
<1>1. st' = [f \in DOMAIN st' |-> st'[f]] /\ "phase" \in DOMAIN st' /\ st'.phase = p
  BY DEF ConversionInv, Save
<1>2. host.step \notin {"authorise", "flush", "convert", "finish", "proof"}
  BY DEF ConversionInv, Image, Up
<1>3. fs # "partial"
  BY DEF ConversionInv
<1>4. Started => Started'
  BY <1>1, <1>2 DEF Save, ValidateTransition, Follows, Started, ConversionInv
<1> QED
  BY <1>1, <1>2, <1>3, <1>4 DEF ConversionInv, Image, Up

------------------------------------------------------------------------------
(* Steps of a process that is no admission.                                 *)

Consumers == <<pkg, installed, running, adm, registered>>

LEMMA GateOutside ==
  ASSUME GateInv, ~Quiet, UNCHANGED Consumers, host'.boot = host.boot, Up' = Up,
         gate' \in {gate, "closed"}, Behind' => gate' = "closed", proc'.step \notin AttemptSteps
  PROVE  GateInv'
<1>1. gate' # "open" /\ gate' \in {"absent", "closed", "open"} /\ (gate # "absent" => gate' # "absent")
  BY DEF GateInv
<1> QED
  BY <1>1 DEF GateInv, Consumers, AttemptSteps

------------------------------------------------------------------------------
(* The onboarding.                                                          *)

\* A step of the onboarding before the arming, or its end.
LEMMA OnboardGoes ==
  ASSUME Inv, proc.step \in OnboardSteps \ ArmingSteps, UNCHANGED Converter, UNCHANGED Consumers,
         gate' \in {gate, "closed"},
         \/ proc' = NoProc
         \/ \E s \in OnboardSteps \ ArmSteps : Step(s)
         \/ \E v : proc' = [proc EXCEPT !.step = "consent", !.review = v]
  PROVE  Inv'
<1> USE DEF Inv
<1>1. proc.kind = "onboard" /\ Up /\ ~Quiet /\ Up' /\ host' = host
  BY ZenonT(60), KindOfStep, Outside DEF Converter, Up, OnboardSteps, ArmingSteps, ArmSteps
<1>2. proc.step \notin ArmSteps
  BY ZenonT(60) DEF ArmingSteps
<1>3. ProcInv' /\ proc'.step \notin ArmSteps /\ proc'.step \notin AttemptSteps /\ ~Behind'
  <2>1. CASE proc' = NoProc
    BY <2>1, Ends DEF ArmSteps, AttemptSteps
  <2>2. CASE \E s \in OnboardSteps \ ArmSteps : Step(s)
    BY ZenonT(60), <1>1, <2>2, Goes DEF StepsOf, Behind, OnboardSteps, ArmingSteps, ArmSteps, AttemptSteps, AdmitSteps
  <2>3. CASE \E v : proc' = [proc EXCEPT !.step = "consent", !.review = v]
    <3>1. /\ proc' = [f \in DOMAIN proc' |-> proc'[f]] /\ {"kind", "step"} \subseteq DOMAIN proc'
          /\ proc'.kind = "onboard" /\ proc'.step = "consent"
      BY ZenonT(60), <1>1, <2>3 DEF ProcInv
    <3> QED
      BY ZenonT(60), <1>1, <3>1 DEF ProcInv, StepsOf, Behind, OnboardSteps, ArmSteps, AttemptSteps, AdmitSteps
  <2> QED
    BY ZenonT(60), <2>1, <2>2, <2>3
<1>4. ConversionInv'
  BY ZenonT(60), <1>3, ConversionStays
<1>5. GateInv'
  BY ZenonT(60), <1>1, <1>3, GateOutside
<1> QED
  BY ZenonT(60), <1>3, <1>4, <1>5

LEMMA OnboardingKeeps ==
  ASSUME Inv, Onboarding, UNCHANGED <<installVars, bootstrapVars, admissionVars>>
  PROVE  Inv'
<1> USE DEF Inv
<1>0. UNCHANGED Consumers
  BY DEF Consumers, installVars, admissionVars
<1>1. CASE PackageWriter
  BY <1>0, <1>1 DEF PackageWriter, recordsUnchanged, onboardingVars, ProcInv, ConversionInv, GateInv, Started, Image, Up,
     Behind, Admitted, Installed, AttemptOf, Consumers
<1>2. CASE Prepare
  <2> USE <1>2 DEF Prepare, recordsUnchanged
  <2>1. CASE proc' = proc
    BY <1>0, <2>1 DEF ProcInv, ConversionInv, GateInv, Started, Image, Up,
     Behind, Quiet, Admitted, Installed, AttemptOf, Consumers
  <2>2. CASE proc' # proc
    <3>1. PICK b, r : proc' = [kind |-> "onboard", step |-> "origin", bundle |-> b, review |-> r]
      BY <2>2
    <3>2. ProcInv' /\ ~Behind' /\ proc'.step = "origin"
      BY <3>1 DEF ProcInv, StepsOf, OnboardSteps, Behind, AdmitSteps, AttemptSteps, Up, NoProc
    <3>3. ConversionInv'
      BY <3>2, ConversionStays DEF Converter, ArmSteps
    <3>4. GateInv'
      <4>1. gate # "open"
        BY DEF FreshState, NoJournal, GateInv, Admitted
      <4> QED
        BY <1>0, <3>2, <4>1 DEF GateInv, Consumers, AttemptSteps, Up
    <3> QED
      BY <3>2, <3>3, <3>4
  <2> QED
    BY <2>1, <2>2
<1>3. CASE BindOrigin
  BY ZenonT(60), <1>0, <1>3, OnboardGoes DEF BindOrigin, recordsUnchanged, Converter, OnboardSteps, ArmingSteps, ArmSteps
<1>4. CASE prepareWithHandoff
  BY ZenonT(60), <1>0, <1>4, OnboardGoes DEF prepareWithHandoff, recordsUnchanged, Converter, OnboardSteps, ArmingSteps, ArmSteps
<1>5. CASE startNativeRecoveryChoice
  BY ZenonT(60), <1>0, <1>5, OnboardGoes DEF startNativeRecoveryChoice, recordsUnchanged, Converter, OnboardSteps, ArmingSteps, ArmSteps
<1>6. CASE BeginPrerequisites
  BY ZenonT(60), <1>0, <1>6, OnboardGoes DEF BeginPrerequisites, recordsUnchanged, Converter, OnboardSteps, ArmingSteps, ArmSteps
<1>7. CASE PlanPrerequisites
  BY ZenonT(60), <1>0, <1>7, OnboardGoes DEF PlanPrerequisites, PrereqFails, recordsUnchanged, Converter, OnboardSteps, ArmingSteps, ArmSteps
<1>8. CASE ApplyPrerequisites
  BY ZenonT(60), <1>0, <1>8, OnboardGoes DEF ApplyPrerequisites, PrereqFails, recordsUnchanged, Converter, OnboardSteps, ArmingSteps, ArmSteps
<1>9. CASE ensureNativePrerequisites
  BY ZenonT(60), <1>0, <1>9, OnboardGoes DEF ensureNativePrerequisites, PrereqFails, recordsUnchanged, Converter, OnboardSteps, ArmingSteps,
     ArmSteps
<1>10. CASE PrerequisitesFail
  BY <1>0, <1>10, OnboardGoes DEF PrerequisitesFail, PrereqFails, GapSteps, recordsUnchanged, Converter, OnboardSteps,
     ArmingSteps, ArmSteps
<1>11. CASE SealNativeRuntime
  BY ZenonT(60), <1>0, <1>11, OnboardGoes DEF SealNativeRuntime, recordsUnchanged, Converter, OnboardSteps, ArmingSteps, ArmSteps
<1>12. CASE SealManifest
  <2> USE <1>12 DEF SealManifest, recordsUnchanged
  <2>1. CASE proc.step = "manifest"
    BY ZenonT(60), <1>0, <2>1, OnboardGoes DEF Converter, OnboardSteps, ArmingSteps, ArmSteps
  <2>2. CASE proc.step = "journal"
    <3>1. proc.kind = "onboard" /\ Up /\ ~Quiet /\ Up'
      BY <2>2, KindOfStep, Outside DEF OnboardSteps, ArmingSteps, ArmSteps, Up
    <3>2. ProcInv' /\ proc'.step = "units" /\ ~Behind'
      BY <2>2, <3>1, Goes DEF StepsOf, OnboardSteps, Behind, AdmitSteps, AttemptSteps
    <3>3. /\ st' = [f \in DOMAIN st' |-> st'[f]] /\ "phase" \in DOMAIN st' /\ st'.phase = "planned" /\ st.phase = "none"
      BY <2>2 DEF NoJournal
    <3>4. ConversionInv'
      BY <3>1, <3>2, <3>3 DEF ConversionInv, Started, Image, Up, ArmSteps
    <3>5. GateInv'
      BY <1>0, <2>2, <3>1, <3>2, GateOutside DEF AttemptSteps
    <3> QED
      BY <3>2, <3>4, <3>5
  <2> QED
    BY <2>1, <2>2
<1>13. CASE prepareNativeBoot
  BY ZenonT(60), <1>0, <1>13, OnboardGoes DEF prepareNativeBoot, CloseGate, recordsUnchanged, Converter, OnboardSteps, ArmingSteps, ArmSteps
<1>14. CASE ArmByHand
  <2> USE <1>14 DEF ArmByHand, CloseGate, recordsUnchanged
  <2>1. ProcInv' /\ ~Behind' /\ proc'.step = "arm"
    BY DEF ProcInv, StepsOf, ArmingSteps, Behind, AdmitSteps, AttemptSteps, Up, NoProc
  <2>2. ConversionInv'
    BY <2>1, ConversionStays DEF Converter, ArmSteps
  <2>3. GateInv'
    BY <1>0, <2>1 DEF GateInv, Consumers, AttemptSteps, Up
  <2> QED
    BY <2>1, <2>2, <2>3
<1>15. CASE Killed
  <2> USE <1>15 DEF Killed, recordsUnchanged
  <2>1. ~Quiet
    BY Outside
  <2>2. ProcInv' /\ proc'.step = "none" /\ ~Behind'
    BY Ends
  <2>3. ConversionInv'
    BY <2>2, ConversionStays DEF Converter, ArmSteps
  <2>4. GateInv'
    BY <1>0, <2>1, <2>2, GateOutside DEF AttemptSteps, Up
  <2> QED
    BY <2>2, <2>3, <2>4
<1> QED
  BY <1>1, <1>2, <1>3, <1>4, <1>5, <1>6, <1>7, <1>8, <1>9, <1>10, <1>11, <1>12, <1>13, <1>14, <1>15 DEF Onboarding

------------------------------------------------------------------------------
(* The storage: arming and finalisation.                                    *)

\* A process of the arming or of the boot's chain goes on or ends; the gate stays.
LEMMA StorageGoes ==
  ASSUME ProcInv, GateInv, proc.step \in ArmingSteps \cup (BootSteps \ {"gate"}), UNCHANGED Consumers,
         host'.mode = host.mode, host'.boot = host.boot, gate' = gate,
         \/ proc' \in {proc, NoProc}
         \/ proc.step \in ArmingSteps /\ \E s \in ArmingSteps : Step(s)
         \/ proc.step \in BootSteps /\ \E s \in BootSteps : Step(s)
  PROVE  ProcInv' /\ GateInv'
<1>1. /\ Up /\ Up' /\ proc.kind \in {"onboard", "arm", "boot"}
      /\ proc.step \in ArmingSteps => proc.kind \in {"onboard", "arm"}
      /\ proc.step \in BootSteps => proc.kind = "boot" /\ gate = "closed"
  BY KindOfStep DEF Up, OnboardSteps, ArmingSteps, ArmSteps, BootSteps, ResumeSteps, GateInv, Behind
<1>2. ProcInv' /\ proc'.step \notin AttemptSteps /\ (Behind' => gate' = "closed")
  <2>1. CASE proc' = NoProc
    BY <2>1, Ends DEF AttemptSteps
  <2>2. CASE proc' = proc
    BY <1>1, <2>2 DEF ProcInv, Behind, AttemptSteps, ArmingSteps, ArmSteps, BootSteps, ResumeSteps, GateInv, Up
  <2>3. CASE proc.step \in ArmingSteps /\ \E s \in ArmingSteps : Step(s)
    BY <1>1, <2>3, Goes DEF StepsOf, OnboardSteps, Behind, AttemptSteps, AdmitSteps, ArmingSteps, ArmSteps
  <2>4. CASE proc.step \in BootSteps /\ \E s \in BootSteps : Step(s)
    BY <1>1, <2>4, Goes DEF StepsOf, Behind, AttemptSteps, BootSteps, ResumeSteps
  <2> QED
    BY <2>1, <2>2, <2>3, <2>4
<1> QED
  BY <1>1, <1>2, Outside, GateOutside

LEMMA ArmingKeeps ==
  ASSUME Inv, RunNativeBootArm \/ BuildImage \/ Arm \/ ArmFails \/ RebootHost, UNCHANGED Consumers
  PROVE  Inv'
<1> USE DEF Inv
<1>1. Up /\ proc.step \in ArmingSteps
  BY KindOfStep DEF RunNativeBootArm, BuildImage, Arm, ArmFails, RebootHost, ArmingSteps, ArmSteps
<1>2. CASE RunNativeBootArm
  <2> USE <1>2 DEF RunNativeBootArm
  <2>1. ProcInv' /\ GateInv'
    BY <1>1, StorageGoes DEF ArmingSteps, ArmSteps
  <2>2. CASE Save("arming")
    BY <2>1, <1>1, <2>2, ConversionSaved
  <2>3. CASE st' = st /\ (Step("reboot") \/ proc' = NoProc)
    <3>1. proc'.step \notin ArmSteps
      BY <2>3 DEF ArmSteps, Step, NoProc, ProcInv
    <3> QED
      BY <2>1, <2>3, <3>1, ConversionStays DEF Converter
  <2> QED
    BY <2>1, <2>2, <2>3
<1>3. CASE BuildImage
  <2> USE <1>3 DEF BuildImage
  <2>1. ProcInv' /\ GateInv'
    BY <1>1, StorageGoes DEF ArmingSteps, ArmSteps
  <2>2. fs # "partial" /\ host.step \notin {"authorise", "flush", "convert", "finish", "proof"}
    BY <1>1 DEF ConversionInv, Image, Up
  <2>3. CASE recoverState /\ proc' = NoProc
    BY <1>1, <2>1, <2>2, <2>3, ConversionSaved DEF recoverState, NoProc, ArmSteps
  <2>4. CASE st' = st
    BY <1>1, <2>1, <2>2, <2>4 DEF ConversionInv, Started, Image, Up, ArmSteps
  <2> QED
    BY <2>1, <2>3, <2>4
<1>4. CASE Arm
  <2> USE <1>4 DEF Arm
  <2>1. ProcInv' /\ GateInv'
    BY <1>1, StorageGoes DEF ArmingSteps, ArmSteps
  <2>2. CASE Save("awaiting")
    <3>1. proc.step = "armed" \/ ~(st' = st)
      BY <2>2 DEF Save, ConversionInv, ArmSteps
    <3> QED
      BY <2>1, <1>1, <2>2, <3>1, ConversionSaved DEF Step, ProcInv, ArmSteps
  <2>3. CASE st' = st
    <3>1. st.phase = "arming" /\ conversions = 0
      BY <2>3 DEF ConversionInv, Started, ArmSteps
    <3>2. host.step \notin {"authorise", "flush", "convert", "finish", "proof"}
      BY <1>1 DEF ConversionInv, Image, Up
    <3>3. grub' = [f \in {"armed", "next", "consumed"} |-> grub'[f]]
      BY <2>3 DEF ConversionInv
    <3> QED
      BY <1>1, <2>1, <2>3, <3>1, <3>2, <3>3 DEF ConversionInv, Image, Up
  <2> QED
    BY <2>1, <2>2, <2>3
<1>5. CASE ArmFails
  <2> USE <1>5 DEF ArmFails
  <2>1. ProcInv' /\ GateInv'
    BY <1>1, StorageGoes DEF ArmingSteps, ArmSteps
  <2>2. proc'.step \notin ArmSteps
    BY Ends DEF ArmSteps
  <2>3. CASE recoverState
    BY <2>1, <1>1, <2>2, <2>3, ConversionSaved DEF recoverState
  <2>4. CASE UNCHANGED st
    BY <2>1, <2>2, <2>4, ConversionStays DEF Converter
  <2> QED
    BY <2>1, <2>3, <2>4
<1>6. CASE RebootHost
  <2> USE <1>6 DEF RebootHost
  <2>1. /\ host' = [f \in {"mode", "boot", "entry", "step"} |-> host'[f]] /\ host'.mode = host.mode
        /\ host'.boot = host.boot /\ host'.step = "stopping"
    BY DEF ConversionInv
  <2>2. ProcInv' /\ GateInv'
    BY <1>1, <2>1, StorageGoes
  <2>3. proc'.step \notin ArmSteps
    BY Ends DEF ArmSteps
  <2>4. ConversionInv'
    BY <2>1, <2>3 DEF ConversionInv, Started, Image, Up
  <2> QED
    BY <2>2, <2>4
<1> QED
  BY <1>2, <1>3, <1>4, <1>5, <1>6

LEMMA FinalisationKeeps ==
  ASSUME Inv, Advance \/ Resume \/ ResumeFails \/ VerifyStorage, UNCHANGED Consumers
  PROVE  Inv'
<1> USE DEF Inv
<1>1. Up /\ proc.step \in BootSteps \ {"gate"}
  BY KindOfStep DEF Advance, Resume, ResumeFails, VerifyStorage, BootSteps, ResumeSteps
<1>2. ProcInv' /\ GateInv'
  <2>1. \/ proc' \in {proc, NoProc}
        \/ \E s \in BootSteps : Step(s)
    BY DEF Advance, Resume, nativeBootRetire, ResumeFails, VerifyStorage, BootSteps, ResumeSteps
  <2>2. host' = host /\ gate' = gate
    BY DEF Advance, Resume, ResumeFails, VerifyStorage
  <2> QED
    BY <1>1, <2>1, <2>2, StorageGoes
<1>3. proc'.step \notin ArmSteps
  <2>1. proc'.step \in StepsOf(proc'.kind) /\ (proc' = NoProc \/ proc'.kind = proc.kind)
    BY <1>2 DEF ProcInv, Advance, Resume, nativeBootRetire, ResumeFails, VerifyStorage, Step
  <2> QED
    BY <1>1, <2>1, KindOfStep DEF StepsOf, BootSteps, ResumeSteps, ArmSteps, NoProc
<1>4. ConversionInv'
  <2>1. UNCHANGED <<host, fs, grub, grubDisk, conversions>>
    BY DEF Advance, Resume, ResumeFails, VerifyStorage
  <2>2. st' = st \/ \E p : Save(p)
    BY DEF Advance, Resume, nativeBootRetire, ResumeFails, VerifyStorage, recoverState
  <2>3. fs # "partial" /\ ~Image
    BY <1>1 DEF ConversionInv, Image, Up
  <2>4. CASE \E p : Save(p)
    BY <1>1, <1>3, <2>1, <2>3, <2>4, ConversionSaved
  <2>5. CASE st' = st
    BY <1>3, <2>1, <2>3, <2>5 DEF ConversionInv, Started, Image, Up
  <2> QED
    BY <2>2, <2>4, <2>5
<1> QED
  BY <1>2, <1>4

------------------------------------------------------------------------------
(* The storage: power and GRUB.                                             *)

LEMMA PowerKeeps ==
  ASSUME Inv, NEW g, PowerOff(g), g = grub \/ (g = grubDisk /\ host.mode \in {"initramfs", "up"}),
         UNCHANGED <<pkg, adm, registered>>,
         IF Up THEN running' = {} ELSE UNCHANGED <<running, installed>>
  PROVE  Inv'
<1> USE DEF Inv, PowerOff
<1>1. ProcInv' /\ proc'.step = "none" /\ ~Behind'
  BY Ends
<1>2. /\ host' = [f \in {"mode", "boot", "entry", "step"} |-> host'[f]]
      /\ host'.mode = "off" /\ host'.boot = host.boot /\ host'.step = "none"
  BY ZenonT(60) DEF ConversionInv
<1>3. running' = {}
  BY DEF GateInv
<1>4. GateInv'
  BY <1>1, <1>2, <1>3 DEF GateInv, AttemptSteps
<1>5. ConversionInv'
  <2>1. grubDisk = [f \in {"armed", "next", "consumed"} |-> grubDisk[f]]
    BY DEF ConversionInv
  <2> QED
    BY <1>1, <1>2, <2>1 DEF ConversionInv, Started, Image, Up, ArmSteps
<1> QED
  BY <1>1, <1>4, <1>5

LEMMA GrubKeeps ==
  ASSUME Inv, NEW units, GrubBoot(units), UNCHANGED Consumers
  PROVE  Inv'
<1> USE DEF Inv
<1>0. /\ host.mode = "off" /\ ~Up /\ ~Image /\ proc = NoProc /\ running = {} /\ gate # "open"
  BY DEF GrubBoot, ProcInv, GateInv, Up, Image, Admitted
<1>1. /\ host' = [f \in {"mode", "boot", "entry", "step"} |-> host'[f]] /\ host'.entry = Entry
      /\ host'.mode = IF Entry = "normal" THEN "up" ELSE IF "image" \in files THEN "initramfs" ELSE "held"
      /\ host'.step = IF Entry # "normal" /\ "image" \in files THEN "authorise" ELSE "none"
  BY DEF GrubBoot
<1>2. ProcInv' /\ proc'.step \in {"none", "gate"} /\ ~Behind'
  <2>1. CASE proc' = NoProc
    BY <2>1, Ends
  <2>2. CASE proc' = [kind |-> "boot", step |-> "gate"] /\ Entry = "normal"
    BY <1>1, <2>2 DEF ProcInv, StepsOf, BootSteps, Behind, AdmitSteps, AttemptSteps, Up, NoProc
  <2> QED
    BY <2>1, <2>2 DEF GrubBoot, BootedProc
<1>3. GateInv'
  BY <1>0, <1>2 DEF GrubBoot, GateInv, Consumers, AttemptSteps
<1>4. "custom" \notin files <=> Entry = "normal"
  BY DEF Entry
<1>5. /\ grub' = [f \in {"armed", "next", "consumed"} |-> grub'[f]]
      /\ grub = Spent => grub' = Spent
      /\ grub = Spent => Entry # "convert"
  BY DEF GrubBoot, Latched, Spent, ConversionInv, Entry
<1>6. ConversionInv'
  BY <1>0, <1>1, <1>2, <1>4, <1>5 DEF GrubBoot, ConversionInv, Started, Image, Up, ArmSteps
<1> QED
  BY <1>2, <1>3, <1>6

------------------------------------------------------------------------------
(* The storage: the one-shot image.                                         *)

\* Nothing runs besides the image.
LEMMA ImageAlone ==
  ASSUME Inv, Image, UNCHANGED Consumers, gate' = gate, proc' = proc, host'.boot = host.boot, host'.mode # "up"
  PROVE  ProcInv' /\ GateInv' /\ proc'.step = "none"
<1>1. ~Up /\ proc = NoProc /\ running = {} /\ gate # "open"
  BY DEF Inv, ProcInv, GateInv, Image, Up
<1>2. ProcInv' /\ proc'.step = "none" /\ ~Behind'
  BY <1>1, Ends
<1> QED
  BY <1>1, <1>2 DEF Inv, GateInv, Consumers, AttemptSteps

LEMMA ImageKeeps ==
  ASSUME Inv, EarlyAuthorise \/ EarlyRefusesPartial \/ EarlyFlush \/ EarlyConvert \/ EarlyFails, UNCHANGED Consumers
  PROVE  Inv'
<1> USE DEF Inv
<1>1. Image /\ UNCHANGED <<grub, files, st, gate, proc>>
  BY ZenonT(60) DEF EarlyAuthorise, EarlyRefusesPartial, EarlyFlush, EarlyConvert, EarlyFails, imageUnchanged
<1>2. /\ host' = [f \in {"mode", "boot", "entry", "step"} |-> host'[f]]
      /\ host'.boot = host.boot /\ host'.entry = host.entry
      /\ (host'.mode = "held" /\ host'.step = "none") \/ host'.mode = host.mode
  BY ZenonT(60) DEF EarlyAuthorise, EarlyRefusesPartial, EarlyFlush, EarlyConvert, EarlyFails, Held, ConversionInv
<1>3. ProcInv' /\ GateInv' /\ proc'.step = "none"
  BY <1>1, <1>2, ImageAlone DEF Image
<1>4. CASE Held /\ UNCHANGED <<fs, grubDisk, conversions>>
  <2>1. host'.mode = "held" /\ host'.step = "none"
    BY <1>4 DEF Held, ConversionInv
  <2> QED
    BY <1>1, <1>2, <1>3, <1>4, <2>1 DEF ConversionInv, Started, Image, Up, ArmSteps
<1>5. CASE EarlyAuthorise
  <2>1. CASE CheckBootAuthorization /\ host' = [host EXCEPT !.step = "flush"]
    <3>1. host'.step = "flush" /\ host'.mode = host.mode
      BY <2>1 DEF ConversionInv
    <3>2. grub = Spent /\ st.phase = "awaiting" /\ conversions = 0
      BY ZenonT(60), <1>5, <2>1 DEF EarlyAuthorise, CheckBootAuthorization, ConversionInv, Started, Spent
    <3> QED
      BY <1>1, <1>2, <1>3, <1>5, <3>1, <3>2 DEF EarlyAuthorise, ConversionInv, Image, Up, ArmSteps
  <2> QED
    BY ZenonT(60), <1>4, <1>5, <2>1 DEF EarlyAuthorise
<1>6. CASE EarlyFlush
  <2>1. host'.step = "convert" /\ host'.mode = host.mode
    BY <1>6 DEF EarlyFlush, ConversionInv
  <2> QED
    BY <1>1, <1>2, <1>3, <1>6, <2>1 DEF EarlyFlush, ConversionInv, Started, Image, Up, ArmSteps
<1>7. CASE EarlyConvert /\ host.step = "convert"
  <2>1. host'.step = "finish" /\ host'.mode = host.mode
    BY <1>7 DEF EarlyConvert, ConversionInv
  <2>2. conversions = 0 /\ conversions' = 1
    BY <1>7 DEF EarlyConvert, ConversionInv, Started
  <2> QED
    BY <1>1, <1>2, <1>3, <1>7, <2>1, <2>2 DEF EarlyConvert, ConversionInv, Started, Image, Up, ArmSteps
<1>8. CASE EarlyConvert /\ host.step # "convert"
  <2>1. host'.step = "proof" /\ host'.mode = host.mode
    BY <1>8 DEF EarlyConvert, ConversionInv
  <2> QED
    BY <1>1, <1>2, <1>3, <1>8, <2>1 DEF EarlyConvert, ConversionInv, Started, Image, Up, ArmSteps
<1> QED
  BY <1>4, <1>5, <1>6, <1>7, <1>8 DEF EarlyRefusesPartial, EarlyFails

LEMMA ProofKeeps ==
  ASSUME Inv, NEW units, EarlyProof(units), UNCHANGED Consumers
  PROVE  Inv'
<1> USE DEF Inv
<1>0. Image /\ ~Up /\ proc = NoProc /\ running = {} /\ gate # "open" /\ fs = "converted"
  BY DEF EarlyProof, nativeBootCheckDevice, ProcInv, GateInv, Up, Image, Admitted
<1>1. /\ host' = [f \in {"mode", "boot", "entry", "step"} |-> host'[f]]
      /\ host'.mode = "up" /\ host'.step = "none" /\ host'.boot = host.boot
  BY ZenonT(60) DEF EarlyProof, ConversionInv
<1>2. ProcInv' /\ proc'.step \in {"none", "gate"} /\ ~Behind'
  <2>1. CASE proc' = NoProc
    BY <2>1, Ends
  <2>2. CASE proc' = [kind |-> "boot", step |-> "gate"]
    BY <1>1, <2>2 DEF ProcInv, StepsOf, BootSteps, Behind, AdmitSteps, AttemptSteps, Up, NoProc
  <2> QED
    BY <2>1, <2>2 DEF EarlyProof, BootedProc
<1>3. GateInv'
  BY <1>0, <1>2 DEF EarlyProof, GateInv, Consumers, AttemptSteps
<1>4. ConversionInv'
  BY <1>0, <1>1, <1>2 DEF EarlyProof, ConversionInv, Started, Image, Up, ArmSteps
<1> QED
  BY <1>2, <1>3, <1>4

LEMMA HostKeeps == ASSUME Inv, HostSteps PROVE Inv'
<1>1. UNCHANGED <<pkg, adm, registered>> /\ (IF Up /\ ~Up' THEN running' = {} ELSE UNCHANGED <<running, installed>>)
  BY DEF HostSteps, Up
<1>2. ASSUME NEW g, PowerOff(g), g = grub \/ (g = grubDisk /\ host.mode \in {"initramfs", "up"}) PROVE Inv'
  <2>1. ~Up'
    BY <1>2 DEF PowerOff, Up, Inv, ConversionInv
  <2> QED
    BY <1>1, <1>2, <2>1, PowerKeeps
<1>3. CASE ShutDown \/ Reboot \/ PowerLoss \/ SwitchOff
  BY <1>2, <1>3 DEF ShutDown, Reboot, PowerLoss, SwitchOff
<1>4. CASE RunNativeBootArm \/ BuildImage \/ Arm \/ ArmFails \/ RebootHost
  <2>1. Up' = Up
    BY <1>4 DEF RunNativeBootArm, BuildImage, Arm, ArmFails, RebootHost, Up, Inv, ConversionInv
  <2> QED
    BY <1>1, <1>4, <2>1, ArmingKeeps DEF Consumers
<1>5. CASE Advance \/ Resume \/ ResumeFails \/ VerifyStorage
  <2>1. Up' = Up
    BY <1>5 DEF Advance, Resume, ResumeFails, VerifyStorage, Up
  <2> QED
    BY <1>1, <1>5, <2>1, FinalisationKeeps DEF Consumers
<1>6. CASE GrubBoot("units" \in sealed)
  <2>1. ~Up
    BY <1>6 DEF GrubBoot, Up
  <2> QED
    BY <1>1, <1>6, <2>1, GrubKeeps DEF Consumers
<1>7. CASE EarlyAuthorise \/ EarlyRefusesPartial \/ EarlyFlush \/ EarlyConvert \/ EarlyFails
  <2>1. ~Up
    BY ZenonT(60), <1>7 DEF EarlyAuthorise, EarlyRefusesPartial, EarlyFlush, EarlyConvert, EarlyFails, Image, Up
  <2> QED
    BY <1>1, <1>7, <2>1, ImageKeeps DEF Consumers
<1>8. CASE EarlyProof("units" \in sealed)
  <2>1. ~Up
    BY <1>8 DEF EarlyProof, Image, Up
  <2> QED
    BY <1>1, <1>8, <2>1, ProofKeeps DEF Consumers
<1> QED
  BY <1>3, <1>4, <1>5, <1>6, <1>7, <1>8 DEF HostSteps, Storage

------------------------------------------------------------------------------
(* The admission.                                                           *)

\* An admission or a quarantine that ends, or hands over to another quarantine: the
\* gate is closed by it or stays, and so do the consumers.
Evidence == <<pkg, installed, registered, st, fs, quota, fstab>>

LEMMA Leaves ==
  ASSUME Inv, Up, host' = host, gate' \in {gate, "closed"}, running' # {} => running # {} \/ gate = "closed",
         proc' \in {NoProc, Quarantining}, adm' \in {adm, [adm EXCEPT !.phase = "recovery"]},
         pkg' = [f \in {"status", "done", "next"} |-> pkg'[f]], gate' = "open" => UNCHANGED Evidence
  PROVE  ProcInv' /\ GateInv' /\ proc'.step = "none"
<1>1. ProcInv' /\ proc'.step = "none" /\ ~Behind' /\ Quiet' /\ Up'
  BY DEF ProcInv, NoProc, Quarantining, StepsOf, Behind, Quiet, AdmitSteps, AttemptSteps, Up
<1>2. adm' = [f \in {"phase", "attempt", "boot"} |-> adm'[f]] /\ adm'.phase \in {adm.phase, "recovery"} /\ adm'.boot = adm.boot
  BY DEF Inv, GateInv
<1>3. gate' = "open" => Admitted'
  BY <1>2 DEF Inv, GateInv, Admitted, Installed, AttemptOf, Evidence
<1> QED
  BY <1>1, <1>2, <1>3 DEF Inv, GateInv, AttemptSteps

\* What closing and stopping leave, also when they fail.
LEMMA Quarantined ==
  ASSUME quarantine
  PROVE  gate' \in {gate, "closed"} /\ (running' # {} => running # {})
  BY DEF quarantine, CloseGate, StopConsumers

\* One that goes on works behind the closed gate.
LEMMA Attempts ==
  ASSUME Inv, proc.step \in AdmitSteps, NEW s \in AdmitSteps, host' = host, gate' = gate,
         ProcInv', proc'.step = s,
         adm' = [f \in {"phase", "attempt", "boot"} |-> adm'[f]],
         pkg' = [f \in {"status", "done", "next"} |-> pkg'[f]],
         s \in AttemptSteps => AttemptOf',
         s \in {"register", "receipt", "final", "open"} => Installed',
         s \in {"final", "open"} => registered',
         s = "open" => Admitted'
  PROVE  GateInv' /\ proc'.step \notin ArmSteps
<1>1. Up /\ gate = "closed"
  BY KindOfStep DEF Inv, GateInv, Behind, AdmitSteps, AttemptSteps
<1>2. s \notin ArmSteps /\ s # "opened"
  BY DEF AdmitSteps, AttemptSteps, ArmSteps
<1> QED
  BY <1>1, <1>2 DEF GateInv, Up

\* By the plain step of a process.
LEMMA AttemptGoes ==
  ASSUME Inv, proc.step \in AdmitSteps, NEW s \in AdmitSteps, Step(s), host' = host
  PROVE  ProcInv' /\ proc'.step = s /\ proc'.kind = proc.kind
<1>1. Up /\ Up' /\ proc.kind \in {"admit", "recheck"}
  BY KindOfStep DEF Inv, AdmitSteps, AttemptSteps, Up
<1> QED
  BY <1>1, Goes DEF Inv, StepsOf

LEMMA UnitsKeep ==
  ASSUME Inv, GateUnit \/ MountUnit \/ StartAdmit \/ Quarantine
  PROVE  Inv'
<1> USE DEF Inv
<1>0. UNCHANGED Converter
  BY DEF GateUnit, MountUnit, StartAdmit, Quarantine, storageUnchanged, Converter
<1>1. CASE GateUnit
  <2> USE <1>1 DEF GateUnit, CloseGate
  <2>1. Up /\ Up' /\ UNCHANGED Consumers /\ ~Quiet
    BY <1>0, KindOfStep, Outside DEF Converter, Up, Consumers, installVars, admissionVars
  <2>2. ProcInv' /\ proc'.step \in {"finalize", "none"} /\ (Behind' => gate' = "closed")
    <3>1. CASE proc' = NoProc
      BY <3>1, Ends
    <3>2. CASE Step("finalize") /\ gate' = "closed"
      BY <2>1, <3>2, Goes DEF StepsOf, BootSteps
    <3> QED
      BY <3>1, <3>2
  <2>3. GateInv'
    BY <1>0, <2>1, <2>2, GateOutside DEF Converter, AttemptSteps
  <2> QED
    BY <1>0, <2>2, <2>3, ConversionStays DEF ArmSteps
<1>2. CASE MountUnit
  <2> USE <1>2 DEF MountUnit
  <2>1. Up /\ Up' /\ gate = "closed"
    BY <1>0, KindOfStep DEF Converter, Up, GateInv, Behind
  <2>2. ProcInv' /\ proc'.step = "admit" /\ proc'.kind = "admit"
    BY <2>1 DEF ProcInv, StepsOf, AdmitSteps
  <2>3. GateInv'
    BY <1>0, <2>1, <2>2 DEF Converter, AttemptSteps, GateInv
  <2> QED
    BY <1>0, <2>2, <2>3, ConversionStays DEF ArmSteps
<1>3. CASE StartAdmit
  <2> USE <1>3 DEF StartAdmit, CloseGate
  <2>1. Up /\ Up' /\ UNCHANGED Consumers
    BY <1>0 DEF Converter, Up, Consumers, installVars, admissionVars
  <2>2. CASE gate' = "closed" /\ proc' = [kind |-> "admit", step |-> "admit", recovery |-> NoApproval.review]
    <3>1. ProcInv' /\ proc'.step = "admit" /\ proc'.kind = "admit"
      BY <2>1, <2>2 DEF ProcInv, StepsOf, AdmitSteps
    <3>2. GateInv'
      BY <1>0, <2>1, <2>2, <3>1 DEF Converter, Consumers, AttemptSteps, GateInv
    <3> QED
      BY <1>0, <3>1, <3>2, ConversionStays DEF ArmSteps
  <2>3. CASE UNCHANGED gate /\ proc' = Quarantining
    <3>1. ProcInv' /\ GateInv' /\ proc'.step = "none"
      BY <1>0, <2>1, <2>3, Leaves DEF Converter, Consumers, Evidence, storageUnchanged, GateInv
    <3> QED
      BY <1>0, <3>1, ConversionStays DEF ArmSteps
  <2> QED
    BY <2>2, <2>3
<1>4. CASE Quarantine
  <2>1. Up /\ UNCHANGED <<adm, Evidence>> /\ host' = host
    BY <1>0, <1>4 DEF Quarantine, ProcInv, NoProc, Converter, admissionVars, storageUnchanged, Evidence
  <2>2. ProcInv' /\ GateInv' /\ proc'.step = "none"
    BY <1>4, <2>1, Quarantined, Leaves DEF Quarantine, Evidence, GateInv
  <2> QED
    BY <1>0, <2>2, ConversionStays DEF ArmSteps
<1> QED
  BY <1>1, <1>2, <1>3, <1>4

LEMMA OperatorKeeps ==
  ASSUME Inv, manageNative \/ InspectCompleted \/ Administrator
  PROVE  Inv'
<1>1. UNCHANGED <<host, fs, fstab, quota, grub, grubDisk, files, st, conversions, gate, proc, pkg, installed, running, adm, registered>>
  BY DEF manageNative, InspectCompleted, Administrator, storageUnchanged, storageVars, installVars, admissionVars
<1> QED
  BY <1>1 DEF Inv, ProcInv, ConversionInv, GateInv, Started, Image, Up, Behind, Quiet, Admitted, Installed, AttemptOf

LEMMA RecheckKeeps == ASSUME Inv, RunNativeServiceRecheck PROVE Inv'
<1> USE DEF Inv, RunNativeServiceRecheck, CloseGate
<1>0. UNCHANGED Converter /\ Up /\ Up' /\ UNCHANGED <<adm, Evidence>>
  BY DEF storageUnchanged, Converter, Up, Evidence
<1>1. CASE gate' = "closed" /\ proc' = [kind |-> "recheck", step |-> "decide", recovery |-> NoApproval.review] /\ UNCHANGED running
  <2>1. ProcInv' /\ proc'.step = "decide"
    BY <1>0, <1>1 DEF ProcInv, StepsOf, AdmitSteps
  <2>2. GateInv'
    BY <1>0, <1>1, <2>1 DEF Converter, AttemptSteps, GateInv, Evidence
  <2> QED
    BY <1>0, <2>1, <2>2, ConversionStays DEF ArmSteps
<1>2. CASE UNCHANGED <<gate, running>> /\ proc' = Quarantining
  <2>1. ProcInv' /\ GateInv' /\ proc'.step = "none"
    BY <1>0, <1>2, Leaves DEF Converter, Evidence, GateInv
  <2> QED
    BY <1>0, <2>1, ConversionStays DEF ArmSteps
<1>3. CASE quarantine /\ UNCHANGED proc
  <2>1. ProcInv' /\ ConversionInv'
    BY <1>0, <1>3, ConversionStays DEF ProcInv
  <2>2. gate' \in {gate, "closed"} /\ (running' # {} => running # {})
    BY <1>3, Quarantined
  <2>3. GateInv'
    BY <1>0, <1>3, <2>2 DEF GateInv, Behind, Quiet, Admitted, Installed, AttemptOf, Converter, Evidence
  <2> QED
    BY <2>1, <2>3
<1> QED
  BY <1>1, <1>2, <1>3

LEMMA ApprovalKeeps == ASSUME Inv, takeRecoveryApproval PROVE Inv'
<1> USE DEF Inv, takeRecoveryApproval
<1>0. UNCHANGED Converter /\ proc.step \in AdmitSteps
  BY DEF storageUnchanged, Converter, AdmitSteps
<1>1. CASE Refused
  <2>1. ProcInv' /\ GateInv' /\ proc'.step = "none"
    BY <1>0, <1>1, KindOfStep, Leaves DEF Refused, Converter, Evidence, storageUnchanged, GateInv, AdmitSteps
  <2> QED
    BY <1>0, <2>1, ConversionStays DEF ArmSteps
<1>2. CASE UNCHANGED <<gate, pkg, installed, running, adm>> /\ ~Refused
  <2>1. ProcInv' /\ proc'.step = "decide"
    <3>1. CASE Step("decide")
      BY <1>0, <3>1, AttemptGoes DEF AdmitSteps, Converter
    <3>2. CASE proc' = [proc EXCEPT !.step = "decide", !.recovery = Review]
      <4>1. /\ proc' = [f \in DOMAIN proc' |-> proc'[f]] /\ {"kind", "step"} \subseteq DOMAIN proc'
            /\ proc'.kind = "admit" /\ proc'.step = "decide"
        BY ZenonT(60), <3>2 DEF ProcInv
      <4>2. Up'
        BY <1>0, KindOfStep DEF Converter, Up
      <4> QED
        BY <4>1, <4>2 DEF ProcInv, StepsOf, AdmitSteps
    <3> QED
      BY <1>2, <3>1, <3>2
  <2>2. GateInv' /\ proc'.step \notin ArmSteps
    BY <1>0, <1>2, <2>1, Attempts DEF Converter, AdmitSteps, AttemptSteps, GateInv
  <2> QED
    BY <1>0, <2>1, <2>2, ConversionStays
<1> QED
  BY <1>1, <1>2

\* All stages verified in one pass are all whole.
LEMMA AllVerified ==
  ASSUME \A s \in Done : Verify(s, installed, running), pkg.done = Count
  PROVE  \A s \in Stages : installed[s] = "whole"
<1>1. Done = Stages
  <2>1. DOMAIN orderedStages = 1..9
    BY DEF orderedStages
  <2> QED
    BY <2>1 DEF Done, Stages, Count
<1>2. Stages = {"packages", "waf", "vinyl", "identity", "payload", "configuration", "security", "nginx", "services"}
  <2>1. DOMAIN orderedStages = {1, 2, 3, 4, 5, 6, 7, 8, 9}
    BY DEF orderedStages
  <2> QED
    BY <2>1 DEF Stages, orderedStages
<1>3. /\ Verify("packages", installed, running) => installed["packages"] = "whole"
      /\ Verify("waf", installed, running) => installed["waf"] = "whole"
      /\ Verify("vinyl", installed, running) => installed["vinyl"] = "whole"
      /\ Verify("identity", installed, running) => installed["identity"] = "whole"
      /\ Verify("payload", installed, running) => installed["payload"] = "whole"
      /\ Verify("configuration", installed, running) => installed["configuration"] = "whole"
      /\ Verify("security", installed, running) => installed["security"] = "whole"
      /\ Verify("nginx", installed, running) => installed["nginx"] = "whole"
      /\ Verify("services", installed, running) => installed["services"] = "whole"
  BY DEF Verify, verifyPackages, verifyWAFPackage, verifyVinylPackage, serviceIdentity, verifyPayload, verifyConfiguration,
     verifySecurity, verifyNGINX, verifyNGINXIntent, verifyServices, Whole
<1> QED
  BY <1>1, <1>2, <1>3

\* The failures of an attempt.
LEMMA FailsKeep ==
  ASSUME Inv, proc.step \in AttemptSteps, Step("cleanup"), UNCHANGED <<host, fs, grub, grubDisk, files, conversions, gate, adm>>,
         UNCHANGED st \/ recoverState, proc.step = "opened" => UNCHANGED <<running, Evidence>>,
         pkg' = [f \in {"status", "done", "next"} |-> pkg'[f]]
  PROVE  Inv'
<1> USE DEF Inv
<1>1. Up /\ Up' /\ proc.kind \in {"admit", "recheck"} /\ (proc.step # "opened" => gate = "closed")
  BY KindOfStep DEF Up, AttemptSteps, AdmitSteps, LastSteps, GateInv, Behind
<1>2. ProcInv' /\ proc'.step = "cleanup" /\ proc'.kind = proc.kind
  BY <1>1, Goes DEF StepsOf, LastSteps
<1>3. ~Behind' /\ Quiet' /\ proc'.step \notin AttemptSteps
  BY <1>1, <1>2 DEF Behind, Quiet, AdmitSteps, AttemptSteps, LastSteps
<1>4. gate = "open" => Admitted'
  <2> SUFFICES ASSUME gate = "open" PROVE Admitted'
    OBVIOUS
  <2>1. Admitted /\ UNCHANGED Evidence
    BY <1>1 DEF GateInv
  <2> QED
    BY <2>1 DEF Admitted, Installed, AttemptOf, Evidence
<1>5. GateInv'
  BY <1>1, <1>2, <1>3, <1>4 DEF GateInv, AttemptSteps
<1>6. CASE UNCHANGED st
  BY <1>2, <1>5, <1>6, ConversionStays DEF Converter, ArmSteps
<1>7. CASE recoverState
  BY <1>1, <1>2, <1>5, <1>7, ConversionSaved DEF recoverState, ArmSteps
<1> QED
  BY <1>6, <1>7

LEMMA FailuresKeep ==
  ASSUME Inv, VerifyFails \/ StageFails \/ AttemptFails
  PROVE  Inv'
<1>1. Step("cleanup") /\ proc.step \in AttemptSteps /\ UNCHANGED <<host, fs, grub, grubDisk, files, conversions, st, gate, adm>>
  BY DEF VerifyFails, StageFails, AttemptFails, Fails, storageUnchanged, AttemptSteps
<1>2. pkg' = [f \in {"status", "done", "next"} |-> pkg'[f]]
  BY ZenonT(60) DEF VerifyFails, StageFails, AttemptFails, Inv, GateInv
<1>3. proc.step = "opened" => UNCHANGED <<running, Evidence>>
  BY DEF VerifyFails, StageFails, AttemptFails, Fails, storageUnchanged, Evidence
<1> QED
  BY <1>1, <1>2, <1>3, FailsKeep

LEMMA CleanupKeeps == ASSUME Inv, Cleanup PROVE Inv'
<1> USE DEF Inv, Cleanup
<1>1. UNCHANGED Converter /\ UNCHANGED Evidence /\ Up
  BY KindOfStep DEF storageUnchanged, Converter, Evidence
<1>2. ProcInv' /\ GateInv' /\ proc'.step = "none"
  BY <1>1, Quarantined, Leaves DEF Converter, Evidence, GateInv
<1> QED
  BY <1>1, <1>2, ConversionStays DEF ArmSteps

LEMMA BeginKeeps == ASSUME Inv, BeginAttempt PROVE Inv'
<1> USE DEF Inv, BeginAttempt
<1>0. UNCHANGED Converter /\ proc.step \in AdmitSteps
  BY DEF storageUnchanged, Converter, AdmitSteps
<1>1. CASE Refused
  <2>1. ProcInv' /\ GateInv' /\ proc'.step = "none"
    BY <1>0, <1>1, KindOfStep, Leaves DEF Refused, Converter, Evidence, storageUnchanged, GateInv, AdmitSteps
  <2> QED
    BY <1>0, <2>1, ConversionStays DEF ArmSteps
<1>2. CASE ~Refused
  <2>1. ProcInv' /\ proc'.step = "check"
    BY <1>0, <1>2, AttemptGoes DEF AdmitSteps, AttemptSteps, Converter
  <2>2. adm' = [f \in {"phase", "attempt", "boot"} |-> adm'[f]] /\ AttemptOf'
    BY <1>0, <1>2 DEF AttemptOf, Converter
  <2>3. GateInv' /\ proc'.step \notin ArmSteps
    BY <1>0, <1>2, <2>1, <2>2, Attempts DEF Converter, AdmitSteps, AttemptSteps, GateInv
  <2> QED
    BY <1>0, <2>1, <2>3, ConversionStays
<1> QED
  BY <1>1, <1>2

LEMMA CheckKeeps == ASSUME Inv, CheckStorage PROVE Inv'
<1> USE DEF Inv, CheckStorage
<1>0. UNCHANGED <<host, fs, fstab, quota, grub, grubDisk, files, conversions, pkg, installed, registered>>
  BY DEF storageUnchanged
<1>1. /\ proc.step \in AdmitSteps /\ proc.step \in AttemptSteps /\ Up
  BY KindOfStep DEF AdmitSteps, AttemptSteps
<1>2. CASE Fails
  BY <1>0, <1>1, <1>2, FailsKeep DEF GateInv, Fails
<1>3. CASE ~Fails /\ proc.step = "check"
  <2>1. Step("install") /\ UNCHANGED <<adm, gate, running, st>>
    BY <1>3
  <2>2. ProcInv' /\ proc'.step = "install"
    BY <1>0, <1>1, <2>1, AttemptGoes DEF AdmitSteps, AttemptSteps
  <2>3. GateInv' /\ proc'.step \notin ArmSteps
    BY <1>0, <1>1, <2>1, <2>2, Attempts DEF AdmitSteps, AttemptSteps, GateInv, AttemptOf
  <2> QED
    BY <1>0, <2>1, <2>2, <2>3, ConversionStays DEF Converter
<1>4. CASE ~Fails /\ proc.step = "final"
  <2>1. MustBeReady /\ adm' = [adm EXCEPT !.phase = "admitted"] /\ Step("open") /\ UNCHANGED <<gate, running, st>>
    BY <1>4
  <2>2. ProcInv' /\ proc'.step = "open"
    BY <1>0, <1>1, <2>1, AttemptGoes DEF AdmitSteps, AttemptSteps
  <2>3. adm' = [f \in {"phase", "attempt", "boot"} |-> adm'[f]] /\ adm'.phase = "admitted" /\ adm'.boot = adm.boot
    BY <2>1 DEF GateInv
  <2>4. AttemptOf' /\ Installed' /\ registered'
    BY <1>0, <1>4, <2>3 DEF GateInv, AttemptSteps, Installed, AttemptOf
  <2>5. Admitted'
    BY <1>0, <2>1, <2>3, <2>4 DEF Admitted, MustBeReady, VerifyReady
  <2>6. GateInv' /\ proc'.step \notin ArmSteps
    BY <1>0, <1>1, <2>1, <2>2, <2>3, <2>4, <2>5, Attempts DEF AdmitSteps, AttemptSteps, GateInv
  <2> QED
    BY <1>0, <2>1, <2>2, <2>6, ConversionStays DEF Converter
<1> QED
  BY <1>2, <1>3, <1>4

LEMMA StagesKeep ==
  ASSUME Inv, continueInstallation \/ Install \/ ApplyStage \/ StageComplete
  PROVE  Inv'
<1> USE DEF Inv
<1>0. UNCHANGED Converter /\ UNCHANGED <<gate, adm>>
  BY DEF continueInstallation, Install, ApplyStage, StageComplete, storageUnchanged, Converter
<1>1. proc.step \in AdmitSteps /\ proc.step \in AttemptSteps
  BY DEF continueInstallation, Install, ApplyStage, StageComplete, AdmitSteps, AttemptSteps
<1>2. pkg' = [f \in {"status", "done", "next"} |-> pkg'[f]]
  BY ZenonT(60) DEF continueInstallation, Install, ApplyStage, StageComplete, GateInv
<1>3. PICK s \in {"stage", "register", "apply", "verified"} : Step(s)
  BY DEF continueInstallation, Install, ApplyStage, StageComplete
<1>4. ProcInv' /\ proc'.step = s
  BY <1>0, <1>1, <1>3, AttemptGoes DEF AdmitSteps, AttemptSteps, Converter
<1>5. AttemptOf'
  BY <1>0, <1>1 DEF GateInv, AttemptOf, Converter
<1>6. s = "register" => Installed'
  <2> SUFFICES ASSUME s = "register" PROVE Installed'
    OBVIOUS
  <2>1. Install /\ pkg.done = Count /\ pkg' = [pkg EXCEPT !.status = "complete"] /\ UNCHANGED installed
    BY <1>4 DEF continueInstallation, Install, ApplyStage, StageComplete, Step, ProcInv
  <2>2. pkg'.status = "complete"
    BY <2>1 DEF GateInv
  <2>3. \A x \in Stages : installed[x] = "whole"
    BY <2>1, AllVerified DEF Install
  <2> QED
    BY <1>5, <2>1, <2>2, <2>3 DEF Installed
<1>7. GateInv' /\ proc'.step \notin ArmSteps
  BY <1>0, <1>1, <1>2, <1>4, <1>5, <1>6, Attempts DEF AdmitSteps, AttemptSteps, GateInv, Converter
<1> QED
  BY <1>0, <1>4, <1>7, ConversionStays

LEMMA RegisterKeeps == ASSUME Inv, registerNativeSetup PROVE Inv'
<1> USE DEF Inv, registerNativeSetup
<1>0. UNCHANGED Converter /\ UNCHANGED <<pkg, installed>>
  BY DEF storageUnchanged, Converter
<1>1. /\ proc.step \in AdmitSteps /\ proc.step \in AttemptSteps /\ Installed
  BY ZenonT(60) DEF AdmitSteps, AttemptSteps, GateInv
<1>2. CASE Fails
  BY <1>0, <1>1, <1>2, FailsKeep DEF GateInv, Converter, Fails, AdmitSteps
<1>3. CASE ~Fails
  <2>1. UNCHANGED <<gate, adm>>
    BY ZenonT(60), <1>3
  <2>2. PICK s \in {"receipt", "final"} : Step(s) /\ (s = "final" => registered')
    <3>1. \/ Step("receipt")
          \/ Step("final") /\ registered /\ registered' = registered
          \/ Step("final") /\ registered' = TRUE
      BY ZenonT(60), <1>3
    <3>2. registered /\ registered' = registered => registered'
      OBVIOUS
    <3>3. registered' = TRUE => registered'
      OBVIOUS
    <3>4. Step("receipt") \/ (Step("final") /\ registered')
      BY Zenon, <3>1, <3>2, <3>3
    <3> QED
      BY Zenon, <3>4
  <2>3. ProcInv' /\ proc'.step = s
    BY <1>0, <1>1, <2>2, AttemptGoes DEF AdmitSteps, AttemptSteps, Converter
  <2>4. AttemptOf' /\ Installed'
    BY <1>0, <1>1, <2>1 DEF Installed, AttemptOf, Converter
  <2>5. GateInv' /\ proc'.step \notin ArmSteps
    BY <1>0, <1>1, <2>1, <2>2, <2>3, <2>4, Attempts DEF AdmitSteps, AttemptSteps, GateInv, Converter
  <2> QED
    BY <1>0, <2>3, <2>5, ConversionStays
<1> QED
  BY <1>2, <1>3

LEMMA OpenKeeps == ASSUME Inv, OpenGate PROVE Inv'
<1> USE DEF Inv, OpenGate
<1>0. UNCHANGED Converter /\ UNCHANGED Evidence
  BY DEF storageUnchanged, Converter, Evidence
<1>1. Up /\ Up' /\ proc.kind \in {"admit", "recheck"} /\ Admitted
  BY <1>0, KindOfStep DEF GateInv, Converter, Up, AdmitSteps, AttemptSteps, LastSteps
<1>2. CASE gate' = "open" /\ Step("opened")
  <2>1. ProcInv' /\ proc'.step = "opened" /\ proc'.kind = proc.kind
    BY <1>1, <1>2, Goes DEF StepsOf, LastSteps
  <2>2. ~Behind' /\ Quiet'
    BY <1>1, <2>1 DEF Behind, Quiet, AdmitSteps, AttemptSteps, LastSteps
  <2>3. Admitted'
    BY <1>0, <1>1 DEF Admitted, Installed, AttemptOf, Converter, Evidence
  <2>4. GateInv'
    BY <1>0, <1>1, <1>2, <2>1, <2>2, <2>3 DEF GateInv, AttemptSteps, Evidence, Admitted, Installed
  <2> QED
    BY <1>0, <2>1, <2>4, ConversionStays DEF ArmSteps
<1>3. CASE proc' = NoProc /\ UNCHANGED gate
  <2>1. ProcInv' /\ GateInv' /\ proc'.step = "none"
    BY <1>0, <1>1, <1>3, Leaves DEF Converter, Evidence, GateInv
  <2> QED
    BY <1>0, <2>1, ConversionStays DEF ArmSteps
<1> QED
  BY <1>2, <1>3

LEMMA AdmitKilledKeeps == ASSUME Inv, AdmitKilled PROVE Inv'
<1> USE DEF Inv, AdmitKilled
<1>0. UNCHANGED Converter /\ UNCHANGED <<pkg, gate, adm>> /\ Up
  BY DEF storageUnchanged, Converter, admissionVars, ProcInv, NoProc
<1>1. CASE proc.step = "apply"
  <2>1. gate = "closed"
    BY <1>1 DEF GateInv, Behind, AdmitSteps, AttemptSteps
  <2> QED
    BY <1>0, <2>1, Leaves, ConversionStays DEF Converter, GateInv, ArmSteps
<1>2. CASE proc.step # "apply"
  <2>1. UNCHANGED <<running, Evidence>>
    BY <1>0, <1>2 DEF storageUnchanged, admissionVars, Converter, Evidence
  <2> QED
    BY <1>0, <2>1, Leaves, ConversionStays DEF Converter, GateInv, ArmSteps
<1> QED
  BY <1>1, <1>2

LEMMA InitInv == Init => Inv
<1> SUFFICES ASSUME Init PROVE Inv
  OBVIOUS
<1> USE DEF Init, InitStorage, InitInstall
<1>1. ProcInv
  BY DEF ProcInv, NoProc, StepsOf
<1>2. ConversionInv
  BY DEF ConversionInv, NoJournal, NoProc, ArmSteps, Image, Up
<1>3. GateInv
  BY DEF GateInv, NoAdmission, NoPackages, NoProc, Behind, AdmitSteps, AttemptSteps
<1> QED
  BY <1>1, <1>2, <1>3 DEF Inv

LEMMA NextKeeps == ASSUME Inv, [Next]_vars PROVE Inv'
<1>1. CASE UNCHANGED vars
  <2>1. UNCHANGED storageVars /\ UNCHANGED installVars /\ UNCHANGED admissionVars
    BY <1>1 DEF vars
  <2>2. ProcInv'
    BY ZenonT(60), <2>1 DEF storageVars, installVars, admissionVars, Inv, ProcInv, Started, Up, Behind
  <2>3. ConversionInv'
    BY ZenonT(60), <2>1 DEF storageVars, installVars, admissionVars, Inv, ConversionInv, Started, Image, Up
  <2>4. GateInv'
    BY ZenonT(60), <2>1 DEF storageVars, installVars, admissionVars, Inv, GateInv, Up, Behind, Quiet, Admitted, Installed,
       AttemptOf
  <2> QED
    BY <2>2, <2>3, <2>4 DEF Inv
<1>2. CASE Next
  BY <1>2, HostKeeps, OnboardingKeeps, UnitsKeep, OperatorKeeps, ApprovalKeeps, BeginKeeps, CheckKeeps, StagesKeep,
     FailuresKeep, RegisterKeeps, OpenKeeps, AdmitKilledKeeps, CleanupKeeps, RecheckKeeps DEF Next
<1> QED
  BY <1>1, <1>2

------------------------------------------------------------------------------
(* The results.                                                             *)

\* What the theorems below rest on: which process works under the installation lock,
\* what the spent latch, the journal and the image say of the conversion, and what
\* an attempt has established behind the closed gate.
THEOREM Invariance == Spec => []Inv
  BY InitInv, NextKeeps, PTL DEF Spec

\* The root filesystem is never mounted while its conversion is unfinished: a boot
\* that leaves the one-shot image has a converted filesystem, and as long as the
\* filesystem is partial custom.cfg leads every boot into that image.
THEOREM RootWhole == Spec => []RootIsWhole
<1>1. Inv => RootIsWhole
  BY DEF Inv, ConversionInv, RootIsWhole
<1> QED
  BY <1>1, Invariance, PTL

\* The conversion is started at most once, whatever is lost or fails: before it starts
\* the spent latch is on stable storage, and nothing arms a latch again once the
\* journal awaits the reboot.
THEOREM ConvertsOnce == Spec => []ConvertedOnce
<1>1. Inv => ConvertedOnce
  BY DEF Inv, ConversionInv, Started, ConvertedOnce
<1> QED
  BY <1>1, Invariance, PTL

\* Nothing is served before the admission of this very boot: consumers run behind a
\* closed gate, or behind one that was opened with the storage ready, all stages
\* whole and the setup code registered.
THEOREM ServedAdmitted == Spec => []ServedIsAdmitted
<1>1. Inv => ServedIsAdmitted
  BY DEF Inv, GateInv, Admitted, Installed, AttemptOf, ServedIsAdmitted
<1> QED
  BY <1>1, Invariance, PTL

------------------------------------------------------------------------------
(* The first administrator.                                                 *)

Status == {"none", "active", "expired", "invalid", "used"}
Try == [step: {"idle", "authorised", "derived"}, code: Codes, past: SUBSET Codes]

\* What a request found expired does not come back into force.
BootInv ==
  /\ admin \in Nat /\ codes \in [Codes -> Status] /\ tries \in [Tries -> Try]
  /\ \A t \in Tries : \A c \in tries[t].past : codes[c] \in {"expired", "invalid", "used"}

\* Codes go from registered to expired to spent.
Ages == \A c \in Codes : codes[c] \in {"expired", "invalid", "used"} => codes'[c] \in {"expired", "invalid", "used"}

\* What the property says of one step.
Honoured ==
  /\ \A c \in Codes : codes[c] \in {"invalid", "used"} => codes'[c] = codes[c]
  /\ admin' > admin =>
       /\ admin = 0
       /\ \E t \in Tries : /\ codes[tries[t].code] \in {"active", "expired"} /\ codes'[tries[t].code] = "used"
                          /\ tries[t].step = "derived" /\ tries[t].code \notin tries[t].past

LEMMA IdleTry == Idle \in Try /\ [t \in Tries |-> Idle] \in [Tries -> Try]
  BY DEF Try, Codes, Idle

\* A step that changes no request keeps what they know.
LEMMA RequestsStay ==
  ASSUME BootInv, admin' \in Nat, codes' \in [Codes -> Status], Ages, tries' \in {tries, [t \in Tries |-> Idle]}
  PROVE  BootInv'
<1>1. CASE tries' = tries
  BY <1>1 DEF BootInv, Ages, Try
<1>2. CASE tries' = [t \in Tries |-> Idle]
  <2>1. \A t \in Tries : tries'[t].past = {}
    BY <1>2 DEF Idle
  <2> QED
    BY <1>2, <2>1, IdleTry DEF BootInv
<1> QED
  BY <1>1, <1>2

\* One request goes on with what it knows now, or is answered.
LEMMA RequestMoves ==
  ASSUME BootInv, NEW t \in Tries, NEW r \in Try, tries' = [tries EXCEPT ![t] = r], admin' \in Nat,
         codes' \in [Codes -> Status], Ages, r.past \in {{}, Expired}
  PROVE  BootInv'
<1>1. tries' \in [Tries -> Try]
  BY DEF BootInv
<1>2. \A c \in Expired : c \in Codes /\ codes[c] = "expired"
  BY DEF Expired
<1>3. ASSUME NEW u \in Tries, NEW c \in tries'[u].past PROVE codes'[c] \in {"expired", "invalid", "used"}
  <2>1. CASE u = t
    <3>1. tries'[u] = r
      BY <2>1 DEF BootInv
    <3>2. c \in Expired
      BY <1>3, <3>1
    <3> QED
      BY <1>2, <3>2 DEF Ages
  <2>2. CASE u # t
    <3>1. tries'[u] = tries[u]
      BY <2>2 DEF BootInv
    <3> QED
      BY <1>3, <3>1 DEF BootInv, Ages, Try
  <2> QED
    BY <2>1, <2>2
<1> QED
  BY <1>1, <1>3 DEF BootInv

LEMMA ArrivalKeeps ==
  ASSUME BootInv, RequestArrives
  PROVE  BootInv' /\ Honoured
<1>1. PICK t \in Tries : authorizeBootstrapAttempt(t)
  BY DEF RequestArrives
<1>2. admin' = admin
  BY <1>1 DEF authorizeBootstrapAttempt
<1>3. CASE UNCHANGED <<codes, tries>>
  BY <1>2, <1>3, RequestsStay DEF BootInv, Honoured, Ages
<1>4. CASE ~UNCHANGED <<codes, tries>>
  <2>1. PICK past \in timestamp(t) :
          /\ codes' = [o \in Codes |-> IF o \in Unspent \cap past THEN "invalid" ELSE codes[o]]
          /\ \/ \E c \in Valid(past) : tries' = [tries EXCEPT ![t] = [step |-> "authorised", code |-> c, past |-> Expired]]
             \/ UNCHANGED tries
    BY <1>1, <1>4 DEF authorizeBootstrapAttempt
  <2>2. codes' \in [Codes -> Status] /\ Ages /\ \A c \in Codes : codes[c] \in {"invalid", "used"} => codes'[c] = codes[c]
    BY <2>1 DEF BootInv, Status, Unspent, Ages
  <2>3. admin' \in Nat
    BY <1>2 DEF BootInv
  <2>4. CASE UNCHANGED tries
    BY <1>2, <2>2, <2>3, <2>4, RequestsStay DEF BootInv, Honoured
  <2>5. CASE \E c \in Valid(past) : tries' = [tries EXCEPT ![t] = [step |-> "authorised", code |-> c, past |-> Expired]]
    <3>1. PICK c \in Valid(past) : tries' = [tries EXCEPT ![t] = [step |-> "authorised", code |-> c, past |-> Expired]]
      BY <2>5
    <3>2. [step |-> "authorised", code |-> c, past |-> Expired] \in Try
      BY DEF Valid, Unspent, Expired, Try
    <3>3. BootInv'
      BY <2>2, <2>3, <3>1, <3>2, RequestMoves
    <3> QED
      BY <1>2, <2>2, <3>3 DEF BootInv, Honoured
  <2> QED
    BY <2>1, <2>4, <2>5
<1> QED
  BY <1>3, <1>4

LEMMA RequestKeeps ==
  ASSUME BootInv, BootstrapRequest
  PROVE  BootInv' /\ Honoured
<1>1. PICK t \in Tries : validateBootstrapAuthorization(t) \/ BootstrapAdministrator(t)
  BY DEF BootstrapRequest
<1>2. CASE validateBootstrapAuthorization(t)
  <2>1. UNCHANGED <<codes, admin>>
    BY <1>2 DEF validateBootstrapAuthorization
  <2>2. admin' \in Nat /\ codes' \in [Codes -> Status] /\ Ages
    BY <2>1 DEF BootInv, Ages
  <2>3. CASE tries' = [tries EXCEPT ![t] = [step |-> "derived", code |-> tries[t].code, past |-> Expired]]
    <3>1. Expired \in SUBSET Codes
      BY DEF Expired
    <3>2. tries[t] \in Try /\ tries \in [Tries -> Try]
      BY DEF BootInv
    <3>3. PICK r \in Try : r = [step |-> "derived", code |-> tries[t].code, past |-> Expired]
      BY <3>1, <3>2 DEF Try
    <3>4. r.past = Expired
      BY <3>3
    <3>5. tries' = [tries EXCEPT ![t] = r]
      BY <2>3, <3>3
    <3>6. BootInv'
      BY <2>2, <3>4, <3>5, RequestMoves
    <3> QED
      BY <2>1, <3>6 DEF BootInv, Honoured
  <2>4. CASE tries' = [tries EXCEPT ![t] = Idle]
    <3>1. Idle \in Try /\ Idle.past = {}
      BY IdleTry DEF Idle
    <3> QED
      BY <2>1, <2>2, <2>4, <3>1, RequestMoves DEF BootInv, Honoured
  <2> QED
    BY <1>2, <2>3, <2>4 DEF validateBootstrapAuthorization, Answered
<1>3. CASE BootstrapAdministrator(t)
  <2>1. tries' = [tries EXCEPT ![t] = Idle] /\ Idle \in Try /\ Idle.past = {}
    BY <1>3, IdleTry DEF BootstrapAdministrator, Answered, Idle
  <2>2. CASE UNCHANGED <<admin, codes>>
    BY <2>1, <2>2, RequestMoves DEF BootInv, Honoured, Ages
  <2>3. CASE ~UNCHANGED <<admin, codes>>
    <3>1. PICK past \in timestamp(t) :
            /\ ~platformAdministratorExistsTx /\ tries[t].code \in Valid(past)
            /\ admin' = admin + 1 /\ codes' = [codes EXCEPT ![tries[t].code] = "used"]
      BY <1>3, <2>3 DEF BootstrapAdministrator
    <3>2. tries[t].code \in Codes /\ codes[tries[t].code] \in {"active", "expired"}
      BY <3>1 DEF Valid, Unspent
    <3>3. tries[t].code \notin tries[t].past
      <4>1. CASE past = tries[t].past
        BY <3>1, <4>1 DEF Valid
      <4>2. CASE past = Expired
        BY <3>1, <3>2, <4>2 DEF Valid, Expired, BootInv
      <4> QED
        BY <4>1, <4>2 DEF timestamp
    <3>4. admin = 0 /\ admin' \in Nat
      BY <3>1 DEF platformAdministratorExistsTx, BootInv
    <3>5. /\ codes' \in [Codes -> Status] /\ codes'[tries[t].code] = "used"
          /\ Ages /\ \A c \in Codes : codes[c] \in {"invalid", "used"} => codes'[c] = codes[c]
      BY <3>1, <3>2 DEF BootInv, Status, Ages
    <3>6. tries[t].step = "derived"
      BY <1>3 DEF BootstrapAdministrator
    <3>7. BootInv'
      BY <2>1, <3>4, <3>5, RequestMoves
    <3> QED
      BY <3>2, <3>3, <3>4, <3>5, <3>6, <3>7 DEF Honoured
  <2> QED
    BY <2>2, <2>3
<1> QED
  BY <1>1, <1>2, <1>3

LEMMA RegisteredCodes ==
  ASSUME BootInv, NEW c \in Codes, NEW r, NEW a, registerBootstrapDigest(c, r, a, codes')
  PROVE  codes' \in [Codes -> Status] /\ Ages /\ \A o \in Codes : codes[o] \in {"invalid", "used"} => codes'[o] = codes[o]
<1>1. CASE codes' = codes
  BY <1>1 DEF BootInv, Ages
<1>2. CASE codes[c] = "none" /\ codes' = [Invalidated EXCEPT ![c] = "active"]
  BY <1>2 DEF BootInv, Invalidated, Unspent, Status, Ages
<1> QED
  BY <1>1, <1>2 DEF registerBootstrapDigest

LEMMA BootKeeps ==
  ASSUME BootInv, [Next]_vars
  PROVE  BootInv' /\ Honoured
<1>1. CASE UNCHANGED bootstrapVars
  BY <1>1, RequestsStay DEF bootstrapVars, BootInv, Honoured, Ages
<1>2. CASE Administrator
  <2>1. CASE BootstrapRequest \/ RequestArrives
    BY <2>1, RequestKeeps, ArrivalKeeps
  <2>2. CASE CreateBootstrapCapability
    <3>1. codes' \in [Codes -> Status] /\ Ages /\ \A o \in Codes : codes[o] \in {"invalid", "used"} => codes'[o] = codes[o]
      BY ZenonT(60), <2>2, RegisteredCodes DEF CreateBootstrapCapability, Codes
    <3> QED
      BY <2>2, <3>1, RequestsStay DEF CreateBootstrapCapability, BootInv, Honoured
  <2>3. CASE Expire
    <3>1. codes' \in [Codes -> Status] /\ Ages /\ \A o \in Codes : codes[o] \in {"invalid", "used"} => codes'[o] = codes[o]
      BY <2>3 DEF Expire, BootInv, Status, Ages
    <3> QED
      BY <2>3, <3>1, RequestsStay DEF Expire, BootInv, Honoured
  <2> QED
    BY <1>2, <2>1, <2>2, <2>3 DEF Administrator
<1>3. CASE UNCHANGED <<codes, admin>> /\ tries' \in {tries, [t \in Tries |-> Idle]}
  BY <1>3, RequestsStay DEF BootInv, Honoured, Ages
<1>4. CASE UNCHANGED <<admin, tries>> /\ registerBootstrapDigest("sealed", FALSE, TRUE, codes')
  <2>1. codes' \in [Codes -> Status] /\ Ages /\ \A o \in Codes : codes[o] \in {"invalid", "used"} => codes'[o] = codes[o]
    BY ZenonT(60), <1>4, RegisteredCodes DEF Codes
  <2> QED
    BY <1>4, <2>1, RequestsStay DEF BootInv, Honoured
<1> QED
  BY ZenonT(60), <1>1, <1>2, <1>3, <1>4 DEF Next, vars, HostSteps, RequestsLost, bootstrapVars, GateUnit, MountUnit, StartAdmit, Quarantine,
     quarantine, manageNative, takeRecoveryApproval, BeginAttempt, CheckStorage, continueInstallation, Install, VerifyFails,
     ApplyStage, StageFails, StageComplete, registerNativeSetup, OpenGate, AttemptFails, AdmitKilled, InspectCompleted,
     RunNativeServiceRecheck, Cleanup, Fails, Refused, StopConsumers

\* The first administrator is created once, by a code that was in force up to the
\* commit, except that its expiry after the last check before the password derivation
\* can be overlooked; a code that is out of force stays so.  The number of requests and
\* what else happens do not matter.
THEOREM CodesHonoured == Spec => CodeHonoured
<1>1. Init => BootInv
  BY IdleTry DEF Init, InitBootstrap, BootInv, Status, Idle
<1>2. BootInv /\ [Next]_vars => BootInv'
  BY BootKeeps
<1>3. BootInv /\ [Next]_vars => [Honoured]_bootstrapVars
  BY BootKeeps
<1> QED
  BY <1>1, <1>2, <1>3, PTL DEF Spec, CodeHonoured, Honoured
==============================================================================

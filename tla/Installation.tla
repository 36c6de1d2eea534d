---------------------------- MODULE Installation ----------------------------
(***************************************************************************)
(* The nine stages of an installation (internal/installapply/engine.go,    *)
(* runner_linux.go, waf_package_linux.go, vinyl_package_linux.go).  What a  *)
(* stage puts on the host is none, part or whole: a process that is killed *)
(* while it applies a stage leaves any of them, and the journal says        *)
(* "applying".  A stage is complete only after it was verified.            *)
(***************************************************************************)
EXTENDS Naturals

VARIABLES
  pkg,        \* the installation's journal: complete stages, state of the next one
  installed,  \* what is on the host of each stage
  running     \* the services that accept connections: nginx, services

installVars == <<pkg, installed, running>>

orderedStages == <<"packages", "waf", "vinyl", "identity", "payload", "configuration", "security", "nginx", "services">>
Stages == {orderedStages[i] : i \in DOMAIN orderedStages}
Count == 9

NoPackages == [status |-> "none", done |-> 0, next |-> "pending"]

InitInstall == pkg = NoPackages /\ installed = [s \in Stages |-> "none"] /\ running = {}

Whole(s, h) == h[s] = "whole"

\* The runner's checks; the later ones look up what the earlier stages made.
verifyPackages(h) == Whole("packages", h)
verifyWAFPackage(h) == Whole("waf", h) /\ verifyPackages(h)
verifyVinylPackage(h) == Whole("vinyl", h)
serviceIdentity(h) == Whole("identity", h)
verifyPayload(h) == serviceIdentity(h) /\ Whole("payload", h)
verifyConfiguration(h) == serviceIdentity(h) /\ Whole("configuration", h)
verifySecurity(h) == Whole("security", h)
verifyNGINXIntent(h) == Whole("nginx", h) /\ Whole("configuration", h)
verifyNGINX(h, r) == verifyNGINXIntent(h) /\ "nginx" \in r
verifyServices(h, r) == Whole("services", h) /\ "services" \in r

Verify(s, h, r) ==
  CASE s = "packages" -> verifyPackages(h) [] s = "waf" -> verifyWAFPackage(h) [] s = "vinyl" -> verifyVinylPackage(h)
    [] s = "identity" -> serviceIdentity(h) [] s = "payload" -> verifyPayload(h)
    [] s = "configuration" -> verifyConfiguration(h) [] s = "security" -> verifySecurity(h)
    [] s = "nginx" -> verifyNGINX(h, r) [] s = "services" -> verifyServices(h, r)

VerifyInstallation(h, r) == \A s \in Stages : Verify(s, h, r)

\* A native package that dpkg left incomplete is an error, never absence: such a
\* stage cannot be applied again until an administrator repairs the package.
installedWAFPackageVersion(h) == h["waf"] # "part"
installedVinylPackageVersion(h) == h["vinyl"] # "part"

\* The stages' work; files are reconciled one by one, so a part is completed.
applyPackages(h) == [h EXCEPT !["packages"] = "whole"]
applyWAFPackage(h) == IF installedWAFPackageVersion(h) THEN [h EXCEPT !["waf"] = "whole"] ELSE h
applyVinylPackage(h) == IF installedVinylPackageVersion(h) THEN [h EXCEPT !["vinyl"] = "whole"] ELSE h
applyIdentity(h) == [h EXCEPT !["identity"] = "whole"]
applyPayload(h) == IF serviceIdentity(h) THEN [h EXCEPT !["payload"] = "whole"] ELSE h
applyConfiguration(h) == IF serviceIdentity(h) THEN [h EXCEPT !["configuration"] = "whole"] ELSE h
applySecurity(h) == [h EXCEPT !["security"] = "whole"]
applyNGINX(h) == [h EXCEPT !["nginx"] = "whole"]
applyServices(h) == [h EXCEPT !["services"] = "whole"]

Apply(s, h) ==
  CASE s = "packages" -> applyPackages(h) [] s = "waf" -> applyWAFPackage(h) [] s = "vinyl" -> applyVinylPackage(h)
    [] s = "identity" -> applyIdentity(h) [] s = "payload" -> applyPayload(h)
    [] s = "configuration" -> applyConfiguration(h) [] s = "security" -> applySecurity(h)
    [] s = "nginx" -> applyNGINX(h) [] s = "services" -> applyServices(h)

\* The package scripts may have started nginx, which is stopped again; a stage that
\* does not come to its end may leave what it started.
RunningAfter(s) ==
  CASE s = "packages" -> running \ {"nginx"} [] s \in {"nginx", "services"} -> running \union {s} [] OTHER -> running
RunningWithin(s) == {running, running \union (IF s = "packages" THEN {"nginx"} ELSE {s} \cap {"nginx", "services"})}

\* A failed native package is removed again; the removal may fail, too.
rollbackWAFPackage == {"none", "part"}
AfterFailure(s) == IF s \in {"waf", "vinyl"} THEN rollbackWAFPackage ELSE {"none", "part", "whole"}

NextStage == orderedStages[pkg.done + 1]

\* What a process that stops during a stage can leave of it.
Interrupted(h) == \E left \in {installed[NextStage], "part", "whole"} : h = [installed EXCEPT ![NextStage] = left]

\* Before the units of an installed release run again, all but the last stage is checked.
startForAdmission ==
  /\ \A s \in Stages \ {"nginx", "services"} : Verify(s, installed, running)
  /\ verifyNGINXIntent(installed)
  /\ running' = {"nginx", "services"}
=============================================================================

---------------------------- MODULE HostAccounts ----------------------------
(***************************************************************************)
(* What the privileged agent does on the host for one hosting account       *)
(* (internal/hostidentity, hostfilesystem, hostresources).  A call is a     *)
(* course: the states the account's part of the host goes through, one per  *)
(* command or system call, and the answer at the end.  An agent that is     *)
(* killed, a command that fails and a deadline stop a course after any of   *)
(* its states.  Calls do not overlap: the agent dispatches them one at a    *)
(* time (AgentRpc).                                                         *)
(***************************************************************************)
EXTENDS Naturals, SequencesExt

CONSTANT Revisions      \* 1..N: the limits of a package assignment

ASSUME RevisionsAssumption == Revisions = 1..Cardinality(Revisions) /\ Revisions # {}

\* Two of the six directories of managedLayout; the others are treated alike.
Layout == {"domains", "tmp"}
managedLayout == <<"domains", "tmp">>

\* A directory that was made and not yet given to its owner is "raw".
Entry == {"none", "raw", "owned"}

NoHost == [
  foreign |-> "none",      \* a user or group of somebody else has the name or number
  group |-> "none", user |-> "none", home |-> "none",
  quota |-> 0, project |-> "none", dirs |-> [d \in Layout |-> "none"],
  unit |-> 0, dropIn |-> "none",         \* the account's slice unit; user@UID's drop-in
  loaded |-> 0, limits |-> 0,            \* what systemd has read; what the cgroup enforces
  linger |-> "off", manager |-> "off", subuid |-> "none", subgid |-> "none",
  storage |-> "none", quadlets |-> "none",
  root |-> "none", access |-> "none"]    \* a site's document root, the web server's ACL

\* A user left over with another shell, who lingers; somebody else's user.
Left == [NoHost EXCEPT !.group = "set", !.user = "drifted", !.linger = "on", !.manager = "outside"]
Taken == [NoHost EXCEPT !.foreign = "set"]

HostType == [
  foreign : {"none", "set"}, group : {"none", "set"}, user : {"none", "drifted", "set"},
  home : Entry, quota : {0} \union Revisions, project : {"none", "set"},
  dirs : [Layout -> Entry], unit : {0} \union Revisions, dropIn : {"none", "written", "loaded"},
  loaded : {0} \union Revisions, limits : {0} \union Revisions,
  linger : {"off", "on"}, manager : {"off", "outside", "inside"},
  subuid : {"none", "set"}, subgid : {"none", "set"}, storage : Entry,
  quadlets : {"none", "set"}, root : Entry, access : {"none", "set"}]

-----------------------------------------------------------------------------
(* Courses.                                                                *)

Course(states, answer) == [states |-> states, answer |-> answer]
Stays(h, answer) == Course(<<h>>, answer)
End(c) == Last(c.states)

\* d begins where c ends, and only when c went well.
Then(c, d) == IF c.answer = "done" THEN Course(c.states \o d.states, d.answer) ELSE c

-----------------------------------------------------------------------------
(* hostidentity: the user, its group and the account's directory.          *)

\* Names and numbers are compared in both directions before anything is changed.
inspectExpectedIdentity(h, complete) ==
  h.foreign = "none" /\ (complete => h.user # "drifted")

\* The directory is made; owner and mode are repaired whoever made it.
Ensure(h) ==
  LET made == IF h.home = "none" THEN [h EXCEPT !.home = "raw"] ELSE h
  IN Course(<<made, [made EXCEPT !.home = "owned"]>>, "done")

ReconcileBase(h) ==
  IF ~inspectExpectedIdentity(h, FALSE) THEN Stays(h, "conflict")
  ELSE LET grouped == [h EXCEPT !.group = "set"]
           named == [grouped EXCEPT !.user = "set"]       \* useradd, or usermod
       IN Then(Course(<<h, grouped, named>>, "done"), Ensure(named))

-----------------------------------------------------------------------------
(* hostfilesystem: the project quota and the fixed layout.                 *)

openAccountRoot(h) == h.home = "owned"

\* Empty: nothing has been made below the account's directory.
directoryEmpty(h) ==
  h.storage = "none" /\ h.root = "none" /\ \A d \in Layout : h.dirs[d] = "none"

ensureProject(h) ==
  IF h.project = "set" THEN Stays(h, "done")
  ELSE IF ~directoryEmpty(h) THEN Stays(h, "conflict")
  ELSE Stays([h EXCEPT !.project = "set"], "done")

\* Mutation: a directory that is found is taken as it is.
ensureDirectoryAt_AsFound(h, d) ==
  CASE h.dirs[d] = "none" -> Course(<<[h EXCEPT !.dirs[d] = "raw"],
                                      [h EXCEPT !.dirs[d] = "owned"]>>, "done")
    [] h.dirs[d] # "none" -> Stays(h, "done")

\* Owner and mode are set only by the call that makes the directory; one that is
\* found with another owner is refused.
ensureDirectoryAt(h, d) ==
  CASE h.dirs[d] = "none" -> Course(<<[h EXCEPT !.dirs[d] = "raw"],
                                      [h EXCEPT !.dirs[d] = "owned"]>>, "done")
    [] h.dirs[d] = "raw" -> Stays(h, "conflict")
    [] h.dirs[d] = "owned" -> Stays(h, "done")

EnsureLayout(h) ==
  IF ~openAccountRoot(h) THEN Stays(h, "conflict")
  ELSE LET assigned == ensureProject(h)
           first == Then(assigned, ensureDirectoryAt(End(assigned), managedLayout[1]))
       IN Then(first, ensureDirectoryAt(End(first), managedLayout[2]))

\* The limits of the project are set before anything belongs to it.
ReconcileFilesystem(h, r, lacks) ==
  IF lacks = "quota" THEN Stays(h, "unavailable")
  ELSE LET limited == [h EXCEPT !.quota = r]
       IN Then(Course(<<h, limited>>, "done"), EnsureLayout(limited))

\* The directories of a site's document root, one below the other.
ensureRelativeDirectories(h) ==
  CASE h.root = "none" -> Course(<<[h EXCEPT !.root = "raw"], [h EXCEPT !.root = "owned"]>>, "done")
    [] h.root = "raw" -> Stays(h, "conflict")
    [] h.root = "owned" -> Stays(h, "done")

\* Access for the web server's user, and on Rocky the SELinux labels, follow.
ensureSELinuxWebContext(h) == Stays([h EXCEPT !.access = "set"], "done")

EnsureDocumentRoot(h) ==
  IF ~openAccountRoot(h) \/ h.project # "set" THEN Stays(h, "conflict")
  ELSE LET made == ensureRelativeDirectories(h) IN Then(made, ensureSELinuxWebContext(End(made)))

-----------------------------------------------------------------------------
(* hostresources: the account's slice.                                     *)

\* The drop-in that moves user@UID into the slice is written after the slice.
renderUnits(h, r) ==
  LET sliced == [h EXCEPT !.unit = r]
  IN <<sliced, [sliced EXCEPT !.dropIn = IF @ = "none" THEN "written" ELSE @]>>

reconcileUnits(h, r) == Course(renderUnits(h, r), "done")

daemonReload(h) ==
  [h EXCEPT !.loaded = h.unit, !.dropIn = IF @ = "written" THEN "loaded" ELSE @]

\* A manager that runs elsewhere is restarted; one that does not run is left alone.
ensureUserManagerPlacement(h) ==
  Stays([h EXCEPT !.manager = IF @ = "outside" THEN "inside" ELSE @], "done")

verifyLimits(h, r) == h.limits = r

\* systemd reads the units on every call, whether or not they changed.
ReconcileResources(h, r, lacks) ==
  IF lacks = "cgroup" THEN Stays(h, "unavailable")
  ELSE LET written == Then(Stays(h, "done"), reconcileUnits(h, r))
           reloaded == daemonReload(End(written))
           applied == [reloaded EXCEPT !.limits = r]
           enforced == Then(written, Course(<<reloaded, applied>>,
                                            IF verifyLimits(applied, r) THEN "done" ELSE "failed"))
       IN Then(enforced, ensureUserManagerPlacement(End(enforced)))

-----------------------------------------------------------------------------
(* hostidentity: the rootless container runtime of the account.            *)

\* logind starts the user's manager when lingering begins, in the slice that
\* systemd has read for it.
Started(h) == IF h.manager # "off" THEN h.manager
              ELSE IF h.dropIn = "loaded" THEN "inside" ELSE "outside"

\* One range of 65536 numbers in each of the two files, both made from the user's number.
ensureSubordinateRange(h, file) == [h EXCEPT ![file] = "set"]
removeSubordinateRange(h, file) == [h EXCEPT ![file] = "none"]

ensureSubordinateRanges(h) ==
  LET uids == ensureSubordinateRange(h, "subuid") IN Course(<<uids, ensureSubordinateRange(uids, "subgid")>>, "done")

lingerEnabled(h) == h.linger = "on"
ensureUserRuntime(h) == [h EXCEPT !.manager = Started(h)]

\* A user who lingers already may have no manager: it is started as well.
ensureLinger(h) ==
  LET lingers == [h EXCEPT !.linger = "on"] IN Course(<<lingers, ensureUserRuntime(lingers)>>, "done")

\* The account's store is made and given away, then root's directory of Quadlets.
ensureRuntimeDirectories(h) ==
  LET stored == [h EXCEPT !.storage = "owned"] IN
  CASE h.home = "none" \/ h.storage = "raw" -> Stays(h, "failed")
    [] h.home # "none" /\ h.storage = "none" ->
         Course(<<[h EXCEPT !.storage = "raw"], stored, [stored EXCEPT !.quadlets = "set"]>>, "done")
    [] h.home # "none" /\ h.storage = "owned" -> Stays([h EXCEPT !.quadlets = "set"], "done")

EnsureRuntime(h) ==
  LET ranged == ensureSubordinateRanges(h)
      lingers == Then(ranged, ensureLinger(End(ranged)))
  IN Then(lingers, ensureRuntimeDirectories(End(lingers)))

ReconcileRuntime(h, lacks) ==
  IF ~inspectExpectedIdentity(h, TRUE) \/ h.group = "none" \/ h.user # "set" THEN Stays(h, "conflict")
  ELSE IF lacks = "podman" THEN Stays(h, "unavailable")
  ELSE Then(Stays(h, "done"), EnsureRuntime(h))

-----------------------------------------------------------------------------
(* Deletion of an identity whose directory has been archived.              *)

RequireArchived(h) == h.home = "none"

\* Lingering ends, the manager is stopped and waited for, the ranges go.
RemoveRuntime(h) ==
  LET bare == [h EXCEPT !.quadlets = "none"]
      quiet == [bare EXCEPT !.linger = "off"]
      stopped == [quiet EXCEPT !.manager = "off"]
      last == IF lingerEnabled(h) THEN stopped ELSE bare
      freed == removeSubordinateRange(last, "subuid")
  IN Course((IF lingerEnabled(h) THEN <<bare, quiet, stopped>> ELSE <<bare>>)
              \o <<freed, removeSubordinateRange(freed, "subgid")>>, "done")

\* userdel refuses a user with processes; it takes an empty group along or leaves it.
userdel(h) ==
  IF h.manager # "off" THEN Stays(h, "failed") ELSE Stays([h EXCEPT !.user = "none"], "done")

Delete(h) ==
  IF ~RequireArchived(h) \/ ~inspectExpectedIdentity(h, TRUE) THEN Stays(h, "conflict")
  ELSE LET removed == Then(Stays(h, "done"), RemoveRuntime(h))
           unnamed == IF h.user = "none" THEN removed ELSE Then(removed, userdel(End(removed)))
       IN Then(unnamed, Stays([End(unnamed) EXCEPT !.group = "none"], "done"))

-----------------------------------------------------------------------------

\* Everything that the four calls of a reconciliation set up.
Whole(h) ==
  /\ h.group = "set" /\ h.user = "set" /\ h.home = "owned"
  /\ h.quota # 0 /\ h.project = "set" /\ \A d \in Layout : h.dirs[d] = "owned"
  /\ h.limits # 0 /\ h.loaded # 0 /\ h.dropIn = "loaded"
  /\ h.subuid = "set" /\ h.subgid = "set" /\ h.linger = "on" /\ h.manager = "inside"
  /\ h.storage = "owned" /\ h.quadlets = "set"
=============================================================================

------------------------------ MODULE Updates ------------------------------
(***************************************************************************)
(* Staged platform updates: the release checks and the update policy of the *)
(* panel (internal/core/update.go, internal/updatecheck), the request that  *)
(* starts an updater (internal/updateworkspace, internal/hostupdates), the  *)
(* updater itself (cmd/stackfort-updater) and its journalled transaction    *)
(* with its rollback (internal/updateapply).                               *)
(*                                                                         *)
(* The updater can die, the machine can lose power, a stage or the writing  *)
(* of the journal can fail, anywhere, in the rollback too.  A journal is    *)
(* written with a rename and a sync of its directory: a Save that reports   *)
(* an error leaves the journal before it or, when only the sync failed, the *)
(* new one, and a loss of power can then bring back the old one.  After a   *)
(* loss of power the services are started at boot with whatever is          *)
(* installed, and the API migrates the database it finds (store.Open).      *)
(***************************************************************************)
EXTENDS ReleaseStaging, Sequences

CONSTANTS MaxRequests, MaxStarts, MaxFaults    \* bounds of a behaviour

VARIABLES
  db,             \* the panel's database: schema, rows, update settings
  requests,       \* requests that the API has served so far
  check,          \* the release check in flight
  api,            \* the running API: its version (0: none), whether it has the database open
  host,           \* version of each installed part; 0: between two versions
  backup,         \* per target: the snapshot of the database
  journal,        \* update-state.json
  saved,          \* the journal of the last Save that returned no error
  starting,       \* updaters that do not hold the lock yet
  starts,         \* updaters started so far
  proc,           \* the updater that holds it
  stable,         \* history: rows acknowledged before the update of the journal stopped the API
  faults

panel == <<db, requests, check, api>>
disk == <<host, backup, journal, saved>>
vars == <<published, staged, panel, disk, starting, starts, proc, stable, faults>>

\* Mutation: the snapshot is taken while the services still run.
Stages_Swapped == <<"backup", "stop", "native", "payload", "config", "migrate", "start", "health">>

Stages == <<"stop", "backup", "native", "payload", "config", "migrate", "start", "health">>
PartsOf == [native |-> <<"native">>, payload |-> <<"api", "updater", "web">>, config |-> <<"config">>]
AllParts == PartsOf.native \o PartsOf.payload \o PartsOf.config
Parts == {AllParts[k] : k \in DOMAIN AllParts}
\* Single files are replaced by a rename, the others can be left in between.
Divisible == Parts \ {"api", "updater"}

NoCheck == [channel |-> "none", seen |-> {}]
NoSnapshot == [schema |-> 0]
NoJournal == [status |-> "none", cur |-> 0, tgt |-> 0,
              st |-> [i \in DOMAIN Stages |-> "pending"], completed |-> FALSE]
NoProc == [at |-> "idle", build |-> 0, cur |-> 0, tgt |-> 0, j |-> NoJournal, i |-> 0, k |-> 0, err |-> FALSE]

Init ==
  /\ InitReleases
  /\ \E ch \in Channels :
       db = [schema |-> 1, rows |-> {}, channel |-> ch, latest |-> 0, seen |-> {}, due |-> TRUE]
  /\ requests = 0 /\ check = NoCheck /\ api = [bin |-> 1, open |-> TRUE]
  /\ host = [p \in Parts |-> 1] /\ backup = [v \in Versions |-> NoSnapshot]
  /\ journal = NoJournal /\ saved = NoJournal /\ starting = {} /\ starts = 0 /\ proc = NoProc /\ stable = {} /\ faults = 0

Fault == faults < MaxFaults /\ faults' = faults + 1
Down == [bin |-> 0, open |-> FALSE]

-----------------------------------------------------------------------------
(* The panel.  It works while the API has the database open.                *)

Panel ==                            \* a request of an administrator is served
  /\ api.open /\ requests < MaxRequests /\ requests' = requests + 1
  /\ UNCHANGED <<starts, published, staged, api, disk, starting, proc, stable, faults>>

\* Any other request that changes the database; a file that a rollback has
\* replaced takes the write with it.
AdminWrites ==
  /\ api.bin # 0 /\ requests < MaxRequests /\ requests' = requests + 1
  /\ db' = IF api.open THEN [db EXCEPT !.rows = @ \union {requests + 1}] ELSE db
  /\ UNCHANGED <<published, staged, check, api, disk, starting, starts, proc, stable, faults>>

\* Another channel forgets what was found for the old one.
UpdateUpdatePolicy ==
  /\ Panel /\ UNCHANGED check
  /\ \E ch \in Channels \ {db.channel} :
       db' = [db EXCEPT !.channel = ch, !.latest = 0, !.seen = {}, !.due = TRUE]

\* The cooldown, the interval or the rate limit is over.
CheckIsDue == Panel /\ ~db.due /\ db' = [db EXCEPT !.due = TRUE] /\ UNCHANGED check

GetUpdateSettings == [channel |-> db.channel, seen |-> db.seen]

\* Manual and automatic checks exclude each other; the settings are read here.
StartCheck ==
  /\ Panel /\ check = NoCheck /\ db.due
  /\ check' = GetUpdateSettings /\ UNCHANGED db

\* The highest version of the channel.
selectRelease(channel) ==
  LET eligible == {v \in published : channel = "beta" \/ v \notin Betas}
  IN IF eligible = {} THEN 0 ELSE Max(eligible)

\* "Not modified" (the list is the one of the ETag) keeps what is there.
RecordUpdateCheckSuccess ==
  db' = IF db.channel # check.channel THEN db
        ELSE IF check.seen = published THEN [db EXCEPT !.due = FALSE]
        ELSE [db EXCEPT !.latest = selectRelease(check.channel), !.seen = published, !.due = FALSE]

\* No answer, a rate limit, or an answer that is not a list of releases.
RecordUpdateCheckFailure ==
  db' = IF db.channel # check.channel THEN db ELSE [db EXCEPT !.due = FALSE]

FinishCheck ==
  /\ api.open /\ check # NoCheck /\ check' = NoCheck
  /\ UNCHANGED <<published, staged, requests, api, disk, starting, starts, proc, stable, faults>>
  /\ RecordUpdateCheckSuccess \/ RecordUpdateCheckFailure

Started(s) == starting = {} /\ starts < MaxStarts /\ starting' = {s} /\ starts' = starts + 1

Busy(j) == j.status \in {"applying", "rolling_back", "rollback_failed"}

\* The administrator asks for the release on offer, which is compared with the
\* version of the API and once more, in a transaction, with the database.
PrepareUpdateActivation(v) == v = db.latest

\* The agent refuses another target than the one of a journal that is not settled;
\* the unit it starts waits two seconds.
StartPlatformUpdate(v) ==
  /\ ~(Busy(journal) /\ journal.tgt # v)
  /\ Started([tgt |-> v, build |-> 0])

StartUpdate ==
  /\ api.open
  /\ \E v \in Versions : v > api.bin /\ PrepareUpdateActivation(v) /\ StartPlatformUpdate(v)
  /\ UNCHANGED <<published, staged, panel, disk, proc, stable, faults>>

\* "stackfort-updater apply" by the operator.
RunApply ==
  /\ proc.at # "off" /\ \E v \in Versions : Started([tgt |-> v, build |-> host.updater])
  /\ UNCHANGED <<published, staged, panel, disk, proc, stable, faults>>

\* The same for the target of a rollback that has failed, as often as it takes.
Retry ==
  /\ proc = NoProc /\ starting = {} /\ journal.status = "rollback_failed"
  /\ starting' = {[tgt |-> journal.tgt, build |-> host.updater]}
  /\ UNCHANGED <<starts, published, staged, panel, disk, proc, stable, faults>>

ExecStart ==
  /\ \E s \in starting :
       s.build = 0 /\ starting' = {[s EXCEPT !.build = host.updater]}
  /\ UNCHANGED <<starts, published, staged, panel, disk, proc, stable, faults>>

-----------------------------------------------------------------------------
(* The updater takes the lock, finds out which pair of releases it works    *)
(* on, stages both, and looks at the journal.                              *)

Unstarted == UNCHANGED <<starts, published, panel, stable>>

\* The version the updater believes to be installed; 0: refused.
resolveCurrentVersion(s) ==
  IF ~Busy(journal) THEN s.build
  ELSE IF journal.tgt # s.tgt \/ s.build \notin {journal.cur, journal.tgt} THEN 0
  ELSE journal.cur

AcquireLock ==
  /\ \E s \in starting :
       /\ s.build # 0 /\ starting' = {}
       /\ LET cur == resolveCurrentVersion(s)
          IN proc' = IF proc # NoProc THEN proc
                     ELSE IF cur = 0 \/ cur >= s.tgt THEN NoProc
                     ELSE [NoProc EXCEPT !.at = "stage", !.build = s.build, !.cur = cur, !.tgt = s.tgt]
  /\ Unstarted /\ UNCHANGED <<staged, disk, faults>>

\* The pair is staged: first the current release (k = 0), then the target.
Staging == IF proc.k = 0 THEN proc.cur ELSE proc.tgt

PreparePair ==
  /\ proc.at = "stage" /\ Unstarted /\ UNCHANGED <<disk, starting>>
  /\ \/ /\ \E s \in {staged[Staging], Recorded, [staged[Staging] EXCEPT !.record = "whole"]} :
             Prepared(Staging, "whole", s) /\ staged' = [staged EXCEPT ![Staging] = s]
        /\ proc' = IF proc.k = 0 THEN [proc EXCEPT !.k = 1] ELSE [proc EXCEPT !.at = "open"]
        /\ UNCHANGED faults
     \/ Refused(Staging, "whole") /\ proc' = NoProc /\ UNCHANGED <<staged, faults>>
     \/ /\ Fault /\ \E content \in Downloads \ {"whole"} : Refused(Staging, content)
        /\ proc' = NoProc /\ UNCHANGED staged
     \/ /\ Fault /\ proc' = NoProc
        /\ \E s \in {staged[Staging], NotStaged} :
             writeProvenanceFails(Staging, s) /\ staged' = [staged EXCEPT ![Staging] = s]

Died == /\ proc' = NoProc /\ Fault

StagingDies ==
  /\ proc.at = "stage" /\ Died /\ Unstarted /\ UNCHANGED <<disk, starting>>
  /\ \E t, r \in {"none", "part", "whole"} :
       LET s == [tree |-> t, record |-> r]
       IN StagingStops(Staging, s) /\ staged' = [staged EXCEPT ![Staging] = s]

Uniform(v) == \A p \in Parts : host[p] = v
VerifyInstallation(v) == Uniform(v) /\ api.bin # 0

validateJournal(j) == j.completed = (j.status \in {"complete", "rolled_back", "rollback_failed"})
journalMatches == journal.cur = proc.cur /\ journal.tgt = proc.tgt
terminalJournalMatchesInstalled ==
  \/ journal.status = "complete" /\ journal.tgt = proc.cur
  \/ journal.status = "rolled_back" /\ journal.cur = proc.cur

\* The snapshot of an earlier, settled attempt goes before the journal starts anew.
Preflight ==
  IF proc.build = proc.cur /\ VerifyInstallation(proc.cur)
  THEN /\ backup' = [backup EXCEPT ![proc.tgt] = NoSnapshot]
       /\ proc' = [proc EXCEPT !.at = "init",
            !.j = [NoJournal EXCEPT !.status = "applying", !.cur = proc.cur, !.tgt = proc.tgt]]
  ELSE proc' = NoProc /\ UNCHANGED backup

recoverInterrupted == proc' = [proc EXCEPT !.at = "recover", !.j = [journal EXCEPT !.status = "rolling_back"]]

OpenJournal ==
  /\ proc.at = "open" /\ Unstarted
  /\ CASE journal.status = "none" -> Preflight
       [] journal.status # "none" /\ ~journalMatches /\ terminalJournalMatchesInstalled -> Preflight
       [] journal.status # "none" /\ ~journalMatches /\ ~terminalJournalMatchesInstalled ->
            proc' = NoProc /\ UNCHANGED backup
       [] journalMatches /\ journal.status = "complete" -> proc' = NoProc /\ UNCHANGED backup
       [] journalMatches /\ journal.status = "rolled_back" -> Preflight
       [] journalMatches /\ Busy(journal) -> recoverInterrupted /\ UNCHANGED backup
  /\ UNCHANGED <<staged, host, journal, saved, starting, faults>>

-----------------------------------------------------------------------------
(* The transaction.  at = "init", "begin", "done", "failed", "commit",      *)
(* "recover" and "result" are the places where the journal is written.      *)

Stage == Stages[proc.i]
Working == UNCHANGED <<published, staged, starting, starts>>

Save(j, next) ==
  validateJournal(j) /\ journal' = j /\ saved' = j /\ proc' = next /\ UNCHANGED faults
\* An invalid journal is refused before anything is written.
SaveFails(j, next) ==
  /\ proc' = next /\ UNCHANGED saved
  /\ IF validateJournal(j) THEN Fault /\ journal' \in {journal, j} ELSE UNCHANGED <<journal, faults>>
Saving == Working /\ UNCHANGED <<panel, host, backup>>

WithStage(status) == [proc.j EXCEPT !.st[proc.i] = status]
BeginStage(p, i) == [p EXCEPT !.at = "begin", !.i = i, !.k = 1, !.j.st[i] = "applying"]
\* The rollback starts from the journal the updater has in memory.
rollback(p) == [p EXCEPT !.at = "undo", !.k = 1, !.err = FALSE]

SaveInit ==
  /\ proc.at = "init" /\ Saving
  /\ \/ Save(proc.j, BeginStage(proc, 1)) /\ stable' = {}
     \/ SaveFails(proc.j, NoProc) /\ UNCHANGED stable

SaveBegin ==
  /\ proc.at = "begin" /\ Saving /\ UNCHANGED stable
  /\ Save(proc.j, [proc EXCEPT !.at = "apply"]) \/ SaveFails(proc.j, rollback(proc))

SaveDone ==
  /\ proc.at = "done" /\ Saving /\ UNCHANGED stable
  /\ LET j == WithStage("complete")
         next == IF proc.i < Len(Stages) THEN BeginStage([proc EXCEPT !.j = j], proc.i + 1)
                 ELSE [proc EXCEPT !.at = "commit", !.j = [j EXCEPT !.status = "complete", !.completed = TRUE]]
     IN Save(j, next) \/ SaveFails(j, rollback([proc EXCEPT !.j = j]))

SaveFailed ==
  /\ proc.at = "failed" /\ Saving /\ UNCHANGED stable
  /\ LET j == [WithStage("failed") EXCEPT !.status = "rolling_back"]
         next == rollback([proc EXCEPT !.j = j])
     IN Save(j, next) \/ SaveFails(j, next)

SaveCommit ==
  /\ proc.at = "commit" /\ Saving /\ UNCHANGED stable
  /\ \/ Save(proc.j, NoProc)
     \/ SaveFails(proc.j, rollback([proc EXCEPT !.j.status = "rolling_back"]))

SaveRecover ==
  /\ proc.at = "recover" /\ Saving /\ UNCHANGED stable
  /\ Save(proc.j, rollback(proc)) \/ SaveFails(proc.j, NoProc)

-----------------------------------------------------------------------------
(* What the stages do to the host.                                          *)

Applied == [proc EXCEPT !.at = "done"]
Failed == [proc EXCEPT !.at = "failed"]
Applying(stages) == proc.at = "apply" /\ Stage \in stages /\ Working /\ UNCHANGED <<journal, saved>>

\* A binary of version v refuses a database with migrations it does not know, and
\* brings an older one to its own schema.
validateAppliedMigrations(d, v) == d.schema <= v
Open(d, v) == [d EXCEPT !.schema = v]

\* Services that run already are left alone.
Startable == host.api # 0 /\ validateAppliedMigrations(db, host.api)
startAPI ==
  IF api.bin = 0 /\ Startable
  THEN api' = [bin |-> host.api, open |-> TRUE] /\ db' = Open(db, host.api)
  ELSE UNCHANGED <<api, db>>

stopServices ==
  /\ Applying({"stop"}) /\ UNCHANGED <<db, requests, host, backup, faults>>
  /\ api' = Down /\ check' = NoCheck /\ proc' = Applied /\ stable' = db.rows

\* The snapshot is linked into place whole, and never over another one.
Backup(d) == db' = d /\ backup' = [backup EXCEPT ![proc.tgt] = d]

backupState ==
  /\ Applying({"backup"}) /\ UNCHANGED <<requests, check, api, host, stable, faults>>
  /\ IF validateAppliedMigrations(db, proc.build) /\ backup[proc.tgt] = NoSnapshot
     THEN Backup(Open(db, proc.build)) /\ proc' = Applied
     ELSE UNCHANGED <<db, backup>> /\ proc' = Failed

applyInstallerStages ==
  /\ Applying({"native", "payload", "config"}) /\ UNCHANGED <<panel, backup, stable, faults>>
  /\ host' = [host EXCEPT ![PartsOf[Stage][proc.k]] = proc.tgt]
  /\ proc' = IF proc.k < Len(PartsOf[Stage]) THEN [proc EXCEPT !.k = @ + 1] ELSE Applied

\* One migration is one transaction; "check" opens the database once more.
applyMigration == db' = [db EXCEPT !.schema = @ + 1]

migrate ==
  /\ Applying({"migrate"}) /\ UNCHANGED <<requests, check, api, host, backup, stable, faults>>
  /\ IF ~validateAppliedMigrations(db, host.api) THEN UNCHANGED db /\ proc' = Failed
     ELSE IF db.schema < host.api THEN applyMigration /\ UNCHANGED proc
     ELSE UNCHANGED db /\ proc' = Applied

startServices ==
  /\ Applying({"start"}) /\ UNCHANGED <<requests, check, host, backup, stable, faults>>
  /\ startAPI /\ proc' = IF api.bin # 0 \/ Startable THEN Applied ELSE Failed

healthGate ==
  /\ Applying({"health"}) /\ UNCHANGED <<panel, host, backup, stable, faults>>
  /\ proc' = IF VerifyInstallation(proc.tgt) THEN Applied ELSE Failed

\* A command fails, a check does not hold, or the updater is told to stop.
StageFails ==
  /\ proc.at = "apply" /\ Fault /\ proc' = Failed /\ Working /\ UNCHANGED <<journal, saved, stable>>
  /\ \/ UNCHANGED <<panel, host, backup>>
     \/ Stage = "stop" /\ api' = Down /\ check' = NoCheck /\ UNCHANGED <<db, requests, host, backup>>
     \/ /\ Stage \in DOMAIN PartsOf /\ PartsOf[Stage][proc.k] \in Divisible
        /\ host' = [host EXCEPT ![PartsOf[Stage][proc.k]] = 0]
        /\ UNCHANGED <<panel, backup>>
     \/ /\ Stage = "start" /\ startAPI /\ UNCHANGED <<requests, check, host, backup>>

-----------------------------------------------------------------------------
(* The rollback: stop, restore, the parts of the current release, start.    *)

rollbackRequiresBackup(j) ==
  j.st[2] \in {"applying", "complete"} \/ \E i \in 3..Len(Stages) : j.st[i] # "pending"

Undoing(k) == proc.at = "undo" /\ proc.k = k /\ Working /\ UNCHANGED <<journal, saved, stable>>
Undone == [proc EXCEPT !.k = @ + 1]

\* Mutation: the errors of a rollback are not collected.
WithError_Lost(p) == p

WithError(p) == [p EXCEPT !.err = TRUE]
LastPart == 3 + Len(AllParts)      \* the step after the parts

\* A service that does not stop does not end the rollback; sources that no longer
\* pass AuthorizePayloadTransition end it before it has begun.
UndoStop ==
  /\ Undoing(1) /\ UNCHANGED <<db, requests, host, backup>>
  /\ \/ api' = Down /\ check' = NoCheck /\ proc' = Undone /\ UNCHANGED faults
     \/ Fault /\ proc' = WithError(Undone) /\ UNCHANGED <<api, check>>
     \/ Fault /\ proc' = WithError([proc EXCEPT !.at = "result"]) /\ UNCHANGED <<api, check>>

\* A running API keeps the file it has open.
Restored(s) == db' = s /\ api' = [api EXCEPT !.open = FALSE] /\ check' = NoCheck

restoreState ==
  /\ Undoing(2) /\ UNCHANGED <<requests, host, backup>>
  /\ LET s == backup[proc.tgt]
     IN \/ ~rollbackRequiresBackup(proc.j) /\ proc' = Undone /\ UNCHANGED <<db, api, check, faults>>
        \/ /\ rollbackRequiresBackup(proc.j) /\ s = NoSnapshot
           /\ proc' = WithError(Undone) /\ UNCHANGED <<db, api, check, faults>>
        \/ /\ rollbackRequiresBackup(proc.j) /\ s # NoSnapshot
           /\ Restored(s) /\ proc' = Undone /\ UNCHANGED faults
        \/ /\ rollbackRequiresBackup(proc.j) /\ s # NoSnapshot /\ Fault
           /\ proc' = WithError(Undone) /\ (Restored(s) \/ UNCHANGED <<db, api, check>>)

\* A part that fails ends the parts; the services are started all the same.
UndoPart ==
  /\ proc.k \in 3..(LastPart - 1) /\ Undoing(proc.k) /\ UNCHANGED <<panel, backup>>
  /\ LET p == AllParts[proc.k - 2]
     IN \/ host' = [host EXCEPT ![p] = proc.cur] /\ proc' = Undone /\ UNCHANGED faults
        \/ /\ Fault /\ proc' = WithError([proc EXCEPT !.k = LastPart])
           /\ host' \in {host} \union (IF p \in Divisible THEN {[host EXCEPT ![p] = 0]} ELSE {})

UndoStart ==
  /\ Undoing(LastPart) /\ UNCHANGED <<requests, check, host, backup>> /\ startAPI
  /\ \/ /\ UNCHANGED faults
        /\ proc' = IF (api.bin # 0 \/ Startable) /\ Uniform(proc.cur)
                   THEN [proc EXCEPT !.at = "result"] ELSE WithError([proc EXCEPT !.at = "result"])
     \/ Fault /\ proc' = WithError([proc EXCEPT !.at = "result"])

SaveResult ==
  /\ proc.at = "result" /\ Saving /\ UNCHANGED stable
  /\ LET j == [proc.j EXCEPT !.completed = TRUE,
                 !.status = IF proc.err THEN "rollback_failed" ELSE "rolled_back"]
     IN Save(j, NoProc) \/ SaveFails(j, NoProc)

-----------------------------------------------------------------------------
(* The updater dies; or the machine stops, and boots into what is there.    *)

\* What the step that was cut short can have done.  A database whose log is
\* removed before the snapshot takes its place can have lost its last writes.
CutShort ==
  \/ UNCHANGED <<host, db>>
  \/ /\ proc.at = "apply" /\ Stage \in DOMAIN PartsOf /\ PartsOf[Stage][proc.k] \in Divisible
     /\ host' = [host EXCEPT ![PartsOf[Stage][proc.k]] = 0] /\ UNCHANGED db
  \/ /\ proc.at = "undo" /\ proc.k \in 3..(LastPart - 1) /\ AllParts[proc.k - 2] \in Divisible
     /\ host' = [host EXCEPT ![AllParts[proc.k - 2]] = 0] /\ UNCHANGED db
  \/ /\ proc.at = "undo" /\ proc.k = 2 /\ rollbackRequiresBackup(proc.j) /\ backup[proc.tgt] # NoSnapshot
     /\ \E kept \in SUBSET db.rows, schema \in backup[proc.tgt].schema..db.schema :
          db' = [db EXCEPT !.rows = kept, !.schema = schema]
     /\ UNCHANGED host

UpdaterDies ==
  /\ proc.at \notin {"idle", "stage", "off"} /\ Died /\ CutShort
  /\ UNCHANGED <<published, staged, requests, check, api, backup, journal, saved, starting, starts, stable>>

\* The rename of a journal whose Save reported an error may be lost.
PowerLoss ==
  /\ journal' \in {journal, saved}
  /\ proc.at \notin {"stage", "off"} /\ Fault /\ CutShort
  /\ proc' = [NoProc EXCEPT !.at = "off"] /\ api' = Down /\ check' = NoCheck /\ starting' = {}
  /\ UNCHANGED <<published, staged, requests, backup, saved, starts, stable>>

Boot ==
  /\ proc.at = "off" /\ proc' = NoProc /\ startAPI
  /\ UNCHANGED <<published, staged, requests, check, disk, starting, starts, stable, faults>>

Step ==
  \/ AcquireLock \/ PreparePair \/ OpenJournal
  \/ SaveInit \/ SaveBegin \/ SaveDone \/ SaveFailed \/ SaveCommit \/ SaveRecover \/ SaveResult
  \/ stopServices \/ backupState \/ applyInstallerStages \/ migrate \/ startServices \/ healthGate
  \/ StageFails \/ UndoStop \/ restoreState \/ UndoPart \/ UndoStart

Next ==
  \/ Publish /\ UNCHANGED <<staged, panel, disk, starting, starts, proc, stable, faults>>
  \/ AdminWrites \/ UpdateUpdatePolicy \/ CheckIsDue \/ StartCheck \/ FinishCheck
  \/ StartUpdate \/ RunApply \/ Retry \/ ExecStart
  \/ Step \/ StagingDies \/ UpdaterDies \/ PowerLoss \/ Boot

Spec == Init /\ [][Next]_vars

\* An updater that runs goes on, and somebody retries a failed rollback.
RetrySpec == Spec /\ WF_vars(Step) /\ WF_vars(Boot) /\ WF_vars(Retry)

-----------------------------------------------------------------------------
(* What updates promise.                                                    *)

\* An update is all or nothing: a journal that says rolled back, and one that says
\* complete and whose Save returned no error, describes every installed part, the
\* running API and the schema of the database while no updater is at work
\* (updateapply Engine.Apply and rollback).
AllOrNothing ==
  \A v \in Versions :
    /\ proc.at \notin {"apply", "undo"}
    /\ \/ journal.status = "complete" /\ journal.tgt = v /\ journal = saved
       \/ journal.status = "rolled_back" /\ journal.cur = v
    => Uniform(v) /\ db.schema = v /\ api.bin \in {0, v}

\* "ends in `complete`" only after the health gate (docs/staged-platform-updates.md):
\* the same of every journal that says complete.  A commit whose Save fails in the
\* sync of the directory is rolled back under a journal that says complete.
CompleteIsComplete ==
  proc.at \notin {"apply", "undo"} /\ journal.status = "complete" =>
    Uniform(journal.tgt) /\ db.schema = journal.tgt

\* No update loses a row that was there when it stopped the services, whatever
\* goes wrong: it is in the database, or in the snapshot of the update's target and
\* then the journal is not settled, or is not the one last saved without an error
\* (backupState, restoreState, rollbackRequiresBackup).
DatabaseKept ==
  \/ stable \subseteq db.rows
  \/ /\ backup[saved.tgt] # NoSnapshot /\ stable \subseteq backup[saved.tgt].rows
     /\ Busy(journal) \/ journal # saved

\* What the panel offers was published and belongs to the channel the policy
\* names now, though the answer to a check of the other channel can arrive after
\* the policy has changed (RecordUpdateCheckSuccess).
OfferedIsEligible ==
  db.latest # 0 => db.latest \in published /\ (db.channel = "beta" \/ db.latest \notin Betas)

\* The sources an updater works from are whole trees with a whole record, though
\* an earlier updater can have died at any point of staging them (Stager.Prepare).
UsedIsVerified ==
  proc.at \notin {"idle", "off", "stage"} => loadPrepared(staged[proc.cur]) /\ loadPrepared(staged[proc.tgt])

\* "Correct the underlying host problem and start the same target version again to
\* invoke fail-closed recovery" (docs/staged-platform-updates.md): a rollback that
\* failed can be completed by a retry.
RecoveryCompletes == journal.status = "rollback_failed" ~> journal.status = "rolled_back"
=============================================================================

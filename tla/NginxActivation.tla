--------------------------- MODULE NginxActivation --------------------------
(***************************************************************************)
(* The transactional activation of NGINX site revisions by the privileged  *)
(* agent: Activate of internal/hostnginx/activation.go over the journal,   *)
(* revision directories and the sites-current link of                      *)
(* activation_store_linux.go.                                              *)
(*                                                                         *)
(* The identifier of a durable operation is the identifier of its          *)
(* revision, so both are members of Revs.  The agent executes one request  *)
(* at a time (responseCache.execute holds its mutex, Begin holds a lock    *)
(* file).  Every write of the code is atomic and synced (rename and fsync  *)
(* of the directory), so every write is one step, a crash of the agent may *)
(* come between any two, and a write that reports an error may or may not  *)
(* have taken effect.  NGINX reads the link when it is reloaded and when   *)
(* it restarts on its own account.                                         *)
(***************************************************************************)
EXTENDS Naturals, FiniteSets

CONSTANTS
    Revs,         \* operations, and the revisions they activate
    Accounts,     \* hosting accounts
    Account,      \* Account[r]: the account whose sites r renders
    Empty,        \* the operations that render no site of their account
    Bad,          \* the operations whose candidate fails nginx -t
    None,         \* no revision
    WriteErrors,  \* TRUE: steps may report errors; FALSE: the agent only crashes
    MaxFaults,    \* bound on crashes, lost answers and failing steps
    MaxRestarts   \* bound on independent restarts of NGINX

ASSUME ActivationAssumption ==
    /\ None \notin Revs
    /\ Account \in [Revs -> Accounts]
    /\ Empty \subseteq Revs /\ Bad \subseteq Revs
    /\ WriteErrors \in BOOLEAN /\ MaxFaults \in Nat /\ MaxRestarts \in Nat

VARIABLES
    disk,      \* the managed files below /etc/nginx/stackfort
    running,   \* the revision and the sites that NGINX has loaded
    agent,     \* the progress of the request the agent executes
    cached,    \* the operations with a success in the response cache
    answer,    \* answer[r]: the last answer the control plane got for r
    faults,    \* faults so far
    restarts   \* restarts of NGINX so far

vars == <<disk, running, agent, cached, answer, faults, restarts>>

Phase == {"preparing", "staged", "validated", "promoted", "reloaded", "healthy",
          "recovering"}

\* The phases in which the candidate may have been visible to NGINX.
Visible == {"promoted", "reloaded", "healthy", "recovering"}

NoSites == [a \in Accounts |-> None]
NoJournal == [phase |-> "none", rev |-> None, prev |-> None]
Journal(phase, rev, prev) == [phase |-> phase, rev |-> rev, prev |-> prev]

\* Directories hold all their files, some of them, or do not exist.
Directory == {"absent", "partial", "full"}

\* The sites of a revision: for every account the operation that rendered its
\* file.  Without a revision the include directory matches nothing.
SitesOf(d, r) == IF r = None THEN NoSites ELSE d.sites[r]
View(d) == [rev |-> d.current, sites |-> SitesOf(d, d.current)]

\* Mutant: the files of the other accounts are not copied.
Staged_OwnFile(d, r) ==
    [NoSites EXCEPT ![Account[r]] = IF r \in Empty THEN None ELSE r]

\* Staging copies every file but the account's own.
Staged(d, r) ==
    [SitesOf(d, d.current) EXCEPT ![Account[r]] = IF r \in Empty THEN None ELSE r]

Idle == [pc |-> "idle", op |-> None, rev |-> None, prev |-> None, after |-> "none"]

Init ==
    /\ disk = [current |-> None, journal |-> NoJournal,
               dir |-> [r \in Revs |-> "absent"], tx |-> {},
               sites |-> [r \in Revs |-> NoSites]]
    /\ running = View(disk)
    /\ agent = Idle
    /\ cached = {}
    /\ answer = [r \in Revs |-> "none"]
    /\ faults = 0
    /\ restarts = 0

-----------------------------------------------------------------------------
(***************************************************************************)
(* Steps.  A step of the agent succeeds and goes on, or reports an error,  *)
(* with or without its effect, and goes to the error path.                 *)
(***************************************************************************)

At(pc) == agent.pc = pc
Goto(pc) == agent' = [agent EXCEPT !.pc = pc] /\ UNCHANGED <<answer, cached>>
Return(result) ==
    /\ agent' = Idle
    /\ answer' = [answer EXCEPT ![agent.op] = result]
    /\ cached' = IF result = "ok" THEN cached \cup {agent.op} ELSE cached
Fail(path) == IF path = "return" THEN Return("failed") ELSE Goto(path)
Fault == faults < MaxFaults /\ faults' = faults + 1
Error == WriteErrors /\ Fault

\* A write to the managed files.
Write(new, next, path) ==
    /\ \/ disk' = new /\ Goto(next) /\ UNCHANGED faults
       \/ Error /\ disk' \in {disk, new} /\ Fail(path)
    /\ UNCHANGED <<running, restarts>>

\* A check that changes nothing.
Check(holds, next, path) ==
    /\ \/ holds /\ Goto(next) /\ UNCHANGED faults
       \/ ~holds /\ Fail(path) /\ UNCHANGED faults
       \/ Error /\ Fail(path)
    /\ UNCHANGED <<disk, running, restarts>>

WithJournal(phase) ==
    [disk EXCEPT !.journal = Journal(phase, agent.rev, agent.prev)]

\* nginx -t accepts what the link points to.
Loads(d) ==
    d.current # None =>
      d.dir[d.current] = "full" /\ \A a \in Accounts : d.sites[d.current][a] \notin Bad

-----------------------------------------------------------------------------
(***************************************************************************)
(* The request, and the recovery of an earlier one.                        *)
(***************************************************************************)

\* The control plane sends an operation, again if it got no success.
Call(r) ==
    /\ At("idle")
    /\ answer[r] # "ok"
    /\ IF r \in cached
       THEN answer' = [answer EXCEPT ![r] = "ok"] /\ UNCHANGED agent
       ELSE agent' = [Idle EXCEPT !.pc = "recover", !.op = r] /\ UNCHANGED answer
    /\ UNCHANGED <<disk, running, cached, faults, restarts>>

\* Recover takes the interrupted revision and its predecessor from the journal.
Resume(pc) ==
    agent' = [agent EXCEPT !.pc = pc, !.rev = disk.journal.rev,
                           !.prev = disk.journal.prev, !.after = "active"]

\* Mutant: only the phase is trusted, the link is not looked at.
Recover_PhaseOnly ==
    /\ At("recover")
    /\ \/ disk.journal = NoJournal /\ agent' = [agent EXCEPT !.pc = "active"]
       \/ disk.journal.phase \in Visible /\ Resume("recoverRestore")
       \/ disk.journal.phase \notin Visible /\ disk.journal # NoJournal /\ Resume("cleanTx")
    /\ UNCHANGED <<disk, running, cached, answer, faults, restarts>>

\* What the journal and the link say about the interrupted activation.  (The
\* default branch, a link to a third revision, is JournalTracksLink's.)
Recover ==
    /\ At("recover")
    /\ \/ disk.journal = NoJournal /\ agent' = [agent EXCEPT !.pc = "active"]
       \/ /\ disk.journal # NoJournal /\ disk.current = disk.journal.rev
          /\ Resume("recoverRestore")
       \/ /\ disk.journal # NoJournal /\ disk.current = disk.journal.prev
          /\ Resume(IF disk.journal.phase \in Visible THEN "recoverMark" ELSE "cleanTx")
    /\ UNCHANGED <<disk, running, cached, answer, faults, restarts>>

\* The inspections before and during Begin and Recover fail.
RecoverFails ==
    /\ At("recover") /\ Error /\ Return("failed")
    /\ UNCHANGED <<disk, running, restarts>>

\* replaceCurrent(previous), then the journal.
RecoverRestore ==
    /\ At("recoverRestore")
    /\ Write([disk EXCEPT !.current = agent.prev], "recoverMark", "return")
RecoverMark ==
    /\ At("recoverMark")
    /\ Write(WithJournal("recovering"), "recoverReload", "return")

\* validateReloadAndInspect; systemctl may fail after NGINX has reloaded.
ReloadRestored(pc, next) ==
    /\ At(pc)
    /\ \/ Loads(disk) /\ running' = View(disk) /\ Goto(next) /\ UNCHANGED faults
       \/ Error /\ Loads(disk) /\ running' \in {running, View(disk)} /\ Fail("return")
    /\ UNCHANGED <<disk, restarts>>

\* Mutant: recovery moves the link back and does not reload.
RecoverReload_Skipped ==
    At("recoverReload") /\ Goto("cleanTx") /\ UNCHANGED <<disk, running, faults, restarts>>

RecoverReload == ReloadRestored("recoverReload", "cleanTx")

(***************************************************************************)
(* cleanupTransaction: the transaction directory, the revision directory   *)
(* file by file, and the journal last.                                     *)
(***************************************************************************)

\* A failure to remove the first directory keeps the journal, no more.
CleanTx ==
    LET new == [disk EXCEPT !.tx = @ \ {agent.rev}]
    IN  /\ At("cleanTx") /\ disk.current # agent.rev
        /\ \/ disk' = new /\ Goto("cleanFiles") /\ UNCHANGED faults
           \/ /\ Error /\ disk' \in {disk, new}
              /\ agent' = [agent EXCEPT !.pc = "cleanFiles", !.after = "abandon"]
              /\ UNCHANGED <<answer, cached>>
        /\ UNCHANGED <<running, restarts>>

CleanFiles ==
    /\ At("cleanFiles")
    /\ Write([disk EXCEPT !.dir[agent.rev] = IF @ = "full" THEN "partial" ELSE @],
             "cleanDir", "return")

CleanDir ==
    /\ At("cleanDir")
    /\ Write([disk EXCEPT !.dir[agent.rev] = "absent", !.sites[agent.rev] = NoSites],
             "cleanJournal", "return")

\* A recovery goes on with the request, an abort or a rollback reports failure.
CleanJournal ==
    LET new == [disk EXCEPT !.journal = NoJournal]
    IN  /\ At("cleanJournal")
        /\ \/ agent.after = "active" /\ Write(new, "active", "return")
           \/ /\ agent.after = "failed" /\ Return("failed")
              /\ \/ disk' = new /\ UNCHANGED faults
                 \/ Error /\ UNCHANGED disk
              /\ UNCHANGED <<running, restarts>>
           \/ /\ agent.after = "abandon" /\ Return("failed")
              /\ UNCHANGED <<disk, running, faults, restarts>>

-----------------------------------------------------------------------------
(***************************************************************************)
(* The activation proper.                                                  *)
(***************************************************************************)

\* The probe finds the operation in the header of its account's sites; an
\* account without an active domain is not probed.
Healthy(r) == r \in Empty \/ running.sites[Account[r]] = r

\* Active: the current revision is the operation's, which is a replay.
ActiveMatched ==
    /\ At("active") /\ disk.current = agent.op
    /\ \/ Loads(disk) /\ Healthy(agent.op) /\ Return("ok") /\ UNCHANGED faults
       \/ Error /\ Return("failed")
    /\ UNCHANGED <<disk, running, restarts>>

\* Stage refuses a revision whose directories exist.
Stageable(r) == disk.dir[r] = "absent" /\ r \notin disk.tx

StageRefused ==
    /\ At("active") /\ disk.current # agent.op
    /\ ~Stageable(agent.op)
    /\ Return("refused")
    /\ UNCHANGED <<disk, running, faults, restarts>>

\* Mutant: the journal does not name the predecessor.
StagePrepare_NoPrevious ==
    LET new == [disk EXCEPT !.journal = Journal("preparing", agent.op, None)]
    IN  /\ At("active") /\ disk.current # agent.op
        /\ Stageable(agent.op)
        /\ disk' = new
        /\ agent' = [agent EXCEPT !.pc = "build", !.rev = agent.op,
                                  !.prev = disk.current, !.after = "failed"]
        /\ UNCHANGED <<answer, cached, faults, running, restarts>>

\* From the first journal write on an error is followed by an abort or a
\* rollback, or leaves the journal to the next request.
StagePrepare ==
    LET new == [disk EXCEPT !.journal = Journal("preparing", agent.op, disk.current)]
    IN  /\ At("active") /\ disk.current # agent.op
        /\ Stageable(agent.op)
        /\ \/ /\ disk' = new
              /\ agent' = [agent EXCEPT !.pc = "build", !.rev = agent.op,
                                        !.prev = disk.current, !.after = "failed"]
              /\ UNCHANGED <<answer, cached, faults>>
           \/ Error /\ disk' \in {disk, new} /\ Return("failed")
        /\ UNCHANGED <<running, restarts>>

StageBuild ==
    /\ At("build")
    /\ Write([disk EXCEPT !.dir[agent.rev] = "partial", !.tx = @ \cup {agent.rev}],
             "fill", "return")

StageFill ==
    /\ At("fill")
    /\ Write([disk EXCEPT !.dir[agent.rev] = "full", !.sites[agent.rev] = Staged(disk, agent.rev)],
             "markStaged", "return")

MarkStaged == At("markStaged") /\ Write(WithJournal("staged"), "test", "return")

\* Mutant: the candidate is promoted without a test.
TestCandidate_Skipped == At("test") /\ Check(TRUE, "markValidated", "cleanTx")

\* nginx -t of the candidate; an error aborts the transaction.
TestCandidate ==
    /\ At("test")
    /\ Check(\A a \in Accounts : disk.sites[agent.rev][a] \notin Bad, "markValidated", "cleanTx")

MarkValidated == At("markValidated") /\ Write(WithJournal("validated"), "promote", "cleanTx")

\* Promote: the link, then the journal.
Promote ==
    /\ At("promote") /\ disk.current = agent.prev
    /\ Write([disk EXCEPT !.current = agent.rev], "markPromoted", "restore")

MarkPromoted == At("markPromoted") /\ Write(WithJournal("promoted"), "reload", "restore")

\* systemctl reload; NGINX keeps what it runs when it cannot load the files.
Reload ==
    /\ At("reload")
    /\ \/ Loads(disk) /\ running' = View(disk) /\ Goto("markReloaded") /\ UNCHANGED faults
       \/ Error /\ running' \in {running, View(disk)} /\ Goto("restore")
    /\ UNCHANGED <<disk, restarts>>

MarkReloaded == At("markReloaded") /\ Write(WithJournal("reloaded"), "probe", "restore")

\* The service state and the health probe.
Probe == At("probe") /\ Check(Healthy(agent.op), "markHealthy", "restore")

MarkHealthy == At("markHealthy") /\ Write(WithJournal("healthy"), "commitTx", "restore")

\* Mutant: Commit removes the journal before the transaction directory.
CommitTx_JournalFirst ==
    /\ At("commitTx")
    /\ Write([disk EXCEPT !.journal = NoJournal], "commitJournal", "restore")

CommitTx ==
    /\ At("commitTx") /\ disk.current = agent.rev
    /\ Write([disk EXCEPT !.tx = @ \ {agent.rev}], "commitJournal", "restore")

CommitJournal ==
    LET new == [disk EXCEPT !.journal = NoJournal]
    IN  /\ At("commitJournal")
        /\ \/ disk' = new /\ Return("ok") /\ UNCHANGED faults
           \/ Error /\ disk' \in {disk, new} /\ Goto("restore")
        /\ UNCHANGED <<running, restarts>>

-----------------------------------------------------------------------------
(***************************************************************************)
(* rollback: RestorePrevious, validateReloadAndInspect, CompleteRollback.  *)
(***************************************************************************)

Restore ==
    /\ At("restore")
    /\ Write([disk EXCEPT !.current = agent.prev], "restoreMark", "return")

RestoreMark == At("restoreMark") /\ Write(WithJournal("recovering"), "restoreReload", "return")

RestoreReload == ReloadRestored("restoreReload", "cleanTx")

-----------------------------------------------------------------------------
(***************************************************************************)
(* The environment.                                                        *)
(***************************************************************************)

\* The agent dies and restarts; the control plane gets no answer.
Crash ==
    /\ ~At("idle") /\ Fault
    /\ agent' = Idle /\ cached' = {}
    /\ answer' = [answer EXCEPT ![agent.op] = "lost"]
    /\ UNCHANGED <<disk, running, restarts>>

\* An entry of the response cache expires, or the idle agent restarts.
CacheExpires(r) ==
    /\ r \in cached /\ cached' = cached \ {r}
    /\ UNCHANGED <<disk, running, agent, answer, faults, restarts>>

\* The answer to a finished request is lost on its way (the API restarts or its
\* call timed out), and the control plane will send the operation again.
AnswerLost(r) ==
    /\ answer[r] = "ok" /\ Fault
    /\ answer' = [answer EXCEPT ![r] = "lost"]
    /\ UNCHANGED <<disk, running, agent, cached, restarts>>

\* A reboot, a package upgrade or another reload of NGINX, while the agent is
\* between requests.
NginxRestart ==
    /\ At("idle") /\ restarts < MaxRestarts
    /\ restarts' = restarts + 1
    /\ Loads(disk) /\ running' = View(disk)
    /\ UNCHANGED <<disk, agent, cached, answer, faults>>

RecoveryStep ==
    \/ Recover \/ RecoverFails \/ RecoverRestore \/ RecoverMark \/ RecoverReload
    \/ CleanTx \/ CleanFiles \/ CleanDir \/ CleanJournal

StageStep ==
    \/ ActiveMatched \/ StageRefused \/ StagePrepare \/ StageBuild \/ StageFill
    \/ MarkStaged \/ TestCandidate \/ MarkValidated

PromoteStep ==
    \/ Promote \/ MarkPromoted \/ Reload \/ MarkReloaded \/ Probe \/ MarkHealthy
    \/ CommitTx \/ CommitJournal \/ Restore \/ RestoreMark \/ RestoreReload

AgentStep == RecoveryStep \/ StageStep \/ PromoteStep

Next ==
    \/ \E r \in Revs : Call(r) \/ CacheExpires(r) \/ AnswerLost(r)
    \/ AgentStep
    \/ Crash
    \/ NginxRestart

Spec == Init /\ [][Next]_vars

\* The agent goes on with a request it has begun.  Nobody has to send one: the
\* control plane gives an operation up after a few attempts, or at once when its
\* candidate is invalid, and the agent recovers nothing before the next request.
LiveSpec == Spec /\ WF_vars(AgentStep)

-----------------------------------------------------------------------------
(***************************************************************************)
(* Properties.                                                             *)
(***************************************************************************)

OrNone == Revs \cup {None}
SiteSet == [Accounts -> OrNone]

Answer == {"none", "ok", "failed", "refused", "lost"}

\* Whenever NGINX is started or reloaded, at any point of an activation, a
\* rollback or a recovery and after any crash, the link leads to a complete
\* revision that passed nginx -t.
LinkAlwaysLoads == Loads(disk)

\* The link is always at the journal's revision or at its predecessor, so
\* Recover never meets the pointer it refuses to guess about; and the
\* predecessor is complete, so there is always something to return to.
JournalTracksLink ==
    disk.journal # NoJournal =>
      /\ disk.current \in {disk.journal.rev, disk.journal.prev}
      /\ disk.journal.prev # None => disk.dir[disk.journal.prev] = "full"
      /\ disk.journal.prev # disk.journal.rev

\* Unfinished files always have a journal that leads the next request to them.
NoOrphans ==
    \A r \in Revs : (disk.dir[r] = "partial" \/ r \in disk.tx) => disk.journal.rev = r

\* Moving the link, forwards or back, changes the sites of one account: the one
\* whose activation the agent carries out, rolls back or recovers from.
OtherAccountsKept ==
    [][\A b \in Accounts : View(disk)'.sites[b] # View(disk).sites[b] =>
         agent.rev \in {r \in Revs : Account[r] = b}]_vars

\* An operation that was answered with success is still what is linked for its
\* account, unless a later operation of the same account was tried: rollbacks
\* and recoveries of other accounts' operations never undo it.
SuccessKept ==
    \A r \in Revs :
      /\ answer[r] = "ok" /\ r \notin Empty
      /\ \A q \in Revs \ {r} : Account[q] = Account[r] => answer[q] = "none" /\ agent.op # q
      => View(disk).sites[Account[r]] = r

\* Between requests and without a journal NGINX serves what the link shows, after
\* one fault at any point (for two faults see LoadedTreeKept).
ServedIsLinked ==
    faults <= 1 /\ At("idle") /\ disk.journal = NoJournal => running = View(disk)

\* The previous configuration is reloaded before the files of a revision that
\* NGINX may have loaded are removed.
LoadedTreeKept == running.rev # None => disk.dir[running.rev] = "full"

\* A replay of an operation whose sites are in place is not refused.
ReplayRecognised ==
    \A r \in Revs : answer[r] = "refused" => SitesOf(disk, disk.current)[Account[r]] # r

\* Whatever faults left behind, the next request works it off: unless another fault
\* comes in between, the request ends, and ends without a journal, also when its own
\* candidate is invalid or refused (Recover, abort and rollback of Activate).
NextRequestCleans ==
    \A f \in 0..MaxFaults :
      At("recover") /\ faults = f ~> faults > f \/ (At("idle") /\ disk.journal = NoJournal)
=============================================================================

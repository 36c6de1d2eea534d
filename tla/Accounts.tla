------------------------------ MODULE Accounts ------------------------------
(***************************************************************************)
(* Hosting accounts: their rows, the durable reconciliation that sets them  *)
(* up on the host, package changes and the way to deletion                  *)
(* (internal/core/account*.go, hosting_*.go, internal/accountprovisioning,  *)
(* internal/operations/hosting_account_reconcile.go).  The request that     *)
(* creates an account and the periodic scan each take a snapshot in three   *)
(* reads and queue it under a key made of the account and both revisions;   *)
(* one worker runs what is queued.  An API process and an agent can stop    *)
(* between any two steps.  Nothing in the daemons calls AssignPackage or    *)
(* the lifecycle functions yet: they are taken as the repository and the    *)
(* agent offer them, in the order their documentation gives.  The status    *)
(* suspended, which some queries allow for, is given to an account by no    *)
(* code.                                                                    *)
(***************************************************************************)
EXTENDS HostAccounts

CONSTANTS
  Accounts,         \* accounts, in the order of their creation: 1..N
  Reassigned,       \* the accounts whose package may change
  Removable,        \* the accounts that may be archived and deleted
  LastID,           \* the end of the reserved range of user numbers
  MaxAttempts,      \* MaxAttempts of the operation (3)
  MaxFaults,        \* bound on stops of the agent or the API
  Shortages,        \* what the host may lack when a call comes
  FirstHosts        \* per account: what the host may hold for it beforehand

VARIABLES
  account,          \* the rows of an account
  host,             \* the account's part of the host
  ops,              \* hosting.account.reconcile operations by idempotency key
  kept,             \* calls whose success or refusal the agent remembers
  request, scan,    \* the two callers of queueSnapshot
  faults,
  given             \* limits that were in force on the host at some time

vars == <<account, host, ops, kept, request, scan, faults, given>>

ASSUME AccountsAssumption ==
  /\ Accounts = 1..Cardinality(Accounts) /\ Reassigned \subseteq Accounts /\ Removable \subseteq Accounts
  /\ LastID \in Nat /\ MaxAttempts \in Nat \ {0} /\ MaxFaults \in Nat
  /\ Shortages \subseteq {"quota", "cgroup", "podman"} /\ FirstHosts \in [Accounts -> SUBSET {NoHost, Left, Taken}]

Keys == Accounts \X Revisions \X Revisions
Stages == <<"identity", "filesystem", "resources", "oci", "storage-row", "resource-row", "identity-row">>

NoAccount == [status |-> "none", identity |-> "none", runtime |-> "none", uid |-> 0, removal |-> "none",
              fs |-> [revision |-> 0, status |-> "none"], res |-> [revision |-> 0, status |-> "none"]]
NoOperation == [state |-> "none", actor |-> "none", stage |-> 0, tries |-> 0]
Idle == [at |-> "idle", left |-> << >>, fs |-> 0, res |-> 0]

Init ==
  /\ account = [a \in Accounts |-> NoAccount] /\ host \in {f \in [Accounts -> {NoHost, Left, Taken}] : \A a \in Accounts : f[a] \in FirstHosts[a]}
  /\ ops = [k \in Keys |-> NoOperation] /\ kept = {} /\ request = Idle /\ scan = Idle
  /\ faults = 0 /\ given = [a \in Accounts |-> [fs |-> {}, res |-> {}]]

rows == <<account, given>>
queue == <<ops, kept>>
callers == <<request, scan>>

-----------------------------------------------------------------------------
(* The rows.                                                               *)

\* One above every number ever given, those of deleted accounts included.
NextID == 1 + Max({0} \union {account[a].uid : a \in Accounts})

\* Account, identity, both limit rows, owner and package, in one transaction.
CreateHostingAccount(a) ==
  /\ account[a] = NoAccount /\ \A b \in Accounts : b < a => account[b] # NoAccount
  /\ request.at = "idle" /\ NextID <= LastID
  /\ account' = [account EXCEPT ![a] = [NoAccount EXCEPT
       !.status = "active", !.identity = "allocated", !.uid = NextID,
       !.fs = [revision |-> 1, status |-> "pending"], !.res = [revision |-> 1, status |-> "pending"]]]
  /\ request' = [Idle EXCEPT !.at = "storage", !.left = <<a>>]
  /\ UNCHANGED <<host, queue, scan, faults, given>>

\* New limits: both rows go on to the next revision and wait for the host.
AssignPackage(a) ==
  LET r == account[a].fs.revision + 1 IN
  /\ a \in Reassigned /\ account[a].status = "active" /\ r \in Revisions
  /\ account' = [account EXCEPT ![a].fs = [revision |-> r, status |-> "pending"],
                                ![a].res = [revision |-> r, status |-> "pending"]]
  /\ UNCHANGED <<host, queue, callers, faults, given>>

HostingAccountHostReady(a) ==
  /\ account[a].status = "active" /\ account[a].identity = "reconciled" /\ account[a].runtime = "set"
  /\ account[a].fs.status = "applied" /\ account[a].res.status = "applied"

NeedsHostReconcile(a) ==
  /\ account[a].status = "active"
  /\ account[a].identity = "allocated" \/ account[a].runtime = "none"
       \/ account[a].fs.status = "pending" \/ account[a].res.status = "pending"

ListHostingAccountsNeedingHostReconcile ==
  SetToSortSeq({a \in Accounts : NeedsHostReconcile(a)}, LAMBDA a, b : a < b)

-----------------------------------------------------------------------------
(* queueSnapshot: read the storage row, read the resource row, queue.       *)

readStorage(c) == [c EXCEPT !.at = "resources", !.fs = account[Head(c.left)].fs.revision]
readResources(c) == [c EXCEPT !.at = "queue", !.res = account[Head(c.left)].res.revision]
KeyOf(c) == <<Head(c.left), c.fs, c.res>>

\* The operation that the key already names must be of the same actor.
Conflicts(k, actor) == ops[k].state # "none" /\ ops[k].actor # actor

CreateOperation(k, actor) ==
  ops' = IF ops[k].state = "none" THEN [ops EXCEPT ![k] = [NoOperation EXCEPT !.state = "pending", !.actor = actor]]
         ELSE ops

\* The request that created the account goes on under its user's name.
Create ==
  /\ request.at # "idle"
  /\ \/ request.at = "storage" /\ request' = readStorage(request) /\ UNCHANGED ops
     \/ request.at = "resources" /\ request' = readResources(request) /\ UNCHANGED ops
     \/ /\ request.at = "queue" /\ request' = Idle
        /\ IF Conflicts(KeyOf(request), "user") THEN UNCHANGED ops ELSE CreateOperation(KeyOf(request), "user")
  /\ UNCHANGED <<rows, host, kept, scan, faults>>

StartScan ==
  /\ scan.at = "idle" /\ ListHostingAccountsNeedingHostReconcile # << >>
  /\ scan' = [Idle EXCEPT !.at = "storage", !.left = ListHostingAccountsNeedingHostReconcile]
  /\ UNCHANGED <<rows, host, queue, request, faults>>

\* The scan queues under no name, one account after the other; it ends at the
\* first that cannot be queued.
QueuePending ==
  /\ scan.at # "idle"
  /\ \/ scan.at = "storage" /\ scan' = readStorage(scan) /\ UNCHANGED ops
     \/ scan.at = "resources" /\ scan' = readResources(scan) /\ UNCHANGED ops
     \/ scan.at = "queue" /\ Conflicts(KeyOf(scan), "system") /\ scan' = Idle /\ UNCHANGED ops
     \/ /\ scan.at = "queue" /\ ~Conflicts(KeyOf(scan), "system") /\ CreateOperation(KeyOf(scan), "system")
        /\ scan' = IF Len(scan.left) = 1 THEN Idle
                   ELSE [Idle EXCEPT !.at = "storage", !.left = Tail(scan.left)]
  /\ UNCHANGED <<rows, host, kept, request, faults>>

-----------------------------------------------------------------------------
(* The worker.                                                             *)

Running(k) == ops[k].state = "running"
StageOf(k) == Stages[ops[k].stage]
Advance(k) == ops' = [ops EXCEPT ![k].stage = @ + 1]
Fail(k) == ops' = [ops EXCEPT ![k].state = "failed"]

\* A retryable failure, and a worker that is lost, while attempts are left.
Retry(k) == ops' = [ops EXCEPT ![k].state = IF ops[k].tries < MaxAttempts THEN "pending" ELSE "failed"]

\* Between two attempts the agent may forget: it remembers for a quarter of an hour.
Claim(k) ==
  /\ ops[k].state = "pending" /\ \A j \in Keys : ~Running(j)
  /\ ops' = [ops EXCEPT ![k].state = "running", ![k].stage = 1, ![k].tries = @ + 1]
  /\ kept' \in {kept, {}}
  /\ UNCHANGED <<rows, host, callers, faults>>

RetryOperation(k) ==
  /\ ops[k].state = "failed" /\ ops[k].tries < MaxAttempts
  /\ ops' = [ops EXCEPT ![k].state = "pending"]
  /\ UNCHANGED <<rows, host, kept, callers, faults>>

\* Mutation: the container runtime is set up before the resources.
CallOf_RuntimeEarly(k, s, lacks) ==
  LET h == host[k[1]] IN
  CASE s = "identity" -> ReconcileBase(h)
    [] s = "filesystem" -> ReconcileFilesystem(h, k[2], lacks)
    [] s = "resources" -> ReconcileRuntime(h, lacks)
    [] s = "oci" -> ReconcileResources(h, k[3], lacks)

CallOf(k, s, lacks) ==
  LET h == host[k[1]] IN
  CASE s = "identity" -> ReconcileBase(h)
    [] s = "filesystem" -> ReconcileFilesystem(h, k[2], lacks)
    [] s = "resources" -> ReconcileResources(h, k[3], lacks)
    [] s = "oci" -> ReconcileRuntime(h, lacks)

AtCall(k) == Running(k) /\ ops[k].stage <= 4

\* The account's part of the host is now h.
Becomes(a, h) ==
  /\ host' = [host EXCEPT ![a] = h]
  /\ given' = [given EXCEPT ![a].fs = @ \union {h.quota}, ![a].res = @ \union {h.limits}]

Remembered(k) == \E n \in {"done", "refused"} : <<k, StageOf(k), n>> \in kept

\* The agent remembers its answer to the call: nothing is done again.
Replayed(k) ==
  /\ AtCall(k)
  /\ \/ <<k, StageOf(k), "done">> \in kept /\ Advance(k)
     \/ <<k, StageOf(k), "refused">> \in kept /\ Fail(k)
  /\ UNCHANGED <<rows, host, kept, callers, faults>>

\* The call runs to its end: success, a refusal for good, or a failure to retry,
\* which alone is not remembered.
Answered(k) ==
  /\ AtCall(k) /\ ~Remembered(k)
  /\ \E l \in {"none"} \union Shortages :
       LET c == CallOf(k, StageOf(k), l) IN
       /\ Becomes(k[1], End(c))
       /\ \/ c.answer = "done" /\ Advance(k) /\ kept' = kept \union {<<k, StageOf(k), "done">>}
          \/ c.answer \in {"conflict", "unavailable"} /\ Fail(k) /\ kept' = kept \union {<<k, StageOf(k), "refused">>}
          \/ c.answer = "failed" /\ Retry(k) /\ UNCHANGED kept
  /\ UNCHANGED <<account, callers, faults>>

\* A command fails, or the agent stops: the call is left after any of its states.
Interrupted(k) ==
  LET c == CallOf(k, StageOf(k), "none") IN
  /\ AtCall(k) /\ ~Remembered(k) /\ faults < MaxFaults
  /\ \E i \in 1..Len(c.states) : Becomes(k[1], c.states[i])
  /\ Retry(k) /\ kept' \in {kept, {}} /\ faults' = faults + 1
  /\ UNCHANGED <<account, callers>>

\* Mutation: the revision that was applied is not compared with the row's.
ConfirmHostingFilesystemApplied_AnyRevision(k) ==
  /\ Running(k) /\ StageOf(k) = "storage-row"
  /\ Advance(k) /\ account' = [account EXCEPT ![k[1]].fs.status = "applied"]
  /\ UNCHANGED <<host, kept, callers, faults, given>>

\* A row is confirmed at the revision that was applied; a later one supersedes it.
ConfirmHostingFilesystemApplied(k) ==
  /\ Running(k) /\ StageOf(k) = "storage-row"
  /\ IF account[k[1]].fs.revision = k[2]
     THEN Advance(k) /\ account' = [account EXCEPT ![k[1]].fs.status = "applied"]
     ELSE Fail(k) /\ UNCHANGED account
  /\ UNCHANGED <<host, kept, callers, faults, given>>

ConfirmHostingResourcesApplied(k) ==
  /\ Running(k) /\ StageOf(k) = "resource-row"
  /\ IF account[k[1]].res.revision = k[3]
     THEN Advance(k) /\ account' = [account EXCEPT ![k[1]].res.status = "applied"]
     ELSE Fail(k) /\ UNCHANGED account
  /\ UNCHANGED <<host, kept, callers, faults, given>>

MarkHostingUnixIdentityReconciled(k) ==
  /\ Running(k) /\ StageOf(k) = "identity-row"
  /\ IF \/ account[k[1]].identity = "reconciled" /\ account[k[1]].runtime = "set"
        \/ account[k[1]].identity \in {"allocated", "reconciled"} /\ account[k[1]].status = "active"
     THEN /\ ops' = [ops EXCEPT ![k].state = "done"]
          /\ account' = [account EXCEPT ![k[1]].identity = "reconciled", ![k[1]].runtime = "set"]
          /\ kept' = {n \in kept : n[1] # k}       \* nobody asks again
     ELSE Fail(k) /\ UNCHANGED <<account, kept>>
  /\ UNCHANGED <<host, callers, faults, given>>

\* The API process stops: its callers are gone, the operation's lease runs out.
StopAPI ==
  /\ faults < MaxFaults /\ faults' = faults + 1 /\ request' = Idle /\ scan' = Idle
  /\ \/ \E k \in Keys : Running(k) /\ Retry(k)
     \/ (\A k \in Keys : ~Running(k)) /\ callers # <<Idle, Idle>> /\ UNCHANGED ops
  /\ UNCHANGED <<rows, host, kept>>

-----------------------------------------------------------------------------
(* Archive and deletion.                                                   *)

Row(a, from, to) ==
  /\ account[a].identity \in from /\ account' = [account EXCEPT ![a].identity = to]
  /\ UNCHANGED <<host, queue, callers, faults, given>>

RequestHostingAccountArchive(a) ==
  /\ a \in Removable /\ account[a].identity \in {"allocated", "reconciled"} /\ account[a].status = "active"
  /\ account' = [account EXCEPT ![a].identity = "archive_requested", ![a].status = "archived"]
  /\ UNCHANGED <<host, queue, callers, faults, given>>

\* The archive worker takes the account's directory away, with all below it.
Archive(a) ==
  /\ account[a].identity = "archive_requested" /\ host[a].home # "none"
  /\ host' = [host EXCEPT ![a].home = "none", ![a].project = "none", ![a].dirs = [d \in Layout |-> "none"],
                          ![a].storage = "none", ![a].root = "none", ![a].access = "none"]
  /\ UNCHANGED <<rows, queue, callers, faults>>

ConfirmHostingAccountArchive(a) ==
  host[a].home = "none" /\ Row(a, {"archive_requested"}, "archived")

RequestHostingAccountDeletion(a) == Row(a, {"archived"}, "deletion_requested")

DeleteIdentity(a) ==
  LET c == Delete(host[a]) IN
  /\ account[a].identity = "deletion_requested" /\ account[a].removal = "none"
  /\ \/ /\ Becomes(a, End(c)) /\ UNCHANGED faults
        /\ account' = IF c.answer = "done" THEN [account EXCEPT ![a].removal = "answered"] ELSE account
     \/ /\ \E i \in 1..Len(c.states) : Becomes(a, c.states[i])
        /\ faults < MaxFaults /\ faults' = faults + 1 /\ UNCHANGED account
  /\ UNCHANGED <<queue, callers>>

ConfirmHostingAccountDeleted(a) ==
  account[a].removal = "answered" /\ Row(a, {"deletion_requested"}, "deleted")

-----------------------------------------------------------------------------
(* The rest of the host.                                                   *)

\* A site's document root, for an account that is ready.
DocumentRoot(a) ==
  LET c == EnsureDocumentRoot(host[a]) IN
  /\ HostingAccountHostReady(a) /\ host[a].access = "none"
  /\ \/ Becomes(a, End(c)) /\ UNCHANGED faults
     \/ /\ \E i \in 1..Len(c.states) : Becomes(a, c.states[i])
        /\ faults < MaxFaults /\ faults' = faults + 1
  /\ UNCHANGED <<account, queue, callers>>

\* logind stops the manager of a user who neither lingers nor is logged in.
StopManager(a) ==
  /\ host[a].linger = "off" /\ host[a].manager # "off"
  /\ host' = [host EXCEPT ![a].manager = "off"]
  /\ UNCHANGED <<rows, queue, callers, faults>>

Worker(k) ==
  \/ Claim(k) \/ Replayed(k) \/ Answered(k) \/ ConfirmHostingFilesystemApplied(k)
  \/ ConfirmHostingResourcesApplied(k) \/ MarkHostingUnixIdentityReconciled(k)

Lifecycle(a) ==
  \/ RequestHostingAccountArchive(a) \/ Archive(a) \/ ConfirmHostingAccountArchive(a)
  \/ RequestHostingAccountDeletion(a) \/ DeleteIdentity(a) \/ ConfirmHostingAccountDeleted(a)

Next ==
  \/ \E a \in Accounts : CreateHostingAccount(a) \/ AssignPackage(a) \/ Lifecycle(a)
                           \/ DocumentRoot(a) \/ StopManager(a)
  \/ Create \/ StartScan \/ QueuePending
  \/ \E k \in Keys : Worker(k) \/ RetryOperation(k) \/ Interrupted(k)
  \/ StopAPI

Spec == Init /\ [][Next]_vars

\* The request goes on, the scan comes back every minute, the worker works off.
Fairness ==
  /\ WF_vars(Create) /\ WF_vars(StartScan) /\ WF_vars(QueuePending)
  /\ \A k \in Keys : WF_vars(Worker(k))

-----------------------------------------------------------------------------
(* Properties.                                                             *)

TypeOK ==
  /\ account \in [Accounts -> [
       status : {"none", "active", "archived"},
       identity : {"none", "allocated", "reconciled", "archive_requested", "archived",
                   "deletion_requested", "deleted"},
       runtime : {"none", "set"}, uid : 0..LastID, removal : {"none", "answered"},
       fs : [revision : {0} \union Revisions, status : {"none", "pending", "applied"}],
       res : [revision : {0} \union Revisions, status : {"none", "pending", "applied"}]]]
  /\ host \in [Accounts -> HostType]
  /\ ops \in [Keys -> [state : {"none", "pending", "running", "failed", "done"},
                       actor : {"none", "user", "system"}, stage : 0..7, tries : 0..MaxAttempts]]
  /\ faults \in 0..MaxFaults

\* HostingAccountHostReady, which every site, job, database and application asks
\* before it begins, is true only of an account that is whole on the host: user,
\* directories, project quota, slice, manager in the slice and container store.
ReadyIsWhole == \A a \in Accounts : HostingAccountHostReady(a) => Whole(host[a])

\* Container storage of an active account is only where it counts against the account: inside the
\* project, with a limit set, and with the user's manager in the account's slice
\* (ReconcileRuntime comes after the filesystem and the resources).
StorageContained ==
  \A a \in Accounts : account[a].status = "active" /\ host[a].storage # "none" =>
    host[a].project = "set" /\ host[a].quota # 0 /\ host[a].manager # "outside"

\* A user number is never given twice, not even after its account was deleted.
IDsNeverReused ==
  \A a, b \in Accounts : account[a].uid = account[b].uid /\ account[a].uid # 0 => a = b

\* A row is marked as applied only at a revision whose limits were in force on
\* the host, however package changes, snapshots and retries interleave.
ConfirmedWasApplied ==
  \A a \in Accounts :
    /\ account[a].fs.status = "applied" => account[a].fs.revision \in given[a].fs
    /\ account[a].res.status = "applied" => account[a].res.revision \in given[a].res

\* Files and processes of an account never outlive its user: deletion waits for
\* the archive and for the last process.
OwnersExist ==
  \A a \in Accounts : host[a].home = "owned" \/ host[a].manager # "off" => host[a].user # "none"

\* An account whose creation was cut off before its operation was queued gets one
\* from the periodic scan (QueuePending).
CrashGapCloses ==
  \A a \in Accounts :
    (NeedsHostReconcile(a) /\ \A k \in Keys : k[1] = a => ops[k].state = "none")
      ~> (~NeedsHostReconcile(a) \/ \E k \in Keys : k[1] = a /\ ops[k].state # "none")

\* A row that is applied is what the host enforces.
AppliedIsEnforced ==
  \A a \in Accounts :
    /\ account[a].fs.status = "applied" => host[a].quota = account[a].fs.revision
    /\ account[a].res.status = "applied" => host[a].limits = account[a].res.revision

\* The host holds nothing of an account whose deletion was confirmed.
RemovedStaysGone ==
  \A a \in Accounts : account[a].identity = "deleted" => host[a].user = "none" /\ host[a].home = "none"

\* Short of a capability, and of somebody else's user, no reconciliation is
\* refused for good: replays converge.
ReplaysConverge ==
  \A k \in Keys : AtCall(k) => CallOf(k, StageOf(k), "none").answer = "done" \/ host[k[1]].foreign = "set"
=============================================================================

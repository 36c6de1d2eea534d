# Stackfort verification

TLA+ models of Stackfort, a hosting panel for one Linux host, with the TLC
configurations that check them on small instances and the TLAPS proofs that
extend the central results to every instance.

The models are translated from the Go source under `src/`. They keep the
control flow of the code (every state change, guard, early return and error
path, in the order in which they happen) and abstract its data: identifiers
and payloads are model values, texts and formats are left out.

## The system

Stackfort consists of an unprivileged control API and a privileged agent.

* The **API** (`cmd/stackfort-api`) serves the web console, authenticates users
  and authorises requests, and keeps all state in one SQLite database
  (`internal/store`, `internal/core`). A change of the host is never made inside
  a request: the API inserts an *operation*, and a worker of the same process
  claims it, runs its handler (`internal/operations`) and records the outcome.
* The **agent** (`cmd/stackfort-agent`) listens on a Unix socket, carries out
  typed RPCs (`internal/agentrpc`), and changes the host: users, quotas,
  NGINX sites, PHP pools, certificates, databases, timers, containers and
  files. It keeps what it needs to recover on disk.
* The **installer** and the **updater** put a release on the host and replace
  it, each with a journal of its own.

### Inventory

| Part | State | Operations | What is hard | What makes it correct |
| --- | --- | --- | --- | --- |
| Operation queue (`core/operation*.go`) | rows of operations, attempts, events, audit | create, claim, heartbeat, checkpoint, complete, fail, cancel, acknowledge, retry, recover | workers whose lease has run out, clock steps, cancellation races, retry budgets | one running attempt; the budget holds; status and attempts agree; a cancellation holds |
| Operation runner (`operations/runner.go`) | per worker: claim, handler, heartbeat goroutine | run once, beat, answer, shut down, crash | late heartbeats, a shutdown while a handler runs, errors from both goroutines | the recorded outcome is the returned one; every operation settles |
| NGINX activation (`hostnginx/activation*.go`) | revision trees, link, journal, test tree, the loaded configuration | stage, test, promote, reload, probe, commit, roll back, recover | a crash between any two of the steps, replays of lost answers | the link always loads; recovery knows where it is; accounts do not disturb each other |
| Agent RPC (`agentrpc`, `agentclient`) | outcome cache, mutex, waiting requests | send, dispatch, replay, conflict, evict, give up | retries under one key, timeouts, stale outcomes | an outcome only answers its own request; no key is dispatched twice |
| Domain lifecycle (`core/domain.go`, `state.go`, `applied_state.go`, `operations/domain_lifecycle.go`) | rows of domains, targets, TLS intent, policies and exceptions; desired and applied revisions; the document in service | create, edit, purge, suspend, resume, remove, except, activate, confirm | operations repeated after later ones, partial host work, stale confirmations | what is in service is what the rows say; an older document never replaces a newer one |
| TLS certificates (`core/tls_certificate.go`, `operations/tls_certificate.go`, `certificates`) | orders, certificates, the scheduler's due times | order, issue, stage, activate, fail, renew | a domain removed or retargeted during an order, attempts that stop anywhere | the two tables agree; failed orders end and are tried again |
| Sessions and authentication (`core/authentication.go`, `session_management.go`, `totp.go`) | identities, password and recovery-code hashes, sessions | log in, second factor, rotate, revoke, change password, enrol, recover | two requests with one code, expiry against use, revocation during a login | one use of a code; no session outlives its revocation |
| Authorization and audit (`core/authorization.go`, `audit.go`, `identity.go`) | roles, audit rows | authorise, append | a role that changes between check and use | only permitted requests; every change is audited |
| Managed databases (`core/managed_database.go`, `hostdatabase`) | databases, users, grants, rotations; MariaDB's objects and markers | provision, rotate, reveal, remove | statements that commit one by one, a rotation whose answer is lost, a repetition after a deletion | a revealed credential works; only marked objects are touched; a deletion is complete |
| OCI applications (`core/oci_*.go`, `operations/oci_*.go`, `hostoci*`) | application revisions, images, resources, deployments; units and images on the host | define, build, allocate, deploy, roll back | a deployment replaced while its health gate waits | the routed port belongs to a healthy deployment |
| Hosting accounts (`operations/hosting_account_reconcile.go`, `accountprovisioning`, `core/account*.go`, `core/hosting_*.go`, `hostidentity`, `hostfilesystem`, `hostresources`) | identity, filesystem and resource revisions; users, directories, quotas, slices and managers of the host | create, scan, reconcile, confirm, assign, archive, delete | a stop between two commands, a package change during a reconciliation, a scan beside a request | a ready account is whole; a confirmed revision was applied; container storage is contained |
| Files, archives and backups (`hostfiles`, `fileworkspace`, `backupworkspace`) | directory trees, upload sessions, trash, archives, repositories | write, move, upload, extract, trash, back up, import, restore | two helpers on one tree, a kill between two system calls, quota at its limit | what is visible is whole; nothing is overwritten; a backup verifies |
| PHP pools (`hostphp`, `phpruntime`) | pool files and services | prepare, verify, roll back, retire, inspect | a kill between write and restart, a deadline, older operations that are repeated | a pool that NGINX names is configured |
| Scheduled jobs (`core/scheduled_jobs.go`, `hostjobs`) | job revisions, timers | create, change, remove, reconcile | a stop between writing a unit and reloading it, retries of older changes | a change that is recorded as applied is on the host |
| Platform updates (`updateapply`, `updatecheck`, `hostupdates`) | staged releases, journal, installed parts, snapshots, the database | check, stage, back up, replace, migrate, roll back | a stop between two steps, a reboot, a rollback that fails | the journal tells the truth; no acknowledged row is lost; only verified releases are used |
| Installer (`installapply`, `storageprep`, `core/bootstrap*.go`) | storage journal, GRUB's block, admission record, stages, setup codes | review, arm, convert, finalise, apply, admit, approve, bootstrap | power loss around the conversion, reboots, the gate that is gone after a boot | the root filesystem is whole and converted once; nothing is served before it is admitted; one administrator per code |
| phpMyAdmin sign-on (`core/phpmyadmin_handoff.go`, `phpmyadminbroker`) | handoff tokens | issue, consume | two uses of one token | one use |
| ACME accounts and secrets (`core/acme_account.go`, `secret_envelope.go`, `secretstore`) | sealed keys, registrations | register, seal, open | a registration whose answer is lost | one account for each environment |
| Store and migrations (`store`) | schema version, backups | open, migrate, back up | a stop during a migration | the schema is that of the version |
| Panel TLS transaction (`hostnginx/panel*.go`) | panel certificate and configuration | issue, activate, roll back | a stop between write and reload | the panel stays reachable |
| Configuration renderer, HTTP API, agent commands, capability detection, logs, console, release tooling | none that lasts | render, parse, run, detect | | pure or I/O; see the end of this document |

## Modules

### `Operations`: the persisted queue

One action per repository method of `internal/core/operation.go` and
`operation_transitions.go`; each method is one `BEGIN IMMEDIATE` transaction, so
each is one atomic step. `ops`, `attempts` and `log` are the rows of
`operations`, `operation_attempts` and `operation_events`; `audit` holds the
audit actions written with them. A method reads the clock before it waits for
the writer, and the wall clock may step, so each action takes its `now` from
`Times` in any order; the caller's claim on an attempt is an input as well,
current or stale. `UpdatesAccepted` translates the update trigger of migration
004: no statement of the repository is one that the trigger aborts.

Bounds: one operation of every retry class and two workers, or two operations
that share a key; leases of two units over four clock readings, so that a
heartbeat moves a lease and an old reading can follow a new one; three attempts,
so that a replay, a manual retry and the exhausted budget all occur.

### `WorkContract`: what the queue promises

The abstract specification of the queue, without rows, leases, clocks or workers: work
waits, is held, ends; how often it is held is limited by its kind, and it is held
again without being asked only if its class is safe. `Operations!KeepsContract` is
the contract under the refinement mapping `Presented` (status, input and attempt
count of a row); TLC checks it in `queue_one_operation` and
`WorkContractProofs!QueueKeepsContract` proves it for every instance. A recovery
settles many rows in one transaction, so a step of the contract may move several
pieces of work. The contract lets work be handed on from one holder to the next in
one step: a claim recovers an expired attempt and may claim the same operation in the
same transaction. With a positive retry delay this does not happen; that the delay is positive
rests on powers of two, which the provers do not compute with.

### `OperationRunner`: workers on the queue

Extends `Operations` with the processes: `RunOnce`, its heartbeat goroutine, the
worker loop, shutdown and crash. Time is relative (the present is 0 and `Tick`
ages every lease), so the state space is finite and liveness needs no horizon.
Fairness: a worker that can take a step of its own takes one in the end (the Go
scheduler), time passes, and the worker loop claims again (its ticker). A handler
returns in the end; nothing is assumed of users. `Prompt = TRUE` makes heartbeats
come on time, which is what the lease is dimensioned for.

### `NginxActivation`: activation of a site revision

`Activate` with its journal, step by step: every file operation that can be
followed by a crash is an action. `disk` holds the link, the journal, the
revision directory of the transaction, the test tree and the sites of every
revision; `running` is the tree that NGINX has loaded. `Crash` keeps `disk` and
`running` and loses the rest; `NginxRestart` loads whatever is linked.
Write errors, failing checks and lost answers are bounded by `MaxFaults`.
Rendering the configuration text is abstracted to whether it loads (`Bad`).

Fairness (`LiveSpec`): the agent goes on with a request it has begun (one goroutine
under the mutex, every command under a timeout). Nothing makes the API call again:
it gives an operation up after three or four attempts, at once when its candidate is
invalid, and the agent's start recovers nothing. A journal that a failed cleanup
leaves can therefore stay until an unrelated activation; `NextRequestCleans` says
that this next activation, whichever it is, ends without a journal unless another
fault comes in between.

Bounds: three operations of two accounts, one of them without sites and one whose
configuration does not load; three faults, so that a recovery is itself interrupted
and repeated; one restart of NGINX at any time between requests.

### `AgentRpc`: calls, cache and retries

`handleRPC` and `responseCache.execute` on the agent's side, `Client.call` with
its timeouts on the other, and the classification by which the handlers of
`internal/operations` retry a failed call. The tables of answers are those of
`dispatch` and of its error functions. `locked` is the mutex that the code holds
while it dispatches. A request whose client has given up stays in `waiting` and is
carried out later, as in the code. `settled` is a history variable: until when the
outcome of a key has to be replayed.

Bounds: four callers with three keys, two of them with one key and different input;
two attempts for the first and one for the others; a cache of two entries, so that a
third outcome evicts and there is an older and a newer entry to choose from; an expiry
of two and a header timeout of one unit, and one restart of the agent or change of the host
(`MaxEvents`). The retry and deadline instances use one caller.
Fairness (`LiveSpec`): a dispatch returns and a waiting request gets the mutex in
the end; Go's mutex hands over to a starved waiter.

### `Domains`, `Certificates`, `Sites`: from a request to the web server

`Domains` has the rows of a hosting account's domains and one operator for every
mutation of `core/domain.go` and `core/waf_exceptions.go`: `Can...` is what the
transaction checks, the operator of the function's name is what it writes.
`Certificates` adds orders and the scheduler's queries. `Sites` composes them with
the worker, the desired and applied revisions and the host: an action for each
step at which an attempt can end. An operation is named by its number, and rows it
creates carry that number, as they carry the operation's identifier in the code.

`Crash` loses the worker and leaves the operation leased until
`recoverExpiredOperations`; `Unavailable` is a dependency that does not answer;
`Refused` is a final answer, or a checkpoint that cannot be written;
`Answered` adds to every agent call the case that the work is done and the answer
lost. The agent's activation is the abstraction that `NginxActivation` models in
detail: it answers a revision in service, or an answer it remembers, without work,
and refuses a revision that was replaced. The queue is a sequence; because retried
operations wait longer after each attempt, only an operation with fewer attempts
may overtake one.

Left out: canonical host modes, the details of redirects, the expiry and the scope of
WAF exceptions (each has a scope of its own; one with a scope that is taken, or in a
package without the feature, is refused and changes nothing), several hosting
accounts. The account stays active, so `mutableAccountLimits` always answers, and its
ACME account valid. The exchange with the certificate authority is one step. TLS names and
challenge follow from the target, as `tlsIntent` derives them.

Bounds of the passing run: three operations of every kind on two names, one below
the other, and two faults; three operations are the least with which an operation
can be repeated after another one has changed and activated the same domain, and
two faults let both attempts fail. The attempt limits are those of the code.
Fairness (`LiveSpec`, only for the renewal run): the worker, recovery and the
scheduler are loops of the API process that do not stop.

Not stated as a run, because no document speaks of it: the names of an order are
sorted and compared with the stored names, apex first, so that a domain whose name
sorts after `www.` is never issued a certificate (`core/tls_certificate.go:73`,
`NamesMatch`). A certificate operation also puts pending rows in service without
preparing their document roots and pools; `PreparedBeforeServed` and
`ActiveIsServed` therefore speak of documents of domain operations.

### `Sessions`: login, the second factor, browser sessions

The variables are the tables (`sessions`, `factors` with their unused recovery
codes, `setups`, `challenges`, and the version of each password) and `calls`, what a
request holds between two transactions. A login is two steps, because the credential
is read before the slow derivation (`loadPasswordCandidate`, `PasswordLogin`). A
request under a session is up to three: `AuthenticateSession` reads the row,
`TouchSession` or `expireSession` writes what that read decided, and the route's
transaction checks the session again (`requireSubjectSessionTx`). `Abandon` ends a
request between any two of them. `spent` is a history variable: every code that was
accepted, and for what.

Tokens are the rows they select; a TOTP code is its secret and counter, so
that `matchTOTP` keeps the window of three periods and the counter guard. A
transaction reads the clock in its own step. Left out, because they only refuse or
delay a request: the limiters, the derivation slots and the CSRF proof. No code
changes the status of an identity; it is active throughout. `SetPasswordCredential`
has no route yet; it is an action because a login must be safe against it.

Bounds: one identity, two requests at a time, two sessions, two challenges, two
changes of credentials (factors begun and passwords set, counted together), three
instants. Two sessions and two changes are the least with which a session opened
with one factor meets the replacement of that factor. One wrong code exhausts a
setup or a challenge; identities share no row, so that one is enough.

Seen while reading, and not stated as a run: a failure recorded after the window of
`mfa_attempt_limits` has ended, by an attempt admitted before the block, restarts the
count and drops a block that has not run out (`core/totp.go:773`).

### `Databases`: managed MariaDB databases, their users and credentials

The rows of databases (each with its only grant), users, operations and phpMyAdmin
handoffs, the worker, and MariaDB. A request is one transaction: it checks the rows,
changes them and creates the operation. The agent's work is one action per
statement, because MariaDB commits each statement on its own; a crash or an error
can follow any of them and the operation is then repeated on what is there. Rows,
passwords and the markers by which the agent recognises its own objects carry the
number of the operation that made them. `answered` is the agent's cache of
successful calls and may forget any of them. A rotation ends with an
`UPDATE` of the marker that must change one row; MariaDB counts changed rows, so a
rotation that is repeated after the agent forgot it alters the password again and
then fails (`AdvanceUserMarker`, retried until the attempts are used up). A physical name stays taken after a
deletion (`UNIQUE` over the whole table), so an alias is never used twice. The
`generation` of a handoff is a history field: with which password it was issued.

Bounds: three operations (a provisioning, and two that change or delete what it
made), three attempts as in the code, two handoffs, one fault at any place, and a
foreign database that has the second name. One session is enough, because rows
belong to the account and a session is only valid or not.

`RetryOperation` and `RequestOperationCancellation` have no caller outside
`internal/core`, so neither is an action here: a rotation whose last attempt failed
stays unresolved, and further rotations and the deletion of the user are refused.

### `ReleaseStaging`, `Updates`: platform updates

`ReleaseStaging` is the updater's private store: what a download brings, the checks
it has to pass, and the tree with its provenance record that a stop can leave in
part. `Updates` adds the panel's policy and release check, the request that starts
an updater, the lock, the eight stages with their journal, the rollback and its
retry, and the running API with its database. A stage is one action per part it
replaces; the journal entry before and after it are actions of their own. A Save that
reports an error can have replaced the journal all the same (the sync of the directory
fails after the rename); `saved` is the last journal whose Save returned no error, and
a loss of power keeps the one on disk or brings `saved` back. `StageFails`,
`UpdaterDies` and `PowerLoss` happen anywhere, the rollback included; after a loss of power
the services come up with whatever is installed, and an API migrates the database
it finds (`store.Open`). `stable` is a history variable: the rows that were
acknowledged before the update stopped the API, empty again once the journal of
another update is saved.

Bounds: three releases, the last a prerelease; two requests, two updaters, two
faults. Two faults are the least with which a rollback is itself interrupted. The constraint
`Bound` of `MCUpdates` ends a behaviour in which both faults follow the second
request; without it the same properties hold on 10 million states.

`AllOrNothing` and `DatabaseKept` speak of a `complete` journal only when its Save
returned no error. Of every `complete` journal they are false: a commit whose Save fails
in the sync of the directory is rolled back under a journal that says complete, and a
second fault leaves it there (`CompleteIsComplete`, among the disagreements below).

Seen while modelling, and not stated as runs: a stop while the journal says that the
backup is being made, before there is a snapshot, ends in `rollback_failed`; a boot
after the payload stage migrates the database by itself; a provenance record written
in part blocks its version until it is removed by hand; a channel switched to and
fro during a check goes unnoticed, because the policy is compared and not its change.

### `StoragePreparation`, `NativeOnboarding`, `Installation`, `Bootstrap`, `NativeAdmission`

A native installation from the operator's review to the first administrator.
`StoragePreparation` has the one offline change, the conversion of the root
filesystem in a boot armed before: the storage journal, GRUB's environment block as
it is read and as a power loss leaves it, the one-shot image, and the chain of units
of every later boot. `NativeOnboarding` is the process that leads there, from review
and staged source to the sealed runtime. `Installation` has the nine stages as
operators on what is on the host (none, part, whole) and on what runs. `Bootstrap`
is the capability for the first administrator with its two transactions around the
password derivation. `NativeAdmission` composes them: the network gate, the
admission record, the quarantine, recovery approvals and the rerun of the installer.
One process holds the installation lock; the quarantine takes none and interleaves.

Bounds: three boots (install, convert, a boot after it), two faults (a power loss, a
kill or a failed command, at any step), one package changed by somebody else, one
recovery approval, two attempts of an admission, two concurrent bootstrap requests.

Closing the gate and stopping the services are commands and may fail like any other,
also in the cleanup of a failed attempt; systemd then runs the quarantine once more.
When the look at the opened gate, the cleanup and that quarantine all fail, an
installation that got through every check is left open with a record that says
recovery-required; `ServedIsAdmitted` allows exactly this. A request for the first
administrator reads the clock before it waits for its transaction, so a transaction
may know of an older set of expired codes: `past` is the newest set that any earlier
step of the request can have seen, and each step chooses the clock between that and
now. `CodeHonoured` therefore says that the code had not expired at the check before
the derivation; the stronger statement, that the code is in force at the commit, does
not hold for an expiry between the clock and the commit.

Seen while modelling: the boots after a commit of the setup code whose registration
was not recorded cannot finish the admission once the code has expired; a native
package that dpkg left half installed fails every further attempt, as the code
intends; a recheck of a completed installation during an admission quarantines what
the admission starts. Not modelled: other entries of the GRUB menu, a flush of the
nftables table by somebody else, changes of the staged source by root.

### `FileHelpers`, `FileUploads`, `FileTree`, `BackupRepository`, `AccountFiles`

Every request that changes an account's files runs in a helper process of its own,
and each of its system calls is an action here, so that two helpers of one account
interleave as processes do. `FileHelpers` has the slots, the audit and the end of a
helper (an answer, a kill, a deadline); `FileUploads` the resumable uploads, in which
a part and the published file are one inode and only the lock on it and the checks
under the lock keep a late chunk out; `FileTree` creation, moves, copies, archives
and the trash; `BackupRepository` the repository that belongs to root, with its lock;
`AccountFiles` the restore with its two activations. Contents are sequences of
chunks, and a path is a member of `Names`, without directories between them.

Bounds: two helpers, two paths, one upload of two chunks, one trash item, one
operation directory, a backup on disk and room for one more and an import, three
audited requests and one fault (a kill, a full quota, an I/O error, or a site that
writes to a file). Two requests are the least with which one meets what another
that was interrupted has left, three those with which two are under way beside it. The
constraint `Bound` of `MCAccountFiles` ends a behaviour that has both a fault and a
third request; without it the same properties hold on 1.1 million states.

### `FileLimits`: ranges and expansion limits

`resolveDownloadRange` and the reader's check of the frame it leads to, and the
manifest of an archive extraction, as functions over unsigned arithmetic. The theorems of
`FileLimitsProofs` hold for every limit and every size: what is answered is accepted,
an accepted entry keeps all three limits, and no difference wraps.

A copy, an archive and a backup read their source in one step, at the start: the walk
over a tree that another request changes meanwhile is not modelled. What a failed or
interrupted write leaves of a record (an upload's metadata, an item's metadata, the
manifest of an import) is: nothing, a torn file or a whole one, as far as later steps
tell them apart. `DataKept` counts copies, so that losing one of two equal entries is
seen too.

Seen while modelling, and not stated as runs: a restore that gives up loses what it
had set aside when another request has meanwhile created the name it came from, or
changed what was restored so far, because the rollback stops at the first rename that
fails and the clean-up removes the hidden directory (`Disturbed`; the restore is only
shown to put everything back otherwise); a manifest that could not be written keeps an
import from ever being completed; an upload whose metadata could not be
written, and directories left by a kill (`.staging`, `.deleting`, `.upload`), count
against their limits for good; a kill between the directory, the metadata and the
move of a trash item makes the listing of the trash fail; a cancellation may answer that the upload was
completed although it has just been published; a download of a backup holds the
repository's lock until its body is closed, and requests that wait for it hold the
agent's write slots.

### `HostAccounts`, `Accounts`: hosting accounts

`HostAccounts` is the agent's part. A call is a *course*: the states that the
account's part of the host goes through, one per command or system call, and the
answer at the end; a kill, a failing command and a deadline stop it after any state.
Calls do not overlap, because the agent dispatches one at a time (`AgentRpc`).
`Accounts` has the rows of an account with the revisions of filesystem and
resources, the two callers of `queueSnapshot` (the request and the scan, each of
which reads in three steps), the operation with its four calls and three
confirmations, package changes, archive and deletion. `kept` is what the agent
remembers of earlier calls, successes and refusals. `given` is a history variable: the limits
that were in force on the host at some time.

`AssignPackage`, the lifecycle functions and `DeleteHostingIdentity` have no caller
in the daemons yet. They are actions in the order their documentation gives, because
`ConfirmedWasApplied` has to hold when they get one. No code gives an account the
status `suspended` that some queries allow for, and no action does.

Bounds: two accounts on a host that holds nothing, a user left over or somebody
else's user for them; the package of the first changes once, and it may be deleted; two attempts instead of
three; one stop of the agent or the API, and one host that lacks cgroups. Two
accounts and one stop are what the scan needs for its case; two attempts are enough
for one to fail and one to find what it left.

Fairness (`MCFairSpec`, only for the scan run): the worker, the scan and the expiry
of leases are loops of the API process; agent and requests go on with what they have
begun.

Seen while modelling: a failed reconciliation stays failed, because the scan finds
its key taken; only a retry by hand takes it up again. `RemoveRuntime` with
lingering already off neither terminates the manager nor waits for it. Accounts older
than migration 024, whose runtime was never marked, do not become ready, because the
key of their unchanged revisions belongs to an operation that has succeeded.
`EnsureRuntime` also sets the SELinux label of the container store and refuses a user
with a Podman API socket; both come last, change no state of the model and are left
out.

### `PhpPools`: PHP-FPM pools of an account

The pools of two versions as courses of the same kind: files, systemd's view and the
running service of each; preparing, restarting, verifying, rolling back and retiring;
the domain operation that sets them up before NGINX changes over and retires them
after it, with older operations, retries and kills in between; and the inspector.
`Rollback` has the two ways it can end, in time or with its context gone, and each of
the two files may fail to be put back. A service state that cannot be read counts as
none, before and after the change.

Bounds: two documents, two settings, two attempts, two kills. A variant with three
documents and one kill holds as well.

### `ScheduledJobs`: jobs and their timers

The rows of a job and of its changes (`core/scheduled_jobs.go`), the operation that
carries a change out, and the reconciler's transaction on the two unit files with
systemd's view of them (`hostjobs`): it compares the files, writes what differs,
reloads, enables or disables the timer, and puts the old files back when a step
fails. A kill ends it after any step; a retry starts again from what is on the host.
`AppliedIsInstalled` relates the two sides: a job whose row says active or disabled
has the unit files of its current definition and a timer that is on or off as the row
says, and a deleted one has none.

Bounds: one job through three revisions (create, change, delete), two bodies, two
attempts instead of three, two stops. Jobs share nothing but the limit of jobs per
account. Putting back either unit file may fail. Of systemd it is assumed that it
forgets a unit that neither runs nor is enabled, so that a restart looks for its file
(`Kept`): otherwise the undoing of a failed deletion could start a timer whose files
could not be put back, and the next attempt, if it cannot read the timer's state,
takes it as gone.

Seen while modelling: `Reconcile` reloads systemd only if it wrote a file. When it is
killed between the write and the reload, the retry finds both files as they should
be, does not reload, and the change is recorded as applied while the timer still runs
on the old schedule, until something else reloads systemd. `AppliedIsScheduled`
states the stronger promise, and TLC refutes it with that behaviour.

`MCAccounts` checks accounts, pools and jobs in one run: they share no variable, and
`part` chooses one of them. The constraint `Apart` keeps package changes,
removal and the second account apart, and ends a behaviour in which a call is refused
under the second package.

## Runs

| Run | Module, configuration | Expected | Properties | What it shows |
| --- | --- | --- | --- | --- |
| `queue_one_operation` | `MCOperations`, `MCOperations.cfg` | pass | `LeaseLedger`, `OutcomeAgrees`, `CancellationHolds`, `KeepsContract` | One operation of every retry class under two workers whose calls come in any order, with stale claims and a clock that may step back: lease, outcome and cancellation rules hold, and the queue implements WorkContract. |
| `runner_liveness` | `MCOperationRunner`, `MCRunner.cfg` | pass | `RecordedAsReturned`, `OperationSettles`, `CancellationSettles` | Two worker processes with their heartbeat goroutines, late heartbeats, a crash, a shutdown or a failed transaction: recorded outcomes are the returned ones and every operation and every cancellation settles. |
| `nginx_crash_safety` | `MCNginxActivation`, `MCNginx.cfg` | pass | `LinkAlwaysLoads`, `SuccessKept`, `OtherAccountsKept`, `NextRequestCleans` | Three activations of two accounts, one without sites and one with an invalid candidate, under up to three crashes, failing steps and lost answers and an NGINX restart: the link always loads, recovery always knows where it is, no account disturbs another, and the next request that meets no fault leaves no journal. |
| `rpc_idempotency` | `MCAgentRpc`, `MCRpc.cfg` | pass | `AnswerIsOwn`, `DispatchedOnce` | Four callers with three keys, two of them under one key with different input, a cache of two entries, timeouts and retries, and a restart of the agent or a change of the host: no outcome reaches another request and no key is dispatched twice at once or while its outcome is kept. |
| `sites` | `MCSites`, `MCSites.cfg` | pass | `CertificateInUse`, `ActiveIsServed`, `PreparedBeforeServed`, `NewestWins` | Three operations on an application domain and a static domain below it, of every kind and with certificates, and two faults: the tables of domains and certificates stay in step, and what is in service is what the rows say, prepared on the host and never older for a domain operation. |
| `sessions` | `MCSessions`, `MCSessions.cfg` | pass | `SecondFactorHonoured`, `CodesSpentOnce`, `PasswordCurrent`, `RevokedCannotAct` | Two requests at a time of one identity that logs in, enrols, replaces and removes a second factor, changes the password and revokes sessions: no session outlives the credentials it was opened with, no code is accepted twice, and a revoked session changes nothing. |
| `databases` | `MCDatabases`, `MCDatabases.cfg` | pass | `CredentialWorks`, `OwnedIsMarked`, `DeletionIsComplete` | Three wizards, deletions and rotations in any order beside a database of the same name that the panel does not own, with a handoff, a lost answer or a stop after any statement: credentials work and only move forward, deletions are complete, and nothing foreign is touched. |
| `updates` | `MCUpdates`, `MCUpdates.cfg` | pass | `AllOrNothing`, `DatabaseKept`, `UsedIsVerified` | Releases appear, the policy changes during a check, updates are asked for and run over three releases, and two failures, deaths of the updater or losses of power happen anywhere, in the rollback too: a settled journal that was saved without an error tells the truth, no row is lost, and only verified releases of the right channel are used. |
| `native_installation` | `MCNativeAdmission`, `MCNativeAdmission.cfg` | pass | `RootIsWhole`, `ConvertedOnce`, `ServedIsAdmitted`, `CodeHonoured` | One host from the review to the first administrator over three boots, with two failures, kills, power losses or reboots anywhere, a package changed by someone else, a recovery approval and a rerun of the installer: the root filesystem is converted at most once and never mounted half converted; nothing is served that this boot did not check through, even when the quarantine fails; and two requests for the first administrator race the replacement, the use and the expiry of its code. |
| `files` | `MCAccountFiles`, `MCAccountFiles.cfg` | pass | `VisibleIsWhole`, `TrashRecoverable`, `BackupsVerify`, `DataKept` | Two helpers of one account take turns at the level of system calls through every request of the file manager and of the backups, and one is killed, runs into the quota or meets a file that is still written to: what is visible is whole, nothing is overwritten or lost in a restore that gives up, an entry in the trash can be put back, and the repository holds only backups that verify and imports that resume where their bytes end. |
| `accounts` | `MCAccounts`, `MCAccounts.cfg` | pass | `ReadyIsWhole`, `StorageContained`, `ConfirmedWasApplied`, `ServedIsConfigured`, `AppliedIsInstalled` | Two accounts on hosts that are empty, hold a left-over user or somebody else's: creation, package changes, the scan, the reconciliation with every command a place to stop, archive and deletion; and apart from them the PHP pools of an account through two documents, failed commands, deadlines and kills, and a scheduled job from its creation through changes to its removal, with failed commands, kills and repeated operations. |
| `accounts_scan` | `MCAccounts`, `MCAccountsScan.cfg` | violation | `CrashGapCloses` | The scan queues under no actor what the request queued under its user's: the conflict ends every scan at that account, and an account after it that was cut off before it was queued is never set up. |

A run that is expected to fail checks one statement of the documentation or of a
comment, and its counterexample is a behaviour of the code.

### Findings

* `accounts_scan` / `CrashGapCloses` (code bug, `src/internal/core/operation.go:128`): Create queues the first reconciliation with the creating user as its actor; QueuePending queues the same key without an actor. createOperationTx compares the actor too and answers ErrConflict, and QueuePending returns at its first error. An account whose own operation is still waiting, or has failed, therefore ends every scan, and an account after it in the list that was cut off before its operation was queued is never set up. docs/hosting-account-provisioning.md:17-21 says "A startup/periodic scan queues the same key for active accounts whose identity, filesystem, or resource state is still pending. This closes the process-crash gap between the account transaction and operation creation without duplicating work."

Further disagreements that the models show. Each is a property of its module that
TLC refutes under the configuration given with it: the one of a run, with the
constants or lines given here in place of its own and the property as the only
`INVARIANT` (or `PROPERTY`, when it is temporal or about steps).

* `CleanupFailureRecorded` (`MCRunner.cfg` with `MaxFaults = 0`, `Prompt = TRUE`, `SPECIFICATION RunnerSpec`; `src/internal/operations/runner.go:234`): The heartbeat goroutine ends on its first error, the notice of a cancellation included, so nothing renews the lease while the handler cleans up. A cleanup that outlasts the remaining lease and fails is refused by FailOperation (ErrOperationLeaseLost), and the recovery of the next claim records the operation as cancelled. docs/persisted-operations.md:117-118 says "Cleanup failure is recorded as failure rather than falsely claiming a clean cancellation."
* `LoadedTreeKept` (`MCNginx.cfg` with `Empty = {}`, `Bad = {}`, `WriteErrors = FALSE`, `MaxFaults = 2`, `SPECIFICATION Spec`; `src/internal/hostnginx/activation_store_linux.go:167`): Promote moves the link before it records "promoted". A crash in between leaves phase "validated" with the candidate linked; when NGINX then starts or reloads it loads the candidate. The next Recover moves the link back before it records "recovering"; a crash between these two leaves phase "validated" with the predecessor linked, which the Recover after that takes for an unpromoted candidate: it removes the tree without a reload, while NGINX still serves it. docs/transactional-nginx-activation.md:72-74 says "A candidate that may have become visible is rolled back and the previous configuration is revalidated/reloaded before the incomplete tree is removed."
* `ReplayRecognised` (`MCNginx.cfg` with `Empty = {}`, `Bad = {}`, `WriteErrors = FALSE`, `MaxFaults = 1`, `MaxRestarts = 0`, `SPECIFICATION Spec`; `src/internal/hostnginx/activation_store_linux.go:194`): Active recognises a replay only while the operation is still the current revision. Once another account has been activated, the replay of a committed operation whose answer was lost goes on to Stage, whose check for an existing revision directory (line 244) refuses it for ever, although its sites are live. docs/transactional-nginx-activation.md:79-81 says "If the API restarts after the agent committed, the same operation UUID matches the active manifest and the agent performs only baseline validation and the local health probe."
* `RetryReachesHost` (`MCRpc.cfg` with `Callers = {c1}`, `Keys = {"k1", "k2"}`, `KeyOf <- OneKey`, `InputOf <- OneInput`, `Services = {"activation", "documentRoot", "pools", "jobs", "image", "ociResources", "deployment", "database"}`, `HostStates = {FALSE}`, `Limit = 1`, `MaxAttempts <- TwoAttempts`, `MaxTime = 3`; `src/internal/agentrpc/handler.go:1740`): execute keeps every outcome below 500, also a 422 that says the host lacks a capability now, for 15 minutes. The handlers of operations classify that 422 as retryable and call again under the same key 5, 10 and 20 seconds later, so every retry replays the first failure although the host has been repaired. docs/local-agent-protocol.md:97-98 says "The protocol layer keeps at most 2,048 successful or deterministic RPC outcomes for 15 minutes."
* `DeadlineRespected` (`MCRpc.cfg` with `Callers = {c1}`, `Keys = {"k1", "k2"}`, `KeyOf <- OneKey`, `InputOf <- OneInput`, `Services = {"image"}`, `Limit = 1`, `MaxAttempts <- TwoAttempts`, `MaxTime = 3`, `MaxEvents = 0`; `src/internal/agentclient/client.go:1333`): call gives an image preparation a deadline of 36 minutes but makes it on httpClient, whose transport waits 5 seconds for the response header; the agent writes the header only after the preparation. A preparation of more than 5 seconds is therefore given up by the client. The same holds for OCI resources and deployments. src/internal/agentrpc/handler.go:782-784 says "Image preparation has a separate policy-bound deadline because its fixed pull/build/save/scan profiles can legitimately run longer."
* `TimeoutRetried` (`MCRpc.cfg` with `Callers = {c1}`, `Keys = {"k1", "k2"}`, `KeyOf <- OneKey`, `InputOf <- OneInput`, `Services = {"identity"}`, `Limit = 1`, `MaxAttempts <- TwoAttempts`, `MaxTime = 3`, `MaxEvents = 0`; `src/internal/operations/hosting_account_reconcile.go:186`): classifyHostingAccountAgentFailure returns a deadline error as it is, failClaim turns an error that is not a Failure into operation.handler_failed without retry, and the operation fails on its first slow call. docs/hosting-account-provisioning.md:17-18 says "The operation uses the account plus both revision numbers as its deterministic idempotency key and is retry-safe with three attempts."
* `NoneGoesBack` (`MCSites.cfg` with `Requests <- RemovalRequests`; `src/internal/operations/tls_certificate.go:473`): The domain handler compares its revision with LatestDesiredStateRevision before it activates; the certificate handler does not. A certificate operation that is repeated after its worker stopped activates the document it captured in its first attempt, although newer documents have been activated since: a removed domain is served again, an edited one with its old target, until the next domain operation. docs/static-domain-lifecycle.md:38 says "reject activation if a newer desired revision now exists".
* `EditNotMarkedActive` (`MCSites.cfg` with `Requests <- PolicyRequests`; `src/internal/core/domain.go:671`): ConfirmDomainActivation recognises a later edit by the target identifier. An edit of cache, WAF or canonical host alone keeps the target row, so the confirmation of an older operation that is repeated after the edit marks the row active although its policy is not in service; when the edit then fails, nothing shows that it was never applied. src/internal/core/domain.go:616-618 says "Later edits can therefore never be marked active by an older operation replay."
* `RenewalTriedAgain` (`MCSites.cfg` with `SPECIFICATION LiveSpec`, `MaxOps = 4`, `Requests <- DomainRequests`, `MaxFaults = 1`; `src/internal/core/tls_certificate.go:718`): A renewal that failed for good stores its retry time in domain_tls_states, but the scheduler reads next_renewal_at of tls_certificates, which does not change, and builds the idempotency key from it. It gets the failed operation back at every tick and no new one is made. docs/certificate-lifecycle.md:62-64 says "After a renewal operation exhausts them, the scheduler waits for the persisted retry time before creating a new bounded round".
* `FailureRecorded` (`MCSites.cfg` with `MaxOps = 2`, `Requests <- DomainRequests`, `MaxFaults = 4`; `src/internal/operations/tls_certificate.go:349`): The failure of an order is recorded by a deferred function of the handler. When the last attempt ends because the process stops, recovery fails the operation and nobody touches domain_tls_states: the domain stays issuing, the scheduler skips it, and every later issue is refused as already in progress (src/internal/core/tls_certificate.go:147). docs/certificate-lifecycle.md:59 says "A failed initial issue records `issuanceStatus: failed`".
* `RotationReplays` (`MCDatabases.cfg`; `src/internal/hostdatabase/reconciler.go:605`): A rotation whose answer is lost, repeated once the agent no longer remembers the call, sets the password again and then fails: the marker names the operation already, the UPDATE changes no row, and MariaDB counts changed rows (the connection does not ask for matched ones). It fails until its attempts are used up, with the new password on the host and the old one in the panel, and the unresolved rotation refuses every further one; the documentation says: "Replaying the same operation applies the same candidate and is semantically idempotent" (docs/database-password-rotation.md:27)
* `AppliedSucceeds` (`MCDatabases.cfg` with `Foreign <- NothingForeign`, `MaxOps = 2`, `MaxHandoffs = 0`; `src/internal/operations/managed_database.go:107`): A provisioning with a new user that is repeated after its rows were recorded finds the user active, takes the payload's new user for a conflict and fails for good; the documentation says: "Creation and deletion are durable, replay-safe operations." (docs/security.md:388)
* `DeletedStaysGone` (`MCDatabases.cfg` with `Foreign <- NothingForeign`, `MaxHandoffs = 0`; `src/internal/operations/managed_database.go:94`): A provisioning that is repeated after its database was deleted does not look at applied_at before it calls the agent, which creates the database again; the documentation says: "Creation and deletion are durable, replay-safe operations." (docs/security.md:388)
* `CompleteIsComplete` (`MCUpdates.cfg`; `src/internal/updateapply/engine.go:234`): Save returns an error also when the journal is renamed into place and only the sync of its directory fails. At the commit the updater then rolls back while the disk says complete; when it is stopped before the rollback is through, the journal stays complete over a host that is partly rolled back, and the next start of the same target verifies and does not recover. docs/staged-platform-updates.md:16-17 says "A successful update ends in `complete`".
* `RecoveryCompletes` (`MCUpdates.cfg` with `SPECIFICATION RetrySpec`, `MaxRequests = 0`, `MaxStarts = 1`, no `CONSTRAINT`; `src/internal/updateapply/engine.go:248`): recoverInterrupted sets a journal of a failed rollback to rolling_back and keeps its completion time; Save validates the journal first and refuses a non-terminal journal with a completion time, so a failed rollback can never be taken up again, and every other target is refused. The documentation says: "Correct the underlying host problem and start the same target version again to invoke fail-closed recovery." (docs/staged-platform-updates.md:37)
* `RollbackKeeps` (`MCAccountFiles.cfg` with `MaxAudited = 2`, `MaxFaults = 0`, `BackupIDs = {b1, b2}`, no `CONSTRAINT`; `src/internal/hostfiles/backups_linux.go:1785`): docs/adr/0046-authenticated-local-file-backup-and-staged-restore.md:58 says "Normal activation failures have deterministic rollback." Between the moves of activateAccountFilesRestore another request of the account may create a path that was moved aside; the check of the remaining names then fails, the rollback cannot rename the old entry back over the new one, its error is dropped, and the deferred clean-up of restoreBackupPayload removes the staging tree with the old entry in it.
* `BackupCeiling` (`MCAccountFiles.cfg` with `MaxFaults = 0`, `BackupLimit = 4`, no `CONSTRAINT`; `src/internal/hostfiles/backups_linux.go:684`): docs/local-file-backup-foundation.md:80 speaks of "the fixed 256-backup ceiling". initiateUpload and create check the number of backups, completeUpload does not: an import reserved below the ceiling is completed after the last backup that fits was made, and from then on measureBackupRepository and localBackupNames answer ErrBusy, so the repository can no longer be listed.
* `TrashUsable` (`MCAccountFiles.cfg` with `MaxAudited = 1`, `BackupIDs = {b1, b2}`, no `CONSTRAINT`; `src/internal/hostfiles/operations_linux.go:691`): docs/file-manager-foundation.md:165 promises a "Recoverable trash". readTrashMetadata compares the size of the entry with the one noted before the move; a process that still writes to the file changes it, and from then on the item is neither listed nor restored nor purged.
* `ReplaysConverge` (`MCAccounts.cfg` with `Revisions = {1}`, `Reassigned = {}`, `Removable = {}`, `Shortages = {}`, `FirstHosts <- EmptyHosts`, `MaxDocuments = 0`, `MaxKills = 0`, no `CONSTRAINT`; `src/internal/hostfilesystem/directory_linux.go:165`): ensureDirectoryAt gives a directory to its owner only in the call that made it. A kill between mkdir and chown leaves a directory of root, which every later call refuses as a conflict. docs/hosting-account-provisioning.md:33-34 says "Replays are convergent, including an already-confirmed identity."
* `AppliedIsEnforced` (`MCAccounts.cfg` with `Removable = {}`, `Shortages = {}`, `FirstHosts <- EmptyHosts`, `MaxDocuments = 0`, `MaxKills = 0`, no `CONSTRAINT`; `src/internal/operations/hosting_account_reconcile.go:106`): The handler does not look at the revision before it calls the agent. When the operation of an older revision runs after a newer one was confirmed, it puts the older limits in force; its confirmation is refused, the row says applied and the host enforces something else. docs/hosting-account-provisioning.md:33 says "Repository confirmations reject superseded revisions."
* `RemovedStaysGone` (`MCAccounts.cfg` with `Revisions = {1}`, `Reassigned = {}`, `Shortages = {}`, `FirstHosts <- EmptyHosts`, `MaxDocuments = 0`, `MaxKills = 0`, no `CONSTRAINT`; `src/internal/operations/hosting_account_reconcile.go:86`): The handler compares the identity of the account and not its status, so an operation that was queued before the archive makes user and directories of a deleted account again; only its confirmations fail. docs/hosting-account-unix-identity.md:77 says "Requesting archive first changes the hosting account to `archived`, disabling normal account mutation."
* `ConfirmedIsRunning` (`MCAccounts.cfg` with `Revisions = {1}`, `Reassigned = {}`, `Removable = {}`, `Shortages = {}`, `FirstHosts <- EmptyHosts`, `MaxDocuments = 3`, `MaxKills = 1`, no `CONSTRAINT`; `src/internal/hostphp/reconciler.go:118`): A pool is restarted when its files were changed by the same call. After a kill between the write and the restart the next call finds the files as they should be and changes nothing: the pool keeps running with its old settings while its document is confirmed. docs/managed-php-runtime.md:60 says "Add or repair every PHP pool referenced by the new NGINX revision".
* `FailureIsUndone` (`MCAccounts.cfg` with `Revisions = {1}`, `Reassigned = {}`, `Removable = {}`, `Shortages = {}`, `FirstHosts <- EmptyHosts`, `MaxDocuments = 3`, `MaxKills = 1`, no `CONSTRAINT`; `src/internal/hostphp/reconciler.go:124`): The rollback runs its commands under the context of the request. When the activation failed because the context ended, the files are put back and the units are neither stopped nor reloaded. docs/managed-php-runtime.md:70-72 says "If activation fails after it began, the reconciler stops newly introduced units, restores the prior files and service state, and reloads systemd."

### Further properties

These hold as well, and are left out of the runs so that the runs stay few. Each is
checked the same way, by putting it in place of the properties of the configuration.

* `MCAccountFiles.cfg`: `ReservationsFit`
* `MCAccounts.cfg`: `IDsNeverReused`, `ConfirmedIsHealthy`, `OwnersExist`
* `MCDatabases.cfg`: `NewestCredential`, `HandoffCurrent`
* `MCNativeAdmission.cfg`: `ConsentedConversion`, `ApprovalSpent`
* `MCNginx.cfg`: `JournalTracksLink`, `NoOrphans`, `ServedIsLinked`
* `MCOperations.cfg`: `TypeOK`, `AttemptBudget`, `UpdatesAccepted`, `AutomaticRetryIsSafe`
* `MCOperations.cfg` with `Ops = {o1, o2}`, `Workers = {w1}`, `Inputs <- MCTwoInputs`, `RetryClass <- MCTwoClass`, `Requested <- MCTwoRequested`, `Supported <- MCTwoInputs`, `LeaseDuration = 1`, `Times = {0, 2}`, `Percents = {0}`, `MaxEvents = 0`: `IdempotentCreation`
* `MCRpc.cfg` with `SPECIFICATION LiveSpec`, `Callers = {c1, c2}`, `Keys = {"k1", "k2"}`, `KeyOf <- SameKeys`, `InputOf <- SameInputs`, `Services = {"activation"}`, `HostStates = {TRUE, FALSE}`, `Limit = 1`, `MaxAttempts <- TwoAttempts`, `MaxTime = 3`, `MaxEvents = 2`: `CallsEnd`
* `MCRpc.cfg`: `ReplayAccepted`
* `MCRunner.cfg` with `MaxFaults = 0`, `Prompt = TRUE`, `SPECIFICATION RunnerSpec`: `NoAttemptLost`
* `MCSessions.cfg`: `OneOfEach`, `FactorChangeProved`
* `MCSites.cfg`: `WildcardExclusive`, `CertificateOnHost`
* `MCUpdates.cfg`: `OfferedIsEligible`

The operators `Name_Variant` before a definition are its mutated forms: each breaks
the property it was made for.

## Proofs

* `OperationsProofs!TypeCorrect`: Every row keeps the columns and value ranges of its table.
* `OperationsProofs!LeaseExclusive`: At most one attempt of an operation runs, and both rows agree on its worker and lease, for any number of operations and workers and any clock readings.
* `OperationsProofs!BudgetKept`: Attempts are numbered without gaps, stay within the limit, and a queued operation has one left.
* `OperationsProofs!OutcomesAgree`: The status of an operation agrees with how its attempts ended.
* `OperationsProofs!CancellationKept`: An accepted cancellation holds until a user retries the operation.
* `OperationsProofs!CreationIdempotent`: One idempotency key never creates two operations.
* `WorkContractProofs!TriggerAccepts`: No statement of the repository is one that the update trigger aborts.
* `WorkContractProofs!FinishedAttemptsKept`: A finished attempt is never written again.
* `WorkContractProofs!ReplayIsSafe`: Only operations of the safe class are replayed without a user.
* `WorkContractProofs!QueueKeepsContract`: The queue implements the abstract contract of submitted work, for any number of operations and workers: every step of it is a step of the contract or a stutter.
* `OperationRunnerProofs!RunnerRecordsReturned`: Whatever a handler returned is what is recorded of its attempt, with late heartbeats, shutdowns and crashes, for any number of workers and operations.
* `OperationRunnerProofs!RunnerLeaseExclusive`: The queue with its workers, in relative time, keeps the lease exclusive for any number of workers and operations.
* `NginxActivationProofs!LinkLoads`: The linked revision is complete and nginx accepts it, after any number of crashes and failing steps, for any number of accounts and operations.
* `NginxActivationProofs!JournalTracks`: An open journal names the linked revision or its predecessor, so recovery knows where it stands.
* `NginxActivationProofs!OthersKept`: No step changes what is shown for an account other than the one being activated or recovered.
* `NginxActivationProofs!SuccessesKept`: What was answered with success stays in service until another operation of the same account is tried.
* `AgentRpcProofs!DispatchesOnce`: For every number of callers and keys, every size of the cache and every timeout: while an outcome has to be replayed, its key is not dispatched again.
* `AgentRpcProofs!AnswersAreOwn`: A caller accepts only an outcome of its own service and input.
* `AgentRpcProofs!ReplaysAccepted`: No replayed outcome is refused by the client as belonging to another request.
* `SessionsProofs!FactorHonoured`: A standing session of an identity with a second factor was opened with that factor, for any number of identities, requests and sessions.
* `SessionsProofs!PasswordsCurrent`: A standing session opened by a password alone was opened with the current password.
* `SessionsProofs!CodesOnce`: A one-time or recovery code is accepted once, whatever requests are in flight.
* `SessionsProofs!RevokedActsNot`: A request whose session was revoked after it was authenticated changes nothing but its own record.
* `NativeAdmissionProofs!RootWhole`: The host never runs on a root filesystem whose conversion was cut off, for any number of boots and faults.
* `NativeAdmissionProofs!ConvertsOnce`: The conversion is started at most once.
* `NativeAdmissionProofs!ServedAdmitted`: Nothing is served before the attempt of this boot got through all its checks with all stages whole, also when closing the gate or stopping the services fails.
* `NativeAdmissionProofs!CodesHonoured`: The first administrator is created once, by a request whose code was not replaced, withdrawn or used up to the commit and had not expired when it was checked for the derivation; codes out of force stay so.
* `FileLimitsProofs!ResolvedIsAccepted`: For every size of a file and every valid range, what resolveDownloadRange answers passes the reader at the other end of the pipe: inside the file, within the limit, not empty when partial.
* `FileLimitsProofs!AddKeepsLimits`: Every entry that the manifest of an extraction accepts keeps it within the expansion limit, the upload limit and the entry limit, so no unsigned difference wraps.
* `FileLimitsProofs!AddKeepsMakeable`: Every path that the manifest of an extraction accepts can be made: its parents are directories of the archive.

`OperationsProofs` proves one inductive invariant, `Inv`, and derives the
invariants from it. The lease property alone is not
inductive: that at most one attempt runs needs the agreement of the operation's
row with its current attempt, which in turn needs that attempts are numbered
without gaps and that a pending or finished row carries no lease. Every method
changes one row, so the proof splits by method and then by the row it writes
(`ReleaseKeeps`, `HoldKeeps`, `FreeKeeps`, `ClaimKeeps`); recovery, which changes
many rows, is proved for each row separately. The assumptions are those named in
`Operations`: null values differ from real ones, times are integers, a lease is
positive, attempt limits are at least three.

`WorkContractProofs` adds what a step may do: the action properties and the refinement
(`QueueKeepsContract`). They need the invariant in both states: `RowMoved` says what
any step does to a row, and that a row with no attempt left is never queued again comes from the invariant after the step. One lemma (`MovePresented`) shows that
a legal move of a row is a step of the contract or is not visible in it.

`OperationRunnerProofs` shows that every step of the composed system is a step of
the queue with the present as its clock reading, a step of time, or leaves the
queue alone, and that aging every lease keeps `Inv`.

For `RecordedAsReturned` the invariant (`ReportInv`) follows a return from the handler
to the row: a worker that is about to record an outcome holds what its handler
returned, and for an attempt that it still owns; the attempt changes hands only
through a recovery, which records no result.

`AttemptsFinal`, an action property of the queue, is proved and in no run: a
finished attempt is never written again.

`AgentRpcProofs`: what has to be replayed is in the cache until its time, because a
request is pruned by the time of its arrival, which is not later than the present;
and the mutex is held while a request is dispatched, so there is at most one
(`CacheInv`). What a client sees follows from the digest comparison in the cache and
from the codes that the services answer with (`ReplyInv`).

`NginxActivationProofs`: that the link always loads is not inductive, because recovery
moves it back to what the journal names. `Inv` therefore says of the disk that the
predecessor in an open journal can be linked again and shows the same sites for all
other accounts, and of the agent, for each of its steps, what is already true of the
files there: built, tested, linked, or to be undone. `Agree` also gives
`OtherAccountsKept`. `SuccessKept` needs in addition that an operation that was
answered with success is in no journal and at no step any more (`SuccessInv`), so that
nothing rolls it back. The files are on a disk that loses nothing that was
written, as in the model; crashes and failing steps may come anywhere and as often as
they like.

`SessionsProofs`: `Inv` says of every standing session that it was opened with the
identity's active factor and, without one, with the current password
(`SessionInv`). It is kept because whatever changes a factor or a password revokes the
sessions of the identity in the same transaction, and because the transaction that
opens a session reads both again. That codes are accepted once needs the history: a
factor remembers every code it has accepted (its highest time step, or the recovery
codes that are left), no two factors share a secret, and an open setup has none
accepted (`CodeInv`).

`NativeAdmissionProofs`: that the conversion runs at most once rests on the latch.
From the first start of the conversion on it is spent, also on stable storage, the
journal is past the arming, and the boot image is past the step that reads it
(`Started`); none of this can be undone by a power loss, because the latch is flushed
before the conversion starts. What is served is admitted because everything that
starts a consumer does so behind a closed gate, and the gate is opened by one step,
for which each step before it has established its part (`GateInv`); a quarantine that
fails only stops or closes less, and a gate left open by it is still in front of the
stages that were checked. `CodeHonoured` is a property of the bootstrap alone:
`BootInv` adds to the types that what a request has found expired is expired or spent
for good, so that no reading of the clock, old or new, lets such a code through.

`FileLimitsProofs` needs no invariant over time: its theorems are about functions and
follow from the bounds of the limits named in `FileLimits`.

What the proofs do not reach is checked by TLC only: liveness under fairness, which is
out of the prover's reach, and the modules for domains and certificates, databases,
updates, the file helpers, accounts, pools and jobs, for which there is no inductive
invariant yet.

## What is not modelled

What is left out of the parts that are modelled in part, and the parts that are not
modelled:

* **Agent RPC protocol and response cache**: handleRPC, execute with its cache and mutex, the answers of every dispatched service, the client deadlines and the retry classification of the operation handlers. The streaming file endpoints and the validation of request bodies are not modelled.
* **Domain lifecycle**: The rows of domains with targets, document roots, cache and WAF policy, TLS intent and exceptions; the saga of mutation, desired revision, document roots, PHP pools, activation and confirmation, with its attempts. Canonical host modes, redirect details and the expiry of exceptions are left out; one hosting account that stays active.
* **TLS certificates**: Orders, staging, activation, failure and the scheduler. The exchange with the certificate authority is one step.
* **Sessions and authentication**: Password login, the second factor (enrolment, replacement, removal, login, recovery codes), browser sessions (refresh, expiry, rotation, revocation) and the identity scope of the authorisation. The limiters of logins and codes, which only refuse, the CSRF proof, and the scopes of accounts and the platform are not modelled.
* **Store and migrations**: Opening with its migrations and their refusal of a newer schema, the snapshot and writes as seen by an update; SQLite itself and checksums of migrations are not.
* **Staged installation**: Journal and order of the nine stages, what each leaves when it is stopped, what each verifies; the contents of packages, files and units are whole, part or none.
* **File manager**: Every request that changes the tree at the level of its system calls, with kills and full quotas; paths are flat, permissions and the contents of archives (names, limits of an entry) are abstracted. The range arithmetic of a download and the limits of an extraction are functions with theorems; listings are not modelled.
* **PHP pools**: Preparing, activating, verifying, rolling back and retiring pools, with kills, deadlines and failing commands, and the inspector. One version besides the one it is replaced by; the texts of pool and unit files, and the reading of php.ini settings, are not modelled.
* **Panel TLS transaction**: The issuance, activation and rollback of the panel host name follow the pattern of the site activation (journal, link, reload); they are not modelled.
* **Authorization and audit trail**: Role and status rules, a table without state of its own; the identity scope is part of the sessions. Audit rows are written in the transactions of the modelled operations and left out there.
* **OCI applications**: The rows of images, resources and deployments and their operations are not modelled; the queue and the agent calls that carry them are.
* **OCI host managers**: The health gated replacement of a Quadlet and the image store are not modelled.
* **ACME accounts and secrets**: Registration with a certificate authority and sealed secrets: mainly cryptography and an external protocol; not modelled.
* **NGINX baseline and configuration renderer**: The renderers are pure translations to text.
* **Packages and queries**: A catalogue of limits with its revisions, and read-only queries; a package is a revision number of the account model.
* **HTTP API**: Request parsing and rendering around the repository calls; the routes of authentication are modelled with the sessions, CSRF and rate limits are not.
* **Agent command execution**: Closed command profiles and their limits; process I/O.
* **Host capability detection**: Reads files of the host and classifies them, without state.
* **Logs, cache and PHP status**: Reads of log files and of pool states and a purge command, without lasting state.
* **Web console**: Browser user interface over the HTTP API.
* **Release tooling**: Build time manifests, no running state.

The largest parts without a model are the OCI applications with their host managers
and the panel's own TLS transaction. Both are driven by the operation queue and the
agent calls that are modelled; their rows and their host work are not.

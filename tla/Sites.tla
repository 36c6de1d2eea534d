-------------------------------- MODULE Sites --------------------------------
(***************************************************************************)
(* How the sites of one hosting account reach the web server: domain and    *)
(* certificate operations (internal/operations/domain_lifecycle.go,         *)
(* tls_certificate.go, nginx_activation.go), run one at a time by the API's *)
(* worker, each in several attempts.  An operation changes rows, captures   *)
(* one complete document of the account, has the agent put it in service    *)
(* and records what is in service.  An attempt can end at every step: the   *)
(* process stops, the database or the agent does not answer, or the agent   *)
(* has done its work and the answer is lost.                               *)
(***************************************************************************)
EXTENDS Certificates

CONSTANTS
  Requests,       \* what clients may ask for
  MaxFaults,      \* stops, refusals and lost calls of a behaviour
  DomainAttempts, CertificateAttempts  \* max_attempts of the two kinds

VARIABLES
  ops,            \* operations: what was asked for, status and attempts
  queue,          \* pending operations, in the order they became pending
  worker,         \* the operation being run, its next step, a failure to record
  revision,       \* desired_state_revisions, by sequence number
  applied,        \* applied_state_revisions, by operation
  host,           \* the agent's host, and the answers it remembers
  faults          \* faults so far

vars == <<rows, due, ops, queue, worker, revision, applied, host, faults>>

ASSUME SiteAssumption ==
  {MaxFaults, DomainAttempts, CertificateAttempts} \subseteq Nat

Certifies(do) == do \in {"issue", "renew"}
Steps == {"mutate", "capture", "roots", "pools", "activate", "record", "converge", "confirm",
          "prepare", "issue", "stage", "certify", "note", "complete"}
AgentSteps == {"roots", "pools", "activate", "converge", "stage"}
Idle == [op |-> 0, at |-> "idle", final |-> FALSE]

Init ==
  /\ DomainsInit /\ due = {}
  /\ ops = <<>> /\ queue = <<>> /\ worker = Idle
  /\ revision = <<>> /\ applied = [o \in Ids |-> "none"]
  /\ host = [loaded |-> 0, dirs |-> {}, cached |-> {}, roots |-> {}, pools |-> {}, certs |-> {}]
  /\ faults = 0

-------------------------------------------------------------------------------
(* Operations are created by clients and by the scheduler, which keeps one  *)
(* idempotency key per domain to issue and per certificate to renew.        *)

CreateOperation(r) ==
  /\ Len(ops) < MaxOps
  /\ ops' = Append(ops, [r |-> r, status |-> "pending", attempts |-> 0])
  /\ queue' = Append(queue, Len(ops) + 1)
  /\ UNCHANGED <<rows, due, worker, revision, applied, host, faults>>

\* The services refuse what cannot be meant: an exception for a domain that
\* has no WAF, a purge of what is not cached; other checks wait for the run.
Request(r) ==
  /\ r.on # 0 => r.on \in Ids /\ domain[r.on].status # "none"
  /\ r.do = "except" => domain[r.on].waf # "off"
  /\ r.do = "purge" => domain[r.on].preset = "fastcgi"
  /\ CreateOperation(r)

Automatic(do, d, replaces) ==
  [by |-> "scheduler", do |-> do, on |-> d, name |-> "", target |-> "keep", root |-> "", share |-> replaces,
   preset |-> "keep", waf |-> "keep", tls |-> "auto"]
Unfinished == {o \in DOMAIN ops : ops[o].status \in {"pending", "running"}}
KeyUsed(r) == \E o \in 1..Len(ops) : ops[o].r = r

QueueAutomaticWork ==
  \E r \in {Automatic("issue", d, 0) : d \in ListPendingTLSCertificateIssuances(Unfinished)} \union
           {Automatic("renew", certificate[c].domain, c) :
              c \in ListDueTLSCertificateRenewals(Unfinished)} :
    ~KeyUsed(r) /\ CreateOperation(r)

RenewalFallsDue ==
  \E c \in Ids \ due : /\ certificate[c].status = "active" /\ due' = due \union {c}
                       /\ UNCHANGED <<rows, ops, queue, worker, revision, applied, host, faults>>

-------------------------------------------------------------------------------
(* The worker.  Retried operations wait longer after each attempt, so that  *)
(* only those with fewer attempts may overtake one.                        *)

Asked == ops[worker.op].r
MaxAttemptsOf(o) == IF Certifies(ops[o].r.do) THEN CertificateAttempts ELSE DomainAttempts

ClaimNextOperation ==
  /\ worker = Idle
  /\ \E i \in DOMAIN queue :
       LET o == queue[i] IN
       /\ \A j \in 1..(i - 1) : ops[queue[j]].attempts > ops[o].attempts
       /\ queue' = SubSeq(queue, 1, i - 1) \o SubSeq(queue, i + 1, Len(queue))
       /\ ops' = [ops EXCEPT ![o] = [@ EXCEPT !.status = "running", !.attempts = @ + 1]]
       /\ worker' = [op |-> o, final |-> FALSE,
                     at |-> IF Certifies(ops[o].r.do) THEN "prepare" ELSE "mutate"]
  /\ UNCHANGED <<rows, due, revision, applied, host, faults>>

At(step) == worker.at = step
Goto(step) == worker' = [worker EXCEPT !.at = step] /\ UNCHANGED <<ops, queue>>

\* The attempt of o is over; it is repeated if the failure allows and an
\* attempt is left.
FailOperation(o, final) ==
  IF final \/ ops[o].attempts >= MaxAttemptsOf(o)
  THEN ops' = [ops EXCEPT ![o].status = "failed"] /\ UNCHANGED queue
  ELSE ops' = [ops EXCEPT ![o].status = "pending"] /\ queue' = Append(queue, o)

\* A handler returns a failure.  That of an order is recorded with the order.
Fails(final) ==
  IF worker.at \in {"mutate", "prepare", "note"} \/ ~Certifies(Asked.do)
  THEN FailOperation(worker.op, final) /\ worker' = Idle
  ELSE worker' = [worker EXCEPT !.at = "note", !.final = final] /\ UNCHANGED <<ops, queue>>

Fault == faults < MaxFaults /\ faults' = faults + 1

\* The process stops; the operation stays leased until it is recovered.
Crash ==
  /\ worker # Idle /\ Fault /\ worker' = Idle
  /\ UNCHANGED <<rows, due, ops, queue, revision, applied, host>>

\* The worker recovers expired leases when it starts and before each claim.
recoverExpiredOperations ==
  /\ worker = Idle
  /\ \E o \in 1..Len(ops) : ops[o].status = "running" /\ FailOperation(o, FALSE)
  /\ UNCHANGED <<rows, due, worker, revision, applied, host, faults>>

\* The database, the agent or the certificate authority does not answer.
Unavailable ==
  /\ worker # Idle /\ worker.at # "complete" /\ Fault /\ Fails(FALSE)
  /\ UNCHANGED <<rows, due, revision, applied, host>>

\* The agent or the authority answers with a failure that is not retried, or the
\* checkpoint before the step cannot be written, which no handler retries.
Refused ==
  /\ worker.at \in AgentSteps \union {"mutate", "prepare", "issue", "record"}
  /\ Fault /\ Fails(TRUE)
  /\ UNCHANGED <<rows, due, revision, applied, host>>

CompleteOperation ==
  /\ At("complete") /\ worker' = Idle
  /\ ops' = [ops EXCEPT ![worker.op].status = "succeeded"]
  /\ UNCHANGED <<rows, due, queue, revision, applied, host, faults>>

-------------------------------------------------------------------------------
(* Domain operations.                                                      *)

MutationReplayed ==
  /\ At("mutate") /\ Replayed(worker.op, Asked) /\ Goto("capture")
  /\ UNCHANGED <<rows, due, revision, applied, host, faults>>

Mutates(do, can, mutation) ==
  /\ At("mutate") /\ Asked.do \in do /\ ~Replayed(worker.op, Asked)
  /\ IF can THEN mutation /\ Goto("capture") ELSE UNCHANGED rows /\ Fails(TRUE)
  /\ UNCHANGED <<due, revision, applied, host, faults>>

Create == Mutates({"create"}, CanCreate(worker.op, Asked), CreateDomain(worker.op, Asked))
Edit == Mutates({"edit", "purge"}, CanUpdate(worker.op, Asked), UpdateDomain(worker.op, Asked))
ChangeStatus == Mutates({"suspend", "resume"}, CanChange(worker.op, Asked),
                        changeDomainStatus(worker.op, Asked))
Remove == Mutates({"remove"}, CanRemove(worker.op, Asked), RemoveDomain(worker.op, Asked))
Except == Mutates({"except"}, CanExcept(worker.op, Asked),
                  CreateDomainWAFException(worker.op, Asked))
Unexcept == Mutates({"unexcept"}, CanUnexcept(worker.op, Asked),
                    RemoveDomainWAFException(worker.op, Asked))

\* The document: what is served, by domain, from the rows as they are.
SpecsFromDomains(cert) ==
  [d \in {e \in Ids : domain[e].status \in {"pending", "active"}} |->
    [tid |-> domain[d].tid, target |-> domain[d].target, root |-> domain[d].root,
     preset |-> domain[d].preset, generation |-> domain[d].generation, waf |-> domain[d].waf,
     cert |-> cert[d], exceptions |-> Exceptions(d)]]
Refs == [d \in Ids |-> tls[d].ref]
makeDomainDesiredStateDocument ==
  [by |-> worker.op, sites |-> SpecsFromDomains(Refs),
   pending |-> {<<d, domain[d].tid>> : d \in {e \in Ids : domain[e].status = "pending"}}]

RevisionOf(o) == CHOOSE i \in DOMAIN revision : revision[i].by = o
Captured(o) == \E i \in DOMAIN revision : revision[i].by = o
Document == revision[RevisionOf(worker.op)]
Roots(doc) == {doc.sites[d].root : d \in DOMAIN doc.sites} \ {""}
Pools(doc) == {doc.sites[d].target : d \in DOMAIN doc.sites} \intersect Versions

CreateDesiredStateRevision(doc) ==
  revision' = IF Captured(worker.op) THEN revision ELSE Append(revision, doc)

desiredRevision ==
  /\ At("capture") /\ ~Certifies(Asked.do)
  /\ CreateDesiredStateRevision(makeDomainDesiredStateDocument) /\ Goto("roots")
  /\ UNCHANGED <<rows, due, applied, host, faults>>

\* An agent call: its effect, then the next step or, when the answer is lost,
\* the end of the attempt.
Answered(step) ==
  \/ Goto(step) /\ UNCHANGED faults
  \/ Fault /\ Fails(FALSE)

\* One call for each root; those that exist are left alone.
EnsureDocumentRoots ==
  /\ At("roots") /\ UNCHANGED <<rows, due, revision, applied>>
  /\ \/ \E p \in Roots(Document) \ host.roots :
          host' = [host EXCEPT !.roots = @ \union {p}] /\ Answered("roots")
     \/ Roots(Document) \subseteq host.roots /\ Goto("pools") /\ UNCHANGED <<host, faults>>

\* Mutation: the check for a newer revision is missing.
IsLatest_Assumed == TRUE

IsLatest == RevisionOf(worker.op) = Len(revision)
Superseded ==
  /\ At("pools") /\ ~IsLatest /\ Fails(TRUE)
  /\ UNCHANGED <<rows, due, revision, applied, host, faults>>

\* Mutation: the pools are left to the convergence after the activation.
PreparePHPPools_Skipped ==
  /\ At("pools") /\ IsLatest /\ UNCHANGED host
  /\ Answered("activate")
  /\ UNCHANGED <<rows, due, revision, applied>>

PreparePHPPools ==
  /\ At("pools") /\ IsLatest /\ host' = [host EXCEPT !.pools = @ \union Pools(Document)]
  /\ Answered("activate")
  /\ UNCHANGED <<rows, due, revision, applied>>

ConvergePHPPools ==
  /\ At("converge") /\ host' = [host EXCEPT !.pools = Pools(Document)]
  /\ Answered("confirm")
  /\ UNCHANGED <<rows, due, revision, applied>>

Confirm ==
  /\ At("confirm") /\ UNCHANGED <<due, revision, applied, host, faults>>
  /\ IF applied[worker.op] = "active"
     THEN ConfirmDomainActivation(Document.pending) /\ Goto("complete")
     ELSE UNCHANGED rows /\ Fails(TRUE)

-------------------------------------------------------------------------------
(* Activation.  The agent answers an operation it remembers, or whose       *)
(* revision is in service, without doing anything; it refuses one whose     *)
(* revision was in service before.                                         *)

Remembered == worker.op \in host.cached \/ host.loaded = RevisionOf(worker.op)
ActivateNGINXSites ==
  /\ At("activate") /\ UNCHANGED <<rows, due, revision, applied>>
  /\ IF ~Remembered /\ worker.op \in host.dirs
     THEN UNCHANGED <<host, faults>> /\ Fails(TRUE)
     ELSE /\ host' = [host EXCEPT !.cached = @ \union {worker.op},
                                  !.dirs = @ \union {worker.op},
                                  !.loaded = IF Remembered THEN @ ELSE RevisionOf(worker.op)]
          /\ Answered("record")

\* The agent has restarted, or its memory of the answer has expired, before the
\* operation calls again; for other operations that makes no difference.
CacheExpires ==
  /\ At("activate") /\ worker.op \in host.cached
  /\ host' = [host EXCEPT !.cached = @ \ {worker.op}]
  /\ UNCHANGED <<rows, due, ops, queue, worker, revision, applied, faults>>

RecordAppliedStateRevision ==
  /\ At("record") /\ UNCHANGED <<rows, due, revision, host, faults>>
  /\ IF applied[worker.op] = "superseded"
     THEN UNCHANGED applied /\ Fails(TRUE)
     ELSE /\ applied' = [o \in Ids |-> IF o = worker.op THEN "active"
                                       ELSE IF applied[o] = "active" THEN "superseded"
                                       ELSE applied[o]]
          /\ Goto(IF Certifies(Asked.do) THEN "certify" ELSE "converge")

-------------------------------------------------------------------------------
(* Certificate operations.                                                 *)

Prepare ==
  /\ At("prepare") /\ UNCHANGED <<due, revision, applied, host, faults>>
  /\ IF Ordered(worker.op) THEN UNCHANGED rows /\ Goto("issue")
     ELSE IF CanPrepare(Asked.on, Asked.share)
     THEN PrepareTLSCertificateOrder(worker.op, Asked.on, Asked.share) /\ Goto("issue")
     ELSE UNCHANGED rows /\ Fails(TRUE)

\* The exchange with the authority is one step: a new order or the recorded one, its
\* challenges, the certificate.  It ends in a certificate or in no change (Refused,
\* Unavailable).
Issued(o) == StageTLSCertificate(o)

\* The authority issues the certificate of an order still open; a certificate
\* retired since ends the operation.
Issue ==
  /\ At("issue") /\ UNCHANGED <<due, revision, applied, host, faults>>
  /\ \/ certificate[worker.op].status = "ordering" /\ Issued(worker.op) /\ Goto("stage")
     \/ certificate[worker.op].status \in {"staged", "active"} /\ UNCHANGED rows /\ Goto("stage")
     \/ certificate[worker.op].status = "retired" /\ UNCHANGED rows /\ Fails(TRUE)

StageOnHost ==
  /\ At("stage") /\ host' = [host EXCEPT !.certs = @ \union {worker.op}]
  /\ Answered("capture")
  /\ UNCHANGED <<rows, due, revision, applied>>

\* The document of a certificate operation: that of the rows with the new
\* certificate in place of the domain's own.
activationRevision ==
  /\ At("capture") /\ Certifies(Asked.do)
  /\ UNCHANGED <<rows, due, applied, host, faults>>
  /\ IF Captured(worker.op) \/ (domain[Asked.on].status = "active" /\ ~Wildcard(domain[Asked.on].target))
     THEN /\ CreateDesiredStateRevision([by |-> worker.op, pending |-> {},
               sites |-> SpecsFromDomains([Refs EXCEPT ![Asked.on] = worker.op])])
          /\ Goto("activate")
     ELSE UNCHANGED revision /\ Fails(TRUE)

Certify ==
  /\ At("certify") /\ UNCHANGED <<due, revision, applied, host, faults>>
  /\ IF certificate[worker.op].status = "active" THEN UNCHANGED rows /\ Goto("complete")
     ELSE IF applied[worker.op] = "active" /\ CanActivate(worker.op)
     THEN ActivateTLSCertificate(worker.op) /\ Goto("complete")
     ELSE UNCHANGED rows /\ Fails(TRUE)

\* The deferred record of a failed order; when it fails, the operation is
\* repeated whatever the failure was.
Note ==
  LET o == worker.op IN
  /\ At("note") /\ UNCHANGED <<due, revision, applied, host, faults>>
  /\ IF Updatable(o)
     THEN FailTLSCertificateOrder(o, worker.final \/ ops[o].attempts >= MaxAttemptsOf(o))
          /\ Fails(worker.final)
     ELSE UNCHANGED rows /\ Fails(FALSE)

-------------------------------------------------------------------------------

DomainStep == \/ MutationReplayed \/ Create \/ Edit \/ ChangeStatus \/ Remove \/ Except \/ Unexcept
              \/ desiredRevision \/ EnsureDocumentRoots \/ Superseded \/ PreparePHPPools
              \/ ConvergePHPPools \/ Confirm
CertificateStep == Prepare \/ Issue \/ StageOnHost \/ activationRevision \/ Certify \/ Note
ActivationStep == ActivateNGINXSites \/ RecordAppliedStateRevision
Step == DomainStep \/ CertificateStep \/ ActivationStep \/ CompleteOperation
Disturbance == Crash \/ Unavailable \/ Refused \/ CacheExpires

Next == (\E r \in Requests : Request(r)) \/ QueueAutomaticWork \/ RenewalFallsDue
        \/ ClaimNextOperation \/ recoverExpiredOperations \/ Step \/ Disturbance

Spec == Init /\ [][Next]_vars

\* The worker runs while there is something to do, and so do recovery and the
\* scheduler, each in a loop of the API process.
LiveSpec == Spec /\ WF_vars(ClaimNextOperation) /\ WF_vars(Step)
                 /\ WF_vars(recoverExpiredOperations) /\ WF_vars(QueueAutomaticWork)

-------------------------------------------------------------------------------
(* Properties.                                                             *)

\* The certificate a domain's TLS state names is the domain's only certificate
\* in use: orders, renewals, retargeting and removal of the domain, interrupted
\* and repeated, keep the two tables in step.  A removed domain names none, even
\* when the last step of an order for it is repeated after the removal.
CertificateInUse ==
  \A c, d \in Ids :
    /\ certificate[c].status = "active" /\ certificate[c].domain = d <=> tls[d].ref = c
    /\ tls[d].ref = c => domain[d].status # "removed"

\* No live domain lies at or below the name of a live wildcard redirect,
\* whichever of the two came first (ensureNoWildcardConflict).
WildcardExclusive ==
  \A d, e \in Live : d # e /\ Wildcard(domain[d].target) =>
    domain[e].name # domain[d].name /\ <<domain[e].name, domain[d].name>> \notin Below

LoadedDocument == revision[host.loaded]
LoadedByDomain == host.loaded # 0 /\ ~Certifies(ops[LoadedDocument.by].r.do)

\* A domain operation never takes the web server back to an older document
\* than the one in service, however its attempts interleave with others.
NewestWins ==
  [][(host.loaded' # host.loaded /\ LoadedByDomain') => host.loaded' > host.loaded]_vars

\* A domain whose row is active is in service with the row's own target,
\* whenever the newest document or one of a domain operation is in service:
\* a replayed confirmation promotes no row whose target was replaced since.
ActiveIsServed ==
  host.loaded # 0 /\ (LoadedByDomain \/ host.loaded = Len(revision)) =>
    \A d \in Ids : domain[d].status = "active" =>
      d \in DOMAIN LoadedDocument.sites /\ LoadedDocument.sites[d].tid = domain[d].tid

\* The document of a domain operation is put in service only on a host that
\* has its document roots and PHP pools, and they stay while it is.
PreparedBeforeServed ==
  LoadedByDomain => /\ Roots(LoadedDocument) \subseteq host.roots
                    /\ Pools(LoadedDocument) \subseteq host.pools

\* Every certificate the document in service names has been staged on the host.
CertificateOnHost ==
  host.loaded # 0 =>
    {LoadedDocument.sites[d].cert : d \in DOMAIN LoadedDocument.sites} \ {0} \subseteq host.certs

\* "Later edits can therefore never be marked active by an older operation
\* replay": a row is active only with the cache generation, and so the edit,
\* of the document in service.
EditNotMarkedActive ==
  host.loaded # 0 /\ (LoadedByDomain \/ host.loaded = Len(revision)) =>
    \A d \in Ids : domain[d].status = "active" /\ d \in DOMAIN LoadedDocument.sites =>
      LoadedDocument.sites[d].generation = domain[d].generation

\* "reject activation if a newer desired revision now exists": no operation,
\* of a certificate or of a domain, takes the web server back to an older
\* document.
NoneGoesBack == [][host.loaded' >= host.loaded]_vars

\* "After a renewal operation exhausts them, the scheduler waits for the
\* persisted retry time before creating a new bounded round": a certificate
\* whose renewal failed for good gets another renewal operation, is replaced,
\* or is no longer up for renewal.
Renewals(c) == {o \in DOMAIN ops : ops[o].r.do = "renew" /\ ops[o].r.share = c}
RenewalTriedAgain ==
  \A c \in Ids :
    (c \in due /\ tls[certificate[c].domain].ref = c /\ tls[certificate[c].domain].retry)
      ~> (\/ Cardinality(Renewals(c)) > 1 \/ certificate[c].status # "active"
          \/ ~Eligible(certificate[c].domain) \/ Len(ops) = MaxOps)

\* "A failed initial issue records issuanceStatus: failed": when every
\* operation has ended, no domain is left as being issued or renewed.
FailureRecorded ==
  Unfinished = {} =>
    \A d \in Ids : tls[d].status \notin {"issuing", "renewing"}
===============================================================================

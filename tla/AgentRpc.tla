------------------------------- MODULE AgentRpc -------------------------------
(***************************************************************************)
(* The RPC boundary between the control API and the privileged agent       *)
(* (internal/agentrpc, internal/agentclient): one POST per call, answered   *)
(* from a bounded, process-local cache of outcomes keyed by idempotency     *)
(* key.  The cache's mutex is held while a call is dispatched, so calls     *)
(* are carried out one at a time; a client that gives up leaves its         *)
(* request behind, and the operation runner calls again under the same key. *)
(*                                                                         *)
(* What a service does to the host is abstracted to the answer it gives:    *)
(* an HTTP status and an error code.  The answers of each service, and      *)
(* which of them an operation handler retries, are the tables of the code.  *)
(***************************************************************************)
EXTENDS Naturals, FiniteSets

CONSTANTS
  Callers,        \* operation handlers (or workspaces) that call the agent
  Keys, Inputs,   \* idempotency keys and the semantic inputs of the requests
  KeyOf, InputOf, \* what each caller sends: constant over its attempts
  Services,       \* the services the callers of a run may address
  HostStates,     \* whether the host has what the services need, at first
  Limit, TTL,     \* idempotencyCacheLimit and idempotencyCacheTTL
  HeaderTimeout,  \* ResponseHeaderTimeout of the ordinary transport
  RequestTimeout, PanelTimeout, ResourceTimeout, DeploymentTimeout, ImageTimeout,
  MaxAttempts, MaxTime,
  MaxEvents       \* bound: restarts of the agent and changes of the host

ASSUME RpcAssumption ==
  /\ KeyOf \in [Callers -> Keys] /\ InputOf \in [Callers -> Inputs]
  /\ HostStates \subseteq BOOLEAN
  /\ {Limit, TTL, HeaderTimeout, RequestTimeout} \subseteq Nat \ {0}
  /\ {PanelTimeout, ResourceTimeout, DeploymentTimeout, ImageTimeout} \subseteq Nat \ {0}
  /\ {MaxTime, MaxEvents} \subseteq Nat /\ MaxAttempts \in [Callers -> Nat]

-------------------------------------------------------------------------------
(* The answers of the services.                                            *)

A(status, code) == [status |-> status, code |-> code]
Ok == A(200, "ok")

identityError == {A(409, "identity_conflict"), A(409, "archive_required"),
  A(422, "oci_runtime_unavailable"), A(500, "mutation_failed")}
filesystemError == {A(422, "quota_unavailable"), A(409, "filesystem_conflict"),
  A(409, "filesystem_migration_required"), A(500, "mutation_failed")}
resourceError == {A(422, "resource_control_unavailable"),
  A(409, "resource_control_conflict"), A(500, "mutation_failed")}
nginxError == {A(422, "nginx_unavailable"), A(409, "nginx_conflict"),
  A(500, "nginx_validation_failed"), A(500, "mutation_failed")}
nginxActivationError == {A(422, "nginx_unavailable"), A(409, "nginx_conflict"),
  A(500, "nginx_validation_failed"), A(502, "nginx_health_check_failed"),
  A(500, "nginx_activation_failed")}
acmeHTTP01Error == {A(409, "acme_http01_conflict"), A(500, "acme_http01_unavailable")}
tlsCertificateError == {A(409, "tls_certificate_conflict"), A(500, "tls_certificate_unavailable")}
\* A missing runtime is reported with its capability: not supported at all, or
\* not available now.  Both travel as php_unavailable.
phpPoolError == {A(422, "php_unsupported"), A(422, "php_unavailable"),
  A(409, "php_conflict"), A(500, "php_validation_failed"), A(500, "php_activation_failed")}
phpPoolInspectionError == {A(422, "php_unavailable"), A(500, "internal_error")}
databaseError == {A(409, "database_conflict"), A(503, "database_unavailable"),
  A(422, "database_validation_failed"), A(500, "database_mutation_failed")}
scheduledJobError == {A(422, "scheduled_job_unavailable"), A(400, "scheduled_job_invalid"),
  A(404, "scheduled_job_script_not_found"), A(409, "scheduled_job_conflict"),
  A(503, "scheduled_job_unavailable"), A(500, "mutation_failed")}
ociImageError == {A(422, "oci_image_unavailable"), A(400, "oci_image_invalid"),
  A(409, "oci_image_invalid"), A(422, "oci_image_rejected"), A(503, "oci_image_unavailable")}
ociResourceError == {A(422, "oci_resource_unavailable"), A(400, "oci_resource_invalid"),
  A(409, "oci_resource_conflict"), A(503, "oci_resource_unavailable")}
ociDeploymentError == {A(422, "oci_deployment_unavailable"), A(400, "oci_deployment_invalid"),
  A(409, "oci_deployment_conflict"), A(422, "oci_deployment_unhealthy"),
  A(503, "oci_deployment_unavailable")}
platformUpdateError == {A(400, "platform_update_invalid"), A(409, "platform_update_conflict"),
  A(503, "platform_update_unavailable")}
fileListingError == {A(404, "file_not_found"), A(400, "invalid_request"),
  A(409, "file_conflict"), A(500, "file_listing_unavailable")}
hostingLogError == {A(400, "invalid_request"), A(404, "hosting_log_not_found"),
  A(409, "hosting_log_conflict"), A(503, "hosting_log_unavailable")}
cacheError == {A(400, "invalid_request"), A(409, "cache_conflict"), A(503, "cache_unavailable")}
panelError == {A(503, "nginx_unavailable")}

\* dispatch: the service each operation goes to, with the failures it can answer.
AccountServices == [
  handshake |-> {A(426, "incompatible_protocol")}, capabilities |-> {A(500, "internal_error")},
  identity |-> identityError, filesystem |-> filesystemError, files |-> fileListingError,
  logs |-> hostingLogError, cache |-> cacheError, resources |-> resourceError,
  documentRoot |-> filesystemError]
SiteServices == [
  baseline |-> nginxError, activation |-> nginxActivationError, acme |-> acmeHTTP01Error,
  tls |-> tlsCertificateError, inspection |-> phpPoolInspectionError, pools |-> phpPoolError]
ApplicationServices == [
  database |-> databaseError, jobs |-> scheduledJobError, image |-> ociImageError,
  ociResources |-> ociResourceError, deployment |-> ociDeploymentError,
  update |-> platformUpdateError, panel |-> panelError]
ServiceNames == DOMAIN AccountServices \union DOMAIN SiteServices \union DOMAIN ApplicationServices

ASSUME ServiceAssumption == Services \subseteq ServiceNames

Failures(s) ==
  CASE s \in DOMAIN AccountServices -> AccountServices[s]
    [] s \in DOMAIN SiteServices -> SiteServices[s]
    [] s \in DOMAIN ApplicationServices -> ApplicationServices[s]

\* A 422 that carries a capability: the host cannot do it now, whatever is asked.
Lacking(a) == a.status = 422 /\
  a.code \notin {"database_validation_failed", "oci_image_rejected", "oci_deployment_unhealthy"}

\* What a service answers on a host that has, or has not, the capability.
Answers(s, capable) ==
  IF \E a \in Failures(s) : Lacking(a)
  THEN IF capable THEN {Ok} \union {a \in Failures(s) : ~Lacking(a)}
       ELSE {a \in Failures(s) : Lacking(a)}
  ELSE {Ok} \union Failures(s)

-------------------------------------------------------------------------------
(* What an operation handler makes of a failed call: TRUE when the failure  *)
(* is Retryable.  A call without an answer is "unreachable" (a transport    *)
(* error) or "timeout" (which is context.DeadlineExceeded).                 *)

Unreachable == A(0, "unreachable")
Timeout == A(0, "timeout")
Conflict409 == A(409, "idempotency_conflict")

classifyHostingAccountAgentFailure(a) == a # Timeout /\ a.status \notin 400..499
classifyDomainFilesystemFailure(a) ==
  a.code \notin {"filesystem_conflict", "filesystem_migration_required", "identity_conflict",
                 "idempotency_conflict", "invalid_request"}
classifyDomainPHPFailure(a) ==
  a.code \notin {"php_conflict", "invalid_request", "idempotency_conflict", "php_unsupported",
                 "php_validation_failed"}
classifyNGINXAgentFailure(a) ==
  a.code \notin {"nginx_conflict", "nginx_validation_failed", "idempotency_conflict", "invalid_request"}
classifyTLSAgentFailure(a) ==
  a.code \notin {"acme_http01_conflict", "tls_certificate_conflict", "idempotency_conflict",
                 "invalid_request"}
classifyDatabaseAgentFailure(a) ==
  a.code \notin {"database_conflict", "database_validation_failed"}
classifyScheduledJobAgentFailure(a) ==
  a.code \notin {"scheduled_job_invalid", "scheduled_job_script_not_found", "scheduled_job_conflict"}
classifyOCIImageAgentFailure(a) == a # Timeout /\
  (a.code \in {"unreachable", "oci_image_unavailable"} \/ a.status >= 500)
classifyOCIResourceAgentFailure(a) == a # Timeout /\
  (a.code \in {"unreachable", "oci_resource_unavailable"} \/ a.status >= 500)
classifyOCIDeploymentAgentFailure(a) == a # Timeout /\
  (a.code \in {"unreachable", "oci_deployment_unavailable"} \/ a.status >= 500)

Retryable(s, a) ==
  CASE s \in {"identity", "filesystem", "resources"} -> classifyHostingAccountAgentFailure(a)
    [] s = "documentRoot" -> classifyDomainFilesystemFailure(a)
    [] s = "pools" -> classifyDomainPHPFailure(a)
    [] s = "activation" -> classifyNGINXAgentFailure(a)
    [] s \in {"acme", "tls"} -> classifyTLSAgentFailure(a)
    [] s = "database" -> classifyDatabaseAgentFailure(a)
    [] s = "jobs" -> classifyScheduledJobAgentFailure(a)
    [] s = "image" -> classifyOCIImageAgentFailure(a)
    [] s = "ociResources" -> classifyOCIResourceAgentFailure(a)
    [] s = "deployment" -> classifyOCIDeploymentAgentFailure(a)
    [] s = "cache" -> TRUE
    [] OTHER -> FALSE

\* How long the client waits: the overall deadline of the operation, and before
\* it the header timeout of the transport the call is made on.
CallTimeout(s) ==
  CASE s = "panel" -> PanelTimeout
    [] s = "image" -> ImageTimeout
    [] s = "ociResources" -> ResourceTimeout
    [] s = "deployment" -> DeploymentTimeout
    [] OTHER -> RequestTimeout
Earlier(t, u) == IF t < u THEN t ELSE u
Patience(s) == IF s = "panel" THEN CallTimeout(s) ELSE Earlier(HeaderTimeout, CallTimeout(s))

-------------------------------------------------------------------------------
VARIABLES
  clock,      \* time, in units of the ordinary header timeout
  service,    \* the service each caller addresses
  caller,     \* where each caller stands
  waiting,    \* requests at the agent that wait for the cache's mutex
  locked,     \* the mutex
  running,    \* the requests that are being dispatched
  cache,      \* responseCache.entries: key -> kept outcome
  settled,    \* history: until when the last outcome of a key must be replayed
  capable,    \* the host has the capability the services need
  restarts, changes

vars == <<clock, service, caller, waiting, locked, running, cache, settled, capable, restarts,
          changes>>
agent == <<waiting, locked, running, cache, settled>>

Phases == {"idle", "sent", "retry", "done", "failed"}
Reply(a, by, for, input) == [answer |-> a, by |-> by, for |-> for, input |-> input]
NoReply == Reply(A(0, "none"), <<>>, <<>>, <<>>)

\* A request carries the digest of the operation and its input.
Digest(c) == <<service[c], InputOf[c]>>
Id(c) == <<c, caller[c].attempts>>
KeyFor(r) == KeyOf[r.caller]

Init ==
  /\ clock = 0
  /\ service \in [Callers -> Services]
  /\ caller = [c \in Callers |-> [phase |-> "idle", attempts |-> 0, since |-> 0, reply |-> NoReply]]
  /\ waiting = {} /\ locked = FALSE /\ running = {} /\ cache = << >>
  /\ settled = [k \in Keys |-> 0]
  /\ capable \in HostStates
  /\ restarts = 0 /\ changes = 0

-------------------------------------------------------------------------------
(* The client and the operation behind it.                                  *)

\* An attempt of the operation: one POST under the caller's key, a new request ID.
Send(c) ==
  /\ caller[c].phase \in {"idle", "retry"} /\ caller[c].attempts < MaxAttempts[c]
  /\ caller' = [caller EXCEPT ![c].phase = "sent", ![c].attempts = @ + 1, ![c].since = clock]
  /\ waiting' = waiting \union {[caller |-> c, attempt |-> caller[c].attempts + 1, at |-> clock]}
  /\ UNCHANGED <<clock, service, locked, running, cache, settled, capable, restarts, changes>>

\* The client checks the correlation of a response; the handler classifies the
\* failure and the runner schedules another attempt while there is one.
Received(c, reply) ==
  LET r == IF reply.for \in {<<>>, Id(c)} THEN reply ELSE Reply(A(0, "mismatch"), <<>>, <<>>, <<>>)
  IN  [caller[c] EXCEPT
         !.reply = r, !.since = 0,
         !.phase = IF r.answer = Ok THEN "done"
                   ELSE IF Retryable(service[c], r.answer) /\ caller[c].attempts < MaxAttempts[c]
                   THEN "retry" ELSE "failed"]

\* The answer to a request reaches the caller unless the caller has given up.
Deliver(r, reply) ==
  LET c == r.caller
  IN  caller' = IF caller[c].phase = "sent" /\ Id(c) = <<c, r.attempt>>
                THEN [caller EXCEPT ![c] = Received(c, reply)] ELSE caller

GiveUp(c) ==
  /\ caller[c].phase = "sent" /\ clock - caller[c].since >= Patience(service[c])
  /\ caller' = [caller EXCEPT ![c] = Received(c, Reply(Timeout, <<>>, <<>>, <<>>))]
  /\ UNCHANGED <<clock, service, agent, capable, restarts, changes>>

-------------------------------------------------------------------------------
(* responseCache.execute: prune, look up, dispatch under the mutex, keep.   *)

prune(now) == [k \in {k \in DOMAIN cache : cache[k].expiresAt > now} |-> cache[k]]

\* A mutant: the mutex is not held while a request is dispatched.
Free_Always == TRUE
Free == ~locked

\* The key is bound to another request.
Conflict(r) ==
  /\ Free
  /\ cache' = prune(r.at)
  /\ KeyFor(r) \in DOMAIN cache' /\ cache'[KeyFor(r)].digest # Digest(r.caller)
  /\ waiting' = waiting \ {r}
  /\ Deliver(r, Reply(Conflict409, <<>>, <<r.caller, r.attempt>>, <<>>))
  /\ UNCHANGED <<clock, service, locked, running, settled, capable, restarts, changes>>

\* Mutants: any entry of the key is replayed; the request ID of the first
\* request is kept in the replayed response.
Replay_AnyDigest(r) ==
  /\ Free
  /\ cache' = prune(r.at)
  /\ KeyFor(r) \in DOMAIN cache'
  /\ LET e == cache'[KeyFor(r)]
     IN  Deliver(r, Reply(e.answer, e.by, <<r.caller, r.attempt>>, e.digest))
  /\ waiting' = waiting \ {r}
  /\ UNCHANGED <<clock, service, locked, running, settled, capable, restarts, changes>>
Replay_OldRequestID(r) ==
  /\ Free
  /\ cache' = prune(r.at)
  /\ KeyFor(r) \in DOMAIN cache' /\ cache'[KeyFor(r)].digest = Digest(r.caller)
  /\ LET e == cache'[KeyFor(r)] IN Deliver(r, Reply(e.answer, e.by, e.by, e.digest))
  /\ waiting' = waiting \ {r}
  /\ UNCHANGED <<clock, service, locked, running, settled, capable, restarts, changes>>

\* The outcome that was kept is returned under the new request ID.
Replay(r) ==
  /\ Free
  /\ cache' = prune(r.at)
  /\ KeyFor(r) \in DOMAIN cache' /\ cache'[KeyFor(r)].digest = Digest(r.caller)
  /\ LET e == cache'[KeyFor(r)]
     IN  Deliver(r, Reply(e.answer, e.by, <<r.caller, r.attempt>>, e.digest))
  /\ waiting' = waiting \ {r}
  /\ UNCHANGED <<clock, service, locked, running, settled, capable, restarts, changes>>

Dispatch(r) ==
  /\ Free
  /\ cache' = prune(r.at)
  /\ KeyFor(r) \notin DOMAIN cache'
  /\ waiting' = waiting \ {r} /\ running' = running \union {r} /\ locked' = TRUE
  /\ UNCHANGED <<clock, service, caller, settled, capable, restarts, changes>>

\* Mutant: the entry that expires last makes room.
Evicted_Newest ==
  IF Cardinality(DOMAIN cache) < Limit THEN {{}}
  ELSE {{k} : k \in {k \in DOMAIN cache : \A j \in DOMAIN cache : cache[j].expiresAt <= cache[k].expiresAt}}

\* evictOldest: one of the entries that expire first.
Oldest == {k \in DOMAIN cache : \A j \in DOMAIN cache : cache[k].expiresAt <= cache[j].expiresAt}

Evicted == IF Cardinality(DOMAIN cache) >= Limit THEN {{k} : k \in Oldest} ELSE {{}}

\* What may be forgotten before its time: in a full cache, an outcome that no other
\* one is older than.
Forgettable(k) ==
  /\ Cardinality(DOMAIN cache) >= Limit /\ k \in DOMAIN cache
  /\ \A j \in DOMAIN cache : cache[k].expiresAt <= cache[j].expiresAt

Keep(r, a, gone) ==
  /\ cache' = [k \in (DOMAIN cache \ gone) \union {KeyFor(r)} |->
                 IF k = KeyFor(r)
                 THEN [digest |-> Digest(r.caller), answer |-> a, by |-> <<r.caller, r.attempt>>,
                       expiresAt |-> r.at + TTL]
                 ELSE cache[k]]
  /\ settled' = [k \in Keys |-> IF k = KeyFor(r) THEN r.at + TTL
                                ELSE IF k \in gone /\ Forgettable(k) THEN 0 ELSE settled[k]]

\* A mutant: a failed dispatch returns without giving the mutex back.
Finish_LockKept(r, a) ==
  /\ IF a.status >= 500 THEN UNCHANGED <<cache, settled, locked>>
     ELSE /\ \E gone \in Evicted : Keep(r, a, gone)
          /\ locked' = FALSE
  /\ running' = running \ {r}
  /\ Deliver(r, Reply(a, <<r.caller, r.attempt>>, <<r.caller, r.attempt>>, Digest(r.caller)))
  /\ UNCHANGED <<clock, service, waiting, capable, restarts, changes>>

Finish(r, a) ==
  /\ IF a.status >= 500 THEN UNCHANGED <<cache, settled>>
     ELSE \E gone \in Evicted : Keep(r, a, gone)
  /\ running' = running \ {r} /\ locked' = FALSE
  /\ Deliver(r, Reply(a, <<r.caller, r.attempt>>, <<r.caller, r.attempt>>, Digest(r.caller)))
  /\ UNCHANGED <<clock, service, waiting, capable, restarts, changes>>

\* The agent process is replaced: the cache and every request in it are lost.
Restart ==
  /\ restarts + changes < MaxEvents /\ restarts' = restarts + 1
  /\ waiting' = {} /\ locked' = FALSE /\ running' = {} /\ cache' = << >>
  /\ settled' = [k \in Keys |-> 0]
  /\ caller' = [c \in Callers |-> IF caller[c].phase = "sent"
                                  THEN Received(c, Reply(Unreachable, <<>>, <<>>, <<>>))
                                  ELSE caller[c]]
  /\ UNCHANGED <<clock, service, capable, changes>>

\* The host gains or loses the capability (a package is installed, a service stops).
HostChanges ==
  /\ restarts + changes < MaxEvents /\ changes' = changes + 1
  /\ capable' = ~capable
  /\ UNCHANGED <<clock, service, caller, agent, restarts>>

\* Time passes, but no further than the timers of the waiting clients.
Tick ==
  /\ clock < MaxTime /\ clock' = clock + 1
  /\ \A c \in Callers :
       caller[c].phase = "sent" => clock - caller[c].since < Patience(service[c])
  /\ UNCHANGED <<service, caller, agent, capable, restarts, changes>>

Serve == \E r \in waiting : Conflict(r) \/ Replay(r) \/ Dispatch(r)
Complete == \E r \in running : \E a \in Answers(service[r.caller], capable) : Finish(r, a)

Next ==
  \/ \E c \in Callers : Send(c) \/ GiveUp(c)
  \/ Serve \/ Complete
  \/ Restart \/ HostChanges \/ Tick

Spec == Init /\ [][Next]_vars

\* The goroutine that holds the mutex returns, and a waiting one gets it in the
\* end (a Go mutex hands over to a waiter it has starved).
LiveSpec == Spec /\ WF_vars(Complete) /\ WF_vars(Serve)

-------------------------------------------------------------------------------
\* A caller only accepts an outcome of its own request: the one that was
\* dispatched for the answer had the same operation and input, whichever
\* caller, attempt or agent process dispatched it.
AnswerIsOwn ==
  \A c \in Callers : caller[c].reply.by # <<>> => caller[c].reply.input = Digest(c)

\* A replayed response passes the client's correlation check.
ReplayAccepted == \A c \in Callers : caller[c].reply.answer.code # "mismatch"

\* A request is not dispatched while another one with its key is, nor while an
\* outcome of that key is to be replayed; only the loss of the process, or a full
\* cache in which no outcome is older, ends that time early.
DispatchedOnce ==
  [][\A r \in running' \ running :
       /\ \A q \in running : KeyFor(q) # KeyFor(r)
       /\ settled[KeyFor(r)] <= clock]_vars

\* Every call ends, whatever the calls before it came to: the agent answers it
\* or its client stops waiting.
CallsEnd == \A c \in Callers : caller[c].phase = "sent" ~> caller[c].phase # "sent"

\* A retry reaches the host: when an attempt after the first meets a failure
\* that its handler retries, the agent has carried this attempt out.
RetryReachesHost ==
  \A c \in Callers :
    LET reply == caller[c].reply
    IN  (/\ caller[c].attempts > 1 /\ reply.by # <<>> /\ caller[c].phase \in {"retry", "failed"}
         /\ Retryable(service[c], reply.answer))
        => reply.by = Id(c)

\* A client waits for an operation as long as the deadline of that operation.
DeadlineRespected ==
  [][\A c \in Callers : caller[c].reply # caller'[c].reply /\ caller'[c].reply.answer = Timeout
       => clock - caller[c].since >= CallTimeout(service[c])]_vars

\* An operation is not given up because one call to the agent took too long.
TimeoutRetried ==
  \A c \in Callers : caller[c].phase = "failed" /\ caller[c].reply.answer = Timeout
    => caller[c].attempts = MaxAttempts[c]
================================================================================

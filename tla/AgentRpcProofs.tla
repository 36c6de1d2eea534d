--------------------------- MODULE AgentRpcProofs ---------------------------
(***************************************************************************)
(* The idempotency cache keeps its promise, and a client accepts only what  *)
(* was done for it, for every set of callers, keys and inputs, every size   *)
(* of the cache and every timeout.                                          *)
(***************************************************************************)
EXTENDS AgentRpc, TLAPS

-----------------------------------------------------------------------------
(* One dispatch at a time, and none that the cache has an outcome for.      *)

\* A request at the agent came from a caller, and not later than now.
Known(r) == r.caller \in Callers /\ r.at \in Nat /\ r.at <= clock

\* The mutex is held while a request is dispatched, so at most one is; an outcome
\* that has to be replayed is in the cache until then.
CacheInv ==
  /\ clock \in Nat
  /\ \A r \in waiting \union running : Known(r)
  /\ running # {} => locked
  /\ \A p, q \in running : p = q
  /\ settled \in [Keys -> Nat]
  /\ \A k \in Keys : settled[k] > clock => k \in DOMAIN cache /\ cache[k].expiresAt = settled[k]

LEMMA CacheInvInit == Init => CacheInv
  BY DEF Init, CacheInv

\* What has to be replayed survives the pruning of a request that came by now.
LEMMA PruneKeeps ==
  ASSUME CacheInv, NEW r \in waiting, cache' = prune(r.at), UNCHANGED <<clock, settled>>
  PROVE  \A k \in Keys : settled'[k] > clock' => k \in DOMAIN cache' /\ cache'[k].expiresAt = settled'[k]
<1> SUFFICES ASSUME NEW k \in Keys, settled[k] > clock
             PROVE  k \in DOMAIN prune(r.at) /\ prune(r.at)[k].expiresAt = settled[k]
  OBVIOUS
<1>1. k \in DOMAIN cache /\ cache[k].expiresAt = settled[k] /\ settled[k] \in Nat
  BY DEF CacheInv
<1>2. cache[k].expiresAt > r.at
  BY <1>1 DEF CacheInv, Known
<1> QED
  BY <1>1, <1>2 DEF prune

\* An outcome that is kept is the one that has to be replayed, and what is evicted
\* for it, being the oldest in a full cache, has to be replayed no more.
LEMMA KeepKeeps ==
  ASSUME CacheInv, NEW r \in running, NEW a, NEW gone \in Evicted, Keep(r, a, gone), clock' = clock
  PROVE  /\ settled' \in [Keys -> Nat]
         /\ \A k \in Keys : settled'[k] > clock' => k \in DOMAIN cache' /\ cache'[k].expiresAt = settled'[k]
<1>1. r.caller \in Callers /\ r.at + TTL \in Nat /\ KeyFor(r) \in Keys
  BY RpcAssumption DEF CacheInv, Known, KeyFor
<1>2. settled \in [Keys -> Nat] /\ clock \in Nat
  BY DEF CacheInv
<1>a. \A k \in gone : Forgettable(k)
  BY DEF Evicted, Oldest, Forgettable
<1>3. settled' = [k \in Keys |-> IF k = KeyFor(r) THEN r.at + TTL
                                 ELSE IF k \in gone THEN 0 ELSE settled[k]]
  BY <1>a DEF Keep
<1>4. settled' \in [Keys -> Nat]
  BY <1>1, <1>2, <1>3
<1>5. ASSUME NEW k \in Keys, settled'[k] > clock'
      PROVE  k \in DOMAIN cache' /\ cache'[k].expiresAt = settled'[k]
  <2>1. CASE k = KeyFor(r)
    BY <1>3, <2>1 DEF Keep
  <2>2. CASE k # KeyFor(r)
    <3>1. k \notin gone /\ settled'[k] = settled[k]
      BY <1>2, <1>3, <1>5, <2>2
    <3>2. k \in DOMAIN cache /\ cache[k].expiresAt = settled[k]
      BY <1>5, <3>1 DEF CacheInv
    <3> QED
      BY <2>2, <3>1, <3>2 DEF Keep
  <2> QED
    BY <2>1, <2>2
<1> QED
  BY <1>4, <1>5

\* Every step keeps the invariant.
LEMMA CacheInvStep == CacheInv /\ [Next]_vars => CacheInv'
<1> SUFFICES ASSUME CacheInv, [Next]_vars PROVE CacheInv'
  OBVIOUS
<1>1. ASSUME NEW c \in Callers, Send(c)
      PROVE  CacheInv'
  BY <1>1 DEF CacheInv, Known, Send
<1>2. ASSUME NEW c \in Callers, GiveUp(c)
      PROVE  CacheInv'
  BY <1>2 DEF CacheInv, Known, GiveUp, agent
<1>3. ASSUME NEW r \in waiting, Conflict(r) \/ Replay(r)
      PROVE  CacheInv'
  <2>1. /\ cache' = prune(r.at) /\ waiting' = waiting \ {r}
        /\ UNCHANGED <<clock, running, locked, settled>>
    BY <1>3 DEF Conflict, Replay
  <2>2. \A k \in Keys : settled'[k] > clock' => k \in DOMAIN cache' /\ cache'[k].expiresAt = settled'[k]
    BY <2>1, PruneKeeps
  <2> QED
    BY <2>1, <2>2 DEF CacheInv, Known
<1>4. ASSUME NEW r \in waiting, Dispatch(r)
      PROVE  CacheInv'
  <2>1. /\ cache' = prune(r.at) /\ waiting' = waiting \ {r} /\ running' = running \union {r}
        /\ locked' /\ ~locked /\ UNCHANGED <<clock, settled>>
    BY <1>4, Zenon DEF Dispatch, Free
  <2>2. \A k \in Keys : settled'[k] > clock' => k \in DOMAIN cache' /\ cache'[k].expiresAt = settled'[k]
    BY <2>1, PruneKeeps
  <2>3. running = {}
    BY <2>1 DEF CacheInv
  <2> QED
    BY <2>1, <2>2, <2>3 DEF CacheInv, Known
<1>5. ASSUME NEW r \in running, NEW a, Finish(r, a)
      PROVE  CacheInv'
  <2>1. running' = running \ {r} /\ UNCHANGED <<clock, waiting>>
    BY <1>5 DEF Finish
  <2>2. running' = {}
    BY <2>1 DEF CacheInv
  <2>3. /\ settled' \in [Keys -> Nat]
        /\ \A k \in Keys : settled'[k] > clock' => k \in DOMAIN cache' /\ cache'[k].expiresAt = settled'[k]
    <3>1. CASE UNCHANGED <<cache, settled>>
      BY <2>1, <3>1 DEF CacheInv
    <3>2. CASE \E gone \in Evicted : Keep(r, a, gone)
      BY <2>1, <3>2, KeepKeeps
    <3> QED
      BY <1>5, <3>1, <3>2 DEF Finish
  <2> QED
    BY <2>1, <2>2, <2>3 DEF CacheInv, Known
<1>6. CASE Restart
  BY <1>6 DEF CacheInv, Known, Restart
<1>7. CASE HostChanges
  BY <1>7 DEF CacheInv, Known, HostChanges, agent
<1>8. CASE Tick
  BY <1>8 DEF CacheInv, Known, Tick, agent
<1>9. CASE UNCHANGED vars
  BY <1>9 DEF CacheInv, Known, vars
<1> QED
  BY <1>1, <1>2, <1>3, <1>4, <1>5, <1>6, <1>7, <1>8, <1>9 DEF Next, Serve, Complete

\* A step begins a dispatch only in Dispatch, where the mutex was free and the key
\* was not in the pruned cache.
LEMMA DispatchStep ==
  ASSUME CacheInv, [Next]_vars, NEW r \in running' \ running
  PROVE  (\A q \in running : KeyFor(q) # KeyFor(r)) /\ settled[KeyFor(r)] <= clock
<1>1. r \in waiting /\ Dispatch(r)
  <2>1. (\E c \in Callers : Send(c) \/ GiveUp(c)) => running' = running
    BY DEF Send, GiveUp, agent
  <2>2. ASSUME NEW q \in waiting, Conflict(q) \/ Replay(q) PROVE running' = running
    BY <2>2 DEF Conflict, Replay
  <2>3. ASSUME NEW q \in waiting, Dispatch(q) PROVE running' = running \union {q}
    BY <2>3 DEF Dispatch
  <2>4. Complete => running' \subseteq running
    BY DEF Complete, Finish
  <2>5. Restart \/ HostChanges \/ Tick \/ UNCHANGED vars => running' \subseteq running
    BY DEF Restart, HostChanges, Tick, agent, vars
  <2> QED
    BY <2>1, <2>2, <2>3, <2>4, <2>5 DEF Next, Serve
<1>2. ~locked /\ cache' = prune(r.at) /\ KeyFor(r) \notin DOMAIN cache' /\ UNCHANGED <<clock, settled>>
  BY <1>1, Zenon DEF Dispatch, Free
<1>3. running = {}
  BY <1>2 DEF CacheInv
<1>4. KeyFor(r) \in Keys
  BY <1>1, RpcAssumption DEF CacheInv, Known, KeyFor
<1>5. ~(settled[KeyFor(r)] > clock)
  BY <1>1, <1>2, <1>4, PruneKeeps
<1> QED
  BY <1>3, <1>4, <1>5 DEF CacheInv

\* No request is dispatched while another one of its key is, nor while an outcome of
\* that key has to be replayed: responseCache.execute holds its mutex over the
\* dispatch and looks the key up under it.
THEOREM DispatchesOnce == Spec => DispatchedOnce
<1> DEFINE Once == \A r \in running' \ running :
                     /\ \A q \in running : KeyFor(q) # KeyFor(r)
                     /\ settled[KeyFor(r)] <= clock
<1>1. CacheInv /\ [Next]_vars => [Once]_vars
  BY DispatchStep
<1> QED
  BY <1>1, CacheInvInit, CacheInvStep, PTL DEF Spec, DispatchedOnce

-----------------------------------------------------------------------------
(* What a client accepts.                                                   *)

\* A caller's record has its four fields.
Shaped(x) == x = [f \in {"phase", "attempts", "since", "reply"} |-> x[f]]

\* A reply that the caller may see: correlated, and of the caller's own request.
Own(c, reply) == reply.answer.code # "mismatch" /\ (reply.by # <<>> => reply.input = Digest(c))

ReplyInv ==
  /\ service \in [Callers -> Services]
  /\ caller = [c \in Callers |-> caller[c]]
  /\ \A c \in Callers : Shaped(caller[c]) /\ Own(c, caller[c].reply)
  /\ \A k \in DOMAIN cache : cache[k].answer.code # "mismatch"

\* No service answers with the code the client gives to a foreign response.
LEMMA AnswersCorrelate ==
  ASSUME NEW s \in Services, NEW able, NEW a \in Answers(s, able)
  PROVE  a.code # "mismatch"
<1>1. a \in {Ok} \union Failures(s)
  BY DEF Answers
<1>2. \A b \in identityError \union filesystemError \union resourceError \union nginxError : b.code # "mismatch"
  BY DEF identityError, filesystemError, resourceError, nginxError, A
<1>3. \A b \in nginxActivationError \union acmeHTTP01Error \union tlsCertificateError \union phpPoolError :
        b.code # "mismatch"
  BY DEF nginxActivationError, acmeHTTP01Error, tlsCertificateError, phpPoolError, A
<1>4. \A b \in phpPoolInspectionError \union databaseError \union scheduledJobError : b.code # "mismatch"
  BY DEF phpPoolInspectionError, databaseError, scheduledJobError, A
<1>5. \A b \in ociImageError \union ociResourceError \union ociDeploymentError : b.code # "mismatch"
  BY DEF ociImageError, ociResourceError, ociDeploymentError, A
<1>6. \A b \in platformUpdateError \union fileListingError \union hostingLogError \union cacheError \union panelError :
        b.code # "mismatch"
  BY DEF platformUpdateError, fileListingError, hostingLogError, cacheError, panelError, A
<1>7. \A b \in {A(426, "incompatible_protocol"), A(500, "internal_error"), Ok} : b.code # "mismatch"
  BY DEF A, Ok
<1> DEFINE D == DOMAIN AccountServices
           E == DOMAIN SiteServices
           F == DOMAIN ApplicationServices
<1>0. D \intersect E = {} /\ D \intersect F = {} /\ E \intersect F = {}
  BY DEF AccountServices, SiteServices, ApplicationServices
<1>8. CASE s \in D
  <2>1. Failures(s) = AccountServices[s]
    BY <1>0, <1>8 DEF Failures
  <2> QED
    BY <1>1, <1>2, <1>6, <1>7, <1>8, <2>1 DEF AccountServices
<1>9. CASE s \in E
  <2>1. Failures(s) = SiteServices[s]
    BY <1>0, <1>9 DEF Failures
  <2> QED
    BY <1>1, <1>2, <1>3, <1>4, <1>7, <1>9, <2>1 DEF SiteServices
<1>10. CASE s \in F
  <2>1. Failures(s) = ApplicationServices[s]
    BY <1>0, <1>10 DEF Failures
  <2> QED
    BY <1>1, <1>4, <1>5, <1>6, <1>7, <1>10, <2>1 DEF ApplicationServices
<1> QED
  BY <1>8, <1>9, <1>10, ServiceAssumption DEF ServiceNames

\* The client takes a reply as it is when it is correlated, and its record keeps its form.
LEMMA ReceivedReply ==
  ASSUME NEW c \in Callers, Shaped(caller[c]), NEW reply, reply.for \in {<<>>, Id(c)}
  PROVE  Shaped(Received(c, reply)) /\ Received(c, reply).reply = reply
<1> DEFINE r == IF reply.for \in {<<>>, Id(c)} THEN reply ELSE Reply(A(0, "mismatch"), <<>>, <<>>, <<>>)
           phase == IF r.answer = Ok THEN "done"
                    ELSE IF Retryable(service[c], r.answer) /\ caller[c].attempts < MaxAttempts[c]
                    THEN "retry" ELSE "failed"
<1>1. r = reply
  OBVIOUS
<1>2. Received(c, reply) = [caller[c] EXCEPT !.reply = r, !.since = 0, !.phase = phase]
  BY DEF Received
<1> HIDE DEF r, phase
<1> QED
  BY ZenonT(60), <1>1, <1>2 DEF Shaped

\* Answering a request leaves every caller with a reply that is its own.
LEMMA DeliverOwn ==
  ASSUME ReplyInv, NEW r, r.caller \in Callers, NEW reply, Deliver(r, reply), service' = service,
         reply.for = <<r.caller, r.attempt>>, Own(r.caller, reply)
  PROVE  /\ caller' = [c \in Callers |-> caller'[c]]
         /\ \A c \in Callers : (Shaped(caller[c]) /\ Own(c, caller[c].reply))'
<1>1. CASE ~(caller[r.caller].phase = "sent" /\ Id(r.caller) = <<r.caller, r.attempt>>)
  <2>1. caller' = caller
    BY <1>1 DEF Deliver
  <2> QED
    BY <2>1 DEF ReplyInv, Own, Digest
<1>2. CASE Id(r.caller) = <<r.caller, r.attempt>> /\ caller' = [caller EXCEPT ![r.caller] = Received(r.caller, reply)]
  <2>1. Shaped(Received(r.caller, reply)) /\ Received(r.caller, reply).reply = reply
    BY <1>2, ReceivedReply DEF ReplyInv
  <2>2. caller' = [c \in Callers |-> IF c = r.caller THEN Received(r.caller, reply) ELSE caller[c]]
    BY <1>2 DEF ReplyInv
  <2> QED
    BY <2>1, <2>2 DEF ReplyInv, Own, Digest
<1> QED
  BY <1>1, <1>2 DEF Deliver

\* The record of a caller that sends keeps its form and its reply.
LEMMA SentShape ==
  ASSUME NEW y, Shaped(y), NEW n, NEW t
  PROVE  LET x == [y EXCEPT !.phase = "sent", !.attempts = n, !.since = t]
         IN  Shaped(x) /\ x.reply = y.reply
  BY ZenonT(60) DEF Shaped

LEMMA ReplyInvInit == Init => ReplyInv
  BY DEF Init, ReplyInv, Shaped, Own, NoReply, Reply, A

\* Every step keeps the invariant.
LEMMA ReplyInvStep == CacheInv /\ ReplyInv /\ [Next]_vars => ReplyInv'
<1> SUFFICES ASSUME CacheInv, ReplyInv, [Next]_vars PROVE ReplyInv'
  OBVIOUS
<1> USE DEF ReplyInv
<1>1. ASSUME NEW c \in Callers, Send(c)
      PROVE  ReplyInv'
  <2> DEFINE n == caller[c].attempts + 1
             x == [caller[c] EXCEPT !.phase = "sent", !.attempts = n, !.since = clock]
  <2>1. caller' = [d \in Callers |-> IF d = c THEN x ELSE caller[d]] /\ service' = service /\ cache' = cache
    BY <1>1 DEF Send
  <2> HIDE DEF n
  <2>2. Shaped(x) /\ x.reply = caller[c].reply
    BY ZenonT(60), SentShape
  <2> HIDE DEF x
  <2> QED
    BY <2>1, <2>2 DEF Own, Digest
<1>2. ASSUME NEW c \in Callers, GiveUp(c)
      PROVE  ReplyInv'
  <2> DEFINE reply == Reply(Timeout, <<>>, <<>>, <<>>)
  <2>1. caller' = [d \in Callers |-> IF d = c THEN Received(c, reply) ELSE caller[d]]
        /\ service' = service /\ cache' = cache
    BY <1>2 DEF GiveUp, agent
  <2>2. reply.for = <<>> /\ reply.by = <<>> /\ reply.answer.code # "mismatch"
    BY DEF Reply, Timeout, A
  <2> HIDE DEF reply
  <2>3. Shaped(Received(c, reply)) /\ Received(c, reply).reply = reply
    BY <2>2, ReceivedReply
  <2> QED
    BY <2>1, <2>2, <2>3 DEF Own, Digest
<1>3. ASSUME NEW r \in waiting, Conflict(r)
      PROVE  ReplyInv'
  <2> DEFINE reply == Reply(Conflict409, <<>>, <<r.caller, r.attempt>>, <<>>)
  <2>1. cache' = prune(r.at) /\ Deliver(r, reply) /\ service' = service
    BY <1>3 DEF Conflict
  <2>2. reply.for = <<r.caller, r.attempt>> /\ Own(r.caller, reply)
    BY DEF Reply, Conflict409, A, Own
  <2> HIDE DEF reply
  <2>3. r.caller \in Callers
    BY DEF CacheInv, Known
  <2> QED
    BY <2>1, <2>2, <2>3, DeliverOwn DEF prune
<1>4. ASSUME NEW r \in waiting, Replay(r)
      PROVE  ReplyInv'
  <2> DEFINE e == cache'[KeyFor(r)]
             reply == Reply(e.answer, e.by, <<r.caller, r.attempt>>, e.digest)
  <2>1. /\ cache' = prune(r.at) /\ KeyFor(r) \in DOMAIN cache' /\ e.digest = Digest(r.caller)
        /\ Deliver(r, reply) /\ service' = service
    BY <1>4 DEF Replay
  <2>2. \A k \in DOMAIN cache' : cache'[k].answer.code # "mismatch"
    BY <2>1 DEF prune
  <2>3. reply.for = <<r.caller, r.attempt>> /\ Own(r.caller, reply)
    BY <2>1, <2>2 DEF Reply, Own
  <2> HIDE DEF reply
  <2>4. r.caller \in Callers
    BY DEF CacheInv, Known
  <2> QED
    BY <2>1, <2>2, <2>3, <2>4, DeliverOwn
<1>5. ASSUME NEW r \in waiting, Dispatch(r)
      PROVE  ReplyInv'
  BY <1>5 DEF Dispatch, prune, Own, Digest
<1>6. ASSUME NEW r \in running, NEW a \in Answers(service[r.caller], capable), Finish(r, a)
      PROVE  ReplyInv'
  <2> DEFINE reply == Reply(a, <<r.caller, r.attempt>>, <<r.caller, r.attempt>>, Digest(r.caller))
  <2>1. Deliver(r, reply) /\ service' = service
    BY <1>6 DEF Finish
  <2>2. r.caller \in Callers /\ service[r.caller] \in Services
    BY DEF CacheInv, Known
  <2>3. a.code # "mismatch"
    BY <2>2, AnswersCorrelate
  <2>4. reply.for = <<r.caller, r.attempt>> /\ Own(r.caller, reply)
    BY <2>3 DEF Reply, Own
  <2>5. \A k \in DOMAIN cache' : cache'[k].answer.code # "mismatch"
    <3>1. CASE UNCHANGED <<cache, settled>>
      BY <3>1
    <3>2. ASSUME NEW gone, Keep(r, a, gone)
          PROVE  \A k \in DOMAIN cache' : cache'[k].answer.code # "mismatch"
      BY <2>3, <3>2 DEF Keep
    <3> QED
      BY <1>6, <3>1, <3>2 DEF Finish
  <2> HIDE DEF reply
  <2> QED
    BY <2>1, <2>2, <2>4, <2>5, DeliverOwn
<1>7. CASE Restart
  <2> DEFINE reply == Reply(Unreachable, <<>>, <<>>, <<>>)
  <2>1. /\ caller' = [c \in Callers |-> IF caller[c].phase = "sent" THEN Received(c, reply) ELSE caller[c]]
        /\ service' = service /\ cache' = << >>
    BY <1>7 DEF Restart
  <2>2. reply.for = <<>> /\ reply.by = <<>> /\ reply.answer.code # "mismatch"
    BY DEF Reply, Unreachable, A
  <2> HIDE DEF reply
  <2>3. \A c \in Callers : Shaped(Received(c, reply)) /\ Received(c, reply).reply = reply
    BY <2>2, ReceivedReply
  <2> QED
    BY <2>1, <2>2, <2>3 DEF Own, Digest
<1>8. CASE HostChanges \/ Tick \/ UNCHANGED vars
  BY <1>8 DEF HostChanges, Tick, agent, vars, Own, Digest
<1> QED
  BY <1>1, <1>2, <1>3, <1>4, <1>5, <1>6, <1>7, <1>8 DEF Next, Serve, Complete

\* A caller accepts only the outcome of a request with its own operation and input,
\* whoever dispatched it: a key that was used for something else is refused.
THEOREM AnswersAreOwn == Spec => []AnswerIsOwn
<1>1. ReplyInv => AnswerIsOwn
  BY DEF ReplyInv, AnswerIsOwn, Own
<1> QED
  BY <1>1, CacheInvInit, CacheInvStep, ReplyInvInit, ReplyInvStep, PTL DEF Spec

\* No response that the agent gives fails the client's correlation check, the replayed
\* ones included.
THEOREM ReplaysAccepted == Spec => []ReplayAccepted
<1>1. ReplyInv => ReplayAccepted
  BY DEF ReplyInv, ReplayAccepted, Own
<1> QED
  BY <1>1, CacheInvInit, CacheInvStep, ReplyInvInit, ReplyInvStep, PTL DEF Spec
=============================================================================

------------------------------ MODULE PhpPools ------------------------------
(***************************************************************************)
(* The PHP-FPM pools of one hosting account (internal/hostphp), as the      *)
(* domain operation uses them: the pools of the new document are set up     *)
(* before NGINX changes over, those no longer named are retired after it.   *)
(* As in HostAccounts a call is a course of states.  It has several: each   *)
(* command may fail, and then the call undoes what it did, with commands    *)
(* that fail as well when it was the deadline that ended it.                *)
(* The rest of the domain operation is in Sites, NGINX in NginxActivation.  *)
(***************************************************************************)
EXTENDS HostAccounts

CONSTANTS
  Settings,         \* 1..N: what a pool's two files can say
  MaxDocuments,     \* bound on desired-state documents
  MaxTries,         \* MaxAttempts (3) of a domain operation
  MaxKills          \* bound on kills of the agent or the API

VARIABLES
  pool,             \* per version: files, systemd's view, the running service
  nginx,            \* the versions whose sockets the live configuration names
  documents,        \* the desired-state revisions, the last is the latest
  work,             \* the domain operation of each revision
  remembered,       \* pool calls whose success the agent still remembers
  kills

poolVars == <<pool, nginx, documents, work, remembered, kills>>

ASSUME PoolsAssumption ==
  /\ Settings = 1..Cardinality(Settings) /\ Settings # {}
  /\ MaxDocuments \in Nat /\ MaxTries \in Nat \ {0} /\ MaxKills \in Nat

\* The version the distribution ships now, and one of an earlier release of it.
Versions == {"native", "earlier"}

\* conf and unit are the files, loaded the unit systemd has read, serves the
\* settings that the running service was started with (0: none).
NoPool == [conf |-> 0, unit |-> 0, loaded |-> 0, enabled |-> "no", serves |-> 0]
Serving(s) == [conf |-> s, unit |-> s, loaded |-> s, enabled |-> "yes", serves |-> s]

NoWork == [state |-> "none", stage |-> "none", tries |-> 0]

\* A document names the native version with some settings, or no version at all.
Documents == {[php |-> "none", settings |-> 0]} \union [php : {"native"}, settings : Settings]
Named(d) == {d.php} \ {"none"}

\* The account's sites ran on the earlier version before the host was upgraded.
InitPools ==
  /\ pool = [v \in Versions |-> IF v = "earlier" THEN Serving(1) ELSE NoPool]
  /\ nginx = {"earlier"} /\ documents = << >>
  /\ work = [r \in 1..MaxDocuments |-> NoWork] /\ remembered = {} /\ kills = 0

-----------------------------------------------------------------------------
(* Files and commands.                                                     *)

reconcileManagedFiles(q, s) == <<[q EXCEPT !.conf = s], [q EXCEPT !.conf = s, !.unit = s]>>
Changed(q, s) == q.conf # s \/ q.unit # s
\* The unit is put back, then the configuration; files are those for which it succeeds.
restoreManagedFile(q, before, files) ==
  LET first == [q EXCEPT !.unit = IF "unit" \in files THEN before.unit ELSE @]
  IN <<first, [first EXCEPT !.conf = IF "conf" \in files THEN before.conf ELSE @]>>
Reloaded(q) == [q EXCEPT !.loaded = q.unit]
Enabled(q) == [q EXCEPT !.enabled = "yes"]
Disabled(q) == [q EXCEPT !.enabled = "no", !.serves = 0]
Stopped(q) == [q EXCEPT !.serves = 0]

\* A unit systemd does not know is read when it is started.
Restarted(q) == [q EXCEPT !.loaded = IF @ = 0 THEN q.unit ELSE @, !.serves = q.conf]

active(q) == q.serves # 0 /\ q.loaded # 0

\* active, enabled, in the account's slice; the files exact, the socket there.
VerifyRuntime(q, s) == active(q) /\ q.enabled = "yes" /\ q.conf = s /\ q.unit = s

-----------------------------------------------------------------------------
(* Reconcile: the native pool.                                             *)

\* What undoing leaves of q when the files were those of `before` and the service
\* was found as in `state`.  Nothing that needs a
\* command happens when the deadline is over; what was running is started again
\* only when activation had begun.
Rollback(q, before, state, began, inTime, files) ==
  LET down == IF began /\ inTime THEN Disabled(q) ELSE q
      restored == restoreManagedFile(down, before, files)
      reloaded == IF inTime THEN Reloaded(Last(restored)) ELSE Last(restored)
      again == IF began /\ inTime /\ state.enabled = "yes" THEN Enabled(reloaded) ELSE reloaded
      up == IF began /\ inTime /\ active(state) THEN Restarted(again) ELSE again
  IN <<down>> \o restored \o <<reloaded, again, up>>

\* Enabled when it is not, restarted when something changed or it does not run, as far
\* as the state that was found says.
Activated(q, changed, state) ==
  IF changed \/ state.enabled = "no" \/ ~active(state) THEN Restarted(Enabled(q)) ELSE Enabled(q)

\* The courses of Reconcile for the native pool q and settings s.
PoolCourses(q, s) ==
  LET written == <<q>> \o reconcileManagedFiles(q, s)
      changed == Changed(q, s)
      read == IF changed THEN Reloaded(Last(written)) ELSE Last(written)
      found == {read, Disabled(read)}        \* a state that cannot be read counts as none
      on(state) == Activated(read, changed, state)
      broken(states, began, state) ==
        {Course(states \o Rollback(Last(states), q, state, began, inTime, files), "failed") :
           inTime \in BOOLEAN, files \in SUBSET {"conf", "unit"}}
  IN {Course(written \o <<read, Enabled(read), on(state)>>,
             IF VerifyRuntime(on(state), s) THEN "done" ELSE "failed") : state \in found}
     \union broken(written, FALSE, q)                                       \* php-fpm -t, daemon-reload
     \union UNION {broken(written \o <<read, Enabled(read)>>, TRUE, state) : state \in found}
     \union UNION {broken(written \o <<read, Enabled(read), q2>>, TRUE, state) :   \* restart, verification
                     q2 \in {Stopped(Enabled(read)), on(q), on(Disabled(q))}, state \in found}

-----------------------------------------------------------------------------
(* Reconcile: retiring what is absent.                                     *)

Managed(q) == q.conf # 0 \/ q.unit # 0

\* Stopped and disabled, then configuration, unit and socket.
RemovePool(q) ==
  LET off == Disabled(q)  bare == [off EXCEPT !.conf = 0] IN <<off, bare, [bare EXCEPT !.unit = 0]>>

Retired(p, keep) == {v \in Versions \ keep : Managed(p[v])}

At(p, v, states) == [i \in 1..Len(states) |-> [p EXCEPT ![v] = states[i]]]

\* One after the other, in the order of the versions; then systemd is told.
Retire(p, keep) ==
  LET e == "earlier" \in Retired(p, keep)  n == "native" \in Retired(p, keep)
      first == IF e THEN At(p, "earlier", RemovePool(p["earlier"])) ELSE <<p>>
      both == first \o IF n THEN At(Last(first), "native", RemovePool(p["native"])) ELSE << >>
  IN IF e \/ n THEN Append(both, [v \in Versions |-> Reloaded(Last(both)[v])]) ELSE both

Reconcile(p, d, retireAbsent) ==
  LET set == IF d.php = "none" THEN {Course(<<p>>, "done")}
             ELSE {Course(At(p, "native", c.states), c.answer) : c \in PoolCourses(p["native"], d.settings)}
      gone(c) == Retire(Last(c.states), Named(d))
  IN IF ~retireAbsent THEN set
     ELSE {c \in set : c.answer # "done"}
          \union {Course(c.states \o gone(c), "done") : c \in {c \in set : c.answer = "done"}}
          \union UNION {{Course(c.states \o SubSeq(gone(c), 1, i), "failed") : i \in 0..Len(gone(c))} :
                         c \in {c \in set : c.answer = "done"}}

-----------------------------------------------------------------------------
(* The domain operation.                                                   *)

Latest == Len(documents)

Edit(d) ==
  /\ Latest < MaxDocuments /\ documents' = Append(documents, d)
  /\ work' = [work EXCEPT ![Latest + 1] = [NoWork EXCEPT !.state = "pending"]]
  /\ UNCHANGED <<pool, nginx, remembered, kills>>

Again(r) == [work EXCEPT ![r].state = IF work[r].tries < MaxTries THEN "pending" ELSE "failed"]
Stage(r, s) == [work EXCEPT ![r].stage = s]
Working(r, s) == work[r].state = "running" /\ work[r].stage = s

\* A revision that is no longer the latest is superseded; one without PHP has
\* nothing to prepare.
Start(r) ==
  /\ work[r].state = "pending" /\ \A j \in 1..MaxDocuments : work[j].state # "running"
  /\ work' = [work EXCEPT ![r].tries = @ + 1,
       ![r].state = IF r = Latest THEN "running" ELSE "failed",
       ![r].stage = IF Named(documents[r]) = {} THEN "activate" ELSE "prepare"]
  /\ UNCHANGED <<pool, nginx, documents, remembered, kills>>

\* Mutation: the first of the two calls already retires what is absent.
RetiresAt_Both(s) == TRUE

\* Only the second of the two calls retires what the document does not name.
RetiresAt(s) == s = "converge"
After(s) == IF s = "prepare" THEN "activate" ELSE "confirm"

CallPools(r, s) ==
  /\ Working(r, s)
  /\ \/ /\ <<r, s>> \in remembered /\ work' = Stage(r, After(s)) /\ UNCHANGED <<pool, remembered, kills>>
     \/ /\ <<r, s>> \notin remembered
        /\ \E c \in Reconcile(pool, documents[r], RetiresAt(s)) :
             \/ /\ pool' = Last(c.states) /\ UNCHANGED kills
                /\ IF c.answer = "done" THEN work' = Stage(r, After(s)) /\ remembered' = remembered \union {<<r, s>>}
                   ELSE work' = Again(r) /\ UNCHANGED remembered
             \/ /\ kills < MaxKills /\ kills' = kills + 1 /\ remembered' = {}
                /\ \E i \in 1..Len(c.states) : pool' = c.states[i]
                /\ work' = Again(r)
  /\ UNCHANGED <<nginx, documents>>

\* The whole configuration of the account changes over, or stays as it was.
ActivateNGINX(r) ==
  /\ Working(r, "activate")
  /\ \/ nginx' = Named(documents[r]) /\ work' = Stage(r, "converge")
     \/ UNCHANGED nginx /\ work' = Again(r)
  /\ UNCHANGED <<pool, documents, remembered, kills>>

ConfirmDomainActivation(r) ==
  /\ Working(r, "confirm") /\ work' = [work EXCEPT ![r].state = "done"]
  /\ UNCHANGED <<pool, nginx, documents, remembered, kills>>

\* The API stops: the lease of the operation runs out, the agent remembers.
LoseWorker(r) ==
  /\ work[r].state = "running" /\ kills < MaxKills /\ kills' = kills + 1 /\ work' = Again(r)
  /\ UNCHANGED <<pool, nginx, documents, remembered>>

NextPools ==
  \/ \E d \in Documents : Edit(d)
  \/ \E r \in 1..MaxDocuments : \/ Start(r) \/ CallPools(r, "prepare") \/ ActivateNGINX(r)
                                \/ CallPools(r, "converge") \/ ConfirmDomainActivation(r)
                                \/ LoseWorker(r)

-----------------------------------------------------------------------------
(* Properties.                                                             *)

\* What the inspector reports of a pool.
classifyPoolState(q) ==
  CASE q.serves = 0 /\ q.unit = 0 -> "missing"
    [] q.serves = 0 /\ q.unit # 0 -> "inactive"
    [] q.serves # 0 /\ q.enabled = "no" -> "failed"
    [] q.serves # 0 /\ q.enabled = "yes" -> "active"

\* A version whose socket the live NGINX configuration names keeps both its
\* files, through kills, failed activations and newer documents: it is set up
\* before NGINX names it and retired only when NGINX does not.
ServedIsConfigured == \A v \in nginx : pool[v].conf # 0 /\ pool[v].unit # 0

\* Once the latest document is confirmed, the inspector reports the pool it names
\* as active, whatever older operations, retries and kills came before.
ConfirmedIsHealthy ==
  Latest > 0 /\ work[Latest].state = "done" =>
    \A v \in Named(documents[Latest]) : classifyPoolState(pool[v]) = "active"

\* Once the latest document is confirmed, the pool it names runs with its settings.
ConfirmedIsRunning ==
  Latest > 0 /\ work[Latest].state = "done" /\ documents[Latest].php = "native" =>
    pool["native"].serves = documents[Latest].settings

\* A call that fails while it sets up pools leaves them as it found them.
FailureIsUndone ==
  [][\A r \in 1..MaxDocuments :
       Working(r, "prepare") /\ work'[r].state # "running" /\ kills' = kills => pool' = pool]_poolVars
=============================================================================

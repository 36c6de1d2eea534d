------------------------------ MODULE Databases ------------------------------
(***************************************************************************)
(* The managed databases of one hosting account: rows of databases, users   *)
(* and grants (internal/core/managed_database.go), the rotation of a user's *)
(* password (database_credential_rotation.go), the one-time reveal and the  *)
(* phpMyAdmin handoffs (phpmyadmin_handoff.go), the worker's operations on  *)
(* them (internal/operations/managed_database.go) and what the agent does   *)
(* to MariaDB (internal/hostdatabase/reconciler.go).  MariaDB commits every *)
(* statement on its own: the agent's work can end after each of them, and   *)
(* the operation is repeated on what is there.                             *)
(*                                                                         *)
(* Rows, passwords and markers are named by the operation that made them.  *)
(* A wizard makes one database, its only grant, and perhaps a user.        *)
(***************************************************************************)
EXTENDS Naturals, FiniteSets, SequencesExt

CONSTANTS
  Names,          \* aliases; with the account they give the physical names
  Foreign,        \* objects of these names on the host the panel did not make
  Sessions,       \* browser sessions
  MaxDatabases, MaxDatabaseUsers,     \* package limits
  MaxAttempts,    \* max_attempts of a database operation
  MaxOps, MaxHandoffs, MaxFaults      \* bounds of a behaviour

VARIABLES
  database,       \* managed_databases, each with its grant
  user,           \* managed_database_users
  ops, worker,    \* operations; the one being run and its next step
  applied,        \* mutations and rotations with applied_at
  valid,          \* sessions that may still manage credentials
  handoff,        \* phpmyadmin_handoffs, with the generation they were issued in
  host, answered, \* MariaDB; the successful calls the agent remembers
  faults          \* faults so far

rows == <<database, user, applied>>
work == <<ops, worker>>
signon == <<valid, handoff>>
agent == <<host, answered>>
vars == <<rows, work, signon, agent, faults>>

Ids == 1..MaxOps
Kinds == {"database", "user"}
Objects == Kinds \X Names

ASSUME DatabaseAssumption ==
  /\ {MaxDatabases, MaxDatabaseUsers, MaxAttempts, MaxOps, MaxHandoffs, MaxFaults} \subseteq Nat
  /\ Foreign \subseteq Objects

NoDatabase == [status |-> "none", name |-> "", user |-> 0, grant |-> "none"]
NoUser == [status |-> "none", name |-> "", password |-> 0, revealed |-> FALSE, generation |-> 0]
NoMarker == [op |-> 0, state |-> "none"]
Idle == [op |-> 0, at |-> "idle"]

Init ==
  /\ database = [d \in Ids |-> NoDatabase] /\ user = [u \in Ids |-> NoUser]
  /\ applied = {} /\ ops = <<>> /\ worker = Idle
  /\ valid = Sessions /\ handoff = <<>>
  /\ host = [marker |-> [x \in Objects |-> NoMarker], present |-> Foreign,
             password |-> [n \in Names |-> 0], grants |-> {}]
  /\ answered = {} /\ faults = 0

-------------------------------------------------------------------------------
(* Requests.  Each one is a transaction that checks the rows, changes them  *)
(* and creates the operation.  Physical names stay taken after a deletion.  *)

Provision(name, uname, u) == [do |-> "provision", on |-> u, name |-> name, uname |-> uname]
OnRow(do, i) == [do |-> do, on |-> i, name |-> "", uname |-> ""]
New == Len(ops) + 1
CreateOperation(r) ==
  /\ Len(ops) < MaxOps
  /\ ops' = Append(ops, [r |-> r, status |-> "pending", attempts |-> 0])
  /\ UNCHANGED <<worker, signon, agent, faults>>

LiveDatabases == {d \in Ids : database[d].status \notin {"none", "deleted"}}
LiveUsers == {u \in Ids : user[u].status \notin {"none", "deleted"}}
Grants(u) == {d \in Ids : database[d].user = u /\ database[d].grant \notin {"none", "revoked"}}
OpUser(o) == IF ops[o].r.on = 0 THEN o ELSE ops[o].r.on
Pending(u) == {o \in DOMAIN ops : ops[o].r.do = "rotate_user" /\ ops[o].r.on = u} \ applied

NewDatabase(name, u) ==
  /\ Cardinality(LiveDatabases) < MaxDatabases
  /\ \A d \in Ids : database[d].name # name
  /\ database' = [database EXCEPT ![New] =
       [status |-> "pending", name |-> name, user |-> u, grant |-> "pending"]]

PrepareDatabaseWizard ==
  /\ Len(ops) < MaxOps
  /\ \E name \in Names :
       \/ \E uname \in Names :
            /\ Cardinality(LiveUsers) < MaxDatabaseUsers
            /\ \A u \in Ids : user[u].name # uname
            /\ NewDatabase(name, New)
            /\ user' = [user EXCEPT ![New] = [status |-> "pending", name |-> uname,
                          password |-> New, revealed |-> FALSE, generation |-> 1]]
            /\ CreateOperation(Provision(name, uname, 0))
       \/ \E u \in Ids :
            /\ user[u].status = "active" /\ NewDatabase(name, u)
            /\ CreateOperation(Provision(name, "", u)) /\ UNCHANGED user
  /\ UNCHANGED applied

PrepareDatabaseDeletion ==
  /\ UNCHANGED applied
  /\ \/ \E d \in Ids :
          /\ database[d].status = "active"
          /\ database' = [database EXCEPT ![d].status = "deleting",
                            ![d].grant = IF @ = "active" THEN "revoking" ELSE @]
          /\ CreateOperation(OnRow("drop_database", d)) /\ UNCHANGED user
     \/ \E u \in Ids :
          /\ user[u].status = "active" /\ Grants(u) = {} /\ Pending(u) = {}
          /\ user' = [user EXCEPT ![u].status = "deleting"]
          /\ CreateOperation(OnRow("drop_user", u)) /\ UNCHANGED database

PrepareDatabaseCredentialRotation ==
  \E u \in Ids :
    /\ valid # {} /\ user[u].status = "active" /\ Pending(u) = {}
    /\ CreateOperation(OnRow("rotate_user", u)) /\ UNCHANGED rows

-------------------------------------------------------------------------------
(* Credentials leave the panel by the reveal and by redeemed handoffs.      *)

ProvisioningSucceeded(u) ==
  \E o \in applied : ops[o].r.do = "provision" /\ OpUser(o) = u /\ ops[o].status = "succeeded"

RevealDatabaseCredential ==
  \E u \in Ids :
    /\ valid # {} /\ user[u].status = "active" /\ ~user[u].revealed /\ ProvisioningSucceeded(u)
    /\ user' = [user EXCEPT ![u].revealed = TRUE]
    /\ UNCHANGED <<database, applied, work, signon, agent, faults>>

Eligible(u) == user[u].status = "active" /\ \E d \in Ids : database[d].user = u /\ database[d].grant = "active"

Revoked(which) ==
  [h \in DOMAIN handoff |-> IF h \in which /\ handoff[h].state = "issued"
                            THEN [handoff[h] EXCEPT !.state = "revoked"] ELSE handoff[h]]
HandoffsOf(u) == {h \in DOMAIN handoff : handoff[h].user = u}

IssuePHPMyAdminHandoff ==
  \E s \in valid, u \in Ids :
    /\ Len(handoff) < MaxHandoffs /\ Eligible(u)
    /\ handoff' = Append(Revoked({h \in HandoffsOf(u) : handoff[h].session = s}),
         [user |-> u, session |-> s, state |-> "issued", expired |-> FALSE,
          generation |-> user[u].generation])
    /\ UNCHANGED <<rows, work, valid, agent, faults>>

RedeemPHPMyAdminHandoff ==
  \E h \in DOMAIN handoff :
    /\ handoff[h].state = "issued" /\ ~handoff[h].expired
    /\ handoff[h].session \in valid /\ Eligible(handoff[h].user)
    /\ handoff' = [handoff EXCEPT ![h].state = "consumed"]
    /\ UNCHANGED <<rows, work, valid, agent, faults>>

HandoffExpires ==
  \E h \in DOMAIN handoff :
    /\ handoff[h].state = "issued" /\ ~handoff[h].expired
    /\ handoff' = [handoff EXCEPT ![h].expired = TRUE]
    /\ UNCHANGED <<rows, work, valid, agent, faults>>

\* The session is revoked or expires, its authentication is no longer recent,
\* or its identity loses the account.
SessionEnds ==
  \E s \in valid : valid' = valid \ {s} /\ UNCHANGED <<rows, work, handoff, agent, faults>>

-------------------------------------------------------------------------------
(* The agent at MariaDB.  A run is the states after each of its statements  *)
(* and its result: "ok", a refusal ("conflict", final for the operation) or *)
(* a failed statement ("mutation", retried).  One lock and the agent's own  *)
(* mutex keep runs apart.                                                  *)

Run(states) == [states |-> states, result |-> "ok"]
Conflict == [states |-> <<>>, result |-> "conflict"]
Fenced(states) == [states |-> states, result |-> "mutation"]
Ok(run) == run.result = "ok"
Ends(h, run) == IF run.states = <<>> THEN h ELSE Last(run.states)
AndThen(run, next) == [next EXCEPT !.states = run.states \o @]

\* ActivateMarker also insists on one changed row, and gets it: the marker it finds
\* is this operation's, in state "creating".
Marked(h, x, o, state) == [h EXCEPT !.marker[x] = [op |-> o, state |-> state]]
Unmarked(h, x) == [h EXCEPT !.marker[x] = NoMarker]
Altered(h, n, p) == [h EXCEPT !.password[n] = p]
Created(h, x, o) ==
  LET made == [h EXCEPT !.present = @ \union {x}]
  IN IF x[1] = "user" THEN Altered(made, x[2], o) ELSE made
Granted(h, pair) == [h EXCEPT !.grants = @ \union {pair}]
\* DROP USER takes the user's grants along, DROP DATABASE leaves them.
Dropped(h, x) ==
  [h EXCEPT !.present = @ \ {x},
            !.grants = IF x[1] = "user" THEN {g \in @ : g[2] # x[2]} ELSE @]

\* Mutation: the object is created before its marker.
reconcileObject_Late(h, x, o) ==
  LET m == h.marker[x]
      made == Created(h, x, o)
  IN IF m = NoMarker
     THEN IF x \in h.present THEN Conflict
          ELSE Run(<<made, Marked(made, x, o, "active")>>)
     ELSE IF m.op # o \/ x \notin h.present THEN Conflict ELSE Run(<<>>)

reconcileObject(h, x, o) ==
  LET m == h.marker[x]
      begun == Marked(h, x, o, "creating")
      made == Created(begun, x, o)
  IN IF m = NoMarker
     THEN IF x \in h.present THEN Conflict
          ELSE Run(<<begun, made, Marked(made, x, o, "active")>>)
     ELSE IF m.op # o \/ (m.state = "active" /\ x \notin h.present) THEN Conflict
     ELSE IF m.state = "active" THEN Run(<<>>)
     ELSE IF x \in h.present THEN Run(<<Marked(h, x, o, "active")>>)
     ELSE Run(<<made, Marked(made, x, o, "active")>>)

\* A user made by this operation gets its password again; one selected in the
\* wizard must be there and is left as it is.
reconcileUser(h, n, o, create) ==
  LET x == <<"user", n>>
      run == reconcileObject(h, x, o)
  IN IF create
     THEN IF Ok(run) /\ run.states = <<>> THEN Run(<<Altered(h, n, o)>>) ELSE run
     ELSE IF h.marker[x].state = "active" /\ x \in h.present THEN Run(<<>>) ELSE Conflict

Reconcile(o, create) ==
  LET r == database[o]
      n == user[r.user].name
      first == reconcileObject(host, <<"database", r.name>>, o)
      h == Ends(host, first)
      second == reconcileUser(h, n, o, create)
      both == AndThen(first, second)
  IN IF ~Ok(first) THEN first
     ELSE IF ~Ok(second) THEN both
     ELSE AndThen(both, Run(<<Granted(Ends(h, second), <<r.name, n>>)>>))

\* Mutation: the marker goes first, and a marker that is there is taken for done.
RotatePassword_MarkerFirst(o) ==
  LET n == user[ops[o].r.on].name
      x == <<"user", n>>
      marked == Marked(host, x, o, "active")
  IN IF host.marker[x].op = o THEN Run(<<>>)
     ELSE IF host.marker[x].state = "active" /\ x \in host.present
     THEN Run(<<marked, Altered(marked, n, o)>>) ELSE Conflict

\* The UPDATE must change one row.  MariaDB counts the rows that change, not the
\* rows that match: a marker that names the operation already is taken for a fence.
AdvanceUserMarker(h, x, o) ==
  IF h.marker[x].op = o THEN Fenced(<<>>) ELSE Run(<<Marked(h, x, o, "active")>>)

RotatePassword(o) ==
  LET n == user[ops[o].r.on].name
      x == <<"user", n>>
      changed == Altered(host, n, o)
  IN IF host.marker[x].state = "active" /\ x \in host.present
     THEN AndThen(Run(<<changed>>), AdvanceUserMarker(changed, x, o)) ELSE Conflict

\* Mutation: DROP DATABASE is relied on to take the grants along.
Revocations_Left(h, name, users) == <<>>

Revocations(h, name, users) ==
  LET mine == {<<name, n>> : n \in users} \intersect h.grants
  IN IF mine = {} THEN <<>> ELSE <<[h EXCEPT !.grants = @ \ mine]>>

\* What is gone from the host already is not an error when its marker is gone.
Drop(x, users) ==
  LET revoked == Revocations(host, x[2], users)
      h == IF revoked = <<>> THEN host ELSE Last(revoked)
      gone == Dropped(h, x)
  IN IF host.marker[x] = NoMarker
     THEN IF x \in host.present THEN Conflict ELSE Run(<<>>)
     ELSE IF host.marker[x].state # "active" \/ \E n \in users : host.marker[<<"user", n>>].state # "active"
     THEN Conflict
     ELSE Run(revoked \o (IF x \in h.present THEN <<gone>> ELSE <<>>) \o <<Unmarked(gone, x)>>)

-------------------------------------------------------------------------------
(* The worker, as for the other operations of the account: one operation at *)
(* a time, repeated while attempts are left.                               *)

Asked == ops[worker.op].r
At(step, actions) == worker.at = step /\ Asked.do \in actions
Goto(step) == worker' = [worker EXCEPT !.at = step] /\ UNCHANGED ops
Fault == faults < MaxFaults /\ faults' = faults + 1

ClaimNextOperation ==
  /\ worker = Idle
  /\ \E o \in DOMAIN ops :
       /\ ops[o].status = "pending"
       /\ \A p \in 1..(o - 1) : ops[p].status = "pending" => ops[p].attempts > ops[o].attempts
       /\ ops' = [ops EXCEPT ![o] = [@ EXCEPT !.status = "running", !.attempts = @ + 1]]
       /\ worker' = [op |-> o, at |-> "load"]
  /\ UNCHANGED <<rows, signon, agent, faults>>

FailOperation(o, final) ==
  ops' = [ops EXCEPT ![o].status =
    IF final \/ ops[o].attempts >= MaxAttempts THEN "failed" ELSE "pending"]
Fails(final) == FailOperation(worker.op, final) /\ worker' = Idle
\* The worker learns of a failure, or is gone itself.
Interrupted == Fails(FALSE) \/ (worker' = Idle /\ UNCHANGED ops)

recoverExpiredOperations ==
  /\ worker = Idle
  /\ \E o \in DOMAIN ops : ops[o].status = "running" /\ FailOperation(o, FALSE)
  /\ UNCHANGED <<rows, worker, signon, agent, faults>>

Crash ==
  /\ worker # Idle /\ Fault /\ worker' = Idle
  /\ UNCHANGED <<rows, ops, signon, agent>>

\* The database or the agent does not answer (retried), or a checkpoint cannot
\* be written (final).
Disturbed ==
  /\ worker.at \in {"load", "call", "record"} /\ Fault
  /\ \E final \in BOOLEAN : Fails(final)
  /\ UNCHANGED <<rows, signon, agent>>

CompleteOperation ==
  /\ worker.at = "complete" /\ worker' = Idle
  /\ ops' = [ops EXCEPT ![worker.op].status = "succeeded"]
  /\ UNCHANGED <<rows, signon, agent, faults>>

-------------------------------------------------------------------------------
(* The three handlers of a database.lifecycle operation.                    *)

CreatesUser(o) == user[OpUser(o)].status = "pending"

\* The payload asked for a new user, the rows say the user is there already.
LoadDatabaseProvisioning ==
  /\ At("load", {"provision"})
  /\ IF Asked.on = 0 /\ ~CreatesUser(worker.op) THEN Fails(TRUE) ELSE Goto("call")
  /\ UNCHANGED <<rows, signon, agent, faults>>

LoadDatabaseDeletion ==
  /\ At("load", {"drop_database", "drop_user"}) /\ Goto("call")
  /\ UNCHANGED <<rows, signon, agent, faults>>

LoadDatabaseCredentialRotation ==
  /\ At("load", {"rotate_user"})
  /\ CASE user[Asked.on].status # "active" -> Fails(TRUE)
       [] user[Asked.on].status = "active" /\ worker.op \in applied -> Goto("complete")
       [] OTHER -> Goto("call")
  /\ UNCHANGED <<rows, signon, agent, faults>>

DropGrants(d) == IF database[d].grant = "revoked" THEN {} ELSE {user[database[d].user].name}

HostRun(o) ==
  LET r == ops[o].r
  IN CASE r.do = "provision" -> Reconcile(o, CreatesUser(o))
       [] r.do = "rotate_user" -> RotatePassword(o)
       [] r.do = "drop_database" -> Drop(<<"database", database[r.on].name>>, DropGrants(r.on))
       [] r.do = "drop_user" -> Drop(<<"user", user[r.on].name>>, {})

\* What can differ between two requests of one operation.
Digest(o) ==
  LET r == ops[o].r
  IN CASE r.do = "provision" -> IF CreatesUser(o) THEN 1 ELSE 0
       [] r.do = "drop_database" -> Cardinality(DropGrants(r.on))
       [] OTHER -> 0

\* The agent runs the request at most once while it remembers it.  Another
\* request under the same key, and a statement that fails, are retried.
CallAgent ==
  LET o == worker.op
      run == HostRun(o)
      known == {e \in answered : e[1] = o}
  IN /\ worker.at = "call"
     /\ \/ /\ <<o, Digest(o)>> \in known /\ Goto("record")
           /\ UNCHANGED <<agent, faults>>
        \/ /\ known # {} /\ <<o, Digest(o)>> \notin known /\ Fails(FALSE)
           /\ UNCHANGED <<agent, faults>>
        \/ /\ known = {} /\ host' = Ends(host, run)
           /\ IF Ok(run) THEN Goto("record") /\ answered' = answered \union {<<o, Digest(o)>>}
                         ELSE Fails(run.result = "conflict") /\ UNCHANGED answered
           /\ UNCHANGED faults
        \/ /\ known = {} /\ Fault /\ Interrupted
           /\ \E i \in DOMAIN run.states :
                host' = IF i = 1 THEN host ELSE run.states[i - 1]
           /\ UNCHANGED answered
        \/ /\ known = {} /\ Ok(run) /\ Fault /\ Interrupted
           /\ host' = Ends(host, run) /\ answered' = answered \union {<<o, Digest(o)>>}
     /\ UNCHANGED <<rows, signon>>

\* The entry is fifteen minutes old, is displaced, or the agent is restarted.
CacheExpires ==
  /\ \E e \in answered : answered' = answered \ {e}
  /\ UNCHANGED <<rows, work, signon, host, faults>>

CompleteDatabaseProvisioning ==
  LET o == worker.op
      u == OpUser(o)
  IN /\ At("record", {"provision"}) /\ Goto("complete")
     /\ IF o \in applied THEN UNCHANGED rows
        ELSE /\ database' = [database EXCEPT ![o].status = "active", ![o].grant = "active"]
             /\ user' = [user EXCEPT ![u].status = "active"]
             /\ applied' = applied \union {o}
     /\ UNCHANGED <<signon, agent, faults>>

CompleteDatabaseDeletion ==
  LET o == worker.op
  IN /\ At("record", {"drop_database", "drop_user"}) /\ Goto("complete")
     /\ IF o \in applied THEN UNCHANGED rows
        ELSE /\ applied' = applied \union {o}
             /\ IF Asked.do = "drop_database"
                THEN /\ database' = [database EXCEPT ![Asked.on].status = "deleted",
                                                     ![Asked.on].grant = "revoked"]
                     /\ UNCHANGED user
                ELSE /\ user' = [user EXCEPT ![Asked.on].status = "deleted",
                                             ![Asked.on].password = 0]
                     /\ UNCHANGED database
     /\ UNCHANGED <<signon, agent, faults>>

Promoted(u, o) ==
  [user EXCEPT ![u] = [@ EXCEPT !.password = o, !.revealed = FALSE, !.generation = @ + 1]]

CompleteDatabaseCredentialRotation ==
  LET o == worker.op
      u == Asked.on
  IN /\ At("record", {"rotate_user"})
     /\ IF o \in applied THEN Goto("complete") /\ UNCHANGED <<user, applied, handoff>>
        ELSE IF user[u].status # "active" THEN Fails(TRUE) /\ UNCHANGED <<user, applied, handoff>>
        ELSE /\ Goto("complete") /\ user' = Promoted(u, o)
             /\ handoff' = Revoked(HandoffsOf(u)) /\ applied' = applied \union {o}
     /\ UNCHANGED <<database, valid, agent, faults>>

-------------------------------------------------------------------------------
Next ==
  \/ PrepareDatabaseWizard \/ PrepareDatabaseDeletion \/ PrepareDatabaseCredentialRotation
  \/ RevealDatabaseCredential \/ IssuePHPMyAdminHandoff \/ RedeemPHPMyAdminHandoff
  \/ HandoffExpires \/ SessionEnds
  \/ ClaimNextOperation \/ recoverExpiredOperations \/ Crash \/ Disturbed \/ CompleteOperation
  \/ LoadDatabaseProvisioning \/ LoadDatabaseDeletion \/ LoadDatabaseCredentialRotation
  \/ CallAgent \/ CacheExpires
  \/ CompleteDatabaseProvisioning \/ CompleteDatabaseDeletion
  \/ CompleteDatabaseCredentialRotation

Spec == Init /\ [][Next]_vars

-------------------------------------------------------------------------------
(* An active user is on the host, under its marker, and its password there  *)
(* is the one in the panel or that of a rotation that is not resolved yet:  *)
(* the panel never holds, reveals or hands off a password MariaDB has not   *)
(* got by then (the order of runPasswordRotation: host first, row after).   *)
CredentialWorks ==
  \A u \in Ids : user[u].status = "active" =>
    LET x == <<"user", user[u].name>>
    IN /\ x \in host.present /\ host.marker[x].state = "active"
       /\ host.password[x[2]] \in {user[u].password} \union Pending(u)

(* The password of an active user on the host is never set back to that of  *)
(* an older operation, however calls are repeated and overtake each other   *)
(* (one unresolved rotation a user; the marker's fence in RotatePassword).  *)
NewestCredential ==
  [][\A u \in Ids : user[u].status = "active" =>
       host'.password[user[u].name] >= host.password[user[u].name]]_vars

(* A handoff that is redeemed was issued after the last rotation of its     *)
(* user: the one-time token never opens a credential newer than itself      *)
(* (CompleteDatabaseCredentialRotation revokes what is outstanding).        *)
HandoffCurrent ==
  [][\A h \in DOMAIN handoff : handoff[h].state = "issued" /\ handoff'[h].state = "consumed" =>
       handoff[h].generation = user[handoff[h].user].generation]_vars

(* When the panel records a database or a user as deleted, the host has     *)
(* neither the object, nor its marker, nor a grant on it (Drop revokes and  *)
(* drops before the marker is deleted, and the row follows the host).       *)
Traceless(x) ==
  x \notin host.present /\ host.marker[x] = NoMarker /\ \A g \in host.grants :
    x[2] # g[IF x[1] = "database" THEN 1 ELSE 2]
DeletionIsComplete ==
  [][/\ \A d \in Ids : database[d].status = "deleting" /\ database'[d].status = "deleted" =>
          Traceless(<<"database", database[d].name>>)
     /\ \A u \in Ids : user[u].status = "deleting" /\ user'[u].status = "deleted" =>
          Traceless(<<"user", user[u].name>>)]_vars

(* Whatever the panel made on the host is marked as its own, at every       *)
(* moment; what it did not make is never marked, granted or dropped         *)
(* (reconcileObject inserts the marker first and adopts nothing).           *)
OwnedIsMarked ==
  \A x \in Objects :
    IF x \in Foreign THEN x \in host.present /\ host.marker[x] = NoMarker
                            /\ \A g \in host.grants : x[2] # g[IF x[1] = "database" THEN 1 ELSE 2]
    ELSE x \in host.present => host.marker[x] # NoMarker

(* "Creation and deletion are durable, replay-safe operations": an          *)
(* operation whose change is recorded does not end as failed.               *)
AppliedSucceeds == \A o \in applied : ops[o].status # "failed"

(* "Replaying the same operation applies the same candidate and is          *)
(* semantically idempotent": a rotation whose password and marker are on    *)
(* the host already fails only by a new fault.                              *)
RotationReplays ==
  [][worker.at = "call" /\ Asked.do = "rotate_user"
       /\ host.marker[<<"user", user[Asked.on].name>>] = [op |-> worker.op, state |-> "active"]
     => worker'.op = worker.op \/ faults' > faults]_vars

(* "Creation and deletion are durable, replay-safe operations": a database  *)
(* recorded as deleted is not on the host.                                  *)
DeletedStaysGone ==
  \A d \in Ids : database[d].status = "deleted" => <<"database", database[d].name>> \notin host.present
==============================================================================

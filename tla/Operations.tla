----------------------------- MODULE Operations -----------------------------
(***************************************************************************)
(* The durable operation queue of the panel database: the rows of the      *)
(* tables operations, operation_attempts and operation_events, and the     *)
(* audit actions recorded with them, as internal/core/operation.go and     *)
(* internal/core/operation_transitions.go change them.                     *)
(*                                                                         *)
(* Every repository method runs in one store.Write call, a serialised      *)
(* BEGIN IMMEDIATE transaction, so every method is one action.  A method   *)
(* reads the wall clock before it waits for the writer lock, and the clock *)
(* may step, so an action takes its "now" as an input: any member of       *)
(* Times, in no particular order.  In the same way the caller's claim on   *)
(* an attempt (operation, attempt number, worker) is an input, current or  *)
(* stale.  OperationRunner restricts both to what a runner really does.    *)
(***************************************************************************)
EXTENDS Integers, Sequences, FiniteSets

CONSTANTS
    Ops,            \* operation identifiers
    Workers,        \* worker instance identifiers
    Keys,           \* idempotency keys, each with its account or global scope
    NoKey,          \* the empty idempotency key
    NoWorker,       \* a NULL worker_instance_id
    NoTime,         \* a NULL timestamp
    Inputs,         \* creation inputs: actor, kind and canonical payload
    RetryClass,     \* the retry class of an input
    Requested,      \* the MaxAttempts of an input, 0 for the default
    Supported,      \* the inputs whose kind has a handler in the runner
    AttemptLimit,   \* the largest MaxAttempts accepted (100 in the code)
    LeaseDuration,  \* the lease of a claim or a heartbeat
    RetryBase,      \* the first retry delay (5 seconds)
    RetryCap,       \* the largest retry delay (5 minutes)
    Times,          \* the clock readings
    Percents,       \* the progress percentages a handler reports
    MaxEvents       \* bound on the event log that checkpoints respect

ASSUME NullAssumption ==
    /\ NoKey \notin Keys
    /\ NoWorker \notin Workers
    /\ NoTime \notin Int

ASSUME InputAssumption ==
    /\ RetryClass \in [Inputs -> {"none", "safe", "manual"}]
    /\ Requested \in [Inputs -> Nat]
    /\ Inputs # {} /\ Supported \subseteq Inputs

ASSUME BoundAssumption ==
    /\ AttemptLimit \in Nat /\ AttemptLimit >= 3
    /\ Times \subseteq Int
    /\ Percents \subseteq 0..99
    /\ LeaseDuration \in Nat \ {0}

ASSUME DelayAssumption ==
    /\ RetryBase \in Nat \ {0} /\ RetryCap \in Nat \ {0}
    /\ RetryBase <= RetryCap

VARIABLES
    ops,       \* ops[o]: the row of operation o
    attempts,  \* attempts[o][n]: the row of attempt n of operation o
    log,       \* log[o]: the operation_events of o, by sequence number
    audit      \* audit[o]: the audit actions whose target is o

vars == <<ops, attempts, log, audit>>

Attempt == 1..AttemptLimit

Active == {"running", "cancelling"}
Terminal == {"succeeded", "cancelled"}
Status == {"absent", "pending", "failed"} \cup Active \cup Terminal
Outcome == {"absent", "running", "succeeded", "failed", "cancelled",
            "lease_expired"}

\* A nullable column of which only its being NULL matters.
Column == {"null", "set"}

\* The message codes of operation_events, without their "operation." prefix.
MessageCode ==
    {"created", "claimed", "progress", "retry_scheduled", "succeeded", "failed",
     "cancelled", "cancellation_requested", "manual_retry_scheduled",
     "worker_lease_expired", "cancelled_after_worker_loss",
     "retry_scheduled_after_worker_loss", "failed_after_worker_loss"}

AuditAction ==
    {"created", "succeeded", "failed", "cancelled", "cancellation_requested",
     "retry_scheduled"}

-----------------------------------------------------------------------------
(***************************************************************************)
(* Creation input and retry policy.                                        *)
(***************************************************************************)

\* Zero asks for the default of the retry class.
NormalizeMaxAttempts(class, value) ==
    IF value = 0 THEN (IF class = "none" THEN 1 ELSE 3) ELSE value

ValidMaxAttempts(class, value) ==
    \/ value = 0
    \/ /\ value \in Attempt
       /\ class = "none" => value = 1

MaxAttempts(i) == NormalizeMaxAttempts(RetryClass[i], Requested[i])

\* The delay doubles with every attempt and stops at the cap.
RetryDelay(n) ==
    LET delay == RetryBase * 2 ^ (n - 1)
    IN  IF delay < RetryCap THEN delay ELSE RetryCap

-----------------------------------------------------------------------------
(***************************************************************************)
(* Rows.                                                                   *)
(***************************************************************************)

NoOperation ==
    [status |-> "absent", input |-> CHOOSE i \in Inputs : TRUE, key |-> NoKey,
     created |-> NoTime, count |-> 0, current |-> 0, worker |-> NoWorker,
     lease |-> NoTime, next |-> NoTime, progress |-> 0, cancelAt |-> "null",
     result |-> "null", error |-> "none", completed |-> "null"]

NoAttempt ==
    [outcome |-> "absent", worker |-> NoWorker, beat |-> NoTime,
     lease |-> NoTime]

Event(code, n, progress) == [code |-> code, attempt |-> n, progress |-> progress]

Init ==
    /\ ops = [o \in Ops |-> NoOperation]
    /\ attempts = [o \in Ops |-> [n \in Attempt |-> NoAttempt]]
    /\ log = [o \in Ops |-> <<>>]
    /\ audit = [o \in Ops |-> <<>>]

Class(o) == RetryClass[ops[o].input]
Maximum(o) == MaxAttempts(ops[o].input)

\* The row after its lease is given back: no attempt, worker, lease or
\* scheduled time is left.
Released(row, status) ==
    [row EXCEPT !.status = status, !.current = 0, !.worker = NoWorker,
                !.lease = NoTime, !.next = NoTime]

\* The row back in the queue, eligible from time t.
Requeued(row, t) == [Released(row, "pending") EXCEPT !.next = t]

\* The columns that record an outcome: result_json, error_code, completed_at.
WithOutcome(row, result, error, completed) ==
    [row EXCEPT !.result = result, !.error = error, !.completed = completed]
Cleared(row) == WithOutcome(row, "null", "none", "null")

\* appendOperationEventTx numbers the events of an operation from 1.
Logged(o, events) == log' = [log EXCEPT ![o] = @ \o events]
Audited(o, actions) == audit' = [audit EXCEPT ![o] = @ \o actions]
Ended(o, n, outcome) ==
    attempts' = [attempts EXCEPT ![o][n].outcome = outcome]

-----------------------------------------------------------------------------
(***************************************************************************)
(* CreateOperation.  A key that is already in use returns the existing     *)
(* operation for the same input and a conflict for another one; neither    *)
(* writes.                                                                 *)
(***************************************************************************)

FindByIdempotencyKey(k) == {p \in Ops : k # NoKey /\ ops[p].key = k}

\* Mutant: the lookup by idempotency key is left out.
CreateOperation_NoLookup(o, k, i, now) ==
    /\ ops[o].status = "absent"
    /\ ValidMaxAttempts(RetryClass[i], Requested[i])
    /\ ops' = [ops EXCEPT ![o].status = "pending", ![o].input = i, ![o].key = k,
                          ![o].created = now, ![o].next = now]
    /\ Logged(o, <<Event("created", 0, 0)>>)
    /\ Audited(o, <<"created">>)
    /\ UNCHANGED attempts

CreateOperation(o, k, i, now) ==
    /\ ops[o].status = "absent"
    /\ ValidMaxAttempts(RetryClass[i], Requested[i])
    /\ FindByIdempotencyKey(k) = {}
    /\ ops' = [ops EXCEPT ![o].status = "pending", ![o].input = i, ![o].key = k,
                          ![o].created = now, ![o].next = now]
    /\ Logged(o, <<Event("created", 0, 0)>>)
    /\ Audited(o, <<"created">>)
    /\ UNCHANGED attempts

-----------------------------------------------------------------------------
(***************************************************************************)
(* recoverExpiredOperationsTx: every active operation whose lease is not   *)
(* after now.  A cancelling one is cancelled; a running one is requeued    *)
(* when its class is safe and attempts are left, and fails otherwise.      *)
(***************************************************************************)

\* Mutant: only running operations are recovered.
Expired_RunningOnly(o, now) == ops[o].status = "running" /\ ops[o].lease <= now

Expired(o, now) == ops[o].status \in Active /\ ops[o].lease <= now

\* Mutant: recovery forgets that the attempts may be used up.
Replayable_NoBudget(o) == Class(o) = "safe"

Replayable(o) == Class(o) = "safe" /\ ops[o].count < Maximum(o)

RecoveredOperation(o, now) ==
    CASE ops[o].status = "cancelling" ->
           WithOutcome(Released(ops[o], "cancelled"), ops[o].result,
                       ops[o].error, "set")
      [] ops[o].status = "running" /\ Replayable(o) ->
           Requeued(ops[o], now + RetryDelay(ops[o].count))
      [] OTHER ->
           WithOutcome(Released(ops[o], "failed"), ops[o].result, "lease", "set")

RecoveredAttempt(o) ==
    IF ops[o].status = "cancelling" THEN "cancelled" ELSE "lease_expired"

RecoveryEvents(o) ==
    LET n == ops[o].current
        p == ops[o].progress
    IN  CASE ops[o].status = "cancelling" ->
               <<Event("cancelled_after_worker_loss", n, p)>>
          [] ops[o].status = "running" /\ Replayable(o) ->
               <<Event("worker_lease_expired", n, p),
                 Event("retry_scheduled_after_worker_loss", n, p)>>
          [] OTHER ->
               <<Event("worker_lease_expired", n, p),
                 Event("failed_after_worker_loss", n, p)>>

RecoveryAudit(o) ==
    CASE ops[o].status = "cancelling" -> <<"cancelled">>
      [] ops[o].status = "running" /\ Replayable(o) -> <<>>
      [] OTHER -> <<"failed">>

RecoveredOps(now) ==
    [o \in Ops |-> IF Expired(o, now) THEN RecoveredOperation(o, now) ELSE ops[o]]

RecoveredAttempts(now) ==
    [o \in Ops |->
       IF Expired(o, now)
       THEN [attempts[o] EXCEPT ![ops[o].current].outcome = RecoveredAttempt(o)]
       ELSE attempts[o]]

RecoveredLog(now) ==
    [o \in Ops |-> IF Expired(o, now) THEN log[o] \o RecoveryEvents(o) ELSE log[o]]

RecoveredAudit(now) ==
    [o \in Ops |-> IF Expired(o, now) THEN audit[o] \o RecoveryAudit(o) ELSE audit[o]]

RecoverExpiredOperations(now) ==
    /\ ops' = RecoveredOps(now)
    /\ attempts' = RecoveredAttempts(now)
    /\ log' = RecoveredLog(now)
    /\ audit' = RecoveredAudit(now)

-----------------------------------------------------------------------------
(***************************************************************************)
(* ClaimNextOperation: recovery first, then the pending operation that has *)
(* been eligible for longest, all in one transaction.                      *)
(***************************************************************************)

Eligible(row, now) ==
    /\ row.status = "pending"
    /\ row.next <= now
    /\ row.count < MaxAttempts(row.input)
    /\ row.input \in Supported

\* The order of the query; the identifier breaks the remaining ties.
Before(r, s) == r.next < s.next \/ (r.next = s.next /\ r.created <= s.created)

ClaimCandidates(rows, now) ==
    {o \in Ops : /\ Eligible(rows[o], now)
                 /\ \A p \in Ops : Eligible(rows[p], now) => Before(rows[o], rows[p])}

ClaimRow(row, w, now) ==
    [row EXCEPT !.status = "running", !.count = @ + 1, !.current = row.count + 1,
                !.worker = w, !.lease = now + LeaseDuration, !.next = NoTime]

NewAttempt(w, now) ==
    [outcome |-> "running", worker |-> w, beat |-> now,
     lease |-> now + LeaseDuration]

Claim(w, o, now) ==
    LET rows == RecoveredOps(now)
        n    == rows[o].count + 1
    IN  /\ o \in ClaimCandidates(rows, now)
        /\ ops' = [rows EXCEPT ![o] = ClaimRow(@, w, now)]
        /\ attempts' = [RecoveredAttempts(now) EXCEPT ![o][n] = NewAttempt(w, now)]
        /\ log' = [RecoveredLog(now) EXCEPT
                     ![o] = Append(@, Event("claimed", n, rows[o].progress))]
        /\ audit' = RecoveredAudit(now)

\* Nothing is eligible: only the recovery is committed.
ClaimNothing(now) ==
    /\ ClaimCandidates(RecoveredOps(now), now) = {}
    /\ RecoverExpiredOperations(now)

-----------------------------------------------------------------------------
(***************************************************************************)
(* The calls of the worker that holds an attempt.  validateActiveAttempt   *)
(* fences all of them: the operation is active, the attempt and the worker *)
(* are the current ones, and the lease is after now.                       *)
(***************************************************************************)

\* Mutant: any attempt of the operation is accepted from its worker.
ActiveAttempt_AnyAttempt(o, n, w, now) ==
    /\ ops[o].status \in Active
    /\ n <= ops[o].count
    /\ ops[o].worker = w
    /\ ops[o].lease > now

ActiveAttempt(o, n, w, now) ==
    /\ ops[o].status \in Active
    /\ ops[o].current = n
    /\ ops[o].worker = w
    /\ ops[o].lease > now

\* The attempts trigger refuses a heartbeat that moves the beat or the lease
\* back, and the transaction with it.
MonotoneBeat(o, n, now) ==
    /\ now >= attempts[o][n].beat
    /\ now + LeaseDuration >= attempts[o][n].lease

\* Mutant: the heartbeat writes a timestamp into the worker column.
HeartbeatOperation_WrongColumn(o, n, w, now) ==
    /\ ActiveAttempt(o, n, w, now)
    /\ MonotoneBeat(o, n, now)
    /\ ops' = [ops EXCEPT ![o].worker = now + LeaseDuration]
    /\ UNCHANGED <<attempts, log, audit>>

\* Mutant: the heartbeat renews the operation's lease only.
HeartbeatOperation_OneRow(o, n, w, now) ==
    /\ ActiveAttempt(o, n, w, now)
    /\ MonotoneBeat(o, n, now)
    /\ ops' = [ops EXCEPT ![o].lease = now + LeaseDuration]
    /\ UNCHANGED <<attempts, log, audit>>

\* The lease is renewed in both rows, also while the operation is cancelling.
HeartbeatOperation(o, n, w, now) ==
    /\ ActiveAttempt(o, n, w, now)
    /\ MonotoneBeat(o, n, now)
    /\ ops' = [ops EXCEPT ![o].lease = now + LeaseDuration]
    /\ attempts' = [attempts EXCEPT ![o][n].beat = now,
                                    ![o][n].lease = now + LeaseDuration]
    /\ UNCHANGED <<log, audit>>

\* Mutant: the reported percentage may fall behind the stored one.
CheckpointOperation_AnyProgress(o, n, w, now, p) ==
    /\ ActiveAttempt(o, n, w, now)
    /\ ops[o].status = "running"
    /\ ops' = [ops EXCEPT ![o].progress = p]
    /\ Logged(o, <<Event("progress", n, p)>>)
    /\ UNCHANGED <<attempts, audit>>

CheckpointOperation(o, n, w, now, p) ==
    /\ ActiveAttempt(o, n, w, now)
    /\ ops[o].status = "running"
    /\ p >= ops[o].progress
    /\ ops' = [ops EXCEPT ![o].progress = p]
    /\ Logged(o, <<Event("progress", n, p)>>)
    /\ UNCHANGED <<attempts, audit>>

CompleteOperation(o, n, w, now) ==
    /\ ActiveAttempt(o, n, w, now)
    /\ ops[o].status = "running"
    /\ Ended(o, n, "succeeded")
    /\ ops' = [ops EXCEPT ![o] =
                 WithOutcome([Released(@, "succeeded") EXCEPT !.progress = 100],
                             "set", "none", "set")]
    /\ Logged(o, <<Event("succeeded", n, 100)>>)
    /\ Audited(o, <<"succeeded">>)

\* Mutant: the retry class is not looked at.
RetryAllowed_AnyClass(o) == ops[o].status = "running"

\* Only a running operation of the safe class may ask for an automatic retry.
RetryAllowed(o) == ops[o].status = "running" /\ Class(o) = "safe"

\* FailOperation with Retry, while attempts are left.
FailAndRetry(o, n, w, now) ==
    /\ ActiveAttempt(o, n, w, now)
    /\ RetryAllowed(o)
    /\ ops[o].count < Maximum(o)
    /\ Ended(o, n, "failed")
    /\ ops' = [ops EXCEPT ![o] =
                 Cleared(Requeued(@, now + RetryDelay(ops[o].count)))]
    /\ Logged(o, <<Event("retry_scheduled", n, ops[o].progress)>>)
    /\ UNCHANGED audit

\* FailOperation otherwise: the operation fails, also out of cancelling.
FailFinally(o, n, w, now, retry) ==
    /\ ActiveAttempt(o, n, w, now)
    /\ retry => RetryAllowed(o) /\ ops[o].count >= Maximum(o)
    /\ Ended(o, n, "failed")
    /\ ops' = [ops EXCEPT ![o] =
                 WithOutcome(Released(@, "failed"), "set", "handler", "set")]
    /\ Logged(o, <<Event("failed", n, ops[o].progress)>>)
    /\ Audited(o, <<"failed">>)

FailOperation(o, n, w, now, retry) ==
    \/ retry /\ FailAndRetry(o, n, w, now)
    \/ FailFinally(o, n, w, now, retry)

AcknowledgeOperationCancellation(o, n, w, now) ==
    /\ ActiveAttempt(o, n, w, now)
    /\ ops[o].status = "cancelling"
    /\ Ended(o, n, "cancelled")
    /\ ops' = [ops EXCEPT ![o] =
                 WithOutcome(Released(@, "cancelled"), "null", "none", "set")]
    /\ Logged(o, <<Event("cancelled", n, ops[o].progress)>>)
    /\ Audited(o, <<"cancelled">>)

-----------------------------------------------------------------------------
(***************************************************************************)
(* The calls of a user.                                                    *)
(***************************************************************************)

CancelPending(o) ==
    /\ ops[o].status = "pending"
    /\ ops' = [ops EXCEPT ![o].status = "cancelled", ![o].next = NoTime,
                          ![o].cancelAt = "set", ![o].completed = "set"]
    /\ Logged(o, <<Event("cancellation_requested", 0, ops[o].progress),
                   Event("cancelled", 0, ops[o].progress)>>)

CancelRunning(o) ==
    /\ ops[o].status = "running"
    /\ ops' = [ops EXCEPT ![o].status = "cancelling", ![o].cancelAt = "set"]
    /\ Logged(o, <<Event("cancellation_requested", ops[o].current,
                         ops[o].progress)>>)

\* A cancelling or cancelled operation is left alone; a finished one refuses.
RequestOperationCancellation(o) ==
    /\ CancelPending(o) \/ CancelRunning(o)
    /\ Audited(o, <<"cancellation_requested">>)
    /\ UNCHANGED attempts

\* Mutant: the retry keeps the old cancellation request.
RetryOperation_KeepRequest(o, now) ==
    /\ ops[o].status = "failed"
    /\ Class(o) # "none"
    /\ ops[o].count < Maximum(o)
    /\ ops' = [ops EXCEPT ![o] = Cleared(Requeued(@, now))]
    /\ Logged(o, <<Event("manual_retry_scheduled", 0, ops[o].progress)>>)
    /\ Audited(o, <<"retry_scheduled">>)
    /\ UNCHANGED attempts

RetryOperation(o, now) ==
    /\ ops[o].status = "failed"
    /\ Class(o) # "none"
    /\ ops[o].count < Maximum(o)
    /\ ops' = [ops EXCEPT ![o] =
                 [Cleared(Requeued(@, now)) EXCEPT !.cancelAt = "null"]]
    /\ Logged(o, <<Event("manual_retry_scheduled", 0, ops[o].progress)>>)
    /\ Audited(o, <<"retry_scheduled">>)
    /\ UNCHANGED attempts

-----------------------------------------------------------------------------
\* A checkpoint may repeat; the event log bounds how often.
BoundedCheckpoint(o, n, w, now, p) ==
    Len(log[o]) < MaxEvents /\ CheckpointOperation(o, n, w, now, p)

WorkerCall(o, n, w, now) ==
    \/ HeartbeatOperation(o, n, w, now)
    \/ \E p \in Percents : BoundedCheckpoint(o, n, w, now, p)
    \/ CompleteOperation(o, n, w, now)
    \/ \E retry \in BOOLEAN : FailOperation(o, n, w, now, retry)
    \/ AcknowledgeOperationCancellation(o, n, w, now)

Next ==
    \E now \in Times :
      \/ \E o \in Ops, k \in Keys \cup {NoKey}, i \in Inputs :
            CreateOperation(o, k, i, now)
      \/ \E w \in Workers, o \in Ops : Claim(w, o, now)
      \/ ClaimNothing(now)
      \/ RecoverExpiredOperations(now)
      \/ \E o \in Ops, n \in Attempt, w \in Workers : WorkerCall(o, n, w, now)
      \/ \E o \in Ops : RequestOperationCancellation(o)
      \/ \E o \in Ops : RetryOperation(o, now)

Spec == Init /\ [][Next]_vars

-----------------------------------------------------------------------------
(***************************************************************************)
(* Properties.                                                             *)
(***************************************************************************)

OperationRow ==
    [status : Status, input : Inputs, key : Keys \cup {NoKey},
     created : Times \cup {NoTime}, count : 0..AttemptLimit,
     current : 0..AttemptLimit, worker : Workers \cup {NoWorker},
     lease : Int \cup {NoTime}, next : Int \cup {NoTime},
     progress : 0..100, cancelAt : Column, result : Column,
     error : {"none", "handler", "lease"}, completed : Column]

AttemptRow ==
    [outcome : Outcome, worker : Workers \cup {NoWorker},
     beat : Int \cup {NoTime}, lease : Int \cup {NoTime}]

EventRow == [code : MessageCode, attempt : 0..AttemptLimit, progress : 0..100]

\* Every row has the columns and value ranges of its table.
TypeOK ==
    /\ ops \in [Ops -> OperationRow]
    /\ attempts \in [Ops -> [Attempt -> AttemptRow]]
    /\ log \in [Ops -> Seq(EventRow)]
    /\ audit \in [Ops -> Seq(AuditAction)]

\* An active operation and its attempt agree: the current attempt is the last
\* one, it is running, and both rows name the same worker and the same lease.
HeldLease(o) ==
    LET n == ops[o].count
    IN  /\ ops[o].current = n
        /\ n \in Attempt
        /\ attempts[o][n].outcome = "running"
        /\ attempts[o][n].worker = ops[o].worker
        /\ attempts[o][n].lease = ops[o].lease
        /\ ops[o].worker \in Workers

\* Nobody holds an operation that is not active.
FreeLease(o) ==
    /\ ops[o].current = 0
    /\ ops[o].worker = NoWorker
    /\ ops[o].lease = NoTime

\* At most one attempt of an operation is running, whatever order claims,
\* heartbeats, outcomes and recoveries of any workers come in and whatever
\* clock readings they carry: it is the current attempt of an active
\* operation, and the two rows agree on worker and lease (claim, heartbeat
\* and recovery write both tables).
LeaseLedger ==
    \A o \in Ops :
      /\ IF ops[o].status \in Active THEN HeldLease(o) ELSE FreeLease(o)
      /\ \A n \in Attempt : attempts[o][n].outcome = "running" =>
            ops[o].status \in Active /\ n = ops[o].count

\* Attempts are numbered without gaps and never exceed the limit fixed at
\* creation; an operation of class none is tried at most once, whatever
\* retries and recoveries are asked for; and a queued operation has an attempt
\* left, since the claim query would pass over any other one for ever.
AttemptBudget ==
    \A o \in Ops :
      /\ \A n \in Attempt : attempts[o][n].outcome # "absent" <=> n <= ops[o].count
      /\ ops[o].status # "absent" => ops[o].count <= Maximum(o)
      /\ ops[o].status = "pending" => ops[o].count < Maximum(o)
      /\ Class(o) = "none" => ops[o].count <= 1

Unsuccessful == {"failed", "lease_expired"}

\* The status of an operation agrees with how its attempts ended: only the
\* last attempt can have succeeded or been cancelled, every earlier one
\* failed or lost its lease, and a success recorded for an attempt is never
\* reported as another outcome of the operation.
OutcomeAgrees ==
    \A o \in Ops :
      LET n    == ops[o].count
          last == attempts[o][n].outcome
      IN  /\ \A m \in Attempt : m < n => attempts[o][m].outcome \in Unsuccessful
          /\ ops[o].status = "pending" => n = 0 \/ last \in Unsuccessful
          /\ ops[o].status = "failed" => n > 0 /\ last \in Unsuccessful
          /\ ops[o].status = "succeeded" => n > 0 /\ last = "succeeded"
          /\ ops[o].status = "cancelled" =>
               n = 0 \/ last \in Unsuccessful \cup {"cancelled"}

\* An accepted cancellation holds: until a user retries the operation it is
\* never queued, running or succeeded again, whether the worker answers,
\* completes at the same moment, fails or is lost.
CancellationHolds ==
    \A o \in Ops :
      /\ ops[o].cancelAt = "set" => ops[o].status \in {"cancelling", "cancelled", "failed"}
      /\ ops[o].status \in {"cancelling", "cancelled"} => ops[o].cancelAt = "set"

\* One idempotency key never creates two operations, however often and with
\* whatever input the request is repeated.
IdempotentCreation ==
    \A o, p \in Ops : ops[o].key = ops[p].key /\ ops[o].key # NoKey => o = p

\* The column values that the trigger operations_restrict_update accepts for
\* a status.
StateShape(row) ==
    /\ IF row.status \in Active
       THEN row.current # 0 /\ row.worker # NoWorker /\ row.lease # NoTime
       ELSE row.current = 0 /\ row.worker = NoWorker /\ row.lease = NoTime
    /\ row.next # NoTime <=> row.status = "pending"
    /\ row.result = "set" => row.status \in {"succeeded", "failed"}
    /\ row.error # "none" <=> row.status = "failed"
    /\ row.completed = "set" <=> row.status \in {"failed"} \cup Terminal
    /\ row.status = "succeeded" => row.progress = 100

LegalDestinations(status) ==
    CASE status = "pending" -> {"running", "cancelled"}
      [] status = "running" ->
           {"running", "pending", "cancelling", "succeeded", "failed"}
      [] status = "cancelling" -> {"cancelling", "cancelled", "failed"}
      [] status = "failed" -> {"pending"}
      [] OTHER -> {}

\* What operations_restrict_update lets an UPDATE of a row do.
OperationUpdateAccepted(old, new) ==
    /\ new.input = old.input /\ new.key = old.key /\ new.created = old.created
    /\ new.progress >= old.progress
    /\ new.count >= old.count
    /\ new.count <= MaxAttempts(new.input)
    /\ new.status \in LegalDestinations(old.status)
    /\ StateShape(new)

\* No statement of the repository is one the trigger would abort.  An aborted
\* statement rolls the whole transaction back, recoveries of other operations
\* included, so a row written in a shape the trigger refuses would block
\* every later claim.  (A recovery and a claim of one row in one transaction
\* are two statements; RetryDelay keeps them apart.)
UpdatesAccepted ==
    [][\A o \in Ops :
         ops'[o] # ops[o] /\ ops[o].status # "absent" =>
           OperationUpdateAccepted(ops[o], ops'[o])]_vars

\* A finished attempt is never written again: a worker whose lease was
\* recovered, or which answers twice, cannot change what was recorded.
AttemptsFinal ==
    [][\A o \in Ops, n \in Attempt :
         attempts[o][n].outcome \notin {"absent", "running"} =>
           attempts'[o][n] = attempts[o][n]]_vars

\* Work is replayed without a user only when its class is safe.
AutomaticRetryIsSafe ==
    [][\A o \in Ops :
         ops[o].status \in Active /\ ops'[o].status = "pending" =>
           Class(o) = "safe"]_vars

-----------------------------------------------------------------------------
(***************************************************************************)
(* The contract of the queue, and how the rows present it.                 *)
(***************************************************************************)

ContractState ==
    [absent |-> "absent", pending |-> "waiting", running |-> "held",
     cancelling |-> "stopping", succeeded |-> "done", failed |-> "failed",
     cancelled |-> "cancelled"]

Presented(row) ==
    [state |-> ContractState[row.status], kind |-> row.input, tries |-> row.count]

Contract == INSTANCE WorkContract
    WITH Items <- Ops, Kinds <- Inputs, Policy <- RetryClass,
         Limit <- [i \in Inputs |-> MaxAttempts(i)],
         work <- [o \in Ops |-> Presented(ops[o])]

\* The queue implements WorkContract: through every interleaving of claims,
\* recoveries, late answers, cancellations and retries an operation moves as
\* the contract allows, no more often than its limit, and never again on its
\* own unless its class is safe.
KeepsContract == Contract!Spec
=============================================================================

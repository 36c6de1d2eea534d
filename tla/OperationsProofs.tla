-------------------------- MODULE OperationsProofs --------------------------
(***************************************************************************)
(* Proofs about the operation queue, for every set of operations, workers, *)
(* keys and inputs and for every clock.  All invariants but the uniqueness *)
(* of keys speak of one operation and its attempts, so the induction is    *)
(* carried by a predicate on one row r of the operations table and the     *)
(* function a of its attempts; the lemmas say what each repository method  *)
(* does to such a pair.                                                    *)
(***************************************************************************)
EXTENDS Operations, SequenceTheorems, TLAPS

RowType(r, a) == r \in OperationRow /\ a \in [Attempt -> AttemptRow]

RowHeld(r, a) ==
    /\ r.current = r.count
    /\ r.count \in Attempt
    /\ a[r.count].outcome = "running"
    /\ a[r.count].worker = r.worker
    /\ a[r.count].lease = r.lease
    /\ r.worker \in Workers

RowFree(r) == r.current = 0 /\ r.worker = NoWorker /\ r.lease = NoTime

RowLedger(r, a) ==
    /\ r.status \in Active => RowHeld(r, a)
    /\ r.status \notin Active => RowFree(r)
    /\ \A n \in Attempt : a[n].outcome = "running" =>
          r.status \in Active /\ n = r.count

RowBudget(r, a) ==
    /\ \A n \in Attempt : a[n].outcome # "absent" <=> n <= r.count
    /\ r.status # "absent" => ValidMaxAttempts(RetryClass[r.input], Requested[r.input])
    /\ r.status # "absent" => r.count <= MaxAttempts(r.input)
    /\ r.status = "pending" => r.count < MaxAttempts(r.input)

RowOutcome(r, a) ==
    /\ \A m \in Attempt : m < r.count => a[m].outcome \in Unsuccessful
    /\ r.status = "pending" => r.count = 0 \/ a[r.count].outcome \in Unsuccessful
    /\ r.status = "failed" => r.count > 0 /\ a[r.count].outcome \in Unsuccessful
    /\ r.status = "succeeded" => r.count > 0 /\ a[r.count].outcome = "succeeded"
    /\ r.status = "cancelled" =>
         r.count = 0 \/ a[r.count].outcome \in Unsuccessful \cup {"cancelled"}

RowCancel(r) ==
    /\ r.cancelAt = "set" => r.status \in {"cancelling", "cancelled", "failed"}
    /\ r.status \in {"cancelling", "cancelled"} => r.cancelAt = "set"

RowAbsent(r) == r.status = "absent" => r = NoOperation

RowShape(r) == r.status # "absent" => StateShape(r)

RowInv(r, a) ==
    /\ RowType(r, a)
    /\ RowLedger(r, a)
    /\ RowBudget(r, a)
    /\ RowOutcome(r, a)
    /\ RowCancel(r)
    /\ RowAbsent(r)
    /\ RowShape(r)

HistoryType ==
    /\ log \in [Ops -> Seq(EventRow)]
    /\ audit \in [Ops -> Seq(AuditAction)]

Inv ==
    /\ ops = [o \in Ops |-> ops[o]]
    /\ attempts = [o \in Ops |-> attempts[o]]
    /\ \A o \in Ops : RowInv(ops[o], attempts[o])
    /\ HistoryType
    /\ IdempotentCreation

\* The whole induction of an attempt that ends: its row is released into a
\* status that is not active, and the attempt gets an outcome to match.
LEMMA ReleaseKeeps ==
  ASSUME NEW r, NEW a, RowInv(r, a), r.status \in Active,
         NEW s \in {"pending", "failed", "succeeded", "cancelled"},
         NEW out \in {"succeeded", "failed", "cancelled", "lease_expired"},
         NEW q, q \in OperationRow,
         q.status = s, q.input = r.input, q.count = r.count, RowFree(q),
         q.cancelAt = r.cancelAt,
         q.cancelAt = "set" => s \in {"cancelled", "failed"},
         s = "cancelled" => q.cancelAt = "set" /\ out = "cancelled",
         s \in {"pending", "failed"} => out \in Unsuccessful,
         s = "succeeded" => out = "succeeded",
         s = "pending" => r.count < MaxAttempts(r.input),
         StateShape(q)
  PROVE  RowInv(q, [a EXCEPT ![r.count].outcome = out])
<1> DEFINE b == [a EXCEPT ![r.count].outcome = out]
<1>1. RowHeld(r, a) /\ RowType(r, a)
  BY DEF RowInv, RowLedger
<1>2. /\ r.count \in Attempt
      /\ \A n \in Attempt : n # r.count => b[n] = a[n]
      /\ b[r.count].outcome = out
  BY <1>1 DEF RowHeld, RowType, AttemptRow
<1>3. RowType(q, b)
  BY <1>1 DEF RowType, RowHeld, AttemptRow, Outcome
<1> HIDE DEF b
<1>4. RowLedger(q, b)
  BY <1>2 DEF RowInv, RowLedger, Active
<1>5. RowBudget(q, b)
  BY <1>1, <1>2 DEF RowInv, RowBudget, RowHeld, Active
<1>6. RowOutcome(q, b)
  BY <1>2, <1>1 DEF RowInv, RowOutcome, Unsuccessful, Attempt, RowType, OperationRow
<1>7. RowCancel(q) /\ RowAbsent(q) /\ RowShape(q)
  BY DEF RowCancel, RowAbsent, RowShape
<1> QED
  BY <1>3, <1>4, <1>5, <1>6, <1>7 DEF RowInv, b

\* An attempt that goes on: status, lease or progress of an active row change,
\* and the attempt stays running with the same worker and the same lease.
LEMMA HoldKeeps ==
  ASSUME NEW r, NEW a, RowInv(r, a), r.status \in Active,
         NEW q, q \in OperationRow, q.status \in Active,
         NEW b, b \in [Attempt -> AttemptRow],
         q.input = r.input, q.count = r.count, q.current = r.current,
         q.worker = r.worker,
         q.cancelAt = "set" <=> q.status = "cancelling",
         \A n \in Attempt : n # r.count => b[n] = a[n],
         b[r.count].outcome = "running", b[r.count].worker = q.worker,
         b[r.count].lease = q.lease,
         StateShape(q)
  PROVE  RowInv(q, b)
<1>1. RowHeld(r, a) /\ RowType(r, a)
  BY DEF RowInv, RowLedger
<1>2. RowType(q, b)
  BY DEF RowType
<1>3. RowLedger(q, b)
  BY <1>1 DEF RowInv, RowLedger, RowHeld, Active
<1>4. RowBudget(q, b)
  BY <1>1 DEF RowInv, RowBudget, RowHeld, Active
<1>5. RowOutcome(q, b)
  BY <1>1 DEF RowInv, RowOutcome, RowHeld, Attempt, Active, RowType, OperationRow
<1>6. RowCancel(q) /\ RowAbsent(q) /\ RowShape(q)
  BY DEF RowCancel, RowAbsent, RowShape, Active
<1> QED
  BY <1>2, <1>3, <1>4, <1>5, <1>6 DEF RowInv

\* A row that nobody holds moves between statuses that nobody holds.
LEMMA FreeKeeps ==
  ASSUME NEW r, NEW a, RowInv(r, a), r.status \notin Active,
         NEW q, q \in OperationRow, q.status \in {"pending", "cancelled"},
         r.status # "absent" => q.input = r.input,
         ValidMaxAttempts(RetryClass[q.input], Requested[q.input]),
         q.count = r.count, RowFree(q),
         q.count <= MaxAttempts(q.input),
         q.status = "pending" => q.count < MaxAttempts(q.input),
         r.status \in {"absent", "pending", "failed"},
         q.cancelAt = "set" <=> q.status = "cancelled",
         StateShape(q)
  PROVE  RowInv(q, a)
<1>1. RowType(q, a)
  BY DEF RowInv, RowType
<1>2. RowLedger(q, a)
  BY DEF RowInv, RowLedger, Active
<1>3. RowBudget(q, a)
  BY DEF RowInv, RowBudget
<1>4. RowOutcome(q, a)
  <2>1. r.status = "absent" => r.count = 0
    BY DEF RowInv, RowAbsent, NoOperation
  <2> QED
    BY <2>1 DEF RowInv, RowOutcome
<1>5. RowCancel(q) /\ RowAbsent(q) /\ RowShape(q)
  BY DEF RowCancel, RowAbsent, RowShape
<1> QED
  BY <1>1, <1>2, <1>3, <1>4, <1>5 DEF RowInv

\* The type of MaxAttempts for an input that CreateOperation accepts.
LEMMA MaximumType ==
  ASSUME NEW i \in Inputs, ValidMaxAttempts(RetryClass[i], Requested[i])
  PROVE  /\ MaxAttempts(i) \in Attempt
         /\ RetryClass[i] = "none" => MaxAttempts(i) = 1
  BY InputAssumption, BoundAssumption
  DEF ValidMaxAttempts, MaxAttempts, NormalizeMaxAttempts, Attempt

\* A claim of an eligible row.
LEMMA ClaimKeeps ==
  ASSUME NEW r, NEW a, RowInv(r, a), NEW w \in Workers, NEW now \in Times,
         Eligible(r, now)
  PROVE  RowInv(ClaimRow(r, w, now), [a EXCEPT ![r.count + 1] = NewAttempt(w, now)])
<1> DEFINE q == ClaimRow(r, w, now)
           b == [a EXCEPT ![r.count + 1] = NewAttempt(w, now)]
<1>1. RowType(r, a)
  BY DEF RowInv
<1>2. r.status = "pending" /\ r.count + 1 \in Attempt /\ r.count + 1 <= MaxAttempts(r.input)
  BY <1>1, MaximumType, BoundAssumption
  DEF Eligible, RowInv, RowBudget, RowType, OperationRow, Attempt
<1>3. /\ now + LeaseDuration \in Int /\ now \in Int
      /\ NewAttempt(w, now) \in AttemptRow
  BY BoundAssumption DEF NewAttempt, AttemptRow, Outcome
<1>4. /\ q \in OperationRow
      /\ q.status = "running" /\ q.input = r.input /\ q.count = r.count + 1
      /\ q.current = q.count /\ q.worker = w /\ q.lease = now + LeaseDuration
      /\ q.next = NoTime /\ q.cancelAt = r.cancelAt /\ q.result = r.result
      /\ q.error = r.error /\ q.completed = r.completed
  <2>1. /\ q.status = "running" /\ q.input = r.input /\ q.count = r.count + 1
        /\ q.current = q.count /\ q.worker = w /\ q.lease = now + LeaseDuration
        /\ q.next = NoTime /\ q.cancelAt = r.cancelAt /\ q.result = r.result
        /\ q.error = r.error /\ q.completed = r.completed
    BY <1>1 DEF ClaimRow, RowType, OperationRow
  <2>2. /\ "running" \in Status /\ r.count + 1 \in 0..AttemptLimit
        /\ w \in Workers \cup {NoWorker} /\ NoTime \in Int \cup {NoTime}
        /\ now + LeaseDuration \in Int \cup {NoTime}
    BY <1>2, <1>3 DEF Status, Active, Attempt
  <2>3. q \in OperationRow
    BY ZenonT(60), <1>1, <2>2 DEF ClaimRow, RowType, OperationRow
  <2> QED
    BY <2>1, <2>3
<1>5. /\ b \in [Attempt -> AttemptRow]
      /\ \A n \in Attempt : n # r.count + 1 => b[n] = a[n]
      /\ b[r.count + 1] = NewAttempt(w, now)
  BY <1>1, <1>2, <1>3 DEF RowType
<1> HIDE DEF q, b
<1>6. RowType(q, b)
  BY <1>4, <1>5 DEF RowType
<1>7. RowLedger(q, b)
  BY <1>2, <1>3, <1>4, <1>5 DEF RowInv, RowLedger, RowHeld, NewAttempt, Active
<1>8. RowBudget(q, b)
  BY <1>1, <1>2, <1>4, <1>5
  DEF RowInv, RowBudget, NewAttempt, Attempt, RowType, OperationRow
<1>9. RowOutcome(q, b)
  BY <1>1, <1>2, <1>4, <1>5 DEF RowInv, RowOutcome, Attempt, RowType, OperationRow
<1>10. RowCancel(q) /\ RowAbsent(q)
  BY <1>2, <1>4 DEF RowInv, RowCancel, RowAbsent
<1>11. RowShape(q)
  BY <1>1, <1>2, <1>3, <1>4, NullAssumption
  DEF RowInv, RowShape, StateShape, Active, Terminal, Attempt
<1> QED
  BY <1>6, <1>7, <1>8, <1>9, <1>10, <1>11 DEF RowInv, q, b

-----------------------------------------------------------------------------
\* A step that touches one operation preserves the invariant when it
\* preserves that operation's part of it and does not reuse a key.
LEMMA OneRow ==
  ASSUME Inv, NEW o \in Ops,
         ops' = [p \in Ops |-> ops'[p]],
         attempts' = [p \in Ops |-> attempts'[p]],
         \A p \in Ops : p # o => ops'[p] = ops[p] /\ attempts'[p] = attempts[p],
         RowInv(ops'[o], attempts'[o]),
         HistoryType',
         ops'[o].key = ops[o].key \/ FindByIdempotencyKey(ops'[o].key) = {}
  PROVE  Inv'
<1>1. \A p \in Ops : RowInv(ops'[p], attempts'[p])
  BY DEF Inv
<1>2. IdempotentCreation'
  <2> SUFFICES ASSUME NEW x \in Ops, NEW y \in Ops, x # y,
                      ops'[x].key = ops'[y].key, ops'[x].key # NoKey
               PROVE  FALSE
    BY Zenon DEF IdempotentCreation
  <2>1. CASE ops'[o].key = ops[o].key
    <3>1. ops'[x].key = ops[x].key /\ ops'[y].key = ops[y].key
      BY <2>1
    <3> QED
      BY <3>1, ZenonT(60) DEF Inv, IdempotentCreation
  <2>2. CASE FindByIdempotencyKey(ops'[o].key) = {}
    <3>1. \A p \in Ops : ops'[o].key # NoKey => ops[p].key # ops'[o].key
      BY <2>2, Zenon DEF FindByIdempotencyKey
    <3>2. x # o => ops'[x] = ops[x]
      OBVIOUS
    <3>3. y # o => ops'[y] = ops[y]
      OBVIOUS
    <3>4. x # o /\ y # o
      BY <3>1, <3>2, <3>3, Zenon
    <3> QED
      <4>1. ops[x].key = ops[y].key /\ ops[x].key # NoKey
        BY <3>2, <3>3, <3>4
      <4>2. IdempotentCreation
        BY DEF Inv
      <4> QED
        BY <4>1, <4>2, ZenonT(40) DEF IdempotentCreation
  <2> QED
    BY <2>1, <2>2
<1> QED
  BY <1>1, <1>2 DEF Inv

\* What a step does to the event log and the audit trail keeps their types.
LEMMA HistoryStep ==
  ASSUME HistoryType, NEW o \in Ops,
         NEW es \in Seq(EventRow), NEW acts \in Seq(AuditAction),
         log' = log \/ Logged(o, es),
         audit' = audit \/ Audited(o, acts)
  PROVE  HistoryType'
<1>1. log' \in [Ops -> Seq(EventRow)]
  <2>1. log \in [Ops -> Seq(EventRow)] /\ log[o] \in Seq(EventRow)
    BY DEF HistoryType
  <2>2. log[o] \o es \in Seq(EventRow)
    BY <2>1
  <2> QED
    BY ZenonT(60), <2>1, <2>2 DEF Logged
<1>2. audit' \in [Ops -> Seq(AuditAction)]
  <2>1. audit \in [Ops -> Seq(AuditAction)] /\ audit[o] \in Seq(AuditAction)
    BY DEF HistoryType
  <2>2. audit[o] \o acts \in Seq(AuditAction)
    BY <2>1, ConcatProperties
  <2> QED
    BY ZenonT(60), <2>1, <2>2 DEF Audited
<1> QED
  BY <1>1, <1>2 DEF HistoryType

\* An event of a known code, attempt number and percentage is a row of
\* operation_events.
LEMMA EventTyped ==
  ASSUME NEW c \in MessageCode, NEW n \in 0..AttemptLimit, NEW p \in 0..100
  PROVE  Event(c, n, p) \in EventRow
  BY DEF Event, EventRow

\* CreateOperation preserves the invariant.
LEMMA CreateStep ==
  ASSUME Inv, NEW o \in Ops, NEW k \in Keys \cup {NoKey}, NEW i \in Inputs,
         NEW now \in Times, CreateOperation(o, k, i, now)
  PROVE  Inv'
<1> DEFINE r == ops[o]
           q == [r EXCEPT !.status = "pending", !.input = i, !.key = k,
                          !.created = now, !.next = now]
<1>1. RowInv(r, attempts[o]) /\ r \in OperationRow /\ r.status = "absent"
  BY DEF Inv, RowInv, RowType, CreateOperation
<1>2. r = NoOperation
  BY <1>1 DEF RowInv, RowAbsent
<1>3. ops' = [ops EXCEPT ![o] = q] /\ attempts' = attempts
  BY ZenonT(60) DEF CreateOperation
<1>4. /\ "pending" \in Status /\ now \in Times \cup {NoTime}
      /\ now \in Int \cup {NoTime} /\ now # NoTime
  BY BoundAssumption, NullAssumption DEF Status
<1>5. q \in OperationRow
  BY ZenonT(60), <1>1, <1>4 DEF OperationRow
<1>6. /\ q.status = "pending" /\ q.input = i /\ q.key = k /\ q.next = now
      /\ q.count = 0 /\ q.current = 0 /\ q.worker = NoWorker /\ q.lease = NoTime
      /\ q.cancelAt = "null" /\ q.result = "null" /\ q.error = "none"
      /\ q.completed = "null"
  BY <1>2 DEF NoOperation
<1> HIDE DEF q
<1>7. RowInv(q, attempts[o])
  <2>1. StateShape(q) /\ RowFree(q)
    BY <1>4, <1>6 DEF StateShape, RowFree, Active, Terminal
  <2>2. ValidMaxAttempts(RetryClass[q.input], Requested[q.input])
    BY <1>6 DEF CreateOperation
  <2>3. q.count < MaxAttempts(q.input) /\ q.count <= MaxAttempts(q.input)
    BY <1>6, <2>2, MaximumType DEF Attempt
  <2>4. r.count = 0
    BY <1>2 DEF NoOperation
  <2> QED
    BY <1>1, <1>5, <1>6, <2>1, <2>2, <2>3, <2>4, FreeKeeps DEF Active
<1>8. HistoryType'
  <2>1. Event("created", 0, 0) \in EventRow /\ "created" \in AuditAction
    BY EventTyped, BoundAssumption DEF MessageCode, AuditAction
  <2>2. <<Event("created", 0, 0)>> \in Seq(EventRow) /\ <<"created">> \in Seq(AuditAction)
    BY <2>1
  <2> QED
    BY ZenonT(60), <2>2, HistoryStep DEF Inv, CreateOperation
<1>9. FindByIdempotencyKey(q.key) = {}
  BY <1>6 DEF CreateOperation
<1> QED
  BY <1>3, <1>7, <1>8, <1>9, OneRow DEF Inv

-----------------------------------------------------------------------------
\* Releasing a row clears its four lease columns and changes nothing else.
LEMMA ReleasedRow ==
  ASSUME NEW r \in OperationRow, NEW s \in Status
  PROVE  /\ Released(r, s) \in OperationRow
         /\ RowFree(Released(r, s))
         /\ Released(r, s).status = s
         /\ Released(r, s).next = NoTime
         /\ Released(r, s).input = r.input
         /\ Released(r, s).key = r.key
         /\ Released(r, s).created = r.created
         /\ Released(r, s).count = r.count
         /\ Released(r, s).progress = r.progress
         /\ Released(r, s).cancelAt = r.cancelAt
         /\ Released(r, s).result = r.result
         /\ Released(r, s).error = r.error
         /\ Released(r, s).completed = r.completed
<1>1. /\ 0 \in 0..AttemptLimit /\ NoWorker \in Workers \cup {NoWorker}
      /\ NoTime \in Int \cup {NoTime}
  BY BoundAssumption
<1>2. Released(r, s) \in OperationRow
  BY ZenonT(60), <1>1 DEF Released, OperationRow
<1> QED
  BY <1>2 DEF Released, OperationRow, RowFree

\* A step that ends the current attempt of o with outcome out and releases
\* the row into q.
LEMMA EndStep ==
  ASSUME Inv, NEW o \in Ops, ops[o].status \in Active,
         NEW n, n = ops[o].current,
         NEW out \in {"succeeded", "failed", "cancelled", "lease_expired"},
         Ended(o, n, out),
         NEW q \in OperationRow, ops' = [ops EXCEPT ![o] = q],
         q.status \in {"pending", "failed", "succeeded", "cancelled"},
         q.input = ops[o].input, q.key = ops[o].key, q.count = ops[o].count,
         RowFree(q), q.cancelAt = ops[o].cancelAt,
         q.cancelAt = "set" => q.status \in {"cancelled", "failed"},
         q.status = "cancelled" => q.cancelAt = "set" /\ out = "cancelled",
         q.status \in {"pending", "failed"} => out \in Unsuccessful,
         q.status = "succeeded" => out = "succeeded",
         q.status = "pending" => ops[o].count < Maximum(o),
         StateShape(q), HistoryType'
  PROVE  Inv'
<1>1. RowInv(ops[o], attempts[o]) /\ n = ops[o].count
  BY DEF Inv, RowInv, RowLedger, RowHeld
<1>2. RowInv(q, [attempts[o] EXCEPT ![n].outcome = out])
  BY ZenonT(60), <1>1, ReleaseKeeps DEF Maximum
<1>3. attempts' = [attempts EXCEPT ![o] = [attempts[o] EXCEPT ![n].outcome = out]]
  BY DEF Ended
<1>4. /\ ops'[o] = q /\ attempts'[o] = [attempts[o] EXCEPT ![n].outcome = out]
      /\ ops' = [p \in Ops |-> ops'[p]] /\ attempts' = [p \in Ops |-> attempts'[p]]
      /\ \A p \in Ops : p # o => ops'[p] = ops[p] /\ attempts'[p] = attempts[p]
  BY ZenonT(60), <1>3 DEF Inv
<1> QED
  BY ZenonT(60), <1>2, <1>4, OneRow

\* The history that a worker's call appends.
LEMMA CallHistory ==
  ASSUME Inv, NEW o \in Ops, ops[o].status \in Active,
         NEW n, n = ops[o].current,
         NEW c \in MessageCode, NEW p \in 0..100, NEW x \in AuditAction,
         Logged(o, <<Event(c, n, p)>>),
         audit' = audit \/ Audited(o, <<x>>)
  PROVE  HistoryType'
<1>1. n \in 0..AttemptLimit
  BY DEF Inv, RowInv, RowType, OperationRow
<1>2. <<Event(c, n, p)>> \in Seq(EventRow) /\ <<x>> \in Seq(AuditAction)
  BY <1>1, EventTyped
<1> QED
  BY ZenonT(60), <1>2, HistoryStep DEF Inv

\* The facts that fencing gives a call of the current attempt.
LEMMA Fenced ==
  ASSUME Inv, NEW o \in Ops, NEW n, NEW w, NEW now, ActiveAttempt(o, n, w, now)
  PROVE  /\ ops[o] \in OperationRow
         /\ ops[o].status \in Active
         /\ n = ops[o].current /\ n = ops[o].count /\ n \in Attempt
         /\ ops[o].progress \in 0..100
         /\ ops[o].next = NoTime /\ ops[o].result = "null" /\ ops[o].error = "none"
         /\ ops[o].completed = "null"
         /\ ops[o].status = "cancelling" <=> ops[o].cancelAt = "set"
         /\ RowInv(ops[o], attempts[o])
<1>1. RowInv(ops[o], attempts[o]) /\ ops[o] \in OperationRow
  BY DEF Inv, RowInv, RowType
<1>2. /\ ops[o].status \in Active /\ n = ops[o].current
      /\ n = ops[o].count /\ n \in Attempt
  BY <1>1 DEF ActiveAttempt, RowInv, RowLedger, RowHeld
<1>3. /\ ops[o].next = NoTime /\ ops[o].result = "null" /\ ops[o].error = "none"
      /\ ops[o].completed = "null"
  BY <1>1, <1>2 DEF RowInv, RowShape, StateShape, Active, Terminal, OperationRow, Column
<1>4. ops[o].status = "cancelling" <=> ops[o].cancelAt = "set"
  BY <1>1, <1>2 DEF RowInv, RowCancel, Active
<1> QED
  BY <1>1, <1>2, <1>3, <1>4 DEF OperationRow

\* Recording an outcome changes its three columns and nothing else.
LEMMA OutcomeRow ==
  ASSUME NEW r \in OperationRow, NEW res \in Column,
         NEW e \in {"none", "handler", "lease"}, NEW c \in Column
  PROVE  LET q == WithOutcome(r, res, e, c)
         IN  /\ q \in OperationRow
             /\ q.status = r.status /\ q.input = r.input /\ q.key = r.key
             /\ q.created = r.created
             /\ q.count = r.count /\ q.cancelAt = r.cancelAt /\ q.next = r.next
             /\ q.current = r.current /\ q.worker = r.worker /\ q.lease = r.lease
             /\ q.progress = r.progress
             /\ q.result = res /\ q.error = e /\ q.completed = c
<1>1. WithOutcome(r, res, e, c) \in OperationRow
  BY ZenonT(60) DEF WithOutcome, OperationRow
<1> QED
  BY <1>1 DEF WithOutcome, OperationRow

\* CompleteOperation preserves the invariant.
LEMMA CompleteStep ==
  ASSUME Inv, NEW o \in Ops, NEW n \in Attempt, NEW w \in Workers,
         NEW now \in Times, CompleteOperation(o, n, w, now)
  PROVE  Inv'
<1> DEFINE r == Released(ops[o], "succeeded")
           s == [r EXCEPT !.progress = 100]
           q == WithOutcome(s, "set", "none", "set")
<1>1. ActiveAttempt(o, n, w, now) /\ ops[o].status = "running"
  BY DEF CompleteOperation
<1>2. /\ r \in OperationRow /\ RowFree(r) /\ r.status = "succeeded"
      /\ r.input = ops[o].input /\ r.key = ops[o].key /\ r.count = ops[o].count
      /\ r.cancelAt = ops[o].cancelAt /\ r.next = NoTime
  BY <1>1, Fenced, ReleasedRow DEF Status, Terminal
<1>3. ops' = [ops EXCEPT ![o] = q] /\ Ended(o, n, "succeeded")
  BY DEF CompleteOperation
<1> HIDE DEF r
<1>4. /\ s \in OperationRow /\ RowFree(s) /\ s.status = "succeeded"
      /\ s.input = ops[o].input /\ s.key = ops[o].key /\ s.count = ops[o].count
      /\ s.cancelAt = ops[o].cancelAt /\ s.next = NoTime /\ s.progress = 100
  BY <1>2 DEF OperationRow, RowFree
<1> HIDE DEF s
<1>5. /\ q \in OperationRow /\ RowFree(q) /\ q.status = "succeeded"
      /\ q.input = ops[o].input /\ q.key = ops[o].key /\ q.count = ops[o].count
      /\ q.cancelAt = ops[o].cancelAt /\ q.next = NoTime /\ q.progress = 100
      /\ q.error = "none" /\ q.completed = "set"
  BY <1>4, OutcomeRow DEF RowFree, Column
<1> HIDE DEF q
<1>6. StateShape(q)
  BY <1>5 DEF StateShape, RowFree, Active, Terminal
<1>7. q.cancelAt # "set"
  BY <1>1, <1>5, Fenced
<1>8. HistoryType'
  <2>1. "succeeded" \in MessageCode /\ 100 \in 0..100 /\ "succeeded" \in AuditAction
    BY DEF MessageCode, AuditAction
  <2>2. Logged(o, <<Event("succeeded", n, 100)>>) /\ Audited(o, <<"succeeded">>)
    BY DEF CompleteOperation
  <2> QED
    BY ZenonT(60), <1>1, <2>1, <2>2, Fenced, CallHistory
<1> QED
  BY ZenonT(60), <1>1, <1>3, <1>5, <1>6, <1>7, <1>8, Fenced, EndStep DEF Active

\* An attempt that ends in failure or cancellation: the row is released and
\* gets its outcome columns.
LEMMA SettleStep ==
  ASSUME Inv, NEW o \in Ops, NEW n \in Attempt, NEW w \in Workers,
         NEW now \in Times, ActiveAttempt(o, n, w, now),
         NEW s \in {"failed", "cancelled"},
         s = "cancelled" => ops[o].status = "cancelling",
         NEW e \in {"none", "handler"}, e = "none" <=> s = "cancelled",
         NEW res \in Column, res = "set" => s = "failed",
         ops' = [ops EXCEPT ![o] = WithOutcome(Released(ops[o], s), res, e, "set")],
         Ended(o, n, s), HistoryType'
  PROVE  Inv'
<1> DEFINE r == Released(ops[o], s)
           q == WithOutcome(r, res, e, "set")
<1>1. /\ r \in OperationRow /\ RowFree(r) /\ r.status = s
      /\ r.input = ops[o].input /\ r.key = ops[o].key /\ r.count = ops[o].count
      /\ r.cancelAt = ops[o].cancelAt /\ r.next = NoTime
  BY SMTT(60), Fenced, ReleasedRow DEF Status, Terminal
<1> HIDE DEF r
<1>2. /\ q \in OperationRow /\ RowFree(q) /\ q.status = s
      /\ q.input = ops[o].input /\ q.key = ops[o].key /\ q.count = ops[o].count
      /\ q.cancelAt = ops[o].cancelAt /\ q.next = NoTime
      /\ q.result = res /\ q.error = e /\ q.completed = "set"
  BY <1>1, OutcomeRow DEF RowFree, Column
<1>3. ops' = [ops EXCEPT ![o] = q]
  BY DEF r
<1> HIDE DEF q
<1>4. StateShape(q)
  BY SMTT(60), <1>2 DEF StateShape, RowFree, Active, Terminal
<1>5. s = "cancelled" => q.cancelAt = "set"
  BY SMTT(60), <1>2, Fenced
<1>6. /\ ops[o].status \in Active /\ n = ops[o].current
      /\ ops[o].status = "cancelling" <=> ops[o].cancelAt = "set"
  BY Fenced
<1>7. q.cancelAt = "set" => q.status \in {"cancelled", "failed"}
  BY <1>2
<1>8. /\ s \in {"succeeded", "failed", "cancelled", "lease_expired"}
      /\ q.status \in {"pending", "failed", "succeeded", "cancelled"}
      /\ q.status = "cancelled" => q.cancelAt = "set" /\ s = "cancelled"
      /\ q.status \in {"pending", "failed"} => s \in Unsuccessful
      /\ q.status = "succeeded" => s = "succeeded"
      /\ q.status # "pending"
  BY <1>2, <1>5 DEF Unsuccessful
<1>9. /\ q \in OperationRow /\ RowFree(q) /\ q.input = ops[o].input
      /\ q.key = ops[o].key /\ q.count = ops[o].count
      /\ q.cancelAt = ops[o].cancelAt
  BY <1>2
<1>10. CASE s = "failed"
  BY ZenonT(60), <1>3, <1>4, <1>6, <1>7, <1>8, <1>9, <1>10, EndStep
<1>11. CASE s = "cancelled"
  BY ZenonT(60), <1>3, <1>4, <1>6, <1>7, <1>8, <1>9, <1>11, EndStep
<1> QED
  BY SMTT(60), <1>10, <1>11

\* AcknowledgeOperationCancellation preserves the invariant.
LEMMA AcknowledgeStep ==
  ASSUME Inv, NEW o \in Ops, NEW n \in Attempt, NEW w \in Workers,
         NEW now \in Times, AcknowledgeOperationCancellation(o, n, w, now)
  PROVE  Inv'
<1>1. ActiveAttempt(o, n, w, now) /\ ops[o].status = "cancelling"
  BY DEF AcknowledgeOperationCancellation
<1>2. HistoryType'
  BY ZenonT(60), <1>1, Fenced, CallHistory
  DEF AcknowledgeOperationCancellation, MessageCode, AuditAction
<1> QED
  BY ZenonT(60), <1>1, <1>2, SettleStep DEF AcknowledgeOperationCancellation, Column

\* FailOperation without a retry preserves the invariant.
LEMMA FailFinallyStep ==
  ASSUME Inv, NEW o \in Ops, NEW n \in Attempt, NEW w \in Workers,
         NEW now \in Times, NEW retry \in BOOLEAN,
         FailFinally(o, n, w, now, retry)
  PROVE  Inv'
<1>1. ActiveAttempt(o, n, w, now)
  BY DEF FailFinally
<1>2. HistoryType'
  BY ZenonT(60), <1>1, Fenced, CallHistory DEF FailFinally, MessageCode, AuditAction
<1> QED
  BY ZenonT(60), <1>1, <1>2, SettleStep DEF FailFinally, Column

\* Requeueing releases the row and gives it a time to be eligible from.
LEMMA RequeuedRow ==
  ASSUME NEW r \in OperationRow, NEW t \in Int
  PROVE  LET q == Requeued(r, t)
         IN  /\ q \in OperationRow /\ RowFree(q)
             /\ q.status = "pending" /\ q.next = t
             /\ q.input = r.input /\ q.key = r.key /\ q.created = r.created
             /\ q.count = r.count /\ q.progress = r.progress
             /\ q.cancelAt = r.cancelAt /\ q.result = r.result
             /\ q.error = r.error /\ q.completed = r.completed
<1> DEFINE z == Released(r, "pending")
<1>1. "pending" \in Status /\ t \in Int \cup {NoTime}
  BY DEF Status
<1>2. /\ z \in OperationRow /\ RowFree(z) /\ z.status = "pending"
      /\ z.input = r.input /\ z.key = r.key /\ z.created = r.created
      /\ z.count = r.count /\ z.progress = r.progress /\ z.cancelAt = r.cancelAt
      /\ z.result = r.result /\ z.error = r.error /\ z.completed = r.completed
  BY <1>1, ReleasedRow
<1>3. Requeued(r, t) = [z EXCEPT !.next = t]
  BY DEF Requeued
<1> HIDE DEF z
<1>4. [z EXCEPT !.next = t] \in OperationRow
  BY <1>1, <1>2 DEF OperationRow
<1> QED
  BY <1>2, <1>3, <1>4 DEF OperationRow, RowFree

\* A retry delay is a number.
LEMMA RetryDelayType ==
  ASSUME NEW n \in Attempt
  PROVE  RetryDelay(n) \in Int
  BY SMTT(60), DelayAssumption DEF RetryDelay, Attempt

\* FailOperation with a retry preserves the invariant.
LEMMA FailAndRetryStep ==
  ASSUME Inv, NEW o \in Ops, NEW n \in Attempt, NEW w \in Workers,
         NEW now \in Times, FailAndRetry(o, n, w, now)
  PROVE  Inv'
<1> DEFINE t == now + RetryDelay(ops[o].count)
           r == Requeued(ops[o], t)
           q == WithOutcome(r, "null", "none", "null")
<1>1. ActiveAttempt(o, n, w, now) /\ ops[o].status = "running"
  BY DEF FailAndRetry, RetryAllowed
<1>2. ops[o] \in OperationRow /\ t \in Int /\ t # NoTime
  BY <1>1, Fenced, RetryDelayType, BoundAssumption, NullAssumption
<1>3. ops' = [ops EXCEPT ![o] = q] /\ Ended(o, n, "failed")
  BY DEF FailAndRetry, Cleared
<1> HIDE DEF t
<1>4. /\ r \in OperationRow /\ RowFree(r) /\ r.status = "pending"
      /\ r.input = ops[o].input /\ r.key = ops[o].key /\ r.count = ops[o].count
      /\ r.cancelAt = ops[o].cancelAt /\ r.next = t
  BY <1>2, RequeuedRow
<1> HIDE DEF r
<1>5. /\ q \in OperationRow /\ RowFree(q) /\ q.status = "pending"
      /\ q.input = ops[o].input /\ q.key = ops[o].key /\ q.count = ops[o].count
      /\ q.cancelAt = ops[o].cancelAt /\ q.next = t
      /\ q.result = "null" /\ q.error = "none" /\ q.completed = "null"
  BY SMTT(60), <1>4, OutcomeRow DEF RowFree, Column
<1> HIDE DEF q
<1>6. StateShape(q)
  BY SMTT(60), <1>2, <1>5 DEF StateShape, RowFree, Active, Terminal
<1>7. q.cancelAt # "set"
  BY SMTT(60), <1>1, <1>5, Fenced
<1>8. HistoryType'
  <2>1. "retry_scheduled" \in MessageCode /\ "failed" \in AuditAction
    BY DEF MessageCode, AuditAction
  <2>2. Logged(o, <<Event("retry_scheduled", n, ops[o].progress)>>) /\ audit' = audit
    BY DEF FailAndRetry
  <2> QED
    BY ZenonT(60), <1>1, <2>1, <2>2, Fenced, CallHistory
<1>9. "failed" \in Unsuccessful /\ ops[o].count < Maximum(o)
  BY SMTT(60) DEF Unsuccessful, FailAndRetry
<1> QED
  BY ZenonT(60), <1>1, <1>3, <1>5, <1>6, <1>7, <1>8, <1>9, Fenced, EndStep DEF Active

\* A row that exists has the columns of its status.
LEMMA RowShaped ==
  ASSUME NEW r, NEW a, RowInv(r, a), r.status # "absent"
  PROVE  StateShape(r)
  BY DEF RowInv, RowShape

-----------------------------------------------------------------------------
\* HeartbeatOperation preserves the invariant.
LEMMA HeartbeatStep ==
  ASSUME Inv, NEW o \in Ops, NEW n \in Attempt, NEW w \in Workers,
         NEW now \in Times, HeartbeatOperation(o, n, w, now)
  PROVE  Inv'
<1> DEFINE t == now + LeaseDuration
           q == [ops[o] EXCEPT !.lease = t]
           b == [attempts[o] EXCEPT ![n] = [@ EXCEPT !.beat = now, !.lease = t]]
<1>1. ActiveAttempt(o, n, w, now)
  BY DEF HeartbeatOperation
<1>2. /\ t \in Int \cup {NoTime} /\ now \in Int \cup {NoTime} /\ t # NoTime
  BY BoundAssumption, NullAssumption
<1>3. /\ ops' = [ops EXCEPT ![o] = q]
      /\ attempts' = [attempts EXCEPT ![o] = b]
  BY ZenonT(60) DEF HeartbeatOperation
<1>4. RowInv(ops[o], attempts[o]) /\ RowType(ops[o], attempts[o]) /\ RowHeld(ops[o], attempts[o])
  BY <1>1, Fenced DEF RowInv, RowLedger
<1> HIDE DEF t
<1>5. q \in OperationRow
  BY <1>2, <1>4 DEF RowType, OperationRow
<1>6. /\ q.status = ops[o].status /\ q.input = ops[o].input /\ q.key = ops[o].key
      /\ q.count = ops[o].count /\ q.current = ops[o].current
      /\ q.worker = ops[o].worker /\ q.lease = t /\ q.next = ops[o].next
      /\ q.cancelAt = ops[o].cancelAt /\ q.result = ops[o].result
      /\ q.error = ops[o].error /\ q.completed = ops[o].completed
      /\ q.progress = ops[o].progress
  BY SMTT(60), <1>4 DEF RowType, OperationRow
<1>7. attempts[o][n] \in AttemptRow
  BY <1>4 DEF RowType
<1>8. /\ [attempts[o][n] EXCEPT !.beat = now, !.lease = t] \in AttemptRow
      /\ [attempts[o][n] EXCEPT !.beat = now, !.lease = t].outcome = attempts[o][n].outcome
      /\ [attempts[o][n] EXCEPT !.beat = now, !.lease = t].worker = attempts[o][n].worker
      /\ [attempts[o][n] EXCEPT !.beat = now, !.lease = t].lease = t
  BY ZenonT(60), <1>2, <1>7 DEF AttemptRow
<1>9. /\ b \in [Attempt -> AttemptRow]
      /\ \A m \in Attempt : m # n => b[m] = attempts[o][m]
      /\ b[n].outcome = attempts[o][n].outcome
      /\ b[n].worker = attempts[o][n].worker /\ b[n].lease = t
  BY <1>4, <1>8 DEF RowType
<1> HIDE DEF q, b
<1>13. ops[o].status \in Active /\ StateShape(ops[o])
  BY <1>1, <1>4, Fenced, RowShaped DEF Active
<1>10. StateShape(q)
  BY <1>2, <1>6, <1>13 DEF StateShape
<1>11. RowInv(q, b)
  BY SMTT(60), <1>1, <1>4, <1>5, <1>6, <1>9, <1>10, Fenced, HoldKeeps DEF RowHeld
<1>12. HistoryType'
  BY DEF HeartbeatOperation, Inv, HistoryType
<1> QED
  BY ZenonT(60), <1>3, <1>6, <1>11, <1>12, OneRow DEF Inv

\* CheckpointOperation preserves the invariant.
LEMMA CheckpointStep ==
  ASSUME Inv, NEW o \in Ops, NEW n \in Attempt, NEW w \in Workers,
         NEW now \in Times, NEW p \in Percents,
         CheckpointOperation(o, n, w, now, p)
  PROVE  Inv'
<1> DEFINE q == [ops[o] EXCEPT !.progress = p]
<1>1. ActiveAttempt(o, n, w, now) /\ p \in 0..100 /\ ops[o].status = "running"
  BY BoundAssumption DEF CheckpointOperation
<1>2. ops' = [ops EXCEPT ![o] = q] /\ attempts' = attempts
  BY SMTT(60) DEF CheckpointOperation
<1>3. RowInv(ops[o], attempts[o]) /\ RowType(ops[o], attempts[o]) /\ RowHeld(ops[o], attempts[o])
  BY <1>1, Fenced DEF RowInv, RowLedger
<1>4. q \in OperationRow
  BY <1>1, <1>3 DEF RowType, OperationRow
<1>5. /\ q.status = ops[o].status /\ q.input = ops[o].input /\ q.key = ops[o].key
      /\ q.count = ops[o].count /\ q.current = ops[o].current
      /\ q.worker = ops[o].worker /\ q.lease = ops[o].lease /\ q.next = ops[o].next
      /\ q.cancelAt = ops[o].cancelAt /\ q.result = ops[o].result
      /\ q.error = ops[o].error /\ q.completed = ops[o].completed
  BY SMTT(60), <1>3 DEF RowType, OperationRow
<1> HIDE DEF q
<1>6. StateShape(q)
  <2>1. StateShape(ops[o])
    BY <1>1, <1>3, RowShaped
  <2> QED
    BY <1>1, <1>5, <2>1 DEF StateShape
<1>7. RowInv(q, attempts[o])
  BY SMTT(60), <1>1, <1>3, <1>4, <1>5, <1>6, Fenced, HoldKeeps DEF RowHeld, RowType
<1>8. HistoryType'
  <2>1. "progress" \in MessageCode /\ "failed" \in AuditAction
    BY DEF MessageCode, AuditAction
  <2>2. Logged(o, <<Event("progress", n, p)>>) /\ audit' = audit
    BY DEF CheckpointOperation
  <2> QED
    BY ZenonT(60), <1>1, <2>1, <2>2, Fenced, CallHistory
<1> QED
  BY <1>2, <1>5, <1>7, <1>8, OneRow DEF Inv

\* A cancellation request for a running operation preserves the invariant.
LEMMA CancelRunningStep ==
  ASSUME Inv, NEW o \in Ops, CancelRunning(o),
         Audited(o, <<"cancellation_requested">>), attempts' = attempts
  PROVE  Inv'
<1> DEFINE q == [ops[o] EXCEPT !.status = "cancelling", !.cancelAt = "set"]
<1>1. ops[o].status = "running" /\ ops' = [ops EXCEPT ![o] = q]
  BY ZenonT(60) DEF CancelRunning
<1>2. RowInv(ops[o], attempts[o]) /\ RowType(ops[o], attempts[o]) /\ RowHeld(ops[o], attempts[o])
  BY <1>1 DEF Inv, RowInv, RowLedger, Active
<1>3. "cancelling" \in Status /\ "set" \in Column
  BY DEF Status, Active, Column
<1>4. q \in OperationRow
  BY ZenonT(60), <1>2, <1>3 DEF RowType, OperationRow
<1>5. /\ q.status = "cancelling" /\ q.input = ops[o].input /\ q.key = ops[o].key
      /\ q.count = ops[o].count /\ q.current = ops[o].current
      /\ q.worker = ops[o].worker /\ q.lease = ops[o].lease /\ q.next = ops[o].next
      /\ q.cancelAt = "set" /\ q.result = ops[o].result
      /\ q.error = ops[o].error /\ q.completed = ops[o].completed
  BY <1>2 DEF RowType, OperationRow
<1> HIDE DEF q
<1>6. StateShape(q)
  <2>1. StateShape(ops[o])
    BY <1>1, <1>2, RowShaped
  <2> QED
    BY <1>1, <1>5, <2>1 DEF StateShape, Active, Terminal
<1>7. RowInv(q, attempts[o])
  BY SMTT(60), <1>1, <1>2, <1>4, <1>5, <1>6, HoldKeeps DEF RowHeld, RowType, Active
<1>8. HistoryType'
  <2>1. "cancellation_requested" \in MessageCode /\ "cancellation_requested" \in AuditAction
    BY SMTT(60) DEF MessageCode, AuditAction
  <2>2. ops[o].progress \in 0..100 /\ ops[o].status \in Active
    BY <1>1, <1>2 DEF RowType, OperationRow, Active
  <2>3. Logged(o, <<Event("cancellation_requested", ops[o].current, ops[o].progress)>>)
    BY DEF CancelRunning
  <2> QED
    BY ZenonT(60), <2>1, <2>2, <2>3, CallHistory
<1> QED
  BY <1>1, <1>5, <1>7, <1>8, OneRow DEF Inv

\* The cancellation of a queued operation preserves the invariant.
LEMMA CancelPendingStep ==
  ASSUME Inv, NEW o \in Ops, CancelPending(o),
         Audited(o, <<"cancellation_requested">>), attempts' = attempts
  PROVE  Inv'
<1> DEFINE q == [ops[o] EXCEPT !.status = "cancelled", !.next = NoTime,
                               !.cancelAt = "set", !.completed = "set"]
<1>1. ops[o].status = "pending" /\ ops' = [ops EXCEPT ![o] = q]
  BY ZenonT(60) DEF CancelPending
<1>2. /\ RowInv(ops[o], attempts[o]) /\ RowType(ops[o], attempts[o])
      /\ ops[o].status \notin Active /\ RowFree(ops[o])
  BY <1>1 DEF Inv, RowInv, RowLedger, Active
<1>3. "cancelled" \in Status /\ "set" \in Column /\ NoTime \in Int \cup {NoTime}
  BY DEF Status, Terminal, Column
<1>4. q \in OperationRow
  BY ZenonT(60), <1>2, <1>3 DEF RowType, OperationRow
<1>5. /\ q.status = "cancelled" /\ q.input = ops[o].input /\ q.key = ops[o].key
      /\ q.count = ops[o].count /\ q.current = ops[o].current
      /\ q.worker = ops[o].worker /\ q.lease = ops[o].lease /\ q.next = NoTime
      /\ q.cancelAt = "set" /\ q.result = ops[o].result
      /\ q.error = ops[o].error /\ q.completed = "set"
  BY <1>2 DEF RowType, OperationRow
<1> HIDE DEF q
<1>6. StateShape(q) /\ RowFree(q)
  <2>1. StateShape(ops[o])
    BY <1>1, <1>2, RowShaped
  <2> QED
    BY <1>1, <1>5, <2>1 DEF StateShape, RowFree, Active, Terminal
<1>7. RowInv(q, attempts[o])
  <2>1. RowBudget(ops[o], attempts[o])
    BY <1>2 DEF RowInv
  <2>2. /\ ValidMaxAttempts(RetryClass[q.input], Requested[q.input])
        /\ q.count <= MaxAttempts(q.input) /\ q.count < MaxAttempts(q.input)
    BY <1>1, <1>5, <2>1 DEF RowBudget
  <2> QED
    BY <1>1, <1>2, <1>4, <1>5, <1>6, <2>2, FreeKeeps
<1>8. HistoryType'
  <2> DEFINE es == <<Event("cancellation_requested", 0, ops[o].progress),
                     Event("cancelled", 0, ops[o].progress)>>
  <2>1. /\ "cancellation_requested" \in MessageCode /\ "cancelled" \in MessageCode
        /\ "cancellation_requested" \in AuditAction /\ 0 \in 0..AttemptLimit
    BY BoundAssumption DEF MessageCode, AuditAction
  <2>2. ops[o].progress \in 0..100
    BY <1>2 DEF RowType, OperationRow
  <2>3. es \in Seq(EventRow) /\ <<"cancellation_requested">> \in Seq(AuditAction)
    BY <2>1, <2>2, EventTyped
  <2>4. Logged(o, es)
    BY DEF CancelPending
  <2> QED
    BY ZenonT(60), <2>3, <2>4, HistoryStep DEF Inv
<1> QED
  BY <1>1, <1>5, <1>7, <1>8, OneRow DEF Inv

\* RetryOperation preserves the invariant.
LEMMA RetryStep ==
  ASSUME Inv, NEW o \in Ops, NEW now \in Times, RetryOperation(o, now)
  PROVE  Inv'
<1> DEFINE r == Requeued(ops[o], now)
           s == WithOutcome(r, "null", "none", "null")
           q == [s EXCEPT !.cancelAt = "null"]
<1>1. /\ ops[o].status = "failed" /\ ops' = [ops EXCEPT ![o] = q]
      /\ attempts' = attempts
  BY DEF RetryOperation, Cleared
<1>2. /\ RowInv(ops[o], attempts[o]) /\ RowType(ops[o], attempts[o])
      /\ ops[o].status \notin Active
  BY <1>1 DEF Inv, RowInv, Active
<1>3. now \in Int /\ now # NoTime
  BY SMTT(60), BoundAssumption, NullAssumption
<1>4. /\ r \in OperationRow /\ RowFree(r) /\ r.status = "pending"
      /\ r.input = ops[o].input /\ r.key = ops[o].key /\ r.count = ops[o].count
      /\ r.next = now
  BY SMTT(60), <1>2, <1>3, RequeuedRow DEF RowType
<1> HIDE DEF r
<1>5. /\ s \in OperationRow /\ RowFree(s) /\ s.status = "pending"
      /\ s.input = ops[o].input /\ s.key = ops[o].key /\ s.count = ops[o].count
      /\ s.next = now /\ s.result = "null" /\ s.error = "none" /\ s.completed = "null"
  BY <1>4, OutcomeRow DEF RowFree, Column
<1> HIDE DEF s
<1>6. /\ q \in OperationRow /\ RowFree(q) /\ q.status = "pending"
      /\ q.input = ops[o].input /\ q.key = ops[o].key /\ q.count = ops[o].count
      /\ q.next = now /\ q.result = "null" /\ q.error = "none" /\ q.completed = "null"
      /\ q.cancelAt = "null"
  BY <1>5 DEF OperationRow, RowFree, Column
<1> HIDE DEF q
<1>7. StateShape(q)
  BY SMTT(60), <1>3, <1>6 DEF StateShape, RowFree, Active, Terminal
<1>8. RowInv(q, attempts[o])
  <2>1. q.count < MaxAttempts(q.input)
    BY <1>6 DEF RetryOperation, Maximum
  <2> QED
    BY ZenonT(60), <1>1, <1>2, <1>6, <1>7, <2>1, FreeKeeps DEF RowInv, RowBudget
<1>9. HistoryType'
  <2>1. /\ "manual_retry_scheduled" \in MessageCode
        /\ "retry_scheduled" \in AuditAction /\ 0 \in 0..AttemptLimit
    BY BoundAssumption DEF MessageCode, AuditAction
  <2>2. ops[o].progress \in 0..100
    BY <1>2 DEF RowType, OperationRow
  <2>3. /\ <<Event("manual_retry_scheduled", 0, ops[o].progress)>> \in Seq(EventRow)
        /\ <<"retry_scheduled">> \in Seq(AuditAction)
    BY <2>1, <2>2, EventTyped
  <2> QED
    BY ZenonT(60), <2>3, HistoryStep DEF Inv, RetryOperation
<1> QED
  BY <1>1, <1>6, <1>8, <1>9, OneRow DEF Inv

-----------------------------------------------------------------------------
\* Recovery of one expired row keeps that row's part of the invariant, and
\* its identity.
LEMMA RecoveredKeeps ==
  ASSUME Inv, NEW o \in Ops, NEW now \in Times, Expired(o, now)
  PROVE  /\ RowInv(RecoveredOperation(o, now),
                   [attempts[o] EXCEPT ![ops[o].current].outcome = RecoveredAttempt(o)])
         /\ RecoveredOperation(o, now).input = ops[o].input
         /\ RecoveredOperation(o, now).key = ops[o].key
<1>1. /\ RowInv(ops[o], attempts[o]) /\ ops[o] \in OperationRow
      /\ ops[o].status \in Active /\ ops[o].current = ops[o].count
      /\ ops[o].current \in Attempt
  BY SMTT(60) DEF Inv, Expired, RowInv, RowType, RowLedger, RowHeld
<1>2. /\ ops[o].result = "null" /\ ops[o].error = "none" /\ ops[o].completed = "null"
      /\ ops[o].status = "cancelling" <=> ops[o].cancelAt = "set"
  BY <1>1 DEF RowInv, RowShape, StateShape, RowCancel, Active, Terminal,
              OperationRow, Column
<1> DEFINE a(out) == [attempts[o] EXCEPT ![ops[o].current].outcome = out]
<1>3. CASE ops[o].status = "cancelling"
  <2> DEFINE r == Released(ops[o], "cancelled")
             q == WithOutcome(r, "null", "none", "set")
  <2>1. RecoveredOperation(o, now) = q /\ RecoveredAttempt(o) = "cancelled"
    BY SMTT(60), <1>2, <1>3 DEF RecoveredOperation, RecoveredAttempt
  <2>2. /\ r \in OperationRow /\ RowFree(r) /\ r.status = "cancelled"
        /\ r.input = ops[o].input /\ r.key = ops[o].key /\ r.count = ops[o].count
        /\ r.cancelAt = ops[o].cancelAt /\ r.next = NoTime
    BY SMTT(60), <1>1, ReleasedRow DEF Status, Terminal
  <2> HIDE DEF r
  <2>3. /\ q \in OperationRow /\ RowFree(q) /\ q.status = "cancelled"
        /\ q.input = ops[o].input /\ q.key = ops[o].key /\ q.count = ops[o].count
        /\ q.cancelAt = ops[o].cancelAt /\ q.next = NoTime
        /\ q.result = "null" /\ q.error = "none" /\ q.completed = "set"
    BY <2>2, OutcomeRow DEF RowFree, Column
  <2> HIDE DEF q
  <2>4. StateShape(q)
    BY SMTT(60), <2>3 DEF StateShape, RowFree, Active, Terminal
  <2>5. RowInv(q, a("cancelled"))
    BY ZenonT(60), <1>1, <1>2, <1>3, <2>3, <2>4, ReleaseKeeps
  <2> QED
    BY <2>1, <2>3, <2>5
<1>4. CASE ops[o].status = "running" /\ Replayable(o)
  <2> DEFINE q == Requeued(ops[o], now + RetryDelay(ops[o].count))
  <2>1. RecoveredOperation(o, now) = q /\ RecoveredAttempt(o) = "lease_expired"
    BY <1>4 DEF RecoveredOperation, RecoveredAttempt
  <2>2. /\ now + RetryDelay(ops[o].count) \in Int
        /\ now + RetryDelay(ops[o].count) # NoTime
    BY <1>1, RetryDelayType, BoundAssumption, NullAssumption
  <2>3. /\ q \in OperationRow /\ RowFree(q) /\ q.status = "pending"
        /\ q.input = ops[o].input /\ q.key = ops[o].key /\ q.count = ops[o].count
        /\ q.cancelAt = ops[o].cancelAt /\ q.next # NoTime
        /\ q.result = "null" /\ q.error = "none" /\ q.completed = "null"
    BY <1>1, <1>2, <2>2, RequeuedRow
  <2> HIDE DEF q
  <2>4. StateShape(q)
    BY <2>3 DEF StateShape, RowFree, Active, Terminal
  <2>5. "lease_expired" \in Unsuccessful /\ q.cancelAt # "set"
    BY <1>2, <1>4, <2>3 DEF Unsuccessful
  <2>7. ops[o].count < MaxAttempts(ops[o].input)
    BY SMTT(60), <1>4 DEF Replayable, Maximum
  <2>6. RowInv(q, a("lease_expired"))
    BY ZenonT(60), <1>1, <2>3, <2>4, <2>5, <2>7, ReleaseKeeps
  <2> QED
    BY <2>1, <2>3, <2>6
<1>5. CASE ops[o].status = "running" /\ ~Replayable(o)
  <2> DEFINE r == Released(ops[o], "failed")
             q == WithOutcome(r, "null", "lease", "set")
  <2>1. RecoveredOperation(o, now) = q /\ RecoveredAttempt(o) = "lease_expired"
    BY SMTT(60), <1>2, <1>5 DEF RecoveredOperation, RecoveredAttempt
  <2>2. /\ r \in OperationRow /\ RowFree(r) /\ r.status = "failed"
        /\ r.input = ops[o].input /\ r.key = ops[o].key /\ r.count = ops[o].count
        /\ r.cancelAt = ops[o].cancelAt /\ r.next = NoTime
    BY SMTT(60), <1>1, ReleasedRow DEF Status, Terminal
  <2> HIDE DEF r
  <2>3. /\ q \in OperationRow /\ RowFree(q) /\ q.status = "failed"
        /\ q.input = ops[o].input /\ q.key = ops[o].key /\ q.count = ops[o].count
        /\ q.cancelAt = ops[o].cancelAt /\ q.next = NoTime
        /\ q.result = "null" /\ q.error = "lease" /\ q.completed = "set"
    BY <2>2, OutcomeRow DEF RowFree, Column
  <2> HIDE DEF q
  <2>4. StateShape(q)
    BY <2>3 DEF StateShape, RowFree, Active, Terminal
  <2>5. "lease_expired" \in Unsuccessful
    BY SMTT(60) DEF Unsuccessful
  <2>6. RowInv(q, a("lease_expired"))
    BY ZenonT(60), <1>1, <2>3, <2>4, <2>5, ReleaseKeeps
  <2> QED
    BY <2>1, <2>3, <2>6
<1> QED
  BY SMTT(60), <1>1, <1>3, <1>4, <1>5 DEF Active

\* The events and audit actions of a recovery are typed.
LEMMA RecoveredHistory ==
  ASSUME Inv, NEW now \in Times
  PROVE  /\ RecoveredLog(now) \in [Ops -> Seq(EventRow)]
         /\ RecoveredAudit(now) \in [Ops -> Seq(AuditAction)]
<1>1. ASSUME NEW o \in Ops
      PROVE  RecoveryEvents(o) \in Seq(EventRow) /\ RecoveryAudit(o) \in Seq(AuditAction)
  <2> DEFINE n == ops[o].current
             p == ops[o].progress
  <2>1. n \in 0..AttemptLimit /\ p \in 0..100
    BY DEF Inv, RowInv, RowType, OperationRow
  <2>2. /\ "cancelled_after_worker_loss" \in MessageCode
        /\ "worker_lease_expired" \in MessageCode
        /\ "retry_scheduled_after_worker_loss" \in MessageCode
        /\ "failed_after_worker_loss" \in MessageCode
        /\ "cancelled" \in AuditAction /\ "failed" \in AuditAction
    BY DEF MessageCode, AuditAction
  <2> HIDE DEF n, p
  <2>3. /\ Event("cancelled_after_worker_loss", n, p) \in EventRow
        /\ Event("worker_lease_expired", n, p) \in EventRow
        /\ Event("retry_scheduled_after_worker_loss", n, p) \in EventRow
        /\ Event("failed_after_worker_loss", n, p) \in EventRow
    BY <2>1, <2>2, EventTyped
  <2>6. \A e, f \in EventRow : <<e>> \in Seq(EventRow) /\ <<e, f>> \in Seq(EventRow)
    OBVIOUS
  <2>4. RecoveryEvents(o) \in Seq(EventRow)
    BY <2>3, <2>6 DEF RecoveryEvents, n, p
  <2>5. RecoveryAudit(o) \in Seq(AuditAction)
    BY <2>2 DEF RecoveryAudit
  <2> QED
    BY <2>4, <2>5
<1>2. ASSUME NEW o \in Ops
      PROVE  /\ log[o] \in Seq(EventRow) /\ log[o] \o RecoveryEvents(o) \in Seq(EventRow)
             /\ audit[o] \in Seq(AuditAction)
             /\ audit[o] \o RecoveryAudit(o) \in Seq(AuditAction)
  BY SMTT(60), <1>1, ConcatProperties DEF Inv, HistoryType
<1> QED
  BY <1>2 DEF RecoveredLog, RecoveredAudit

\* Every row after a recovery, expired or not.
LEMMA RecoveredRows ==
  ASSUME Inv, NEW now \in Times
  PROVE  \A o \in Ops :
           /\ RowInv(RecoveredOps(now)[o], RecoveredAttempts(now)[o])
           /\ RecoveredOps(now)[o].input = ops[o].input
           /\ RecoveredOps(now)[o].key = ops[o].key
<1> SUFFICES ASSUME NEW o \in Ops
             PROVE  /\ RowInv(RecoveredOps(now)[o], RecoveredAttempts(now)[o])
                    /\ RecoveredOps(now)[o].input = ops[o].input
                    /\ RecoveredOps(now)[o].key = ops[o].key
  OBVIOUS
<1>1. CASE Expired(o, now)
  BY <1>1, RecoveredKeeps DEF RecoveredOps, RecoveredAttempts
<1>2. CASE ~Expired(o, now)
  BY <1>2 DEF RecoveredOps, RecoveredAttempts, Inv
<1> QED
  BY <1>1, <1>2

\* RecoverExpiredOperations preserves the invariant.
LEMMA RecoverStep ==
  ASSUME Inv, NEW now \in Times, RecoverExpiredOperations(now)
  PROVE  Inv'
<1>1. \A o \in Ops : /\ RowInv(ops'[o], attempts'[o])
                     /\ ops'[o].key = ops[o].key
  BY RecoveredRows DEF RecoverExpiredOperations
<1>2. HistoryType'
  BY RecoveredHistory DEF RecoverExpiredOperations, HistoryType
<1>3. IdempotentCreation'
  BY <1>1, Zenon DEF Inv, IdempotentCreation
<1>4. ops' = [o \in Ops |-> ops'[o]] /\ attempts' = [o \in Ops |-> attempts'[o]]
  BY DEF RecoverExpiredOperations, RecoveredOps, RecoveredAttempts
<1> QED
  BY <1>1, <1>2, <1>3, <1>4 DEF Inv

\* A claim preserves the invariant: the recovery does, and then the claim of
\* a row that is still eligible.
LEMMA ClaimStep ==
  ASSUME Inv, NEW w \in Workers, NEW o \in Ops, NEW now \in Times, Claim(w, o, now)
  PROVE  Inv'
<1> DEFINE rows == RecoveredOps(now)
           tries == RecoveredAttempts(now)
           n == rows[o].count + 1
           q == ClaimRow(rows[o], w, now)
           b == [tries[o] EXCEPT ![n] = NewAttempt(w, now)]
<1>1. \A p \in Ops : /\ RowInv(rows[p], tries[p])
                     /\ rows[p].input = ops[p].input /\ rows[p].key = ops[p].key
  BY RecoveredRows
<1>2. Eligible(rows[o], now)
  BY SMTT(60) DEF Claim, ClaimCandidates
<1>3. RowInv(q, b)
  BY <1>1, <1>2, ClaimKeeps
<1>4. ops' = [rows EXCEPT ![o] = q] /\ attempts' = [tries EXCEPT ![o] = b]
  BY DEF Claim
<1>5. /\ rows = [p \in Ops |-> rows[p]] /\ tries = [p \in Ops |-> tries[p]]
  BY SMTT(60) DEF RecoveredOps, RecoveredAttempts
<1>6. rows[o] \in OperationRow /\ rows[o].count \in Nat /\ n \in 0..AttemptLimit
      /\ rows[o].progress \in 0..100
  <2>1. rows[o] \in OperationRow
    BY <1>1 DEF RowInv, RowType
  <2>2. rows[o].count < MaxAttempts(rows[o].input) /\ rows[o].status = "pending"
    BY SMTT(60), <1>2 DEF Eligible
  <2>3. MaxAttempts(rows[o].input) \in Attempt
    BY ZenonT(60), <1>1, <2>1, <2>2, MaximumType DEF RowInv, RowBudget, OperationRow
  <2> QED
    BY SMTT(60), <2>1, <2>2, <2>3, BoundAssumption DEF OperationRow, Attempt
<1>7. q.key = ops[o].key
  BY <1>1, <1>6 DEF ClaimRow, OperationRow
<1>8. HistoryType'
  <2>1. Event("claimed", n, rows[o].progress) \in EventRow
    BY ZenonT(60), <1>6, EventTyped DEF MessageCode
  <2>2. /\ RecoveredLog(now) \in [Ops -> Seq(EventRow)]
        /\ RecoveredAudit(now) \in [Ops -> Seq(AuditAction)]
    BY RecoveredHistory
  <2>3. log' = [RecoveredLog(now) EXCEPT ![o] =
                  Append(RecoveredLog(now)[o], Event("claimed", n, rows[o].progress))]
    BY DEF Claim
  <2>4. audit' = RecoveredAudit(now)
    BY DEF Claim
  <2> HIDE DEF n, rows
  <2>5. Append(RecoveredLog(now)[o], Event("claimed", n, rows[o].progress))
          \in Seq(EventRow)
    BY <2>1, <2>2
  <2> QED
    BY SMTT(60), <2>2, <2>3, <2>4, <2>5 DEF HistoryType
<1> HIDE DEF rows, tries, q, b
<1>9. \A p \in Ops : RowInv(ops'[p], attempts'[p]) /\ ops'[p].key = ops[p].key
  <2> SUFFICES ASSUME NEW p \in Ops
               PROVE  RowInv(ops'[p], attempts'[p]) /\ ops'[p].key = ops[p].key
    OBVIOUS
  <2>1. CASE p = o
    BY <1>3, <1>4, <1>5, <1>7, <2>1
  <2>2. CASE p # o
    BY ZenonT(60), <1>1, <1>4, <1>5, <2>2
  <2> QED
    BY <2>1, <2>2
<1>10. ops' = [p \in Ops |-> ops'[p]] /\ attempts' = [p \in Ops |-> attempts'[p]]
  BY ZenonT(60), <1>4, <1>5
<1>11. IdempotentCreation'
  BY <1>9, Zenon DEF Inv, IdempotentCreation
<1> QED
  BY <1>8, <1>9, <1>10, <1>11 DEF Inv

-----------------------------------------------------------------------------
\* The empty tables satisfy the invariant.
LEMMA InitInv ==
  ASSUME Init
  PROVE  Inv
<1>1. NoOperation \in OperationRow
  <2> DEFINE i == CHOOSE i \in Inputs : TRUE
  <2>1. i \in Inputs
    BY InputAssumption
  <2> HIDE DEF i
  <2>2. /\ "absent" \in Status /\ NoKey \in Keys \cup {NoKey} /\ 0 \in 0..AttemptLimit
        /\ NoTime \in Times \cup {NoTime} /\ NoTime \in Int \cup {NoTime}
        /\ NoWorker \in Workers \cup {NoWorker} /\ 0 \in 0..100 /\ "null" \in Column
    BY BoundAssumption DEF Status, Column
  <2> QED
    BY <2>1, <2>2 DEF NoOperation, OperationRow, i
<1>2. NoAttempt \in AttemptRow
  BY SMTT(60) DEF NoAttempt, AttemptRow, Outcome
<1>3. ASSUME NEW o \in Ops
      PROVE  RowInv(ops[o], attempts[o])
  <2> DEFINE r == NoOperation
             a == [n \in Attempt |-> NoAttempt]
  <2>1. /\ r.status = "absent" /\ r.count = 0 /\ r.current = 0 /\ r.worker = NoWorker
        /\ r.lease = NoTime /\ r.cancelAt = "null"
        /\ \A n \in Attempt : a[n].outcome = "absent"
    BY DEF NoOperation, NoAttempt
  <2>2. RowType(r, a)
    BY SMTT(60), <1>1, <1>2 DEF RowType
  <2> HIDE DEF r, a
  <2>3. RowLedger(r, a) /\ RowCancel(r) /\ RowShape(r)
    BY SMTT(60), <2>1 DEF RowLedger, RowFree, RowCancel, RowShape, Active
  <2>4. RowBudget(r, a) /\ RowOutcome(r, a)
    BY <2>1 DEF RowBudget, RowOutcome, Attempt
  <2>5. RowAbsent(r)
    BY DEF RowAbsent, r
  <2>6. ops[o] = r /\ attempts[o] = a
    BY DEF Init, r, a
  <2> QED
    BY SMTT(60), <2>2, <2>3, <2>4, <2>5, <2>6 DEF RowInv
<1>4. HistoryType
  BY DEF Init, HistoryType
<1>5. IdempotentCreation
  BY DEF Init, IdempotentCreation, NoOperation
<1> QED
  BY SMTT(60), <1>3, <1>4, <1>5 DEF Init, Inv

\* Every step preserves the invariant, one case per repository method.
LEMMA NextInv ==
  ASSUME Inv, [Next]_vars
  PROVE  Inv'
<1>1. ASSUME NEW now \in Times, NEW o \in Ops, NEW k \in Keys \cup {NoKey},
             NEW i \in Inputs, CreateOperation(o, k, i, now)
      PROVE  Inv'
  BY <1>1, CreateStep
<1>2. ASSUME NEW now \in Times, NEW w \in Workers, NEW o \in Ops, Claim(w, o, now)
      PROVE  Inv'
  BY <1>2, ClaimStep
<1>3. ASSUME NEW now \in Times, ClaimNothing(now) \/ RecoverExpiredOperations(now)
      PROVE  Inv'
  BY <1>3, RecoverStep DEF ClaimNothing
<1>4. ASSUME NEW now \in Times, NEW o \in Ops, NEW n \in Attempt, NEW w \in Workers,
             WorkerCall(o, n, w, now)
      PROVE  Inv'
  <2>1. CASE HeartbeatOperation(o, n, w, now)
    BY <2>1, HeartbeatStep
  <2>2. CASE \E p \in Percents : BoundedCheckpoint(o, n, w, now, p)
    BY <2>2, CheckpointStep DEF BoundedCheckpoint
  <2>3. CASE CompleteOperation(o, n, w, now)
    BY <2>3, CompleteStep
  <2>4. ASSUME NEW retry \in BOOLEAN, FailOperation(o, n, w, now, retry)
        PROVE  Inv'
    BY <2>4, FailAndRetryStep, FailFinallyStep, Zenon DEF FailOperation
  <2>5. CASE AcknowledgeOperationCancellation(o, n, w, now)
    BY <2>5, AcknowledgeStep
  <2> QED
    BY <1>4, <2>1, <2>2, <2>3, <2>4, <2>5, ZenonT(60) DEF WorkerCall
<1>5. ASSUME NEW o \in Ops, RequestOperationCancellation(o)
      PROVE  Inv'
  BY <1>5, CancelPendingStep, CancelRunningStep DEF RequestOperationCancellation
<1>6. ASSUME NEW now \in Times, NEW o \in Ops, RetryOperation(o, now)
      PROVE  Inv'
  BY <1>6, RetryStep
<1>7. CASE UNCHANGED vars
  BY <1>7 DEF vars, Inv, HistoryType, IdempotentCreation
<1> QED
  BY <1>1, <1>2, <1>3, <1>4, <1>5, <1>6, <1>7, Zenon DEF Next

\* The inductive invariant holds in every reachable state.
THEOREM Invariance == Spec => []Inv
<1>1. Init => Inv
  BY InitInv
<1>2. Inv /\ [Next]_vars => Inv'
  BY NextInv
<1> QED
  BY <1>1, <1>2, PTL DEF Spec

\* Every table keeps its column types.
THEOREM TypeCorrect == Spec => []TypeOK
<1>1. Inv => TypeOK
  BY SMTT(60) DEF Inv, RowInv, RowType, TypeOK, HistoryType
<1> QED
  BY <1>1, Invariance, PTL

\* At most one attempt of an operation runs at a time, and the operation row
\* and the attempt row name the same worker and the same lease.
THEOREM LeaseExclusive == Spec => []LeaseLedger
<1>1. Inv => LeaseLedger
  BY SMTT(60) DEF Inv, RowInv, RowLedger, RowHeld, RowFree, LeaseLedger, HeldLease, FreeLease
<1> QED
  BY <1>1, Invariance, PTL

\* No operation is tried more often than its creation allows.
THEOREM BudgetKept == Spec => []AttemptBudget
<1>1. Inv => AttemptBudget
  <2> SUFFICES ASSUME Inv, NEW o \in Ops
               PROVE  /\ \A n \in Attempt :
                            attempts[o][n].outcome # "absent" <=> n <= ops[o].count
                      /\ ops[o].status # "absent" => ops[o].count <= Maximum(o)
                      /\ ops[o].status = "pending" => ops[o].count < Maximum(o)
                      /\ Class(o) = "none" => ops[o].count <= 1
    BY DEF AttemptBudget
  <2>1. RowBudget(ops[o], attempts[o]) /\ RowAbsent(ops[o]) /\ ops[o] \in OperationRow
    BY SMTT(60) DEF Inv, RowInv, RowType
  <2>2. ops[o].status = "absent" => ops[o].count = 0
    BY SMTT(60), <2>1 DEF RowAbsent, NoOperation
  <2>3. ops[o].status # "absent" /\ Class(o) = "none" => ops[o].count <= 1
    BY SMTT(60), <2>1, MaximumType DEF RowBudget, Class, OperationRow
  <2> QED
    BY SMTT(60), <2>1, <2>2, <2>3 DEF RowBudget, Maximum
<1> QED
  BY <1>1, Invariance, PTL

\* An operation's status agrees with the outcomes of its attempts.
THEOREM OutcomesAgree == Spec => []OutcomeAgrees
<1>1. Inv => OutcomeAgrees
  BY DEF Inv, RowInv, RowOutcome, OutcomeAgrees
<1> QED
  BY <1>1, Invariance, PTL

\* An accepted cancellation is never undone without a user's retry.
THEOREM CancellationKept == Spec => []CancellationHolds
<1>1. Inv => CancellationHolds
  BY DEF Inv, RowInv, RowCancel, CancellationHolds
<1> QED
  BY <1>1, Invariance, PTL

\* One idempotency key stands for at most one operation.
THEOREM CreationIdempotent == Spec => []IdempotentCreation
<1>1. Inv => IdempotentCreation
  BY DEF Inv
<1> QED
  BY <1>1, Invariance, PTL

-----------------------------------------------------------------------------
(* Which rows a worker's calls touch.                                        *)

\* The nested updates of Ended and of the heartbeat, one level at a time.
LEMMA EndedOneRow ==
  ASSUME Inv, NEW o \in Ops, NEW n, NEW out, Ended(o, n, out)
  PROVE  attempts' = [attempts EXCEPT ![o] = [attempts[o] EXCEPT
                        ![n] = [attempts[o][n] EXCEPT !.outcome = out]]]
  BY DEF Ended

\* The heartbeat renews the beat and the lease of one attempt.
LEMMA HeartbeatOneRow ==
  ASSUME Inv, NEW o \in Ops, NEW n \in Attempt, NEW w, NEW now,
         HeartbeatOperation(o, n, w, now)
  PROVE  attempts' = [attempts EXCEPT ![o] = [attempts[o] EXCEPT
                        ![n] = [attempts[o][n] EXCEPT !.beat = now,
                                                      !.lease = now + LeaseDuration]]]
  BY ZenonT(60) DEF HeartbeatOperation, Inv, RowInv, RowType, AttemptRow
=============================================================================

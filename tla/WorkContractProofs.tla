------------------------- MODULE WorkContractProofs -------------------------
(***************************************************************************)
(* What a step of the queue may do: the action properties of Operations,   *)
(* and that the queue implements WorkContract.  RowMoved is what a step    *)
(* may do to the row of an operation that exists; together with the        *)
(* invariant after the step it gives all that the trigger demands.         *)
(***************************************************************************)
EXTENDS OperationsProofs

RowMoved(r, q) ==
    /\ q.input = r.input /\ q.key = r.key /\ q.created = r.created
    /\ q.progress >= r.progress
    /\ q.count >= r.count
    /\ q.status \in LegalDestinations(r.status)
    /\ r.status \in Active /\ q.status = "pending" => RetryClass[r.input] = "safe"
    /\ r.status = "failed" => RetryClass[r.input] # "none"
    /\ r.status = "pending" /\ q.status = "running" => q.count = r.count + 1
    /\ q.count # r.count =>
         /\ q.count = r.count + 1 /\ q.status = "running"
         /\ r.status = "running" => RetryClass[r.input] = "safe"

\* What a creation does to a row.
RowCreated(r, q) == r.status = "absent" /\ q.status = "pending" /\ q.count = 0

AttemptsKept(a, b) ==
    \A n \in Attempt : a[n].outcome \notin {"absent", "running"} => b[n] = a[n]

RowStep(o) ==
    /\ \/ ops'[o] = ops[o]
       \/ RowMoved(ops[o], ops'[o])
       \/ RowCreated(ops[o], ops'[o])
    /\ AttemptsKept(attempts[o], attempts'[o])

\* A step that changes the row of one operation and no finished attempt.
LEMMA OneRowStep ==
  ASSUME Inv, NEW o \in Ops, NEW q, ops' = [ops EXCEPT ![o] = q],
         RowMoved(ops[o], q),
         \A p \in Ops : AttemptsKept(attempts[p], attempts'[p])
  PROVE  \A p \in Ops : RowStep(p)
  BY DEF Inv, RowStep

\* Ending the current attempt leaves the finished ones alone.
LEMMA EndedKeeps ==
  ASSUME Inv, NEW o \in Ops, NEW n, NEW w, NEW now, ActiveAttempt(o, n, w, now),
         NEW c, attempts' = [attempts EXCEPT ![o] = [attempts[o] EXCEPT ![n] = c]]
  PROVE  \A p \in Ops : AttemptsKept(attempts[p], attempts'[p])
<1>1. n \in Attempt /\ attempts[o][n].outcome = "running"
  BY Fenced DEF RowInv, RowLedger, RowHeld
<1>2. attempts = [p \in Ops |-> attempts[p]] /\ attempts[o] \in [Attempt -> AttemptRow]
  BY DEF Inv, RowInv, RowType
<1>3. /\ \A p \in Ops : p # o => attempts'[p] = attempts[p]
      /\ \A m \in Attempt : m # n => attempts'[o][m] = attempts[o][m]
  BY <1>2
<1> QED
  BY SMTT(60), <1>1, <1>3 DEF AttemptsKept

\* A call that releases the current attempt's row moves it legally.
LEMMA ReleasedMoves ==
  ASSUME NEW r \in OperationRow, r.status \in Active,
         NEW s \in {"pending", "failed", "succeeded", "cancelled"},
         s \in {"pending", "succeeded"} => r.status = "running",
         s = "cancelled" => r.status = "cancelling",
         s = "pending" => RetryClass[r.input] = "safe",
         NEW q \in OperationRow, q.status = s, q.input = r.input, q.key = r.key,
         q.created = r.created, q.count = r.count, q.progress >= r.progress
  PROVE  RowMoved(r, q)
  BY DEF RowMoved, LegalDestinations, Active, OperationRow

\* The worker's calls, each of them fenced.
LEMMA CallSteps ==
  ASSUME Inv, NEW o \in Ops, NEW n \in Attempt, NEW w \in Workers,
         NEW now \in Times, WorkerCall(o, n, w, now)
  PROVE  \A p \in Ops : RowStep(p)
<1>1. CASE HeartbeatOperation(o, n, w, now)
  <2> DEFINE q == [ops[o] EXCEPT !.lease = now + LeaseDuration]
             c == [attempts[o][n] EXCEPT !.beat = now, !.lease = now + LeaseDuration]
  <2>1. ActiveAttempt(o, n, w, now) /\ ops' = [ops EXCEPT ![o] = q]
    BY <1>1 DEF HeartbeatOperation
  <2>2. ops[o] \in OperationRow /\ ops[o].status \in Active
    BY <2>1, Fenced
  <2>3. RowMoved(ops[o], q)
    BY SMTT(60), <2>2 DEF RowMoved, LegalDestinations, OperationRow, Active
  <2>4. attempts' = [attempts EXCEPT ![o] = [attempts[o] EXCEPT ![n] = c]]
    BY ZenonT(60), <1>1, HeartbeatOneRow
  <2> QED
    BY ZenonT(60), <2>1, <2>3, <2>4, OneRowStep, EndedKeeps
<1>2. ASSUME NEW x \in Percents, BoundedCheckpoint(o, n, w, now, x)
      PROVE  \A p \in Ops : RowStep(p)
  <2> DEFINE q == [ops[o] EXCEPT !.progress = x]
  <2>1. /\ ActiveAttempt(o, n, w, now) /\ ops' = [ops EXCEPT ![o] = q]
        /\ x >= ops[o].progress /\ x \in 0..99 /\ attempts' = attempts
    BY <1>2, BoundAssumption DEF BoundedCheckpoint, CheckpointOperation
  <2>2. ops[o] \in OperationRow /\ ops[o].status \in Active
    BY <2>1, Fenced
  <2>3. RowMoved(ops[o], q)
    BY <2>1, <2>2 DEF RowMoved, LegalDestinations, OperationRow, Active
  <2>4. \A p \in Ops : AttemptsKept(attempts[p], attempts'[p])
    BY <2>1 DEF AttemptsKept
  <2> QED
    BY ZenonT(60), <2>1, <2>3, <2>4, OneRowStep
<1>3. ASSUME NEW s \in {"pending", "failed", "succeeded", "cancelled"},
             NEW q \in OperationRow, ActiveAttempt(o, n, w, now),
             ops' = [ops EXCEPT ![o] = q], NEW out, Ended(o, n, out),
             s \in {"pending", "succeeded"} => ops[o].status = "running",
             s = "cancelled" => ops[o].status = "cancelling",
             s = "pending" => Class(o) = "safe",
             q.status = s, q.input = ops[o].input, q.key = ops[o].key,
             q.created = ops[o].created, q.count = ops[o].count,
             q.progress >= ops[o].progress
      PROVE  \A p \in Ops : RowStep(p)
  <2>1. ops[o] \in OperationRow /\ ops[o].status \in Active
    BY <1>3, Fenced
  <2>2. RowMoved(ops[o], q)
    BY <1>3, <2>1, ReleasedMoves DEF Class
  <2>3. attempts' = [attempts EXCEPT ![o] = [attempts[o] EXCEPT
                       ![n] = [attempts[o][n] EXCEPT !.outcome = out]]]
    BY SMTT(60), <1>3, EndedOneRow
  <2> QED
    BY ZenonT(60), <1>3, <2>2, <2>3, OneRowStep, EndedKeeps
<1>4. CASE CompleteOperation(o, n, w, now)
  <2> DEFINE r == Released(ops[o], "succeeded")
             s == [r EXCEPT !.progress = 100]
             q == WithOutcome(s, "set", "none", "set")
  <2>1. /\ ActiveAttempt(o, n, w, now) /\ ops' = [ops EXCEPT ![o] = q]
        /\ ops[o].status = "running" /\ Ended(o, n, "succeeded")
    BY <1>4 DEF CompleteOperation
  <2>2. ops[o] \in OperationRow /\ ops[o].progress \in 0..100
    BY <2>1, Fenced
  <2>3. /\ r \in OperationRow /\ r.status = "succeeded" /\ r.input = ops[o].input
        /\ r.key = ops[o].key /\ r.created = ops[o].created /\ r.count = ops[o].count
    BY <2>2, ReleasedRow DEF Status, Terminal
  <2> HIDE DEF r
  <2>4. /\ s \in OperationRow /\ s.status = "succeeded" /\ s.input = ops[o].input
        /\ s.key = ops[o].key /\ s.created = ops[o].created /\ s.count = ops[o].count
        /\ s.progress = 100
    BY SMTT(60), <2>3 DEF OperationRow
  <2> HIDE DEF s
  <2>5. /\ q \in OperationRow /\ q.status = "succeeded" /\ q.input = ops[o].input
        /\ q.key = ops[o].key /\ q.created = ops[o].created /\ q.count = ops[o].count
        /\ q.progress >= ops[o].progress
    <3>1. /\ {"null", "set"} \subseteq Column /\ s \in OperationRow
          /\ "none" \in {"none", "handler", "lease"}
      BY SMTT(60), <2>4 DEF Column
    <3>2. /\ q \in OperationRow /\ q.status = s.status /\ q.input = s.input /\ q.key = s.key
          /\ q.created = s.created /\ q.count = s.count /\ q.progress = s.progress
      BY <3>1, OutcomeRow
    <3> HIDE DEF q
    <3> QED
      BY SMTT(60), <2>2, <2>4, <3>2
  <2> HIDE DEF q
  <2> QED
    BY ZenonT(60), <1>3, <2>1, <2>5
<1>5. ASSUME NEW s \in {"failed", "cancelled"}, NEW e \in {"none", "handler"},
             NEW res \in Column, NEW out,
             ActiveAttempt(o, n, w, now), Ended(o, n, out),
             s = "cancelled" => ops[o].status = "cancelling",
             ops' = [ops EXCEPT ![o] = WithOutcome(Released(ops[o], s), res, e, "set")]
      PROVE  \A p \in Ops : RowStep(p)
  <2> DEFINE r == Released(ops[o], s)
             q == WithOutcome(r, res, e, "set")
  <2>1. ops[o] \in OperationRow /\ ops[o].progress \in 0..100
    BY ZenonT(60), <1>5, Fenced
  <2>2. /\ r \in OperationRow /\ r.status = s /\ r.input = ops[o].input
        /\ r.key = ops[o].key /\ r.created = ops[o].created /\ r.count = ops[o].count
        /\ r.progress = ops[o].progress
    BY <2>1, ReleasedRow DEF Status, Terminal
  <2>3. ops' = [ops EXCEPT ![o] = q]
    BY SMTT(60), <1>5
  <2> HIDE DEF r
  <2>4. /\ q \in OperationRow /\ q.status = s /\ q.input = ops[o].input
        /\ q.key = ops[o].key /\ q.created = ops[o].created /\ q.count = ops[o].count
        /\ q.progress >= ops[o].progress
    <3>1. e \in {"none", "handler", "lease"} /\ "set" \in Column /\ r \in OperationRow
      BY <2>2 DEF Column
    <3>2. q \in OperationRow
      BY <3>1, Zenon DEF WithOutcome, OperationRow
    <3>3. /\ q.status = r.status /\ q.input = r.input /\ q.key = r.key
          /\ q.created = r.created /\ q.count = r.count /\ q.progress = r.progress
      BY SMTT(60), <3>1 DEF WithOutcome, OperationRow
    <3> HIDE DEF q
    <3> QED
      BY SMTT(60), <2>1, <2>2, <3>2, <3>3
  <2> HIDE DEF q
  <2>5. CASE s = "failed"
    BY ZenonT(60), <1>3, <1>5, <2>3, <2>4, <2>5
  <2>6. CASE s = "cancelled"
    BY ZenonT(60), <1>3, <1>5, <2>3, <2>4, <2>6
  <2> QED
    BY SMTT(60), <2>5, <2>6
<1>6. CASE FailAndRetry(o, n, w, now)
  <2> DEFINE t == now + RetryDelay(ops[o].count)
             r == Requeued(ops[o], t)
             q == WithOutcome(r, "null", "none", "null")
  <2>1. /\ ActiveAttempt(o, n, w, now) /\ ops' = [ops EXCEPT ![o] = q]
        /\ ops[o].status = "running" /\ Class(o) = "safe" /\ Ended(o, n, "failed")
    BY <1>6 DEF FailAndRetry, RetryAllowed, Cleared
  <2>2. ops[o] \in OperationRow /\ ops[o].progress \in 0..100 /\ ops[o].count \in Attempt
    BY <2>1, Fenced
  <2>3. t \in Int
    BY SMTT(60), <2>2, RetryDelayType, BoundAssumption
  <2> HIDE DEF t
  <2>4. /\ r \in OperationRow /\ r.status = "pending" /\ r.input = ops[o].input
        /\ r.key = ops[o].key /\ r.created = ops[o].created /\ r.count = ops[o].count
        /\ r.progress = ops[o].progress
    BY SMTT(60), <2>2, <2>3, RequeuedRow
  <2> HIDE DEF r
  <2>5. /\ q \in OperationRow /\ q.status = "pending" /\ q.input = ops[o].input
        /\ q.key = ops[o].key /\ q.created = ops[o].created /\ q.count = ops[o].count
        /\ q.progress >= ops[o].progress
    <3>1. /\ {"null", "set"} \subseteq Column /\ r \in OperationRow
          /\ "none" \in {"none", "handler", "lease"}
      BY SMTT(60), <2>4 DEF Column
    <3>2. /\ q \in OperationRow /\ q.status = r.status /\ q.input = r.input /\ q.key = r.key
          /\ q.created = r.created /\ q.count = r.count /\ q.progress = r.progress
      BY SMTT(60), <3>1, OutcomeRow
    <3> HIDE DEF q
    <3> QED
      BY SMTT(60), <2>2, <2>4, <3>2
  <2> HIDE DEF q
  <2> QED
    BY ZenonT(60), <1>3, <2>1, <2>5
<1>7. ASSUME NEW retry \in BOOLEAN, FailFinally(o, n, w, now, retry)
      PROVE  \A p \in Ops : RowStep(p)
  BY <1>5, <1>7 DEF FailFinally, Column
<1>8. CASE AcknowledgeOperationCancellation(o, n, w, now)
  BY SMTT(60), <1>5, <1>8 DEF AcknowledgeOperationCancellation, Column
<1> QED
  BY <1>1, <1>2, <1>4, <1>6, <1>7, <1>8, Zenon DEF WorkerCall, FailOperation

\* What a recovery does to one operation, expired or not.  Finished attempts
\* are kept, and the last attempt is finished afterwards.
LEMMA RecoverRowStep ==
  ASSUME Inv, NEW o \in Ops, NEW now \in Times
  PROVE  LET q == RecoveredOps(now)[o]
         IN  /\ q = ops[o] \/ (ops[o].status # "absent" /\ RowMoved(ops[o], q))
             /\ AttemptsKept(attempts[o], RecoveredAttempts(now)[o])
             /\ ops[o].status # "absent" =>
                  /\ q.input = ops[o].input /\ q.key = ops[o].key
                  /\ q.created = ops[o].created
                  /\ q.progress = ops[o].progress /\ q.count = ops[o].count
             /\ q.status = "pending" => ops[o].status \in {"pending", "running"}
<1>1. ops[o] \in OperationRow /\ attempts[o] \in [Attempt -> AttemptRow]
  BY SMTT(60) DEF Inv, RowInv, RowType
<1>2. CASE ~Expired(o, now)
  <2>1. RecoveredOps(now)[o] = ops[o] /\ RecoveredAttempts(now)[o] = attempts[o]
    BY <1>2 DEF RecoveredOps, RecoveredAttempts
  <2>2. AttemptsKept(attempts[o], RecoveredAttempts(now)[o])
    BY <2>1 DEF AttemptsKept
  <2> QED
    BY <2>1, <2>2
<1>3. CASE Expired(o, now)
  <2> DEFINE n == ops[o].current
  <2>1. /\ RecoveredOps(now)[o] = RecoveredOperation(o, now)
        /\ RecoveredAttempts(now)[o] =
             [attempts[o] EXCEPT ![n] =
                [attempts[o][n] EXCEPT !.outcome = RecoveredAttempt(o)]]
    BY SMTT(60), <1>3 DEF RecoveredOps, RecoveredAttempts
  <2>2. /\ ops[o].status \in Active /\ n \in Attempt /\ n = ops[o].count
        /\ attempts[o][n].outcome = "running"
    BY SMTT(60), <1>3 DEF Expired, Inv, RowInv, RowLedger, RowHeld
  <2>3. ops[o].result \in Column /\ ops[o].error \in {"none", "handler", "lease"}
    BY <1>1 DEF OperationRow
  <2>4. AttemptsKept(attempts[o], RecoveredAttempts(now)[o])
    BY SMTT(60), <1>1, <2>1, <2>2 DEF AttemptsKept
  <2> DEFINE q == RecoveredOperation(o, now)
  <2>5. /\ q \in OperationRow
        /\ q.status \in {"pending", "failed", "cancelled"}
        /\ q.status = "pending" => ops[o].status = "running" /\ Class(o) = "safe"
        /\ q.status = "cancelled" => ops[o].status = "cancelling"
        /\ q.input = ops[o].input /\ q.key = ops[o].key
        /\ q.created = ops[o].created
        /\ q.progress = ops[o].progress /\ q.count = ops[o].count
    <3>1. CASE ops[o].status = "cancelling"
      <4> DEFINE r == Released(ops[o], "cancelled")
      <4>1. q = WithOutcome(r, ops[o].result, ops[o].error, "set")
        BY SMTT(60), <3>1 DEF RecoveredOperation
      <4>2. /\ r \in OperationRow /\ r.status = "cancelled"
            /\ r.input = ops[o].input /\ r.key = ops[o].key
            /\ r.created = ops[o].created
            /\ r.progress = ops[o].progress /\ r.count = ops[o].count
        BY ZenonT(60), <1>1, ReleasedRow DEF Status, Terminal
      <4>3. /\ ops[o].result \in Column /\ "set" \in Column
            /\ ops[o].error \in {"none", "handler", "lease"}
        BY ZenonT(60), <2>3 DEF Column
      <4> HIDE DEF r, q
      <4>4. q \in OperationRow
        BY <4>1, <4>2, <4>3, ZenonT(60) DEF WithOutcome, OperationRow
      <4>5. /\ q.status = r.status /\ q.input = r.input /\ q.key = r.key /\ q.created = r.created
            /\ q.count = r.count /\ q.progress = r.progress
        BY <4>1, <4>2, SMTT(40) DEF WithOutcome, OperationRow
      <4> QED
        BY <3>1, <4>2, <4>4, <4>5
    <3>2. CASE ops[o].status = "running" /\ Replayable(o)
      <4> DEFINE t == now + RetryDelay(ops[o].count)
      <4>1. t \in Int
        BY <2>2, RetryDelayType, BoundAssumption
      <4>2. q = Requeued(ops[o], t)
        BY SMTT(60), <3>2 DEF RecoveredOperation
      <4> HIDE DEF t, q
      <4> QED
        BY SMTT(60), <1>1, <3>2, <4>1, <4>2, RequeuedRow DEF Replayable
    <3>3. CASE ops[o].status = "running" /\ ~Replayable(o)
      <4> DEFINE r == Released(ops[o], "failed")
      <4>1. q = WithOutcome(r, ops[o].result, "lease", "set")
        BY SMTT(60), <3>3 DEF RecoveredOperation
      <4>2. /\ r \in OperationRow /\ r.status = "failed"
            /\ r.input = ops[o].input /\ r.key = ops[o].key
            /\ r.created = ops[o].created
            /\ r.progress = ops[o].progress /\ r.count = ops[o].count
        BY SMTT(60), <1>1, ReleasedRow DEF Status, Terminal
      <4>3. /\ ops[o].result \in Column /\ "set" \in Column
            /\ "lease" \in {"none", "handler", "lease"}
        BY <2>3 DEF Column
      <4> HIDE DEF r, q
      <4>4. q \in OperationRow
        BY <4>1, <4>2, <4>3, ZenonT(60) DEF WithOutcome, OperationRow
      <4>5. /\ q.status = r.status /\ q.input = r.input /\ q.key = r.key /\ q.created = r.created
            /\ q.count = r.count /\ q.progress = r.progress
        BY <4>1, <4>2, SMTT(40) DEF WithOutcome, OperationRow
      <4> QED
        BY <3>3, <4>2, <4>4, <4>5
    <3> QED
      BY ZenonT(60), <2>2, <3>1, <3>2, <3>3 DEF Active
  <2>6. ops[o].progress \in Int
    BY SMTT(60), <1>1 DEF OperationRow
  <2> HIDE DEF q
  <2>7. RowMoved(ops[o], q)
    BY <1>1, <2>2, <2>5, <2>6, ReleasedMoves DEF Class
  <2>8. ops[o].status # "absent"
    BY SMTT(60), <2>2 DEF Active
  <2> QED
    BY <2>1, <2>4, <2>5, <2>7, <2>8 DEF q
<1> QED
  BY ZenonT(60), <1>2, <1>3

\* A recovery alone.
LEMMA RecoverSteps ==
  ASSUME Inv, NEW now \in Times, RecoverExpiredOperations(now)
  PROVE  \A p \in Ops : RowStep(p)
  BY RecoverRowStep DEF RecoverExpiredOperations, RowStep

\* A recovery and the claim of one row.
LEMMA ClaimSteps ==
  ASSUME Inv, NEW w \in Workers, NEW o \in Ops, NEW now \in Times, Claim(w, o, now)
  PROVE  \A p \in Ops : RowStep(p)
<1> DEFINE rows == RecoveredOps(now)
           tries == RecoveredAttempts(now)
           n == rows[o].count + 1
           q == ClaimRow(rows[o], w, now)
           b == [tries[o] EXCEPT ![n] = NewAttempt(w, now)]
<1>1. ops' = [rows EXCEPT ![o] = q] /\ attempts' = [tries EXCEPT ![o] = b]
  BY DEF Claim
<1>2. rows = [p \in Ops |-> rows[p]] /\ tries = [p \in Ops |-> tries[p]]
  BY SMTT(60) DEF RecoveredOps, RecoveredAttempts
<1>3. Eligible(rows[o], now) /\ rows[o].status = "pending"
  BY SMTT(60) DEF Claim, ClaimCandidates, Eligible
<1>4. RowInv(rows[o], tries[o])
  BY SMTT(60), RecoveredRows
<1>5. rows[o] \in OperationRow /\ tries[o] \in [Attempt -> AttemptRow]
  BY <1>4 DEF RowInv, RowType
<1>6. /\ q.status = "running" /\ q.input = rows[o].input /\ q.key = rows[o].key
      /\ q.created = rows[o].created /\ q.progress = rows[o].progress
      /\ q.count = rows[o].count + 1
  BY SMTT(60), <1>5 DEF ClaimRow, OperationRow
<1>7. ASSUME NEW p \in Ops, p # o
      PROVE  RowStep(p)
  <2>1. ops'[p] = rows[p] /\ attempts'[p] = tries[p]
    BY SMTT(60), <1>1, <1>2, <1>7
  <2> QED
    BY <2>1, RecoverRowStep DEF RowStep
<1>8. RowStep(o)
  <2>1. ops'[o] = q /\ attempts'[o] = b
    BY SMTT(60), <1>1, <1>2
  <2>2. /\ ops[o].status \in {"pending", "running"}
        /\ rows[o].input = ops[o].input /\ rows[o].key = ops[o].key
        /\ rows[o].created = ops[o].created
        /\ rows[o].progress = ops[o].progress /\ rows[o].count = ops[o].count
        /\ AttemptsKept(attempts[o], tries[o])
    <3>1. /\ AttemptsKept(attempts[o], tries[o])
          /\ ops[o].status # "absent" =>
               /\ rows[o].input = ops[o].input /\ rows[o].key = ops[o].key
               /\ rows[o].created = ops[o].created
               /\ rows[o].progress = ops[o].progress /\ rows[o].count = ops[o].count
          /\ rows[o].status = "pending" => ops[o].status \in {"pending", "running"}
      BY ZenonT(60), RecoverRowStep
    <3>2. ops[o].status \in {"pending", "running"}
      <4> HIDE DEF rows
      <4> QED
        BY <1>3, <3>1
    <3>3. ops[o].status # "absent"
      BY <3>2
    <3> QED
      BY ZenonT(60), <3>1, <3>2, <3>3
  <2>3. ops[o].progress \in Int /\ ops[o].count \in Int
    BY SMTT(60) DEF Inv, RowInv, RowType, OperationRow
  <2>7. ops[o].status = "running" => RetryClass[ops[o].input] = "safe"
    BY <1>3, RecoverRowStep DEF RowMoved, Active
  <2> HIDE DEF rows, tries, q
  <2>4. RowMoved(ops[o], q)
    BY <1>6, <2>2, <2>3, <2>7 DEF RowMoved, LegalDestinations, Active
  <2>5. \A m \in Attempt : m = n => tries[o][m].outcome = "absent"
    <3>1. \A m \in Attempt : tries[o][m].outcome # "absent" => m <= rows[o].count
      BY <1>4, Zenon DEF RowInv, RowBudget
    <3>2. rows[o].count \in Int
      BY SMTT(60), <2>2, <2>3
    <3>3. n > rows[o].count
      BY <3>2
    <3> HIDE DEF n
    <3>4. \A m \in Attempt : m = n => ~(m <= rows[o].count)
      BY SMTT(60), <3>2, <3>3 DEF Attempt
    <3> QED
      BY <3>1, <3>4, Zenon
  <2>6. AttemptsKept(attempts[o], b)
    <3> SUFFICES ASSUME NEW m \in Attempt,
                        attempts[o][m].outcome \notin {"absent", "running"}
                 PROVE  b[m] = attempts[o][m]
      BY DEF AttemptsKept
    <3>1. tries[o][m] = attempts[o][m]
      BY <2>2 DEF AttemptsKept
    <3>2. m # n
      BY <2>5, <3>1
    <3> QED
      BY SMTT(60), <1>5, <3>1, <3>2
  <2> QED
    BY SMTT(60), <2>1, <2>4, <2>6 DEF RowStep
<1> QED
  BY <1>7, <1>8

\* The calls of a user.
LEMMA UserSteps ==
  ASSUME Inv, NEW o \in Ops, NEW now \in Times,
         \/ RequestOperationCancellation(o)
         \/ RetryOperation(o, now)
         \/ \E k \in Keys \cup {NoKey}, i \in Inputs : CreateOperation(o, k, i, now)
  PROVE  \A p \in Ops : RowStep(p)
<1>1. ops[o] \in OperationRow /\ ops[o].progress \in Int /\ ops[o].count \in Int
  BY SMTT(60) DEF Inv, RowInv, RowType, OperationRow
<1>2. \A p \in Ops : AttemptsKept(attempts[p], attempts'[p])
  BY ZenonT(60) DEF AttemptsKept, RequestOperationCancellation, RetryOperation, CreateOperation
<1>3. CASE RequestOperationCancellation(o) /\ CancelPending(o)
  <2> DEFINE q == [ops[o] EXCEPT !.status = "cancelled", !.next = NoTime,
                                 !.cancelAt = "set", !.completed = "set"]
  <2>1. ops' = [ops EXCEPT ![o] = q] /\ ops[o].status = "pending"
    BY ZenonT(60), <1>3 DEF CancelPending
  <2>2. RowMoved(ops[o], q)
    BY <1>1, <2>1 DEF RowMoved, LegalDestinations, OperationRow, Active
  <2> QED
    BY ZenonT(60), <1>2, <2>1, <2>2, OneRowStep
<1>4. CASE RequestOperationCancellation(o) /\ CancelRunning(o)
  <2> DEFINE q == [ops[o] EXCEPT !.status = "cancelling", !.cancelAt = "set"]
  <2>1. ops' = [ops EXCEPT ![o] = q] /\ ops[o].status = "running"
    BY ZenonT(60), <1>4 DEF CancelRunning
  <2>2. RowMoved(ops[o], q)
    BY <1>1, <2>1 DEF RowMoved, LegalDestinations, OperationRow, Active
  <2> QED
    BY ZenonT(60), <1>2, <2>1, <2>2, OneRowStep
<1>5. CASE RetryOperation(o, now)
  <2> DEFINE r == Requeued(ops[o], now)
             s == WithOutcome(r, "null", "none", "null")
             q == [s EXCEPT !.cancelAt = "null"]
  <2>1. /\ ops' = [ops EXCEPT ![o] = q] /\ ops[o].status = "failed"
        /\ RetryClass[ops[o].input] # "none"
    BY <1>5 DEF RetryOperation, Cleared, Class
  <2>2. /\ r \in OperationRow /\ r.status = "pending" /\ r.input = ops[o].input
        /\ r.key = ops[o].key /\ r.created = ops[o].created /\ r.count = ops[o].count
        /\ r.progress = ops[o].progress
    BY SMTT(60), <1>1, RequeuedRow, BoundAssumption
  <2> HIDE DEF r
  <2>3. /\ s \in OperationRow /\ s.status = "pending" /\ s.input = ops[o].input
        /\ s.key = ops[o].key /\ s.created = ops[o].created /\ s.count = ops[o].count
        /\ s.progress = ops[o].progress
    BY <2>2, OutcomeRow DEF Column
  <2> HIDE DEF s
  <2>4. RowMoved(ops[o], q)
    BY SMTT(60), <1>1, <2>1, <2>3 DEF RowMoved, LegalDestinations, OperationRow, Active
  <2> QED
    BY ZenonT(60), <1>2, <2>1, <2>4, OneRowStep
<1>6. ASSUME NEW k \in Keys \cup {NoKey}, NEW i \in Inputs, CreateOperation(o, k, i, now)
      PROVE  \A p \in Ops : RowStep(p)
  <2>1. \A p \in Ops : p # o => ops'[p] = ops[p]
    BY ZenonT(60), <1>6 DEF CreateOperation, Inv
  <2>2. ops[o] = NoOperation
    BY ZenonT(60), <1>6 DEF CreateOperation, Inv, RowInv, RowAbsent
  <2>3. ops'[o].status = "pending" /\ ops'[o].count = ops[o].count
    <3> DEFINE q == [ops[o] EXCEPT !.status = "pending", !.input = i, !.key = k,
                                   !.created = now, !.next = now]
    <3>1. ops' = [ops EXCEPT ![o] = q]
      BY ZenonT(60), <1>6 DEF CreateOperation
    <3>2. ops'[o] = q
      BY SMTT(60), <3>1 DEF Inv
    <3>3. q.status = "pending" /\ q.count = ops[o].count
      BY SMTT(60), <1>1 DEF OperationRow
    <3> QED
      BY <3>2, <3>3
  <2>4. RowCreated(ops[o], ops'[o])
    BY <2>2, <2>3 DEF RowCreated, NoOperation
  <2> QED
    BY ZenonT(60), <1>2, <2>1, <2>4 DEF RowStep
<1> QED
  BY SMTT(60), <1>3, <1>4, <1>5, <1>6 DEF RequestOperationCancellation

\* Every step moves every row legally.
LEMMA NextSteps ==
  ASSUME Inv, Next
  PROVE  \A p \in Ops : RowStep(p)
<1>1. PICK now \in Times :
      \/ \E o \in Ops, k \in Keys \cup {NoKey}, i \in Inputs :
            CreateOperation(o, k, i, now)
      \/ \E w \in Workers, o \in Ops : Claim(w, o, now)
      \/ ClaimNothing(now)
      \/ RecoverExpiredOperations(now)
      \/ \E o \in Ops, n \in Attempt, w \in Workers : WorkerCall(o, n, w, now)
      \/ \E o \in Ops : RequestOperationCancellation(o)
      \/ \E o \in Ops : RetryOperation(o, now)
  BY Zenon DEF Next
<1> QED
  BY <1>1, UserSteps, ClaimSteps, RecoverSteps, CallSteps, Zenon DEF ClaimNothing

\* No update of an operation row is one the trigger would abort.
THEOREM TriggerAccepts == Spec => UpdatesAccepted
<1>1. Inv /\ Inv' /\ [Next]_vars =>
        [\A o \in Ops : ops'[o] # ops[o] /\ ops[o].status # "absent" =>
            OperationUpdateAccepted(ops[o], ops'[o])]_vars
  <2> SUFFICES ASSUME Inv, Inv', Next, NEW o \in Ops,
                      ops'[o] # ops[o], ops[o].status # "absent"
               PROVE  OperationUpdateAccepted(ops[o], ops'[o])
    BY ZenonT(60)
  <2>1. RowMoved(ops[o], ops'[o])
    BY SMTT(60), NextSteps DEF RowStep, RowCreated
  <2>2. ops[o].status \in Status
    BY DEF Inv, RowInv, RowType, OperationRow
  <2>3. ops'[o].status # "absent"
    BY <2>1, <2>2 DEF RowMoved, LegalDestinations, Status, Active, Terminal
  <2>4. RowInv(ops'[o], attempts'[o])
    BY SMTT(60) DEF Inv
  <2>5. StateShape(ops'[o]) /\ ops'[o].count <= MaxAttempts(ops'[o].input)
    BY <2>3, <2>4 DEF RowInv, RowShape, RowBudget
  <2> QED
    BY ZenonT(60), <2>1, <2>5 DEF RowMoved, OperationUpdateAccepted
<1> QED
  BY <1>1, Invariance, PTL DEF Spec, UpdatesAccepted

\* A finished attempt is never written again.
THEOREM FinishedAttemptsKept == Spec => AttemptsFinal
<1>1. Inv /\ [Next]_vars =>
        [\A o \in Ops, n \in Attempt :
           attempts[o][n].outcome \notin {"absent", "running"} =>
             attempts'[o][n] = attempts[o][n]]_vars
  BY NextSteps, Zenon DEF RowStep, AttemptsKept
<1> QED
  BY <1>1, Invariance, PTL DEF Spec, AttemptsFinal

\* Only work of the safe class is replayed without a user.
THEOREM ReplayIsSafe == Spec => AutomaticRetryIsSafe
<1>1. Inv /\ [Next]_vars =>
        [\A o \in Ops : ops[o].status \in Active /\ ops'[o].status = "pending" =>
           Class(o) = "safe"]_vars
  <2> SUFFICES ASSUME Inv, Next, NEW o \in Ops, ops[o].status \in Active,
                      ops'[o].status = "pending"
               PROVE  Class(o) = "safe"
    BY Zenon
  <2> QED
    BY NextSteps DEF RowStep, RowMoved, RowCreated, Class, Active
<1> QED
  BY <1>1, Invariance, PTL DEF Spec, AutomaticRetryIsSafe

-----------------------------------------------------------------------------
(***************************************************************************)
(* The queue implements its contract.                                      *)
(***************************************************************************)

\* What a row presents is a row of the contract.
LEMMA PresentedType ==
  ASSUME NEW r \in OperationRow
  PROVE  Presented(r) \in Contract!Row
<1>1. r.status \in Status /\ r.input \in Inputs /\ r.count \in Nat
  BY BoundAssumption DEF OperationRow
<1>2. ContractState[r.status] \in Contract!State
  BY <1>1 DEF ContractState, Contract!State, Status, Active, Terminal
<1> QED
  BY <1>1, <1>2 DEF Presented, Contract!Row

\* A legal move of a row is a step of the contract, or changes nothing of what
\* it presents.
LEMMA MovePresented ==
  ASSUME NEW r \in OperationRow, NEW q \in OperationRow, RowMoved(r, q),
         q.count <= MaxAttempts(q.input),
         q.status = "pending" => q.count < MaxAttempts(q.input)
  PROVE  Presented(q) = Presented(r) \/ Contract!Step(Presented(r), Presented(q))
<1> DEFINE p == Presented(r)
           t == Presented(q)
<1>1. /\ r.status \in Status /\ q.status \in Status /\ r.count \in Nat /\ q.count \in Nat
      /\ r.input \in Inputs /\ q.input = r.input
  BY BoundAssumption DEF OperationRow, RowMoved
<1>2. /\ p.state = ContractState[r.status] /\ p.kind = r.input /\ p.tries = r.count
      /\ t.state = ContractState[q.status] /\ t.kind = q.input /\ t.tries = q.count
  BY DEF Presented
<1>3. MaxAttempts(r.input) \in Nat
  BY <1>1, InputAssumption DEF MaxAttempts, NormalizeMaxAttempts
<1>4. [i \in Inputs |-> MaxAttempts(i)][r.input] = MaxAttempts(r.input)
  BY <1>1
<1>5. CASE q.count # r.count
  <2>1. /\ q.count = r.count + 1 /\ q.status = "running"
        /\ r.status = "running" => RetryClass[r.input] = "safe"
        /\ r.status \in {"pending", "running"}
    BY <1>1, <1>5 DEF RowMoved, LegalDestinations, Status, Active, Terminal
  <2>2. /\ p.state = IF r.status = "pending" THEN "waiting" ELSE "held"
        /\ t.state = "held"
    BY <1>2, <2>1 DEF ContractState
  <2> HIDE DEF p, t
  <2>3. Contract!Grant(p, t)
    BY <1>1, <1>2, <1>3, <1>4, <2>1, <2>2 DEF Contract!Grant, Contract!Move, Contract!Again
  <2> QED
    BY <1>1, <1>2, <2>3 DEF Contract!Step, p, t
<1>6. CASE q.count = r.count
  <2>1. \/ q.status = r.status /\ r.status \in Active
        \/ q.status = "cancelled" /\ r.status \in {"pending", "cancelling"}
        \/ q.status = "cancelling" /\ r.status = "running"
        \/ q.status = "succeeded" /\ r.status = "running"
        \/ q.status = "failed" /\ r.status \in Active
        \/ q.status = "pending" /\ r.status = "running" /\ RetryClass[r.input] = "safe"
        \/ q.status = "pending" /\ r.status = "failed" /\ RetryClass[r.input] # "none"
    BY <1>1, <1>6 DEF RowMoved, LegalDestinations, Status, Active, Terminal
  <2>2. q.status = "pending" => r.count < MaxAttempts(r.input)
    BY <1>1, <1>6
  <2>3. CASE q.status = r.status
    BY <1>1, <1>6, <2>3 DEF Presented
  <2>4. CASE q.status # r.status
    <3>1. \/ Contract!Cancel(p, t) \/ Contract!Finish(p, t) \/ Contract!Fail(p, t)
          \/ Contract!Release(p, t) \/ Contract!Resubmit(p, t)
      <4> HIDE DEF p, t
      <4>1. CASE q.status = "pending"
        <5>1. t.state = "waiting" /\ Contract!Again(p)
          <6>1. t.state = "waiting"
            BY <1>2, <4>1 DEF ContractState
          <6>2. r.count < MaxAttempts(r.input)
            BY <2>2, <4>1
          <6>3. p.tries < [i \in Inputs |-> MaxAttempts(i)][p.kind]
            <7>1. p.tries = r.count /\ p.kind = r.input
              BY <1>2
            <7> QED
              BY <1>4, <6>2, <7>1
          <6> QED
            BY <6>1, <6>3 DEF Contract!Again
        <5>2. CASE r.status = "running"
          <6>1. p.state = "held" /\ RetryClass[p.kind] = "safe"
            BY <1>2, <2>1, <4>1, <5>2 DEF ContractState
          <6> QED
            BY <5>1, <6>1 DEF Contract!Release, Contract!Move
        <5>3. CASE r.status = "failed"
          <6>1. p.state = "failed" /\ RetryClass[p.kind] # "none"
            BY <1>2, <2>1, <4>1, <5>3 DEF ContractState
          <6> QED
            BY <5>1, <6>1 DEF Contract!Resubmit, Contract!Move
        <5> QED
          BY <2>1, <2>4, <4>1, <5>2, <5>3
      <4>2. CASE q.status = "cancelled" /\ r.status \in {"pending", "cancelling"}
        <5>1. p.state \in {"waiting", "stopping"} /\ t.state = "cancelled"
          BY <1>2, <4>2 DEF ContractState
        <5> QED
          BY <5>1 DEF Contract!Cancel, Contract!Move
      <4>3. CASE q.status = "cancelling" /\ r.status = "running"
        <5>1. p.state = "held" /\ t.state = "stopping"
          BY <1>2, <4>3 DEF ContractState
        <5> QED
          BY <5>1 DEF Contract!Cancel, Contract!Move
      <4>4. CASE q.status = "succeeded" /\ r.status = "running"
        <5>1. p.state = "held" /\ t.state = "done"
          BY <1>2, <4>4 DEF ContractState
        <5> QED
          BY <5>1 DEF Contract!Finish, Contract!Move
      <4>5. CASE q.status = "failed" /\ r.status \in Active
        <5>1. p.state \in {"held", "stopping"} /\ t.state = "failed"
          BY <1>2, <4>5 DEF ContractState, Active
        <5> QED
          BY <5>1 DEF Contract!Fail, Contract!Move
      <4> QED
        BY <2>1, <2>4, <4>1, <4>2, <4>3, <4>4, <4>5
    <3> QED
      BY <1>1, <1>2, <1>6, <3>1 DEF Contract!Step
  <2> QED
    BY <2>3, <2>4
<1> QED
  BY <1>5, <1>6

\* The queue implements WorkContract (internal/operations, internal/core): every
\* step of it, of any number of workers, is a step of the contract or a stutter.
THEOREM QueueKeepsContract == Spec => KeepsContract
<1> DEFINE shown == [o \in Ops |-> Presented(ops[o])]
<1>1. Init => Contract!Init
  <2> SUFFICES ASSUME Init PROVE Contract!Init
    OBVIOUS
  <2>1. Inv
    BY InitInv
  <2>2. \A o \in Ops : ops[o] \in OperationRow
    BY <2>1 DEF Inv, RowInv, RowType
  <2>3. \A o \in Ops : shown[o] \in Contract!Row
    BY <2>2, PresentedType
  <2>4. \A o \in Ops : shown[o].state = "absent" /\ shown[o].tries = 0
    BY DEF Init, NoOperation, Presented, ContractState
  <2> QED
    BY <2>3, <2>4 DEF Contract!Init
<1>2. Inv /\ Inv' /\ [Next]_vars => [Contract!Next]_shown
  <2> SUFFICES ASSUME Inv, Inv', Next PROVE Contract!Next
    BY DEF vars
  <2>1. \A o \in Ops : ops[o] \in OperationRow /\ ops'[o] \in OperationRow
    BY DEF Inv, RowInv, RowType
  <2>2. \A o \in Ops : shown'[o] \in Contract!Row
    BY <2>1, PresentedType
  <2>3. ASSUME NEW o \in Ops
        PROVE  shown'[o] = shown[o] \/ Contract!Step(shown[o], shown'[o])
    <3>1. shown[o] = Presented(ops[o]) /\ shown'[o] = Presented(ops'[o])
      OBVIOUS
    <3>2. RowInv(ops'[o], attempts'[o])
      BY SMTT(60) DEF Inv
    <3>3. CASE ops'[o] = ops[o]
      BY <3>1, <3>3
    <3>4. CASE RowMoved(ops[o], ops'[o])
      <4>1. ops'[o].status # "absent"
        BY <2>1, <3>4 DEF RowMoved, LegalDestinations, OperationRow, Status, Active, Terminal
      <4>2. /\ ops'[o].count <= MaxAttempts(ops'[o].input)
            /\ ops'[o].status = "pending" => ops'[o].count < MaxAttempts(ops'[o].input)
        BY <3>2, <4>1 DEF RowInv, RowBudget
      <4> QED
        BY ZenonT(60), <2>1, <3>1, <3>4, <4>2, MovePresented
    <3>5. CASE RowCreated(ops[o], ops'[o])
      <4>1. Presented(ops[o]).state = "absent"
        BY <3>5 DEF RowCreated, Presented, ContractState
      <4>2. Presented(ops'[o]).state = "waiting" /\ Presented(ops'[o]).tries = 0
        BY <3>5 DEF RowCreated, Presented, ContractState
      <4>3. Contract!Submit(Presented(ops[o]), Presented(ops'[o]))
        BY <4>1, <4>2 DEF Contract!Submit, Contract!Move
      <4> QED
        BY <3>1, <4>3 DEF Contract!Step
    <3> QED
      BY <3>3, <3>4, <3>5, NextSteps DEF RowStep
  <2> QED
    BY <2>2, <2>3 DEF Contract!Next
<1> QED
  BY <1>1, <1>2, Invariance, PTL DEF Spec, KeepsContract, Contract!Spec
=============================================================================

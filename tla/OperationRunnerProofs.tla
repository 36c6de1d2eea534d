----------------------- MODULE OperationRunnerProofs ------------------------
(***************************************************************************)
(* The queue's invariant holds under the runner: every repository call of  *)
(* a worker or a user is a step of Operations, and the passing of time     *)
(* ages the lease of an operation and of its attempt alike.                *)
(***************************************************************************)
EXTENDS OperationRunner, OperationsProofs

RunType == run \in [Workers -> WorkerState]

\* Time that passes keeps a missing time missing and a present one present.
LEMMA AgedType ==
  ASSUME NEW t \in Int \cup {NoTime}
  PROVE  /\ Aged(t) \in Int \cup {NoTime}
         /\ Aged(t) = NoTime <=> t = NoTime
  BY NullAssumption DEF Aged

\* Changing the two times of a row keeps it a row.
LEMMA AgedRow ==
  ASSUME NEW r \in OperationRow, NEW x \in Int \cup {NoTime}, NEW y \in Int \cup {NoTime}
  PROVE  [r EXCEPT !.lease = x, !.next = y] \in OperationRow
  BY ZenonT(60) DEF OperationRow

\* Tick preserves the queue's invariant.
LEMMA TickInv ==
  ASSUME Inv, Tick
  PROVE  Inv'
<1> DEFINE row(o) == [ops[o] EXCEPT !.lease = Aged(ops[o].lease),
                                    !.next = Aged(ops[o].next)]
           try(o) == [n \in Attempt |->
                        [attempts[o][n] EXCEPT !.lease = Aged(attempts[o][n].lease)]]
<1>1. /\ ops' = [o \in Ops |-> row(o)] /\ attempts' = [o \in Ops |-> try(o)]
      /\ log' = log /\ audit' = audit
  BY ZenonT(60) DEF Tick
<1>2. ASSUME NEW o \in Ops
      PROVE  RowInv(row(o), try(o)) /\ row(o).key = ops[o].key
  <2> DEFINE r == ops[o]
             a == attempts[o]
             q == row(o)
             b == try(o)
  <2>1. RowInv(r, a) /\ r \in OperationRow /\ a \in [Attempt -> AttemptRow]
    BY DEF Inv, RowInv, RowType
  <2>2. r.lease \in Int \cup {NoTime} /\ r.next \in Int \cup {NoTime}
    BY <2>1 DEF OperationRow
  <2>3. /\ Aged(r.lease) \in Int \cup {NoTime}
        /\ Aged(r.lease) = NoTime <=> r.lease = NoTime
        /\ Aged(r.next) \in Int \cup {NoTime}
        /\ Aged(r.next) = NoTime <=> r.next = NoTime
    BY ZenonT(60), <2>2, AgedType
  <2>4. q \in OperationRow
    BY ZenonT(60), <2>1, <2>3, AgedRow
  <2>5. /\ q.status = r.status /\ q.input = r.input /\ q.key = r.key
        /\ q.count = r.count /\ q.current = r.current /\ q.worker = r.worker
        /\ q.lease = Aged(r.lease) /\ q.next = Aged(r.next)
        /\ q.progress = r.progress /\ q.cancelAt = r.cancelAt
        /\ q.result = r.result /\ q.error = r.error /\ q.completed = r.completed
    BY <2>1 DEF OperationRow
  <2>6. ASSUME NEW n \in Attempt
        PROVE  /\ b[n] \in AttemptRow /\ b[n].outcome = a[n].outcome
               /\ b[n].worker = a[n].worker /\ b[n].lease = Aged(a[n].lease)
    <3>1. a[n] \in AttemptRow /\ Aged(a[n].lease) \in Int \cup {NoTime}
      BY ZenonT(60), <2>1, AgedType DEF AttemptRow
    <3> QED
      BY <3>1 DEF AttemptRow
  <2>7. r.status = "absent" => q = r
    <3>1. r.status = "absent" => r = NoOperation
      BY <2>1 DEF RowInv, RowAbsent
    <3>2. r = NoOperation => r.lease = NoTime /\ r.next = NoTime
      BY DEF NoOperation
    <3>3. r.lease = NoTime /\ r.next = NoTime => q = r
      BY ZenonT(60), <2>1 DEF Aged, OperationRow
    <3> QED
      BY <3>1, <3>2, <3>3
  <2>8. b \in [Attempt -> AttemptRow]
    BY <2>6
  <2> HIDE DEF q, b, r, a
  <2>9. RowType(q, b)
    BY <2>4, <2>8 DEF RowType
  <2>10. RowLedger(q, b)
    BY <2>1, <2>3, <2>5, <2>6 DEF RowInv, RowLedger, RowHeld, RowFree
  <2>11. RowBudget(q, b)
    BY SMTT(60), <2>1, <2>5, <2>6 DEF RowInv, RowBudget
  <2>12. RowOutcome(q, b)
    <3>1. r.count \in 0..AttemptLimit /\ (r.count > 0 => r.count \in Attempt)
      BY <2>1, BoundAssumption DEF OperationRow, Attempt
    <3>2. r.count = 0 \/ b[r.count].outcome = a[r.count].outcome
      BY <2>6, <3>1 DEF Attempt
    <3> QED
      BY SMTT(60), <2>1, <2>5, <2>6, <3>1, <3>2 DEF RowInv, RowOutcome
  <2>13. RowCancel(q) /\ RowAbsent(q)
    BY <2>1, <2>5, <2>7 DEF RowInv, RowCancel, RowAbsent
  <2>14. RowShape(q)
    BY <2>1, <2>3, <2>5 DEF RowInv, RowShape, StateShape
  <2> QED
    BY <2>5, <2>9, <2>10, <2>11, <2>12, <2>13, <2>14 DEF RowInv, q, b, r, a
<1> HIDE DEF row, try
<1>3. \A o \in Ops : RowInv(ops'[o], attempts'[o]) /\ ops'[o].key = ops[o].key
  BY <1>1, <1>2
<1>4. ops' = [o \in Ops |-> ops'[o]] /\ attempts' = [o \in Ops |-> attempts'[o]]
  BY <1>1
<1>5. HistoryType'
  BY <1>1 DEF Inv, HistoryType
<1>6. IdempotentCreation'
  BY <1>3, ZenonT(60) DEF Inv, IdempotentCreation
<1> QED
  BY <1>3, <1>4, <1>5, <1>6 DEF Inv

\* A worker's local state stays typed.
LEMMA RunTypeStep ==
  ASSUME Inv, RunType, [RunnerNext]_runnerVars
  PROVE  RunType'
<1>1. \A pc \in {"new", "idle", "handling", "finished", "calling", "down"} :
        Worker(pc) \in WorkerState
  <2> DEFINE o == CHOOSE o \in Ops : TRUE
  <2>1. o \in Ops /\ 0 \in 0..AttemptLimit
    BY RunnerAssumption, BoundAssumption
  <2> HIDE DEF o
  <2> QED
    BY <2>1 DEF Worker, WorkerState, BeatError, Call, o
<1>2. ASSUME NEW w \in Workers, NEW l \in WorkerState, Step(w, l)
      PROVE  RunType'
  BY <1>2 DEF RunType, Step
<1>3. ASSUME NEW w \in Workers, Returns(w)
      PROVE  RunType'
  <2>1. CASE w \in stopping
    BY <1>1, <1>2, <1>3, <2>1 DEF Returns
  <2>2. CASE w \notin stopping
    BY <1>1, <1>2, <1>3, <2>2 DEF Returns
  <2> QED
    BY <2>1, <2>2
<1>4. ASSUME NEW w \in Workers, NEW e \in BeatError, BeatEnds(w, e)
      PROVE  RunType'
  <2>1. [run[w] EXCEPT !.beat = "off", !.beatErr = e] \in WorkerState
    BY ZenonT(60) DEF RunType, WorkerState
  <2> QED
    BY <1>2, <1>4, <2>1 DEF BeatEnds
<1>5. CASE UNCHANGED run
  BY <1>5 DEF RunType
<1>6. ASSUME NEW w \in Workers, NEW o \in Ops, RunOnceClaim(w, o)
      PROVE  RunType'
  <2> DEFINE n == RecoveredOps(Now)[o].count + 1
             l == Worker("handling")
  <2>1. Now \in Times
    BY RunnerAssumption DEF Now
  <2>2. RowInv(RecoveredOps(Now)[o], RecoveredAttempts(Now)[o])
    BY <2>1, RecoveredRows
  <2>3. Eligible(RecoveredOps(Now)[o], Now)
    BY <1>6 DEF RunOnceClaim, Claim, ClaimCandidates
  <2>4. n \in 0..AttemptLimit
    <3>1. /\ RecoveredOps(Now)[o] \in OperationRow
          /\ RecoveredOps(Now)[o].count < MaxAttempts(RecoveredOps(Now)[o].input)
          /\ RecoveredOps(Now)[o].status = "pending"
      BY SMTT(60), <2>2, <2>3 DEF RowInv, RowType, Eligible
    <3>2. MaxAttempts(RecoveredOps(Now)[o].input) \in Attempt
      BY <2>2, <3>1, MaximumType DEF RowInv, RowBudget, OperationRow
    <3> QED
      BY <3>1, <3>2, BoundAssumption DEF OperationRow, Attempt
  <2>5. l \in WorkerState
    BY <1>1
  <2>6. Step(w, [l EXCEPT !.op = o, !.attempt = n, !.beat = "on"])
    BY <1>6 DEF RunOnceClaim
  <2> HIDE DEF n, l
  <2>7. [l EXCEPT !.op = o, !.attempt = n, !.beat = "on"] \in WorkerState
    BY ZenonT(60), <2>4, <2>5 DEF WorkerState
  <2> QED
    BY <1>2, <2>6, <2>7
<1>7. ASSUME NEW w \in Workers, NEW r \in Return, HandlerReturns(w, r)
      PROVE  RunType'
  <2>1. [run[w] EXCEPT !.pc = "finished", !.ret = r] \in WorkerState
    BY ZenonT(60) DEF RunType, WorkerState
  <2> QED
    BY <1>2, <1>7, <2>1 DEF HandlerReturns
<1>8. ASSUME NEW w \in Workers, RunOnceAnswer(w)
      PROVE  RunType'
  <2>1. CASE Answer(w) = "none"
    BY <1>3, <1>8, <2>1 DEF RunOnceAnswer
  <2>2. CASE Answer(w) # "none"
    <3>1. Answer(w) \in Call
      BY DEF Answer, CancelledCall, Call
    <3>2. [run[w] EXCEPT !.pc = "calling", !.call = Answer(w)] \in WorkerState
      BY ZenonT(60), <3>1 DEF RunType, WorkerState
    <3> QED
      BY <1>2, <1>8, <2>2, <3>2 DEF RunOnceAnswer
  <2> QED
    BY <2>1, <2>2
<1>9. ASSUME NEW w \in Workers, RunOnceCompleteCancelled(w)
      PROVE  RunType'
  <2>1. [run[w] EXCEPT !.call = "acknowledge"] \in WorkerState
    BY DEF RunType, WorkerState, Call
  <2> QED
    BY <1>2, <1>9, <2>1 DEF RunOnceCompleteCancelled
<1>10. ASSUME NEW w \in Workers, WorkerStep(w)
       PROVE  RunType'
  <2>1. CASE Start(w)
    BY <1>1, <1>2, <2>1 DEF Start
  <2>2. CASE RunOnceNothing(w)
    BY <1>5, <2>2 DEF RunOnceNothing
  <2>3. CASE Beat(w)
    BY <1>4, <1>5, <2>3 DEF Beat, BeatError
  <2>4. CASE BeatLost(w) \/ BeatStopped(w)
    BY <1>4, <2>4 DEF BeatLost, BeatStopped, BeatError
  <2>5. CASE RunOnceCall(w) \/ RunOnceRefused(w)
    BY ZenonT(60), <1>3, <2>5 DEF RunOnceCall, RunOnceRefused
  <2> QED
    BY ZenonT(60), <1>6, <1>7, <1>8, <1>9, <1>10, <2>1, <2>2, <2>3, <2>4, <2>5 DEF WorkerStep
<1>11. ASSUME NEW w \in Workers, FaultStep(w)
       PROVE  RunType'
  <2>1. CASE Shutdown(w)
    BY <1>1, <1>2, <1>5, <2>1 DEF Shutdown
  <2>2. CASE Crash(w)
    BY <1>1, <1>2, <2>2 DEF Crash
  <2>3. CASE BeatFailed(w)
    BY <1>4, <2>3 DEF BeatFailed, BeatError
  <2>4. CASE RunOnceCallFailed(w)
    BY <1>3, <2>4 DEF RunOnceCallFailed
  <2> QED
    BY SMTT(60), <1>11, <2>1, <2>2, <2>3, <2>4 DEF FaultStep
<1>12. CASE Tick \/ UserStep
  BY ZenonT(60), <1>5, <1>12 DEF Tick, UserStep
<1>13. ASSUME NEW w \in Workers, NEW p \in Percents, Checkpoint(w, p)
       PROVE  RunType'
  BY <1>5, <1>13 DEF Checkpoint
<1>14. CASE UNCHANGED runnerVars
  BY <1>5, <1>14 DEF runnerVars
<1> QED
  BY <1>10, <1>11, <1>12, <1>13, <1>14, Zenon DEF RunnerNext

\* Every step of the runner but Tick is a step of the queue or leaves the
\* queue alone.
LEMMA RunnerIsQueueStep ==
  ASSUME Inv, RunType, RunnerNext
  PROVE  Tick \/ Next \/ UNCHANGED vars
<1>1. Now \in Times
  BY RunnerAssumption DEF Now
<1>2. ASSUME NEW w \in Workers
      PROVE  run[w].op \in Ops
  BY DEF RunType, WorkerState
<1>3. ASSUME NEW w \in Workers, Holds(w)
      PROVE  run[w].attempt \in Attempt
  BY <1>2, <1>3, Fenced DEF Holds
<1>4. ASSUME NEW w \in Workers, WorkerCall(run[w].op, run[w].attempt, w, Now), Holds(w)
      PROVE  Next
  BY <1>1, <1>2, <1>3, <1>4, Zenon DEF Next
<1>5. ASSUME NEW w \in Workers, WorkerStep(w)
      PROVE  Next \/ UNCHANGED vars
  <2>1. CASE Start(w)
    BY <1>1, <2>1, Zenon DEF Start, Next
  <2>2. ASSUME NEW o \in Ops, RunOnceClaim(w, o)
        PROVE  Next
    BY <1>1, <2>2, Zenon DEF RunOnceClaim, Next
  <2>3. CASE RunOnceNothing(w)
    BY <1>1, <2>3, Zenon DEF RunOnceNothing, Next
  <2>4. CASE Beat(w)
    <3>1. HeartbeatOperation(run[w].op, run[w].attempt, w, Now)
      BY SMTT(60), <2>4 DEF Beat
    <3>2. Holds(w)
      BY ZenonT(60), <3>1 DEF HeartbeatOperation, Holds
    <3> QED
      BY <1>4, <3>1, <3>2 DEF WorkerCall
  <2>5. CASE RunOnceCall(w)
    <3> DEFINE o == run[w].op
               n == run[w].attempt
    <3>1. \/ CompleteOperation(o, n, w, Now) \/ FailOperation(o, n, w, Now, FALSE)
          \/ FailOperation(o, n, w, Now, TRUE)
          \/ AcknowledgeOperationCancellation(o, n, w, Now)
      BY <2>5, ZenonT(60) DEF RunOnceCall
    <3>2. Holds(w)
      BY <3>1 DEF CompleteOperation, FailOperation, FailAndRetry, FailFinally,
                  AcknowledgeOperationCancellation, Holds
    <3>3. WorkerCall(o, n, w, Now)
      BY <3>1, Zenon DEF WorkerCall
    <3> QED
      BY <1>4, <3>2, <3>3
  <2>6. CASE \/ BeatLost(w) \/ BeatStopped(w) \/ RunOnceAnswer(w)
             \/ RunOnceCompleteCancelled(w) \/ RunOnceRefused(w)
             \/ \E r \in Return : HandlerReturns(w, r)
    BY <2>6, Zenon DEF BeatLost, BeatStopped, RunOnceAnswer, RunOnceCompleteCancelled,
                       RunOnceRefused, HandlerReturns
  <2> QED
    BY <1>5, <2>1, <2>2, <2>3, <2>4, <2>5, <2>6, ZenonT(60) DEF WorkerStep
<1>6. ASSUME NEW w \in Workers, FaultStep(w)
      PROVE  UNCHANGED vars
  BY <1>6, Zenon DEF FaultStep, Shutdown, Crash, BeatFailed, RunOnceCallFailed
<1>7. ASSUME NEW w \in Workers, NEW p \in Percents, Checkpoint(w, p)
      PROVE  Next
  <2>1. BoundedCheckpoint(run[w].op, run[w].attempt, w, Now, p)
    BY <1>7 DEF Checkpoint
  <2>2. Holds(w)
    BY <2>1 DEF BoundedCheckpoint, CheckpointOperation, Holds
  <2> QED
    BY <1>4, <2>1, <2>2, Zenon DEF WorkerCall
<1>8. CASE UserStep
  BY <1>1, <1>8, Zenon DEF UserStep, Next
<1> QED
  BY <1>5, <1>6, <1>7, <1>8, Zenon DEF RunnerNext

\* The queue's inductive invariant holds in every state of the composed
\* system.
THEOREM RunnerInvariance == RunnerSpec => [](Inv /\ RunType)
<1>1. RunnerInit => Inv /\ RunType
  <2> SUFFICES ASSUME RunnerInit PROVE Inv /\ RunType
    OBVIOUS
  <2>1. Inv
    BY InitInv DEF RunnerInit
  <2>2. Worker("new") \in WorkerState
    <3> DEFINE o == CHOOSE o \in Ops : TRUE
    <3>1. o \in Ops /\ 0 \in 0..AttemptLimit
      BY RunnerAssumption, BoundAssumption
    <3> HIDE DEF o
    <3> QED
      BY <3>1 DEF Worker, WorkerState, BeatError, Call, o
  <2> QED
    BY <2>1, <2>2 DEF RunnerInit, RunType
<1>2. Inv /\ RunType /\ [RunnerNext]_runnerVars => (Inv /\ RunType)'
  <2> SUFFICES ASSUME Inv, RunType, [RunnerNext]_runnerVars PROVE Inv' /\ RunType'
    OBVIOUS
  <2>1. CASE UNCHANGED runnerVars
    BY <2>1, NextInv, RunTypeStep DEF runnerVars, vars
  <2>2. CASE RunnerNext
    BY <2>2, RunnerIsQueueStep, TickInv, NextInv, RunTypeStep
  <2> QED
    BY <2>1, <2>2
<1> QED
  BY <1>1, <1>2, PTL DEF RunnerSpec

\* Under the runner too at most one attempt of an operation runs, and the two
\* rows name the same worker and lease, whatever the workers, their heartbeat
\* goroutines, crashes and shutdowns do.
THEOREM RunnerLeaseExclusive == RunnerSpec => []LeaseLedger
<1>1. Inv => LeaseLedger
  BY DEF Inv, RowInv, RowLedger, RowHeld, RowFree, LeaseLedger, HeldLease, FreeLease
<1> QED
  BY <1>1, RunnerInvariance, PTL

-----------------------------------------------------------------------------
(***************************************************************************)
(* What is recorded is what the handler returned.  A worker that handles   *)
(* an attempt is the one the attempt names and nobody has recorded a       *)
(* result of it, so the call RunOnce makes is the only one that can.       *)
(***************************************************************************)

Report(w) ==
    LET l == run[w]
        a == attempts[l.op][l.attempt]
    IN  Handles(w) =>
          /\ l.attempt \in Attempt
          /\ a.worker = w /\ a.outcome \notin {"absent", "succeeded", "failed"}
          /\ l.beat = "on" => l.beatErr = "none"
          /\ l.pc # "handling" => l.ret # "none" /\ returned[l.op][l.attempt] = l.ret
          /\ l.pc # "handling" /\ l.ret = "aborted" => ContextDone(w)
          /\ l.pc = "calling" /\ l.call = "complete" => l.ret = "ok"
          /\ l.pc = "calling" /\ l.call \in {"fail", "retry"} => l.ret \in {"failure", "retryable"}

ReportInv ==
    /\ returned \in [Ops -> [Attempt -> Return \cup {"none"}]]
    /\ RecordedAsReturned
    /\ \A w \in Workers : Report(w)

\* The attempt keeps its worker, and no result of it is recorded.
Unrecorded(a, b) ==
    b.worker = a.worker /\ (b.outcome = a.outcome \/ b.outcome \in {"lease_expired", "cancelled"})

UnrecordedAll == \A o \in Ops, n \in Attempt : Unrecorded(attempts[o][n], attempts'[o][n])

\* A worker that does not move, and whose attempt no result is recorded of, keeps its
\* report.
LEMMA StillReports ==
  ASSUME ReportInv, RunType, NEW v \in Workers, run'[v] = run[v], stopping \subseteq stopping',
         Handles(v) => /\ Unrecorded(attempts[run[v].op][run[v].attempt],
                                     attempts'[run[v].op][run[v].attempt])
                       /\ returned'[run[v].op][run[v].attempt] = returned[run[v].op][run[v].attempt]
  PROVE  Report(v)'
<1> SUFFICES ASSUME Handles(v) PROVE Report(v)'
  BY DEF Report, Handles
<1> DEFINE a == attempts[run[v].op][run[v].attempt]
           b == attempts'[run[v].op][run[v].attempt]
<1>1. /\ run[v].attempt \in Attempt
      /\ a.worker = v /\ a.outcome \notin {"absent", "succeeded", "failed"}
      /\ run[v].beat = "on" => run[v].beatErr = "none"
      /\ run[v].pc # "handling" => run[v].ret # "none" /\ returned[run[v].op][run[v].attempt] = run[v].ret
      /\ run[v].pc # "handling" /\ run[v].ret = "aborted" => ContextDone(v)
      /\ run[v].pc = "calling" /\ run[v].call = "complete" => run[v].ret = "ok"
      /\ run[v].pc = "calling" /\ run[v].call \in {"fail", "retry"}
           => run[v].ret \in {"failure", "retryable"}
  BY ZenonT(60) DEF ReportInv, Report
<1>2. b.worker = v /\ b.outcome \notin {"absent", "succeeded", "failed"}
  BY ZenonT(60), <1>1 DEF Unrecorded
<1>3. ContextDone(v) => ContextDone(v)'
  BY DEF ContextDone
<1> QED
  BY <1>1, <1>2, <1>3, ZenonT(60) DEF Report

\* A step that records nothing keeps the reports of the workers that do not move.
LEMMA UnrecordedReports ==
  ASSUME ReportInv, RunType, UnrecordedAll, returned' = returned, stopping \subseteq stopping'
  PROVE  /\ returned' \in [Ops -> [Attempt -> Return \cup {"none"}]]
         /\ RecordedAsReturned'
         /\ \A w \in Workers : run'[w] = run[w] => Report(w)'
<1>1. RecordedAsReturned'
  BY DEF ReportInv, RecordedAsReturned, UnrecordedAll, Unrecorded
<1>2. ASSUME NEW w \in Workers, run'[w] = run[w]
      PROVE  Report(w)'
  <2>1. Handles(w) => run[w].op \in Ops /\ run[w].attempt \in Attempt
    BY DEF ReportInv, RunType, WorkerState, Report
  <2> QED
    BY SMTT(60), <1>2, <2>1, StillReports DEF UnrecordedAll
<1> QED
  BY <1>1, <1>2 DEF ReportInv

\* A recovery records no result.
LEMMA RecoveryUnrecorded ==
  ASSUME Inv
  PROVE  \A o \in Ops, n \in Attempt : Unrecorded(attempts[o][n], RecoveredAttempts(Now)[o][n])
<1> SUFFICES ASSUME NEW o \in Ops, NEW n \in Attempt
             PROVE  Unrecorded(attempts[o][n], RecoveredAttempts(Now)[o][n])
  OBVIOUS
<1>1. attempts[o] \in [Attempt -> AttemptRow]
  BY DEF Inv, RowInv, RowType
<1>2. CASE Expired(o, Now)
  <2> DEFINE out == RecoveredAttempt(o)
  <2>1. RecoveredAttempts(Now)[o] = [attempts[o] EXCEPT ![ops[o].current] = [@ EXCEPT !.outcome = out]]
    BY <1>2 DEF RecoveredAttempts
  <2>2. out \in {"lease_expired", "cancelled"}
    BY DEF RecoveredAttempt
  <2> HIDE DEF out
  <2>3. attempts[o][n] \in AttemptRow
    BY <1>1
  <2>4. CASE n = ops[o].current
    <3>1. RecoveredAttempts(Now)[o][n] = [attempts[o][n] EXCEPT !.outcome = out]
      BY <1>1, <2>1, <2>4
    <3> QED
      BY <2>2, <2>3, <3>1 DEF AttemptRow, Unrecorded
  <2>5. CASE n # ops[o].current
    BY <1>1, <2>1, <2>5 DEF Unrecorded
  <2> QED
    BY <2>4, <2>5
<1>3. CASE ~Expired(o, Now)
  BY <1>3 DEF RecoveredAttempts, Unrecorded
<1> QED
  BY <1>2, <1>3

\* Ending an attempt changes its outcome alone.
LEMMA EndedRecords ==
  ASSUME Inv, NEW o \in Ops, NEW n \in Attempt, NEW out, Ended(o, n, out)
  PROVE  /\ \A p \in Ops, m \in Attempt : p # o \/ m # n => attempts'[p][m] = attempts[p][m]
         /\ attempts'[o][n].worker = attempts[o][n].worker
         /\ attempts'[o][n].outcome = out
<1>1. attempts = [p \in Ops |-> attempts[p]] /\ attempts[o] \in [Attempt -> AttemptRow]
  BY DEF Inv, RowInv, RowType
<1> DEFINE c == [attempts[o][n] EXCEPT !.outcome = out]
<1>2. attempts' = [attempts EXCEPT ![o] = [attempts[o] EXCEPT ![n] = c]]
  BY EndedOneRow
<1>3. c.worker = attempts[o][n].worker /\ c.outcome = out
  BY <1>1 DEF AttemptRow
<1> HIDE DEF c
<1> QED
  BY <1>1, <1>2, <1>3

\* Heartbeats and the passing of time touch the times of attempts only.
LEMMA BeatUnrecorded ==
  ASSUME Inv, NEW o \in Ops, NEW n, NEW w, HeartbeatOperation(o, n, w, Now)
  PROVE  UnrecordedAll
<1>1. n \in Attempt
  BY Fenced DEF HeartbeatOperation
<1> DEFINE c == [attempts[o][n] EXCEPT !.beat = Now, !.lease = Now + LeaseDuration]
<1>2. attempts' = [attempts EXCEPT ![o] = [attempts[o] EXCEPT ![n] = c]]
  BY <1>1, HeartbeatOneRow, Zenon
<1>3. attempts = [p \in Ops |-> attempts[p]] /\ attempts[o] \in [Attempt -> AttemptRow]
  BY DEF Inv, RowInv, RowType
<1>4. c.worker = attempts[o][n].worker /\ c.outcome = attempts[o][n].outcome
  BY <1>1, <1>3 DEF AttemptRow
<1> HIDE DEF c
<1> QED
  BY SMTT(60), <1>1, <1>2, <1>3, <1>4 DEF UnrecordedAll, Unrecorded

LEMMA TickUnrecorded ==
  ASSUME Inv, Tick
  PROVE  UnrecordedAll
<1>1. ASSUME NEW o \in Ops, NEW n \in Attempt
      PROVE  Unrecorded(attempts[o][n], attempts'[o][n])
  <2>1. attempts'[o][n] = [attempts[o][n] EXCEPT !.lease = Aged(attempts[o][n].lease)]
    <3>1. attempts' = [p \in Ops |-> [m \in Attempt |->
                         [attempts[p][m] EXCEPT !.lease = Aged(attempts[p][m].lease)]]]
      BY ZenonT(60) DEF Tick
    <3> QED
      BY <3>1
  <2>2. attempts[o][n] \in AttemptRow
    BY DEF Inv, RowInv, RowType
  <2> QED
    BY <2>1, <2>2 DEF AttemptRow, Unrecorded
<1> QED
  BY <1>1 DEF UnrecordedAll

\* Of a worker's local state only what is assigned changes.
LEMMA StepLocal ==
  ASSUME RunType, NEW w \in Workers, NEW l, Step(w, l)
  PROVE  run'[w] = l /\ \A v \in Workers : v # w => run'[v] = run[v]
  BY DEF RunType, Step

\* One worker moves and nothing is recorded.
LEMMA MoveReports ==
  ASSUME RunType, ReportInv, UnrecordedAll, returned' = returned, stopping \subseteq stopping',
         NEW w \in Workers, NEW l, Step(w, l), Report(w)'
  PROVE  ReportInv'
  BY StepLocal, UnrecordedReports DEF ReportInv

\* A worker between two operations has nothing to report.
LEMMA RestReports ==
  ASSUME RunType, ReportInv, UnrecordedAll, returned' = returned, stopping \subseteq stopping',
         NEW w \in Workers, NEW pc \in {"idle", "down"}, Step(w, Worker(pc))
  PROVE  ReportInv'
<1>1. run'[w].pc = pc
  BY StepLocal DEF Worker
<1>2. Report(w)'
  BY <1>1 DEF Report, Handles
<1> QED
  BY <1>2, MoveReports

LEMMA ReturnReports ==
  ASSUME RunType, ReportInv, UnrecordedAll, returned' = returned, stopping' = stopping,
         NEW w \in Workers, Returns(w)
  PROVE  ReportInv'
<1>1. CASE w \in stopping
  BY <1>1, RestReports DEF Returns
<1>2. CASE w \notin stopping
  BY <1>2, RestReports DEF Returns
<1> QED
  BY <1>1, <1>2

\* The heartbeat goroutine ends: it had no error before.
LEMMA BeatReports ==
  ASSUME RunType, ReportInv, UnrecordedAll, returned' = returned, stopping' = stopping,
         NEW w \in Workers, NEW e, Beating(w), BeatEnds(w, e)
  PROVE  ReportInv'
<1> DEFINE l == [run[w] EXCEPT !.beat = "off", !.beatErr = e]
<1>1. run'[w] = l /\ Step(w, l)
  BY StepLocal DEF BeatEnds
<1>2. run[w] \in WorkerState
  BY DEF RunType
<1>3. /\ l.pc = run[w].pc /\ l.op = run[w].op /\ l.attempt = run[w].attempt /\ l.beat = "off"
      /\ l.beatErr = e /\ l.ret = run[w].ret /\ l.call = run[w].call
  BY <1>2, ZenonT(60) DEF WorkerState
<1> HIDE DEF l
<1>4. /\ run[w].op \in Ops /\ run[w].attempt \in Attempt /\ Report(w) /\ run[w].beatErr = "none"
      /\ Handles(w)
  BY <1>2 DEF ReportInv, Report, WorkerState, Beating, Handles
<1> DEFINE a == attempts[run[w].op][run[w].attempt]
           b == attempts'[run[w].op][run[w].attempt]
<1>5. Unrecorded(a, b)
  BY SMTT(60), <1>4 DEF UnrecordedAll
<1>6. b.worker = w /\ b.outcome \notin {"absent", "succeeded", "failed"}
  BY ZenonT(60), <1>4, <1>5 DEF Report, Unrecorded
<1>7. run[w].pc # "handling" /\ run[w].ret = "aborted" => w \in stopping
  BY <1>4 DEF Report, ContextDone
<1>8. run[w].pc # "calling"
  BY SMTT(60) DEF Beating
<1>9. run[w].pc # "handling" => run[w].ret # "none" /\ returned[run[w].op][run[w].attempt] = run[w].ret
  BY SMTT(60), <1>4 DEF Report
<1> HIDE DEF a, b
<1>10. Report(w)'
  BY ZenonT(60), <1>1, <1>3, <1>4, <1>6, <1>7, <1>8, <1>9 DEF Report, ContextDone, b
<1> QED
  BY <1>1, <1>10, MoveReports

\* A claim begins an attempt that nobody has handled.
LEMMA ClaimReports ==
  ASSUME Inv, RunType, ReportInv, NEW w \in Workers, NEW o \in Ops, RunOnceClaim(w, o)
  PROVE  ReportInv'
<1> DEFINE rows == RecoveredOps(Now)
           tries == RecoveredAttempts(Now)
           n == rows[o].count + 1
           l == [Worker("handling") EXCEPT !.op = o, !.attempt = n, !.beat = "on"]
<1>1. /\ Step(w, l) /\ UNCHANGED <<stopping, returned>> /\ Eligible(rows[o], Now)
      /\ attempts' = [tries EXCEPT ![o] = [tries[o] EXCEPT ![n] = NewAttempt(w, Now)]]
  BY DEF RunOnceClaim, Claim, ClaimCandidates
<1>2. RowInv(rows[o], tries[o])
  BY SMTT(60), RecoveredRows, RunnerAssumption DEF Now
<1>3. n \in Attempt /\ tries[o][n].outcome = "absent"
  <2>1. rows[o] \in OperationRow /\ rows[o].status = "pending" /\ rows[o].count < MaxAttempts(rows[o].input)
    BY SMTT(60), <1>1, <1>2 DEF RowInv, RowType, Eligible
  <2>2. MaxAttempts(rows[o].input) \in Attempt
    BY SMTT(60), <1>2, <2>1, MaximumType DEF RowInv, RowBudget, OperationRow
  <2>3. rows[o].count \in Nat /\ n \in Attempt
    BY SMTT(60), <2>1, <2>2, BoundAssumption DEF OperationRow, Attempt
  <2> QED
    BY <1>2, <2>3 DEF RowInv, RowBudget
<1>4. \A p \in Ops, m \in Attempt : Unrecorded(attempts[p][m], tries[p][m])
  BY RecoveryUnrecorded
<1>5. tries = [p \in Ops |-> tries[p]] /\ tries[o] \in [Attempt -> AttemptRow]
  BY <1>2 DEF RecoveredAttempts, RowInv, RowType
<1>6. /\ l.pc = "handling" /\ l.op = o /\ l.attempt = n /\ l.beat = "on" /\ l.beatErr = "none"
  BY DEF Worker
<1>7. NewAttempt(w, Now).outcome = "running" /\ NewAttempt(w, Now).worker = w
  BY DEF NewAttempt
<1>8. attempts[o][n].outcome = "absent"
  BY <1>3, <1>4 DEF Unrecorded
<1> HIDE DEF rows, tries, n, l
<1>9. /\ attempts'[o][n] = NewAttempt(w, Now)
      /\ \A p \in Ops, m \in Attempt : p # o \/ m # n => attempts'[p][m] = tries[p][m]
  BY SMTT(60), <1>1, <1>3, <1>5
<1>10. RecordedAsReturned'
  BY SMTT(60), <1>1, <1>4, <1>7, <1>9 DEF RecordedAsReturned, ReportInv, Unrecorded
<1>11. Report(w)'
  <2>1. run'[w] = l
    BY SMTT(60), <1>1, StepLocal
  <2> QED
    BY SMTT(60), <1>3, <1>6, <1>7, <1>9, <2>1 DEF Report, Handles
<1>12. ASSUME NEW v \in Workers, v # w
       PROVE  Report(v)'
  <2>1. run'[v] = run[v] /\ Report(v)
    BY SMTT(60), <1>1, <1>12, StepLocal DEF ReportInv
  <2>2. Handles(v) => /\ run[v].op \in Ops /\ run[v].attempt \in Attempt
                      /\ run[v].op # o \/ run[v].attempt # n
    BY SMTT(60), <1>8, <2>1 DEF RunType, WorkerState, Report
  <2> QED
    BY SMTT(60), <1>1, <1>4, <1>9, <2>1, <2>2, StillReports
<1> QED
  BY <1>1, <1>10, <1>11, <1>12 DEF ReportInv

\* The call that ends an attempt records what its handler returned.
LEMMA CallReports ==
  ASSUME Inv, RunType, ReportInv, NEW w \in Workers, RunOnceCall(w)
  PROVE  ReportInv'
<1> DEFINE o == run[w].op
           n == run[w].attempt
<1>1. PICK out \in {"succeeded", "failed", "cancelled"} :
        /\ Ended(o, n, out)
        /\ out = "succeeded" => run[w].call = "complete"
        /\ out = "failed" => run[w].call \in {"fail", "retry"}
  BY ZenonT(60) DEF RunOnceCall, CompleteOperation, FailOperation, FailAndRetry, FailFinally,
                    AcknowledgeOperationCancellation
<1>2. run[w].pc = "calling" /\ Returns(w) /\ UNCHANGED <<stopping, returned>>
  BY ZenonT(60) DEF RunOnceCall
<1>3. /\ o \in Ops /\ n \in Attempt /\ attempts[o][n].worker = w /\ returned[o][n] = run[w].ret
      /\ run[w].call = "complete" => run[w].ret = "ok"
      /\ run[w].call \in {"fail", "retry"} => run[w].ret \in {"failure", "retryable"}
  <2>1. Report(w) /\ Handles(w) /\ run[w].op \in Ops
    BY SMTT(60), <1>2 DEF RunType, WorkerState, ReportInv, Handles
  <2> QED
    BY <1>2, <2>1 DEF Report
<1> HIDE DEF o, n
<1>4. /\ \A p \in Ops, m \in Attempt : p # o \/ m # n => attempts'[p][m] = attempts[p][m]
      /\ attempts'[o][n].outcome = out
  BY SMTT(60), <1>1, <1>3, EndedRecords
<1>5. RecordedAsReturned'
  BY SMTT(60), <1>1, <1>2, <1>3, <1>4 DEF RecordedAsReturned, ReportInv
<1>6. PICK pc \in {"idle", "down"} : Step(w, Worker(pc))
  BY SMTT(60), <1>2 DEF Returns
<1>7. Report(w)'
  BY SMTT(60), <1>6, StepLocal DEF Worker, Report, Handles
<1>8. ASSUME NEW v \in Workers, v # w
      PROVE  Report(v)'
  <2>1. run'[v] = run[v] /\ Report(v)
    BY SMTT(60), <1>6, <1>8, StepLocal DEF ReportInv
  <2>2. Handles(v) => /\ run[v].op \in Ops /\ run[v].attempt \in Attempt
                      /\ run[v].op # o \/ run[v].attempt # n
    BY <1>3, <1>8, <2>1 DEF RunType, WorkerState, Report
  <2> QED
    BY SMTT(60), <1>2, <1>4, <2>1, <2>2, StillReports DEF Unrecorded
<1> QED
  BY <1>2, <1>5, <1>7, <1>8 DEF ReportInv

\* The handler of an attempt returns once, and before anything is recorded.
LEMMA HandlerReports ==
  ASSUME Inv, RunType, ReportInv, NEW w \in Workers, NEW r \in Return, HandlerReturns(w, r)
  PROVE  ReportInv'
<1> DEFINE o == run[w].op
           n == run[w].attempt
           l == [run[w] EXCEPT !.pc = "finished", !.ret = r]
<1>1. /\ Step(w, l) /\ attempts' = attempts /\ stopping' = stopping /\ run[w].pc = "handling"
      /\ returned' = [returned EXCEPT ![o] = [returned[o] EXCEPT ![n] = r]]
      /\ r = "aborted" => ContextDone(w)
  BY SMTT(60) DEF HandlerReturns, HandlerMayReturn, vars
<1>2. /\ o \in Ops /\ n \in Attempt /\ attempts[o][n].worker = w
      /\ attempts[o][n].outcome \notin {"absent", "succeeded", "failed"}
      /\ run[w].beat = "on" => run[w].beatErr = "none"
  BY <1>1 DEF RunType, WorkerState, ReportInv, Report, Handles
<1>3. returned \in [Ops -> [Attempt -> Return \cup {"none"}]]
  BY SMTT(60) DEF ReportInv
<1>4. /\ returned' \in [Ops -> [Attempt -> Return \cup {"none"}]] /\ returned'[o][n] = r
      /\ \A p \in Ops, m \in Attempt : p # o \/ m # n => returned'[p][m] = returned[p][m]
  BY SMTT(60), <1>1, <1>2, <1>3
<1>5. RecordedAsReturned'
  BY <1>1, <1>2, <1>4 DEF RecordedAsReturned, ReportInv
<1>6. run[w] \in WorkerState
  BY DEF RunType
<1>7. /\ l.pc = "finished" /\ l.op = o /\ l.attempt = n /\ l.beat = run[w].beat
      /\ l.beatErr = run[w].beatErr /\ l.ret = r
  BY <1>6, ZenonT(60) DEF WorkerState
<1>8. run'[w] = l
  BY SMTT(60), <1>1, StepLocal
<1> HIDE DEF l, o, n
<1>9. Report(w)'
  BY SMTT(60), <1>1, <1>2, <1>4, <1>7, <1>8 DEF Report, Handles, ContextDone, Return
<1>10. ASSUME NEW v \in Workers, v # w
       PROVE  Report(v)'
  <2>1. run'[v] = run[v] /\ Report(v)
    BY SMTT(60), <1>1, <1>10, StepLocal DEF ReportInv
  <2>2. Handles(v) => /\ run[v].op \in Ops /\ run[v].attempt \in Attempt
                      /\ run[v].op # o \/ run[v].attempt # n
    BY <1>2, <1>10, <2>1 DEF RunType, WorkerState, Report
  <2> QED
    BY SMTT(60), <1>1, <1>4, <2>1, <2>2, StillReports DEF Unrecorded
<1> QED
  BY SMTT(60), <1>4, <1>5, <1>9, <1>10 DEF ReportInv

\* A worker that makes a call reports what its handler returned.
LEMMA CallingReports ==
  ASSUME NEW w \in Workers, Report(w), Handles(w), run[w].pc # "handling",
         run'[w].pc = "calling", run'[w].op = run[w].op, run'[w].attempt = run[w].attempt,
         run'[w].beat \in {run[w].beat, "off"}, run'[w].beatErr = run[w].beatErr,
         run'[w].ret = run[w].ret, UNCHANGED <<stopping, returned, attempts>>,
         run'[w].call = "complete" => run[w].ret = "ok",
         run'[w].call \in {"fail", "retry"} => run[w].ret \in {"failure", "retryable"}
  PROVE  Report(w)'
<1>1. /\ run[w].attempt \in Attempt
      /\ attempts[run[w].op][run[w].attempt].worker = w
      /\ attempts[run[w].op][run[w].attempt].outcome \notin {"absent", "succeeded", "failed"}
      /\ run[w].beat = "on" => run[w].beatErr = "none"
      /\ run[w].ret # "none" /\ returned[run[w].op][run[w].attempt] = run[w].ret
      /\ run[w].ret = "aborted" => w \in stopping \/ run[w].beatErr # "none"
  BY ZenonT(60) DEF Report, ContextDone
<1>2. /\ run'[w].attempt \in Attempt /\ run'[w].pc = "calling"
      /\ attempts'[run'[w].op][run'[w].attempt].worker = w
      /\ attempts'[run'[w].op][run'[w].attempt].outcome \notin {"absent", "succeeded", "failed"}
      /\ run'[w].beat = "on" => run'[w].beatErr = "none"
      /\ run'[w].ret # "none" /\ returned'[run'[w].op][run'[w].attempt] = run'[w].ret
      /\ run'[w].ret = "aborted" => w \in stopping' \/ run'[w].beatErr # "none"
      /\ run'[w].call = "complete" => run'[w].ret = "ok"
      /\ run'[w].call \in {"fail", "retry"} => run'[w].ret \in {"failure", "retryable"}
  BY SMTT(60), ZenonT(60), <1>1
<1> QED
  BY ZenonT(60), <1>2 DEF Report, ContextDone

\* The call RunOnce decides on agrees with what the handler returned.
LEMMA AnswerReports ==
  ASSUME Inv, RunType, ReportInv, NEW w \in Workers, RunOnceAnswer(w)
  PROVE  ReportInv'
<1>1. UnrecordedAll /\ UNCHANGED <<stopping, returned, attempts>>
  BY DEF RunOnceAnswer, UnrecordedAll, Unrecorded, vars
<1>2. CASE Answer(w) = "none"
  BY SMTT(60), <1>1, <1>2, ReturnReports DEF RunOnceAnswer
<1>3. CASE Answer(w) # "none"
  <2> DEFINE call == Answer(w)
             l == [run[w] EXCEPT !.pc = "calling", !.call = call]
  <2>1. Step(w, l) /\ run[w].pc = "finished" /\ run[w].beat = "off"
    BY <1>3 DEF RunOnceAnswer
  <2>2. /\ call = "complete" => run[w].ret = "ok"
        /\ call \in {"fail", "retry"} => run[w].ret \in {"failure", "retryable"}
    <3>1. Report(w) /\ Handles(w) /\ run[w] \in WorkerState
      BY SMTT(60), <2>1 DEF ReportInv, Handles, RunType
    <3>2. run[w].ret = "aborted" => w \in stopping \/ run[w].beatErr # "none"
      BY SMTT(60), <2>1, <3>1 DEF Report, ContextDone
    <3>3. run[w].ret # "none" /\ run[w].ret \in Return \cup {"none"}
      BY ZenonT(60), <2>1, <3>1 DEF Report, ReportInv, WorkerState
    <3> QED
      BY <1>3, <3>2, <3>3, SMTT(30) DEF Answer, UserCancellation, CancelledCall, Return
  <2>3. run[w] \in WorkerState
    BY DEF RunType
  <2> HIDE DEF call
  <2>4. /\ l.pc = "calling" /\ l.op = run[w].op /\ l.attempt = run[w].attempt /\ l.beat = "off"
        /\ l.beatErr = run[w].beatErr /\ l.ret = run[w].ret /\ l.call = call
    BY <2>1, <2>3, ZenonT(60) DEF WorkerState
  <2>5. run'[w] = l
    BY SMTT(60), <2>1, StepLocal
  <2> HIDE DEF l
  <2>6. Report(w) /\ Handles(w)
    BY SMTT(60), <2>1 DEF ReportInv, Handles
  <2>7. Report(w)'
    BY SMTT(60), <1>1, <2>1, <2>2, <2>4, <2>5, <2>6, CallingReports
  <2> QED
    BY <1>1, <2>1, <2>7, MoveReports
<1> QED
  BY <1>2, <1>3

LEMMA ReportInit == RunnerInit => ReportInv
<1> SUFFICES ASSUME RunnerInit PROVE ReportInv
  BY SMTT(60)
<1>1. \A w \in Workers : Report(w)
  BY DEF RunnerInit, Report, Handles, Worker
<1>2. returned \in [Ops -> [Attempt -> Return \cup {"none"}]]
  BY DEF RunnerInit
<1>3. RecordedAsReturned
  BY DEF RunnerInit, Init, NoAttempt, RecordedAsReturned
<1> QED
  BY <1>1, <1>2, <1>3 DEF ReportInv

\* Every step of the composed system keeps the reports.
LEMMA ReportStep ==
  ASSUME Inv, RunType, ReportInv, [RunnerNext]_runnerVars
  PROVE  ReportInv'
<1>1. attempts' = attempts => UnrecordedAll
  BY SMTT(60) DEF UnrecordedAll, Unrecorded
<1>2. RecoverExpiredOperations(Now) => UnrecordedAll
  BY RecoveryUnrecorded DEF RecoverExpiredOperations, UnrecordedAll
<1>3. ASSUME run' = run, UnrecordedAll, returned' = returned, stopping' = stopping
      PROVE  ReportInv'
  BY <1>3, UnrecordedReports DEF ReportInv
<1>4. ASSUME NEW w \in Workers, WorkerStep(w)
      PROVE  ReportInv'
  <2>1. CASE Start(w)
    BY <1>2, <2>1, RestReports DEF Start
  <2>2. CASE RunOnceNothing(w)
    BY <1>2, <1>3, <2>2 DEF RunOnceNothing, ClaimNothing
  <2>3. CASE Beat(w)
    <3>1. /\ HeartbeatOperation(run[w].op, run[w].attempt, w, Now) /\ Beating(w)
          /\ UNCHANGED <<stopping, returned>> /\ (BeatEnds(w, "cancel") \/ run' = run)
      BY <2>3, ZenonT(60) DEF Beat
    <3>2. UnrecordedAll
      BY <3>1, BeatUnrecorded DEF RunType, WorkerState
    <3> QED
      BY <1>3, <3>1, <3>2, BeatReports
  <2>4. CASE BeatLost(w) \/ BeatStopped(w)
    BY <1>1, <2>4, BeatReports DEF BeatLost, BeatStopped, vars
  <2>5. CASE RunOnceCompleteCancelled(w)
    <3> DEFINE l == [run[w] EXCEPT !.call = "acknowledge"]
    <3>1. Step(w, l) /\ run[w].pc = "calling" /\ UNCHANGED <<attempts, stopping, returned>>
      BY <2>5 DEF RunOnceCompleteCancelled, vars
    <3>2. run[w] \in WorkerState /\ run'[w] = l
      BY <3>1, StepLocal DEF RunType
    <3>3. /\ l.pc = "calling" /\ l.op = run[w].op /\ l.attempt = run[w].attempt /\ l.beat = run[w].beat
          /\ l.beatErr = run[w].beatErr /\ l.ret = run[w].ret /\ l.call = "acknowledge"
      BY <3>1, <3>2, ZenonT(60) DEF WorkerState
    <3> HIDE DEF l
    <3>4. Report(w) /\ Handles(w)
      BY SMTT(60), <3>1 DEF ReportInv, Handles
    <3>5. Report(w)'
      BY SMTT(60), <3>1, <3>2, <3>3, <3>4, CallingReports
    <3> QED
      BY <1>1, <3>1, <3>5, MoveReports
  <2>6. CASE RunOnceRefused(w)
    BY <1>1, <2>6, ReturnReports DEF RunOnceRefused, vars
  <2> QED
    BY ZenonT(60), <1>4, <2>1, <2>2, <2>3, <2>4, <2>5, <2>6, ClaimReports, HandlerReports,
       AnswerReports, CallReports DEF WorkerStep
<1>5. ASSUME NEW w \in Workers, FaultStep(w)
      PROVE  ReportInv'
  <2>1. UnrecordedAll /\ returned' = returned
    BY SMTT(60), <1>1, <1>5 DEF FaultStep, Shutdown, Crash, BeatFailed, RunOnceCallFailed, vars
  <2>2. CASE Shutdown(w)
    <3>1. CASE run[w].pc = "idle"
      BY SMTT(60), <2>1, <2>2, <3>1, RestReports DEF Shutdown
    <3>2. CASE run' = run
      BY <2>1, <2>2, <3>2, UnrecordedReports DEF Shutdown, ReportInv
    <3> QED
      BY <2>2, <3>1, <3>2 DEF Shutdown
  <2>3. CASE Crash(w)
    BY <2>1, <2>3, RestReports DEF Crash
  <2>4. CASE BeatFailed(w)
    BY <2>1, <2>4, BeatReports DEF BeatFailed
  <2>5. CASE RunOnceCallFailed(w)
    BY <2>1, <2>5, ReturnReports DEF RunOnceCallFailed
  <2> QED
    BY SMTT(60), <1>5, <2>2, <2>3, <2>4, <2>5 DEF FaultStep
<1>6. ASSUME NEW w \in Workers, NEW p \in Percents, Checkpoint(w, p)
      PROVE  ReportInv'
  BY <1>1, <1>3, <1>6 DEF Checkpoint, BoundedCheckpoint, CheckpointOperation
<1>7. CASE Tick
  BY <1>3, <1>7, TickUnrecorded, Zenon DEF Tick
<1>8. CASE UserStep
  <2>1. attempts' = attempts /\ UNCHANGED <<run, stopping, returned>>
    BY <1>8, ZenonT(60) DEF UserStep, CreateOperation, RequestOperationCancellation, RetryOperation
  <2> QED
    BY <1>1, <1>3, <2>1
<1>9. CASE UNCHANGED runnerVars
  BY <1>1, <1>3, <1>9 DEF runnerVars
<1> QED
  BY ZenonT(60), <1>4, <1>5, <1>6, <1>7, <1>8, <1>9 DEF RunnerNext

\* The outcome recorded for an attempt is the one its handler returned, in whatever
\* order the return, the heartbeat's error, a cancellation, a shutdown, the loss of
\* the lease and the call of RunOnce come, for any number of workers and operations.
THEOREM RunnerRecordsReturned == RunnerSpec => []RecordedAsReturned
<1>1. ReportInv => RecordedAsReturned
  BY DEF ReportInv
<1> QED
  BY <1>1, ReportInit, ReportStep, RunnerInvariance, PTL DEF RunnerSpec

=============================================================================

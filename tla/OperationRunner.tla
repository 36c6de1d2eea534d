-------------------------- MODULE OperationRunner ---------------------------
(***************************************************************************)
(* The workers of internal/operations/runner.go composed with the queue.   *)
(* A worker is one API process: the loop of runOperationWorker, which runs *)
(* RunOnce, and the heartbeat goroutine of the operation it handles.  The  *)
(* two share the handler's context and the heartbeatDone channel; every    *)
(* repository call of either is one action of Operations.                  *)
(*                                                                         *)
(* The clock reading of every call is the present, and the present is the  *)
(* origin of time: lease and next hold what remains until they are due, 0  *)
(* once they are, and Tick lets one unit pass.  So the state space is      *)
(* finite and the liveness properties need no horizon.                     *)
(***************************************************************************)
EXTENDS Operations

CONSTANTS
    MaxFaults,  \* bound on crashes, shutdowns and failed transactions
    Prompt      \* TRUE: workers run on time and heartbeats are not late

ASSUME RunnerAssumption ==
    /\ Ops # {}
    /\ 0 \in Times
    /\ MaxFaults \in Nat
    /\ Prompt \in BOOLEAN

VARIABLES
    run,       \* run[w]: the local state of worker w
    stopping,  \* the workers whose parent context is cancelled
    faults,    \* the number of faults so far
    returned   \* returned[o][n]: what the handler returned for attempt n of o

runnerVars == <<ops, attempts, log, audit, run, stopping, faults, returned>>

Now == 0

\* A handler returns a result, ErrOperationCancellationRequested, the error of
\* its cancelled context, or a failure, which may be marked as retryable.
Return == {"ok", "cancel", "aborted", "failure", "retryable"}
BeatError == {"none", "lease", "cancel", "error"}
Call == {"none", "complete", "fail", "retry", "acknowledge"}

Worker(pc) ==
    [pc |-> pc, op |-> CHOOSE o \in Ops : TRUE, attempt |-> 0, beat |-> "off",
     beatErr |-> "none", ret |-> "none", call |-> "none"]

RunnerInit ==
    /\ Init
    /\ run = [w \in Workers |-> Worker("new")]
    /\ stopping = {}
    /\ faults = 0
    /\ returned = [o \in Ops |-> [n \in Attempt |-> "none"]]

Handles(w) == run[w].pc \in {"handling", "finished", "calling"}
Holds(w) == ActiveAttempt(run[w].op, run[w].attempt, w, Now)
Cancelling(w) == ops[run[w].op].status = "cancelling"
ContextDone(w) == w \in stopping \/ run[w].beatErr # "none"

Step(w, local) == run' = [run EXCEPT ![w] = local]
Fault == faults < MaxFaults /\ faults' = faults + 1

\* RunOnce returns to the loop, which goes on unless the process shuts down.
Returns(w) == Step(w, Worker(IF w \in stopping THEN "down" ELSE "idle"))

-----------------------------------------------------------------------------
(***************************************************************************)
(* The process and its loop.                                               *)
(***************************************************************************)

\* A process recovers expired operations before it serves anything.
Start(w) ==
    /\ run[w].pc = "new"
    /\ RecoverExpiredOperations(Now)
    /\ Step(w, Worker("idle"))
    /\ UNCHANGED <<stopping, faults, returned>>

RunOnceClaim(w, o) ==
    /\ run[w].pc = "idle"
    /\ Claim(w, o, Now)
    /\ Step(w, [Worker("handling") EXCEPT
                  !.op = o, !.attempt = RecoveredOps(Now)[o].count + 1, !.beat = "on"])
    /\ UNCHANGED <<stopping, faults, returned>>

\* ErrNoOperationAvailable, after a recovery that is committed all the same.
RunOnceNothing(w) ==
    /\ run[w].pc = "idle"
    /\ ClaimNothing(Now)
    /\ UNCHANGED <<run, stopping, faults, returned>>

\* SIGTERM cancels the parent context of the loop and of the handler.
Shutdown(w) ==
    /\ run[w].pc \in {"idle", "handling", "finished", "calling"}
    /\ w \notin stopping
    /\ Fault
    /\ stopping' = stopping \cup {w}
    /\ IF run[w].pc = "idle" THEN Step(w, Worker("down")) ELSE UNCHANGED run
    /\ UNCHANGED <<vars, returned>>

\* The process dies; a successor has a worker identifier of its own.
Crash(w) ==
    /\ run[w].pc \in {"idle", "handling", "finished", "calling"}
    /\ Fault
    /\ Step(w, Worker("down"))
    /\ UNCHANGED <<vars, stopping, returned>>

-----------------------------------------------------------------------------
(***************************************************************************)
(* The heartbeat goroutine.  Its first error cancels the handler's context *)
(* and ends it; nothing renews the lease after that.                       *)
(***************************************************************************)

Beating(w) == run[w].pc \in {"handling", "finished"} /\ run[w].beat = "on"

BeatEnds(w, err) == Step(w, [run[w] EXCEPT !.beat = "off", !.beatErr = err])

\* Mutant: the goroutine returns after one successful heartbeat.
Beat_Once(w) ==
    /\ Beating(w) /\ w \notin stopping
    /\ HeartbeatOperation(run[w].op, run[w].attempt, w, Now)
    /\ BeatEnds(w, IF Cancelling(w) THEN "cancel" ELSE "none")
    /\ UNCHANGED <<stopping, faults, returned>>

Beat(w) ==
    /\ Beating(w) /\ w \notin stopping
    /\ HeartbeatOperation(run[w].op, run[w].attempt, w, Now)
    /\ IF Cancelling(w) THEN BeatEnds(w, "cancel") ELSE UNCHANGED run
    /\ UNCHANGED <<stopping, faults, returned>>

BeatLost(w) ==
    /\ Beating(w) /\ w \notin stopping
    /\ ~Holds(w)
    /\ BeatEnds(w, "lease")
    /\ UNCHANGED <<vars, stopping, faults, returned>>

BeatFailed(w) ==
    /\ Beating(w)
    /\ Fault
    /\ BeatEnds(w, "error")
    /\ UNCHANGED <<vars, stopping, returned>>

\* The stop channel is closed or the context is done.
BeatStopped(w) ==
    /\ Beating(w)
    /\ run[w].pc = "finished" \/ w \in stopping
    /\ BeatEnds(w, "none")
    /\ UNCHANGED <<vars, stopping, faults, returned>>

-----------------------------------------------------------------------------
(***************************************************************************)
(* The handler and what RunOnce does with its answer.                      *)
(***************************************************************************)

Checkpoint(w, p) ==
    /\ run[w].pc = "handling" /\ w \notin stopping
    /\ BoundedCheckpoint(run[w].op, run[w].attempt, w, Now, p)
    /\ UNCHANGED <<run, stopping, faults, returned>>

\* A failure is retryable only for kinds created with the safe class; the one
\* kind of class none, the panel certificate, has no retryable failure.
HandlerMayReturn(w, r) ==
    /\ r = "retryable" => Class(run[w].op) = "safe"
    /\ r = "aborted" => ContextDone(w)
    /\ r = "cancel" => Holds(w) /\ Cancelling(w) /\ w \notin stopping

HandlerReturns(w, r) ==
    /\ run[w].pc = "handling"
    /\ HandlerMayReturn(w, r)
    /\ Step(w, [run[w] EXCEPT !.pc = "finished", !.ret = r])
    /\ returned' = [returned EXCEPT ![run[w].op][run[w].attempt] = r]
    /\ UNCHANGED <<vars, stopping, faults>>

UserCancellation(w) == run[w].beatErr = "cancel" \/ run[w].ret = "cancel"

CancelledCall(w) ==
    IF run[w].ret \in {"failure", "retryable"} THEN "fail" ELSE "acknowledge"

\* Mutant: the error of the heartbeat is not looked at.
Answer_IgnoreBeat(w) ==
    IF w \in stopping /\ ~UserCancellation(w) THEN "none"
    ELSE IF UserCancellation(w) THEN CancelledCall(w)
    ELSE IF run[w].ret = "ok" THEN "complete"
    ELSE IF run[w].ret = "retryable" THEN "retry" ELSE "fail"

\* The repository call that RunOnce makes, if any, in the order of its tests.
Answer(w) ==
    IF run[w].beatErr = "lease" \/ (w \in stopping /\ ~UserCancellation(w)) THEN "none"
    ELSE IF UserCancellation(w) THEN CancelledCall(w)
    ELSE IF run[w].beatErr # "none" THEN "none"
    ELSE IF run[w].ret = "ok" THEN "complete"
    ELSE IF run[w].ret = "retryable" THEN "retry" ELSE "fail"

\* RunOnce has read heartbeatDone.
RunOnceAnswer(w) ==
    /\ run[w].pc = "finished" /\ run[w].beat = "off"
    /\ IF Answer(w) = "none" THEN Returns(w)
       ELSE Step(w, [run[w] EXCEPT !.pc = "calling", !.call = Answer(w)])
    /\ UNCHANGED <<vars, stopping, faults, returned>>

RunOnceCall(w) ==
    LET o == run[w].op
        n == run[w].attempt
    IN  /\ run[w].pc = "calling" /\ w \notin stopping
        /\ \/ run[w].call = "complete" /\ CompleteOperation(o, n, w, Now)
           \/ run[w].call = "fail" /\ FailOperation(o, n, w, Now, FALSE)
           \/ run[w].call = "retry" /\ FailOperation(o, n, w, Now, TRUE)
           \/ run[w].call = "acknowledge" /\ AcknowledgeOperationCancellation(o, n, w, Now)
        /\ Returns(w)
        /\ UNCHANGED <<stopping, faults, returned>>

\* A completion that meets a cancellation request is acknowledged instead.
RunOnceCompleteCancelled(w) ==
    /\ run[w].pc = "calling" /\ w \notin stopping
    /\ run[w].call = "complete"
    /\ Holds(w) /\ Cancelling(w)
    /\ Step(w, [run[w] EXCEPT !.call = "acknowledge"])
    /\ UNCHANGED <<vars, stopping, faults, returned>>

\* The call is refused: the lease is lost, the context is done, or a retry is
\* asked for while the operation is cancelling.  Nothing is written and the
\* attempt keeps what is left of its lease.
RunOnceRefused(w) ==
    /\ run[w].pc = "calling"
    /\ \/ w \in stopping
       \/ ~Holds(w)
       \/ run[w].call = "retry" /\ Cancelling(w)
    /\ Returns(w)
    /\ UNCHANGED <<vars, stopping, faults, returned>>

RunOnceCallFailed(w) ==
    /\ run[w].pc = "calling"
    /\ Fault
    /\ Returns(w)
    /\ UNCHANGED <<vars, stopping, returned>>

-----------------------------------------------------------------------------
\* One unit less to wait; what is due stays due.
Aged(t) == IF t = NoTime THEN t ELSE IF t <= 0 THEN t ELSE t - 1

\* A prompt worker answers at once and renews its lease before half of it is
\* gone: NewRunner demands an interval below half the lease.
OnTime(w) ==
    /\ run[w].pc \notin {"finished", "calling"}
    /\ Beating(w) => 2 * ops[run[w].op].lease > LeaseDuration

Tick ==
    /\ Prompt => \A w \in Workers : OnTime(w)
    /\ ops' = [o \in Ops |-> [ops[o] EXCEPT !.lease = Aged(@), !.next = Aged(@)]]
    /\ attempts' = [o \in Ops |-> [n \in Attempt |->
                      [attempts[o][n] EXCEPT !.lease = Aged(@)]]]
    /\ UNCHANGED <<log, audit, run, stopping, faults, returned>>

UserStep ==
    /\ \E o \in Ops :
         \/ \E k \in Keys \cup {NoKey}, i \in Inputs : CreateOperation(o, k, i, Now)
         \/ RequestOperationCancellation(o)
         \/ RetryOperation(o, Now)
    /\ UNCHANGED <<run, stopping, faults, returned>>

WorkerStep(w) ==
    \/ Start(w)
    \/ \E o \in Ops : RunOnceClaim(w, o)
    \/ RunOnceNothing(w)
    \/ Beat(w) \/ BeatLost(w) \/ BeatStopped(w)
    \/ \E r \in Return : HandlerReturns(w, r)
    \/ RunOnceAnswer(w)
    \/ RunOnceCall(w) \/ RunOnceCompleteCancelled(w) \/ RunOnceRefused(w)

FaultStep(w) ==
    Shutdown(w) \/ Crash(w) \/ BeatFailed(w) \/ RunOnceCallFailed(w)

RunnerNext ==
    \/ Tick
    \/ UserStep
    \/ \E w \in Workers :
         \/ WorkerStep(w)
         \/ FaultStep(w)
         \/ \E p \in Percents : Checkpoint(w, p)

RunnerSpec == RunnerInit /\ [][RunnerNext]_runnerVars

(***************************************************************************)
(* Time passes, goroutines are scheduled and handlers return (every agent  *)
(* call they make has a timeout).  The select of the heartbeat loop takes  *)
(* a closed stop channel in the end: the ticker is ready only now and      *)
(* then.  Users and faults owe nothing.                                    *)
(***************************************************************************)
Fairness ==
    /\ WF_runnerVars(Tick)
    /\ \A w \in Workers :
         /\ WF_runnerVars(Start(w))
         /\ WF_runnerVars(RunOnceNothing(w) \/ \E o \in Ops : RunOnceClaim(w, o))
         /\ WF_runnerVars(Beat(w) \/ BeatLost(w))
         /\ WF_runnerVars(BeatStopped(w))
         /\ WF_runnerVars(\E r \in Return : HandlerReturns(w, r))
         /\ WF_runnerVars(RunOnceAnswer(w))
         /\ WF_runnerVars(RunOnceCall(w) \/ RunOnceCompleteCancelled(w)
                            \/ RunOnceRefused(w))

LiveSpec == RunnerSpec /\ Fairness

-----------------------------------------------------------------------------
(***************************************************************************)
(* Properties.                                                             *)
(***************************************************************************)

WorkerState ==
    [pc : {"new", "idle", "handling", "finished", "calling", "down"},
     op : Ops, attempt : 0..AttemptLimit, beat : {"on", "off"},
     beatErr : BeatError, ret : Return \cup {"none"}, call : Call]

\* The outcome recorded for an attempt is the one its handler returned: a
\* success only for work that came back with a result, a failure only for a
\* failure of the handler's own.  A handler that merely saw its context end
\* (lost lease, failed heartbeat, shutdown) is never recorded as failed, in
\* whatever order its return, the heartbeat's error, a cancellation request, a
\* shutdown and the repository call happen.
RecordedAsReturned ==
    \A o \in Ops, n \in Attempt :
      /\ attempts[o][n].outcome = "succeeded" => returned[o][n] = "ok"
      /\ attempts[o][n].outcome = "failed" => returned[o][n] \in {"failure", "retryable"}

\* With workers on time and without faults no attempt is lost: every attempt
\* is ended by its own worker or, when it is being cancelled, by a recovery.
NoAttemptLost ==
    \A o \in Ops, n \in Attempt : attempts[o][n].outcome # "lease_expired"

\* A handler that fails after it was told to cancel has failed to clean up,
\* and the attempt is not recorded as a clean cancellation.
CleanupFailureRecorded ==
    \A o \in Ops, n \in Attempt :
      returned[o][n] = "failure" => attempts[o][n].outcome # "cancelled"

\* Every operation of a supported kind is settled in the end, whatever crashes,
\* shutdowns, failed transactions, lost leases, cancellations and retries
\* happen on the way, provided that some worker survives.
OperationSettles ==
    \A o \in Ops :
      ops[o].status \in {"pending"} \cup Active /\ ops[o].input \in Supported
      ~> ops[o].status \in {"failed"} \cup Terminal

\* A cancellation request is answered in the end.
CancellationSettles ==
    \A o \in Ops : ops[o].status = "cancelling" ~> ops[o].status \in {"failed", "cancelled"}

=============================================================================

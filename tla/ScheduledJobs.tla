---------------------------- MODULE ScheduledJobs ----------------------------
(***************************************************************************)
(* The scheduled jobs of one hosting account: the rows and their mutations  *)
(* (internal/core), the operation that carries a mutation out               *)
(* (internal/operations) and the pair of systemd units the agent keeps for  *)
(* a job (internal/hostjobs).  A call to the agent is one step with every   *)
(* state it can leave behind: each command may fail, with or without a part *)
(* of its effect, and the agent may be killed anywhere.  Two calls never    *)
(* overlap (AgentRpc), and the API has one worker (OperationRunner).        *)
(***************************************************************************)
EXTENDS Naturals, SequencesExt

CONSTANTS
  Jobs,             \* job IDs; one is taken by each create
  Bodies,           \* 1..N: runtime, script and schedule of a definition
  MaxScheduledJobs, \* the package's limit
  LastRevision,     \* bound on the revisions of a job
  JobAttempts,      \* MaxAttempts (3) of an operation
  MaxStops          \* bound on kills of the agent or the API

VARIABLES
  job,              \* scheduled_jobs
  mutation,         \* scheduled_job_mutations with their operations, by job and revision
  units,            \* per job: its unit files, and its timer as systemd has it
  answered,         \* calls whose success the agent still remembers
  stops

jobVars == <<job, mutation, units, answered, stops>>

ASSUME JobsAssumption ==
  /\ Bodies = 1..Cardinality(Bodies) /\ Bodies # {}
  /\ MaxScheduledJobs \in Nat /\ LastRevision \in Nat /\ JobAttempts \in Nat \ {0} /\ MaxStops \in Nat

JobRevisions == 1..LastRevision

NoJob == [status |-> "none", revision |-> 0, body |-> 0, enabled |-> FALSE]
NoMutation == [action |-> "none", applied |-> FALSE, state |-> "none", step |-> "none", tries |-> 0,
               body |-> 0, enabled |-> FALSE]    \* the last two as the handler has read them

\* service and timer are the files, loaded the timer systemd has read (0: none).
NoUnits == [service |-> 0, timer |-> 0, loaded |-> 0, enabled |-> FALSE, active |-> FALSE]

InitJobs ==
  /\ job = [j \in Jobs |-> NoJob] /\ mutation = [j \in Jobs |-> [r \in JobRevisions |-> NoMutation]]
  /\ units = [j \in Jobs |-> NoUnits] /\ answered = {} /\ stops = 0

-----------------------------------------------------------------------------
(* systemctl on the timer of a job.                                        *)

\* enable and disable make systemd read its files again, as daemon-reload does.
daemonReloaded(u) == [u EXCEPT !.loaded = u.timer]
Marked(u, on) == [daemonReloaded(u) EXCEPT !.enabled = on]

\* systemd forgets a unit that neither runs nor is wanted, and looks for its file again.
Kept(u) == u.loaded # 0 /\ (u.active \/ u.enabled)

\* What a command does when it succeeds.
Does(command, u) ==
  CASE command = "reload" -> daemonReloaded(u)
    [] command = "enable" -> [Marked(u, TRUE) EXCEPT !.active = TRUE]
    [] command = "restart" -> [u EXCEPT !.active = TRUE, !.loaded = IF Kept(u) THEN @ ELSE u.timer]
    [] command = "disable" -> [Marked(u, FALSE) EXCEPT !.active = FALSE]

Possible(command, u) ==
  /\ command = "enable" => u.timer # 0
  /\ command = "restart" => u.timer # 0 \/ Kept(u)

\* What it may leave when it fails or is cut off: --now comes after the mark, and
\* a restart begins with a stop.
Breaks(command, u) ==
  {u} \union (CASE command = "enable" -> IF u.timer # 0 THEN {Marked(u, TRUE)} ELSE {}
                [] command = "disable" -> {Marked(u, FALSE)}
                [] command = "restart" -> {[u EXCEPT !.active = FALSE]}
                [] command = "reload" -> {})

\* One command of several that go on after a failure.
Attempted(command, S) ==
  UNION {Breaks(command, u) \union {v \in {Does(command, u)} : Possible(command, u)} : u \in S}

Past(u, commands) == FoldLeft(LAMBDA v, c : Does(c, v), u, commands)
Reached(u, commands) == {Past(u, SubSeq(commands, 1, i)) : i \in 0..Len(commands)}

\* What is left when one of a list of commands fails and the rest is not run.
Broken(u, commands) ==
  UNION {Breaks(commands[i], Past(u, SubSeq(commands, 1, i - 1))) : i \in 1..Len(commands)}

-----------------------------------------------------------------------------
(* Reconcile: the units of one job.                                        *)

\* Either file is there.
ManagedUnits(u) == u.service # 0 \/ u.timer # 0

timerState(u) == [loaded |-> u.timer # 0 \/ Kept(u), active |-> u.active, enabled |-> u.enabled]
Unknown == [loaded |-> FALSE, active |-> FALSE, enabled |-> FALSE]

\* The texts of the two files follow from the definition.
Render(b) == [service |-> b, timer |-> b]
VerifyUnits(u, b) == u.service = Render(b).service /\ u.timer = Render(b).timer

\* The service's file and then the timer's are replaced, or removed.
Replaced(u, file, text) == [u EXCEPT ![file] = text]
Prepare(u, b) ==
  LET first == Replaced(u, "service", Render(b).service) IN <<first, Replaced(first, "timer", Render(b).timer)>>
RemoveUnits(u) ==
  LET first == Replaced(u, "service", 0) IN <<first, Replaced(first, "timer", 0)>>

restoreCommands(previous) ==
  IF previous.enabled THEN <<"enable">> \o (IF previous.active THEN <<"restart">> ELSE << >>)
  ELSE <<"disable">>

restoreState(S, previous) == FoldLeft(LAMBDA T, c : Attempted(c, T), S, restoreCommands(previous))

\* The timer's file is put back, then the service's, as they were in u; either may fail.
restoreUnits(v, u) ==
  {[v EXCEPT !.timer = timer, !.service = service] : timer \in {v.timer, u.timer}, service \in {v.service, u.service}}
rollback(v, u, previous) == restoreState(Attempted("reload", restoreUnits(v, u)), previous)

presentCommands(changed, enabled, previous) ==
  (IF changed THEN <<"reload">> ELSE << >>) \o
  IF enabled THEN (IF previous.enabled THEN << >> ELSE <<"enable">>)
                  \o (IF changed \/ ~previous.active THEN <<"restart">> ELSE << >>)
  ELSE IF previous.enabled \/ previous.active THEN <<"disable">> ELSE << >>

\* done: what success leaves.  failed: what an error leaves.  cut: what a kill may
\* leave besides.  A file whose directory cannot be synced after the
\* rename stays as it is, and so does a removed one when the next cannot be read.
reconcilePresent(u, b, enabled, previous) ==
  LET written == Prepare(u, b)
      full == written[2]
      commands == presentCommands(full # u, enabled, previous)
      final == Past(full, commands)
      verified == /\ timerState(final) = [loaded |-> TRUE, active |-> enabled, enabled |-> enabled]
                  /\ VerifyUnits(final, b)
      wrong == Broken(full, commands) \union {final}
  IN [done |-> IF verified THEN {final} ELSE {},
      failed |-> restoreUnits(full, u)
                 \union UNION {rollback(v, u, previous) : v \in wrong},
      cut |-> {written[1]} \union Reached(full, commands) \union wrong
              \union UNION {restoreUnits(v, u) : v \in wrong}]

\* A timer that cannot be disabled is left as it is; after that everything is undone.
\* Cleaning the timer's time stamps comes between the two and changes nothing here.
reconcileAbsent(u, previous) ==
  LET disabling == IF previous.enabled \/ previous.active THEN <<"disable">> ELSE << >>
      off == Past(u, disabling)
      bare == RemoveUnits(off)[1]
      gone == RemoveUnits(off)[2]
      final == IF ManagedUnits(u) THEN daemonReloaded(gone) ELSE gone
  IN [done |-> {final},               \* not there, or its state cannot be read
      failed |-> Broken(u, disabling) \union restoreState(restoreUnits(gone, off), previous)
                 \union UNION {rollback(v, u, previous) : v \in
                          (IF ManagedUnits(u) THEN {gone} ELSE {})
                          \union {v \in {final} : timerState(v) # Unknown}},
      cut |-> {off, bare, gone, final} \union restoreUnits(gone, u)]

\* shown: systemctl show answers.
ReconcileJob(u, b, enabled, present, shown) ==
  LET nothing == [done |-> {}, failed |-> {u}, cut |-> {u}]
      previous == IF shown THEN timerState(u) ELSE Unknown
  IN IF ~shown /\ ManagedUnits(u) THEN nothing
     ELSE IF ~present /\ ~ManagedUnits(u) /\ (~shown \/ ~previous.loaded) THEN [nothing EXCEPT !.done = {u}]
     ELSE IF present THEN reconcilePresent(u, b, enabled, previous)
     ELSE reconcileAbsent(u, previous)

-----------------------------------------------------------------------------
(* Requests.  One that is repeated under its idempotency key finds its own  *)
(* mutation and changes nothing.                                           *)

Queued(j, r, action) ==
  mutation' = [mutation EXCEPT ![j][r].action = action, ![j][r].state = "pending"]

\* Rows that are not removed count, whatever became of their operation.
PrepareScheduledJobCreate(j, b, enabled) ==
  /\ job[j].status = "none" /\ LastRevision > 0
  /\ Cardinality({i \in Jobs : job[i].status \notin {"none", "deleted"}}) < MaxScheduledJobs
  /\ job' = [job EXCEPT ![j] = [status |-> "pending", revision |-> 1, body |-> b, enabled |-> enabled]]
  /\ Queued(j, 1, "create") /\ UNCHANGED <<units, answered, stops>>

\* The expected revision is the current one, and nothing is under way.
Editable(j) == job[j].status \in {"active", "disabled"} /\ job[j].revision < LastRevision

PrepareScheduledJobUpdate(j, b, enabled) ==
  /\ Editable(j)
  /\ job' = [job EXCEPT ![j] = [status |-> "pending", revision |-> @.revision + 1,
                                body |-> b, enabled |-> enabled]]
  /\ Queued(j, job[j].revision + 1, "update") /\ UNCHANGED <<units, answered, stops>>

PrepareScheduledJobDelete(j) ==
  /\ Editable(j)
  /\ job' = [job EXCEPT ![j].status = "deleting", ![j].revision = @ + 1]
  /\ Queued(j, job[j].revision + 1, "delete") /\ UNCHANGED <<units, answered, stops>>

-----------------------------------------------------------------------------
(* The operation of a mutation.                                            *)

AtStep(j, r, step) == mutation[j][r].state = "running" /\ mutation[j][r].step = step
Goes(j, r, step) == mutation' = [mutation EXCEPT ![j][r].step = step]
Ends(j, r, state) == mutation' = [mutation EXCEPT ![j][r].state = state]
Retries(j, r) == Ends(j, r, IF mutation[j][r].tries < JobAttempts THEN "pending" ELSE "failed")

ClaimJob(j, r) ==
  /\ mutation[j][r].state = "pending"
  /\ \A i \in Jobs, q \in JobRevisions : mutation[i][q].state # "running"
  /\ mutation' = [mutation EXCEPT ![j][r].state = "running", ![j][r].step = "load", ![j][r].tries = @ + 1]
  /\ UNCHANGED <<job, units, answered, stops>>

Definition(j, r) ==
  mutation' = [mutation EXCEPT ![j][r].step = "call", ![j][r].body = job[j].body, ![j][r].enabled = job[j].enabled]

\* Mutation: a mutation that was applied is carried out again.
LoadScheduledJobMutation_Again(j, r) ==
  AtStep(j, r, "load") /\ Definition(j, r) /\ UNCHANGED <<job, units, answered, stops>>

\* The definition is the row's, whose revision cannot move before this mutation is
\* applied; once it is, the operation has nothing left to do.
LoadScheduledJobMutation(j, r) ==
  /\ AtStep(j, r, "load")
  /\ IF mutation[j][r].applied THEN Ends(j, r, "done") ELSE Definition(j, r)
  /\ UNCHANGED <<job, units, answered, stops>>

\* The agent refuses a script that is missing or not the account's, and unit files
\* that are not its own; such an operation is not tried again.
ValidateScript(j, r) == Ends(j, r, "failed") /\ UNCHANGED <<units, answered, stops>>

ReconcileScheduledJob(j, r) ==
  /\ AtStep(j, r, "call")
  /\ \/ <<j, r>> \in answered /\ Goes(j, r, "record") /\ UNCHANGED <<units, answered, stops>>
     \/ <<j, r>> \notin answered /\ ValidateScript(j, r)
     \/ /\ <<j, r>> \notin answered
        /\ \E shown \in BOOLEAN :
             LET m == mutation[j][r]
                 call == ReconcileJob(units[j], m.body, m.enabled, m.action # "delete", shown)
             IN \/ /\ \E u \in call.done : units' = [units EXCEPT ![j] = u]
                   /\ answered' = answered \union {<<j, r>>} /\ Goes(j, r, "record") /\ UNCHANGED stops
                \/ /\ \E u \in call.failed : units' = [units EXCEPT ![j] = u]
                   /\ Retries(j, r) /\ UNCHANGED <<answered, stops>>
                \/ /\ stops < MaxStops /\ stops' = stops + 1 /\ answered' = {}
                   /\ \E u \in call.done \union call.failed \union call.cut : units' = [units EXCEPT ![j] = u]
                   /\ Retries(j, r)
  /\ UNCHANGED job

\* Under the fence of the revision the mutation was made for.
CompleteScheduledJobMutation(j, r) ==
  /\ AtStep(j, r, "record")
  /\ LET m == mutation[j][r]
         fits == job[j].revision = r /\ job[j].status = IF m.action = "delete" THEN "deleting" ELSE "pending"
         status == IF m.action = "delete" THEN "deleted" ELSE IF job[j].enabled THEN "active" ELSE "disabled"
     IN IF m.applied THEN Goes(j, r, "finish") /\ UNCHANGED job
        ELSE IF ~fits THEN Ends(j, r, "failed") /\ UNCHANGED job
        ELSE /\ mutation' = [mutation EXCEPT ![j][r].applied = TRUE, ![j][r].step = "finish"]
             /\ job' = [job EXCEPT ![j].status = status]
  /\ UNCHANGED <<units, answered, stops>>

FinishJob(j, r) == AtStep(j, r, "finish") /\ Ends(j, r, "done") /\ UNCHANGED <<job, units, answered, stops>>

\* The database is busy: the attempt ends, and nothing was written.
StateUnavailable(j, r) ==
  /\ AtStep(j, r, "load") \/ AtStep(j, r, "record")
  /\ Retries(j, r) /\ UNCHANGED <<job, units, answered, stops>>

\* The API stops anywhere: the lease runs out, the agent remembers.
StopWorker(j, r) ==
  /\ mutation[j][r].state = "running" /\ stops < MaxStops /\ stops' = stops + 1
  /\ Retries(j, r) /\ UNCHANGED <<job, units, answered>>

NextJobs ==
  \/ \E j \in Jobs, b \in Bodies, enabled \in BOOLEAN :
       PrepareScheduledJobCreate(j, b, enabled) \/ PrepareScheduledJobUpdate(j, b, enabled)
  \/ \E j \in Jobs : PrepareScheduledJobDelete(j)
  \/ \E j \in Jobs, r \in JobRevisions :
       \/ ClaimJob(j, r) \/ LoadScheduledJobMutation(j, r) \/ ReconcileScheduledJob(j, r)
       \/ CompleteScheduledJobMutation(j, r) \/ FinishJob(j, r)
       \/ StateUnavailable(j, r) \/ StopWorker(j, r)

-----------------------------------------------------------------------------
(* Properties.                                                             *)

\* A job whose row says active or disabled has both unit files with its current
\* definition, and its timer is enabled and running exactly when the row says so; a
\* deleted job has neither files nor a timer.  This holds through failed commands,
\* kills, and operations that are carried out again after they were applied.
AppliedIsInstalled ==
  \A j \in Jobs :
    LET row == job[j]  u == units[j] IN
    /\ row.status \in {"active", "disabled"} =>
         VerifyUnits(u, row.body) /\ u.enabled = row.enabled /\ u.active = row.enabled
    /\ row.status = "deleted" => ~ManagedUnits(u) /\ ~u.enabled /\ ~u.active

\* The timer of an active job follows its current schedule.  The code does not ensure
\* it: after a kill between the files and the reload, the next call finds the files as
\* they should be and the timer enabled and active, and does not reload (README).
AppliedIsScheduled ==
  \A j \in Jobs : job[j].status = "active" => units[j].loaded = job[j].body
=============================================================================

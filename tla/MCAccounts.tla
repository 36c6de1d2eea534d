----------------------------- MODULE MCAccounts -----------------------------
(* Hosting accounts, the PHP pools of one account and its scheduled jobs on *)
(* small instances.  They share no state: a behaviour is one of the         *)
(* accounts, of the pools or of the jobs.                                   *)
EXTENDS Accounts, PhpPools, ScheduledJobs

VARIABLE part     \* which of the three is explored

mcVars == <<part, vars, poolVars, jobVars>>

Hosts == <<{NoHost, Left}, {Taken}>>
EmptyHosts == <<{NoHost}, {NoHost}>>

MCInit ==
  /\ Init /\ InitPools /\ InitJobs
  /\ part \in {"accounts", "pools", "jobs"} /\ (part # "accounts" => host[1] = NoHost)
MCNext ==
  \/ part = "accounts" /\ Next /\ UNCHANGED <<part, poolVars, jobVars>>
  \/ part = "pools" /\ NextPools /\ UNCHANGED <<part, vars, jobVars>>
  \/ part = "jobs" /\ NextJobs /\ UNCHANGED <<part, vars, poolVars>>

MCSpec == MCInit /\ [][MCNext]_mcVars
MCFairSpec == MCInit /\ part = "accounts" /\ [][MCNext]_mcVars /\ Fairness

\* Bounds: an account's package changes and its removal are explored apart, the
\* second account comes after the removal of the first, two operations meet, and
\* nothing more follows a call that was refused under the second package.
Apart ==
  /\ Cardinality({k \in Keys : ops[k].state # "none"}) <= 2
  /\ \A a \in Accounts : account[a].status = "archived" => account[a].fs.revision = 1
  /\ \A n \in kept : n[3] = "refused" => n[1][3] = 1
  /\ account[2] # NoAccount => account[1].identity = "deleted"
=============================================================================

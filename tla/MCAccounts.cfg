\* Two accounts, one with a second package revision; one stop, one outage;
\* two documents and two kills for the pools; one job through three revisions, two stops.
CONSTANTS
  Revisions = {1, 2}
  Accounts = {1, 2}
  Reassigned = {1}
  Removable = {1}
  LastID = 2
  MaxAttempts = 2
  MaxFaults = 1
  Shortages = {"cgroup"}
  FirstHosts <- Hosts
  Settings = {1, 2}
  MaxDocuments = 2
  MaxTries = 2
  MaxKills = 2
  Jobs = {1}
  Bodies = {1, 2}
  MaxScheduledJobs = 1
  LastRevision = 3
  JobAttempts = 2
  MaxStops = 2
SPECIFICATION MCSpec
CONSTRAINT Apart
CHECK_DEADLOCK FALSE
INVARIANTS ReadyIsWhole StorageContained ConfirmedWasApplied ServedIsConfigured AppliedIsInstalled

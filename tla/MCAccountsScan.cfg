\* The scan under its fairness: a failed account ahead of one that was cut off.
CONSTANTS
  Revisions = {1}
  Accounts = {1, 2}
  Reassigned = {}
  Removable = {}
  LastID = 2
  MaxAttempts = 1
  MaxFaults = 1
  Shortages = {"cgroup"}
  FirstHosts <- EmptyHosts
  Settings = {1, 2}
  MaxDocuments = 0
  MaxTries = 2
  MaxKills = 0
  Jobs = {1}
  Bodies = {1}
  MaxScheduledJobs = 0
  LastRevision = 1
  JobAttempts = 1
  MaxStops = 0
SPECIFICATION MCFairSpec
PROPERTY CrashGapCloses
CHECK_DEADLOCK FALSE

\* Releases appear, checks and updates run, and two things go wrong anywhere.
SPECIFICATION Spec
CONSTANTS
  Versions <- MCVersions
  Betas <- MCBetas
  FirstReleases <- MCFirstReleases
  MaxRequests = 2
  MaxStarts = 2
  MaxFaults = 2
CONSTRAINT Bound
CHECK_DEADLOCK FALSE
INVARIANTS AllOrNothing DatabaseKept UsedIsVerified

\* One installation from the review to the first administrator; two faults, one
\* foreign package change, one recovery approval.
CONSTANTS
  MaxBoots = 3
  MaxFaults = 2
  MaxDrift = 1
  Tries = {t1, t2}
  SourceLimit = 1
  MaxApprovals = 1
  MaxAttempts = 2
SYMMETRY Symmetry
SPECIFICATION Spec
CHECK_DEADLOCK FALSE
INVARIANTS RootIsWhole ConvertedOnce ServedIsAdmitted
PROPERTIES CodeHonoured

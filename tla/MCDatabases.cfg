\* Three operations, one fault, one handoff at a time.
SPECIFICATION Spec
CONSTANTS
  Names = {"a", "b"}
  Foreign <- ForeignDatabase
  Sessions = {s1}
  MaxDatabases = 2
  MaxDatabaseUsers = 2
  MaxAttempts = 3
  MaxOps = 3
  MaxHandoffs = 2
  MaxFaults = 1
CHECK_DEADLOCK FALSE
INVARIANTS CredentialWorks OwnedIsMarked
PROPERTIES DeletionIsComplete

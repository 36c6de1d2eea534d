\* Two helpers of one account, two paths, a backup on disk; three audited
\* requests and one fault.
CONSTANTS
  Helpers = {h1, h2}
  Names = {1, 2}
  MaxAudited = 3
  MaxFaults = 1
  None = None
  UploadIDs = {u1}
  UploadSize = 2
  MaxSessions = 1
  TrashIDs = {t1}
  MaxTrash = 1
  OperationIDs = {o1}
  MaxOperations = 1
  BackupIDs = {b1, b2, b3}
  MaxBackups = 2
  MaxImports = 1
  BackupLimit = 3
  ImportSize = 2
  DownloadMax = 4
  ByteMax = 8
  EntryMax = 4
  DepthMax = 3
  Base = 2
  Ratio = 2
SYMMETRY Symmetry
SPECIFICATION Spec
CONSTRAINT Bound
CHECK_DEADLOCK FALSE
INVARIANTS VisibleIsWhole TrashRecoverable BackupsVerify
PROPERTIES DataKept

SPECIFICATION Spec
SYMMETRY SameIds
VIEW AllButAcked
CONSTRAINTS
  OneWorkerConnects
  HearsReplies
CONSTANTS
  r1 = r1
  r2 = r2
  r3 = r3
  None = None
  Worker <- Workers
  LocalWorker = "local"
  Client <- Clients
  RecordId <- RecordIds
  RequireAdmission = TRUE
  MaxRecords = 3
  MaxConn = 2
  MaxEpoch = 2
  MaxStarts = 2
  Managed = TRUE
  MayStop = FALSE
  PersistOnAppend = TRUE
  PersistMayFail = FALSE
  CloseWakesAccept = TRUE
INVARIANTS
  CoordinatorTypeOK
  CountsMatchHistory
  IncarnationsNeverInterleave
  WorkerRecordsReachTheFile
PROPERTIES
  FileOnlyGrows
  IncarnationsNeverReturn
CHECK_DEADLOCK FALSE

SPECIFICATION FairSpec
CONSTANTS
  r1 = r1
  r2 = r2
  r3 = r3
  None = None
  Worker <- Workers
  LocalWorker = "local"
  Client <- OtherClients
  RecordId <- OneRecordId
  RequireAdmission = TRUE
  MaxRecords = 1
  MaxConn = 2
  MaxEpoch = 1
  MaxStarts = 1
  Managed = FALSE
  MayStop = TRUE
  PersistOnAppend = TRUE
  PersistMayFail = FALSE
  CloseWakesAccept = FALSE
PROPERTIES
  ShutdownCompletes
CHECK_DEADLOCK FALSE

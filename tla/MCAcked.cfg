SPECIFICATION Spec
CONSTANTS
  r1 = r1
  r2 = r2
  r3 = r3
  None = None
  Worker <- Workers
  LocalWorker = "local"
  Client <- OtherClients
  RecordId <- RecordIds
  RequireAdmission = TRUE
  MaxRecords = 3
  MaxConn = 2
  MaxEpoch = 2
  MaxStarts = 2
  Managed = FALSE
  MayStop = FALSE
  PersistOnAppend = TRUE
  PersistMayFail = FALSE
  CloseWakesAccept = TRUE
INVARIANTS
  AckedRecordsSurvive
CHECK_DEADLOCK FALSE

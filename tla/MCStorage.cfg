SPECIFICATION FileSpec
CONSTANTS
  Limit <- SomeLimits
  NonFinite <- NotFinite
  Pid = {p1, p2}
  Main = t1
  Thread = {t1, t2}
  Threads <- SomeThreads
  Commands = {p2}
  Encoded <- EncodeRecord
  Decoded <- DecodeRecord
  Payload <- EncodeBody
  Fitting <- FitsBody
  Catalogue <- SomeBodies
  Offered <- SomeOffered
  None = None
  MaxRecords = 2
  MaxImage = 400
  MaxRuns = 2
INVARIANTS
  FileTypeOK
  PathLoads
  LoadsAsSaved
  StatedLedgerSaves
PROPERTIES
  OwnSavesGrow
CHECK_DEADLOCK FALSE

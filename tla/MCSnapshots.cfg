SPECIFICATION QuerySpec
ACTION_CONSTRAINT KeepsToAStory
CONSTANTS
  Session = {"s1"}
  Hypothesis = {"h1", "h2"}
  Experiment = {"e1"}
  Branch = {"b1"}
  Attempt = {"t1", "t2"}
  ModelCall = {"m1"}
  ToolCall = {}
  Artifact = {"a1", "a2"}
  Metric = {}
  Observation = {}
  Failure = {"f1"}
  Decision = {"accept", "reject", "again", "other"}
  Result = {"r1"}
  MetricKey = {}
  ValueKind = {}
  RecordId = {}
  None = None
  Drafts <- SnapshotDrafts
  MaxRecordsPerBatch = 2
  MaxRecords = 10
INVARIANTS
  EvidencePrecedesDecision
  StatusChangesAuthorized
  RevisionsFormAChain
  SnapshotAnswersStay
  NothingFromLater
  BranchesMatchHistory
  TotalsMatchHistory
  ResultsAreExplained
  VerifyAcceptsHistory
  WalksAgree
PROPERTIES
  DigestSeesEveryChange

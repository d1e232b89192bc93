SPECIFICATION ReplaySpec
CONSTANTS
  Session = {"s1"}
  Hypothesis = {"h1", "h2"}
  Experiment = {}
  Branch = {}
  Attempt = {}
  ModelCall = {}
  ToolCall = {}
  Artifact = {"a1", "a2"}
  Metric = {}
  Observation = {}
  Failure = {"f1"}
  Decision = {"d1"}
  Result = {}
  MetricKey = {}
  ValueKind = {}
  id1 = id1
  id2 = id2
  RecordId = {id1, id2}
  None = None
  Drafts <- ReplayDrafts
  MaxRecordsPerBatch = 3
  MaxRecords = 6
INVARIANTS
  RestoreNeverRejects
  RestoreRebuildsState
  RecordIdsUnique
PROPERTIES
  HistorySurvivesRestarts

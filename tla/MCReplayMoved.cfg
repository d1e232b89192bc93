SPECIFICATION ReplaySpec
CONSTANTS
  Session = {"s1", "s2"}
  Hypothesis = {}
  Experiment = {}
  Branch = {}
  Attempt = {}
  ModelCall = {}
  ToolCall = {}
  Artifact = {"a1"}
  Metric = {}
  Observation = {}
  Failure = {}
  Decision = {"d1"}
  Result = {}
  MetricKey = {}
  ValueKind = {}
  id1 = id1
  id2 = id2
  RecordId = {id1, id2}
  None = None
  Drafts <- MovedDrafts
  MaxRecordsPerBatch = 3
  MaxRecords = 6
INVARIANTS
  RestoreNeverRejects

SPECIFICATION Spec
ACTION_CONSTRAINT KeepsToAStory
CONSTANTS
  Session = {"s1", "s2"}
  Hypothesis = {"h1", "h2"}
  Experiment = {"e1"}
  Branch = {"b1"}
  Attempt = {"a1"}
  ModelCall = {"m1"}
  ToolCall = {"t1"}
  Artifact = {"p1"}
  Metric = {"k1"}
  Observation = {"o1"}
  Failure = {"f1"}
  Decision = {"accept", "withdraw"}
  Result = {"r1"}
  MetricKey = {"loss"}
  ValueKind = {"Decimal"}
  id1 = id1
  id2 = id2
  RecordId = {id1, id2}
  None = None
  Drafts <- AllDrafts
  MaxRecordsPerBatch = 2
  MaxRecords = 8
INVARIANTS
  TypeOK
  ApplyCannotFail
  TerminalExclusive
  ClosedSessionsStayClosed
  CancelledAttemptsStayQuiet
  ReferencesPointBack
PROPERTIES
  KeepsItsPromise

--------------------------- MODULE RecordLayouts ---------------------------
(***************************************************************************)
(* What every record type looks like on the wire: for each payload T the    *)
(* layout of write_T and the layout of read_T of src/record_codec.cpp, and  *)
(* the encoding and decoding of a body and of a whole record.               *)
(***************************************************************************)
EXTENDS RecordCodec

Label == Text("label")
String == Text("string")

(* A measure: whether it is known, its units, its provenance; and money.    *)
WrittenMeasure == Group(<< Boolean, Word, Byte >>)
ReadMeasure == Group(<< Boolean, Word, Code(6) >>)
WrittenMonetary == Group(<< Boolean, Word, Label, Byte >>)
ReadMonetary == Group(<< Boolean, Word, Label, Code(6) >>)

Accounting(measure, monetary) ==
  << << "model_input_tokens", measure >>, << "model_output_tokens", measure >>,
     << "model_calls", measure >>, << "tool_calls", measure >>,
     << "accelerator_nanos", measure >>, << "cpu_nanos", measure >>,
     << "wall_nanos", measure >>, << "storage_bytes", measure >>,
     << "transfer_bytes", measure >>, << "energy_micro_joules", measure >>,
     << "attempts", measure >>, << "retries", measure >>,
     << "failure_overhead_nanos", measure >>, << "monetary", monetary >> >>

WriteAccounting == Accounting(WrittenMeasure, WrittenMonetary)
ReadAccounting == Accounting(ReadMeasure, ReadMonetary)

OptionalDigest == Option(<< Word >>)

-----------------------------------------------------------------------------
(* The payloads, in the order of the record types: << field, what it is >>. *)
WriteSessionOpened ==
  << << "session", Id("Session") >>, << "label", Label >>, << "question", String >>,
     << "metadata", List("metadata", << Text("metadata_key"), Text("metadata_value") >>) >>,
     << "authority", String >> >>
(* (Mutant: the label and the question are read the other way round.)       *)
ReadQuestionFirst ==
  << << "session", Id("Session") >>, << "question", String >>, << "label", Label >>,
     << "metadata", List("metadata", << Text("metadata_key"), Text("metadata_value") >>) >>,
     << "authority", String >> >>
ReadSessionOpened ==
  << << "session", Id("Session") >>, << "label", Label >>, << "question", String >>,
     << "metadata", List("metadata", << Text("metadata_key"), Text("metadata_value") >>) >>,
     << "authority", String >> >>

WriteSessionClosed ==
  << << "session", Id("Session") >>, << "note", String >> >>
ReadSessionClosed ==
  << << "session", Id("Session") >>, << "note", String >> >>

WriteSessionAnnotation ==
  << << "session", Id("Session") >>, << "note", String >> >>
ReadSessionAnnotation ==
  << << "session", Id("Session") >>, << "note", String >> >>

WriteHypothesisDeclared ==
  << << "hypothesis", Id("Hypothesis") >>,
     << "generation", Id("HypothesisGeneration") >>, << "session", Id("Session") >>,
     << "claim", String >>,
     << "parent", Option(<< Id("Hypothesis"), Id("HypothesisGeneration") >>) >>,
     << "authority", String >> >>
ReadHypothesisDeclared ==
  << << "hypothesis", Id("Hypothesis") >>,
     << "generation", Id("HypothesisGeneration") >>, << "session", Id("Session") >>,
     << "claim", String >>,
     << "parent", Option(<< Id("Hypothesis"), Id("HypothesisGeneration") >>) >>,
     << "authority", String >> >>

WriteHypothesisStatusChanged ==
  << << "hypothesis", Id("Hypothesis") >>,
     << "generation", Id("HypothesisGeneration") >>, << "from", Byte >>,
     << "to", Byte >>, << "decision", Option(<< Id("Decision") >>) >>,
     << "authority", String >> >>
ReadHypothesisStatusChanged ==
  << << "hypothesis", Id("Hypothesis") >>,
     << "generation", Id("HypothesisGeneration") >>, << "from", Enum(7) >>,
     << "to", Enum(7) >>, << "decision", Option(<< Id("Decision") >>) >>,
     << "authority", String >> >>

WriteExperimentDeclared ==
  << << "experiment", Id("Experiment") >>,
     << "generation", Id("ExperimentGeneration") >>, << "session", Id("Session") >>,
     << "hypotheses", List("hypotheses_per_experiment", << Id("Hypothesis") >>) >>,
     << "branch", Id("Branch") >>,
     << "parent_experiment", Option(<< Id("Experiment") >>) >>,
     << "environment_reference", String >>,
     << "inputs", List("inputs", << Id("Input"), String >>) >>,
     << "expected_outputs", List("expected_outputs", << String >>) >>,
     << "authority", String >> >>
ReadExperimentDeclared ==
  << << "experiment", Id("Experiment") >>,
     << "generation", Id("ExperimentGeneration") >>, << "session", Id("Session") >>,
     << "hypotheses", List("hypotheses_per_experiment", << Id("Hypothesis") >>) >>,
     << "branch", Id("Branch") >>,
     << "parent_experiment", Option(<< Id("Experiment") >>) >>,
     << "environment_reference", String >>,
     << "inputs", List("inputs", << Id("Input"), String >>) >>,
     << "expected_outputs", List("expected_outputs", << String >>) >>,
     << "authority", String >> >>

WriteBranchDeclared ==
  << << "branch", Id("Branch") >>, << "session", Id("Session") >>, << "kind", Byte >>,
     << "parent_branch", Option(<< Id("Branch") >>) >>, << "label", Label >>,
     << "authority", String >> >>
ReadBranchDeclared ==
  << << "branch", Id("Branch") >>, << "session", Id("Session") >>,
     << "kind", Enum(9) >>, << "parent_branch", Option(<< Id("Branch") >>) >>,
     << "label", Label >>, << "authority", String >> >>

WriteAttemptStarted ==
  << << "attempt", Id("Attempt") >>, << "generation", Id("AttemptGeneration") >>,
     << "experiment", Id("Experiment") >>, << "branch", Id("Branch") >>,
     << "worker_authority", String >> >>
ReadAttemptStarted ==
  << << "attempt", Id("Attempt") >>, << "generation", Id("AttemptGeneration") >>,
     << "experiment", Id("Experiment") >>, << "branch", Id("Branch") >>,
     << "worker_authority", String >> >>

WriteAttemptCompleted ==
  << << "attempt", Id("Attempt") >>, << "generation", Id("AttemptGeneration") >>,
     << "outcome_reference", String >> >>
ReadAttemptCompleted ==
  << << "attempt", Id("Attempt") >>, << "generation", Id("AttemptGeneration") >>,
     << "outcome_reference", String >> >>

WriteAttemptFailed ==
  << << "attempt", Id("Attempt") >>, << "generation", Id("AttemptGeneration") >>,
     << "failure", Id("Failure") >> >>
ReadAttemptFailed ==
  << << "attempt", Id("Attempt") >>, << "generation", Id("AttemptGeneration") >>,
     << "failure", Id("Failure") >> >>

WriteAttemptCancelled ==
  << << "attempt", Id("Attempt") >>, << "generation", Id("AttemptGeneration") >>,
     << "reason", String >> >>
ReadAttemptCancelled ==
  << << "attempt", Id("Attempt") >>, << "generation", Id("AttemptGeneration") >>,
     << "reason", String >> >>

WriteModelCallRecorded ==
  << << "call", Id("ModelCall") >>, << "attempt", Id("Attempt") >>,
     << "model_identity", String >>, << "model_revision", String >>,
     << "provider", String >>, << "configuration_digest", String >>,
     << "input_reference", OptionalDigest >>,
     << "output_reference", OptionalDigest >>, << "input_tokens", WrittenMeasure >>,
     << "output_tokens", WrittenMeasure >>, << "latency", WrittenMeasure >>,
     << "cost", WrittenMonetary >>, << "outcome", Byte >>,
     << "parent_calls", List("calls_per_attempt", << Id("ModelCall") >>) >>,
     << "authority", String >> >>
ReadModelCallRecorded ==
  << << "call", Id("ModelCall") >>, << "attempt", Id("Attempt") >>,
     << "model_identity", String >>, << "model_revision", String >>,
     << "provider", String >>, << "configuration_digest", String >>,
     << "input_reference", OptionalDigest >>,
     << "output_reference", OptionalDigest >>, << "input_tokens", ReadMeasure >>,
     << "output_tokens", ReadMeasure >>, << "latency", ReadMeasure >>,
     << "cost", ReadMonetary >>, << "outcome", Enum(4) >>,
     << "parent_calls", List("calls_per_attempt", << Id("ModelCall") >>) >>,
     << "authority", String >> >>

WriteToolCallRecorded ==
  << << "call", Id("ToolCall") >>, << "attempt", Id("Attempt") >>,
     << "tool_identity", String >>, << "tool_version", String >>,
     << "request_reference", OptionalDigest >>,
     << "output_reference", OptionalDigest >>, << "state", Byte >> >>
  \o WriteAccounting
  \o << << "authority", String >> >>
ReadToolCallRecorded ==
  << << "call", Id("ToolCall") >>, << "attempt", Id("Attempt") >>,
     << "tool_identity", String >>, << "tool_version", String >>,
     << "request_reference", OptionalDigest >>,
     << "output_reference", OptionalDigest >>, << "state", Enum(6) >> >>
  \o ReadAccounting
  \o << << "authority", String >> >>

WriteArtifactReferenced ==
  << << "artifact", Id("Artifact") >>, << "generation", Id("ArtifactGeneration") >>,
     << "session", Id("Session") >>, << "content_digest", Word >>, << "role", Byte >>,
     << "media_type", String >>, << "producer", Subject >>,
     << "location", Text("location") >>,
     << "parents", List("parents_per_artifact", << Id("Artifact") >>) >>,
     << "validation", Byte >>, << "authority", String >> >>
ReadArtifactReferenced ==
  << << "artifact", Id("Artifact") >>, << "generation", Id("ArtifactGeneration") >>,
     << "session", Id("Session") >>, << "content_digest", Word >>,
     << "role", Enum(11) >>, << "media_type", String >>, << "producer", Subject >>,
     << "location", Text("location") >>,
     << "parents", List("parents_per_artifact", << Id("Artifact") >>) >>,
     << "validation", Enum(3) >>, << "authority", String >> >>

WriteArtifactInvalidated ==
  << << "artifact", Id("Artifact") >>, << "generation", Id("ArtifactGeneration") >>,
     << "failure", Option(<< Id("Failure") >>) >>,
     << "decision", Option(<< Id("Decision") >>) >>, << "reason", String >> >>
ReadArtifactInvalidated ==
  << << "artifact", Id("Artifact") >>, << "generation", Id("ArtifactGeneration") >>,
     << "failure", Option(<< Id("Failure") >>) >>,
     << "decision", Option(<< Id("Decision") >>) >>, << "reason", String >> >>

WriteMetricDeclared ==
  << << "metric", Id("Metric") >>, << "session", Id("Session") >>,
     << "canonical_key", String >>, << "unit", Byte >>, << "value_kind", Byte >>,
     << "description", String >>, << "authority", String >> >>
ReadMetricDeclared ==
  << << "metric", Id("Metric") >>, << "session", Id("Session") >>,
     << "canonical_key", String >>, << "unit", Enum(13) >>,
     << "value_kind", Code(11) >>, << "description", String >>,
     << "authority", String >> >>

WriteObservationRecorded ==
  << << "observation", Id("Observation") >>, << "attempt", Id("Attempt") >>,
     << "metric", Option(<< Id("Metric") >>) >>, << "key", String >>,
     << "unit", Byte >>, << "value", Metric >>, << "measured_at", Word >>,
     << "source", String >>, << "authority", String >> >>
ReadObservationRecorded ==
  << << "observation", Id("Observation") >>, << "attempt", Id("Attempt") >>,
     << "metric", Option(<< Id("Metric") >>) >>, << "key", String >>,
     << "unit", Enum(13) >>, << "value", Metric >>, << "measured_at", Word >>,
     << "source", String >>, << "authority", String >> >>

WriteFailureRecorded ==
  << << "failure", Id("Failure") >>, << "scope", Subject >>, << "category", Byte >>,
     << "message", Text("failure_message") >>, << "retriable", Boolean >>,
     << "terminal", Boolean >>, << "predecessor", Option(<< Id("Failure") >>) >>,
     << "recovery_attempt", Option(<< Id("Attempt") >>) >>,
     << "authority", String >> >>
ReadFailureRecorded ==
  << << "failure", Id("Failure") >>, << "scope", Subject >>,
     << "category", Enum(12) >>, << "message", Text("failure_message") >>,
     << "retriable", Boolean >>, << "terminal", Boolean >>,
     << "predecessor", Option(<< Id("Failure") >>) >>,
     << "recovery_attempt", Option(<< Id("Attempt") >>) >>,
     << "authority", String >> >>

WriteDecisionRecorded ==
  << << "decision", Id("Decision") >>, << "session", Id("Session") >>,
     << "subject", Subject >>, << "type", Byte >>, << "outcome", Byte >>,
     << "policy_identity", String >>,
     << "policy_generation", Option(<< Id("PolicyGeneration") >>) >>,
     << "evidence", List("evidence_refs_per_decision", << Subject, Id("RecordSequence") >>) >>,
     << "explanation", Text("explanation") >>, << "authority", String >> >>
ReadDecisionRecorded ==
  << << "decision", Id("Decision") >>, << "session", Id("Session") >>,
     << "subject", Subject >>, << "type", Enum(9) >>, << "outcome", Enum(7) >>,
     << "policy_identity", String >>,
     << "policy_generation", Option(<< Id("PolicyGeneration") >>) >>,
     << "evidence", List("evidence_refs_per_decision", << Subject, Id("RecordSequence") >>) >>,
     << "explanation", Text("explanation") >>, << "authority", String >> >>

WriteResultDeclared ==
  << << "result", Id("Result") >>, << "generation", Id("ResultGeneration") >>,
     << "session", Id("Session") >>, << "summary", String >>,
     << "hypotheses", List("hypotheses_per_experiment", << Id("Hypothesis") >>) >>,
     << "experiments", List("experiments_per_result", << Id("Experiment") >>) >>,
     << "artifacts", List("artifacts_per_result", << Id("Artifact") >>) >>,
     << "observations", List("observations_per_result", << Id("Observation") >>) >>,
     << "model_calls", List("calls_per_attempt", << Id("ModelCall") >>) >>,
     << "tool_calls", List("calls_per_attempt", << Id("ToolCall") >>) >>,
     << "content_digest", OptionalDigest >>, << "authority", String >> >>
ReadResultDeclared ==
  << << "result", Id("Result") >>, << "generation", Id("ResultGeneration") >>,
     << "session", Id("Session") >>, << "summary", String >>,
     << "hypotheses", List("hypotheses_per_experiment", << Id("Hypothesis") >>) >>,
     << "experiments", List("experiments_per_result", << Id("Experiment") >>) >>,
     << "artifacts", List("artifacts_per_result", << Id("Artifact") >>) >>,
     << "observations", List("observations_per_result", << Id("Observation") >>) >>,
     << "model_calls", List("calls_per_attempt", << Id("ModelCall") >>) >>,
     << "tool_calls", List("calls_per_attempt", << Id("ToolCall") >>) >>,
     << "content_digest", OptionalDigest >>, << "authority", String >> >>

(* (Mutant: the old status is written twice.)                               *)
WriteStatusTwice ==
  << << "result", Id("Result") >>, << "generation", Id("ResultGeneration") >>,
     << "from", Byte >>, << "from", Byte >>, << "decision", Id("Decision") >> >>
WriteResultStatusChanged ==
  << << "result", Id("Result") >>, << "generation", Id("ResultGeneration") >>,
     << "from", Byte >>, << "to", Byte >>, << "decision", Id("Decision") >> >>
ReadResultStatusChanged ==
  << << "result", Id("Result") >>, << "generation", Id("ResultGeneration") >>,
     << "from", Enum(6) >>, << "to", Enum(6) >>, << "decision", Id("Decision") >> >>

WriteAccountingRecorded ==
  << << "scope", Subject >> >>
  \o WriteAccounting
  \o << << "source", String >>, << "authority", String >> >>
ReadAccountingRecorded ==
  << << "scope", Subject >> >>
  \o ReadAccounting
  \o << << "source", String >>, << "authority", String >> >>

-----------------------------------------------------------------------------
(* The switches over the record type, in the order of the enumeration.      *)
Writers ==
  << WriteSessionOpened, WriteSessionClosed, WriteSessionAnnotation,
     WriteHypothesisDeclared, WriteHypothesisStatusChanged, WriteExperimentDeclared,
     WriteBranchDeclared, WriteAttemptStarted, WriteAttemptCompleted,
     WriteAttemptFailed, WriteAttemptCancelled, WriteModelCallRecorded,
     WriteToolCallRecorded, WriteArtifactReferenced, WriteArtifactInvalidated,
     WriteMetricDeclared, WriteObservationRecorded, WriteFailureRecorded,
     WriteDecisionRecorded, WriteResultDeclared, WriteResultStatusChanged,
     WriteAccountingRecorded >>

Readers ==
  << ReadSessionOpened, ReadSessionClosed, ReadSessionAnnotation,
     ReadHypothesisDeclared, ReadHypothesisStatusChanged, ReadExperimentDeclared,
     ReadBranchDeclared, ReadAttemptStarted, ReadAttemptCompleted,
     ReadAttemptFailed, ReadAttemptCancelled, ReadModelCallRecorded,
     ReadToolCallRecorded, ReadArtifactReferenced, ReadArtifactInvalidated,
     ReadMetricDeclared, ReadObservationRecorded, ReadFailureRecorded,
     ReadDecisionRecorded, ReadResultDeclared, ReadResultStatusChanged,
     ReadAccountingRecorded >>

(* A body is its type, 1..22, and its fields. *)
FitsBody(body) == Fits(Writers[body.type], body.fields)

EncodeBody(body) == << body.type >> \o WriteFields(Writers[body.type], body.fields)

(* The whole of the tokens must have been read. *)
Consumed(type, wire, r) ==
  [ ok |-> r.ok /\ r.at = Len(wire), body |-> [ type |-> type, fields |-> r.value ] ]

DecodeBody(wire) ==
  IF Len(wire) >= 1 /\ wire[1] \in 1..Len(Readers)
  THEN Consumed(wire[1], wire, ReadFields(Readers[wire[1]], wire, 1))
  ELSE [ ok |-> FALSE, body |-> << >> ]

(* The header of a record, before its body. *)
WriteHeader ==
  << << "sequence", Id("RecordSequence") >>, << "type", Word >>, << "record_id", Id("Record") >>,
     << "ledger", Id("LedgerGeneration") >>, << "epoch", Id("CoordinatorEpoch") >>,
     << "worker", Id("Worker") >>, << "worker_boot", Id("WorkerBoot") >>,
     << "committed_at", Word >>, << "provenance", Byte >>, << "payload_digest", Word >>,
     << "chain_digest", Word >> >>
ReadHeader ==
  << << "sequence", Id("RecordSequence") >>, << "type", Enum(22) >>, << "record_id", Id("Record") >>,
     << "ledger", Id("LedgerGeneration") >>, << "epoch", Id("CoordinatorEpoch") >>,
     << "worker", Id("Worker") >>, << "worker_boot", Id("WorkerBoot") >>,
     << "committed_at", Word >>, << "provenance", Enum(6) >>, << "payload_digest", Word >>,
     << "chain_digest", Word >> >>

EncodeRecord(record) == WriteFields(WriteHeader, record.header) \o EncodeBody(record.body)

(* The body that follows must be of the type the header names. *)
WithBody(header, decoded) ==
  [ ok |-> decoded.ok /\ decoded.body.type = header.type,
    record |-> [ header |-> header, body |-> decoded.body ] ]

AfterHeader(wire, r) ==
  IF r.ok THEN WithBody(r.value, DecodeBody(SubSeq(wire, r.at + 1, Len(wire))))
  ELSE [ ok |-> FALSE, record |-> << >> ]

DecodeRecord(wire) == AfterHeader(wire, ReadFields(ReadHeader, wire, 0))

=============================================================================

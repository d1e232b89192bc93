---------------------------- MODULE LedgerState ----------------------------
(***************************************************************************)
(* What the ledger stores and what it is given: the identity domains, the   *)
(* record drafts a caller submits, the views the indexes of LedgerState     *)
(* hold (src/ledger_state.hpp), and the entries of a batch being staged     *)
(* (src/ledger_commit.hpp).                                                 *)
(*                                                                          *)
(* An optional field holds None when it is absent.  A draft's payload is    *)
(* kept where the ledger's own state decides about it.  Every check that    *)
(* reads nothing but the draft (text and list limits, identities that are   *)
(* not zero, a first generation that is 1, enumerations that are stated, a  *)
(* root branch without a parent, ...) is the Boolean wellformed.            *)
(*                                                                          *)
(* The reverse indexes that apply_staged_entity keeps INSIDE a view (a      *)
(* session's hypothesis, experiment and result counts, the experiments of a *)
(* hypothesis or branch, the attempts of an experiment, a branch's attempt  *)
(* count, an attempt's call and observation counts) are the view's links:   *)
(* the set of the entities that the counters count and the lists list.      *)
(***************************************************************************)
EXTENDS Naturals, Sequences, ResearchModel

CONSTANTS
  Session, Hypothesis, Experiment, Branch, Attempt, ModelCall, ToolCall,
  Artifact, Metric, Observation, Failure, Decision, Result,
  MetricKey,            \* canonical metric keys
  ValueKind,            \* kinds of metric values
  RecordId,             \* the record identities callers supply
  None,                 \* an optional field that is absent
  Drafts,               \* the drafts callers may submit
  MaxRecordsPerBatch,   \* Limits::max_records_per_batch
  MaxRecords            \* Limits::max_records

Subject ==
  Session \cup Hypothesis \cup Experiment \cup Branch \cup Attempt
    \cup ModelCall \cup ToolCall \cup Artifact \cup Observation
    \cup Failure \cup Decision \cup Result

Entity == Subject \cup Metric

(* The subject kinds an artifact may name as its producer, and the kinds a  *)
(* result may name as its support.                                          *)
Producer ==
  Session \cup Experiment \cup Attempt \cup ModelCall \cup ToolCall
    \cup Artifact

Support ==
  Hypothesis \cup Experiment \cup Artifact \cup Observation
    \cup ModelCall \cup ToolCall

Opt(S) == S \cup { None }

EvidenceRef == [ subject : Subject, sequence : Nat ]

-----------------------------------------------------------------------------
(* Record payloads.  "id" is the entity a payload declares or changes (the  *)
(* scope of an accounting record).                                          *)
SessionBody == [ id : Session ]

HypothesisBody ==
  [ id : Hypothesis, session : Session, parent : Opt(Hypothesis),
    parent_generation : Nat ]

HypothesisChangeBody ==
  [ id : Hypothesis, generation : Nat, from : HypothesisStatus,
    to : HypothesisStatus, decision : Opt(Decision) ]

ExperimentBody ==
  [ id : Experiment, session : Session, hypotheses : SUBSET Hypothesis,
    branch : Branch, parent : Opt(Experiment) ]

BranchBody == [ id : Branch, session : Session, parent : Opt(Branch) ]

AttemptBody == [ id : Attempt, experiment : Experiment, branch : Branch ]

AttemptEndBody ==
  [ id : Attempt, generation : Nat, failure : Opt(Failure) ]

ModelCallBody ==
  [ id : ModelCall, attempt : Attempt, parents : SUBSET ModelCall ]

ToolCallBody == [ id : ToolCall, attempt : Attempt ]

ArtifactBody ==
  [ id : Artifact, session : Session, generation : Nat, producer : Producer,
    parents : SUBSET Artifact, validation : ValidationState ]

ArtifactInvalidationBody ==
  [ id : Artifact, generation : Nat, failure : Opt(Failure),
    decision : Opt(Decision) ]

MetricBody ==
  [ id : Metric, session : Session, key : MetricKey, value_kind : ValueKind ]

ObservationBody ==
  [ id : Observation, attempt : Attempt, metric : Opt(Metric),
    value_kind : ValueKind ]

FailureBody ==
  [ id : Failure, scope : Subject, predecessor : Opt(Failure),
    recovery : Opt(Attempt) ]

DecisionBody ==
  [ id : Decision, session : Session, subject : Subject,
    decision_type : DecisionType, outcome : DecisionOutcome,
    evidence : SUBSET EvidenceRef ]

ResultBody == [ id : Result, session : Session, support : SUBSET Support ]

ResultChangeBody ==
  [ id : Result, generation : Nat, from : ResultStatus, to : ResultStatus,
    decision : Decision ]

AccountingBody == [ id : Subject ]

DraftWith(types, bodies) ==
  [ type : types, record_id : Opt(RecordId), idempotent : BOOLEAN,
    provenance : { "Stated", "Unknown" }, wellformed : BOOLEAN,
    body : bodies ]

Draft ==
  DraftWith({ "SessionOpened", "SessionClosed", "SessionAnnotation" },
            SessionBody)
    \cup DraftWith({ "HypothesisDeclared" }, HypothesisBody)
    \cup DraftWith({ "HypothesisStatusChanged" }, HypothesisChangeBody)
    \cup DraftWith({ "ExperimentDeclared" }, ExperimentBody)
    \cup DraftWith({ "BranchDeclared" }, BranchBody)
    \cup DraftWith({ "AttemptStarted" }, AttemptBody)
    \cup DraftWith(TerminalType, AttemptEndBody)
    \cup DraftWith({ "ModelCallRecorded" }, ModelCallBody)
    \cup DraftWith({ "ToolCallRecorded" }, ToolCallBody)
    \cup DraftWith({ "ArtifactReferenced" }, ArtifactBody)
    \cup DraftWith({ "ArtifactInvalidated" }, ArtifactInvalidationBody)
    \cup DraftWith({ "MetricDeclared" }, MetricBody)
    \cup DraftWith({ "ObservationRecorded" }, ObservationBody)
    \cup DraftWith({ "FailureRecorded" }, FailureBody)
    \cup DraftWith({ "DecisionRecorded" }, DecisionBody)
    \cup DraftWith({ "ResultDeclared" }, ResultBody)
    \cup DraftWith({ "ResultStatusChanged" }, ResultChangeBody)
    \cup DraftWith({ "AccountingRecorded" }, AccountingBody)

-----------------------------------------------------------------------------
(* The views held by the indexes.  A *_at field is a record sequence.       *)
SessionView ==
  [ session : Session, state : SessionState, opened_at : Nat,
    closed_at : Nat, links : SUBSET Entity ]

HypothesisView ==
  [ session : Session, generation : Nat, status : HypothesisStatus,
    parent : Opt(Hypothesis), declared_at : Nat, last_changed_at : Nat,
    links : SUBSET Entity ]

ExperimentView ==
  [ session : Session, hypotheses : SUBSET Hypothesis, branch : Branch,
    parent : Opt(Experiment), declared_at : Nat, links : SUBSET Entity ]

BranchView ==
  [ session : Session, parent : Opt(Branch), declared_at : Nat,
    links : SUBSET Entity ]

AttemptView ==
  [ experiment : Experiment, branch : Branch, generation : Nat,
    state : AttemptState, failure : Opt(Failure), started_at : Nat,
    terminated_at : Nat, links : SUBSET Entity ]

ModelCallView ==
  [ attempt : Attempt, parents : SUBSET ModelCall, recorded_at : Nat ]

ToolCallView == [ attempt : Attempt, recorded_at : Nat ]

ArtifactView ==
  [ session : Session, generation : Nat, producer : Producer,
    parents : SUBSET Artifact, validation : ValidationState,
    recorded_at : Nat ]

MetricView ==
  [ session : Session, key : MetricKey, value_kind : ValueKind,
    declared_at : Nat ]

ObservationView ==
  [ session : Session, attempt : Attempt, experiment : Experiment,
    metric : Opt(Metric), recorded_at : Nat ]

FailureView ==
  [ session : Session, scope : Subject, predecessor : Opt(Failure),
    recovery : Opt(Attempt), recorded_at : Nat ]

DecisionView ==
  [ session : Session, subject : Subject, decision_type : DecisionType,
    outcome : DecisionOutcome, evidence : SUBSET EvidenceRef,
    recorded_at : Nat ]

ResultView ==
  [ session : Session, generation : Nat, status : ResultStatus,
    support : SUBSET Support, declared_at : Nat, last_changed_at : Nat,
    last_decision : Opt(Decision), acceptance_decision : Opt(Decision) ]

(* v is a view of the kind that entity x has: the index find_<kind> reads.  *)
ViewOf(x, v) ==
  /\ x \in Session => v \in SessionView
  /\ x \in Hypothesis => v \in HypothesisView
  /\ x \in Experiment => v \in ExperimentView
  /\ x \in Branch => v \in BranchView
  /\ x \in Attempt => v \in AttemptView
  /\ x \in ModelCall => v \in ModelCallView
  /\ x \in ToolCall => v \in ToolCallView
  /\ x \in Artifact => v \in ArtifactView
  /\ x \in Metric => v \in MetricView
  /\ x \in Observation => v \in ObservationView
  /\ x \in Failure => v \in FailureView
  /\ x \in Decision => v \in DecisionView
  /\ x \in Result => v \in ResultView

(* A committed record, an entry of the batch being staged, and the outcome  *)
(* the caller gets for one draft.  A record identity is one a caller        *)
(* supplied or one derive_record_id made from the record's own sequence and *)
(* payload; the digest's freedom from collisions makes it the sequence.     *)
Record ==
  [ draft : Drafts, record_id : RecordId \cup Nat, subject : Subject,
    session : Session ]

View ==
  SessionView \cup HypothesisView \cup ExperimentView \cup BranchView
    \cup AttemptView \cup ModelCallView \cup ToolCallView
    \cup ArtifactView \cup MetricView \cup ObservationView
    \cup FailureView \cup DecisionView \cup ResultView

Entry ==
  [ draft : Drafts, record_id : RecordId \cup Nat, subject : Subject,
    session : Session, key : Opt(Entity), entity : Opt(View) ]

Outcome ==
  [ sequence : Nat, state : { "Validated", "Duplicate" } ]

-----------------------------------------------------------------------------
(* An identity carries its domain: one domain never decodes as another.     *)
ASSUME IdentityDomains ==
  /\ Session \cap (Hypothesis \cup Experiment \cup Branch \cup Attempt
       \cup ModelCall \cup ToolCall \cup Artifact \cup Metric
       \cup Observation \cup Failure \cup Decision \cup Result) = {}
  /\ Hypothesis \cap (Experiment \cup Branch \cup Attempt
       \cup ModelCall \cup ToolCall \cup Artifact \cup Metric
       \cup Observation \cup Failure \cup Decision \cup Result) = {}
  /\ Experiment \cap (Branch \cup Attempt \cup ModelCall \cup ToolCall
       \cup Artifact \cup Metric \cup Observation \cup Failure
       \cup Decision \cup Result) = {}
  /\ Branch \cap (Attempt \cup ModelCall \cup ToolCall \cup Artifact
       \cup Metric \cup Observation \cup Failure \cup Decision
       \cup Result) = {}
  /\ Attempt \cap (ModelCall \cup ToolCall \cup Artifact \cup Metric
       \cup Observation \cup Failure \cup Decision \cup Result) = {}
  /\ ModelCall \cap (ToolCall \cup Artifact \cup Metric \cup Observation
       \cup Failure \cup Decision \cup Result) = {}
  /\ ToolCall \cap (Artifact \cup Metric \cup Observation \cup Failure
       \cup Decision \cup Result) = {}
  /\ Artifact \cap (Metric \cup Observation \cup Failure \cup Decision
       \cup Result) = {}
  /\ Metric \cap (Observation \cup Failure \cup Decision \cup Result) = {}
  /\ Observation \cap (Failure \cup Decision \cup Result) = {}
  /\ Failure \cap (Decision \cup Result) = {}
  /\ Decision \cap Result = {}

ASSUME NoneAssumption ==
  None \notin Entity \cup RecordId \cup View

ASSUME DraftsAssumption == Drafts \subseteq Draft

ASSUME RecordIdAssumption == RecordId \cap Nat = {}

ASSUME LimitsAssumption ==
  /\ MaxRecordsPerBatch \in Nat \ { 0 }
  /\ MaxRecords \in Nat
=============================================================================

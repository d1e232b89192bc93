--------------------------- MODULE LedgerValidate ---------------------------
(***************************************************************************)
(* Validation of one draft (src/ledger_validate.cpp) against the committed  *)
(* state and the drafts already staged in its batch.  For each record type  *)
(* there is a guard, <Type>OK(d), that holds exactly when                   *)
(* build_staged_entity returns an entity, and the view that entity carries, *)
(* <Type>Entity(d).  Nothing here changes state.                            *)
(***************************************************************************)
EXTENDS LedgerState

VARIABLES
  records,        \* committed history, in sequence order
  view,           \* the committed indexes: entity -> its view, or None
  subject_index,  \* subject -> the session of its last committed record
  staged,         \* the entries of the batch that are not yet applied
  latest,         \* entity -> its latest staged view, or None (find_as)
  front           \* subject -> session of its first staged entry (find)

(* The sequence the next staged draft gets.  (A mutant before it counts     *)
(* committed records only.)                                                 *)
SequenceAfterHistory == Len(records) + 1

Sequence == Len(records) + Len(staged) + 1

(* find_<kind>: the latest staged revision, else the committed one.         *)
(* (Mutant: the committed one first.)                                       *)
FindCommittedFirst(x) == IF view[x] # None THEN view[x] ELSE latest[x]

Find(x) == IF latest[x] # None THEN latest[x] ELSE view[x]

Found(x) == Find(x) # None

(* What a declaration requires of the identity it declares.  (Mutant:       *)
(* identities staged in this batch are overlooked.)                         *)
FreshInHistory(x) == view[x] = None

Fresh(x) == ~Found(x)

(* locate_subject: the first staged entry of a subject, else its last      *)
(* committed record; None when the subject is unknown.                      *)
Locate(x) == IF front[x] # None THEN front[x] ELSE subject_index[x]

(* Attempts and calls reach their session through the experiment. *)
AttemptFound(a) == Found(a) /\ Found(Find(a).experiment)

AttemptSession(a) == Find(Find(a).experiment).session

(* same_session for an entity a draft refers to, found first.  (Mutant: the *)
(* session is not compared.)                                                *)
InAnySession(x, session) == Found(x)

InSession(x, session) ==
  /\ Found(x)
  /\ IF x \in Attempt
       THEN AttemptFound(x) /\ AttemptSession(x) = session
       ELSE IF x \in ModelCall \cup ToolCall
       THEN /\ AttemptFound(Find(x).attempt)
            /\ AttemptSession(Find(x).attempt) = session
       ELSE Find(x).session = session

(* Closure: a closed session takes nothing but annotations.  The closing    *)
(* record may be staged in the same batch.  (Mutant: only a committed       *)
(* closing record counts.)                                                  *)
AcceptsResearchInHistory(session) ==
  view[session] # None => view[session].state # "Closed"

AcceptsResearch(session) ==
  Found(session) => Find(session).state # "Closed"

Drafted(d, type) == d.type = type /\ d.wellformed

-----------------------------------------------------------------------------
(* Sessions *)
SessionOpenedOK(d) ==
  /\ Drafted(d, "SessionOpened")
  /\ Fresh(d.body.id)

SessionOpenedEntity(d) ==
  [ session |-> d.body.id, state |-> "Open", opened_at |-> Sequence,
    closed_at |-> 0, links |-> {} ]

SessionClosedOK(d) ==
  /\ Drafted(d, "SessionClosed")
  /\ Found(d.body.id)
  /\ Find(d.body.id).state # "Closed"

SessionClosedEntity(d) ==
  [ Find(d.body.id) EXCEPT !.state = "Closed", !.closed_at = Sequence ]

SessionAnnotationOK(d) ==
  /\ Drafted(d, "SessionAnnotation")
  /\ Found(d.body.id)

(* The staged view of an annotation is a copy of the session's view. *)
SessionAnnotationEntity(d) == Find(d.body.id)

-----------------------------------------------------------------------------
(* Hypotheses *)
HypothesisDeclaredOK(d) ==
  LET b == d.body IN
  /\ Drafted(d, "HypothesisDeclared")
  /\ Fresh(b.id)
  /\ Found(b.session) /\ AcceptsResearch(b.session)
  /\ b.parent # None =>
       /\ InSession(b.parent, b.session)
       /\ Find(b.parent).generation = b.parent_generation

HypothesisDeclaredEntity(d) ==
  [ session |-> d.body.session, generation |-> 1, status |-> "Proposed",
    parent |-> d.body.parent, declared_at |-> Sequence,
    last_changed_at |-> Sequence, links |-> {} ]

(* A decision, where one is named, must concern the subject it is cited for *)
CitedDecisionOK(decision, subject) ==
  decision # None => Found(decision) /\ Find(decision).subject = subject

(* A status change names the generation that comes next and the status it   *)
(* leaves.  (Mutant: it may name the committed ones although a change is    *)
(* staged.)                                                                 *)
NextRevisionOf(b, v) ==
  b.generation = v.generation + 1 /\ b.from = v.status

NextRevisionInHistory(b) ==
  NextRevisionOf(b, IF view[b.id] # None THEN view[b.id] ELSE Find(b.id))

NextRevision(b) == NextRevisionOf(b, Find(b.id))

HypothesisStatusChangedOK(d) ==
  LET b == d.body IN
  /\ Drafted(d, "HypothesisStatusChanged")
  /\ Found(b.id)
  /\ NextRevision(b)
  /\ b.to \in NextHypothesis[b.from]
  /\ CitedDecisionOK(b.decision, b.id)
  /\ AcceptsResearch(Find(b.id).session)

HypothesisStatusChangedEntity(d) ==
  [ Find(d.body.id) EXCEPT !.generation = d.body.generation,
                           !.status = d.body.to,
                           !.last_changed_at = Sequence ]

-----------------------------------------------------------------------------
(* Experiments, branches and attempts *)
ExperimentDeclaredOK(d) ==
  LET b == d.body IN
  /\ Drafted(d, "ExperimentDeclared")
  /\ Fresh(b.id)
  /\ Found(b.session) /\ AcceptsResearch(b.session)
  /\ b.hypotheses # {}
  /\ \A h \in b.hypotheses : InSession(h, b.session)
  /\ InSession(b.branch, b.session)
  /\ b.parent # None => InSession(b.parent, b.session)

ExperimentDeclaredEntity(d) ==
  [ session |-> d.body.session, hypotheses |-> d.body.hypotheses,
    branch |-> d.body.branch, parent |-> d.body.parent,
    declared_at |-> Sequence, links |-> {} ]

(* The parent is looked up before the branch is staged, so a branch cannot  *)
(* be its own parent.                                                       *)
BranchDeclaredOK(d) ==
  LET b == d.body IN
  /\ Drafted(d, "BranchDeclared")
  /\ Fresh(b.id)
  /\ Found(b.session) /\ AcceptsResearch(b.session)
  /\ b.parent # None => InSession(b.parent, b.session)

BranchDeclaredEntity(d) ==
  [ session |-> d.body.session, parent |-> d.body.parent,
    declared_at |-> Sequence, links |-> {} ]

AttemptStartedOK(d) ==
  LET b == d.body IN
  /\ Drafted(d, "AttemptStarted")
  /\ Fresh(b.id)
  /\ Found(b.experiment)
  /\ InSession(b.branch, Find(b.experiment).session)
  /\ Find(b.experiment).branch = b.branch
  /\ AcceptsResearch(Find(b.experiment).session)

AttemptStartedEntity(d) ==
  [ experiment |-> d.body.experiment, branch |-> d.body.branch,
    generation |-> 1, state |-> "Running", failure |-> None,
    started_at |-> Sequence, terminated_at |-> 0, links |-> {} ]

(* (Mutant: an end staged in this batch is overlooked.) *)
EndsInHistory(b) ==
  LET a == IF view[b.id] # None THEN view[b.id] ELSE Find(b.id) IN
  a.generation = b.generation /\ a.state = "Running"

MayEnd(b) ==
  Find(b.id).generation = b.generation /\ Find(b.id).state = "Running"

(* AttemptCompleted, AttemptFailed and AttemptCancelled *)
AttemptEndedOK(d) ==
  LET b == d.body IN
  /\ d.type \in TerminalType /\ d.wellformed
  /\ AttemptFound(b.id)
  /\ MayEnd(b)
  /\ d.type = "AttemptFailed" =>
       /\ b.failure # None
       /\ Found(b.failure)
       /\ Find(b.failure).scope = b.id
  /\ AcceptsResearch(AttemptSession(b.id))

AttemptEndedEntity(d) ==
  [ Find(d.body.id) EXCEPT
      !.state = TerminalState[d.type],
      !.terminated_at = Sequence,
      !.failure = IF d.type = "AttemptFailed" THEN d.body.failure ELSE @ ]

-----------------------------------------------------------------------------
(* Activity under an attempt.  A cancelled attempt takes no more of it; a   *)
(* completed or failed one still does.  (Mutant: a cancelled one does too.) *)
EndedTakesActivity(a) == AttemptFound(a) /\ AcceptsResearch(AttemptSession(a))

AttemptTakesActivity(a) ==
  /\ AttemptFound(a)
  /\ Find(a).state # "Cancelled"
  /\ AcceptsResearch(AttemptSession(a))

ModelCallRecordedOK(d) ==
  LET b == d.body IN
  /\ Drafted(d, "ModelCallRecorded")
  /\ Fresh(b.id)
  /\ AttemptTakesActivity(b.attempt)
  /\ \A p \in b.parents : InSession(p, AttemptSession(b.attempt))

ModelCallRecordedEntity(d) ==
  [ attempt |-> d.body.attempt, parents |-> d.body.parents,
    recorded_at |-> Sequence ]

ToolCallRecordedOK(d) ==
  /\ Drafted(d, "ToolCallRecorded")
  /\ Fresh(d.body.id)
  /\ AttemptTakesActivity(d.body.attempt)

ToolCallRecordedEntity(d) ==
  [ attempt |-> d.body.attempt, recorded_at |-> Sequence ]

ObservationRecordedOK(d) ==
  LET b == d.body IN
  /\ Drafted(d, "ObservationRecorded")
  /\ Fresh(b.id)
  /\ AttemptTakesActivity(b.attempt)
  /\ b.metric # None =>
       /\ InSession(b.metric, AttemptSession(b.attempt))
       /\ Find(b.metric).value_kind = b.value_kind

ObservationRecordedEntity(d) ==
  [ session |-> AttemptSession(d.body.attempt), attempt |-> d.body.attempt,
    experiment |-> Find(d.body.attempt).experiment,
    metric |-> d.body.metric, recorded_at |-> Sequence ]

-----------------------------------------------------------------------------
(* Artifacts.  A second reference to an artifact replaces its view: the     *)
(* generation must be the next one, and nothing ties the new reference's    *)
(* session, producer or parents to the old one's.                           *)
ArtifactReferencedOK(d) ==
  LET b == d.body IN
  /\ Drafted(d, "ArtifactReferenced")
  /\ Found(b.session) /\ AcceptsResearch(b.session)
  /\ b.generation = IF Found(b.id) THEN Find(b.id).generation + 1 ELSE 1
  /\ Locate(b.producer) = b.session
  /\ b.id \notin b.parents
  /\ \A p \in b.parents : InSession(p, b.session)

ArtifactReferencedEntity(d) ==
  [ session |-> d.body.session, generation |-> d.body.generation,
    producer |-> d.body.producer, parents |-> d.body.parents,
    validation |-> d.body.validation, recorded_at |-> Sequence ]

ArtifactInvalidatedOK(d) ==
  LET b == d.body IN
  /\ Drafted(d, "ArtifactInvalidated")
  /\ Found(b.id)
  /\ Find(b.id).generation = b.generation
  /\ Find(b.id).validation # "Invalidated"
  /\ b.failure # None => Found(b.failure)
  /\ CitedDecisionOK(b.decision, b.id)
  /\ AcceptsResearch(Find(b.id).session)

ArtifactInvalidatedEntity(d) ==
  [ Find(d.body.id) EXCEPT !.validation = "Invalidated" ]

-----------------------------------------------------------------------------
(* Metrics and failures *)
MetricDeclaredOK(d) ==
  LET b == d.body IN
  /\ Drafted(d, "MetricDeclared")
  /\ Fresh(b.id)
  /\ Found(b.session) /\ AcceptsResearch(b.session)
  /\ \A m \in Metric :
       Found(m) => ~(Find(m).session = b.session /\ Find(m).key = b.key)

MetricDeclaredEntity(d) ==
  [ session |-> d.body.session, key |-> d.body.key,
    value_kind |-> d.body.value_kind, declared_at |-> Sequence ]

FailureRecordedOK(d) ==
  LET b == d.body IN
  /\ Drafted(d, "FailureRecorded")
  /\ Fresh(b.id)
  /\ Locate(b.scope) # None
  /\ b.predecessor # None => Found(b.predecessor)
  /\ b.recovery # None => InSession(b.recovery, Locate(b.scope))
  /\ AcceptsResearch(Locate(b.scope))

FailureRecordedEntity(d) ==
  [ session |-> Locate(d.body.scope), scope |-> d.body.scope,
    predecessor |-> d.body.predecessor, recovery |-> d.body.recovery,
    recorded_at |-> Sequence ]

-----------------------------------------------------------------------------
(* Decisions and results *)

(* check_evidence: only committed history is evidence, never a record that  *)
(* is merely staged in the decision's own batch.  (Mutant: the record need  *)
(* not concern the cited subject.)                                          *)
EvidenceOnAnySubject(e, session) ==
  /\ e.sequence \in 1 .. Len(records)
  /\ subject_index[e.subject] = session

EvidenceOK(e, session) ==
  /\ e.sequence \in 1 .. Len(records)
  /\ records[e.sequence].subject = e.subject
  /\ subject_index[e.subject] = session

DecisionRecordedOK(d) ==
  LET b == d.body IN
  /\ Drafted(d, "DecisionRecorded")
  /\ Fresh(b.id)
  /\ Found(b.session) /\ AcceptsResearch(b.session)
  /\ Locate(b.subject) = b.session
  /\ OutcomeOfType[b.decision_type] = b.outcome
  /\ \A e \in b.evidence : EvidenceOK(e, b.session)

DecisionRecordedEntity(d) ==
  [ session |-> d.body.session, subject |-> d.body.subject,
    decision_type |-> d.body.decision_type, outcome |-> d.body.outcome,
    evidence |-> d.body.evidence, recorded_at |-> Sequence ]

ResultDeclaredOK(d) ==
  LET b == d.body IN
  /\ Drafted(d, "ResultDeclared")
  /\ Fresh(b.id)
  /\ Found(b.session) /\ AcceptsResearch(b.session)
  /\ \A x \in b.support : InSession(x, b.session)
  /\ b.support \cap (Experiment \cup Artifact) # {}

ResultDeclaredEntity(d) ==
  [ session |-> d.body.session, generation |-> 1, status |-> "Candidate",
    support |-> d.body.support, declared_at |-> Sequence,
    last_changed_at |-> Sequence, last_decision |-> None,
    acceptance_decision |-> None ]

(* The decision a change of result x rests on.  (Mutant: it may concern     *)
(* something else.)                                                         *)
AuthorizesAnything(decision, x, status) ==
  status \in StatusesOfOutcome[decision.outcome]

Authorizes(decision, x, status) ==
  /\ decision.subject = x
  /\ OutcomeOfType[decision.decision_type] = decision.outcome
  /\ status \in StatusesOfOutcome[decision.outcome]

ResultStatusChangedOK(d) ==
  LET b == d.body IN
  /\ Drafted(d, "ResultStatusChanged")
  /\ Found(b.id)
  /\ NextRevision(b)
  /\ b.to \in NextResult[b.from]
  /\ Found(b.decision) /\ Authorizes(Find(b.decision), b.id, b.to)
  /\ AcceptsResearch(Find(b.id).session)

ResultStatusChangedEntity(d) ==
  LET b == d.body IN
  [ Find(b.id) EXCEPT
      !.generation = b.generation,
      !.status = b.to,
      !.last_changed_at = Sequence,
      !.last_decision = b.decision,
      !.acceptance_decision = IF b.to = "Accepted" THEN b.decision ELSE @ ]

(* Accounting is kept by scope and has no view of its own. *)
AccountingRecordedOK(d) ==
  /\ Drafted(d, "AccountingRecorded")
  /\ Locate(d.body.id) # None
  /\ AcceptsResearch(Locate(d.body.id))

-----------------------------------------------------------------------------
(* build_staged_entity: whether it succeeds, and what it returns.           *)
Validates(d) ==
  \/ SessionOpenedOK(d) \/ SessionClosedOK(d) \/ SessionAnnotationOK(d)
  \/ HypothesisDeclaredOK(d) \/ HypothesisStatusChangedOK(d)
  \/ ExperimentDeclaredOK(d) \/ BranchDeclaredOK(d)
  \/ AttemptStartedOK(d) \/ AttemptEndedOK(d)
  \/ ModelCallRecordedOK(d) \/ ToolCallRecordedOK(d)
  \/ ArtifactReferencedOK(d) \/ ArtifactInvalidatedOK(d)
  \/ MetricDeclaredOK(d) \/ ObservationRecordedOK(d)
  \/ FailureRecordedOK(d) \/ DecisionRecordedOK(d)
  \/ ResultDeclaredOK(d) \/ ResultStatusChangedOK(d)
  \/ AccountingRecordedOK(d)

EntityOf(d) ==
  CASE d.type = "SessionOpened" -> SessionOpenedEntity(d)
    [] d.type = "SessionClosed" -> SessionClosedEntity(d)
    [] d.type = "SessionAnnotation" -> SessionAnnotationEntity(d)
    [] d.type = "HypothesisDeclared" -> HypothesisDeclaredEntity(d)
    [] d.type = "HypothesisStatusChanged" -> HypothesisStatusChangedEntity(d)
    [] d.type = "ExperimentDeclared" -> ExperimentDeclaredEntity(d)
    [] d.type = "BranchDeclared" -> BranchDeclaredEntity(d)
    [] d.type = "AttemptStarted" -> AttemptStartedEntity(d)
    [] d.type \in TerminalType -> AttemptEndedEntity(d)
    [] d.type = "ModelCallRecorded" -> ModelCallRecordedEntity(d)
    [] d.type = "ToolCallRecorded" -> ToolCallRecordedEntity(d)
    [] d.type = "ArtifactReferenced" -> ArtifactReferencedEntity(d)
    [] d.type = "ArtifactInvalidated" -> ArtifactInvalidatedEntity(d)
    [] d.type = "MetricDeclared" -> MetricDeclaredEntity(d)
    [] d.type = "ObservationRecorded" -> ObservationRecordedEntity(d)
    [] d.type = "FailureRecorded" -> FailureRecordedEntity(d)
    [] d.type = "DecisionRecorded" -> DecisionRecordedEntity(d)
    [] d.type = "ResultDeclared" -> ResultDeclaredEntity(d)
    [] d.type = "ResultStatusChanged" -> ResultStatusChangedEntity(d)
    [] OTHER -> None

(* The session of a staged entry. *)
SessionOf(d) ==
  LET b == d.body IN
  CASE d.type \in { "SessionOpened", "SessionClosed", "SessionAnnotation" }
         -> b.id
    [] d.type \in { "HypothesisStatusChanged", "ArtifactInvalidated",
                    "ResultStatusChanged" } -> Find(b.id).session
    [] d.type = "AttemptStarted" -> Find(b.experiment).session
    [] d.type \in TerminalType -> AttemptSession(b.id)
    [] d.type \in { "ModelCallRecorded", "ToolCallRecorded",
                    "ObservationRecorded" } -> AttemptSession(b.attempt)
    [] d.type = "FailureRecorded" -> Locate(b.scope)
    [] d.type = "AccountingRecorded" -> Locate(b.id)
    [] OTHER -> b.session

(* primary_subject: a metric declaration concerns its session.  (Mutant: it *)
(* concerns the metric, which is no subject.)                               *)
DeclaredSubject(d) == d.body.id

PrimarySubject(d) ==
  IF d.type = "MetricDeclared" THEN d.body.session ELSE d.body.id

(* A staged entry.  key is the slot of view its entity will occupy. *)
StagedEntity(d, record_id) ==
  [ draft |-> d, record_id |-> record_id,
    subject |-> PrimarySubject(d), session |-> SessionOf(d),
    key |-> IF d.type = "AccountingRecorded" THEN None ELSE d.body.id,
    entity |-> EntityOf(d) ]
=============================================================================

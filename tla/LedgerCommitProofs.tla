------------------------- MODULE LedgerCommitProofs -------------------------
(***************************************************************************)
(* Proofs about the commit path, for every choice of identities, drafts and *)
(* limits: its types, the history it keeps, and what that history promises  *)
(* about life cycles and references.                                        *)
(***************************************************************************)
EXTENDS LedgerSafety, TLAPS, FiniteSetTheorems

-----------------------------------------------------------------------------
(* What a draft carries: its type tells the kind of its payload.            *)
LEMMA DraftHeader ==
  ASSUME NEW d \in Drafts
  PROVE  d.type \in RecordType /\ d.record_id \in Opt(RecordId)
BY DraftsAssumption DEF Draft, DraftWith, RecordType, TerminalType,
   TerminalState

LEMMA DraftBodies ==
  ASSUME NEW d \in Drafts
  PROVE  /\ d.type \in { "SessionOpened", "SessionClosed",
                         "SessionAnnotation" } => d.body \in SessionBody
         /\ d.type = "HypothesisDeclared" => d.body \in HypothesisBody
         /\ d.type = "HypothesisStatusChanged" =>
              d.body \in HypothesisChangeBody
         /\ d.type = "ExperimentDeclared" => d.body \in ExperimentBody
         /\ d.type = "BranchDeclared" => d.body \in BranchBody
         /\ d.type = "AttemptStarted" => d.body \in AttemptBody
         /\ d.type \in TerminalType => d.body \in AttemptEndBody
         /\ d.type = "ModelCallRecorded" => d.body \in ModelCallBody
         /\ d.type = "ToolCallRecorded" => d.body \in ToolCallBody
         /\ d.type = "ArtifactReferenced" => d.body \in ArtifactBody
         /\ d.type = "ArtifactInvalidated" =>
              d.body \in ArtifactInvalidationBody
         /\ d.type = "MetricDeclared" => d.body \in MetricBody
         /\ d.type = "ObservationRecorded" => d.body \in ObservationBody
         /\ d.type = "FailureRecorded" => d.body \in FailureBody
         /\ d.type = "DecisionRecorded" => d.body \in DecisionBody
         /\ d.type = "ResultDeclared" => d.body \in ResultBody
         /\ d.type = "ResultStatusChanged" => d.body \in ResultChangeBody
         /\ d.type = "AccountingRecorded" => d.body \in AccountingBody
BY DraftsAssumption DEF Draft, DraftWith, TerminalType, TerminalState

-----------------------------------------------------------------------------
(* Views and slots.  An identity has one kind, so a view of that kind fits. *)
LEMMA ViewFits ==
  ASSUME NEW x, NEW v
  PROVE  /\ x \in Session /\ v \in SessionView => ViewOf(x, v)
         /\ x \in Hypothesis /\ v \in HypothesisView => ViewOf(x, v)
         /\ x \in Experiment /\ v \in ExperimentView => ViewOf(x, v)
         /\ x \in Branch /\ v \in BranchView => ViewOf(x, v)
         /\ x \in Attempt /\ v \in AttemptView => ViewOf(x, v)
         /\ x \in ModelCall /\ v \in ModelCallView => ViewOf(x, v)
         /\ x \in ToolCall /\ v \in ToolCallView => ViewOf(x, v)
         /\ x \in Artifact /\ v \in ArtifactView => ViewOf(x, v)
         /\ x \in Metric /\ v \in MetricView => ViewOf(x, v)
         /\ x \in Observation /\ v \in ObservationView => ViewOf(x, v)
         /\ x \in Failure /\ v \in FailureView => ViewOf(x, v)
         /\ x \in Decision /\ v \in DecisionView => ViewOf(x, v)
         /\ x \in Result /\ v \in ResultView => ViewOf(x, v)
BY IdentityDomains, Zenon DEF ViewOf

LEMMA ViewIsView ==
  ASSUME NEW x \in Entity, NEW v, ViewOf(x, v)
  PROVE  v \in View
BY DEF ViewOf, View, Entity, Subject

LEMMA FoundViews ==
  ASSUME TypeOK, NEW x \in Entity, Found(x)
  PROVE  ViewOf(x, Find(x))
BY DEF TypeOK, Found, Find

LEMMA LocatedSession ==
  ASSUME TypeOK, NEW x \in Subject, Locate(x) # None
  PROVE  Locate(x) \in Session
BY DEF TypeOK, Locate, Opt

(* The session of an attempt that is found, reached through its experiment. *)
LEMMA AttemptSessions ==
  ASSUME TypeOK, NEW a \in Attempt, AttemptFound(a)
  PROVE  /\ Find(a) \in AttemptView
         /\ Find(a).experiment \in Experiment
         /\ AttemptSession(a) \in Session
<1>1. Find(a) \in AttemptView
  BY FoundViews DEF AttemptFound, ViewOf, Entity, Subject
<1>2. Find(a).experiment \in Experiment
  BY <1>1 DEF AttemptView
<1>3. Find(Find(a).experiment) \in ExperimentView
  BY <1>2, FoundViews DEF AttemptFound, ViewOf, Entity, Subject
<1> QED BY <1>1, <1>2, <1>3 DEF AttemptSession, ExperimentView

LEMMA SequenceIsNat ==
  ASSUME TypeOK
  PROVE  Sequence \in Nat \ { 0 }
<1>1. Len(records) \in Nat /\ Len(staged) \in Nat
  BY DEF TypeOK
<1> QED BY <1>1 DEF Sequence

(* The views that finding an entity of each kind yields. *)
LEMMA FoundKinds ==
  ASSUME TypeOK, NEW x, Found(x)
  PROVE  /\ x \in Session => Find(x) \in SessionView
         /\ x \in Hypothesis => Find(x) \in HypothesisView
         /\ x \in Experiment => Find(x) \in ExperimentView
         /\ x \in Artifact => Find(x) \in ArtifactView
         /\ x \in Result => Find(x) \in ResultView
BY FoundViews DEF ViewOf, Entity, Subject

-----------------------------------------------------------------------------
(* What staging a validated draft must be given: an entry that is typed.    *)
StagesTyped(d) ==
  /\ PrimarySubject(d) \in Subject
  /\ SessionOf(d) \in Session
  /\ d.type # "AccountingRecorded" =>
       d.body.id \in Entity /\ ViewOf(d.body.id, EntityOf(d))

(* One lemma for each record type: validation leaves nothing out.           *)
LEMMA SessionOpenedTyped ==
  ASSUME TypeOK, NEW d \in Drafts, SessionOpenedOK(d)
  PROVE  StagesTyped(d)
<1>1. d.type = "SessionOpened" /\ d.body \in SessionBody
  BY DraftBodies DEF SessionOpenedOK, Drafted
<1>2. EntityOf(d) = SessionOpenedEntity(d)
  BY <1>1 DEF EntityOf, TerminalType, TerminalState
<1>3. SessionOf(d) \in Session
  BY <1>1 DEF SessionOf, SessionBody, SessionOpenedOK, TerminalType,
     TerminalState, Entity, Subject, SessionState
<1>4. SessionOpenedEntity(d) \in SessionView
  BY <1>1, <1>3, SequenceIsNat DEF SessionOpenedEntity, SessionOpenedOK, SessionBody, SessionView,
     SessionOf, TerminalType, TerminalState, Opt, Entity,
     Subject, SessionState
<1> QED
  BY <1>1, <1>2, <1>3, <1>4, ViewFits
     DEF StagesTyped, PrimarySubject, SessionBody, Entity, Subject

LEMMA SessionClosedTyped ==
  ASSUME TypeOK, NEW d \in Drafts, SessionClosedOK(d)
  PROVE  StagesTyped(d)
<1>1. d.type = "SessionClosed" /\ d.body \in SessionBody
  BY DraftBodies DEF SessionClosedOK, Drafted
<1>2. EntityOf(d) = SessionClosedEntity(d)
  BY <1>1 DEF EntityOf, TerminalType, TerminalState
<1>3. SessionOf(d) \in Session
  BY <1>1, FoundKinds DEF SessionOf, SessionBody, SessionClosedOK, TerminalType,
     TerminalState, Entity, Subject, SessionState
<1>4. Find(d.body.id) \in SessionView
  BY <1>1, FoundKinds DEF SessionClosedOK, SessionBody
<1>5. SessionClosedEntity(d) \in SessionView
  BY <1>1, <1>4, SequenceIsNat DEF SessionClosedEntity, SessionBody,
     SessionView, SessionState
<1> QED
  BY <1>1, <1>2, <1>3, <1>5, ViewFits
     DEF StagesTyped, PrimarySubject, SessionBody, Entity, Subject

LEMMA SessionAnnotationTyped ==
  ASSUME TypeOK, NEW d \in Drafts, SessionAnnotationOK(d)
  PROVE  StagesTyped(d)
<1>1. d.type = "SessionAnnotation" /\ d.body \in SessionBody
  BY DraftBodies DEF SessionAnnotationOK, Drafted
<1>2. EntityOf(d) = SessionAnnotationEntity(d)
  BY <1>1 DEF EntityOf, TerminalType, TerminalState
<1>3. SessionOf(d) \in Session
  BY <1>1, FoundKinds DEF SessionOf, SessionBody, SessionAnnotationOK, TerminalType,
     TerminalState, Entity, Subject, SessionState
<1>4. SessionAnnotationEntity(d) \in SessionView
  BY <1>1, <1>3, SequenceIsNat, FoundKinds DEF SessionAnnotationEntity, SessionAnnotationOK, SessionBody, SessionView,
     SessionOf, TerminalType, TerminalState, Opt, Entity,
     Subject, SessionState
<1> QED
  BY <1>1, <1>2, <1>3, <1>4, ViewFits
     DEF StagesTyped, PrimarySubject, SessionBody, Entity, Subject

LEMMA HypothesisDeclaredTyped ==
  ASSUME TypeOK, NEW d \in Drafts, HypothesisDeclaredOK(d)
  PROVE  StagesTyped(d)
<1>1. d.type = "HypothesisDeclared" /\ d.body \in HypothesisBody
  BY DraftBodies DEF HypothesisDeclaredOK, Drafted
<1>2. EntityOf(d) = HypothesisDeclaredEntity(d)
  BY <1>1 DEF EntityOf, TerminalType, TerminalState
<1>3. SessionOf(d) \in Session
  BY <1>1 DEF SessionOf, HypothesisBody, HypothesisDeclaredOK, TerminalType,
     TerminalState, Entity, Subject, HypothesisStatus
<1>4. HypothesisDeclaredEntity(d) \in HypothesisView
  BY <1>1, <1>3, SequenceIsNat DEF HypothesisDeclaredEntity, HypothesisDeclaredOK, HypothesisBody, HypothesisView,
     SessionOf, TerminalType, TerminalState, Opt, Entity,
     Subject, HypothesisStatus
<1> QED
  BY <1>1, <1>2, <1>3, <1>4, ViewFits
     DEF StagesTyped, PrimarySubject, HypothesisBody, Entity, Subject

LEMMA HypothesisStatusChangedTyped ==
  ASSUME TypeOK, NEW d \in Drafts, HypothesisStatusChangedOK(d)
  PROVE  StagesTyped(d)
<1>1. d.type = "HypothesisStatusChanged" /\ d.body \in HypothesisChangeBody
  BY DraftBodies DEF HypothesisStatusChangedOK, Drafted
<1>2. EntityOf(d) = HypothesisStatusChangedEntity(d)
  BY <1>1 DEF EntityOf, TerminalType, TerminalState
<1>3. SessionOf(d) \in Session
  BY <1>1, FoundKinds DEF SessionOf, HypothesisChangeBody, HypothesisStatusChangedOK, TerminalType,
     TerminalState, Entity, Subject, HypothesisView
<1>4. Find(d.body.id) \in HypothesisView
  BY <1>1, FoundKinds DEF HypothesisStatusChangedOK, HypothesisChangeBody
<1>5. HypothesisStatusChangedEntity(d) \in HypothesisView
  BY <1>1, <1>4, SequenceIsNat DEF HypothesisStatusChangedEntity, HypothesisChangeBody,
     HypothesisView
<1> QED
  BY <1>1, <1>2, <1>3, <1>5, ViewFits
     DEF StagesTyped, PrimarySubject, HypothesisChangeBody, Entity, Subject

LEMMA ExperimentDeclaredTyped ==
  ASSUME TypeOK, NEW d \in Drafts, ExperimentDeclaredOK(d)
  PROVE  StagesTyped(d)
<1>1. d.type = "ExperimentDeclared" /\ d.body \in ExperimentBody
  BY DraftBodies DEF ExperimentDeclaredOK, Drafted
<1>2. EntityOf(d) = ExperimentDeclaredEntity(d)
  BY <1>1 DEF EntityOf, TerminalType, TerminalState
<1>3. SessionOf(d) \in Session
  BY <1>1 DEF SessionOf, ExperimentBody, ExperimentDeclaredOK, TerminalType,
     TerminalState, Entity, Subject
<1>4. ExperimentDeclaredEntity(d) \in ExperimentView
  BY <1>1, <1>3, SequenceIsNat DEF ExperimentDeclaredEntity, ExperimentDeclaredOK, ExperimentBody, ExperimentView,
     SessionOf, TerminalType, TerminalState, Opt, Entity,
     Subject
<1> QED
  BY <1>1, <1>2, <1>3, <1>4, ViewFits
     DEF StagesTyped, PrimarySubject, ExperimentBody, Entity, Subject

LEMMA BranchDeclaredTyped ==
  ASSUME TypeOK, NEW d \in Drafts, BranchDeclaredOK(d)
  PROVE  StagesTyped(d)
<1>1. d.type = "BranchDeclared" /\ d.body \in BranchBody
  BY DraftBodies DEF BranchDeclaredOK, Drafted
<1>2. EntityOf(d) = BranchDeclaredEntity(d)
  BY <1>1 DEF EntityOf, TerminalType, TerminalState
<1>3. SessionOf(d) \in Session
  BY <1>1 DEF SessionOf, BranchBody, BranchDeclaredOK, TerminalType,
     TerminalState, Entity, Subject
<1>4. BranchDeclaredEntity(d) \in BranchView
  BY <1>1, <1>3, SequenceIsNat DEF BranchDeclaredEntity, BranchDeclaredOK, BranchBody, BranchView,
     SessionOf, TerminalType, TerminalState, Opt, Entity,
     Subject
<1> QED
  BY <1>1, <1>2, <1>3, <1>4, ViewFits
     DEF StagesTyped, PrimarySubject, BranchBody, Entity, Subject

LEMMA AttemptStartedTyped ==
  ASSUME TypeOK, NEW d \in Drafts, AttemptStartedOK(d)
  PROVE  StagesTyped(d)
<1>1. d.type = "AttemptStarted" /\ d.body \in AttemptBody
  BY DraftBodies DEF AttemptStartedOK, Drafted
<1>2. EntityOf(d) = AttemptStartedEntity(d)
  BY <1>1 DEF EntityOf, TerminalType, TerminalState
<1>3. SessionOf(d) \in Session
  BY <1>1, FoundKinds DEF SessionOf, AttemptBody, AttemptStartedOK, TerminalType,
     TerminalState, Entity, Subject, AttemptState, ExperimentView
<1>4. AttemptStartedEntity(d) \in AttemptView
  BY <1>1, <1>3, SequenceIsNat, FoundKinds DEF AttemptStartedEntity, AttemptStartedOK, AttemptBody, AttemptView,
     SessionOf, TerminalType, TerminalState, Opt, Entity,
     Subject, AttemptState, ExperimentView
<1> QED
  BY <1>1, <1>2, <1>3, <1>4, ViewFits
     DEF StagesTyped, PrimarySubject, AttemptBody, Entity, Subject

LEMMA ModelCallRecordedTyped ==
  ASSUME TypeOK, NEW d \in Drafts, ModelCallRecordedOK(d)
  PROVE  StagesTyped(d)
<1>1. d.type = "ModelCallRecorded" /\ d.body \in ModelCallBody
  BY DraftBodies DEF ModelCallRecordedOK, Drafted
<1>2. EntityOf(d) = ModelCallRecordedEntity(d)
  BY <1>1 DEF EntityOf, TerminalType, TerminalState
<1>3. SessionOf(d) \in Session
  BY <1>1, AttemptSessions DEF SessionOf, ModelCallBody, ModelCallRecordedOK, TerminalType,
     TerminalState, Entity, Subject, AttemptTakesActivity
<1>4. ModelCallRecordedEntity(d) \in ModelCallView
  BY <1>1, <1>3, SequenceIsNat, AttemptSessions DEF ModelCallRecordedEntity, ModelCallRecordedOK, ModelCallBody, ModelCallView,
     SessionOf, TerminalType, TerminalState, Opt, Entity,
     Subject, AttemptTakesActivity
<1> QED
  BY <1>1, <1>2, <1>3, <1>4, ViewFits
     DEF StagesTyped, PrimarySubject, ModelCallBody, Entity, Subject

LEMMA ToolCallRecordedTyped ==
  ASSUME TypeOK, NEW d \in Drafts, ToolCallRecordedOK(d)
  PROVE  StagesTyped(d)
<1>1. d.type = "ToolCallRecorded" /\ d.body \in ToolCallBody
  BY DraftBodies DEF ToolCallRecordedOK, Drafted
<1>2. EntityOf(d) = ToolCallRecordedEntity(d)
  BY <1>1 DEF EntityOf, TerminalType, TerminalState
<1>3. SessionOf(d) \in Session
  BY <1>1, AttemptSessions DEF SessionOf, ToolCallBody, ToolCallRecordedOK, TerminalType,
     TerminalState, Entity, Subject, AttemptTakesActivity
<1>4. ToolCallRecordedEntity(d) \in ToolCallView
  BY <1>1, <1>3, SequenceIsNat, AttemptSessions DEF ToolCallRecordedEntity, ToolCallRecordedOK, ToolCallBody, ToolCallView,
     SessionOf, TerminalType, TerminalState, Opt, Entity,
     Subject, AttemptTakesActivity
<1> QED
  BY <1>1, <1>2, <1>3, <1>4, ViewFits
     DEF StagesTyped, PrimarySubject, ToolCallBody, Entity, Subject

LEMMA ObservationRecordedTyped ==
  ASSUME TypeOK, NEW d \in Drafts, ObservationRecordedOK(d)
  PROVE  StagesTyped(d)
<1>1. d.type = "ObservationRecorded" /\ d.body \in ObservationBody
  BY DraftBodies DEF ObservationRecordedOK, Drafted
<1>2. EntityOf(d) = ObservationRecordedEntity(d)
  BY <1>1 DEF EntityOf, TerminalType, TerminalState
<1>3. SessionOf(d) \in Session
  BY <1>1, AttemptSessions DEF SessionOf, ObservationBody, ObservationRecordedOK, TerminalType,
     TerminalState, Entity, Subject, AttemptTakesActivity
<1>4. ObservationRecordedEntity(d) \in ObservationView
  BY <1>1, <1>3, SequenceIsNat, AttemptSessions DEF ObservationRecordedEntity, ObservationRecordedOK, ObservationBody, ObservationView,
     SessionOf, TerminalType, TerminalState, Opt, Entity,
     Subject, AttemptTakesActivity
<1> QED
  BY <1>1, <1>2, <1>3, <1>4, ViewFits
     DEF StagesTyped, PrimarySubject, ObservationBody, Entity, Subject

LEMMA ArtifactReferencedTyped ==
  ASSUME TypeOK, NEW d \in Drafts, ArtifactReferencedOK(d)
  PROVE  StagesTyped(d)
<1>1. d.type = "ArtifactReferenced" /\ d.body \in ArtifactBody
  BY DraftBodies DEF ArtifactReferencedOK, Drafted
<1>2. EntityOf(d) = ArtifactReferencedEntity(d)
  BY <1>1 DEF EntityOf, TerminalType, TerminalState
<1>3. SessionOf(d) \in Session
  BY <1>1 DEF SessionOf, ArtifactBody, ArtifactReferencedOK, TerminalType,
     TerminalState, Entity, Subject
<1>4. ArtifactReferencedEntity(d) \in ArtifactView
  BY <1>1, <1>3, SequenceIsNat DEF ArtifactReferencedEntity, ArtifactReferencedOK, ArtifactBody, ArtifactView,
     SessionOf, TerminalType, TerminalState, Opt, Entity,
     Subject
<1> QED
  BY <1>1, <1>2, <1>3, <1>4, ViewFits
     DEF StagesTyped, PrimarySubject, ArtifactBody, Entity, Subject

LEMMA ArtifactInvalidatedTyped ==
  ASSUME TypeOK, NEW d \in Drafts, ArtifactInvalidatedOK(d)
  PROVE  StagesTyped(d)
<1>1. d.type = "ArtifactInvalidated" /\ d.body \in ArtifactInvalidationBody
  BY DraftBodies DEF ArtifactInvalidatedOK, Drafted
<1>2. EntityOf(d) = ArtifactInvalidatedEntity(d)
  BY <1>1 DEF EntityOf, TerminalType, TerminalState
<1>3. SessionOf(d) \in Session
  BY <1>1, FoundKinds DEF SessionOf, ArtifactInvalidationBody, ArtifactInvalidatedOK, TerminalType,
     TerminalState, Entity, Subject, ArtifactView, ValidationState
<1>4. ArtifactInvalidatedEntity(d) \in ArtifactView
  BY <1>1, <1>3, SequenceIsNat, FoundKinds DEF ArtifactInvalidatedEntity, ArtifactInvalidatedOK, ArtifactInvalidationBody, ArtifactView,
     SessionOf, TerminalType, TerminalState, Opt, Entity,
     Subject, ArtifactView, ValidationState
<1> QED
  BY <1>1, <1>2, <1>3, <1>4, ViewFits
     DEF StagesTyped, PrimarySubject, ArtifactInvalidationBody, Entity, Subject

LEMMA MetricDeclaredTyped ==
  ASSUME TypeOK, NEW d \in Drafts, MetricDeclaredOK(d)
  PROVE  StagesTyped(d)
<1>1. d.type = "MetricDeclared" /\ d.body \in MetricBody
  BY DraftBodies DEF MetricDeclaredOK, Drafted
<1>2. EntityOf(d) = MetricDeclaredEntity(d)
  BY <1>1 DEF EntityOf, TerminalType, TerminalState
<1>3. SessionOf(d) \in Session
  BY <1>1 DEF SessionOf, MetricBody, MetricDeclaredOK, TerminalType,
     TerminalState, Entity, Subject
<1>4. MetricDeclaredEntity(d) \in MetricView
  BY <1>1, <1>3, SequenceIsNat DEF MetricDeclaredEntity, MetricDeclaredOK, MetricBody, MetricView,
     SessionOf, TerminalType, TerminalState, Opt, Entity,
     Subject
<1> QED
  BY <1>1, <1>2, <1>3, <1>4, ViewFits
     DEF StagesTyped, PrimarySubject, MetricBody, Entity, Subject

LEMMA FailureRecordedTyped ==
  ASSUME TypeOK, NEW d \in Drafts, FailureRecordedOK(d)
  PROVE  StagesTyped(d)
<1>1. d.type = "FailureRecorded" /\ d.body \in FailureBody
  BY DraftBodies DEF FailureRecordedOK, Drafted
<1>2. EntityOf(d) = FailureRecordedEntity(d)
  BY <1>1 DEF EntityOf, TerminalType, TerminalState
<1>3. SessionOf(d) \in Session
  BY <1>1, LocatedSession DEF SessionOf, FailureBody, FailureRecordedOK, TerminalType,
     TerminalState, Entity, Subject
<1>4. FailureRecordedEntity(d) \in FailureView
  BY <1>1, <1>3, SequenceIsNat, LocatedSession DEF FailureRecordedEntity, FailureRecordedOK, FailureBody, FailureView,
     SessionOf, TerminalType, TerminalState, Opt, Entity,
     Subject
<1> QED
  BY <1>1, <1>2, <1>3, <1>4, ViewFits
     DEF StagesTyped, PrimarySubject, FailureBody, Entity, Subject

LEMMA DecisionRecordedTyped ==
  ASSUME TypeOK, NEW d \in Drafts, DecisionRecordedOK(d)
  PROVE  StagesTyped(d)
<1>1. d.type = "DecisionRecorded" /\ d.body \in DecisionBody
  BY DraftBodies DEF DecisionRecordedOK, Drafted
<1>2. EntityOf(d) = DecisionRecordedEntity(d)
  BY <1>1 DEF EntityOf, TerminalType, TerminalState
<1>3. SessionOf(d) \in Session
  BY <1>1 DEF SessionOf, DecisionBody, DecisionRecordedOK, TerminalType,
     TerminalState, Entity, Subject
<1>4. DecisionRecordedEntity(d) \in DecisionView
  BY <1>1, <1>3, SequenceIsNat DEF DecisionRecordedEntity, DecisionRecordedOK, DecisionBody, DecisionView,
     SessionOf, TerminalType, TerminalState, Opt, Entity,
     Subject
<1> QED
  BY <1>1, <1>2, <1>3, <1>4, ViewFits
     DEF StagesTyped, PrimarySubject, DecisionBody, Entity, Subject

LEMMA ResultDeclaredTyped ==
  ASSUME TypeOK, NEW d \in Drafts, ResultDeclaredOK(d)
  PROVE  StagesTyped(d)
<1>1. d.type = "ResultDeclared" /\ d.body \in ResultBody
  BY DraftBodies DEF ResultDeclaredOK, Drafted
<1>2. EntityOf(d) = ResultDeclaredEntity(d)
  BY <1>1 DEF EntityOf, TerminalType, TerminalState
<1>3. SessionOf(d) \in Session
  BY <1>1 DEF SessionOf, ResultBody, ResultDeclaredOK, TerminalType,
     TerminalState, Entity, Subject, ResultStatus
<1>4. ResultDeclaredEntity(d) \in ResultView
  BY <1>1, <1>3, SequenceIsNat DEF ResultDeclaredEntity, ResultDeclaredOK, ResultBody, ResultView,
     SessionOf, TerminalType, TerminalState, Opt, Entity,
     Subject, ResultStatus
<1> QED
  BY <1>1, <1>2, <1>3, <1>4, ViewFits
     DEF StagesTyped, PrimarySubject, ResultBody, Entity, Subject

LEMMA ResultStatusChangedTyped ==
  ASSUME TypeOK, NEW d \in Drafts, ResultStatusChangedOK(d)
  PROVE  StagesTyped(d)
<1>1. d.type = "ResultStatusChanged" /\ d.body \in ResultChangeBody
  BY DraftBodies DEF ResultStatusChangedOK, Drafted
<1>2. EntityOf(d) = ResultStatusChangedEntity(d)
  BY <1>1 DEF EntityOf, TerminalType, TerminalState
<1>3. SessionOf(d) \in Session
  BY <1>1, FoundKinds DEF SessionOf, ResultChangeBody, ResultStatusChangedOK, TerminalType,
     TerminalState, Entity, Subject, ResultView
<1>4. Find(d.body.id) \in ResultView
  BY <1>1, FoundKinds DEF ResultStatusChangedOK, ResultChangeBody
<1>5. ResultStatusChangedEntity(d) \in ResultView
  BY <1>1, <1>4, SequenceIsNat DEF ResultStatusChangedEntity, ResultChangeBody,
     ResultView, Opt
<1> QED
  BY <1>1, <1>2, <1>3, <1>5, ViewFits
     DEF StagesTyped, PrimarySubject, ResultChangeBody, Entity, Subject

LEMMA AttemptEndedTyped ==
  ASSUME TypeOK, NEW d \in Drafts, AttemptEndedOK(d)
  PROVE  StagesTyped(d)
<1>1. d.type \in TerminalType /\ d.body \in AttemptEndBody
  BY DraftBodies DEF AttemptEndedOK
<1>2. EntityOf(d) = AttemptEndedEntity(d)
  BY <1>1 DEF EntityOf, TerminalType, TerminalState
<1>3. SessionOf(d) \in Session
  BY <1>1, AttemptSessions DEF SessionOf, AttemptEndBody, AttemptEndedOK,
     TerminalType, TerminalState
<1>4. Find(d.body.id) \in AttemptView
  BY <1>1, AttemptSessions DEF AttemptEndedOK, AttemptEndBody
<1>5. TerminalState[d.type] \in AttemptState
  BY <1>1 DEF TerminalType, TerminalState, AttemptState
<1>6. d.body.failure \in Opt(Failure)
  BY <1>1 DEF AttemptEndBody
<1>7. AttemptEndedEntity(d) \in AttemptView
  BY <1>4, <1>5, <1>6, SequenceIsNat DEF AttemptEndedEntity, AttemptView
<1> QED
  BY <1>1, <1>2, <1>3, <1>7, ViewFits
     DEF StagesTyped, PrimarySubject, AttemptEndBody, Entity, Subject,
     TerminalType, TerminalState

LEMMA AccountingRecordedTyped ==
  ASSUME TypeOK, NEW d \in Drafts, AccountingRecordedOK(d)
  PROVE  StagesTyped(d)
<1>1. d.type = "AccountingRecorded" /\ d.body \in AccountingBody
  BY DraftBodies DEF AccountingRecordedOK, Drafted
<1>2. SessionOf(d) \in Session
  BY <1>1, LocatedSession DEF SessionOf, AccountingBody,
     AccountingRecordedOK, TerminalType, TerminalState
<1> QED
  BY <1>1, <1>2 DEF StagesTyped, PrimarySubject, AccountingBody

-----------------------------------------------------------------------------
(* Each kind of step preserves the type invariant. *)

LEMMA TypedEntry ==
  ASSUME TypeOK, NEW d \in Drafts, StagesTyped(d),
         NEW id \in RecordId \cup Nat
  PROVE  StagedEntity(d, id) \in Entry /\ EntityFitsKey(StagedEntity(d, id))
<1>1. CASE d.type = "AccountingRecorded"
  <2>1. EntityOf(d) = None
    BY <1>1 DEF EntityOf, TerminalType, TerminalState
  <2> QED BY <1>1, <2>1 DEF StagedEntity, Entry, EntityFitsKey, StagesTyped,
          Opt
<1>2. CASE d.type # "AccountingRecorded"
  <2>1. d.body.id \in Entity /\ d.body.id # None
    BY <1>2, NoneAssumption DEF StagesTyped
  <2>2. EntityOf(d) \in View
    BY <1>2, <2>1, ViewIsView DEF StagesTyped
  <2> QED BY <1>2, <2>1, <2>2 DEF StagedEntity, Entry, EntityFitsKey,
          StagesTyped, Opt
<1> QED BY <1>1, <1>2

LEMMA StageKeepsTypes ==
  ASSUME TypeOK, NEW d \in Drafts, StagesTyped(d), Stage(d)
  PROVE  TypeOK'
<1> DEFINE id == IF d.record_id = None THEN Sequence ELSE d.record_id
           s == StagedEntity(d, id)
<1>1. id \in RecordId \cup Nat
  BY DraftHeader, SequenceIsNat DEF Opt
<1>2. s \in Entry /\ EntityFitsKey(s)
  BY <1>1, TypedEntry
<1>3. s.subject \in Subject /\ s.session \in Session
  BY <1>2 DEF Entry
<1>4. s.key \in Entity => ViewOf(s.key, s.entity)
  BY <1>2, NoneAssumption DEF EntityFitsKey
<1>5. /\ staged' = Append(staged, s)
      /\ latest' = IF s.key = None THEN latest
                   ELSE [ latest EXCEPT ![s.key] = s.entity ]
      /\ front' = [ front EXCEPT ![s.subject] =
                      IF @ = None THEN s.session ELSE @ ]
      /\ outcomes' = Append(outcomes,
                        [ sequence |-> Sequence, state |-> "Validated" ])
      /\ UNCHANGED << committed, phase >>
  BY DEF Stage
<1> HIDE DEF id, s
<1>6. staged' \in Seq(Entry) /\ \A i \in DOMAIN staged' : EntityFitsKey(staged'[i])
  <2>1. staged \in Seq(Entry) /\ \A i \in DOMAIN staged : EntityFitsKey(staged[i])
    BY DEF TypeOK
  <2>2. staged' \in Seq(Entry) /\ Len(staged') = Len(staged) + 1
    BY <1>2, <1>5, <2>1
  <2>3. \A i \in 1 .. Len(staged) + 1 :
          staged'[i] = IF i <= Len(staged) THEN staged[i] ELSE s
    BY <1>2, <1>5, <2>1
  <2> QED BY <1>2, <2>1, <2>2, <2>3
<1>7. /\ DOMAIN latest' = Entity
      /\ \A x \in Entity : latest'[x] # None => ViewOf(x, latest'[x])
  BY <1>4, <1>5 DEF TypeOK
<1>8. front' \in [ Subject -> Opt(Session) ]
  BY <1>3, <1>5 DEF TypeOK, Opt
<1>9. outcomes' \in Seq(Outcome)
  BY <1>5, SequenceIsNat DEF TypeOK, Outcome
<1> QED BY <1>5, <1>6, <1>7, <1>8, <1>9 DEF TypeOK, committed

(* The kinds of entities whose views hold links. *)
Linked == Session \cup Hypothesis \cup Experiment \cup Branch \cup Attempt

LEMMA LinkTargetsTyped ==
  ASSUME NEW e \in Entry, EntityFitsKey(e)
  PROVE  /\ LinkTargets(e) \subseteq Linked
         /\ LinkTargets(e) # {} => e.key \in Entity
<1>a. e.draft \in Drafts /\ EntityFitsKey(e) /\ (e.key = None <=> e.draft.type = "AccountingRecorded")
  BY DEF Entry, EntityFitsKey
<1>1. CASE e.draft.type = "HypothesisDeclared"
  <2>1. e.key \in Hypothesis
    BY <1>1, <1>a, DraftBodies DEF EntityFitsKey, HypothesisBody
  <2>2. e.entity \in HypothesisView
    BY <1>1, <2>1, <1>a DEF EntityFitsKey, ViewOf
  <2> QED
    BY <1>1, <2>1, <2>2 DEF LinkTargets, Linked, HypothesisView, Entity, Subject
<1>2. CASE e.draft.type = "ExperimentDeclared"
  <2>1. e.key \in Experiment
    BY <1>2, <1>a, DraftBodies DEF EntityFitsKey, ExperimentBody
  <2>2. e.entity \in ExperimentView
    BY <1>2, <2>1, <1>a DEF EntityFitsKey, ViewOf
  <2> QED
    BY <1>2, <2>1, <2>2 DEF LinkTargets, Linked, ExperimentView, Entity, Subject
<1>3. CASE e.draft.type = "AttemptStarted"
  <2>1. e.key \in Attempt
    BY <1>3, <1>a, DraftBodies DEF EntityFitsKey, AttemptBody
  <2>2. e.entity \in AttemptView
    BY <1>3, <2>1, <1>a DEF EntityFitsKey, ViewOf
  <2> QED
    BY <1>3, <2>1, <2>2 DEF LinkTargets, Linked, AttemptView, Entity, Subject
<1>4. CASE e.draft.type = "ModelCallRecorded"
  <2>1. e.key \in ModelCall
    BY <1>4, <1>a, DraftBodies DEF EntityFitsKey, ModelCallBody
  <2>2. e.entity \in ModelCallView
    BY <1>4, <2>1, <1>a DEF EntityFitsKey, ViewOf
  <2> QED
    BY <1>4, <2>1, <2>2 DEF LinkTargets, Linked, ModelCallView, Entity, Subject
<1>5. CASE e.draft.type = "ToolCallRecorded"
  <2>1. e.key \in ToolCall
    BY <1>5, <1>a, DraftBodies DEF EntityFitsKey, ToolCallBody
  <2>2. e.entity \in ToolCallView
    BY <1>5, <2>1, <1>a DEF EntityFitsKey, ViewOf
  <2> QED
    BY <1>5, <2>1, <2>2 DEF LinkTargets, Linked, ToolCallView, Entity, Subject
<1>6. CASE e.draft.type = "ObservationRecorded"
  <2>1. e.key \in Observation
    BY <1>6, <1>a, DraftBodies DEF EntityFitsKey, ObservationBody
  <2>2. e.entity \in ObservationView
    BY <1>6, <2>1, <1>a DEF EntityFitsKey, ViewOf
  <2> QED
    BY <1>6, <2>1, <2>2 DEF LinkTargets, Linked, ObservationView, Entity, Subject
<1>7. CASE e.draft.type = "ResultDeclared"
  <2>1. e.key \in Result
    BY <1>7, <1>a, DraftBodies DEF EntityFitsKey, ResultBody
  <2>2. e.entity \in ResultView
    BY <1>7, <2>1, <1>a DEF EntityFitsKey, ViewOf
  <2> QED
    BY <1>7, <2>1, <2>2 DEF LinkTargets, Linked, ResultView, Entity, Subject
<1>8. CASE e.draft.type \notin { "HypothesisDeclared", "ExperimentDeclared",
          "AttemptStarted", "ModelCallRecorded", "ToolCallRecorded",
          "ObservationRecorded", "ResultDeclared" }
  BY <1>8 DEF LinkTargets
<1> QED BY <1>1, <1>2, <1>3, <1>4, <1>5, <1>6, <1>7, <1>8

LEMMA LinkingKeepsKind ==
  ASSUME NEW x \in Linked, NEW v, ViewOf(x, v), NEW key \in Entity
  PROVE  ViewOf(x, [ v EXCEPT !.links = @ \cup { key } ])
<1> DEFINE w == [ v EXCEPT !.links = @ \cup { key } ]
<1>1. CASE x \in Session
  <2>1. v \in SessionView BY <1>1 DEF ViewOf
  <2>2. w \in SessionView BY <2>1 DEF SessionView
  <2> QED BY <1>1, <2>2, ViewFits
<1>2. CASE x \in Hypothesis
  <2>1. v \in HypothesisView BY <1>2 DEF ViewOf
  <2>2. w \in HypothesisView BY <2>1 DEF HypothesisView
  <2> QED BY <1>2, <2>2, ViewFits
<1>3. CASE x \in Experiment
  <2>1. v \in ExperimentView BY <1>3 DEF ViewOf
  <2>2. w \in ExperimentView BY <2>1 DEF ExperimentView
  <2> QED BY <1>3, <2>2, ViewFits
<1>4. CASE x \in Branch
  <2>1. v \in BranchView BY <1>4 DEF ViewOf
  <2>2. w \in BranchView BY <2>1 DEF BranchView
  <2> QED BY <1>4, <2>2, ViewFits
<1>5. CASE x \in Attempt
  <2>1. v \in AttemptView BY <1>5 DEF ViewOf
  <2>2. w \in AttemptView BY <2>1 DEF AttemptView
  <2> QED BY <1>5, <2>2, ViewFits
<1> QED BY <1>1, <1>2, <1>3, <1>4, <1>5 DEF Linked

(* Applying one entry, whoever does it. *)
LEMMA EnteringKeepsTypes ==
  ASSUME TypeOK, NEW e \in Entry, EntityFitsKey(e), Apply(e)
  PROVE  /\ records' \in Seq(Record)
         /\ subject_index' \in [ Subject -> Opt(Session) ]
         /\ DOMAIN view' = Entity
         /\ \A x \in Entity : view'[x] # None => ViewOf(x, view'[x])
         /\ children' \in [ Entity -> SUBSET Entity ]
         /\ invalidated_at' \in [ Artifact -> Nat ]
<1>1. /\ e.draft \in Drafts /\ e.record_id \in RecordId \cup Nat
      /\ e.subject \in Subject /\ e.session \in Session
      /\ e.key \in Opt(Entity)
  BY DEF Entry
<1>2. records' \in Seq(Record)
  BY <1>1 DEF TypeOK, Apply, Record
<1>3. subject_index' \in [ Subject -> Opt(Session) ]
  BY <1>1 DEF TypeOK, Apply, Opt
<1>4. /\ DOMAIN view' = Entity
      /\ \A x \in Entity : view'[x] # None => ViewOf(x, view'[x])
  <2>1. view' = AppliedView(e)
    BY DEF Apply
  <2>2. SUFFICES ASSUME NEW x \in Entity, view'[x] # None
                 PROVE  ViewOf(x, view'[x])
    BY <2>1 DEF AppliedView
  <2>3. CASE x = e.key
    BY <2>1, <2>3, NoneAssumption DEF AppliedView, EntityFitsKey
  <2>4. CASE x # e.key /\ x \in LinkTargets(e) /\ view[x] # None
    <3>1. x \in Linked /\ e.key \in Entity
      BY <2>4, LinkTargetsTyped
    <3>2. ViewOf(x, view[x])
      BY <2>4 DEF TypeOK
    <3>3. view'[x] = [ view[x] EXCEPT !.links = @ \cup { e.key } ]
      BY <2>1, <2>4 DEF AppliedView
    <3> QED BY <3>1, <3>2, <3>3, LinkingKeepsKind
  <2>5. CASE x # e.key /\ ~(x \in LinkTargets(e) /\ view[x] # None)
    BY <2>1, <2>2, <2>5 DEF AppliedView, TypeOK
  <2> QED BY <2>3, <2>4, <2>5
<1>5. children' \in [ Entity -> SUBSET Entity ]
  <2>1. ListOwners(e) # {} => e.key \in Entity
    BY <1>1 DEF ListOwners, EntityFitsKey, Opt
  <2> QED BY <2>1 DEF TypeOK, Apply
<1>6. invalidated_at' \in [ Artifact -> Nat ]
  <2>1. Len(records) + 1 \in Nat
    BY DEF TypeOK
  <2> QED BY <2>1 DEF TypeOK, Apply
<1> QED BY <1>2, <1>3, <1>4, <1>5, <1>6

LEMMA ApplyKeepsTypes ==
  ASSUME TypeOK, ApplyNext
  PROVE  TypeOK'
<1> DEFINE e == Head(staged)
<1>1. /\ staged # << >>
      /\ staged' = Tail(staged)
      /\ Apply(e)
      /\ UNCHANGED << latest, front, outcomes, phase >>
  BY DEF ApplyNext
<1>2. /\ e \in Entry /\ EntityFitsKey(e)
      /\ staged' \in Seq(Entry)
      /\ \A i \in DOMAIN staged' : EntityFitsKey(staged'[i])
  <2>1. staged \in Seq(Entry) /\ \A i \in DOMAIN staged : EntityFitsKey(staged[i])
    BY DEF TypeOK
  <2>2. e = staged[1] /\ 1 \in DOMAIN staged
    BY <1>1, <2>1
  <2>3. Len(staged') = Len(staged) - 1
        /\ \A i \in 1 .. Len(staged) - 1 : staged'[i] = staged[i + 1]
    BY <1>1, <2>1
  <2>4. staged' \in Seq(Entry)
    BY <1>1, <2>1
  <2> QED BY <2>1, <2>2, <2>3, <2>4
<1> HIDE DEF e
<1>3. /\ records' \in Seq(Record)
      /\ subject_index' \in [ Subject -> Opt(Session) ]
      /\ DOMAIN view' = Entity
      /\ \A x \in Entity : view'[x] # None => ViewOf(x, view'[x])
      /\ children' \in [ Entity -> SUBSET Entity ]
      /\ invalidated_at' \in [ Artifact -> Nat ]
  BY <1>1, <1>2, EnteringKeepsTypes
<1> QED BY <1>1, <1>2, <1>3 DEF TypeOK

LEMMA OtherStepsKeepTypes ==
  ASSUME TypeOK,
         \/ Commit \/ Finish \/ UNCHANGED vars
         \/ \E d \in Drafts : RecognizeRepeat(d) \/ Reject(d)
  PROVE  TypeOK'
<1>1. CASE Commit
  BY <1>1 DEF TypeOK, Commit, committed, batch
<1>2. CASE Finish
  BY <1>2 DEF TypeOK, Finish, DropBatch, NothingStaged, NowhereStaged,
     committed, Opt
<1>3. CASE UNCHANGED vars
  BY <1>3 DEF TypeOK, vars, committed, batch
<1>4. ASSUME NEW d \in Drafts, Reject(d)
      PROVE  TypeOK'
  BY <1>4 DEF TypeOK, Reject, DropBatch, NothingStaged, NowhereStaged,
     committed, Opt
<1>5. ASSUME NEW d \in Drafts, RecognizeRepeat(d)
      PROVE  TypeOK'
  <2>1. PICK n \in SequencesOf(d.record_id) :
          outcomes' = Append(outcomes,
                             [ sequence |-> n, state |-> "Duplicate" ])
    BY <1>5 DEF RecognizeRepeat
  <2>2. n \in Nat
    BY <2>1 DEF SequencesOf, SequencesInHistory, TypeOK
  <2>3. outcomes' \in Seq(Outcome)
    BY <2>1, <2>2 DEF TypeOK, Outcome
  <2> QED BY <1>5, <2>3 DEF RecognizeRepeat, TypeOK, committed
<1> QED BY <1>1, <1>2, <1>3, <1>4, <1>5

LEMMA StageNextKeepsTypes ==
  ASSUME TypeOK, NEW d \in Drafts, StageNext(d)
  PROVE  StagesTyped(d) /\ Stage(d) /\ TypeOK'
<1>1. CASE StageSessionOpened(d)
  BY <1>1, SessionOpenedTyped, StageKeepsTypes DEF StageSessionOpened
<1>2. CASE StageSessionClosed(d)
  BY <1>2, SessionClosedTyped, StageKeepsTypes DEF StageSessionClosed
<1>3. CASE StageSessionAnnotation(d)
  BY <1>3, SessionAnnotationTyped, StageKeepsTypes DEF StageSessionAnnotation
<1>4. CASE StageHypothesisDeclared(d)
  BY <1>4, HypothesisDeclaredTyped, StageKeepsTypes DEF StageHypothesisDeclared
<1>5. CASE StageHypothesisStatusChanged(d)
  BY <1>5, HypothesisStatusChangedTyped, StageKeepsTypes DEF StageHypothesisStatusChanged
<1>6. CASE StageExperimentDeclared(d)
  BY <1>6, ExperimentDeclaredTyped, StageKeepsTypes DEF StageExperimentDeclared
<1>7. CASE StageBranchDeclared(d)
  BY <1>7, BranchDeclaredTyped, StageKeepsTypes DEF StageBranchDeclared
<1>8. CASE StageAttemptStarted(d)
  BY <1>8, AttemptStartedTyped, StageKeepsTypes DEF StageAttemptStarted
<1>9. CASE StageAttemptEnded(d)
  BY <1>9, AttemptEndedTyped, StageKeepsTypes DEF StageAttemptEnded
<1>10. CASE StageModelCallRecorded(d)
  BY <1>10, ModelCallRecordedTyped, StageKeepsTypes DEF StageModelCallRecorded
<1>11. CASE StageToolCallRecorded(d)
  BY <1>11, ToolCallRecordedTyped, StageKeepsTypes DEF StageToolCallRecorded
<1>12. CASE StageArtifactReferenced(d)
  BY <1>12, ArtifactReferencedTyped, StageKeepsTypes DEF StageArtifactReferenced
<1>13. CASE StageArtifactInvalidated(d)
  BY <1>13, ArtifactInvalidatedTyped, StageKeepsTypes DEF StageArtifactInvalidated
<1>14. CASE StageMetricDeclared(d)
  BY <1>14, MetricDeclaredTyped, StageKeepsTypes DEF StageMetricDeclared
<1>15. CASE StageObservationRecorded(d)
  BY <1>15, ObservationRecordedTyped, StageKeepsTypes DEF StageObservationRecorded
<1>16. CASE StageFailureRecorded(d)
  BY <1>16, FailureRecordedTyped, StageKeepsTypes DEF StageFailureRecorded
<1>17. CASE StageDecisionRecorded(d)
  BY <1>17, DecisionRecordedTyped, StageKeepsTypes DEF StageDecisionRecorded
<1>18. CASE StageResultDeclared(d)
  BY <1>18, ResultDeclaredTyped, StageKeepsTypes DEF StageResultDeclared
<1>19. CASE StageResultStatusChanged(d)
  BY <1>19, ResultStatusChangedTyped, StageKeepsTypes DEF StageResultStatusChanged
<1>20. CASE StageAccountingRecorded(d)
  BY <1>20, AccountingRecordedTyped, StageKeepsTypes DEF StageAccountingRecorded
<1> QED BY <1>1, <1>2, <1>3, <1>4, <1>5, <1>6, <1>7, <1>8, <1>9, <1>10, <1>11, <1>12, <1>13, <1>14, <1>15, <1>16, <1>17, <1>18, <1>19, <1>20 DEF StageNext

(* Type correctness: whatever batches are validated, dropped or applied,    *)
(* every index holds views of the kind its identity domain calls for, and   *)
(* apply_staged_entity finds in every staged entry the view it asks for.    *)
THEOREM TypeCorrect == Spec => []TypeOK
<1>1. Init => TypeOK
  BY DEF Init, TypeOK, NothingStaged, NowhereStaged, Opt, EntityFitsKey
<1>2. TypeOK /\ [Next]_vars => TypeOK'
  BY StageNextKeepsTypes, ApplyKeepsTypes, OtherStepsKeepTypes DEF Next
<1> QED BY <1>1, <1>2, PTL DEF Spec

-----------------------------------------------------------------------------
(***************************************************************************)
(* Two properties of the committed history, and that it is the history of   *)
(* AppendOnlyHistory.  Each property is made inductive by saying of the     *)
(* staged entries what must hold once they are applied behind the records   *)
(* there are.                                                               *)
(***************************************************************************)

(* How a step moves the history: a step either stages one validated draft,  *)
(* or applies the oldest entry, or leaves the records and drops or keeps    *)
(* what is staged.                                                          *)
StagesOne ==
  \E d \in Drafts :
    /\ StageNext(d)
    /\ \E id : /\ id = IF d.record_id = None THEN Sequence ELSE d.record_id
               /\ staged' = Append(staged, StagedEntity(d, id))
    /\ ~IsRepeat(d)
    /\ records' = records

AppliesOne ==
  /\ staged # << >>
  /\ records' = Append(records, [ draft |-> Head(staged).draft,
                                  record_id |-> Head(staged).record_id,
                                  subject |-> Head(staged).subject,
                                  session |-> Head(staged).session ])
  /\ staged' = Tail(staged)

StagesNothing == records' = records /\ staged' \in { staged, << >> }

LEMMA StepShapes ==
  ASSUME TypeOK, [Next]_vars
  PROVE  StagesOne \/ AppliesOne \/ StagesNothing
<1>1. ASSUME NEW d \in Drafts, StageNext(d)
      PROVE  StagesOne
  <2>1. Stage(d)
    BY <1>1, StageNextKeepsTypes
  <2> QED BY <1>1, <2>1 DEF Stage, StagesOne, committed
<1>2. CASE ApplyNext
  BY <1>2 DEF ApplyNext, Apply, AppliesOne
<1>3. ASSUME NEW d \in Drafts, RecognizeRepeat(d) \/ Reject(d)
      PROVE  StagesNothing
  BY <1>3 DEF RecognizeRepeat, Reject, DropBatch, StagesNothing, committed
<1>4. CASE Commit \/ Finish \/ UNCHANGED vars
  BY <1>4 DEF Commit, Finish, DropBatch, StagesNothing, vars, committed, batch
<1> QED BY <1>1, <1>2, <1>3, <1>4 DEF Next

LEMMA SequencesOfTheStep ==
  ASSUME TypeOK
  PROVE  /\ records \in Seq(Record) /\ staged \in Seq(Entry)
         /\ \A r \in Record :
              /\ Append(records, r) \in Seq(Record)
              /\ Len(Append(records, r)) = Len(records) + 1
              /\ \A i \in 1 .. Len(records) + 1 :
                   Append(records, r)[i] =
                     IF i <= Len(records) THEN records[i] ELSE r
         /\ \A e \in Entry :
              /\ Len(Append(staged, e)) = Len(staged) + 1
              /\ \A i \in 1 .. Len(staged) + 1 :
                   Append(staged, e)[i] =
                     IF i <= Len(staged) THEN staged[i] ELSE e
         /\ staged # << >> =>
              /\ Len(staged) >= 1 /\ Head(staged) = staged[1]
              /\ Head(staged) \in Entry
              /\ Len(Tail(staged)) = Len(staged) - 1
              /\ \A i \in 1 .. Len(staged) - 1 :
                   Tail(staged)[i] = staged[i + 1]
<1>1. records \in Seq(Record) /\ staged \in Seq(Entry)
  BY DEF TypeOK
<1>2. ASSUME NEW r \in Record
      PROVE  /\ Append(records, r) \in Seq(Record)
             /\ Len(Append(records, r)) = Len(records) + 1
             /\ \A i \in 1 .. Len(records) + 1 :
                  Append(records, r)[i] =
                    IF i <= Len(records) THEN records[i] ELSE r
  BY <1>1, <1>2
<1>3. ASSUME NEW e \in Entry
      PROVE  /\ Len(Append(staged, e)) = Len(staged) + 1
             /\ \A i \in 1 .. Len(staged) + 1 :
                  Append(staged, e)[i] =
                    IF i <= Len(staged) THEN staged[i] ELSE e
  BY <1>1, <1>3
<1>4. ASSUME staged # << >>
      PROVE  /\ Len(staged) >= 1 /\ Head(staged) = staged[1]
             /\ Head(staged) \in Entry
             /\ Len(Tail(staged)) = Len(staged) - 1
             /\ \A i \in 1 .. Len(staged) - 1 :
                  Tail(staged)[i] = staged[i + 1]
  BY <1>1, <1>4
<1> QED BY <1>1, <1>2, <1>3, <1>4

LEMMA AppliedRecord ==
  ASSUME TypeOK, AppliesOne
  PROVE  /\ records' \in Seq(Record)
         /\ Len(records') = Len(records) + 1
         /\ \A i \in 1 .. Len(records) : records'[i] = records[i]
         /\ records'[Len(records) + 1].draft = staged[1].draft
         /\ records'[Len(records) + 1].record_id = staged[1].record_id
         /\ Len(staged) >= 1 /\ Len(staged') = Len(staged) - 1
         /\ \A i \in 1 .. Len(staged) - 1 : staged'[i] = staged[i + 1]
<1> DEFINE r == [ draft |-> Head(staged).draft,
                  record_id |-> Head(staged).record_id,
                  subject |-> Head(staged).subject,
                  session |-> Head(staged).session ]
<1>1. r \in Record
  BY SequencesOfTheStep DEF AppliesOne, Entry, Record
<1>2. records' = Append(records, r) /\ r.draft = Head(staged).draft
      /\ r.record_id = Head(staged).record_id
  BY DEF AppliesOne
<1> HIDE DEF r
<1>3. Len(records) \in Nat
  BY SequencesOfTheStep
<1> QED BY <1>1, <1>2, <1>3, SequencesOfTheStep DEF AppliesOne

-----------------------------------------------------------------------------
(* Evidence *)

EvidenceInv ==
  /\ EvidencePrecedesDecision
  /\ \A i \in DOMAIN staged : CitesCommitted(staged[i].draft, Len(records))

LEMMA ValidatedCites ==
  ASSUME TypeOK, NEW d \in Drafts, StageNext(d)
  PROVE  CitesCommitted(d, Len(records))
<1>1. SUFFICES ASSUME d.type = "DecisionRecorded"
               PROVE  \A e \in d.body.evidence :
                        /\ e.sequence \in 1 .. Len(records)
                        /\ records[e.sequence].subject = e.subject
  BY DEF CitesCommitted
<1>2. DecisionRecordedOK(d)
  BY <1>1 DEF StageNext, Drafted, TerminalType, TerminalState,
     StageSessionOpened, StageSessionClosed, StageSessionAnnotation,
     StageHypothesisDeclared, StageHypothesisStatusChanged,
     StageExperimentDeclared, StageBranchDeclared, StageAttemptStarted,
     StageAttemptEnded, StageModelCallRecorded, StageToolCallRecorded,
     StageArtifactReferenced, StageArtifactInvalidated, StageMetricDeclared,
     StageObservationRecorded, StageFailureRecorded, StageDecisionRecorded,
     StageResultDeclared, StageResultStatusChanged, StageAccountingRecorded,
     SessionOpenedOK, SessionClosedOK, SessionAnnotationOK,
     HypothesisDeclaredOK, HypothesisStatusChangedOK, ExperimentDeclaredOK,
     BranchDeclaredOK, AttemptStartedOK, AttemptEndedOK,
     ModelCallRecordedOK, ToolCallRecordedOK, ArtifactReferencedOK,
     ArtifactInvalidatedOK, MetricDeclaredOK, ObservationRecordedOK,
     FailureRecordedOK, ResultDeclaredOK, ResultStatusChangedOK,
     AccountingRecordedOK
<1> QED BY <1>2 DEF DecisionRecordedOK, EvidenceOK

LEMMA EvidenceStep ==
  ASSUME TypeOK, EvidenceInv, [Next]_vars
  PROVE  EvidenceInv'
<1>1. CASE StagesOne
  <2>1. PICK d \in Drafts : 
          /\ StageNext(d)
          /\ \E id : /\ id = IF d.record_id = None THEN Sequence ELSE d.record_id
                     /\ staged' = Append(staged, StagedEntity(d, id))
          /\ records' = records
    BY <1>1 DEF StagesOne
  <2>2. PICK id : /\ id = IF d.record_id = None THEN Sequence ELSE d.record_id
                  /\ staged' = Append(staged, StagedEntity(d, id))
    BY <2>1
  <2>3. id \in RecordId \cup Nat
    BY <2>2, DraftHeader, SequenceIsNat DEF Opt
  <2>4. StagedEntity(d, id) \in Entry /\ StagedEntity(d, id).draft = d
    BY <2>1, <2>3, StageNextKeepsTypes, TypedEntry DEF StagedEntity
  <2>5. CitesCommitted(d, Len(records))
    BY <2>1, ValidatedCites
  <2>6. \A i \in DOMAIN staged' : CitesCommitted(staged'[i].draft, Len(records))
    BY <2>2, <2>4, <2>5, SequencesOfTheStep DEF EvidenceInv
  <2> QED BY <2>1, <2>6 DEF EvidenceInv, EvidencePrecedesDecision,
          CitesCommitted
<1>2. CASE AppliesOne
  <2>0. Len(records) \in Nat /\ DOMAIN records = 1 .. Len(records)
        /\ Len(staged) \in Nat /\ DOMAIN staged = 1 .. Len(staged)
        /\ DOMAIN staged' = 1 .. Len(staged) - 1
        /\ DOMAIN records' = 1 .. Len(records) + 1
        /\ Len(records') = Len(records) + 1
    BY <1>2, SequencesOfTheStep, AppliedRecord DEF AppliesOne
  <2>2. ASSUME NEW i \in DOMAIN records'
        PROVE  CitesCommitted(records[i].draft, i - 1)'
    <3>1. CASE i \in 1 .. Len(records)
      <4>1. CitesCommitted(records[i].draft, i - 1)
        BY <3>1, <2>0 DEF EvidenceInv, EvidencePrecedesDecision
      <4>2. records'[i] = records[i]
        BY <1>2, <3>1, AppliedRecord
      <4>3. SUFFICES ASSUME records[i].draft.type = "DecisionRecorded",
                            NEW e \in records[i].draft.body.evidence
                     PROVE  /\ e.sequence \in 1 .. i - 1
                            /\ records'[e.sequence].subject = e.subject
        BY <4>2 DEF CitesCommitted
      <4>4. /\ e.sequence \in 1 .. i - 1
            /\ records[e.sequence].subject = e.subject
        BY <4>1, <4>3 DEF CitesCommitted
      <4>5. e.sequence \in 1 .. Len(records)
        BY <4>4, <3>1, <2>0
      <4> QED BY <4>4, <4>5, <1>2, AppliedRecord
    <3>2. CASE i = Len(records) + 1
      <4>1. CitesCommitted(staged[1].draft, Len(records))
        BY <1>2, <2>0, AppliedRecord DEF EvidenceInv
      <4>2. records'[i].draft = staged[1].draft /\ i - 1 = Len(records)
        BY <1>2, <3>2, <2>0, AppliedRecord
      <4> QED BY <4>1, <4>2, <2>0, <1>2, AppliedRecord
              DEF CitesCommitted
    <3> QED BY <2>0, <2>2, <3>1, <3>2
  <2>3. ASSUME NEW i \in DOMAIN staged'
        PROVE  CitesCommitted(staged[i].draft, Len(records))'
    <3>1. CitesCommitted(staged[i + 1].draft, Len(records))
      BY <2>0 DEF EvidenceInv
    <3>2. staged'[i] = staged[i + 1]
      BY <1>2, <2>0, AppliedRecord
    <3> QED BY <3>1, <3>2, <2>0, <1>2, AppliedRecord DEF CitesCommitted
  <2> QED BY <2>2, <2>3 DEF EvidenceInv, EvidencePrecedesDecision
<1>3. CASE StagesNothing
  BY <1>3 DEF StagesNothing, EvidenceInv, EvidencePrecedesDecision,
     CitesCommitted
<1> QED BY <1>1, <1>2, <1>3, StepShapes

(* No decision ever cites a record at or after its own sequence, or one     *)
(* that does not concern the cited subject, whatever batches it was part of *)
(* and whatever is staged beside it.                                        *)
THEOREM EvidenceNeverLate == Spec => []EvidencePrecedesDecision
<1>1. Init => EvidenceInv
  BY DEF Init, EvidenceInv, EvidencePrecedesDecision
<1>2. EvidenceInv => EvidencePrecedesDecision
  BY DEF EvidenceInv
<1> QED BY <1>1, <1>2, TypeCorrect, EvidenceStep, PTL DEF Spec

-----------------------------------------------------------------------------
(* Record identities.  A derived identity is the sequence its record will   *)
(* have, so it can only meet itself.                                        *)

(* The history with the staged entries behind it: its length, and the       *)
(* identities at its positions.                                             *)
Extended == Len(records) + Len(staged)

Ids ==
  [ n \in 1 .. Extended |->
      IF n <= Len(records) THEN records[n].record_id
      ELSE staged[n - Len(records)].record_id ]

RecordIdsInv ==
  /\ \A i, j \in 1 .. Extended : Ids[i] = Ids[j] => i = j
  /\ \A i \in 1 .. Extended : Ids[i] \in Nat => Ids[i] = i

(* The identity a draft is staged under is new, in the history and among    *)
(* the staged entries.                                                      *)
LEMMA StagedIdIsNew ==
  ASSUME TypeOK, RecordIdsInv, NEW d \in Drafts, ~IsRepeat(d), NEW id,
         id = IF d.record_id = None THEN Sequence ELSE d.record_id
  PROVE  /\ id \in Nat => id = Extended + 1
         /\ \A i \in 1 .. Extended : Ids[i] # id
<1>0. Len(records) \in Nat /\ Len(staged) \in Nat
  BY SequencesOfTheStep
<1>1. CASE d.record_id = None
  <2>1. id = Extended + 1 /\ id \in Nat
    BY <1>0, <1>1 DEF Sequence, Extended
  <2> QED BY <1>0, <2>1 DEF RecordIdsInv, Extended
<1>2. CASE d.record_id # None
  <2>1. id = d.record_id /\ id \in RecordId
    BY <1>2, DraftHeader DEF Opt
  <2>2. id \notin Nat
    BY <2>1, RecordIdAssumption
  <2>3. SequencesOf(id) = {}
    BY <1>2, <2>1 DEF IsRepeat
  <2>4. ASSUME NEW i \in 1 .. Extended, Ids[i] = id
        PROVE  FALSE
    <3>1. CASE i <= Len(records)
      <4>1. i \in 1 .. Len(records) /\ records[i].record_id = id
        BY <2>4, <3>1, <1>0 DEF Ids, Extended
      <4> QED BY <2>3, <4>1 DEF SequencesOf, SequencesInHistory
    <3>2. CASE i > Len(records)
      <4> DEFINE m == i - Len(records)
      <4>1. /\ m \in 1 .. Len(staged) /\ staged[m].record_id = id
            /\ i = Len(records) + m
        BY <2>4, <3>2, <1>0 DEF Ids, Extended
      <4>2. i \in SequencesOf(id)
        BY <4>1 DEF SequencesOf, SequencesInHistory
      <4> QED BY <2>3, <4>2
    <3> QED BY <1>0, <3>1, <3>2 DEF Extended
  <2> QED BY <2>2, <2>4
<1> QED BY <1>1, <1>2

LEMMA RecordIdsStep ==
  ASSUME TypeOK, RecordIdsInv, [Next]_vars
  PROVE  RecordIdsInv'
<1>0. Len(records) \in Nat /\ Len(staged) \in Nat
  BY SequencesOfTheStep
<1>1. CASE StagesOne
  <2>1. PICK d \in Drafts :
          /\ StageNext(d)
          /\ \E id : /\ id = IF d.record_id = None THEN Sequence
                            ELSE d.record_id
                     /\ staged' = Append(staged, StagedEntity(d, id))
          /\ ~IsRepeat(d)
          /\ records' = records
    BY <1>1 DEF StagesOne
  <2>2. PICK id : /\ id = IF d.record_id = None THEN Sequence
                         ELSE d.record_id
                  /\ staged' = Append(staged, StagedEntity(d, id))
    BY <2>1
  <2>3. id \in RecordId \cup Nat
    BY <2>2, DraftHeader, SequenceIsNat DEF Opt
  <2>4. StagedEntity(d, id) \in Entry /\ StagedEntity(d, id).record_id = id
    BY <2>1, <2>3, StageNextKeepsTypes, TypedEntry DEF StagedEntity
  <2>5. /\ id \in Nat => id = Extended + 1
        /\ \A i \in 1 .. Extended : Ids[i] # id
    BY <2>1, <2>2, StagedIdIsNew
  <2>6. /\ Extended' = Extended + 1
        /\ \A i \in 1 .. Extended : Ids'[i] = Ids[i]
        /\ Ids'[Extended + 1] = id
    <3>1. /\ Len(staged') = Len(staged) + 1
          /\ \A i \in 1 .. Len(staged) : staged'[i] = staged[i]
          /\ staged'[Len(staged) + 1].record_id = id
      BY <1>0, <2>2, <2>4, SequencesOfTheStep
    <3>2. Len(records') = Len(records) /\ records' = records
      BY <2>1
    <3>3. Extended' = Extended + 1
      BY <1>0, <3>1, <3>2 DEF Extended
    <3>4. ASSUME NEW i \in 1 .. Extended
          PROVE  Ids'[i] = Ids[i]
      BY <1>0, <3>1, <3>2, <3>4 DEF Ids, Extended
    <3>5. Ids'[Extended + 1] = id
      BY <1>0, <3>1, <3>2, <3>3 DEF Ids, Extended
    <3> QED BY <3>3, <3>4, <3>5
  <2>7. Extended \in Nat
    BY <1>0 DEF Extended
  <2>8. ASSUME NEW i \in 1 .. Extended + 1
        PROVE  \/ i \in 1 .. Extended /\ Ids'[i] = Ids[i]
               \/ i = Extended + 1 /\ Ids'[i] = id
    BY <2>6, <2>7, <2>8
  <2>9. ASSUME NEW i \in 1 .. Extended + 1, NEW j \in 1 .. Extended + 1,
               Ids'[i] = Ids'[j]
        PROVE  i = j
    BY <2>5, <2>8, <2>9 DEF RecordIdsInv
  <2>10. ASSUME NEW i \in 1 .. Extended + 1, Ids'[i] \in Nat
         PROVE  Ids'[i] = i
    BY <2>5, <2>8, <2>10 DEF RecordIdsInv
  <2> QED BY <2>6, <2>9, <2>10 DEF RecordIdsInv
<1>2. CASE AppliesOne
  <2>1. /\ Len(records') = Len(records) + 1 /\ Len(staged) >= 1
        /\ Len(staged') = Len(staged) - 1
        /\ \A i \in 1 .. Len(records) : records'[i] = records[i]
        /\ records'[Len(records) + 1].record_id = staged[1].record_id
        /\ \A i \in 1 .. Len(staged) - 1 : staged'[i] = staged[i + 1]
    BY <1>2, AppliedRecord
  <2>2. Extended' = Extended
    BY <1>0, <2>1 DEF Extended
  <2>3. ASSUME NEW i \in 1 .. Extended
        PROVE  Ids'[i] = Ids[i]
    <3>1. CASE i <= Len(records)
      BY <1>0, <2>1, <2>2, <3>1 DEF Ids, Extended
    <3>2. CASE i = Len(records) + 1
      BY <1>0, <2>1, <2>2, <3>2 DEF Ids, Extended
    <3>3. CASE i > Len(records) + 1
      <4>1. staged'[i - Len(records')] = staged[i - Len(records)]
        <5> DEFINE k == i - (Len(records) + 1)
        <5>1. k \in 1 .. Len(staged) - 1
          BY <1>0, <2>1, <3>3 DEF Extended
        <5>2. staged'[k] = staged[k + 1]
          BY <2>1, <5>1
        <5>3. k = i - Len(records') /\ k + 1 = i - Len(records)
          BY <1>0, <2>1
        <5> QED BY <5>2, <5>3
      <4> QED BY <1>0, <2>1, <2>2, <3>3, <4>1 DEF Ids, Extended
    <3> QED BY <1>0, <3>1, <3>2, <3>3 DEF Extended
  <2> QED BY <2>2, <2>3 DEF RecordIdsInv
<1>3. CASE StagesNothing
  <2>1. Extended' <= Extended /\ Extended' \in Nat
        /\ \A i \in 1 .. Extended' : Ids'[i] = Ids[i]
    BY <1>0, <1>3 DEF StagesNothing, Ids, Extended
  <2> QED BY <1>0, <2>1 DEF RecordIdsInv, Extended
<1> QED BY <1>1, <1>2, <1>3, StepShapes

(* No record identity is ever committed twice: not by a retry, not by a     *)
(* repeat inside one batch, and not by an identity the ledger derives.      *)
THEOREM RecordIdsNeverRepeat == Spec => []RecordIdsUnique
<1>1. Init => RecordIdsInv
  BY DEF Init, RecordIdsInv, Extended
<1>2. TypeOK /\ RecordIdsInv => RecordIdsUnique
  BY SequencesOfTheStep DEF RecordIdsInv, RecordIdsUnique, Ids, Extended
<1> QED BY <1>1, <1>2, TypeCorrect, RecordIdsStep, PTL DEF Spec

-----------------------------------------------------------------------------
(* The append-only history.  A batch becomes history when it is committed;  *)
(* until then its outcomes must already say what will have been added:      *)
(* those of new records are the positions behind the history, in order, and *)
(* those of repeats are positions of the identity that was repeated.        *)

Additions == { k \in DOMAIN outcomes : outcomes[k].state = "Validated" }

NumbersTheBatch ==
  /\ \A k \in Additions :
       outcomes[k].sequence \in Len(records) + 1 .. Extended
  /\ \A n \in Len(records) + 1 .. Extended :
       \E k \in Additions : outcomes[k].sequence = n
  /\ \A k, l \in Additions : k < l => outcomes[k].sequence < outcomes[l].sequence

PointsAtRepeats ==
  \A k \in DOMAIN outcomes \ Additions :
    /\ outcomes[k].sequence \in 1 .. Extended
    /\ Ids[outcomes[k].sequence] \in RecordId

OutcomesInv ==
  /\ phase = "validating" => NumbersTheBatch /\ PointsAtRepeats
  /\ phase = "applying" => outcomes # << >>

LEMMA AddedOutcome ==
  ASSUME TypeOK, NEW o \in Outcome
  PROVE  /\ Len(outcomes) \in Nat /\ DOMAIN outcomes = 1 .. Len(outcomes)
         /\ DOMAIN Append(outcomes, o) = 1 .. Len(outcomes) + 1
         /\ \A k \in 1 .. Len(outcomes) : Append(outcomes, o)[k] = outcomes[k]
         /\ Append(outcomes, o)[Len(outcomes) + 1] = o
<1>1. outcomes \in Seq(Outcome)
  BY DEF TypeOK
<1> QED BY <1>1

(* An entry that is staged takes the position behind the history and the    *)
(* batch so far, and moves no identity.                                     *)
LEMMA StagingExtends ==
  ASSUME TypeOK, NEW d \in Drafts, StageNext(d)
  PROVE  /\ Extended \in Nat /\ Extended' = Extended + 1
         /\ \A i \in 1 .. Extended : Ids'[i] = Ids[i]
         /\ outcomes' = Append(outcomes, [ sequence |-> Extended + 1,
                                           state |-> "Validated" ])
         /\ Len(records) \in Nat /\ Len(records) <= Extended
         /\ records' = records /\ phase = "validating" /\ phase' = phase
<1>1. Len(records) \in Nat /\ Len(staged) \in Nat
  BY SequencesOfTheStep
<1>2. Stage(d) /\ StagesTyped(d)
  BY StageNextKeepsTypes
<1> DEFINE id == IF d.record_id = None THEN Sequence ELSE d.record_id
<1>3. id \in RecordId \cup Nat
  BY DraftHeader, SequenceIsNat DEF Opt
<1>4. /\ staged' = Append(staged, StagedEntity(d, id))
      /\ outcomes' = Append(outcomes, [ sequence |-> Sequence,
                                        state |-> "Validated" ])
      /\ records' = records /\ phase = "validating" /\ phase' = phase
  BY <1>2 DEF Stage, committed
<1> HIDE DEF id
<1>5. StagedEntity(d, id) \in Entry
  BY <1>2, <1>3, TypedEntry
<1>6. /\ Len(staged') = Len(staged) + 1
      /\ \A i \in 1 .. Len(staged) : staged'[i] = staged[i]
  BY <1>1, <1>4, <1>5, SequencesOfTheStep
<1>7. Extended \in Nat /\ Extended' = Extended + 1 /\ Sequence = Extended + 1
      /\ Len(records) <= Extended
  BY <1>1, <1>4, <1>6 DEF Extended, Sequence
<1>8. \A i \in 1 .. Extended : Ids'[i] = Ids[i]
  BY <1>1, <1>4, <1>6 DEF Ids, Extended
<1> QED BY <1>1, <1>4, <1>7, <1>8

LEMMA StagingKeepsOutcomes ==
  ASSUME TypeOK, OutcomesInv, NEW d \in Drafts, StageNext(d)
  PROVE  OutcomesInv'
<1> DEFINE o == [ sequence |-> Extended + 1, state |-> "Validated" ]
           m == Len(outcomes) + 1
<1>1. /\ Extended \in Nat /\ Extended' = Extended + 1
      /\ \A i \in 1 .. Extended : Ids'[i] = Ids[i]
      /\ outcomes' = Append(outcomes, o)
      /\ Len(records) \in Nat /\ Len(records) <= Extended
      /\ records' = records /\ phase = "validating" /\ phase' = phase
  BY StagingExtends
<1>2. o \in Outcome /\ o.sequence = Extended + 1 /\ o.state = "Validated"
  BY <1>1 DEF Outcome
<1> HIDE DEF o
<1>3. /\ Len(outcomes) \in Nat /\ DOMAIN outcomes = 1 .. Len(outcomes)
      /\ DOMAIN outcomes' = 1 .. m
      /\ \A k \in 1 .. Len(outcomes) : outcomes'[k] = outcomes[k]
      /\ outcomes'[m] = o
  BY <1>1, <1>2, AddedOutcome
<1>4. /\ Additions' = Additions \cup { m }
      /\ \A k \in Additions : k \in 1 .. Len(outcomes) /\ k < m
      /\ \A k \in Additions : outcomes'[k] = outcomes[k]
      /\ (DOMAIN outcomes \ Additions)' = DOMAIN outcomes \ Additions
      /\ \A k \in DOMAIN outcomes \ Additions : outcomes'[k] = outcomes[k]
  BY <1>2, <1>3 DEF Additions
<1>5. NumbersTheBatch /\ PointsAtRepeats
  BY <1>1 DEF OutcomesInv
<1>6. outcomes'[m].sequence = Extended + 1
  BY <1>2, <1>3
<1>7. NumbersTheBatch'
  <2>1. ASSUME NEW k \in Additions'
        PROVE  outcomes'[k].sequence \in Len(records') + 1 .. Extended'
    BY <1>1, <1>4, <1>5, <1>6, <2>1 DEF NumbersTheBatch
  <2>2. ASSUME NEW n \in Len(records') + 1 .. Extended'
        PROVE  \E k \in Additions' : outcomes'[k].sequence = n
    <3>1. CASE n = Extended + 1
      BY <1>4, <1>6, <3>1
    <3>2. CASE n # Extended + 1
      <4>1. n \in Len(records) + 1 .. Extended
        BY <1>1, <2>2, <3>2
      <4> QED BY <1>4, <1>5, <4>1 DEF NumbersTheBatch
    <3> QED BY <3>1, <3>2
  <2>3. ASSUME NEW k \in Additions', NEW l \in Additions', k < l
        PROVE  outcomes'[k].sequence < outcomes'[l].sequence
    <3>1. k \in Additions
      BY <1>3, <1>4, <2>3
    <3>2. CASE l = m
      BY <1>1, <1>4, <1>5, <1>6, <3>1, <3>2 DEF NumbersTheBatch
    <3>3. CASE l \in Additions
      BY <1>4, <1>5, <2>3, <3>1, <3>3 DEF NumbersTheBatch
    <3> QED BY <1>4, <3>2, <3>3
  <2> QED BY <2>1, <2>2, <2>3 DEF NumbersTheBatch
<1>8. PointsAtRepeats'
  BY <1>1, <1>4, <1>5 DEF PointsAtRepeats
<1> QED BY <1>1, <1>7, <1>8 DEF OutcomesInv

(* An identity that is known has a position in the history or the batch.    *)
LEMMA KnownPositions ==
  ASSUME TypeOK, NEW id, NEW n \in SequencesOf(id)
  PROVE  n \in 1 .. Extended /\ Ids[n] = id
<1>1. Len(records) \in Nat /\ Len(staged) \in Nat
  BY SequencesOfTheStep
<1>2. CASE n \in SequencesInHistory(id)
  BY <1>1, <1>2 DEF SequencesInHistory, Ids, Extended
<1>3. CASE n \notin SequencesInHistory(id)
  <2>1. PICK m \in 1 .. Len(staged) :
          n = Len(records) + m /\ staged[m].record_id = id
    BY <1>3 DEF SequencesOf
  <2>2. n \in 1 .. Extended /\ ~(n <= Len(records)) /\ n - Len(records) = m
    BY <1>1, <2>1 DEF Extended
  <2> QED BY <2>1, <2>2 DEF Ids
<1> QED BY <1>2, <1>3

LEMMA RepeatKeepsOutcomes ==
  ASSUME TypeOK, OutcomesInv, NEW d \in Drafts, RecognizeRepeat(d)
  PROVE  OutcomesInv'
<1> DEFINE m == Len(outcomes) + 1
<1>1. PICK n \in SequencesOf(d.record_id) :
        outcomes' = Append(outcomes, [ sequence |-> n, state |-> "Duplicate" ])
  BY DEF RecognizeRepeat
<1>2. /\ records' = records /\ staged' = staged
      /\ phase = "validating" /\ phase' = phase
      /\ d.record_id \in RecordId
  BY DraftHeader DEF RecognizeRepeat, committed, Opt
<1>3. /\ Extended' = Extended /\ Ids' = Ids
      /\ Len(records) \in Nat /\ Extended \in Nat
  BY <1>2, SequencesOfTheStep DEF Extended, Ids
<1>4. n \in 1 .. Extended /\ Ids[n] \in RecordId
  BY <1>1, <1>2, KnownPositions
<1> DEFINE o == [ sequence |-> n, state |-> "Duplicate" ]
<1>5. o \in Outcome /\ o.sequence = n /\ o.state = "Duplicate"
  BY <1>3, <1>4 DEF Outcome
<1>6. outcomes' = Append(outcomes, o)
  BY <1>1
<1> HIDE DEF o
<1>7. /\ Len(outcomes) \in Nat /\ DOMAIN outcomes = 1 .. Len(outcomes)
      /\ DOMAIN outcomes' = 1 .. m
      /\ \A k \in 1 .. Len(outcomes) : outcomes'[k] = outcomes[k]
      /\ outcomes'[m] = o
  BY <1>5, <1>6, AddedOutcome
<1>8. /\ Additions' = Additions
      /\ \A k \in Additions : outcomes'[k] = outcomes[k]
      /\ (DOMAIN outcomes \ Additions)' = (DOMAIN outcomes \ Additions) \cup { m }
      /\ \A k \in DOMAIN outcomes \ Additions : outcomes'[k] = outcomes[k]
  BY <1>5, <1>7 DEF Additions
<1>9. NumbersTheBatch /\ PointsAtRepeats
  BY <1>2 DEF OutcomesInv
<1>10. NumbersTheBatch'
  BY <1>2, <1>3, <1>8, <1>9 DEF NumbersTheBatch
<1>11. PointsAtRepeats'
  BY <1>3, <1>4, <1>5, <1>7, <1>8, <1>9 DEF PointsAtRepeats
<1> QED BY <1>2, <1>10, <1>11 DEF OutcomesInv

LEMMA NoOutcomes ==
  ASSUME Len(records) \in Nat, staged = << >>, outcomes = << >>
  PROVE  NumbersTheBatch /\ PointsAtRepeats
  BY DEF NumbersTheBatch, PointsAtRepeats, Additions, Extended

LEMMA OutcomesStep ==
  ASSUME TypeOK, OutcomesInv, [Next]_vars
  PROVE  OutcomesInv'
<1>0. Len(records) \in Nat /\ phase \in { "validating", "applying" }
  BY SequencesOfTheStep DEF TypeOK
<1>1. ASSUME NEW d \in Drafts, Reject(d)
      PROVE  OutcomesInv'
  <2>1. /\ records' = records /\ staged' = << >> /\ outcomes' = << >>
        /\ phase' = "validating"
    BY <1>1 DEF Reject, DropBatch, committed
  <2>2. (NumbersTheBatch /\ PointsAtRepeats)'
    BY <1>0, <2>1 DEF NumbersTheBatch, PointsAtRepeats, Additions, Extended
  <2> QED BY <2>1, <2>2 DEF OutcomesInv
<1>2. CASE Commit
  BY <1>2 DEF Commit, OutcomesInv, batch
<1>3. CASE ApplyNext
  BY <1>3 DEF ApplyNext, OutcomesInv
<1>4. CASE Finish
  <2>1. /\ records' = records /\ staged' = << >> /\ outcomes' = << >>
        /\ phase' = "validating"
    BY <1>4 DEF Finish, DropBatch, committed
  <2>2. (NumbersTheBatch /\ PointsAtRepeats)'
    BY <1>0, <2>1 DEF NumbersTheBatch, PointsAtRepeats, Additions, Extended
  <2> QED BY <2>1, <2>2 DEF OutcomesInv
<1>5. CASE UNCHANGED vars
  BY <1>5 DEF vars, committed, batch, OutcomesInv, NumbersTheBatch,
     PointsAtRepeats, Additions, Extended, Ids
<1> QED BY <1>1, <1>2, <1>3, <1>4, <1>5, StagingKeepsOutcomes,
           RepeatKeepsOutcomes DEF Next

LEMMA OutcomesInit == Init => OutcomesInv
<1> SUFFICES ASSUME Init PROVE OutcomesInv
  OBVIOUS
<1>1. /\ records = << >> /\ staged = << >> /\ outcomes = << >>
      /\ phase = "validating"
  BY DEF Init
<1>2. Len(records) = 0
  BY <1>1
<1> QED BY <1>1, <1>2, NoOutcomes DEF OutcomesInv

-----------------------------------------------------------------------------
(* The history of a batch that is being applied is the same after each      *)
(* entry that is applied.                                                   *)

LEMMA StagedRecordsFrom ==
  ASSUME NEW e \in Seq(Entry)
  PROVE  LET es == [ i \in DOMAIN e |-> StagedRecord(e[i]) ] IN
         /\ es \in Seq(Record) /\ Len(es) = Len(e)
         /\ \A i \in 1 .. Len(e) : es[i] = StagedRecord(e[i])
<1>1. Len(e) \in Nat /\ DOMAIN e = 1 .. Len(e)
      /\ \A i \in 1 .. Len(e) : e[i] \in Entry
  OBVIOUS
<1>2. \A i \in 1 .. Len(e) : StagedRecord(e[i]) \in Record
  BY <1>1 DEF StagedRecord, Entry, Record
<1> DEFINE es == [ i \in DOMAIN e |-> StagedRecord(e[i]) ]
<1>3. es \in [ 1 .. Len(e) -> Record ]
  BY <1>1, <1>2
<1>4. \A i \in 1 .. Len(e) : es[i] = StagedRecord(e[i])
  BY <1>1
<1> HIDE DEF es
<1>5. es \in Seq(Record) /\ Len(es) = Len(e)
  BY <1>1, <1>3
<1> QED BY <1>4, <1>5 DEF es

LEMMA StagedRecordsAre ==
  ASSUME TypeOK
  PROVE  /\ StagedRecords \in Seq(Record)
         /\ Len(StagedRecords) = Len(staged)
         /\ \A i \in 1 .. Len(staged) :
              StagedRecords[i] = StagedRecord(staged[i])
BY StagedRecordsFrom DEF StagedRecords, TypeOK

LEMMA SameSequence ==
  ASSUME NEW S, NEW s \in Seq(S), NEW t \in Seq(S), Len(s) = Len(t),
         \A i \in 1 .. Len(s) : s[i] = t[i]
  PROVE  s = t
  OBVIOUS

LEMMA Joined ==
  ASSUME NEW S, NEW s \in Seq(S), NEW t \in Seq(S)
  PROVE  /\ s \o t \in Seq(S) /\ Len(s \o t) = Len(s) + Len(t)
         /\ \A i \in 1 .. Len(s) + Len(t) :
              (s \o t)[i] = IF i <= Len(s) THEN s[i] ELSE t[i - Len(s)]
  OBVIOUS

LEMMA ApplyingKeepsHistory ==
  ASSUME TypeOK, TypeOK', ApplyNext
  PROVE  records' \o StagedRecords' = records \o StagedRecords
<1>1. /\ Len(records) \in Nat /\ Len(staged) \in Nat
      /\ records \in Seq(Record) /\ records' \in Seq(Record)
  BY SequencesOfTheStep DEF TypeOK
<1>2. AppliesOne
  BY DEF ApplyNext, Apply, AppliesOne
<1>3. /\ Len(records') = Len(records) + 1
      /\ \A i \in 1 .. Len(records) : records'[i] = records[i]
      /\ Len(staged) >= 1 /\ Len(staged') = Len(staged) - 1
      /\ \A i \in 1 .. Len(staged) - 1 : staged'[i] = staged[i + 1]
  BY <1>2, AppliedRecord
<1>4. records'[Len(records) + 1] = StagedRecord(staged[1])
  <2>1. Head(staged) = staged[1] /\ Head(staged) \in Entry
    BY <1>2, SequencesOfTheStep DEF AppliesOne
  <2>2. StagedRecord(staged[1]) \in Record
    BY <2>1 DEF StagedRecord, Entry, Record
  <2>3. records' = Append(records, StagedRecord(staged[1]))
    BY <1>2, <2>1 DEF AppliesOne, StagedRecord
  <2> QED BY <1>1, <2>2, <2>3, SequencesOfTheStep
<1>5. /\ StagedRecords \in Seq(Record) /\ Len(StagedRecords) = Len(staged)
      /\ \A i \in 1 .. Len(staged) : StagedRecords[i] = StagedRecord(staged[i])
  BY StagedRecordsAre
<1>6. /\ StagedRecords' \in Seq(Record) /\ Len(StagedRecords') = Len(staged')
      /\ \A i \in 1 .. Len(staged') : StagedRecords'[i] = StagedRecord(staged'[i])
  <2>1. staged' \in Seq(Entry)
    BY DEF TypeOK
  <2> QED BY <2>1, StagedRecordsFrom DEF StagedRecords
<1> DEFINE g == records \o StagedRecords
           h == records' \o StagedRecords'
           n == Len(records) + Len(staged)
<1>7. /\ g \in Seq(Record) /\ Len(g) = n
      /\ \A i \in 1 .. n :
           g[i] = IF i <= Len(records) THEN records[i]
                  ELSE StagedRecords[i - Len(records)]
  <2>1. /\ g \in Seq(Record) /\ Len(g) = Len(records) + Len(StagedRecords)
        /\ \A i \in 1 .. Len(records) + Len(StagedRecords) :
             g[i] = IF i <= Len(records) THEN records[i]
                    ELSE StagedRecords[i - Len(records)]
    BY <1>1, <1>5, Joined
  <2> QED BY <1>5, <2>1
<1>8. /\ h \in Seq(Record) /\ Len(h) = n
      /\ \A i \in 1 .. n :
           h[i] = IF i <= Len(records) + 1 THEN records'[i]
                  ELSE StagedRecords'[i - (Len(records) + 1)]
  <2>1. /\ h \in Seq(Record) /\ Len(h) = Len(records') + Len(StagedRecords')
        /\ \A i \in 1 .. Len(records') + Len(StagedRecords') :
             h[i] = IF i <= Len(records') THEN records'[i]
                    ELSE StagedRecords'[i - Len(records')]
    BY <1>1, <1>6, Joined
  <2>2. Len(records') + Len(StagedRecords') = n
    BY <1>1, <1>3, <1>6
  <2> HIDE DEF h, n
  <2> QED BY <1>3, <2>1, <2>2
<1> HIDE DEF g, h
<1>9. ASSUME NEW i \in 1 .. n PROVE h[i] = g[i]
  <2>1. CASE i <= Len(records)
    BY <1>1, <1>3, <1>7, <1>8, <2>1
  <2>2. CASE i = Len(records) + 1
    <3>1. h[i] = StagedRecord(staged[1])
      BY <1>4, <1>8, <1>9, <2>2
    <3>2. /\ ~(i <= Len(records)) /\ i - Len(records) = 1
          /\ 1 \in 1 .. Len(staged)
      BY <1>1, <1>3, <2>2
    <3>3. g[i] = StagedRecords[1]
      BY <1>7, <1>9, <3>2
    <3> QED BY <1>5, <3>1, <3>2, <3>3
  <2>3. CASE i > Len(records) + 1
    <3> DEFINE k == i - (Len(records) + 1)
    <3>1. k \in 1 .. Len(staged) - 1 /\ k + 1 = i - Len(records)
          /\ k + 1 \in 1 .. Len(staged)
      BY <1>1, <1>9, <2>3
    <3>2. StagedRecords'[k] = StagedRecords[k + 1]
      BY <1>3, <1>5, <1>6, <3>1
    <3>3. h[i] = StagedRecords'[k]
      BY <1>1, <1>8, <2>3
    <3>4. g[i] = StagedRecords[k + 1]
      <4>1. ~(i <= Len(records))
        BY <1>1, <2>3
      <4> QED BY <1>7, <1>9, <3>1, <4>1
    <3> QED BY <3>2, <3>3, <3>4
  <2> QED BY <1>1, <2>1, <2>2, <2>3
<1>10. h = g
  BY <1>7, <1>8, <1>9, SameSequence
<1> QED BY <1>10 DEF g, h

(* Committing a batch adds all of it to the history, with new identities,   *)
(* and the outcomes answer for every draft.                                 *)
LEMMA CommitAppends ==
  ASSUME TypeOK, RecordIdsInv, OutcomesInv, Commit
  PROVE  Promised!AppendBatch
<1> DEFINE g == records \o StagedRecords
<1>1. /\ phase = "validating" /\ phase' = "applying"
      /\ outcomes # << >> /\ outcomes' = outcomes
      /\ records' = records /\ staged' = staged
  BY DEF Commit, committed, batch
<1>2. LogicalHistory = records /\ LogicalHistory' = g
  BY <1>1 DEF LogicalHistory, StagedRecords
<1>3. /\ Len(records) \in Nat /\ Len(staged) \in Nat
      /\ records \in Seq(Record)
  BY SequencesOfTheStep
<1>4. /\ StagedRecords \in Seq(Record) /\ Len(StagedRecords) = Len(staged)
      /\ \A i \in 1 .. Len(staged) : StagedRecords[i] = StagedRecord(staged[i])
  BY StagedRecordsAre
<1>5. /\ Len(g) = Extended
      /\ \A i \in 1 .. Extended :
           g[i] = IF i <= Len(records) THEN records[i]
                  ELSE StagedRecords[i - Len(records)]
  <2>1. /\ Len(g) = Len(records) + Len(StagedRecords)
        /\ \A i \in 1 .. Len(records) + Len(StagedRecords) :
             g[i] = IF i <= Len(records) THEN records[i]
                    ELSE StagedRecords[i - Len(records)]
    BY <1>3, <1>4, Joined
  <2> QED BY <1>4, <2>1 DEF Extended
<1> HIDE DEF g
<1>6. \A i \in 1 .. Extended : g[i].record_id = Ids[i]
  <2>1. ASSUME NEW i \in 1 .. Extended
        PROVE  g[i].record_id = Ids[i]
    <3>1. CASE i <= Len(records)
      BY <1>5, <3>1 DEF Ids
    <3>2. CASE i > Len(records)
      <4>1. i - Len(records) \in 1 .. Len(staged) /\ ~(i <= Len(records))
        BY <1>3, <2>1, <3>2 DEF Extended
      <4>2. g[i].record_id = staged[i - Len(records)].record_id
        <5>1. g[i] = StagedRecords[i - Len(records)]
          BY <1>5, <2>1, <4>1
        <5>2. g[i] = StagedRecord(staged[i - Len(records)])
          BY <1>4, <4>1, <5>1
        <5> QED BY <5>2 DEF StagedRecord
      <4> QED BY <4>1, <4>2 DEF Ids
    <3> QED BY <1>3, <2>1, <3>1, <3>2 DEF Extended
  <2> QED BY <2>1
<1>7. Promised!Extends(records, g)
  <2>1. Len(records) <= Len(g) /\ Extended \in Nat
    BY <1>3, <1>5 DEF Extended
  <2>2. \A i \in 1 .. Len(records) : g[i] = records[i]
    BY <1>3, <1>5 DEF Extended
  <2>3. ASSUME NEW i \in Len(records) + 1 .. Len(g), NEW j \in 1 .. i - 1
        PROVE  g[i].record_id # g[j].record_id
    <3>1. i \in 1 .. Extended /\ j \in 1 .. Extended /\ i # j
      BY <1>3, <1>5, <2>1, <2>3
    <3> QED BY <1>6, <3>1 DEF RecordIdsInv
  <2> QED BY <2>1, <2>2, <2>3 DEF Promised!Extends
<1>8. Promised!Answers(outcomes, records, g)
  <2>1. NumbersTheBatch /\ PointsAtRepeats
    BY <1>1 DEF OutcomesInv
  <2>2. Promised!New(outcomes) = Additions
    BY DEF Promised!New, Additions
  <2>3. { outcomes[k].sequence : k \in Additions } = Len(records) + 1 .. Len(g)
    BY <1>5, <2>1 DEF NumbersTheBatch
  <2>4. \A k, l \in Additions :
          k < l => outcomes[k].sequence < outcomes[l].sequence
    BY <2>1 DEF NumbersTheBatch
  <2>5. \A k \in DOMAIN outcomes \ Additions :
          /\ outcomes[k].sequence \in 1 .. Len(g)
          /\ g[outcomes[k].sequence].record_id \in RecordId
    BY <1>5, <1>6, <2>1 DEF PointsAtRepeats
  <2> QED BY <2>2, <2>3, <2>4, <2>5 DEF Promised!Answers
<1> QED BY <1>1, <1>2, <1>7, <1>8 DEF Promised!AppendBatch

LEMMA EverySteps ==
  ASSUME TypeOK, TypeOK', RecordIdsInv, OutcomesInv, [Next]_vars
  PROVE  [Promised!Next]_<< LogicalHistory,
                            IF phase = "applying" THEN outcomes ELSE << >> >>
<1> DEFINE reply == IF phase = "applying" THEN outcomes ELSE << >>
<1>1. ASSUME NEW d \in Drafts, StageNext(d) \/ RecognizeRepeat(d) \/ Reject(d)
      PROVE  UNCHANGED << LogicalHistory, reply >>
  <2>1. CASE StageNext(d)
    BY <2>1, StagingExtends DEF LogicalHistory
  <2>2. CASE RecognizeRepeat(d)
    BY <2>2 DEF RecognizeRepeat, LogicalHistory, committed
  <2>3. CASE Reject(d)
    BY <2>3 DEF Reject, LogicalHistory, committed
  <2> QED BY <1>1, <2>1, <2>2, <2>3
<1>2. CASE Commit
  BY <1>2, CommitAppends DEF Promised!Next
<1>3. CASE ApplyNext
  <2>1. /\ phase = "applying" /\ phase' = "applying" /\ outcomes' = outcomes
    BY <1>3 DEF ApplyNext
  <2>2. LogicalHistory' = LogicalHistory
    BY <1>3, <2>1, ApplyingKeepsHistory DEF LogicalHistory
  <2> QED BY <2>1, <2>2
<1>4. CASE Finish
  <2>1. /\ phase = "applying" /\ phase' = "validating" /\ staged = << >>
        /\ records' = records /\ outcomes # << >>
    BY <1>4 DEF Finish, committed, OutcomesInv
  <2>2. records \o StagedRecords = records
    <3>1. /\ StagedRecords \in Seq(Record) /\ Len(StagedRecords) = 0
          /\ records \in Seq(Record) /\ Len(records) \in Nat
      BY <2>1, StagedRecordsAre, SequencesOfTheStep
    <3>2. /\ records \o StagedRecords \in Seq(Record)
          /\ Len(records \o StagedRecords) = Len(records)
          /\ \A i \in 1 .. Len(records) : (records \o StagedRecords)[i] = records[i]
      BY <3>1, Joined
    <3> QED BY <3>1, <3>2, SameSequence
  <2>3. LogicalHistory = records /\ LogicalHistory' = records
    BY <2>1, <2>2 DEF LogicalHistory
  <2> QED BY <2>1, <2>3 DEF Promised!Next, Promised!Reply
<1>5. CASE UNCHANGED vars
  BY <1>5 DEF vars, committed, batch, LogicalHistory, StagedRecords
<1> QED BY <1>1, <1>2, <1>3, <1>4, <1>5 DEF Next

LEMMA StartsEmpty ==
  ASSUME Init
  PROVE  Promised!Init
  BY DEF Init, Promised!Init, LogicalHistory

(* The commit path implements the append-only history: for a caller, whole  *)
(* batches are added at the end, under identities that are new, and the     *)
(* outcomes say which sequence each draft has                               *)
(* (append_batch_with_authority and its AppendOutcomes).                    *)
THEOREM LedgerKeepsPromise == Spec => KeepsItsPromise
<1>1. Init => RecordIdsInv
  BY DEF Init, RecordIdsInv, Extended
<1>2. Spec => [](TypeOK /\ RecordIdsInv /\ OutcomesInv)
  BY <1>1, OutcomesInit, TypeCorrect, RecordIdsStep, OutcomesStep, PTL DEF Spec
<1>3. Init => Promised!Init
  BY StartsEmpty
<1>4. TypeOK /\ TypeOK' /\ RecordIdsInv /\ OutcomesInv /\ [Next]_vars =>
        [Promised!Next]_<< LogicalHistory,
                           IF phase = "applying" THEN outcomes ELSE << >> >>
  BY EverySteps
<1> QED BY <1>2, <1>3, <1>4, PTL DEF Spec, KeepsItsPromise, Promised!Spec

-----------------------------------------------------------------------------
(***************************************************************************)
(* What the history promises about life cycles and references.              *)
(* The records and the staged entries behind them are looked at as one      *)
(* sequence, Whole, that staging extends, applying leaves alone and         *)
(* dropping a batch cuts back to the records.  Each view, committed or      *)
(* staged, shows what a prefix of that sequence says of its entity; what is *)
(* validated against the views is therefore right about the sequence.       *)
(***************************************************************************)
Whole ==
  [ n \in 1 .. Extended |->
      IF n <= Len(records) THEN records[n]
      ELSE StagedRecord(staged[n - Len(records)]) ]

(* What one record of a sequence h is about. *)
About(h, i, x) ==
  h[i].draft.type # "AccountingRecorded" /\ h[i].draft.body.id = x

TypedAbout(h, i, types, x) ==
  h[i].draft.type \in types /\ h[i].draft.body.id = x

(* Among the first n records one is about x and belongs to session s. *)
HasHome(h, n, x, s) == \E i \in 1 .. n : About(h, i, x) /\ h[i].session = s

ActivityType ==
  { "ModelCallRecorded", "ToolCallRecorded", "ObservationRecorded" }

SessionRecord == { "SessionOpened", "SessionClosed", "SessionAnnotation" }

ChangeType == { "HypothesisStatusChanged", "ResultStatusChanged" }

ChangesUpTo(h, n, x) == { i \in 1 .. n : TypedAbout(h, i, ChangeType, x) }

-----------------------------------------------------------------------------
(* The n-th record of h is right after those before it. *)

(* It declares nothing that is there. *)
IsNew(h, n) ==
  h[n].draft.type \in DeclaringType =>
    \A i \in 1 .. n - 1 : ~About(h, i, h[n].draft.body.id)

(* It ends no attempt that has ended. *)
EndsOnce(h, n) ==
  h[n].draft.type \in TerminalType =>
    \A i \in 1 .. n - 1 : ~TypedAbout(h, i, TerminalType, h[n].draft.body.id)

(* It is of no session that was closed, unless it is an annotation. *)
RespectsClosure(h, n) ==
  h[n].draft.type # "SessionAnnotation" =>
    \A i \in 1 .. n - 1 : ~TypedAbout(h, i, { "SessionClosed" }, h[n].session)

(* It is no activity of an attempt that was cancelled. *)
RespectsCancellation(h, n) ==
  h[n].draft.type \in ActivityType =>
    \A i \in 1 .. n - 1 :
      ~TypedAbout(h, i, { "AttemptCancelled" }, h[n].draft.body.attempt)

(* What it refers to has a record of the same session before it. *)
PointsBack(h, n) ==
  h[n].draft.type # "SessionOpened" =>
    \A x \in References(h[n].draft) \ { None } :
      HasHome(h, n - 1, x, h[n].session)

(* It belongs to the session its entity always belonged to.  (An artifact   *)
(* may be referenced again in another session.)                             *)
KeepsSession(h, n) ==
  h[n].draft.type # "AccountingRecorded"
    /\ h[n].draft.body.id \notin Artifact =>
      \A i \in 1 .. n - 1 :
        About(h, i, h[n].draft.body.id) => h[i].session = h[n].session

(* Its subject and its session have a record of its session; what opens,    *)
(* closes or annotates a session belongs to it.                             *)
IsAtHome(h, n) ==
  /\ HasHome(h, n, h[n].subject, h[n].session)
  /\ HasHome(h, n, h[n].session, h[n].session)
  /\ h[n].draft.type \in SessionRecord => h[n].session = h[n].draft.body.id

(* Its change of a result rests on a decision before it. *)
IsDecided(h, n) ==
  h[n].draft.type = "ResultStatusChanged" =>
    \E i \in 1 .. n - 1 :
      /\ TypedAbout(h, i, { "DecisionRecorded" }, h[n].draft.body.decision)
      /\ h[i].draft.body.subject = h[n].draft.body.id
      /\ h[n].draft.body.to \in StatusesOfOutcome[h[i].draft.body.outcome]

(* Its change goes on where the change before it stopped. *)
GoesOn(h, n) ==
  h[n].draft.type \in ChangeType =>
    LET change == h[n].draft.body
        earlier == ChangesUpTo(h, n - 1, change.id) IN
    /\ change.generation = Cardinality(earlier) + 2
    /\ earlier = {} => change.from \in { "Candidate", "Proposed" }
    /\ earlier # {} => \E i \in earlier :
                         /\ \A k \in earlier : k <= i
                         /\ change.from = h[i].draft.body.to

Follows(h, n) ==
  /\ IsNew(h, n) /\ EndsOnce(h, n)
  /\ RespectsClosure(h, n) /\ RespectsCancellation(h, n)
  /\ PointsBack(h, n) /\ KeepsSession(h, n) /\ IsAtHome(h, n)
  /\ IsDecided(h, n) /\ GoesOn(h, n)

-----------------------------------------------------------------------------
(* View v of entity x shows what the first n records of h say of x. *)

ShowsSession(h, n, x, v) ==
  /\ v.session = x
  /\ v.state = "Closed" <=>
       \E i \in 1 .. n : TypedAbout(h, i, { "SessionClosed" }, x)

ShowsAttempt(h, n, x, v) ==
  /\ v.state = "Running" <=>
       \A i \in 1 .. n : ~TypedAbout(h, i, TerminalType, x)
  /\ v.state = "Cancelled" <=>
       \E i \in 1 .. n : TypedAbout(h, i, { "AttemptCancelled" }, x)
  /\ \E i \in 1 .. n :
       /\ TypedAbout(h, i, { "AttemptStarted" }, x)
       /\ h[i].draft.body.experiment = v.experiment

ShowsCall(h, n, x, v) ==
  \E i \in 1 .. n :
    /\ TypedAbout(h, i, { "ModelCallRecorded", "ToolCallRecorded" }, x)
    /\ h[i].draft.body.attempt = v.attempt

ShowsDecision(h, n, x, v) ==
  \E i \in 1 .. n :
    /\ TypedAbout(h, i, { "DecisionRecorded" }, x)
    /\ h[i].draft.body.subject = v.subject
    /\ h[i].draft.body.outcome = v.outcome

ShowsChanges(h, n, x, v) ==
  LET changes == ChangesUpTo(h, n, x) IN
  /\ v.generation = Cardinality(changes) + 1
  /\ changes = {} => v.status \in { "Candidate", "Proposed" }
  /\ changes # {} => \E i \in changes :
                       /\ \A k \in changes : k <= i
                       /\ v.status = h[i].draft.body.to

Shows(h, n, x, v) ==
  /\ v = None <=> \A i \in 1 .. n : ~About(h, i, x)
  /\ v # None =>
       /\ x \in Session => ShowsSession(h, n, x, v)
       /\ x \in Attempt => ShowsAttempt(h, n, x, v)
       /\ x \in ModelCall \cup ToolCall => ShowsCall(h, n, x, v)
       /\ x \in Decision => ShowsDecision(h, n, x, v)
       /\ x \in Hypothesis \cup Result => ShowsChanges(h, n, x, v)
       /\ x \notin Attempt \cup ModelCall \cup ToolCall =>
            HasHome(h, n, x, v.session)

(* The entity of an entry refers to what its draft refers to. *)
Carries(s) ==
  LET type == s.draft.type
      b == s.draft.body
      e == s.entity IN
  /\ type = "HypothesisDeclared" =>
       e.session = b.session /\ e.parent = b.parent
  /\ type = "ExperimentDeclared" =>
       /\ e.session = b.session
       /\ e.branch = b.branch
       /\ e.hypotheses = b.hypotheses
  /\ type = "AttemptStarted" =>
       e.experiment = b.experiment /\ e.branch = b.branch
  /\ type \in ActivityType => e.attempt = b.attempt
  /\ type \in { "ResultDeclared", "BranchDeclared" } => e.session = b.session
  /\ type = "FailureRecorded" => e.session = s.session
  /\ type = "ArtifactReferenced" => e.parents = b.parents

-----------------------------------------------------------------------------
HistoryInv == \A n \in 1 .. Extended : Follows(Whole, n)

CommittedViewsInv ==
  \A x \in Entity : Shows(Whole, Len(records), x, view[x])

FoundViewsInv == \A x \in Entity : Shows(Whole, Extended, x, Find(x))

StagedViewsInv ==
  \A k \in 1 .. Len(staged) :
    /\ Carries(staged[k])
    /\ staged[k].key # None =>
         /\ latest[staged[k].key] # None
         /\ Shows(Whole, Len(records) + k, staged[k].key, staged[k].entity)

PlacesInv ==
  \A x \in Subject :
    /\ subject_index[x] # None =>
         HasHome(Whole, Len(records), x, subject_index[x])
    /\ front[x] # None => HasHome(Whole, Extended, x, front[x])

LifeInv ==
  /\ HistoryInv /\ CommittedViewsInv /\ FoundViewsInv /\ StagedViewsInv
  /\ PlacesInv
-----------------------------------------------------------------------------
(* Sequences that agree on their first records say the same about them, and *)
(* a further record changes only what is said of its own entity.            *)

Agree(g, h, n) == \A i \in 1 .. n : g[i] = h[i]

LEMMA AgreeOnPlaces ==
  ASSUME NEW n \in Nat, NEW h, NEW g, Agree(g, h, n), NEW x
  PROVE  /\ \A i \in 1 .. n : About(g, i, x) <=> About(h, i, x)
         /\ \A types : \A i \in 1 .. n :
              TypedAbout(g, i, types, x) <=> TypedAbout(h, i, types, x)
         /\ \A s : \A m \in 0 .. n : HasHome(g, m, x, s) <=> HasHome(h, m, x, s)
         /\ \A m \in 0 .. n : ChangesUpTo(g, m, x) = ChangesUpTo(h, m, x)
<1>1. \A i \in 1 .. n : About(g, i, x) <=> About(h, i, x)
  BY DEF About, Agree
<1>2. \A types : \A i \in 1 .. n :
        TypedAbout(g, i, types, x) <=> TypedAbout(h, i, types, x)
  BY DEF TypedAbout, Agree
<1>3. ASSUME NEW m \in 0 .. n, NEW i \in 1 .. m
      PROVE  i \in 1 .. n
  BY <1>3
<1>4. ASSUME NEW s, NEW m \in 0 .. n
      PROVE  HasHome(g, m, x, s) <=> HasHome(h, m, x, s)
  <2>1. \A i \in 1 .. m : About(g, i, x) <=> About(h, i, x)
    BY <1>1, <1>3
  <2>2. \A i \in 1 .. m : g[i] = h[i]
    BY <1>3 DEF Agree
  <2> QED BY <2>1, <2>2 DEF HasHome
<1>5. \A m \in 0 .. n : ChangesUpTo(g, m, x) = ChangesUpTo(h, m, x)
  BY <1>2, <1>3 DEF ChangesUpTo
<1> QED BY <1>1, <1>2, <1>4, <1>5

LEMMA AgreeOnShows ==
  ASSUME NEW n \in Nat, NEW h, NEW g, Agree(g, h, n),
         NEW x, NEW v, Shows(h, n, x, v)
  PROVE  Shows(g, n, x, v)
<1>1. n \in 0 .. n
  OBVIOUS
<1>2. /\ \A i \in 1 .. n : About(g, i, x) <=> About(h, i, x)
      /\ \A types : \A i \in 1 .. n :
           TypedAbout(g, i, types, x) <=> TypedAbout(h, i, types, x)
      /\ HasHome(g, n, x, v.session) <=> HasHome(h, n, x, v.session)
      /\ ChangesUpTo(g, n, x) = ChangesUpTo(h, n, x)
  BY <1>1, AgreeOnPlaces
<1>3. \A i \in ChangesUpTo(h, n, x) : i \in 1 .. n
  BY DEF ChangesUpTo
<1>4. \A i \in 1 .. n : g[i] = h[i]
  BY DEF Agree
<1>5. ShowsSession(h, n, x, v) => ShowsSession(g, n, x, v)
  BY <1>2 DEF ShowsSession
<1>6. ShowsAttempt(h, n, x, v) => ShowsAttempt(g, n, x, v)
  BY <1>2, <1>4 DEF ShowsAttempt
<1>7. ShowsCall(h, n, x, v) => ShowsCall(g, n, x, v)
  BY <1>2, <1>4 DEF ShowsCall
<1>8. ShowsDecision(h, n, x, v) => ShowsDecision(g, n, x, v)
  BY <1>2, <1>4 DEF ShowsDecision
<1>9. ShowsChanges(h, n, x, v) => ShowsChanges(g, n, x, v)
  BY <1>2, <1>3, <1>4 DEF ShowsChanges
<1> QED BY <1>2, <1>5, <1>6, <1>7, <1>8, <1>9 DEF Shows

LEMMA AgreeOnFollows ==
  ASSUME NEW n \in Nat, NEW h, NEW g, Agree(g, h, n),
         NEW m \in 1 .. n, Follows(h, m)
  PROVE  Follows(g, m)
<1>1. /\ g[m] = h[m]
      /\ m - 1 \in 0 .. n /\ m \in 0 .. n
      /\ \A i \in 1 .. m - 1 : i \in 1 .. n /\ g[i] = h[i]
  BY DEF Agree
<1>2. ASSUME NEW x
      PROVE  /\ \A i \in 1 .. m - 1 : About(g, i, x) <=> About(h, i, x)
             /\ \A types : \A i \in 1 .. m - 1 :
                  TypedAbout(g, i, types, x) <=> TypedAbout(h, i, types, x)
             /\ \A s : HasHome(g, m, x, s) <=> HasHome(h, m, x, s)
             /\ \A s : HasHome(g, m - 1, x, s) <=> HasHome(h, m - 1, x, s)
             /\ ChangesUpTo(g, m - 1, x) = ChangesUpTo(h, m - 1, x)
  <2>1. /\ \A i \in 1 .. n : About(g, i, x) <=> About(h, i, x)
        /\ \A types : \A i \in 1 .. n :
             TypedAbout(g, i, types, x) <=> TypedAbout(h, i, types, x)
        /\ \A s : \A k \in 0 .. n :
             HasHome(g, k, x, s) <=> HasHome(h, k, x, s)
        /\ \A k \in 0 .. n : ChangesUpTo(g, k, x) = ChangesUpTo(h, k, x)
    BY AgreeOnPlaces
  <2> QED BY <1>1, <2>1
<1>3. \A x : \A i \in ChangesUpTo(h, m - 1, x) : i \in 1 .. m - 1
  BY DEF ChangesUpTo
<1>4. IsNew(g, m) /\ EndsOnce(g, m) /\ RespectsClosure(g, m)
      /\ RespectsCancellation(g, m)
  BY <1>1, <1>2 DEF Follows, IsNew, EndsOnce, RespectsClosure,
     RespectsCancellation
<1>5. PointsBack(g, m) /\ KeepsSession(g, m) /\ IsAtHome(g, m)
  BY <1>1, <1>2 DEF Follows, PointsBack, KeepsSession, IsAtHome
<1>6. IsDecided(g, m)
  BY <1>1, <1>2 DEF Follows, IsDecided
<1>7. GoesOn(g, m)
  BY <1>1, <1>2, <1>3 DEF Follows, GoesOn
<1> QED BY <1>4, <1>5, <1>6, <1>7 DEF Follows

LEMMA ShowsOfOthers ==
  ASSUME NEW n \in Nat, NEW h, NEW x, NEW v, Shows(h, n, x, v),
         ~About(h, n + 1, x)
  PROVE  Shows(h, n + 1, x, v)
<1>1. \A i \in 1 .. n + 1 : i \in 1 .. n \/ i = n + 1
  OBVIOUS
<1>2. \A i \in 1 .. n : i \in 1 .. n + 1
  OBVIOUS
<1>3. \A types : "AccountingRecorded" \notin types =>
        ~TypedAbout(h, n + 1, types, x)
  BY DEF About, TypedAbout
<1>4. ChangesUpTo(h, n + 1, x) = ChangesUpTo(h, n, x)
  BY <1>1, <1>2, <1>3 DEF ChangesUpTo, ChangeType
<1>5. \A s : HasHome(h, n, x, s) => HasHome(h, n + 1, x, s)
  BY <1>2 DEF HasHome
<1>6. ShowsSession(h, n, x, v) => ShowsSession(h, n + 1, x, v)
  BY <1>1, <1>2, <1>3 DEF ShowsSession
<1>7. ShowsAttempt(h, n, x, v) => ShowsAttempt(h, n + 1, x, v)
  BY <1>1, <1>2, <1>3 DEF ShowsAttempt, TerminalType, TerminalState
<1>8. ShowsCall(h, n, x, v) => ShowsCall(h, n + 1, x, v)
  BY <1>2 DEF ShowsCall
<1>9. ShowsDecision(h, n, x, v) => ShowsDecision(h, n + 1, x, v)
  BY <1>2 DEF ShowsDecision
<1>10. ShowsChanges(h, n, x, v) => ShowsChanges(h, n + 1, x, v)
  BY <1>4 DEF ShowsChanges
<1> QED BY <1>1, <1>2, <1>5, <1>6, <1>7, <1>8, <1>9, <1>10 DEF Shows

(* The links of a view say nothing about the history. *)
LEMMA ShowsWithLinks ==
  ASSUME NEW n \in Nat, NEW h, NEW x \in Linked, NEW v \in View,
         ViewOf(x, v), NEW key \in Entity, Shows(h, n, x, v)
  PROVE  Shows(h, n, x, [ v EXCEPT !.links = @ \cup { key } ])
<1> DEFINE w == [ v EXCEPT !.links = @ \cup { key } ]
<1> SUFFICES Shows(h, n, x, w)
  OBVIOUS
<1>1. ViewOf(x, w)
  BY LinkingKeepsKind
<1>2. x \in Entity
  BY DEF Linked, Entity, Subject
<1>3. w # None /\ v # None
  BY <1>1, <1>2, ViewIsView, NoneAssumption
<1>4. CASE x \in Session
  <2>1. v \in SessionView
    BY <1>4 DEF ViewOf
  <2>2. w.session = v.session /\ w.state = v.state
    BY <2>1 DEF SessionView
  <2> HIDE DEF w
  <2> QED BY <1>3, <1>4, <2>2, IdentityDomains DEF Shows, ShowsSession
<1>5. CASE x \in Hypothesis
  <2>1. v \in HypothesisView
    BY <1>5 DEF ViewOf
  <2>2. /\ w.session = v.session /\ w.generation = v.generation
        /\ w.status = v.status
    BY <2>1 DEF HypothesisView
  <2> HIDE DEF w
  <2> QED BY <1>3, <1>5, <2>2, IdentityDomains DEF Shows, ShowsChanges
<1>6. CASE x \in Experiment \cup Branch
  <2>1. w.session = v.session
    BY <1>6 DEF ViewOf, ExperimentView, BranchView
  <2> HIDE DEF w
  <2> QED BY <1>3, <1>6, <2>1, IdentityDomains DEF Shows
<1>7. CASE x \in Attempt
  <2>1. v \in AttemptView
    BY <1>7 DEF ViewOf
  <2>2. w.state = v.state /\ w.experiment = v.experiment
    BY <2>1 DEF AttemptView
  <2> HIDE DEF w
  <2> QED BY <1>3, <1>7, <2>2, IdentityDomains DEF Shows, ShowsAttempt
<1> QED BY <1>4, <1>5, <1>6, <1>7 DEF Linked

-----------------------------------------------------------------------------
(* What validation says of a draft. *)

LEMMA GuardTypes ==
  ASSUME NEW d
  PROVE  /\ SessionOpenedOK(d) => d.type = "SessionOpened"
         /\ SessionClosedOK(d) => d.type = "SessionClosed"
         /\ SessionAnnotationOK(d) => d.type = "SessionAnnotation"
         /\ HypothesisDeclaredOK(d) => d.type = "HypothesisDeclared"
         /\ HypothesisStatusChangedOK(d) => d.type = "HypothesisStatusChanged"
         /\ ExperimentDeclaredOK(d) => d.type = "ExperimentDeclared"
         /\ BranchDeclaredOK(d) => d.type = "BranchDeclared"
         /\ AttemptStartedOK(d) => d.type = "AttemptStarted"
         /\ AttemptEndedOK(d) => d.type \in TerminalType
         /\ ModelCallRecordedOK(d) => d.type = "ModelCallRecorded"
         /\ ToolCallRecordedOK(d) => d.type = "ToolCallRecorded"
         /\ ArtifactReferencedOK(d) => d.type = "ArtifactReferenced"
         /\ ArtifactInvalidatedOK(d) => d.type = "ArtifactInvalidated"
         /\ MetricDeclaredOK(d) => d.type = "MetricDeclared"
         /\ ObservationRecordedOK(d) => d.type = "ObservationRecorded"
         /\ FailureRecordedOK(d) => d.type = "FailureRecorded"
         /\ DecisionRecordedOK(d) => d.type = "DecisionRecorded"
         /\ ResultDeclaredOK(d) => d.type = "ResultDeclared"
         /\ ResultStatusChangedOK(d) => d.type = "ResultStatusChanged"
         /\ AccountingRecordedOK(d) => d.type = "AccountingRecorded"
BY DEF Drafted, SessionOpenedOK, SessionClosedOK, SessionAnnotationOK,
   HypothesisDeclaredOK, HypothesisStatusChangedOK, ExperimentDeclaredOK,
   BranchDeclaredOK, AttemptStartedOK, AttemptEndedOK, ModelCallRecordedOK,
   ToolCallRecordedOK, ArtifactReferencedOK, ArtifactInvalidatedOK,
   MetricDeclaredOK, ObservationRecordedOK, FailureRecordedOK,
   DecisionRecordedOK, ResultDeclaredOK, ResultStatusChangedOK,
   AccountingRecordedOK

LEMMA ValidatedAs ==
  ASSUME NEW d, Validates(d)
  PROVE  /\ d.type = "SessionOpened" => SessionOpenedOK(d)
         /\ d.type = "SessionClosed" => SessionClosedOK(d)
         /\ d.type = "SessionAnnotation" => SessionAnnotationOK(d)
         /\ d.type = "HypothesisDeclared" => HypothesisDeclaredOK(d)
         /\ d.type = "HypothesisStatusChanged" => HypothesisStatusChangedOK(d)
         /\ d.type = "ExperimentDeclared" => ExperimentDeclaredOK(d)
         /\ d.type = "BranchDeclared" => BranchDeclaredOK(d)
         /\ d.type = "AttemptStarted" => AttemptStartedOK(d)
         /\ d.type \in TerminalType => AttemptEndedOK(d)
         /\ d.type = "ModelCallRecorded" => ModelCallRecordedOK(d)
         /\ d.type = "ToolCallRecorded" => ToolCallRecordedOK(d)
         /\ d.type = "ArtifactReferenced" => ArtifactReferencedOK(d)
         /\ d.type = "ArtifactInvalidated" => ArtifactInvalidatedOK(d)
         /\ d.type = "MetricDeclared" => MetricDeclaredOK(d)
         /\ d.type = "ObservationRecorded" => ObservationRecordedOK(d)
         /\ d.type = "FailureRecorded" => FailureRecordedOK(d)
         /\ d.type = "DecisionRecorded" => DecisionRecordedOK(d)
         /\ d.type = "ResultDeclared" => ResultDeclaredOK(d)
         /\ d.type = "ResultStatusChanged" => ResultStatusChangedOK(d)
         /\ d.type = "AccountingRecorded" => AccountingRecordedOK(d)
BY GuardTypes DEF Validates, TerminalType, TerminalState

LEMMA StagedIsValid ==
  ASSUME NEW d, StageNext(d)
  PROVE  Validates(d)
BY DEF StageNext, Validates, StageSessionOpened, StageSessionClosed,
   StageSessionAnnotation, StageHypothesisDeclared,
   StageHypothesisStatusChanged, StageExperimentDeclared,
   StageBranchDeclared, StageAttemptStarted, StageAttemptEnded,
   StageModelCallRecorded, StageToolCallRecorded, StageArtifactReferenced,
   StageArtifactInvalidated, StageMetricDeclared, StageObservationRecorded,
   StageFailureRecorded, StageDecisionRecorded, StageResultDeclared,
   StageResultStatusChanged, StageAccountingRecorded

(* A draft that declares an entity finds none of that identity. *)
LEMMA DeclaresFresh ==
  ASSUME NEW d, Validates(d), d.type \in DeclaringType
  PROVE  Fresh(d.body.id)
BY ValidatedAs DEF DeclaringType, TerminalType, TerminalState,
   SessionOpenedOK, HypothesisDeclaredOK, ExperimentDeclaredOK,
   BranchDeclaredOK, AttemptStartedOK, ModelCallRecordedOK,
   ToolCallRecordedOK, MetricDeclaredOK, ObservationRecordedOK,
   FailureRecordedOK, DecisionRecordedOK, ResultDeclaredOK

-----------------------------------------------------------------------------
(* Draft d comes right after the extended history in the sequence g, and    *)
(* the views it was validated against show that history.                    *)
Behind(d, g) ==
  /\ \A i \in 1 .. Extended : Follows(g, i)
  /\ \A x \in Entity : Shows(g, Extended, x, Find(x))
  /\ \A x \in Subject : Locate(x) # None =>
       HasHome(g, Extended, x, Locate(x))
  /\ g[Extended + 1].draft = d
  /\ g[Extended + 1].session = SessionOf(d)
  /\ g[Extended + 1].subject = PrimarySubject(d)

LEMMA ExtendedIsNat ==
  ASSUME TypeOK
  PROVE  Extended \in Nat
<1>1. Len(records) \in Nat /\ Len(staged) \in Nat
  BY DEF TypeOK
<1> QED BY <1>1 DEF Extended

(* A session with a record of an entity has a record of its own. *)
LEMMA HomeHasHome ==
  ASSUME TypeOK, NEW d, NEW g, Behind(d, g), NEW x, NEW s,
         HasHome(g, Extended, x, s)
  PROVE  HasHome(g, Extended, s, s)
<1>1. PICK i \in 1 .. Extended : g[i].session = s
  BY DEF HasHome
<1>2. HasHome(g, i, s, s)
  BY <1>1 DEF Behind, Follows, IsAtHome
<1>3. \A j \in 1 .. i : j \in 1 .. Extended
  BY ExtendedIsNat
<1> QED BY <1>2, <1>3 DEF HasHome

(* All records of an entity are of one session, unless it is an artifact. *)
LEMMA OneHome ==
  ASSUME TypeOK, NEW d, NEW g, Behind(d, g), NEW x, x \notin Artifact,
         NEW s, NEW t,
         HasHome(g, Extended, x, s), HasHome(g, Extended, x, t)
  PROVE  s = t
<1>1. PICK i \in 1 .. Extended : About(g, i, x) /\ g[i].session = s
  BY DEF HasHome
<1>2. PICK j \in 1 .. Extended : About(g, j, x) /\ g[j].session = t
  BY DEF HasHome
<1>3. KeepsSession(g, i) /\ KeepsSession(g, j)
  BY DEF Behind, Follows
<1>4. CASE i < j
  <2>1. i \in 1 .. j - 1
    BY <1>4, ExtendedIsNat
  <2> QED BY <1>1, <1>2, <1>3, <2>1 DEF KeepsSession, About
<1>5. CASE j < i
  <2>1. j \in 1 .. i - 1
    BY <1>5, ExtendedIsNat
  <2> QED BY <1>1, <1>2, <1>3, <2>1 DEF KeepsSession, About
<1>6. CASE i = j
  BY <1>1, <1>2, <1>6
<1> QED BY <1>4, <1>5, <1>6, ExtendedIsNat

LEMMA FoundIsShown ==
  ASSUME TypeOK, NEW d, NEW g, Behind(d, g), NEW x \in Entity
  PROVE  /\ Found(x) <=> \E i \in 1 .. Extended : About(g, i, x)
         /\ Found(x) => Shows(g, Extended, x, Find(x))
BY DEF Behind, Shows, Found

LEMMA HomeOfFound ==
  ASSUME TypeOK, NEW d, NEW g, Behind(d, g), NEW x \in Entity, Found(x),
         x \notin Attempt \cup ModelCall \cup ToolCall
  PROVE  HasHome(g, Extended, x, Find(x).session)
BY DEF Behind, Shows, Found

LEMMA HomeOfSession ==
  ASSUME TypeOK, NEW d, NEW g, Behind(d, g), NEW x \in Session, Found(x)
  PROVE  HasHome(g, Extended, x, x)
<1>1. x \in Entity /\ x \notin Attempt \cup ModelCall \cup ToolCall
  BY IdentityDomains DEF Entity, Subject
<1>2. Find(x).session = x
  BY <1>1, FoundIsShown DEF Shows, ShowsSession, Found
<1> QED BY <1>1, <1>2, HomeOfFound

(* The session of an attempt, reached through its experiment, is the one    *)
(* the attempt was started in.                                              *)
LEMMA HomeOfAttempt ==
  ASSUME TypeOK, NEW d, NEW g, Behind(d, g), NEW a \in Attempt,
         AttemptFound(a)
  PROVE  HasHome(g, Extended, a, AttemptSession(a))
<1> DEFINE e == Find(a).experiment
<1>1. /\ a \in Entity /\ Found(a)
      /\ e \in Experiment /\ e \in Entity /\ Found(e)
      /\ e \notin Attempt \cup ModelCall \cup ToolCall \cup Artifact
      /\ e # None
  BY AttemptSessions, IdentityDomains, NoneAssumption
     DEF Entity, Subject, AttemptFound
<1>2. PICK i \in 1 .. Extended :
        /\ TypedAbout(g, i, { "AttemptStarted" }, a)
        /\ g[i].draft.body.experiment = e
  BY <1>1, FoundIsShown DEF Shows, ShowsAttempt, Found
<1>3. HasHome(g, i - 1, e, g[i].session)
  <2>1. PointsBack(g, i)
    BY DEF Behind, Follows
  <2>2. g[i].draft.type = "AttemptStarted"
        /\ e \in References(g[i].draft)
    BY <1>2 DEF TypedAbout, References
  <2> QED BY <1>1, <2>1, <2>2 DEF PointsBack
<1>4. HasHome(g, Extended, e, g[i].session)
  <2>1. \A j \in 1 .. i - 1 : j \in 1 .. Extended
    BY ExtendedIsNat
  <2> QED BY <1>3, <2>1 DEF HasHome
<1>5. HasHome(g, Extended, e, Find(e).session)
  BY <1>1, HomeOfFound
<1>6. g[i].session = AttemptSession(a)
  BY <1>1, <1>4, <1>5, OneHome DEF AttemptSession
<1> QED BY <1>2, <1>6 DEF HasHome, TypedAbout, About

LEMMA HomeOfCall ==
  ASSUME TypeOK, NEW d, NEW g, Behind(d, g),
         NEW c \in ModelCall \cup ToolCall, Found(c),
         Find(c).attempt \in Attempt, AttemptFound(Find(c).attempt)
  PROVE  HasHome(g, Extended, c, AttemptSession(Find(c).attempt))
<1> DEFINE a == Find(c).attempt
<1>1. /\ c \in Entity /\ a \notin Artifact /\ a # None
  BY IdentityDomains, NoneAssumption DEF Entity, Subject
<1>2. PICK i \in 1 .. Extended :
        /\ TypedAbout(g, i, { "ModelCallRecorded", "ToolCallRecorded" }, c)
        /\ g[i].draft.body.attempt = a
  BY <1>1, FoundIsShown DEF Shows, ShowsCall, Found
<1>3. HasHome(g, i - 1, a, g[i].session)
  <2>1. PointsBack(g, i)
    BY DEF Behind, Follows
  <2>2. g[i].draft.type # "SessionOpened" /\ a \in References(g[i].draft)
    BY <1>2 DEF TypedAbout, References
  <2> QED BY <1>1, <2>1, <2>2 DEF PointsBack
<1>4. HasHome(g, Extended, a, g[i].session)
  <2>1. \A j \in 1 .. i - 1 : j \in 1 .. Extended
    BY ExtendedIsNat
  <2> QED BY <1>3, <2>1 DEF HasHome
<1>5. HasHome(g, Extended, a, AttemptSession(a))
  BY HomeOfAttempt
<1>6. g[i].session = AttemptSession(a)
  BY <1>1, <1>4, <1>5, OneHome
<1> QED BY <1>2, <1>6 DEF HasHome, TypedAbout, About

(* What the session check of a reference guarantees. *)
LEMMA HomeInSession ==
  ASSUME TypeOK, NEW d, NEW g, Behind(d, g), NEW x \in Entity, NEW s,
         InSession(x, s)
  PROVE  HasHome(g, Extended, x, s)
<1>1. Found(x)
  BY DEF InSession
<1>2. CASE x \in Attempt
  BY <1>2, HomeOfAttempt DEF InSession
<1>3. CASE x \in ModelCall \cup ToolCall
  <2>1. x \notin Attempt
    BY <1>3, IdentityDomains
  <2>2. Find(x).attempt \in Attempt
    BY <1>1, <1>3, FoundViews DEF ViewOf, ModelCallView, ToolCallView
  <2> QED BY <1>1, <1>3, <2>1, <2>2, HomeOfCall DEF InSession
<1>4. CASE x \notin Attempt \cup ModelCall \cup ToolCall
  BY <1>1, <1>4, HomeOfFound DEF InSession
<1> QED BY <1>2, <1>3, <1>4

(* What the closure check guarantees. *)
LEMMA AcceptingIsOpen ==
  ASSUME TypeOK, NEW d, NEW g, Behind(d, g), NEW s \in Session,
         AcceptsResearch(s)
  PROVE  \A i \in 1 .. Extended : ~TypedAbout(g, i, { "SessionClosed" }, s)
<1>1. s \in Entity
  BY DEF Entity, Subject
<1>2. CASE Found(s)
  BY <1>1, <1>2, FoundIsShown DEF AcceptsResearch, Shows, ShowsSession, Found
<1>3. CASE ~Found(s)
  BY <1>1, <1>3, FoundIsShown DEF TypedAbout, About
<1> QED BY <1>2, <1>3

-----------------------------------------------------------------------------
(* What the guard of each record type says of the session of its record.    *)

LEMMA ReferencesAtHome ==
  ASSUME TypeOK, NEW d \in Drafts, Validates(d), NEW g, Behind(d, g),
         d.type # "SessionOpened"
  PROVE  \A x \in References(d) \ { None } :
           HasHome(g, Extended, x, SessionOf(d))
<1> DEFINE b == d.body
           s == SessionOf(d)
           AtHome(x) == HasHome(g, Extended, x, s)
<1> SUFFICES ASSUME NEW x \in References(d), x # None
             PROVE  AtHome(x)
  OBVIOUS
<1>1. CASE d.type = "HypothesisDeclared"
  <2>1. b \in HypothesisBody /\ HypothesisDeclaredOK(d)
    BY <1>1, DraftBodies, ValidatedAs
  <2>2. s = b.session
    BY <1>1 DEF SessionOf, TerminalType, TerminalState
  <2>3. AtHome(b.session)
    BY <2>1, <2>2, HomeOfSession DEF HypothesisDeclaredOK, HypothesisBody
  <2>4. b.parent # None => AtHome(b.parent)
    BY <2>1, <2>2, HomeInSession
       DEF HypothesisDeclaredOK, HypothesisBody, Opt, Entity, Subject
  <2> QED BY <1>1, <2>3, <2>4 DEF References
<1>2. CASE d.type = "ExperimentDeclared"
  <2>1. b \in ExperimentBody /\ ExperimentDeclaredOK(d)
    BY <1>2, DraftBodies, ValidatedAs
  <2>2. s = b.session
    BY <1>2 DEF SessionOf, TerminalType, TerminalState
  <2>3. AtHome(b.session)
    BY <2>1, <2>2, HomeOfSession DEF ExperimentDeclaredOK, ExperimentBody
  <2>4. /\ \A h \in b.hypotheses : AtHome(h)
        /\ AtHome(b.branch)
        /\ b.parent # None => AtHome(b.parent)
    BY <2>1, <2>2, HomeInSession
       DEF ExperimentDeclaredOK, ExperimentBody, Opt, Entity, Subject
  <2> QED BY <1>2, <2>3, <2>4 DEF References
<1>3. CASE d.type = "BranchDeclared"
  <2>1. b \in BranchBody /\ BranchDeclaredOK(d)
    BY <1>3, DraftBodies, ValidatedAs
  <2>2. s = b.session
    BY <1>3 DEF SessionOf, TerminalType, TerminalState
  <2>3. AtHome(b.session)
    BY <2>1, <2>2, HomeOfSession DEF BranchDeclaredOK, BranchBody
  <2>4. b.parent # None => AtHome(b.parent)
    BY <2>1, <2>2, HomeInSession
       DEF BranchDeclaredOK, BranchBody, Opt, Entity, Subject
  <2> QED BY <1>3, <2>3, <2>4 DEF References
<1>4. CASE d.type = "AttemptStarted"
  <2>1. b \in AttemptBody /\ AttemptStartedOK(d)
    BY <1>4, DraftBodies, ValidatedAs
  <2>2. s = Find(b.experiment).session
    BY <1>4 DEF SessionOf, TerminalType, TerminalState
  <2>3. AtHome(b.experiment)
    BY <2>1, <2>2, HomeOfFound, IdentityDomains
       DEF AttemptStartedOK, AttemptBody, Entity, Subject
  <2>4. AtHome(b.branch)
    BY <2>1, <2>2, HomeInSession
       DEF AttemptStartedOK, AttemptBody, Entity, Subject
  <2> QED BY <1>4, <2>3, <2>4 DEF References
<1>5. CASE d.type = "ModelCallRecorded"
  <2>1. b \in ModelCallBody /\ ModelCallRecordedOK(d)
    BY <1>5, DraftBodies, ValidatedAs
  <2>2. s = AttemptSession(b.attempt)
    BY <1>5 DEF SessionOf, TerminalType, TerminalState
  <2>3. AtHome(b.attempt)
    BY <2>1, <2>2, HomeOfAttempt
       DEF ModelCallRecordedOK, ModelCallBody, AttemptTakesActivity
  <2>4. \A p \in b.parents : AtHome(p)
    BY <2>1, <2>2, HomeInSession
       DEF ModelCallRecordedOK, ModelCallBody, Entity, Subject
  <2> QED BY <1>5, <2>3, <2>4 DEF References
<1>6. CASE d.type = "ToolCallRecorded"
  <2>1. b \in ToolCallBody /\ ToolCallRecordedOK(d)
    BY <1>6, DraftBodies, ValidatedAs
  <2>2. s = AttemptSession(b.attempt)
    BY <1>6 DEF SessionOf, TerminalType, TerminalState
  <2>3. AtHome(b.attempt)
    BY <2>1, <2>2, HomeOfAttempt
       DEF ToolCallRecordedOK, ToolCallBody, AttemptTakesActivity
  <2> QED BY <1>6, <2>3 DEF References
<1>7. CASE d.type = "ObservationRecorded"
  <2>1. b \in ObservationBody /\ ObservationRecordedOK(d)
    BY <1>7, DraftBodies, ValidatedAs
  <2>2. s = AttemptSession(b.attempt)
    BY <1>7 DEF SessionOf, TerminalType, TerminalState
  <2>3. AtHome(b.attempt)
    BY <2>1, <2>2, HomeOfAttempt
       DEF ObservationRecordedOK, ObservationBody, AttemptTakesActivity
  <2>4. b.metric # None => AtHome(b.metric)
    BY <2>1, <2>2, HomeInSession
       DEF ObservationRecordedOK, ObservationBody, Opt, Entity
  <2> QED BY <1>7, <2>3, <2>4 DEF References
<1>8. CASE d.type = "ArtifactReferenced"
  <2>1. b \in ArtifactBody /\ ArtifactReferencedOK(d)
    BY <1>8, DraftBodies, ValidatedAs
  <2>2. s = b.session
    BY <1>8 DEF SessionOf, TerminalType, TerminalState
  <2>3. AtHome(b.session)
    BY <2>1, <2>2, HomeOfSession DEF ArtifactReferencedOK, ArtifactBody
  <2>4. AtHome(b.producer)
    BY <2>1, <2>2, NoneAssumption
       DEF Behind, ArtifactReferencedOK, ArtifactBody, Producer, Entity, Subject
  <2>5. \A p \in b.parents : AtHome(p)
    BY <2>1, <2>2, HomeInSession
       DEF ArtifactReferencedOK, ArtifactBody, Entity, Subject
  <2> QED BY <1>8, <2>3, <2>4, <2>5 DEF References
<1>9. CASE d.type = "MetricDeclared"
  <2>1. b \in MetricBody /\ MetricDeclaredOK(d)
    BY <1>9, DraftBodies, ValidatedAs
  <2>2. s = b.session
    BY <1>9 DEF SessionOf, TerminalType, TerminalState
  <2>3. AtHome(b.session)
    BY <2>1, <2>2, HomeOfSession DEF MetricDeclaredOK, MetricBody
  <2> QED BY <1>9, <2>3 DEF References
<1>10. CASE d.type = "FailureRecorded"
  <2>1. b \in FailureBody /\ FailureRecordedOK(d)
    BY <1>10, DraftBodies, ValidatedAs
  <2>2. s = Locate(b.scope)
    BY <1>10 DEF SessionOf, TerminalType, TerminalState
  <2>3. AtHome(b.scope)
    BY <2>1, <2>2 DEF Behind, FailureRecordedOK, FailureBody
  <2>4. b.recovery # None => AtHome(b.recovery)
    BY <2>1, <2>2, HomeInSession
       DEF FailureRecordedOK, FailureBody, Opt, Entity, Subject
  <2> QED BY <1>10, <2>3, <2>4 DEF References
<1>11. CASE d.type = "DecisionRecorded"
  <2>1. b \in DecisionBody /\ DecisionRecordedOK(d)
    BY <1>11, DraftBodies, ValidatedAs
  <2>2. s = b.session
    BY <1>11 DEF SessionOf, TerminalType, TerminalState
  <2>3. AtHome(b.session)
    BY <2>1, <2>2, HomeOfSession DEF DecisionRecordedOK, DecisionBody
  <2>4. AtHome(b.subject)
    BY <2>1, <2>2, NoneAssumption
       DEF Behind, DecisionRecordedOK, DecisionBody, Entity, Subject
  <2> QED BY <1>11, <2>3, <2>4 DEF References
<1>12. CASE d.type = "ResultDeclared"
  <2>1. b \in ResultBody /\ ResultDeclaredOK(d)
    BY <1>12, DraftBodies, ValidatedAs
  <2>2. s = b.session
    BY <1>12 DEF SessionOf, TerminalType, TerminalState
  <2>3. AtHome(b.session)
    BY <2>1, <2>2, HomeOfSession DEF ResultDeclaredOK, ResultBody
  <2>4. \A y \in b.support : AtHome(y)
    BY <2>1, <2>2, HomeInSession
       DEF ResultDeclaredOK, ResultBody, Support, Entity, Subject
  <2> QED BY <1>12, <2>3, <2>4 DEF References
<1>13. CASE d.type = "SessionClosed"
  <2>1. b \in SessionBody /\ SessionClosedOK(d)
    BY <1>13, DraftBodies, ValidatedAs
  <2>2. s = b.id
    BY <1>13 DEF SessionOf, TerminalType, TerminalState
  <2>3. AtHome(b.id)
    BY <2>1, <2>2, HomeOfSession DEF SessionClosedOK, SessionBody
  <2> QED BY <1>13, <2>3 DEF References
<1>14. CASE d.type = "SessionAnnotation"
  <2>1. b \in SessionBody /\ SessionAnnotationOK(d)
    BY <1>14, DraftBodies, ValidatedAs
  <2>2. s = b.id
    BY <1>14 DEF SessionOf, TerminalType, TerminalState
  <2>3. AtHome(b.id)
    BY <2>1, <2>2, HomeOfSession DEF SessionAnnotationOK, SessionBody
  <2> QED BY <1>14, <2>3 DEF References
<1>15. CASE d.type = "HypothesisStatusChanged"
  <2>1. b \in HypothesisChangeBody /\ HypothesisStatusChangedOK(d)
    BY <1>15, DraftBodies, ValidatedAs
  <2>2. s = Find(b.id).session
    BY <1>15 DEF SessionOf, TerminalType, TerminalState
  <2>3. AtHome(b.id)
    BY <2>1, <2>2, HomeOfFound, IdentityDomains
       DEF HypothesisStatusChangedOK, HypothesisChangeBody, Entity, Subject
  <2> QED BY <1>15, <2>3 DEF References
<1>16. CASE d.type = "ArtifactInvalidated"
  <2>1. b \in ArtifactInvalidationBody /\ ArtifactInvalidatedOK(d)
    BY <1>16, DraftBodies, ValidatedAs
  <2>2. s = Find(b.id).session
    BY <1>16 DEF SessionOf, TerminalType, TerminalState
  <2>3. AtHome(b.id)
    BY <2>1, <2>2, HomeOfFound, IdentityDomains
       DEF ArtifactInvalidatedOK, ArtifactInvalidationBody, Entity, Subject
  <2> QED BY <1>16, <2>3 DEF References
<1>17. CASE d.type = "ResultStatusChanged"
  <2>1. b \in ResultChangeBody /\ ResultStatusChangedOK(d)
    BY <1>17, DraftBodies, ValidatedAs
  <2>2. s = Find(b.id).session
    BY <1>17 DEF SessionOf, TerminalType, TerminalState
  <2>3. AtHome(b.id)
    BY <2>1, <2>2, HomeOfFound, IdentityDomains
       DEF ResultStatusChangedOK, ResultChangeBody, Entity, Subject
  <2> QED BY <1>17, <2>3 DEF References
<1>18. CASE d.type \in TerminalType
  <2>1. b \in AttemptEndBody /\ AttemptEndedOK(d)
    BY <1>18, DraftBodies, ValidatedAs
  <2>2. s = AttemptSession(b.id)
    BY <1>18 DEF SessionOf, TerminalType, TerminalState
  <2>3. AtHome(b.id)
    BY <2>1, <2>2, HomeOfAttempt DEF AttemptEndedOK, AttemptEndBody
  <2> QED BY <1>18, <2>3 DEF References, TerminalType, TerminalState
<1>19. CASE d.type = "AccountingRecorded"
  <2>1. b \in AccountingBody /\ AccountingRecordedOK(d)
    BY <1>19, DraftBodies, ValidatedAs
  <2>2. s = Locate(b.id)
    BY <1>19 DEF SessionOf, TerminalType, TerminalState
  <2>3. AtHome(b.id)
    BY <2>1, <2>2 DEF Behind, AccountingRecordedOK, AccountingBody
  <2> QED BY <1>19, <2>3 DEF References
<1> QED BY <1>1, <1>2, <1>3, <1>4, <1>5, <1>6, <1>7, <1>8, <1>9, <1>10, <1>11, <1>12, <1>13, <1>14, <1>15, <1>16, <1>17, <1>18, <1>19,
          DraftHeader DEF RecordType, TerminalType, TerminalState

(* Every draft but the one that opens a session names something found. *)
LEMMA RefersToSomething ==
  ASSUME NEW d \in Drafts, d.type # "SessionOpened"
  PROVE  \E x \in References(d) : x # None
<1> DEFINE b == d.body
<1>1. CASE d.type \in { "HypothesisDeclared", "ExperimentDeclared",
                        "BranchDeclared", "ArtifactReferenced",
                        "MetricDeclared", "DecisionRecorded",
                        "ResultDeclared" }
  <2>1. b.session \in Session
    BY <1>1, DraftBodies DEF HypothesisBody, ExperimentBody, BranchBody,
       ArtifactBody, MetricBody, DecisionBody, ResultBody
  <2>2. b.session \in References(d)
    BY <1>1 DEF References
  <2> QED BY <2>1, <2>2, NoneAssumption DEF Entity, Subject
<1>2. CASE d.type = "AttemptStarted"
  <2>1. b.experiment \in Experiment
    BY <1>2, DraftBodies DEF AttemptBody
  <2>2. b.experiment \in References(d)
    BY <1>2 DEF References
  <2> QED BY <2>1, <2>2, NoneAssumption DEF Entity, Subject
<1>3. CASE d.type \in ActivityType
  <2>1. b.attempt \in Attempt
    BY <1>3, DraftBodies DEF ActivityType, ModelCallBody, ToolCallBody,
       ObservationBody
  <2>2. b.attempt \in References(d)
    BY <1>3 DEF References, ActivityType
  <2> QED BY <2>1, <2>2, NoneAssumption DEF Entity, Subject
<1>4. CASE d.type = "FailureRecorded"
  <2>1. b.scope \in Subject
    BY <1>4, DraftBodies DEF FailureBody
  <2>2. b.scope \in References(d)
    BY <1>4 DEF References
  <2> QED BY <2>1, <2>2, NoneAssumption DEF Entity
<1>5. CASE d.type \in { "SessionClosed", "SessionAnnotation",
                        "HypothesisStatusChanged", "ArtifactInvalidated",
                        "ResultStatusChanged", "AccountingRecorded" }
                      \cup TerminalType
  <2>1. b.id \in Subject
    BY <1>5, DraftBodies DEF SessionBody, HypothesisChangeBody,
       ArtifactInvalidationBody, ResultChangeBody, AccountingBody,
       AttemptEndBody, Subject
  <2>2. b.id \in References(d)
    BY <1>5 DEF References, TerminalType, TerminalState
  <2> QED BY <2>1, <2>2, NoneAssumption DEF Entity
<1> QED BY <1>1, <1>2, <1>3, <1>4, <1>5, DraftHeader
        DEF RecordType, ActivityType, TerminalType, TerminalState

LEMMA SessionAtHome ==
  ASSUME TypeOK, NEW d \in Drafts, Validates(d), NEW g, Behind(d, g),
         d.type # "SessionOpened"
  PROVE  HasHome(g, Extended, SessionOf(d), SessionOf(d))
BY RefersToSomething, ReferencesAtHome, HomeHasHome

(* The records that change an entity rather than declare one. *)
ChangingType ==
  { "SessionClosed", "SessionAnnotation", "HypothesisStatusChanged",
    "ArtifactInvalidated", "ResultStatusChanged" } \cup TerminalType

LEMMA ChangedAtHome ==
  ASSUME TypeOK, NEW d \in Drafts, Validates(d), StagesTyped(d),
         NEW g, Behind(d, g), d.type \in ChangingType
  PROVE  /\ d.body.id \in Entity /\ Found(d.body.id)
         /\ HasHome(g, Extended, d.body.id, SessionOf(d))
<1>1. d.type # "SessionOpened" /\ d.type # "AccountingRecorded"
      /\ d.body.id \in References(d)
  BY DEF ChangingType, TerminalType, TerminalState, References
<1>2. d.body.id \in Entity
  BY <1>1 DEF StagesTyped
<1>3. HasHome(g, Extended, d.body.id, SessionOf(d))
  BY <1>1, <1>2, ReferencesAtHome, NoneAssumption
<1> QED BY <1>2, <1>3, FoundIsShown DEF HasHome

(* The session of a record but an annotation was not closed before. *)
LEMMA SessionIsOpen ==
  ASSUME TypeOK, NEW d \in Drafts, Validates(d), StagesTyped(d),
         NEW g, Behind(d, g), d.type # "SessionAnnotation"
  PROVE  \A i \in 1 .. Extended :
           ~TypedAbout(g, i, { "SessionClosed" }, SessionOf(d))
<1> DEFINE b == d.body
<1>0. SessionOf(d) \in Session /\ SessionOf(d) \in Entity
  BY DEF StagesTyped, Entity, Subject
<1>1. CASE d.type = "SessionOpened"
  <2>1. SessionOf(d) = b.id /\ ~Found(b.id)
    BY <1>1, ValidatedAs DEF SessionOf, SessionOpenedOK, Fresh,
       TerminalType, TerminalState
  <2> QED BY <1>0, <2>1, FoundIsShown DEF TypedAbout, About
<1>2. CASE d.type = "SessionClosed"
  <2>1. /\ SessionOf(d) = b.id /\ Found(b.id)
        /\ Find(b.id).state # "Closed"
    BY <1>2, ValidatedAs DEF SessionOf, SessionClosedOK, TerminalType,
       TerminalState
  <2> QED BY <1>0, <2>1, FoundIsShown DEF Shows, ShowsSession, Found
<1>3. CASE d.type \in RecordType \ { "SessionOpened", "SessionClosed",
                                     "SessionAnnotation" }
  <2>1. AcceptsResearch(SessionOf(d))
    <3>1. CASE d.type \in { "HypothesisDeclared", "ExperimentDeclared",
                            "BranchDeclared", "ArtifactReferenced",
                            "MetricDeclared", "DecisionRecorded",
                            "ResultDeclared" }
      <4>1. SessionOf(d) = b.session
        BY <3>1 DEF SessionOf, TerminalType, TerminalState
      <4> QED BY <3>1, <4>1, ValidatedAs
              DEF HypothesisDeclaredOK, ExperimentDeclaredOK,
              BranchDeclaredOK, ArtifactReferencedOK, MetricDeclaredOK,
              DecisionRecordedOK, ResultDeclaredOK
    <3>2. CASE d.type \in { "HypothesisStatusChanged",
                            "ArtifactInvalidated", "ResultStatusChanged" }
      <4>1. SessionOf(d) = Find(b.id).session
        BY <3>2 DEF SessionOf, TerminalType, TerminalState
      <4> QED BY <3>2, <4>1, ValidatedAs DEF HypothesisStatusChangedOK,
              ArtifactInvalidatedOK, ResultStatusChangedOK
    <3>3. CASE d.type = "AttemptStarted"
      BY <3>3, ValidatedAs DEF SessionOf, AttemptStartedOK, TerminalType,
         TerminalState
    <3>4. CASE d.type \in TerminalType
      <4>1. SessionOf(d) = AttemptSession(b.id)
        BY <3>4 DEF SessionOf, TerminalType, TerminalState
      <4> QED BY <3>4, <4>1, ValidatedAs DEF AttemptEndedOK
    <3>5. CASE d.type \in ActivityType
      <4>1. SessionOf(d) = AttemptSession(b.attempt)
        BY <3>5 DEF SessionOf, TerminalType, TerminalState, ActivityType
      <4>2. AttemptTakesActivity(b.attempt)
        BY <3>5, ValidatedAs DEF ActivityType, ModelCallRecordedOK,
           ToolCallRecordedOK, ObservationRecordedOK
      <4> QED BY <4>1, <4>2 DEF AttemptTakesActivity
    <3>6. CASE d.type = "FailureRecorded"
      BY <3>6, ValidatedAs DEF SessionOf, FailureRecordedOK, TerminalType,
         TerminalState
    <3>7. CASE d.type = "AccountingRecorded"
      BY <3>7, ValidatedAs DEF SessionOf, AccountingRecordedOK,
         TerminalType, TerminalState
    <3> QED BY <1>3, <3>1, <3>2, <3>3, <3>4, <3>5, <3>6, <3>7
            DEF RecordType, ActivityType, TerminalType, TerminalState
  <2> QED BY <1>0, <2>1, AcceptingIsOpen
<1> QED BY <1>1, <1>2, <1>3, DraftHeader

-----------------------------------------------------------------------------
(* A validated draft follows the history it was validated against.          *)

LEMMA FollowsNew ==
  ASSUME TypeOK, NEW d \in Drafts, Validates(d), StagesTyped(d),
         NEW g, Behind(d, g)
  PROVE  IsNew(g, Extended + 1)
<1>1. SUFFICES ASSUME d.type \in DeclaringType, NEW i \in 1 .. Extended
               PROVE  ~About(g, i, d.body.id)
  BY ExtendedIsNat DEF IsNew, Behind
<1>2. Fresh(d.body.id)
  BY <1>1, DeclaresFresh
<1>3. d.body.id \in Entity
  BY <1>1 DEF StagesTyped, DeclaringType
<1> QED BY <1>2, <1>3, FoundIsShown DEF Fresh

LEMMA FollowsEnds ==
  ASSUME TypeOK, NEW d \in Drafts, Validates(d), NEW g, Behind(d, g)
  PROVE  EndsOnce(g, Extended + 1)
<1>1. SUFFICES ASSUME d.type \in TerminalType, NEW i \in 1 .. Extended
               PROVE  ~TypedAbout(g, i, TerminalType, d.body.id)
  BY ExtendedIsNat DEF EndsOnce, Behind
<1>2. d.body.id \in Attempt /\ AttemptEndedOK(d)
  BY <1>1, DraftBodies, ValidatedAs DEF AttemptEndBody
<1>3. Found(d.body.id) /\ Find(d.body.id).state = "Running"
  BY <1>2 DEF AttemptEndedOK, AttemptFound, MayEnd
<1>4. d.body.id \in Entity
  BY <1>2 DEF Entity, Subject
<1> QED BY <1>2, <1>3, <1>4, FoundIsShown DEF Shows, ShowsAttempt, Found

LEMMA FollowsClosure ==
  ASSUME TypeOK, NEW d \in Drafts, Validates(d), StagesTyped(d),
         NEW g, Behind(d, g)
  PROVE  RespectsClosure(g, Extended + 1)
BY SessionIsOpen, ExtendedIsNat DEF RespectsClosure, Behind

LEMMA FollowsCancellation ==
  ASSUME TypeOK, NEW d \in Drafts, Validates(d), NEW g, Behind(d, g)
  PROVE  RespectsCancellation(g, Extended + 1)
<1> DEFINE a == d.body.attempt
<1>1. SUFFICES ASSUME d.type \in ActivityType, NEW i \in 1 .. Extended
               PROVE  ~TypedAbout(g, i, { "AttemptCancelled" }, a)
  BY ExtendedIsNat DEF RespectsCancellation, Behind
<1>2. a \in Attempt /\ AttemptTakesActivity(a)
  BY <1>1, DraftBodies, ValidatedAs DEF ActivityType, ModelCallBody,
     ToolCallBody, ObservationBody, ModelCallRecordedOK, ToolCallRecordedOK,
     ObservationRecordedOK
<1>3. Found(a) /\ Find(a).state # "Cancelled" /\ a \in Entity
  BY <1>2 DEF AttemptTakesActivity, AttemptFound, Entity, Subject
<1> QED BY <1>2, <1>3, FoundIsShown DEF Shows, ShowsAttempt, Found

LEMMA FollowsReferences ==
  ASSUME TypeOK, NEW d \in Drafts, Validates(d), NEW g, Behind(d, g)
  PROVE  PointsBack(g, Extended + 1)
<1> DEFINE m == Extended + 1
<1> SUFFICES PointsBack(g, m)
  OBVIOUS
<1>1. m - 1 = Extended /\ g[m].draft = d /\ g[m].session = SessionOf(d)
  BY ExtendedIsNat DEF Behind
<1> HIDE DEF m
<1>2. d.type # "SessionOpened" =>
        \A x \in References(d) \ { None } :
          HasHome(g, Extended, x, SessionOf(d))
  BY ReferencesAtHome
<1> QED BY <1>1, <1>2 DEF PointsBack

LEMMA FollowsHome ==
  ASSUME TypeOK, NEW d \in Drafts, Validates(d), StagesTyped(d),
         NEW g, Behind(d, g)
  PROVE  KeepsSession(g, Extended + 1) /\ IsAtHome(g, Extended + 1)
<1> DEFINE n == Extended
           x == d.body.id
           s == SessionOf(d)
<1>1. n \in Nat /\ \A i \in 1 .. n : i \in 1 .. n + 1
  BY ExtendedIsNat
<1>2. g[n + 1].draft = d /\ g[n + 1].session = s
      /\ g[n + 1].subject = PrimarySubject(d)
  BY DEF Behind
<1>3. d.type # "AccountingRecorded" => HasHome(g, n + 1, x, s)
  BY <1>1, <1>2 DEF HasHome, About
<1>4. \A y, t : HasHome(g, n, y, t) => HasHome(g, n + 1, y, t)
  BY <1>1 DEF HasHome
<1>5. KeepsSession(g, n + 1)
  <2>1. SUFFICES ASSUME d.type # "AccountingRecorded", x \notin Artifact,
                        NEW i \in 1 .. n, About(g, i, x)
                 PROVE  g[i].session = s
    BY <1>1, <1>2 DEF KeepsSession
  <2>2. HasHome(g, n, x, g[i].session) /\ x \in Entity
    BY <2>1 DEF HasHome, StagesTyped
  <2>3. Found(x)
    BY <2>1, <2>2, FoundIsShown
  <2>4. d.type \notin DeclaringType
    BY <2>3, DeclaresFresh DEF Fresh
  <2>5. d.type # "ArtifactReferenced"
    BY <2>1, DraftBodies DEF ArtifactBody
  <2>6. d.type \in ChangingType
    BY <2>1, <2>4, <2>5, DraftHeader DEF ChangingType, DeclaringType,
       RecordType, TerminalType, TerminalState
  <2> QED BY <2>1, <2>2, <2>6, ChangedAtHome, OneHome
<1>6. HasHome(g, n + 1, s, s)
  <2>1. CASE d.type = "SessionOpened"
    <3>1. s = x
      BY <2>1 DEF SessionOf, TerminalType, TerminalState
    <3> QED BY <2>1, <3>1, <1>3
  <2>2. CASE d.type # "SessionOpened"
    BY <2>2, <1>4, SessionAtHome
  <2> QED BY <2>1, <2>2
<1>7. HasHome(g, n + 1, PrimarySubject(d), s)
  <2>1. CASE d.type = "MetricDeclared"
    <3>1. PrimarySubject(d) = s
      BY <2>1 DEF SessionOf, PrimarySubject, TerminalType, TerminalState
    <3> QED BY <3>1, <1>6
  <2>2. CASE d.type = "AccountingRecorded"
    <3>1. x \in References(d) /\ x \in Subject /\ PrimarySubject(d) = x
      BY <2>2, DraftBodies DEF References, AccountingBody, PrimarySubject
    <3> QED BY <2>2, <3>1, <1>4, ReferencesAtHome, NoneAssumption DEF Entity
  <2>3. CASE d.type \notin { "MetricDeclared", "AccountingRecorded" }
    BY <2>3, <1>3 DEF PrimarySubject
  <2> QED BY <2>1, <2>2, <2>3
<1>8. d.type \in SessionRecord => s = x
  BY DEF SessionOf, SessionRecord, TerminalType, TerminalState
<1> QED BY <1>2, <1>5, <1>6, <1>7, <1>8 DEF IsAtHome

LEMMA FollowsDecision ==
  ASSUME TypeOK, NEW d \in Drafts, Validates(d), NEW g, Behind(d, g)
  PROVE  IsDecided(g, Extended + 1)
<1> DEFINE b == d.body
<1>1. SUFFICES
        ASSUME d.type = "ResultStatusChanged"
        PROVE  \E i \in 1 .. Extended :
                 /\ TypedAbout(g, i, { "DecisionRecorded" }, b.decision)
                 /\ g[i].draft.body.subject = b.id
                 /\ b.to \in StatusesOfOutcome[g[i].draft.body.outcome]
  BY ExtendedIsNat DEF IsDecided, Behind
<1>2. b.decision \in Decision /\ ResultStatusChangedOK(d)
  BY <1>1, DraftBodies, ValidatedAs DEF ResultChangeBody
<1>3. /\ Found(b.decision) /\ b.decision \in Entity
      /\ Find(b.decision).subject = b.id
      /\ b.to \in StatusesOfOutcome[Find(b.decision).outcome]
  BY <1>2 DEF ResultStatusChangedOK, Authorizes, Entity, Subject
<1> QED BY <1>2, <1>3, FoundIsShown DEF Shows, ShowsDecision, Found

LEMMA FollowsChain ==
  ASSUME TypeOK, NEW d \in Drafts, Validates(d), NEW g, Behind(d, g)
  PROVE  GoesOn(g, Extended + 1)
<1> DEFINE b == d.body
           earlier == ChangesUpTo(g, Extended, b.id)
<1>1. SUFFICES
        ASSUME d.type \in ChangeType
        PROVE  /\ b.generation = Cardinality(earlier) + 2
               /\ earlier = {} => b.from \in { "Candidate", "Proposed" }
               /\ earlier # {} => \E i \in earlier :
                                    /\ \A k \in earlier : k <= i
                                    /\ b.from = g[i].draft.body.to
  BY ExtendedIsNat DEF GoesOn, Behind
<1>2. /\ b.id \in Hypothesis \cup Result
      /\ Found(b.id) /\ NextRevision(b)
  BY <1>1, DraftBodies, ValidatedAs DEF ChangeType, HypothesisChangeBody,
     ResultChangeBody, HypothesisStatusChangedOK, ResultStatusChangedOK
<1>3. b.id \in Entity
  BY <1>2 DEF Entity, Subject
<1>4. ShowsChanges(g, Extended, b.id, Find(b.id))
  BY <1>2, <1>3, FoundIsShown DEF Shows, Found
<1>5. earlier \in SUBSET (1 .. Extended)
  BY DEF ChangesUpTo
<1>6. Cardinality(earlier) \in Nat
  <2>1. IsFiniteSet(1 .. Extended)
    BY ExtendedIsNat, FS_Interval
  <2> QED BY <1>5, <2>1, FS_Subset, FS_CardinalityType
<1>7. b.generation = Find(b.id).generation + 1 /\ b.from = Find(b.id).status
  BY <1>2 DEF NextRevision, NextRevisionOf
<1>8. /\ Find(b.id).generation = Cardinality(earlier) + 1
      /\ earlier = {} => Find(b.id).status \in { "Candidate", "Proposed" }
      /\ earlier # {} => \E i \in earlier :
                           /\ \A k \in earlier : k <= i
                           /\ Find(b.id).status = g[i].draft.body.to
  BY <1>4 DEF ShowsChanges
<1> QED BY <1>6, <1>7, <1>8

LEMMA ValidatedFollows ==
  ASSUME TypeOK, NEW d \in Drafts, Validates(d), StagesTyped(d),
         NEW g, Behind(d, g)
  PROVE  Follows(g, Extended + 1)
BY FollowsNew, FollowsEnds, FollowsClosure, FollowsCancellation,
   FollowsReferences, FollowsHome, FollowsDecision, FollowsChain DEF Follows

-----------------------------------------------------------------------------
(* The entity a validated draft stages shows the history that ends with it. *)

LEMMA BodyKinds ==
  ASSUME NEW d \in Drafts
  PROVE  /\ d.type \in SessionRecord => d.body.id \in Session
         /\ d.type \in { "HypothesisDeclared", "HypothesisStatusChanged" } =>
              d.body.id \in Hypothesis
         /\ d.type = "ExperimentDeclared" => d.body.id \in Experiment
         /\ d.type = "BranchDeclared" => d.body.id \in Branch
         /\ d.type \in { "AttemptStarted" } \cup TerminalType =>
              d.body.id \in Attempt
         /\ d.type = "ModelCallRecorded" => d.body.id \in ModelCall
         /\ d.type = "ToolCallRecorded" => d.body.id \in ToolCall
         /\ d.type \in { "ArtifactReferenced", "ArtifactInvalidated" } =>
              d.body.id \in Artifact
         /\ d.type = "MetricDeclared" => d.body.id \in Metric
         /\ d.type = "ObservationRecorded" => d.body.id \in Observation
         /\ d.type = "FailureRecorded" => d.body.id \in Failure
         /\ d.type = "DecisionRecorded" => d.body.id \in Decision
         /\ d.type \in { "ResultDeclared", "ResultStatusChanged" } =>
              d.body.id \in Result
BY DraftBodies DEF SessionRecord, SessionBody, HypothesisBody,
   HypothesisChangeBody, ExperimentBody, BranchBody, AttemptBody,
   AttemptEndBody, ModelCallBody, ToolCallBody, ArtifactBody,
   ArtifactInvalidationBody, MetricBody, ObservationBody, FailureBody,
   DecisionBody, ResultBody, ResultChangeBody

(* The record types about an entity of a kind. *)
LEMMA TypesOfKinds ==
  ASSUME NEW d \in Drafts, d.type # "AccountingRecorded"
  PROVE  /\ d.body.id \in Session => d.type \in SessionRecord
         /\ d.body.id \in Attempt =>
              d.type \in { "AttemptStarted" } \cup TerminalType
         /\ d.body.id \in ModelCall \cup ToolCall =>
              d.type \in { "ModelCallRecorded", "ToolCallRecorded" }
         /\ d.body.id \in Decision => d.type = "DecisionRecorded"
         /\ d.body.id \in Hypothesis \cup Result =>
              d.type \in { "HypothesisDeclared", "ResultDeclared" }
                         \cup ChangeType
<1>1. d.type \in RecordType
  BY DraftHeader
<1> QED BY <1>1, BodyKinds, IdentityDomains
        DEF RecordType, SessionRecord, ChangeType, TerminalType,
        TerminalState

LEMMA EntitySession ==
  ASSUME TypeOK, NEW d \in Drafts, Validates(d), StagesTyped(d),
         NEW g, Behind(d, g), d.type # "AccountingRecorded",
         d.body.id \notin Attempt \cup ModelCall \cup ToolCall
  PROVE  EntityOf(d).session = SessionOf(d)
<1> DEFINE b == d.body
<1>1. CASE d.type = "SessionOpened"
  BY <1>1 DEF EntityOf, SessionOf, SessionOpenedEntity, TerminalType,
     TerminalState
<1>2. CASE d.type \in { "SessionClosed", "SessionAnnotation" }
  <2>1. b.id \in Session /\ b.id \in Entity /\ Found(b.id)
    BY <1>2, BodyKinds, ChangedAtHome DEF SessionRecord, ChangingType
  <2>2. Find(b.id) \in SessionView /\ Find(b.id).session = b.id
    BY <2>1, FoundKinds, FoundIsShown DEF Shows, ShowsSession, Found
  <2>3. EntityOf(d).session = Find(b.id).session
    <3>1. CASE d.type = "SessionClosed"
      <4>1. EntityOf(d) = SessionClosedEntity(d)
        BY <3>1 DEF EntityOf, TerminalType, TerminalState
      <4> QED BY <2>2, <4>1 DEF SessionClosedEntity, SessionView
    <3>2. CASE d.type = "SessionAnnotation"
      BY <3>2 DEF EntityOf, SessionAnnotationEntity, TerminalType,
         TerminalState
    <3> QED BY <1>2, <3>1, <3>2
  <2> QED BY <1>2, <2>2, <2>3 DEF SessionOf, TerminalType, TerminalState
<1>3. CASE d.type \in { "HypothesisDeclared", "ExperimentDeclared",
                        "BranchDeclared", "ArtifactReferenced",
                        "MetricDeclared", "DecisionRecorded",
                        "ResultDeclared" }
  <2>1. SessionOf(d) = b.session
    BY <1>3 DEF SessionOf, TerminalType, TerminalState
  <2>2. EntityOf(d).session = b.session
    BY <1>3 DEF EntityOf, TerminalType, TerminalState,
       HypothesisDeclaredEntity, ExperimentDeclaredEntity,
       BranchDeclaredEntity, ArtifactReferencedEntity,
       MetricDeclaredEntity, DecisionRecordedEntity, ResultDeclaredEntity
  <2> QED BY <2>1, <2>2
<1>4. CASE d.type = "HypothesisStatusChanged"
  <2>1. b.id \in Hypothesis /\ Found(b.id)
    BY <1>4, BodyKinds, ChangedAtHome DEF ChangingType
  <2>2. Find(b.id) \in HypothesisView
    BY <2>1, FoundKinds
  <2>3. EntityOf(d) = HypothesisStatusChangedEntity(d)
    BY <1>4 DEF EntityOf, TerminalType, TerminalState
  <2>4. EntityOf(d).session = Find(b.id).session
    BY <2>2, <2>3 DEF HypothesisStatusChangedEntity, HypothesisView
  <2> QED BY <1>4, <2>4 DEF SessionOf, TerminalType, TerminalState
<1>5. CASE d.type = "ArtifactInvalidated"
  <2>1. b.id \in Artifact /\ Found(b.id)
    BY <1>5, BodyKinds, ChangedAtHome DEF ChangingType
  <2>2. Find(b.id) \in ArtifactView
    BY <2>1, FoundKinds
  <2>3. EntityOf(d) = ArtifactInvalidatedEntity(d)
    BY <1>5 DEF EntityOf, TerminalType, TerminalState
  <2>4. EntityOf(d).session = Find(b.id).session
    BY <2>2, <2>3 DEF ArtifactInvalidatedEntity, ArtifactView
  <2> QED BY <1>5, <2>4 DEF SessionOf, TerminalType, TerminalState
<1>6. CASE d.type = "ResultStatusChanged"
  <2>1. b.id \in Result /\ Found(b.id)
    BY <1>6, BodyKinds, ChangedAtHome DEF ChangingType
  <2>2. Find(b.id) \in ResultView
    BY <2>1, FoundKinds
  <2>3. EntityOf(d) = ResultStatusChangedEntity(d)
    BY <1>6 DEF EntityOf, TerminalType, TerminalState
  <2>4. EntityOf(d).session = Find(b.id).session
    BY <2>2, <2>3 DEF ResultStatusChangedEntity, ResultView
  <2> QED BY <1>6, <2>4 DEF SessionOf, TerminalType, TerminalState
<1>7. CASE d.type \in { "ObservationRecorded", "FailureRecorded" }
  BY <1>7 DEF EntityOf, SessionOf, TerminalType, TerminalState,
     ObservationRecordedEntity, FailureRecordedEntity
<1>8. CASE d.type \in { "AttemptStarted", "ModelCallRecorded",
                        "ToolCallRecorded" } \cup TerminalType
  BY <1>8, BodyKinds
<1> QED BY <1>1, <1>2, <1>3, <1>4, <1>5, <1>6, <1>7, <1>8, DraftHeader
        DEF RecordType, TerminalType, TerminalState

LEMMA StagedShowsSession ==
  ASSUME TypeOK, NEW d \in Drafts, Validates(d), StagesTyped(d),
         NEW g, Behind(d, g), d.type \in SessionRecord
  PROVE  ShowsSession(g, Extended + 1, d.body.id, EntityOf(d))
<1> DEFINE x == d.body.id
           n == Extended
<1>1. /\ n \in Nat /\ g[n + 1].draft = d
      /\ \A i \in 1 .. n + 1 : i \in 1 .. n \/ i = n + 1
      /\ \A i \in 1 .. n : i \in 1 .. n + 1
      /\ n + 1 \in 1 .. n + 1
  BY ExtendedIsNat DEF Behind
<1>2. x \in Session /\ x \in Entity
  BY BodyKinds DEF Entity, Subject
<1>3. EntityOf(d).session = x
  <2>1. d.type # "AccountingRecorded" /\ SessionOf(d) = x
    BY DEF SessionOf, SessionRecord, TerminalType, TerminalState
  <2>2. x \notin Attempt \cup ModelCall \cup ToolCall
    BY <1>2, IdentityDomains
  <2> QED BY <2>1, <2>2, EntitySession
<1>4. CASE d.type = "SessionOpened"
  <2>1. ~Found(x)
    BY <1>4, DeclaresFresh DEF DeclaringType, Fresh
  <2>2. \A i \in 1 .. n : ~TypedAbout(g, i, { "SessionClosed" }, x)
    BY <1>2, <2>1, FoundIsShown DEF TypedAbout, About
  <2>3. ~TypedAbout(g, n + 1, { "SessionClosed" }, x)
    BY <1>1, <1>4 DEF TypedAbout
  <2>4. EntityOf(d).state = "Open"
    BY <1>4 DEF EntityOf, SessionOpenedEntity, TerminalType, TerminalState
  <2> QED BY <1>1, <1>3, <2>2, <2>3, <2>4 DEF ShowsSession
<1>5. CASE d.type = "SessionClosed"
  <2>1. Found(x)
    BY <1>5, ChangedAtHome DEF ChangingType
  <2>2. Find(x) \in SessionView
    BY <1>2, <2>1, FoundKinds
  <2>3. EntityOf(d) = SessionClosedEntity(d)
    BY <1>5 DEF EntityOf, TerminalType, TerminalState
  <2>4. EntityOf(d).state = "Closed"
    BY <2>2, <2>3 DEF SessionClosedEntity, SessionView
  <2>5. TypedAbout(g, n + 1, { "SessionClosed" }, x)
    BY <1>1, <1>5 DEF TypedAbout
  <2> QED BY <1>1, <1>3, <2>4, <2>5 DEF ShowsSession
<1>6. CASE d.type = "SessionAnnotation"
  <2>1. Found(x) /\ EntityOf(d) = Find(x)
    BY <1>6, ChangedAtHome DEF ChangingType, EntityOf,
       SessionAnnotationEntity, TerminalType, TerminalState
  <2>2. ShowsSession(g, n, x, Find(x))
    BY <1>2, <2>1, FoundIsShown DEF Shows, Found
  <2>3. ~TypedAbout(g, n + 1, { "SessionClosed" }, x)
    BY <1>1, <1>6 DEF TypedAbout
  <2> QED BY <1>1, <2>1, <2>2, <2>3 DEF ShowsSession
<1> QED BY <1>4, <1>5, <1>6 DEF SessionRecord

LEMMA StagedShowsAttempt ==
  ASSUME TypeOK, NEW d \in Drafts, Validates(d), StagesTyped(d),
         NEW g, Behind(d, g),
         d.type \in { "AttemptStarted" } \cup TerminalType
  PROVE  ShowsAttempt(g, Extended + 1, d.body.id, EntityOf(d))
<1> DEFINE x == d.body.id
           n == Extended
<1>1. /\ n \in Nat /\ g[n + 1].draft = d
      /\ \A i \in 1 .. n + 1 : i \in 1 .. n \/ i = n + 1
      /\ \A i \in 1 .. n : i \in 1 .. n + 1
      /\ n + 1 \in 1 .. n + 1
  BY ExtendedIsNat DEF Behind
<1>2. x \in Attempt /\ x \in Entity
  BY BodyKinds DEF Entity, Subject
<1>3. CASE d.type = "AttemptStarted"
  <2>1. ~Found(x)
    BY <1>3, DeclaresFresh DEF DeclaringType, Fresh
  <2>2. \A i \in 1 .. n : ~About(g, i, x)
    BY <1>2, <2>1, FoundIsShown
  <2>3. \A i \in 1 .. n + 1 : ~TypedAbout(g, i, TerminalType, x)
    BY <1>1, <1>3, <2>2 DEF TypedAbout, About, TerminalType, TerminalState
  <2>4. \A i \in 1 .. n + 1 : ~TypedAbout(g, i, { "AttemptCancelled" }, x)
    BY <2>3 DEF TypedAbout, TerminalType, TerminalState
  <2>5. /\ EntityOf(d).state = "Running"
        /\ EntityOf(d).experiment = d.body.experiment
    BY <1>3 DEF EntityOf, AttemptStartedEntity, TerminalType, TerminalState
  <2>6. TypedAbout(g, n + 1, { "AttemptStarted" }, x)
    BY <1>1, <1>3 DEF TypedAbout
  <2> QED BY <1>1, <2>3, <2>4, <2>5, <2>6 DEF ShowsAttempt
<1>4. CASE d.type \in TerminalType
  <2>1. Found(x) /\ AttemptEndedOK(d)
    BY <1>4, ChangedAtHome, ValidatedAs DEF ChangingType
  <2>2. Find(x) \in AttemptView /\ Find(x).state = "Running"
    BY <1>2, <2>1, AttemptSessions DEF AttemptEndedOK, MayEnd
  <2>3. EntityOf(d) = AttemptEndedEntity(d)
    BY <1>4 DEF EntityOf, TerminalType, TerminalState
  <2>4. /\ EntityOf(d).state = TerminalState[d.type]
        /\ EntityOf(d).experiment = Find(x).experiment
    BY <2>2, <2>3 DEF AttemptEndedEntity, AttemptView
  <2>5. ShowsAttempt(g, n, x, Find(x))
    BY <1>2, <2>1, FoundIsShown DEF Shows, Found
  <2>6. TypedAbout(g, n + 1, TerminalType, x)
    BY <1>1, <1>4 DEF TypedAbout
  <2>7. EntityOf(d).state # "Running"
    BY <1>4, <2>4 DEF TerminalType, TerminalState
  <2>8. EntityOf(d).state = "Cancelled" <=>
          \E i \in 1 .. n + 1 : TypedAbout(g, i, { "AttemptCancelled" }, x)
    <3>1. \A i \in 1 .. n : ~TypedAbout(g, i, { "AttemptCancelled" }, x)
      BY <2>2, <2>5 DEF ShowsAttempt
    <3>2. TypedAbout(g, n + 1, { "AttemptCancelled" }, x) <=>
            d.type = "AttemptCancelled"
      BY <1>1 DEF TypedAbout
    <3>3. TerminalState[d.type] = "Cancelled" <=> d.type = "AttemptCancelled"
      BY <1>4 DEF TerminalType, TerminalState
    <3> QED BY <1>1, <2>4, <3>1, <3>2, <3>3
  <2>9. \E i \in 1 .. n + 1 :
          /\ TypedAbout(g, i, { "AttemptStarted" }, x)
          /\ g[i].draft.body.experiment = EntityOf(d).experiment
    BY <1>1, <2>4, <2>5 DEF ShowsAttempt
  <2> QED BY <1>1, <2>6, <2>7, <2>8, <2>9 DEF ShowsAttempt
<1> QED BY <1>3, <1>4

LEMMA StagedShowsCall ==
  ASSUME TypeOK, NEW d \in Drafts, NEW g, Behind(d, g),
         d.type \in { "ModelCallRecorded", "ToolCallRecorded" }
  PROVE  ShowsCall(g, Extended + 1, d.body.id, EntityOf(d))
<1>1. g[Extended + 1].draft = d /\ Extended + 1 \in 1 .. Extended + 1
  BY ExtendedIsNat DEF Behind
<1>2. EntityOf(d).attempt = d.body.attempt
  BY DEF EntityOf, ModelCallRecordedEntity, ToolCallRecordedEntity,
     TerminalType, TerminalState
<1> QED BY <1>1, <1>2 DEF ShowsCall, TypedAbout

LEMMA StagedShowsDecision ==
  ASSUME TypeOK, NEW d \in Drafts, NEW g, Behind(d, g),
         d.type = "DecisionRecorded"
  PROVE  ShowsDecision(g, Extended + 1, d.body.id, EntityOf(d))
<1>1. g[Extended + 1].draft = d /\ Extended + 1 \in 1 .. Extended + 1
  BY ExtendedIsNat DEF Behind
<1>2. /\ EntityOf(d).subject = d.body.subject
      /\ EntityOf(d).outcome = d.body.outcome
  BY DEF EntityOf, DecisionRecordedEntity, TerminalType, TerminalState
<1> QED BY <1>1, <1>2 DEF ShowsDecision, TypedAbout

LEMMA StagedShowsChanges ==
  ASSUME TypeOK, NEW d \in Drafts, Validates(d), StagesTyped(d),
         NEW g, Behind(d, g),
         d.type \in { "HypothesisDeclared", "ResultDeclared" }
                    \cup ChangeType
  PROVE  ShowsChanges(g, Extended + 1, d.body.id, EntityOf(d))
<1> DEFINE x == d.body.id
           n == Extended
           before == ChangesUpTo(g, n, x)
           after == ChangesUpTo(g, n + 1, x)
           v == EntityOf(d)
<1>1. /\ n \in Nat /\ g[n + 1].draft = d
      /\ \A i \in 1 .. n + 1 : i \in 1 .. n \/ i = n + 1
      /\ \A i \in 1 .. n : i \in 1 .. n + 1 /\ i <= n + 1
      /\ n + 1 \in 1 .. n + 1 /\ n + 1 \notin 1 .. n
  BY ExtendedIsNat DEF Behind
<1>2. x \in Hypothesis \cup Result /\ x \in Entity
  BY BodyKinds DEF Entity, Subject, ChangeType
<1>3. CASE d.type \in { "HypothesisDeclared", "ResultDeclared" }
  <2>1. ~Found(x)
    BY <1>3, DeclaresFresh DEF DeclaringType, Fresh
  <2>2. \A i \in 1 .. n : ~About(g, i, x)
    BY <1>2, <2>1, FoundIsShown
  <2>3. after = {}
    BY <1>1, <1>3, <2>2 DEF ChangesUpTo, TypedAbout, About, ChangeType
  <2>4. v.generation = 1 /\ v.status \in { "Candidate", "Proposed" }
    BY <1>3 DEF EntityOf, HypothesisDeclaredEntity, ResultDeclaredEntity,
       TerminalType, TerminalState
  <2>5. Cardinality(after) = 0
    BY <2>3, FS_EmptySet
  <2> QED BY <2>3, <2>4, <2>5 DEF ShowsChanges
<1>4. CASE d.type \in ChangeType
  <2>1. Found(x) /\ NextRevision(d.body)
    BY <1>4, ValidatedAs DEF ChangeType, HypothesisStatusChangedOK,
       ResultStatusChangedOK
  <2>2. v.generation = d.body.generation /\ v.status = d.body.to
    <3>1. CASE d.type = "HypothesisStatusChanged"
      <4>1. v = HypothesisStatusChangedEntity(d)
        BY <3>1 DEF EntityOf, TerminalType, TerminalState
      <4>2. Find(x) \in HypothesisView
        BY <2>1, <3>1, BodyKinds, FoundKinds
      <4> QED BY <4>1, <4>2
              DEF HypothesisStatusChangedEntity, HypothesisView
    <3>2. CASE d.type = "ResultStatusChanged"
      <4>1. v = ResultStatusChangedEntity(d)
        BY <3>2 DEF EntityOf, TerminalType, TerminalState
      <4>2. Find(x) \in ResultView
        BY <2>1, <3>2, BodyKinds, FoundKinds
      <4> QED BY <4>1, <4>2 DEF ResultStatusChangedEntity, ResultView
    <3> QED BY <1>4, <3>1, <3>2 DEF ChangeType
  <2>3. after = before \cup { n + 1 } /\ n + 1 \notin before
    BY <1>1, <1>4 DEF ChangesUpTo, TypedAbout
  <2>4. IsFiniteSet(before)
    <3>1. before \in SUBSET (1 .. n)
      BY DEF ChangesUpTo
    <3>2. IsFiniteSet(1 .. n)
      BY <1>1, FS_Interval
    <3> QED BY <3>1, <3>2, FS_Subset
  <2>5. /\ Cardinality(after) = Cardinality(before) + 1
        /\ Cardinality(before) \in Nat
    BY <2>3, <2>4, FS_AddElement, FS_CardinalityType
  <2>6. ShowsChanges(g, n, x, Find(x))
    BY <1>2, <2>1, FoundIsShown DEF Shows, Found
  <2>7. v.generation = Cardinality(after) + 1
    BY <2>1, <2>2, <2>5, <2>6 DEF ShowsChanges, NextRevision,
       NextRevisionOf
  <2>8. \A k \in after : k <= n + 1
    BY <1>1, <2>3 DEF ChangesUpTo
  <2>9. /\ n + 1 \in after
        /\ v.status = g[n + 1].draft.body.to
    BY <1>1, <2>2, <2>3
  <2> QED BY <2>7, <2>8, <2>9 DEF ShowsChanges
<1> QED BY <1>3, <1>4

LEMMA ValidatedShows ==
  ASSUME TypeOK, NEW d \in Drafts, Validates(d), StagesTyped(d),
         NEW g, Behind(d, g), d.type # "AccountingRecorded"
  PROVE  Shows(g, Extended + 1, d.body.id, EntityOf(d))
<1> DEFINE x == d.body.id
           m == Extended + 1
           v == EntityOf(d)
<1> SUFFICES Shows(g, m, x, v)
  OBVIOUS
<1>1. m \in 1 .. m /\ g[m].draft = d /\ g[m].session = SessionOf(d)
  BY ExtendedIsNat DEF Behind
<1>2. About(g, m, x)
  BY <1>1 DEF About
<1>3. v # None
  BY ViewIsView, NoneAssumption DEF StagesTyped
<1>4. x \in Session => ShowsSession(g, m, x, v)
  BY TypesOfKinds, StagedShowsSession
<1>5. x \in Attempt => ShowsAttempt(g, m, x, v)
  BY TypesOfKinds, StagedShowsAttempt
<1>6. x \in ModelCall \cup ToolCall => ShowsCall(g, m, x, v)
  BY TypesOfKinds, StagedShowsCall
<1>7. x \in Decision => ShowsDecision(g, m, x, v)
  BY TypesOfKinds, StagedShowsDecision
<1>8. x \in Hypothesis \cup Result => ShowsChanges(g, m, x, v)
  BY TypesOfKinds, StagedShowsChanges
<1>9. x \notin Attempt \cup ModelCall \cup ToolCall =>
        HasHome(g, m, x, v.session)
  BY <1>1, <1>2, EntitySession DEF HasHome
<1> QED BY <1>1, <1>2, <1>3, <1>4, <1>5, <1>6, <1>7, <1>8, <1>9 DEF Shows

(* The entity a draft declares refers to what the draft refers to. *)
LEMMA StagedCarries ==
  ASSUME NEW d \in Drafts, NEW id
  PROVE  Carries(StagedEntity(d, id))
<1>1. CASE d.type = "HypothesisDeclared"
  BY <1>1 DEF Carries, StagedEntity, EntityOf, HypothesisDeclaredEntity,
     ActivityType, TerminalType, TerminalState
<1>2. CASE d.type = "ExperimentDeclared"
  BY <1>2 DEF Carries, StagedEntity, EntityOf, ExperimentDeclaredEntity,
     ActivityType, TerminalType, TerminalState
<1>3. CASE d.type = "AttemptStarted"
  BY <1>3 DEF Carries, StagedEntity, EntityOf, AttemptStartedEntity,
     ActivityType, TerminalType, TerminalState
<1>4. CASE d.type \in ActivityType
  BY <1>4 DEF Carries, StagedEntity, EntityOf, ModelCallRecordedEntity,
     ToolCallRecordedEntity, ObservationRecordedEntity, ActivityType,
     TerminalType, TerminalState
<1>5. CASE d.type \in { "ResultDeclared", "BranchDeclared" }
  BY <1>5 DEF Carries, StagedEntity, EntityOf, ResultDeclaredEntity,
     BranchDeclaredEntity, ActivityType, TerminalType, TerminalState
<1>6. CASE d.type = "FailureRecorded"
  BY <1>6 DEF Carries, StagedEntity, EntityOf, FailureRecordedEntity,
     SessionOf, ActivityType, TerminalType, TerminalState
<1>7. CASE d.type = "ArtifactReferenced"
  BY <1>7 DEF Carries, StagedEntity, EntityOf, ArtifactReferencedEntity,
     ActivityType, TerminalType, TerminalState
<1>8. CASE d.type \notin { "HypothesisDeclared", "ExperimentDeclared",
                           "AttemptStarted", "ResultDeclared",
                           "BranchDeclared", "FailureRecorded",
                           "ArtifactReferenced" } \cup ActivityType
  BY <1>8 DEF Carries, StagedEntity
<1> QED BY <1>1, <1>2, <1>3, <1>4, <1>5, <1>6, <1>7, <1>8

-----------------------------------------------------------------------------
(***************************************************************************)
(* The steps of the commit path preserve LifeInv, and with it the           *)
(* properties of life cycles and references that the runs check.            *)
(***************************************************************************)

(* How a step moves the sequence of records and staged entries. *)

LEMMA WholeStaged ==
  ASSUME TypeOK, NEW s \in Entry, staged' = Append(staged, s),
         records' = records
  PROVE  /\ Extended' = Extended + 1
         /\ Agree(Whole', Whole, Extended)
         /\ Whole'[Extended + 1] = StagedRecord(s)
         /\ Len(staged') = Len(staged) + 1
         /\ \A k \in 1 .. Len(staged) : staged'[k] = staged[k]
         /\ staged'[Len(staged) + 1] = s
<1>1. /\ Len(records) \in Nat /\ Len(staged) \in Nat
      /\ Len(records') = Len(records) /\ Len(staged') = Len(staged) + 1
      /\ \A k \in 1 .. Len(staged) : staged'[k] = staged[k]
      /\ staged'[Len(staged) + 1] = s
  BY SequencesOfTheStep
<1>2. Extended' = Extended + 1 /\ Extended \in Nat
  BY <1>1 DEF Extended
<1>3. ASSUME NEW i \in 1 .. Extended
      PROVE  Whole'[i] = Whole[i]
  BY <1>1, <1>2, <1>3 DEF Whole, Extended
<1>4. Whole'[Extended + 1] = StagedRecord(s)
  BY <1>1, <1>2 DEF Whole, Extended
<1> QED BY <1>1, <1>2, <1>3, <1>4 DEF Agree

LEMMA WholeApplied ==
  ASSUME TypeOK, AppliesOne
  PROVE  /\ Extended' = Extended
         /\ Whole' = Whole
         /\ Len(records') = Len(records) + 1
         /\ Len(staged) \in Nat \ { 0 } /\ Len(staged') = Len(staged) - 1
         /\ \A k \in 1 .. Len(staged) - 1 : staged'[k] = staged[k + 1]
         /\ Whole[Len(records) + 1] = StagedRecord(staged[1])
<1>1. /\ Len(records) \in Nat /\ Len(staged) \in Nat
      /\ Len(staged) >= 1 /\ Head(staged) = staged[1]
      /\ Head(staged) \in Entry
      /\ Len(records') = Len(records) + 1 /\ Len(staged') = Len(staged) - 1
      /\ \A k \in 1 .. Len(staged) - 1 : staged'[k] = staged[k + 1]
      /\ \A i \in 1 .. Len(records) : records'[i] = records[i]
  BY SequencesOfTheStep, AppliedRecord DEF AppliesOne
<1>2. Extended' = Extended /\ Extended \in Nat
  BY <1>1 DEF Extended
<1>3. records'[Len(records) + 1] = StagedRecord(staged[1])
  BY <1>1 DEF AppliesOne, StagedRecord
<1>4. ASSUME NEW i \in 1 .. Extended
      PROVE  Whole'[i] = Whole[i]
  <2>1. CASE i <= Len(records)
    BY <1>1, <1>2, <2>1 DEF Whole, Extended
  <2>2. CASE i = Len(records) + 1
    BY <1>1, <1>2, <1>3, <2>2 DEF Whole, Extended
  <2>3. CASE i > Len(records) + 1
    <3>1. staged'[i - Len(records')] = staged[i - Len(records)]
      BY <1>1, <1>2, <2>3 DEF Extended
    <3> QED BY <1>1, <1>2, <2>3, <3>1 DEF Whole, Extended
  <2> QED BY <1>1, <1>2, <2>1, <2>2, <2>3
<1>5. Whole' = Whole
  BY <1>2, <1>4 DEF Whole
<1>6. Whole[Len(records) + 1] = StagedRecord(staged[1])
  BY <1>1 DEF Whole, Extended
<1> QED BY <1>1, <1>2, <1>5, <1>6

LEMMA WholeDropped ==
  ASSUME TypeOK, records' = records, staged' = << >>
  PROVE  /\ Extended' = Len(records) /\ Len(records) <= Extended
         /\ Len(records) \in Nat /\ Extended \in Nat
         /\ Agree(Whole', Whole, Len(records))
<1>1. /\ Len(records) \in Nat /\ Len(staged) \in Nat
      /\ Len(records') = Len(records) /\ Len(staged') = 0
  BY SequencesOfTheStep
<1>2. Extended' = Len(records) /\ Len(records) <= Extended
      /\ Extended \in Nat
  BY <1>1 DEF Extended
<1>3. ASSUME NEW i \in 1 .. Len(records)
      PROVE  Whole'[i] = Whole[i]
  BY <1>1, <1>2 DEF Whole, Extended
<1> QED BY <1>1, <1>2, <1>3 DEF Agree

-----------------------------------------------------------------------------
(* Staging *)

LEMMA StagingIsBehind ==
  ASSUME TypeOK, LifeInv, NEW d \in Drafts, NEW id,
         StagedEntity(d, id) \in Entry,
         staged' = Append(staged, StagedEntity(d, id)), records' = records
  PROVE  Behind(d, Whole')
<1> DEFINE g == Whole'
<1>1. /\ Agree(g, Whole, Extended)
      /\ g[Extended + 1] = StagedRecord(StagedEntity(d, id))
  BY WholeStaged
<1> HIDE DEF g
<1>2. Extended \in Nat /\ Len(records) \in Nat /\ Len(records) <= Extended
  BY SequencesOfTheStep, ExtendedIsNat DEF Extended
<1>3. \A i \in 1 .. Extended : Follows(g, i)
  BY <1>1, <1>2, AgreeOnFollows DEF LifeInv, HistoryInv
<1>4. \A x \in Entity : Shows(g, Extended, x, Find(x))
  BY <1>1, <1>2, AgreeOnShows DEF LifeInv, FoundViewsInv
<1>5. ASSUME NEW x \in Subject, Locate(x) # None
      PROVE  HasHome(g, Extended, x, Locate(x))
  <2>1. HasHome(Whole, Extended, x, Locate(x))
    BY <1>2, <1>5 DEF LifeInv, PlacesInv, Locate, HasHome
  <2>2. Extended \in 0 .. Extended
    BY <1>2
  <2> QED BY <1>1, <1>2, <2>1, <2>2, AgreeOnPlaces
<1>6. /\ g[Extended + 1].draft = d
      /\ g[Extended + 1].session = SessionOf(d)
      /\ g[Extended + 1].subject = PrimarySubject(d)
  BY <1>1 DEF StagedRecord, StagedEntity
<1> QED BY <1>3, <1>4, <1>5, <1>6 DEF Behind, g

LEMMA StageKeepsLife ==
  ASSUME TypeOK, LifeInv, NEW d \in Drafts, StageNext(d)
  PROVE  LifeInv'
<1> DEFINE id == IF d.record_id = None THEN Sequence ELSE d.record_id
           s == StagedEntity(d, id)
           g == Whole'
           n == Extended
<1>1. /\ StagesTyped(d) /\ Stage(d) /\ TypeOK'
  BY StageNextKeepsTypes
<1>2. Validates(d)
  BY StagedIsValid
<1>3. s \in Entry /\ EntityFitsKey(s)
  <2>1. id \in RecordId \cup Nat
    BY DraftHeader, SequenceIsNat DEF Opt
  <2> QED BY <1>1, <2>1, TypedEntry
<1>4. /\ staged' = Append(staged, s)
      /\ latest' = IF s.key = None THEN latest
                   ELSE [ latest EXCEPT ![s.key] = s.entity ]
      /\ front' = [ front EXCEPT ![s.subject] =
                      IF @ = None THEN s.session ELSE @ ]
      /\ records' = records /\ view' = view
      /\ subject_index' = subject_index
  BY <1>1 DEF Stage, committed
<1>5. /\ s.draft = d /\ s.subject = PrimarySubject(d)
      /\ s.session = SessionOf(d) /\ s.entity = EntityOf(d)
      /\ s.key = None <=> d.type = "AccountingRecorded"
      /\ s.key # None => s.key = d.body.id /\ s.key \in Entity
  BY <1>1, <1>3 DEF StagedEntity, EntityFitsKey, StagesTyped
<1>6. Carries(s)
  BY StagedCarries
<1>7. Behind(d, g)
  BY <1>3, <1>4, StagingIsBehind
<1>8. /\ Extended' = n + 1
      /\ Agree(g, Whole, n)
      /\ g[n + 1] = StagedRecord(s)
      /\ Len(staged') = Len(staged) + 1
      /\ \A k \in 1 .. Len(staged) : staged'[k] = staged[k]
      /\ staged'[Len(staged) + 1] = s
  BY <1>3, <1>4, WholeStaged
<1>9. /\ n \in Nat /\ Len(records) \in Nat /\ Len(staged) \in Nat
      /\ n = Len(records) + Len(staged)
  BY SequencesOfTheStep, ExtendedIsNat DEF Extended
<1> HIDE DEF id, s, g
<1>10. \A i \in 1 .. n + 1 : Follows(g, i)
  <2>1. Follows(g, n + 1)
    BY <1>1, <1>2, <1>7, ValidatedFollows
  <2> QED BY <1>7, <1>9, <2>1 DEF Behind
<1>11. s.key # None => Shows(g, n + 1, s.key, s.entity)
  BY <1>1, <1>2, <1>5, <1>7, ValidatedShows
<1>12. ASSUME NEW x \in Entity
       PROVE  Shows(g, n + 1, x, Find(x)')
  <2>1. CASE x = s.key
    <3>1. s.key # None
      BY <1>5, <1>12, <2>1, NoneAssumption
    <3>2. latest'[x] = s.entity
      BY <1>4, <2>1, <3>1 DEF TypeOK
    <3>3. s.entity # None
      BY <1>3, <1>5, <3>1, ViewIsView, NoneAssumption DEF EntityFitsKey
    <3> QED BY <1>11, <2>1, <3>1, <3>2, <3>3 DEF Find
  <2>2. CASE x # s.key
    <3>1. Find(x)' = Find(x)
      BY <1>4, <2>2 DEF Find, TypeOK
    <3>2. ~About(g, n + 1, x)
      BY <1>5, <1>8, <2>2 DEF About, StagedRecord
    <3>3. Shows(g, n, x, Find(x))
      BY <1>7 DEF Behind
    <3> QED BY <1>9, <3>1, <3>2, <3>3, ShowsOfOthers
  <2> QED BY <2>1, <2>2
<1>13. \A x \in Entity : Shows(g, Len(records), x, view[x])
  <2>1. Agree(g, Whole, Len(records))
    BY <1>8, <1>9 DEF Agree
  <2> QED BY <1>9, <2>1, AgreeOnShows DEF LifeInv, CommittedViewsInv
<1>14. ASSUME NEW k \in 1 .. Len(staged')
       PROVE  /\ Carries(staged'[k])
              /\ staged'[k].key # None =>
                   /\ latest'[staged'[k].key] # None
                   /\ Shows(g, Len(records) + k, staged'[k].key,
                            staged'[k].entity)
  <2>1. CASE k \in 1 .. Len(staged)
    <3>1. staged'[k] = staged[k] /\ Carries(staged[k])
      BY <1>8, <2>1 DEF LifeInv, StagedViewsInv
    <3>2. SUFFICES ASSUME staged[k].key # None
                   PROVE  /\ latest'[staged[k].key] # None
                          /\ Shows(g, Len(records) + k, staged[k].key,
                                   staged[k].entity)
      BY <3>1
    <3>3. /\ latest[staged[k].key] # None
          /\ Shows(Whole, Len(records) + k, staged[k].key,
                   staged[k].entity)
      BY <2>1, <3>2 DEF LifeInv, StagedViewsInv
    <3>4. Agree(g, Whole, Len(records) + k) /\ Len(records) + k \in Nat
      BY <1>8, <1>9, <2>1 DEF Agree
    <3>5. Shows(g, Len(records) + k, staged[k].key, staged[k].entity)
      BY <3>3, <3>4, AgreeOnShows
    <3>6. latest'[staged[k].key] # None
      <4>1. s.key # None => s.entity # None
        BY <1>3, <1>5, ViewIsView, NoneAssumption DEF EntityFitsKey
      <4>2. staged[k].key \in Entity
        <5>1. staged[k] \in Entry
          BY <2>1 DEF TypeOK
        <5> QED BY <3>2, <5>1 DEF Entry, Opt
      <4> QED BY <1>4, <3>3, <4>1, <4>2 DEF TypeOK
    <3> QED BY <3>5, <3>6
  <2>2. CASE k = Len(staged) + 1
    <3>1. staged'[k] = s /\ Len(records) + k = n + 1
      BY <1>8, <1>9, <2>2
    <3>2. s.key # None => latest'[s.key] # None
      BY <1>3, <1>4, <1>5, ViewIsView, NoneAssumption
         DEF EntityFitsKey, TypeOK
    <3> QED BY <1>6, <1>11, <3>1, <3>2
  <2> QED BY <1>8, <1>9, <2>1, <2>2
<1>15. ASSUME NEW x \in Subject
       PROVE  /\ subject_index'[x] # None =>
                   HasHome(g, Len(records), x, subject_index'[x])
              /\ front'[x] # None => HasHome(g, n + 1, x, front'[x])
  <2>1. \A y, t : HasHome(Whole, n, y, t) => HasHome(g, n + 1, y, t)
    BY <1>8, <1>9 DEF Agree, HasHome, About
  <2>2. \A y, t : HasHome(Whole, Len(records), y, t) =>
                    HasHome(g, Len(records), y, t)
    BY <1>8, <1>9 DEF Agree, HasHome, About
  <2>3. HasHome(g, n + 1, s.subject, s.session)
    <3>1. IsAtHome(g, n + 1)
      BY <1>9, <1>10 DEF Follows
    <3> QED BY <1>8, <3>1 DEF IsAtHome, StagedRecord
  <2>4. \/ front'[x] = front[x]
        \/ x = s.subject /\ front'[x] = s.session
    BY <1>4 DEF TypeOK
  <2>5. /\ subject_index[x] # None =>
             HasHome(Whole, Len(records), x, subject_index[x])
        /\ front[x] # None => HasHome(Whole, n, x, front[x])
    BY DEF LifeInv, PlacesInv
  <2>6. front'[x] # None => HasHome(g, n + 1, x, front'[x])
    BY <2>1, <2>3, <2>4, <2>5
  <2>7. subject_index'[x] # None =>
          HasHome(g, Len(records), x, subject_index'[x])
    BY <1>4, <2>2, <2>5
  <2> QED BY <2>6, <2>7
<1>16. HistoryInv'
  BY <1>8, <1>10 DEF HistoryInv, g
<1>17. FoundViewsInv'
  BY <1>8, <1>12 DEF FoundViewsInv, g
<1>18. CommittedViewsInv'
  BY <1>4, <1>13 DEF CommittedViewsInv, g
<1>19. StagedViewsInv'
  BY <1>4, <1>14 DEF StagedViewsInv, g
<1>20. PlacesInv'
  BY <1>4, <1>8, <1>15 DEF PlacesInv, g
<1> QED BY <1>16, <1>17, <1>18, <1>19, <1>20 DEF LifeInv

-----------------------------------------------------------------------------
(* Applying *)

(* The index after an entry is applied: its own slot holds its entity, and  *)
(* another slot may have gained a link.                                     *)
LEMMA EnteredViews ==
  ASSUME TypeOK, NEW e \in Entry, EntityFitsKey(e), Apply(e),
         NEW x \in Entity, x # e.key, NEW n \in Nat, NEW h,
         Shows(h, n, x, view[x])
  PROVE  Shows(h, n, x, view'[x])
<1>1. view' = AppliedView(e)
  BY DEF Apply
<1>2. CASE x \in LinkTargets(e) /\ view[x] # None
  <2>1. view'[x] = [ view[x] EXCEPT !.links = @ \cup { e.key } ]
    BY <1>1, <1>2 DEF AppliedView
  <2>2. x \in Linked /\ e.key \in Entity
    BY <1>2, LinkTargetsTyped
  <2>3. ViewOf(x, view[x]) /\ view[x] \in View
    BY <1>2, ViewIsView DEF TypeOK
  <2> QED BY <2>1, <2>2, <2>3, ShowsWithLinks
<1>3. CASE ~(x \in LinkTargets(e) /\ view[x] # None)
  BY <1>1, <1>3 DEF AppliedView
<1> QED BY <1>2, <1>3

LEMMA AppliedViews ==
  ASSUME TypeOK, ApplyNext, NEW x \in Entity, NEW n \in Nat, NEW h,
         Shows(h, n, x, view[x]), x # staged[1].key
  PROVE  Shows(h, n, x, view'[x])
<1> DEFINE e == Head(staged)
<1>1. Apply(e) /\ e = staged[1] /\ e \in Entry /\ EntityFitsKey(e)
  <2>1. staged # << >> /\ Apply(e)
    BY DEF ApplyNext
  <2>2. e = staged[1] /\ e \in Entry /\ 1 \in DOMAIN staged
    BY <2>1, SequencesOfTheStep
  <2> QED BY <2>1, <2>2 DEF TypeOK
<1> HIDE DEF e
<1> QED BY <1>1, EnteredViews

LEMMA ApplyKeepsLife ==
  ASSUME TypeOK, LifeInv, ApplyNext
  PROVE  LifeInv'
<1> DEFINE e == staged[1]
           n == Len(records)
<1>1. /\ AppliesOne /\ Apply(e)
      /\ UNCHANGED << latest, front >>
  <2>1. staged # << >> /\ Apply(Head(staged))
    BY DEF ApplyNext
  <2>2. Head(staged) = e
    BY <2>1, SequencesOfTheStep
  <2> QED BY <2>1, <2>2 DEF ApplyNext, Apply, AppliesOne
<1>2. /\ Extended' = Extended /\ Whole' = Whole
      /\ Len(records') = n + 1
      /\ Len(staged) \in Nat \ { 0 } /\ Len(staged') = Len(staged) - 1
      /\ \A k \in 1 .. Len(staged) - 1 : staged'[k] = staged[k + 1]
      /\ Whole[n + 1] = StagedRecord(e)
  BY <1>1, WholeApplied
<1>3. n \in Nat /\ Extended = n + Len(staged)
  BY SequencesOfTheStep DEF Extended
<1>4. /\ e \in Entry /\ EntityFitsKey(e) /\ 1 \in 1 .. Len(staged)
  BY <1>2, SequencesOfTheStep DEF TypeOK
<1>5. e.key # None =>
        /\ latest[e.key] # None
        /\ Shows(Whole, n + 1, e.key, e.entity)
  BY <1>4 DEF LifeInv, StagedViewsInv
<1>6. e.key # None => e.key \in Entity /\ view'[e.key] = e.entity
  BY <1>1, <1>4 DEF Apply, AppliedView, Entry, Opt
<1>7. ASSUME NEW x \in Entity
      PROVE  Shows(Whole, n + 1, x, view'[x])
  <2>1. CASE x = e.key
    BY <1>5, <1>6, <2>1, NoneAssumption
  <2>2. CASE x # e.key
    <3>1. ~About(Whole, n + 1, x)
      BY <1>2, <1>4, <2>2 DEF About, StagedRecord, EntityFitsKey
    <3>2. Shows(Whole, n, x, view[x])
      BY DEF LifeInv, CommittedViewsInv
    <3>3. Shows(Whole, n + 1, x, view[x])
      BY <1>3, <3>1, <3>2, ShowsOfOthers
    <3> QED BY <1>3, <2>2, <3>3, AppliedViews
  <2> QED BY <2>1, <2>2
<1>8. ASSUME NEW x \in Entity
      PROVE  Shows(Whole, Extended, x, Find(x)')
  <2>1. Shows(Whole, Extended, x, Find(x)) /\ latest' = latest
    BY <1>1 DEF LifeInv, FoundViewsInv
  <2>2. CASE latest[x] # None
    BY <2>1, <2>2 DEF Find
  <2>3. CASE latest[x] = None
    <3>1. x # e.key
      BY <1>5, <1>8, <2>3, NoneAssumption
    <3>2. Find(x) = view[x] /\ Find(x)' = view'[x]
      BY <2>1, <2>3 DEF Find
    <3>3. Shows(Whole, Extended, x, view[x])
      BY <2>1, <3>2
    <3>4. Shows(Whole, Extended, x, view'[x])
      BY <3>1, <3>3, AppliedViews, ExtendedIsNat
    <3> QED BY <3>2, <3>4
  <2> QED BY <2>2, <2>3
<1>9. ASSUME NEW k \in 1 .. Len(staged')
      PROVE  /\ Carries(staged'[k])
             /\ staged'[k].key # None =>
                  /\ latest'[staged'[k].key] # None
                  /\ Shows(Whole, n + 1 + k, staged'[k].key,
                           staged'[k].entity)
  <2>0. k \in 1 .. Len(staged) - 1
    BY <1>2, <1>9
  <2>3. staged'[k] = staged[k + 1]
    BY <1>2, <2>0
  <2>4. k + 1 \in 1 .. Len(staged) /\ n + 1 + k = n + (k + 1)
    <3> DEFINE l == Len(staged)
    <3>1. l \in Nat /\ k \in 1 .. l - 1
      BY <1>2, <2>0
    <3>2. n \in Nat
      BY <1>3
    <3> HIDE DEF l, n
    <3>3. k + 1 \in 1 .. l /\ n + 1 + k = n + (k + 1)
      BY <3>1, <3>2
    <3> QED BY <3>3 DEF l
  <2>1. k + 1 \in 1 .. Len(staged) /\ staged'[k] = staged[k + 1]
        /\ n + 1 + k = n + (k + 1)
    BY <2>3, <2>4
  <2>2. /\ Carries(staged[k + 1])
        /\ staged[k + 1].key # None =>
             /\ latest[staged[k + 1].key] # None
             /\ Shows(Whole, n + (k + 1), staged[k + 1].key,
                      staged[k + 1].entity)
    BY <2>1 DEF LifeInv, StagedViewsInv
  <2> QED BY <1>1, <2>1, <2>2
<1>10. ASSUME NEW x \in Subject
       PROVE  /\ subject_index'[x] # None =>
                   HasHome(Whole, n + 1, x, subject_index'[x])
              /\ front'[x] # None => HasHome(Whole, Extended, x, front'[x])
  <2>1. HasHome(Whole, n + 1, e.subject, e.session)
    <3>1. IsAtHome(Whole, n + 1)
      BY <1>2, <1>3 DEF LifeInv, HistoryInv, Follows
    <3> QED BY <1>2, <3>1 DEF IsAtHome, StagedRecord
  <2>2. \/ subject_index'[x] = subject_index[x]
        \/ x = e.subject /\ subject_index'[x] = e.session
    BY <1>1 DEF Apply, TypeOK
  <2>3. /\ subject_index[x] # None =>
             HasHome(Whole, n, x, subject_index[x])
        /\ front[x] # None => HasHome(Whole, Extended, x, front[x])
    BY DEF LifeInv, PlacesInv
  <2>4. \A t : HasHome(Whole, n, x, t) => HasHome(Whole, n + 1, x, t)
    BY <1>3 DEF HasHome
  <2> QED BY <1>1, <2>1, <2>2, <2>3, <2>4
<1>11. HistoryInv'
  BY <1>2 DEF LifeInv, HistoryInv
<1>12. FoundViewsInv'
  BY <1>2, <1>8 DEF FoundViewsInv
<1>13. CommittedViewsInv'
  BY <1>2, <1>7 DEF CommittedViewsInv
<1>14. StagedViewsInv'
  BY <1>2, <1>9 DEF StagedViewsInv
<1>15. PlacesInv'
  BY <1>2, <1>10 DEF PlacesInv
<1> QED BY <1>11, <1>12, <1>13, <1>14, <1>15 DEF LifeInv

-----------------------------------------------------------------------------
(* The other steps *)

LEMMA DropKeepsLife ==
  ASSUME TypeOK, LifeInv, DropBatch, UNCHANGED committed
  PROVE  LifeInv'
<1> DEFINE n == Len(records)
           g == Whole'
<1>1. /\ records' = records /\ view' = view
      /\ subject_index' = subject_index /\ staged' = << >>
      /\ latest' = NothingStaged /\ front' = NowhereStaged
  BY DEF DropBatch, committed
<1>2. /\ Extended' = n /\ Len(records') = n /\ n <= Extended
      /\ n \in Nat /\ Extended \in Nat
      /\ Agree(g, Whole, n)
  BY <1>1, WholeDropped
<1> HIDE DEF g
<1>3. \A i \in 1 .. n : Follows(g, i)
  BY <1>2, AgreeOnFollows DEF LifeInv, HistoryInv
<1>4. \A x \in Entity : Shows(g, n, x, view[x])
  BY <1>2, AgreeOnShows DEF LifeInv, CommittedViewsInv
<1>5. \A x \in Entity : Find(x)' = view[x]
  BY <1>1 DEF Find, NothingStaged
<1>6. ASSUME NEW x \in Subject, subject_index[x] # None
      PROVE  HasHome(g, n, x, subject_index[x])
  <2>1. HasHome(Whole, n, x, subject_index[x]) /\ n \in 0 .. n
    BY <1>2, <1>6 DEF LifeInv, PlacesInv
  <2> QED BY <1>2, <2>1, AgreeOnPlaces
<1>7. HistoryInv'
  BY <1>2, <1>3 DEF HistoryInv, g
<1>8. FoundViewsInv'
  BY <1>2, <1>4, <1>5 DEF FoundViewsInv, g
<1>9. CommittedViewsInv'
  BY <1>1, <1>2, <1>4 DEF CommittedViewsInv, g
<1>10. StagedViewsInv'
  BY <1>1 DEF StagedViewsInv
<1>11. PlacesInv'
  BY <1>1, <1>2, <1>6 DEF PlacesInv, NowhereStaged, g
<1> QED BY <1>7, <1>8, <1>9, <1>10, <1>11 DEF LifeInv

LEMMA LifeStep ==
  ASSUME TypeOK, LifeInv, [Next]_vars
  PROVE  LifeInv'
<1>1. ASSUME NEW d \in Drafts, StageNext(d)
      PROVE  LifeInv'
  BY <1>1, StageKeepsLife
<1>2. ASSUME NEW d \in Drafts, Reject(d)
      PROVE  LifeInv'
  BY <1>2, DropKeepsLife DEF Reject
<1>3. CASE Finish
  BY <1>3, DropKeepsLife DEF Finish
<1>4. CASE ApplyNext
  BY <1>4, ApplyKeepsLife
<1>5. ASSUME UNCHANGED << records, view, subject_index, staged, latest,
                          front >>
      PROVE  LifeInv'
  BY <1>5 DEF LifeInv, HistoryInv, FoundViewsInv, CommittedViewsInv,
     StagedViewsInv, PlacesInv, Whole, Extended, Find
<1>6. ASSUME NEW d \in Drafts, RecognizeRepeat(d)
      PROVE  LifeInv'
  BY <1>5, <1>6 DEF RecognizeRepeat, committed
<1>7. CASE Commit \/ UNCHANGED vars
  BY <1>5, <1>7 DEF Commit, vars, committed, batch
<1> QED BY <1>1, <1>2, <1>3, <1>4, <1>6, <1>7 DEF Next

LEMMA LifeInit == Init => LifeInv
<1> SUFFICES ASSUME Init PROVE LifeInv
  OBVIOUS
<1>1. Len(records) = 0 /\ Len(staged) = 0 /\ Extended = 0
  BY DEF Init, Extended
<1>2. \A x \in Entity : view[x] = None /\ latest[x] = None /\ Find(x) = None
  BY DEF Init, NothingStaged, Find
<1>3. \A x \in Entity : Shows(Whole, 0, x, None)
  BY DEF Shows
<1>4. \A x \in Subject : subject_index[x] = None /\ front[x] = None
  BY DEF Init, NowhereStaged
<1> QED BY <1>1, <1>2, <1>3, <1>4 DEF LifeInv, HistoryInv, FoundViewsInv,
        CommittedViewsInv, StagedViewsInv, PlacesInv

(* Whatever batches are validated, dropped or applied, every record of the  *)
(* history and every staged entry behind it is right after those before it, *)
(* and every index shows the history it was built from.                     *)
THEOREM LifeInvariant == Spec => [](TypeOK /\ LifeInv)
BY LifeInit, LifeStep, TypeCorrect, PTL DEF Spec

-----------------------------------------------------------------------------
(* What the invariant says of the committed history. *)

LEMMA CommittedHistory ==
  ASSUME TypeOK, LifeInv
  PROVE  /\ Len(records) \in Nat /\ DOMAIN records = 1 .. Len(records)
         /\ \A i \in 1 .. Len(records) : Follows(records, i)
         /\ \A x \in Entity : Shows(records, Len(records), x, view[x])
         /\ \A i \in 1 .. Len(records) : records[i].draft \in Drafts
         /\ \A x, types : \A i : i \in Of(x, types) <=>
              i \in 1 .. Len(records) /\ TypedAbout(records, i, types, x)
<1> DEFINE n == Len(records)
<1>1. n \in Nat /\ DOMAIN records = 1 .. n /\ n <= Extended
      /\ \A i \in 1 .. n : records[i].draft \in Drafts
  <2>1. Len(staged) \in Nat /\ records \in Seq(Record)
    BY DEF TypeOK
  <2>2. n \in Nat /\ DOMAIN records = 1 .. n
    BY <2>1
  <2>3. \A i \in 1 .. n : records[i] \in Record
    BY <2>1
  <2> QED BY <2>1, <2>2, <2>3 DEF Extended, Record
<1>2. Agree(records, Whole, n)
  <2>1. \A i \in 1 .. n : i \in 1 .. Extended
    BY <1>1, ExtendedIsNat
  <2> QED BY <1>1, <2>1 DEF Agree, Whole
<1>3. \A i \in 1 .. n : Follows(records, i)
  <2>1. \A i \in 1 .. n : Follows(Whole, i)
    BY <1>1, ExtendedIsNat DEF LifeInv, HistoryInv
  <2> QED BY <1>1, <1>2, <2>1, AgreeOnFollows
<1>4. \A x \in Entity : Shows(records, n, x, view[x])
  BY <1>1, <1>2, AgreeOnShows DEF LifeInv, CommittedViewsInv
<1>5. \A x, types : \A i : i \in Of(x, types) <=>
        i \in 1 .. n /\ TypedAbout(records, i, types, x)
  BY <1>1 DEF Of, Types, TypedAbout
<1> QED BY <1>1, <1>3, <1>4, <1>5

LEMMA LifeExcludesTerminals ==
  ASSUME TypeOK, LifeInv
  PROVE  TerminalExclusive
<1>1. SUFFICES ASSUME NEW a \in Attempt, NEW i \in Of(a, TerminalType),
                      NEW j \in Of(a, TerminalType), i < j
               PROVE  FALSE
  <2>1. ASSUME NEW a \in Attempt, NEW i \in Of(a, TerminalType),
               NEW j \in Of(a, TerminalType)
        PROVE  i = j
    <3>1. i \in Nat /\ j \in Nat
      BY CommittedHistory
    <3> QED BY <1>1, <2>1, <3>1
  <2> QED BY <2>1 DEF TerminalExclusive
<1>2. /\ i \in 1 .. Len(records) /\ TypedAbout(records, i, TerminalType, a)
      /\ j \in 1 .. Len(records) /\ TypedAbout(records, j, TerminalType, a)
  BY CommittedHistory
<1>3. EndsOnce(records, j) /\ i \in 1 .. j - 1
  BY <1>1, <1>2, CommittedHistory DEF Follows
<1> QED BY <1>2, <1>3 DEF EndsOnce, TypedAbout

LEMMA LifeKeepsClosed ==
  ASSUME TypeOK, LifeInv
  PROVE  ClosedSessionsStayClosed
<1>1. SUFFICES ASSUME NEW i \in Types({ "SessionClosed" }),
                      NEW j \in DOMAIN records, j > i,
                      records[j].session = records[i].session,
                      records[j].draft.type # "SessionAnnotation"
               PROVE  FALSE
  BY DEF ClosedSessionsStayClosed
<1>2. /\ i \in 1 .. Len(records) /\ j \in 1 .. Len(records)
      /\ records[i].draft.type = "SessionClosed"
  BY CommittedHistory DEF Types
<1>3. records[i].session = records[i].draft.body.id
  BY <1>2, CommittedHistory DEF Follows, IsAtHome, SessionRecord
<1>4. RespectsClosure(records, j) /\ i \in 1 .. j - 1
  BY <1>1, <1>2, CommittedHistory DEF Follows
<1> QED BY <1>1, <1>2, <1>3, <1>4 DEF RespectsClosure, TypedAbout

LEMMA LifeKeepsQuiet ==
  ASSUME TypeOK, LifeInv
  PROVE  CancelledAttemptsStayQuiet
<1>1. SUFFICES
        ASSUME NEW i \in Types({ "AttemptCancelled" }),
               NEW j \in Types({ "ModelCallRecorded", "ToolCallRecorded",
                                 "ObservationRecorded" }),
               records[j].draft.body.attempt = records[i].draft.body.id
        PROVE  j < i
  BY DEF CancelledAttemptsStayQuiet
<1>2. /\ i \in 1 .. Len(records) /\ j \in 1 .. Len(records)
      /\ records[i].draft.type = "AttemptCancelled"
      /\ records[j].draft.type \in ActivityType
  BY CommittedHistory DEF Types, ActivityType
<1>3. RespectsCancellation(records, j)
  BY <1>2, CommittedHistory DEF Follows
<1>4. i \notin 1 .. j - 1
  BY <1>1, <1>2, <1>3 DEF RespectsCancellation, TypedAbout
<1>5. i # j
  BY <1>2 DEF ActivityType
<1> QED BY <1>2, <1>4, <1>5, CommittedHistory

LEMMA LifeAuthorizesChanges ==
  ASSUME TypeOK, LifeInv
  PROVE  StatusChangesAuthorized
<1>1. SUFFICES
        ASSUME NEW j \in Types({ "ResultStatusChanged" })
        PROVE  LET change == records[j].draft.body IN
               \E i \in Of(change.decision, { "DecisionRecorded" }) :
                 /\ i < j
                 /\ records[i].draft.body.subject = change.id
                 /\ change.to
                      \in StatusesOfOutcome[records[i].draft.body.outcome]
  BY DEF StatusChangesAuthorized
<1> DEFINE change == records[j].draft.body
<1>2. j \in 1 .. Len(records) /\ IsDecided(records, j)
      /\ records[j].draft.type = "ResultStatusChanged"
  BY CommittedHistory DEF Types, Follows
<1>3. PICK i \in 1 .. j - 1 :
        /\ TypedAbout(records, i, { "DecisionRecorded" }, change.decision)
        /\ records[i].draft.body.subject = change.id
        /\ change.to \in StatusesOfOutcome[records[i].draft.body.outcome]
  BY <1>2 DEF IsDecided
<1>4. i < j /\ i \in 1 .. Len(records)
  BY <1>2, CommittedHistory
<1>5. i \in Of(change.decision, { "DecisionRecorded" })
  BY <1>3, <1>4, CommittedHistory
<1> QED BY <1>3, <1>4, <1>5

LEMMA LifePointsBack ==
  ASSUME TypeOK, LifeInv
  PROVE  ReferencesPointBack
<1>1. SUFFICES
        ASSUME NEW j \in DOMAIN records,
               records[j].draft.type # "SessionOpened",
               NEW x \in References(records[j].draft) \ { None }
        PROVE  \E i \in Of(x, RecordType \ { "AccountingRecorded" }) :
                 i < j /\ records[i].session = records[j].session
  BY DEF ReferencesPointBack
<1>2. j \in 1 .. Len(records) /\ PointsBack(records, j)
  BY CommittedHistory DEF Follows
<1>3. PICK i \in 1 .. j - 1 :
        About(records, i, x) /\ records[i].session = records[j].session
  BY <1>1, <1>2 DEF PointsBack, HasHome
<1>4. i < j /\ i \in 1 .. Len(records)
  BY <1>2, CommittedHistory
<1>5. i \in Of(x, RecordType \ { "AccountingRecorded" })
  BY <1>3, <1>4, CommittedHistory, DraftHeader DEF About, TypedAbout
<1> QED BY <1>3, <1>4, <1>5

LEMMA LifeChains ==
  ASSUME TypeOK, LifeInv
  PROVE  RevisionsFormAChain
<1> DEFINE n == Len(records)
<1>1. /\ n \in Nat
      /\ \A i \in 1 .. n : Follows(records, i)
      /\ \A x \in Entity : Shows(records, n, x, view[x])
  BY CommittedHistory
<1>2. ASSUME NEW x
      PROVE  ChangesOf(x) = ChangesUpTo(records, n, x)
  BY CommittedHistory DEF ChangesOf, ChangesUpTo, ChangeType
<1>3. ASSUME NEW x, NEW j \in ChangesOf(x)
      PROVE  { i \in ChangesOf(x) : i < j } = ChangesUpTo(records, j - 1, x)
  BY <1>1, <1>2, <1>3 DEF ChangesUpTo
<1>4. ASSUME NEW x \in Hypothesis \cup Result, NEW j \in ChangesOf(x)
      PROVE  LET earlier == { i \in ChangesOf(x) : i < j }
                 change == records[j].draft.body IN
             /\ change.generation = Cardinality(earlier) + 2
             /\ IF earlier = {}
                  THEN change.from \in { "Candidate", "Proposed" }
                ELSE \E i \in earlier :
                       /\ \A k \in earlier : k <= i
                       /\ change.from = records[i].draft.body.to
  <2>1. GoesOn(records, j) /\ TypedAbout(records, j, ChangeType, x)
    BY <1>1, <1>2, <1>4 DEF ChangesUpTo, Follows
  <2>2. { i \in ChangesOf(x) : i < j } = ChangesUpTo(records, j - 1, x)
    BY <1>3, <1>4
  <2> QED BY <2>1, <2>2 DEF GoesOn, TypedAbout
<1>5. ASSUME NEW x \in Hypothesis \cup Result, view[x] # None
      PROVE  /\ view[x].generation = Cardinality(ChangesOf(x)) + 1
             /\ \A j \in ChangesOf(x) :
                  (\A i \in ChangesOf(x) : i <= j) =>
                    view[x].status = records[j].draft.body.to
  <2>1. x \in Entity
    BY <1>5 DEF Entity, Subject
  <2>2. ShowsChanges(records, n, x, view[x])
    BY <1>1, <1>5, <2>1 DEF Shows
  <2>3. view[x].generation = Cardinality(ChangesOf(x)) + 1
    BY <1>2, <2>2 DEF ShowsChanges
  <2>4. ASSUME NEW j \in ChangesOf(x), \A i \in ChangesOf(x) : i <= j
        PROVE  view[x].status = records[j].draft.body.to
    <3>1. PICK i \in ChangesOf(x) :
            /\ \A k \in ChangesOf(x) : k <= i
            /\ view[x].status = records[i].draft.body.to
      BY <1>2, <2>2, <2>4 DEF ShowsChanges
    <3>2. i <= j /\ j <= i /\ i \in Nat /\ j \in Nat
      BY <1>1, <1>2, <2>4, <3>1 DEF ChangesUpTo
    <3>3. i = j
      BY <3>2
    <3> QED BY <3>1, <3>3
  <2> QED BY <2>3, <2>4
<1> QED BY <1>4, <1>5 DEF RevisionsFormAChain


LEMMA LifeApplies ==
  ASSUME TypeOK, LifeInv
  PROVE  ApplyCannotFail
<1> DEFINE s == Head(staged)
           d == s.draft
           b == d.body
           n == Len(records)
<1>1. SUFFICES ASSUME staged # << >>
               PROVE  /\ \A x \in LinkTargets(s) \cup ListOwners(s) :
                           view[x] # None
                      /\ d.type \in DeclaringType => view[s.key] = None
  BY DEF ApplyCannotFail
<1>2. /\ s = staged[1] /\ s \in Entry /\ EntityFitsKey(s)
      /\ n \in Nat /\ n + 1 \in 1 .. Extended
      /\ Whole[n + 1] = StagedRecord(s)
      /\ Carries(s)
  <2>1. s = staged[1] /\ s \in Entry /\ Len(staged) >= 1
        /\ n \in Nat /\ Len(staged) \in Nat
    BY <1>1, SequencesOfTheStep
  <2>2. 1 \in DOMAIN staged /\ 1 \in 1 .. Len(staged)
    BY <2>1, SequencesOfTheStep
  <2>3. EntityFitsKey(s)
    BY <2>1, <2>2 DEF TypeOK
  <2>4. n + 1 \in 1 .. Extended
    BY <2>1 DEF Extended
  <2>5. Whole[n + 1] = StagedRecord(s)
    BY <2>1, <2>4 DEF Whole
  <2>6. Carries(s)
    BY <2>1, <2>2 DEF LifeInv, StagedViewsInv
  <2> QED BY <2>1, <2>3, <2>4, <2>5, <2>6
<1> HIDE DEF s
<1>3. /\ Follows(Whole, n + 1)
      /\ Whole[n + 1].draft = d /\ Whole[n + 1].session = s.session
      /\ d \in Drafts /\ n + 1 - 1 = n
  BY <1>2 DEF LifeInv, HistoryInv, StagedRecord, Entry
<1>4. ASSUME NEW x \in Entity, NEW t, HasHome(Whole, n, x, t)
      PROVE  view[x] # None
  BY <1>4 DEF LifeInv, CommittedViewsInv, Shows, HasHome
<1>5. ASSUME NEW x \in Entity, x \in References(d),
             d.type # "SessionOpened"
      PROVE  view[x] # None
  <2>1. HasHome(Whole, n, x, s.session)
    BY <1>3, <1>5, NoneAssumption DEF Follows, PointsBack
  <2> QED BY <1>4, <2>1
<1>6. d.type = "FailureRecorded" => view[s.session] # None
  <2>1. SUFFICES ASSUME d.type = "FailureRecorded"
                 PROVE  view[s.session] # None
    OBVIOUS
  <2>2. s.session \in Session /\ s.session \in Entity
    BY <1>2 DEF Entry, Entity, Subject
  <2>3. HasHome(Whole, n + 1, s.session, s.session)
    BY <1>3 DEF Follows, IsAtHome
  <2>4. ~About(Whole, n + 1, s.session)
    BY <1>3, <2>1, <2>2, BodyKinds, IdentityDomains DEF About
  <2>5. HasHome(Whole, n, s.session, s.session)
    BY <1>2, <2>3, <2>4 DEF HasHome
  <2> QED BY <1>4, <2>2, <2>5
<1>7. ASSUME NEW x \in LinkTargets(s) \cup ListOwners(s)
      PROVE  view[x] # None
  <2>1. CASE d.type = "HypothesisDeclared"
    <3>1. b.session \in Entity /\ b.parent \in Opt(Entity)
      BY <1>3, <2>1, DraftBodies DEF HypothesisBody, Opt, Entity, Subject
    <3>2. x \in { b.session } \cup ({ b.parent } \ { None })
      BY <1>2, <1>7, <2>1 DEF LinkTargets, ListOwners, Carries
    <3>3. x \in Entity /\ x \in References(d)
      BY <2>1, <3>1, <3>2 DEF References, Opt
    <3> QED BY <1>5, <2>1, <3>3
  <2>2. CASE d.type = "ExperimentDeclared"
    <3>1. b.session \in Entity /\ b.branch \in Entity
          /\ b.hypotheses \subseteq Entity
      BY <1>3, <2>2, DraftBodies DEF ExperimentBody, Entity, Subject
    <3>2. x \in { b.session, b.branch } \cup b.hypotheses
      BY <1>2, <1>7, <2>2 DEF LinkTargets, ListOwners, Carries
    <3>3. x \in Entity /\ x \in References(d)
      BY <2>2, <3>1, <3>2 DEF References
    <3> QED BY <1>5, <2>2, <3>3
  <2>3. CASE d.type = "AttemptStarted"
    <3>1. b.experiment \in Entity /\ b.branch \in Entity
      BY <1>3, <2>3, DraftBodies DEF AttemptBody, Entity, Subject
    <3>2. x \in { b.experiment, b.branch }
      BY <1>2, <1>7, <2>3 DEF LinkTargets, ListOwners, Carries
    <3>3. x \in Entity /\ x \in References(d)
      BY <2>3, <3>1, <3>2 DEF References
    <3> QED BY <1>5, <2>3, <3>3
  <2>4. CASE d.type \in ActivityType
    <3>1. b.attempt \in Entity
      BY <1>3, <2>4, DraftBodies DEF ActivityType, ModelCallBody,
         ToolCallBody, ObservationBody, Entity, Subject
    <3>2. x = b.attempt
      BY <1>2, <1>7, <2>4 DEF LinkTargets, ListOwners, Carries,
         ActivityType
    <3>3. x \in References(d) /\ d.type # "SessionOpened"
      BY <2>4, <3>2 DEF References, ActivityType
    <3> QED BY <1>5, <3>1, <3>2, <3>3
  <2>5. CASE d.type \in { "ResultDeclared", "BranchDeclared" }
    <3>1. b.session \in Entity
      BY <1>3, <2>5, DraftBodies DEF ResultBody, BranchBody, Entity, Subject
    <3>2. x = b.session
      BY <1>2, <1>7, <2>5 DEF LinkTargets, ListOwners, Carries
    <3>3. x \in References(d) /\ d.type # "SessionOpened"
      BY <2>5, <3>2 DEF References
    <3> QED BY <1>5, <3>1, <3>2, <3>3
  <2>6. CASE d.type = "FailureRecorded"
    BY <1>2, <1>6, <1>7, <2>6 DEF LinkTargets, ListOwners, Carries
  <2>7. CASE d.type = "ArtifactReferenced"
    <3>1. b.parents \subseteq Entity
      BY <1>3, <2>7, DraftBodies DEF ArtifactBody, Entity, Subject
    <3>2. x \in b.parents
      BY <1>2, <1>7, <2>7 DEF LinkTargets, ListOwners, Carries
    <3>3. x \in Entity /\ x \in References(d)
      BY <2>7, <3>1, <3>2 DEF References
    <3> QED BY <1>5, <2>7, <3>3
  <2>8. CASE d.type \notin { "HypothesisDeclared", "ExperimentDeclared",
                             "AttemptStarted", "ResultDeclared",
                             "BranchDeclared", "FailureRecorded",
                             "ArtifactReferenced" } \cup ActivityType
    BY <1>7, <2>8 DEF LinkTargets, ListOwners, ActivityType
  <2> QED BY <2>1, <2>2, <2>3, <2>4, <2>5, <2>6, <2>7, <2>8
<1>8. ASSUME d.type \in DeclaringType
      PROVE  view[s.key] = None
  <2>1. s.key = b.id /\ s.key \in Entity
    BY <1>2, <1>8 DEF EntityFitsKey, DeclaringType, Entry, Opt
  <2>2. \A i \in 1 .. n : ~About(Whole, i, s.key)
    BY <1>3, <1>8, <2>1 DEF Follows, IsNew
  <2> QED BY <2>1, <2>2 DEF LifeInv, CommittedViewsInv, Shows
<1> QED BY <1>7, <1>8

-----------------------------------------------------------------------------
(* The properties, for every choice of identities, drafts and limits. *)

(* One attempt never has two terminal records, of one kind or of two, even  *)
(* when one batch carries both (AttemptCompleted, AttemptFailed,            *)
(* AttemptCancelled and AttemptTimedOut of validate_record).                *)
THEOREM TerminalsExclude == Spec => []TerminalExclusive
BY LifeInvariant, LifeExcludesTerminals, PTL

(* After the record that closes a session only annotations follow in it, in *)
(* the same batch or any later one (the closed-session guard of             *)
(* validate_record against staged and committed views).                     *)
THEOREM ClosedStaysClosed == Spec => []ClosedSessionsStayClosed
BY LifeInvariant, LifeKeepsClosed, PTL

(* No call and no observation is recorded under an attempt once its         *)
(* cancellation is, whatever the batches (validate_record).                 *)
THEOREM CancelledStaysQuiet == Spec => []CancelledAttemptsStayQuiet
BY LifeInvariant, LifeKeepsQuiet, PTL

(* A result changes status only after a decision about it whose outcome     *)
(* allows the new status (ResultStatusChanged of validate_record).          *)
THEOREM ChangesAuthorized == Spec => []StatusChangesAuthorized
BY LifeInvariant, LifeAuthorizesChanges, PTL

(* Every reference of a record is to an entity an earlier record of its     *)
(* session declared or changed: lineage never dangles, crosses sessions or  *)
(* points forward (the find_* and belongs_to checks of validate_record).    *)
THEOREM LineagePointsBack == Spec => []ReferencesPointBack
BY LifeInvariant, LifePointsBack, PTL

(* The revisions of a hypothesis or a result are one chain of statuses and  *)
(* generations, and between batches the index shows its last link           *)
(* (HypothesisStatusChanged and ResultStatusChanged of validate_record and  *)
(* stage_entity).                                                           *)
THEOREM RevisionsChain == Spec => []RevisionsFormAChain
BY LifeInvariant, LifeChains, PTL

(* Once a batch is committed nothing in its application can fail: every     *)
(* index entry to be extended is there and no declaration overwrites an     *)
(* entity (apply_staged_entity).                                            *)
THEOREM ApplyingCannotFail == Spec => []ApplyCannotFail
BY LifeInvariant, LifeApplies, PTL

=============================================================================

---------------------------- MODULE LedgerCommit ----------------------------
(***************************************************************************)
(* The commit path of one ledger: append_batch_with_authority               *)
(* (src/ledger.cpp) and apply_staged_entity (src/ledger_commit.cpp).        *)
(*                                                                          *)
(* A batch runs under the ledger's unique lock, so nothing else interleaves *)
(* with it.  It is modelled one draft at a time because the order in which  *)
(* drafts are validated against each other, and the order in which the      *)
(* validated entries are then applied, is where the code can go wrong:      *)
(*   validating  each draft is checked against the committed state and the  *)
(*               entries staged so far, and staged; any rejection drops the *)
(*               whole batch;                                               *)
(*   applying    the staged entries are applied, oldest first, and nothing  *)
(*               may fail any more.                                         *)
(* The drafts of a batch are chosen as they are validated: a batch is the   *)
(* sequence of drafts that were chosen before Commit.                       *)
(***************************************************************************)
EXTENDS LedgerValidate, FiniteSets

VARIABLES
  children,        \* session and lineage lists: owner -> entities listed
  invalidated_at,  \* artifact -> sequence of its last invalidation, or 0
  outcomes,        \* one AppendOutcome per draft of the batch
  phase            \* "validating" | "applying"

committed == << records, view, subject_index, children, invalidated_at >>
batch == << staged, latest, front, outcomes >>
vars == << committed, batch, phase >>

NothingStaged == [ x \in Entity |-> None ]
NowhereStaged == [ x \in Subject |-> None ]

Init ==
  /\ records = << >>
  /\ view = [ x \in Entity |-> None ]
  /\ subject_index = [ x \in Subject |-> None ]
  /\ children = [ x \in Entity |-> {} ]
  /\ invalidated_at = [ a \in Artifact |-> 0 ]
  /\ staged = << >>
  /\ latest = NothingStaged
  /\ front = NowhereStaged
  /\ outcomes = << >>
  /\ phase = "validating"

-----------------------------------------------------------------------------
(* Validating a batch *)

(* The batch limit, and the record limit the code projects before it knows  *)
(* how many of the drafts are duplicates.                                   *)
WithinLimits(n) ==
  /\ n <= MaxRecordsPerBatch
  /\ Len(records) + n <= MaxRecords

NextDraftFits == WithinLimits(Len(outcomes) + 1)

(* The sequences under which a supplied record identity is known, in the    *)
(* committed history or earlier in this batch.  (Mutants: the batch is      *)
(* overlooked; the position in the batch counts from 0.)                    *)
SequencesInHistory(id) ==
  { n \in 1 .. Len(records) : records[n].record_id = id }

SequencesFromZero(id) ==
  SequencesInHistory(id)
    \cup { Len(records) + n - 1 :
             n \in { m \in 1 .. Len(staged) : staged[m].record_id = id } }

SequencesOf(id) ==
  SequencesInHistory(id)
    \cup { Len(records) + n :
             n \in { m \in 1 .. Len(staged) : staged[m].record_id = id } }

IsRepeat(d) == d.record_id # None /\ SequencesOf(d.record_id) # {}

Stage(d) ==
  /\ phase = "validating"
  /\ NextDraftFits
  /\ d.provenance = "Stated"
  /\ ~IsRepeat(d)
  /\ LET id == IF d.record_id = None THEN Sequence ELSE d.record_id
         s == StagedEntity(d, id) IN
     /\ staged' = Append(staged, s)
     /\ latest' = IF s.key = None THEN latest
                  ELSE [ latest EXCEPT ![s.key] = s.entity ]
     /\ front' = [ front EXCEPT ![s.subject] =
                     IF @ = None THEN s.session ELSE @ ]
  /\ outcomes' = Append(outcomes,
                        [ sequence |-> Sequence, state |-> "Validated" ])
  /\ UNCHANGED << committed, phase >>

StageSessionOpened(d) == SessionOpenedOK(d) /\ Stage(d)
StageSessionClosed(d) == SessionClosedOK(d) /\ Stage(d)
StageSessionAnnotation(d) == SessionAnnotationOK(d) /\ Stage(d)
StageHypothesisDeclared(d) == HypothesisDeclaredOK(d) /\ Stage(d)
StageHypothesisStatusChanged(d) == HypothesisStatusChangedOK(d) /\ Stage(d)
StageExperimentDeclared(d) == ExperimentDeclaredOK(d) /\ Stage(d)
StageBranchDeclared(d) == BranchDeclaredOK(d) /\ Stage(d)
StageAttemptStarted(d) == AttemptStartedOK(d) /\ Stage(d)
StageAttemptEnded(d) == AttemptEndedOK(d) /\ Stage(d)
StageModelCallRecorded(d) == ModelCallRecordedOK(d) /\ Stage(d)
StageToolCallRecorded(d) == ToolCallRecordedOK(d) /\ Stage(d)
StageArtifactReferenced(d) == ArtifactReferencedOK(d) /\ Stage(d)
StageArtifactInvalidated(d) == ArtifactInvalidatedOK(d) /\ Stage(d)
StageMetricDeclared(d) == MetricDeclaredOK(d) /\ Stage(d)
StageObservationRecorded(d) == ObservationRecordedOK(d) /\ Stage(d)
StageFailureRecorded(d) == FailureRecordedOK(d) /\ Stage(d)
StageDecisionRecorded(d) == DecisionRecordedOK(d) /\ Stage(d)
StageResultDeclared(d) == ResultDeclaredOK(d) /\ Stage(d)
StageResultStatusChanged(d) == ResultStatusChangedOK(d) /\ Stage(d)
StageAccountingRecorded(d) == AccountingRecordedOK(d) /\ Stage(d)

(* An idempotent repeat of a known record identity stages nothing and       *)
(* reports the sequence the record already has.  Its payload is not looked  *)
(* at.                                                                      *)
RecognizeRepeat(d) ==
  /\ phase = "validating"
  /\ NextDraftFits
  /\ d.provenance = "Stated"
  /\ d.record_id # None
  /\ d.idempotent
  /\ \E n \in SequencesOf(d.record_id) :
       outcomes' = Append(outcomes, [ sequence |-> n, state |-> "Duplicate" ])
  /\ UNCHANGED << committed, staged, latest, front, phase >>

Accepts(d) ==
  /\ NextDraftFits
  /\ d.provenance = "Stated"
  /\ IF IsRepeat(d) THEN d.idempotent ELSE Validates(d)

DropBatch ==
  /\ staged' = << >>
  /\ latest' = NothingStaged
  /\ front' = NowhereStaged
  /\ outcomes' = << >>

(* One draft that is not accepted rejects the batch it is in. *)
Reject(d) ==
  /\ phase = "validating"
  /\ ~Accepts(d)
  /\ DropBatch
  /\ UNCHANGED << committed, phase >>

-----------------------------------------------------------------------------
(* Applying a batch *)

Commit ==
  /\ phase = "validating"
  /\ outcomes # << >>
  /\ phase' = "applying"
  /\ UNCHANGED << committed, batch >>

(* The entities whose views count or list the entity that entry s declares. *)
LinkTargets(s) ==
  CASE s.draft.type = "HypothesisDeclared" -> { s.entity.session }
    [] s.draft.type = "ExperimentDeclared" ->
         { s.entity.session, s.entity.branch } \cup s.entity.hypotheses
    [] s.draft.type = "AttemptStarted" ->
         { s.entity.experiment, s.entity.branch }
    [] s.draft.type \in { "ModelCallRecorded", "ToolCallRecorded",
                          "ObservationRecorded" } -> { s.entity.attempt }
    [] s.draft.type = "ResultDeclared" -> { s.entity.session }
    [] OTHER -> {}

(* The owners of the lists kept outside the views: session_hypotheses,      *)
(* session_experiments, session_branches, session_failures,                 *)
(* session_results, hypothesis_children, and an artifact's children.        *)
(* (Mutant: a hypothesis is not listed under its parent.)                   *)
OwnersButParent(s) ==
  IF s.draft.type = "ArtifactReferenced" THEN s.entity.parents
  ELSE IF s.draft.type \in { "HypothesisDeclared", "ExperimentDeclared",
                             "BranchDeclared", "FailureRecorded",
                             "ResultDeclared" }
  THEN { s.entity.session } ELSE {}

ListOwners(s) ==
  CASE s.draft.type = "HypothesisDeclared" ->
         { s.entity.session } \cup ({ s.entity.parent } \ { None })
    [] s.draft.type \in { "ExperimentDeclared", "BranchDeclared",
                          "FailureRecorded", "ResultDeclared" } ->
         { s.entity.session }
    [] s.draft.type = "ArtifactReferenced" -> s.entity.parents
    [] OTHER -> {}

(* apply_staged_entity writes the staged view over whatever the slot holds, *)
(* and adds the new entity to the views of its targets.  A target that is   *)
(* not there is skipped without a word.                                     *)
AppliedView(s) ==
  [ x \in Entity |->
      IF x = s.key THEN s.entity
      ELSE IF x \in LinkTargets(s) /\ view[x] # None
      THEN [ view[x] EXCEPT !.links = @ \cup { s.key } ]
      ELSE view[x] ]

Apply(s) ==
  /\ records' = Append(records, [ draft |-> s.draft,
                                  record_id |-> s.record_id,
                                  subject |-> s.subject,
                                  session |-> s.session ])
  /\ subject_index' = [ subject_index EXCEPT ![s.subject] = s.session ]
  /\ view' = AppliedView(s)
  /\ children' = [ x \in Entity |-> IF x \in ListOwners(s)
                                    THEN children[x] \cup { s.key }
                                    ELSE children[x] ]
  /\ invalidated_at' =
       IF s.draft.type = "ArtifactInvalidated"
         THEN [ invalidated_at EXCEPT ![s.key] = Len(records) + 1 ]
         ELSE invalidated_at

(* The staged entries are applied in the order they were validated.         *)
(* (Mutant: in the opposite order.)                                         *)
ApplyNewest ==
  /\ phase = "applying"
  /\ staged # << >>
  /\ Apply(staged[Len(staged)])
  /\ staged' = SubSeq(staged, 1, Len(staged) - 1)
  /\ UNCHANGED << latest, front, outcomes, phase >>

ApplyNext ==
  /\ phase = "applying"
  /\ staged # << >>
  /\ Apply(Head(staged))
  /\ staged' = Tail(staged)
  /\ UNCHANGED << latest, front, outcomes, phase >>

(* The outcomes are handed to the caller and the lock is released. *)
Finish ==
  /\ phase = "applying"
  /\ staged = << >>
  /\ DropBatch
  /\ phase' = "validating"
  /\ UNCHANGED committed

StageNext(d) ==
  \/ StageSessionOpened(d) \/ StageSessionClosed(d)
  \/ StageSessionAnnotation(d)
  \/ StageHypothesisDeclared(d) \/ StageHypothesisStatusChanged(d)
  \/ StageExperimentDeclared(d) \/ StageBranchDeclared(d)
  \/ StageAttemptStarted(d) \/ StageAttemptEnded(d)
  \/ StageModelCallRecorded(d) \/ StageToolCallRecorded(d)
  \/ StageArtifactReferenced(d) \/ StageArtifactInvalidated(d)
  \/ StageMetricDeclared(d) \/ StageObservationRecorded(d)
  \/ StageFailureRecorded(d) \/ StageDecisionRecorded(d)
  \/ StageResultDeclared(d) \/ StageResultStatusChanged(d)
  \/ StageAccountingRecorded(d)

Next ==
  \/ \E d \in Drafts : StageNext(d) \/ RecognizeRepeat(d) \/ Reject(d)
  \/ Commit
  \/ ApplyNext
  \/ Finish

Spec == Init /\ [][Next]_vars
=============================================================================

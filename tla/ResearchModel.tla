--------------------------- MODULE ResearchModel ---------------------------
(***************************************************************************)
(* The vocabulary of the research ledger (include/research_ledger/model.hpp *)
(* and record.hpp): the record types, the life-cycle states, and the pure   *)
(* transition rules of src/model.cpp.  Every switch of the code over a      *)
(* status is a function from the status to the set it allows.  The value    *)
(* Invalid = 0 of each enumeration is never stored and is left out.         *)
(***************************************************************************)

RecordType ==
  { "SessionOpened", "SessionClosed", "SessionAnnotation",
    "HypothesisDeclared", "HypothesisStatusChanged",
    "ExperimentDeclared", "BranchDeclared",
    "AttemptStarted", "AttemptCompleted", "AttemptFailed", "AttemptCancelled",
    "ModelCallRecorded", "ToolCallRecorded",
    "ArtifactReferenced", "ArtifactInvalidated",
    "MetricDeclared", "ObservationRecorded", "FailureRecorded",
    "DecisionRecorded", "ResultDeclared", "ResultStatusChanged",
    "AccountingRecorded" }

SessionState == { "Open", "Closed" }

HypothesisStatus ==
  { "Proposed", "Active", "Supported", "NotSupported",
    "Rejected", "Superseded", "Inconclusive" }

AttemptState == { "Running", "Completed", "Failed", "Cancelled" }

ValidationState == { "Unvalidated", "Validated", "Invalidated" }

ResultStatus ==
  { "Candidate", "Accepted", "Rejected",
    "Superseded", "Invalidated", "Retracted" }

DecisionOutcome ==
  { "Accepted", "Rejected", "Superseded", "Invalidated",
    "Retracted", "Reclassified", "Recorded" }

(* The three records that end an attempt, and the state each one sets. *)
TerminalState ==
  [ AttemptCompleted |-> "Completed",
    AttemptFailed    |-> "Failed",
    AttemptCancelled |-> "Cancelled" ]

TerminalType == DOMAIN TerminalState

-----------------------------------------------------------------------------
(* result_transition_allowed *)
NextResult ==
  [ Candidate   |-> { "Accepted", "Rejected" },
    Accepted    |-> { "Superseded", "Invalidated", "Retracted" },
    Rejected    |-> { "Superseded", "Invalidated", "Candidate" },
    Superseded  |-> { "Invalidated", "Retracted" },
    Invalidated |-> { "Retracted" },
    Retracted   |-> {} ]

(* hypothesis_transition_allowed *)
NextHypothesis ==
  [ Proposed     |-> { "Active", "Rejected", "Superseded", "Inconclusive" },
    Active       |-> { "Supported", "NotSupported", "Rejected",
                       "Superseded", "Inconclusive" },
    Supported    |-> { "Superseded", "Inconclusive" },
    NotSupported |-> { "Superseded", "Inconclusive", "Supported" },
    Inconclusive |-> { "Active", "Supported", "NotSupported",
                       "Rejected", "Superseded" },
    Rejected     |-> { "Superseded" },
    Superseded   |-> {} ]

(* decision_outcome_matches_type: the one outcome each decision type has. *)
OutcomeOfType ==
  [ Accept     |-> "Accepted",    Reject     |-> "Rejected",
    Supersede  |-> "Superseded",  Invalidate |-> "Invalidated",
    Retract    |-> "Retracted",   Reclassify |-> "Reclassified",
    HypothesisTransition |-> "Recorded",
    BranchAbandonment    |-> "Recorded",
    Audit                |-> "Recorded" ]

DecisionType == DOMAIN OutcomeOfType

(* result_status_matches_decision: the statuses an outcome authorizes. *)
StatusesOfOutcome ==
  [ Accepted     |-> { "Accepted" },
    Rejected     |-> { "Rejected" },
    Superseded   |-> { "Superseded" },
    Invalidated  |-> { "Invalidated" },
    Retracted    |-> { "Retracted" },
    Reclassified |-> { "Candidate", "Rejected" },
    Recorded     |-> {} ]
=============================================================================

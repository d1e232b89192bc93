------------------------------ MODULE MCDrafts ------------------------------
(***************************************************************************)
(* Short forms for the drafts the model-checking modules enumerate.         *)
(***************************************************************************)
CONSTANT None

(* A well-formed draft with no record identity of its own. *)
D(type, body) ==
  [ type |-> type, record_id |-> None, idempotent |-> FALSE,
    provenance |-> "Stated", wellformed |-> TRUE, body |-> body ]

OpenSession(s) == D("SessionOpened", [ id |-> s ])
CloseSession(s) == D("SessionClosed", [ id |-> s ])
Annotate(s) == D("SessionAnnotation", [ id |-> s ])

Declare(h, s, parent, generation) ==
  D("HypothesisDeclared",
    [ id |-> h, session |-> s, parent |-> parent,
      parent_generation |-> generation ])

Revise(h, generation, from, to, decision) ==
  D("HypothesisStatusChanged",
    [ id |-> h, generation |-> generation, from |-> from, to |-> to,
      decision |-> decision ])

DeclareExperiment(e, s, hypotheses, b) ==
  D("ExperimentDeclared",
    [ id |-> e, session |-> s, hypotheses |-> hypotheses, branch |-> b,
      parent |-> None ])

DeclareBranch(b, s, parent) ==
  D("BranchDeclared", [ id |-> b, session |-> s, parent |-> parent ])

StartAttempt(a, e, b) ==
  D("AttemptStarted", [ id |-> a, experiment |-> e, branch |-> b ])

EndAttempt(type, a, failure) ==
  D(type, [ id |-> a, generation |-> 1, failure |-> failure ])

ModelCalled(m, a, parents) ==
  D("ModelCallRecorded", [ id |-> m, attempt |-> a, parents |-> parents ])

ToolCalled(t, a) == D("ToolCallRecorded", [ id |-> t, attempt |-> a ])

ReferTo(a, s, generation, producer, parents) ==
  D("ArtifactReferenced",
    [ id |-> a, session |-> s, generation |-> generation,
      producer |-> producer, parents |-> parents,
      validation |-> "Validated" ])

InvalidateArtifact(a, generation, failure, decision) ==
  D("ArtifactInvalidated",
    [ id |-> a, generation |-> generation, failure |-> failure,
      decision |-> decision ])

DeclareMetric(m, s, key) ==
  D("MetricDeclared",
    [ id |-> m, session |-> s, key |-> key, value_kind |-> "Decimal" ])

Observe(o, a, metric) ==
  D("ObservationRecorded",
    [ id |-> o, attempt |-> a, metric |-> metric,
      value_kind |-> "Decimal" ])

Fail(f, scope, predecessor, recovery) ==
  D("FailureRecorded",
    [ id |-> f, scope |-> scope, predecessor |-> predecessor,
      recovery |-> recovery ])

Decide(d, s, subject, type, outcome, evidence) ==
  D("DecisionRecorded",
    [ id |-> d, session |-> s, subject |-> subject, decision_type |-> type,
      outcome |-> outcome, evidence |-> evidence ])

DeclareResult(r, s, support) ==
  D("ResultDeclared", [ id |-> r, session |-> s, support |-> support ])

ChangeResult(r, generation, from, to, decision) ==
  D("ResultStatusChanged",
    [ id |-> r, generation |-> generation, from |-> from, to |-> to,
      decision |-> decision ])

Account(scope) == D("AccountingRecorded", [ id |-> scope ])

Cite(subject, sequence) == [ subject |-> subject, sequence |-> sequence ]
=============================================================================

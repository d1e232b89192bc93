---------------------------- MODULE LedgerQuery -----------------------------
(***************************************************************************)
(* Snapshots and their queries (src/ledger_query.cpp, and the branch        *)
(* resolution of src/ledger_aggregate.cpp) beside a ledger that keeps       *)
(* appending.                                                               *)
(*                                                                          *)
(* A LedgerSnapshot is a watermark and a pointer to the live state: it      *)
(* copies nothing.  A query takes the lock, reads the CURRENT indexes and   *)
(* undoes or hides what lies beyond the watermark.  Each query is an        *)
(* operator of the indexes ix it reads and of its watermark w, so that the  *)
(* answer given now can be compared with the one given when the snapshot    *)
(* was taken.                                                               *)
(*                                                                          *)
(* NOT_FOUND is None.  A list is the set of its members (the code sorts it  *)
(* by sequence); the limits on depths and lengths are not reached.          *)
(***************************************************************************)
EXTENDS LedgerSafety, FiniteSetsExt, Functions

(* Identities are of a fixed width: there are finitely many.  A walk that   *)
(* takes as many steps as there are entities has been everywhere.           *)
ASSUME EntitiesAssumption == IsFiniteSet(Entity)

VARIABLES
  watermark,  \* the watermark of the snapshot somebody holds, or None
  then        \* history variable: the indexes when it was taken

queryVars == << vars, watermark, then >>

Now ==
  [ records |-> records, view |-> view, children |-> children,
    invalidated_at |-> invalidated_at ]

QueryInit ==
  /\ Init
  /\ watermark = None
  /\ then = Now

Appending == Next /\ UNCHANGED << watermark, then >>

(* A query, and Ledger::snapshot itself, takes the lock that a batch holds  *)
(* from its first check to its last index update.                           *)
Queryable == phase = "validating" /\ outcomes = << >>

TakeSnapshot ==
  /\ Queryable
  /\ watermark = None
  /\ watermark' = Len(records)
  /\ then' = Now
  /\ UNCHANGED vars

QueryNext == Appending \/ TakeSnapshot

QuerySpec == QueryInit /\ [][QueryNext]_queryVars

-----------------------------------------------------------------------------
(* visible: a sequence that is stated and not beyond the watermark.         *)
Visible(sequence, w) == sequence # 0 /\ sequence <= w

(* The index slots among S whose field f lies at or before the watermark.   *)
VisibleIn(ix, w, S, f) ==
  { x \in S : ix.view[x] # None /\ Visible(ix.view[x][f], w) }

ViewsOf(ix, S) == [ x \in S |-> ix.view[x] ]

(* Everything reached from S by Step, S included. *)
Closure(S, Step(_)) ==
  LET within[n \in 0 .. Cardinality(Entity)] ==
        IF n = 0 THEN S
        ELSE LET nearer == within[n - 1] IN
             nearer \cup UNION { Step(x) : x \in nearer }
  IN  within[Cardinality(Entity)]

ParentOf(ix, x) ==
  IF ix.view[x] = None THEN {} ELSE { ix.view[x].parent } \ { None }

-----------------------------------------------------------------------------
(* Sessions *)
SessionAt(ix, w, s) ==
  IF s \notin VisibleIn(ix, w, Session, "opened_at") THEN None
  ELSE LET v == ix.view[s] IN
       IF v.state = "Closed" /\ ~Visible(v.closed_at, w)
       THEN [ v EXCEPT !.state = "Open", !.closed_at = 0 ]
       ELSE v

(* sessions() returns the views as they stand: a session closed after the   *)
(* watermark is listed as closed.                                           *)
SessionsAt(ix, w) == ViewsOf(ix, VisibleIn(ix, w, Session, "opened_at"))

(* Hypotheses: one that changed after the watermark is shown as it was      *)
(* declared.                                                                *)
RewoundHypothesis(v, w) ==
  IF Visible(v.last_changed_at, w) THEN v
  ELSE [ v EXCEPT !.generation = 1, !.status = "Proposed",
                  !.last_changed_at = v.declared_at ]

HypothesisAt(ix, w, h) ==
  IF h \notin VisibleIn(ix, w, Hypothesis, "declared_at") THEN None
  ELSE RewoundHypothesis(ix.view[h], w)

(* The walks along parents and children do not look at the watermark.       *)
HypothesisAncestry(ix, h) ==
  IF ix.view[h] = None THEN None
  ELSE Closure({ h }, LAMBDA x : ParentOf(ix, x))

HypothesisDescendants(ix, h) ==
  IF ix.view[h] = None THEN None
  ELSE Closure({ h }, LAMBDA x : ix.children[x] \cap Hypothesis) \ { h }

-----------------------------------------------------------------------------
(* Experiments and attempts *)
ExperimentAt(ix, w, e) ==
  IF e \notin VisibleIn(ix, w, Experiment, "declared_at") THEN None
  ELSE [ ix.view[e] EXCEPT
           !.links = VisibleIn(ix, w, @ \cap Attempt, "started_at") ]

(* (Mutant: the failure of an attempt still running is left in place.) *)
RewoundButFailed(v, w) ==
  IF v.terminated_at = 0 \/ Visible(v.terminated_at, w) THEN v
  ELSE [ v EXCEPT !.state = "Running", !.terminated_at = 0 ]

RewoundAttempt(v, w) ==
  IF v.terminated_at = 0 \/ Visible(v.terminated_at, w) THEN v
  ELSE [ v EXCEPT !.state = "Running", !.terminated_at = 0,
                  !.failure = None ]

AttemptAt(ix, w, a) ==
  IF a \notin VisibleIn(ix, w, Attempt, "started_at") THEN None
  ELSE RewoundAttempt(ix.view[a], w)

(* experiment_attempts and branch_attempts return the views as they stand.  *)
ExperimentAttemptsAt(ix, w, e) ==
  IF ix.view[e] = None THEN None
  ELSE ViewsOf(ix, VisibleIn(ix, w, ix.view[e].links \cap Attempt,
                             "started_at"))

ExperimentsOfBranch(ix, b) == ix.view[b].links \cap Experiment

AttemptsOfBranch(ix, b) ==
  UNION { ix.view[e].links \cap Attempt :
            e \in { x \in ExperimentsOfBranch(ix, b) : ix.view[x] # None } }

BranchAttemptsAt(ix, w, b) ==
  IF ix.view[b] = None THEN None
  ELSE ViewsOf(ix, VisibleIn(ix, w, AttemptsOfBranch(ix, b), "started_at"))

(* model_calls, tool_calls and observations of an attempt *)
ActivityOf(ix, w, S, a) ==
  ViewsOf(ix, { c \in VisibleIn(ix, w, S, "recorded_at") :
                  ix.view[c].attempt = a })

ModelCallsAt(ix, w, a) == ActivityOf(ix, w, ModelCall, a)
ToolCallsAt(ix, w, a) == ActivityOf(ix, w, ToolCall, a)
ObservationsAt(ix, w, a) == ActivityOf(ix, w, Observation, a)

-----------------------------------------------------------------------------
(* Branches.  accepted_experiments_of passes over a result that changed     *)
(* after the watermark, whatever it was before.                             *)
AcceptedExperiments(ix, w, s) ==
  UNION { ix.view[r].support \cap Experiment :
            r \in { x \in VisibleIn(ix, w, ix.children[s] \cap Result,
                                    "declared_at") :
                      /\ ix.view[x].last_changed_at <= w
                      /\ ix.view[x].status = "Accepted" } }

(* resolve_branch_state.  (Mutant: an attempt that ended after the          *)
(* watermark counts as completed.)                                          *)
CompletedByNow(ix, w, a) == ix.view[a].state = "Completed"

CompletedAt(ix, w, a) ==
  ix.view[a].state = "Completed" /\ Visible(ix.view[a].terminated_at, w)

UnresolvedAt(ix, w, b) ==
  LET attempts == VisibleIn(ix, w, AttemptsOfBranch(ix, b), "started_at") IN
  /\ attempts # {}
  /\ \A a \in attempts : ~CompletedAt(ix, w, a)
  /\ ExperimentsOfBranch(ix, b)
       \cap AcceptedExperiments(ix, w, ix.view[b].session) = {}

BranchAt(ix, w, b) ==
  IF b \notin VisibleIn(ix, w, Branch, "declared_at") THEN None
  ELSE [ declared |-> ix.view[b], unresolved |-> UnresolvedAt(ix, w, b),
         attempts |-> DOMAIN BranchAttemptsAt(ix, w, b) ]

BranchAncestry(ix, b) ==
  IF ix.view[b] = None THEN None
  ELSE Closure({ b }, LAMBDA x : ParentOf(ix, x))

UnresolvedBranchesAt(ix, w, s) ==
  IF ix.view[s] = None THEN None
  ELSE { b \in VisibleIn(ix, w, ix.children[s] \cap Branch, "declared_at") :
           UnresolvedAt(ix, w, b) }

-----------------------------------------------------------------------------
(* Artifacts.  A new reference replaces the view, and an older snapshot     *)
(* then finds nothing.                                                      *)
RewoundArtifact(ix, w, a) ==
  IF ix.invalidated_at[a] # 0 /\ ~Visible(ix.invalidated_at[a], w)
  THEN [ ix.view[a] EXCEPT !.validation = "Validated" ]
  ELSE ix.view[a]

ArtifactAt(ix, w, a) ==
  IF a \notin VisibleIn(ix, w, Artifact, "recorded_at") THEN None
  ELSE RewoundArtifact(ix, w, a)

ParentsOfArtifact(ix, a) ==
  IF ix.view[a] = None THEN {} ELSE ix.view[a].parents

ArtifactAncestry(ix, a) ==
  IF ix.view[a] = None THEN None
  ELSE Closure({ a }, LAMBDA x : ParentsOfArtifact(ix, x)) \ { a }

(* How often the walk to the descendants is led from p to c: every          *)
(* reference of c that names p appended c to p's list.                      *)
Listings(ix, p, c) ==
  Cardinality({ i \in DOMAIN ix.records :
                  /\ ix.records[i].draft.type = "ArtifactReferenced"
                  /\ ix.records[i].draft.body.id = c
                  /\ p \in ix.records[i].draft.body.parents })

(* LINEAGE_CYCLE is what the code calls any artifact it is led to twice.    *)
ArtifactDescendants(ix, a) ==
  IF ix.view[a] = None THEN None
  ELSE LET reached ==
             Closure({ a }, LAMBDA x : ix.children[x] \cap Artifact)
           ledTo(c) ==
             SumFunction([ p \in reached |-> Listings(ix, p, c) ])
       IN  IF \E c \in reached : ledTo(c) > IF c = a THEN 0 ELSE 1
           THEN [ code |-> "LINEAGE_CYCLE" ]
           ELSE [ nodes |-> reached \ { a } ]

-----------------------------------------------------------------------------
(* Failures, decisions and results *)
FailureAt(ix, w, f) ==
  IF f \in VisibleIn(ix, w, Failure, "recorded_at") THEN ix.view[f] ELSE None

FailuresAt(ix, w) == ViewsOf(ix, VisibleIn(ix, w, Failure, "recorded_at"))

FailuresOf(ix, w, x) ==
  ViewsOf(ix, { f \in VisibleIn(ix, w, Failure, "recorded_at") :
                  ix.view[f].scope = x })

DecisionAt(ix, w, d) ==
  IF d \in VisibleIn(ix, w, Decision, "recorded_at") THEN ix.view[d] ELSE None

DecisionsOf(ix, w, x) ==
  ViewsOf(ix, { d \in VisibleIn(ix, w, Decision, "recorded_at") :
                  ix.view[d].subject = x })

(* A result that changed after the watermark is shown as it was declared.   *)
(* (Mutant: with the decision that accepted it.)                            *)
RewoundButAccepted(v, w) ==
  IF Visible(v.last_changed_at, w) THEN v
  ELSE [ v EXCEPT !.generation = 1, !.status = "Candidate",
                  !.last_changed_at = v.declared_at,
                  !.last_decision = None ]

RewoundResult(v, w) ==
  IF Visible(v.last_changed_at, w) THEN v
  ELSE [ v EXCEPT !.generation = 1, !.status = "Candidate",
                  !.last_changed_at = v.declared_at,
                  !.last_decision = None, !.acceptance_decision = None ]

ResultAt(ix, w, r) ==
  IF r \notin VisibleIn(ix, w, Result, "declared_at") THEN None
  ELSE RewoundResult(ix.view[r], w)

(* results_in_session returns the views as they stand. *)
ResultsInSession(ix, w, s) ==
  IF ix.view[s] = None THEN None
  ELSE ViewsOf(ix, VisibleIn(ix, w, ix.children[s] \cap Result,
                             "declared_at"))

(* Records.  subject_sequence knows the last record of a subject only.      *)
SequencesAbout(ix, x) ==
  { i \in DOMAIN ix.records : ix.records[i].subject = x }

SubjectSequenceAt(ix, w, x) ==
  LET last == Max(SequencesAbout(ix, x) \cup { 0 }) IN
  IF Visible(last, w) THEN last ELSE None

RecordsAt(ix, w) ==
  [ i \in { n \in DOMAIN ix.records : Visible(n, w) } |-> ix.records[i] ]
=============================================================================

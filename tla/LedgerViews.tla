---------------------------- MODULE LedgerViews ----------------------------
(***************************************************************************)
(* What the indexes are made of, field by field.  LifeInv says as much of a *)
(* view as validation needs; here a view is determined by the records: each *)
(* of its fields is that of the record which declared the entity, or of the *)
(* last one which changed it, and each of its dates is that record's place. *)
(* The lists beside the views, and the links inside the views that nothing  *)
(* revises, hold exactly the entities whose records name their owner.       *)
(***************************************************************************)
EXTENDS LedgerCommitProofs

(* The record at place `at` declared x, among the first n. *)
DeclaredAs(h, n, x, at) == at \in 1 .. n /\ TypedAbout(h, at, DeclaringType, x)

LastOf(S, i) == i \in S /\ \A k \in S : k <= i

ReferencesUpTo(h, n, x) ==
  { i \in 1 .. n : TypedAbout(h, i, { "ArtifactReferenced" }, x) }

AcceptancesUpTo(h, n, x) ==
  { i \in ChangesUpTo(h, n, x) : h[i].draft.body.to = "Accepted" }

InvalidatedAfter(h, n, x, at) ==
  \E i \in 1 .. n : at < i /\ TypedAbout(h, i, { "ArtifactInvalidated" }, x)

DepictsSession(h, n, x, v) ==
  /\ DeclaredAs(h, n, x, v.opened_at)
  /\ \/ v.state = "Open" /\ v.closed_at = 0
     \/ /\ v.state = "Closed" /\ v.closed_at \in 1 .. n
        /\ TypedAbout(h, v.closed_at, { "SessionClosed" }, x)

(* The status of a hypothesis or result, and where it got it. *)
DepictsStatus(h, n, x, v, first) ==
  LET changes == ChangesUpTo(h, n, x)
      change == h[v.last_changed_at].draft.body IN
  \/ /\ changes = {} /\ v.last_changed_at = v.declared_at
     /\ v.generation = 1 /\ v.status = first
  \/ /\ LastOf(changes, v.last_changed_at)
     /\ v.generation = change.generation /\ v.status = change.to

DepictsHypothesis(h, n, x, v) ==
  LET b == h[v.declared_at].draft.body IN
  /\ DeclaredAs(h, n, x, v.declared_at)
  /\ v.session = b.session /\ v.parent = b.parent
  /\ DepictsStatus(h, n, x, v, "Proposed")

DepictsExperiment(h, n, x, v) ==
  LET b == h[v.declared_at].draft.body IN
  /\ DeclaredAs(h, n, x, v.declared_at)
  /\ v.session = b.session /\ v.hypotheses = b.hypotheses
  /\ v.branch = b.branch /\ v.parent = b.parent

DepictsBranch(h, n, x, v) ==
  LET b == h[v.declared_at].draft.body IN
  /\ DeclaredAs(h, n, x, v.declared_at)
  /\ v.session = b.session /\ v.parent = b.parent

DepictsEnd(h, n, x, v) ==
  LET end == h[v.terminated_at].draft IN
  \/ v.state = "Running" /\ v.terminated_at = 0 /\ v.failure = None
  \/ /\ v.terminated_at \in 1 .. n
     /\ TypedAbout(h, v.terminated_at, TerminalType, x)
     /\ v.state = TerminalState[end.type]
     /\ v.failure = IF end.type = "AttemptFailed" THEN end.body.failure
                    ELSE None

DepictsAttempt(h, n, x, v) ==
  LET b == h[v.started_at].draft.body IN
  /\ DeclaredAs(h, n, x, v.started_at)
  /\ v.experiment = b.experiment /\ v.branch = b.branch /\ v.generation = 1
  /\ DepictsEnd(h, n, x, v)

DepictsModelCall(h, n, x, v) ==
  LET b == h[v.recorded_at].draft.body IN
  /\ DeclaredAs(h, n, x, v.recorded_at)
  /\ v.attempt = b.attempt /\ v.parents = b.parents

DepictsToolCall(h, n, x, v) ==
  /\ DeclaredAs(h, n, x, v.recorded_at)
  /\ v.attempt = h[v.recorded_at].draft.body.attempt

DepictsObservation(h, n, x, v) ==
  LET b == h[v.recorded_at].draft.body IN
  /\ DeclaredAs(h, n, x, v.recorded_at)
  /\ v.session = h[v.recorded_at].session
  /\ v.attempt = b.attempt /\ v.metric = b.metric
  /\ \E i \in 1 .. n : /\ TypedAbout(h, i, { "AttemptStarted" }, v.attempt)
                       /\ h[i].draft.body.experiment = v.experiment

(* An artifact is what its last reference makes it. *)
DepictsArtifact(h, n, x, v) ==
  LET b == h[v.recorded_at].draft.body IN
  /\ LastOf(ReferencesUpTo(h, n, x), v.recorded_at)
  /\ v.generation = Cardinality(ReferencesUpTo(h, n, x))
  /\ v.session = b.session /\ v.producer = b.producer
  /\ v.parents = b.parents
  /\ v.validation = IF InvalidatedAfter(h, n, x, v.recorded_at)
                    THEN "Invalidated" ELSE b.validation

DepictsMetric(h, n, x, v) ==
  LET b == h[v.declared_at].draft.body IN
  /\ DeclaredAs(h, n, x, v.declared_at)
  /\ v.session = b.session /\ v.key = b.key /\ v.value_kind = b.value_kind

DepictsFailure(h, n, x, v) ==
  LET b == h[v.recorded_at].draft.body IN
  /\ DeclaredAs(h, n, x, v.recorded_at)
  /\ v.session = h[v.recorded_at].session /\ v.scope = b.scope
  /\ v.predecessor = b.predecessor /\ v.recovery = b.recovery

DepictsDecision(h, n, x, v) ==
  LET b == h[v.recorded_at].draft.body IN
  /\ DeclaredAs(h, n, x, v.recorded_at)
  /\ v.session = b.session /\ v.subject = b.subject
  /\ v.decision_type = b.decision_type /\ v.outcome = b.outcome
  /\ v.evidence = b.evidence

DepictsDecisions(h, n, x, v) ==
  LET changes == ChangesUpTo(h, n, x)
      accepting == AcceptancesUpTo(h, n, x) IN
  /\ v.last_decision = IF changes = {} THEN None
                       ELSE h[v.last_changed_at].draft.body.decision
  /\ \/ accepting = {} /\ v.acceptance_decision = None
     \/ \E i \in 1 .. n :
          /\ LastOf(accepting, i)
          /\ v.acceptance_decision = h[i].draft.body.decision

DepictsResult(h, n, x, v) ==
  LET b == h[v.declared_at].draft.body IN
  /\ DeclaredAs(h, n, x, v.declared_at)
  /\ v.session = b.session /\ v.support = b.support
  /\ DepictsStatus(h, n, x, v, "Candidate")
  /\ DepictsDecisions(h, n, x, v)

(* View v of entity x is what the first n records of h make of it. *)
Depicts(h, n, x, v) ==
  v # None =>
    /\ x \in Session => DepictsSession(h, n, x, v)
    /\ x \in Hypothesis => DepictsHypothesis(h, n, x, v)
    /\ x \in Experiment => DepictsExperiment(h, n, x, v)
    /\ x \in Branch => DepictsBranch(h, n, x, v)
    /\ x \in Attempt => DepictsAttempt(h, n, x, v)
    /\ x \in ModelCall => DepictsModelCall(h, n, x, v)
    /\ x \in ToolCall => DepictsToolCall(h, n, x, v)
    /\ x \in Observation => DepictsObservation(h, n, x, v)
    /\ x \in Artifact => DepictsArtifact(h, n, x, v)
    /\ x \in Metric => DepictsMetric(h, n, x, v)
    /\ x \in Failure => DepictsFailure(h, n, x, v)
    /\ x \in Decision => DepictsDecision(h, n, x, v)
    /\ x \in Result => DepictsResult(h, n, x, v)

(* An invalidation is of a reference that was not invalid.                  *)
InvalidatesValid(h, n) ==
  h[n].draft.type = "ArtifactInvalidated" =>
    \E i \in 1 .. n - 1 :
      LET x == h[n].draft.body.id IN
      /\ LastOf(ReferencesUpTo(h, n - 1, x), i)
      /\ ~InvalidatedAfter(h, n - 1, x, i)
      /\ h[i].draft.body.validation # "Invalidated"

(* An attempt is started on the branch its experiment was declared on.      *)
StartsOnBranch(h, n) ==
  h[n].draft.type = "AttemptStarted" =>
    \E i \in 1 .. n - 1 :
      /\ TypedAbout(h, i, DeclaringType, h[n].draft.body.experiment)
      /\ h[i].draft.body.branch = h[n].draft.body.branch

(* The n-th record rests on what those before it built (beside Follows).    *)
Builds(h, n) == InvalidatesValid(h, n) /\ StartsOnBranch(h, n)

DepictedInv ==
  /\ \A n \in 1 .. Extended : Builds(Whole, n)
  /\ \A x \in Entity : Depicts(Whole, Len(records), x, view[x])
  /\ \A x \in Entity : Depicts(Whole, Extended, x, Find(x))
  /\ \A k \in 1 .. Len(staged) :
       staged[k].key # None =>
         Depicts(Whole, Len(records) + k, staged[k].key, staged[k].entity)

(* The owners a record's declared entity is listed under, and linked in.    *)
OwnersOf(r) ==
  LET b == r.draft.body IN
  CASE r.draft.type = "HypothesisDeclared" ->
         { b.session } \cup ({ b.parent } \ { None })
    [] r.draft.type \in { "ExperimentDeclared", "BranchDeclared",
                          "ResultDeclared" } -> { b.session }
    [] r.draft.type = "FailureRecorded" -> { r.session }
    [] r.draft.type = "ArtifactReferenced" -> b.parents
    [] OTHER -> {}

Listed(x) ==
  { records[i].draft.body.id :
      i \in { j \in DOMAIN records : x \in OwnersOf(records[j]) } }

AttemptsOf(e) ==
  { records[i].draft.body.id :
      i \in { j \in DOMAIN records : /\ records[j].draft.type = "AttemptStarted"
                                     /\ records[j].draft.body.experiment = e } }

ExperimentsOf(b) ==
  { records[i].draft.body.id :
      i \in { j \in DOMAIN records : /\ records[j].draft.type = "ExperimentDeclared"
                                     /\ records[j].draft.body.branch = b } }

(* A staged experiment or branch starts without links, and what has links   *)
(* has them all.                                                            *)
ListsInv ==
  /\ \A k \in 1 .. Len(staged) :
       staged[k].draft.type \in { "ExperimentDeclared", "BranchDeclared" } =>
         staged[k].entity.links = {}
  /\ \A x \in Entity : children[x] = Listed(x)
  /\ \A e \in Experiment : view[e] # None =>
       view[e].links \cap Attempt = AttemptsOf(e)
  /\ \A b \in Branch : view[b] # None =>
       view[b].links \cap Experiment = ExperimentsOf(b)

-----------------------------------------------------------------------------
(* What the first n records of h make of x, the first m of g make of it if  *)
(* they begin with those and none that follows is about x.                  *)

Prolongs(g, m, h, n, x) ==
  /\ \A i \in 1 .. n : i \in 1 .. m /\ g[i] = h[i]
  /\ \A i \in 1 .. m : i \in 1 .. n \/ ~About(g, i, x)

LEMMA ProlongedPlaces ==
  ASSUME NEW n \in Nat, NEW m \in Nat, NEW h, NEW g, NEW x,
         Prolongs(g, m, h, n, x)
  PROVE  /\ \A types, y : \A i \in 1 .. n :
              TypedAbout(g, i, types, y) <=> TypedAbout(h, i, types, y)
         /\ ChangesUpTo(g, m, x) = ChangesUpTo(h, n, x)
         /\ ReferencesUpTo(g, m, x) = ReferencesUpTo(h, n, x)
         /\ AcceptancesUpTo(g, m, x) = AcceptancesUpTo(h, n, x)
         /\ \A at : InvalidatedAfter(g, m, x, at) <=>
                      InvalidatedAfter(h, n, x, at)
<1>1. \A types, y : \A i \in 1 .. n :
        TypedAbout(g, i, types, y) <=> TypedAbout(h, i, types, y)
  BY DEF Prolongs, TypedAbout
<1>2. ASSUME NEW types, "AccountingRecorded" \notin types, NEW i \in 1 .. m,
             TypedAbout(g, i, types, x)
      PROVE  i \in 1 .. n
  BY <1>2 DEF Prolongs, TypedAbout, About
<1>3. \A i \in 1 .. n : i \in 1 .. m /\ g[i] = h[i]
  BY DEF Prolongs
<1>4. ChangesUpTo(g, m, x) = ChangesUpTo(h, n, x)
  BY <1>1, <1>2, <1>3 DEF ChangesUpTo, ChangeType
<1>5. ReferencesUpTo(g, m, x) = ReferencesUpTo(h, n, x)
  BY <1>1, <1>2, <1>3 DEF ReferencesUpTo
<1>6. AcceptancesUpTo(g, m, x) = AcceptancesUpTo(h, n, x)
  <2>1. \A i \in ChangesUpTo(h, n, x) : g[i] = h[i]
    BY <1>3 DEF ChangesUpTo
  <2> QED BY <1>4, <2>1 DEF AcceptancesUpTo
<1>7. \A at : InvalidatedAfter(g, m, x, at) <=> InvalidatedAfter(h, n, x, at)
  BY <1>1, <1>2, <1>3 DEF InvalidatedAfter
<1> QED BY <1>1, <1>4, <1>5, <1>6, <1>7

LEMMA DepictsProlonged ==
  ASSUME NEW n \in Nat, NEW m \in Nat, NEW h, NEW g, NEW x, NEW v,
         Prolongs(g, m, h, n, x), Depicts(h, n, x, v)
  PROVE  Depicts(g, m, x, v)
<1>1. /\ \A types, y : \A i \in 1 .. n :
           TypedAbout(g, i, types, y) <=> TypedAbout(h, i, types, y)
      /\ ChangesUpTo(g, m, x) = ChangesUpTo(h, n, x)
      /\ ReferencesUpTo(g, m, x) = ReferencesUpTo(h, n, x)
      /\ AcceptancesUpTo(g, m, x) = AcceptancesUpTo(h, n, x)
      /\ \A at : InvalidatedAfter(g, m, x, at) <=> InvalidatedAfter(h, n, x, at)
  BY ProlongedPlaces
<1>2. \A i \in 1 .. n : i \in 1 .. m /\ g[i] = h[i]
  BY DEF Prolongs
<1>3. ASSUME NEW at, DeclaredAs(h, n, x, at)
      PROVE  DeclaredAs(g, m, x, at) /\ g[at] = h[at]
  BY <1>1, <1>2, <1>3 DEF DeclaredAs
<1>4. ASSUME NEW i, LastOf(ChangesUpTo(h, n, x), i)
      PROVE  g[i] = h[i]
  BY <1>2, <1>4 DEF LastOf, ChangesUpTo
<1>5. ASSUME NEW first, DepictsStatus(h, n, x, v, first)
      PROVE  DepictsStatus(g, m, x, v, first)
  BY <1>1, <1>4, <1>5 DEF DepictsStatus
<1>6. DepictsSession(h, n, x, v) => DepictsSession(g, m, x, v)
  BY <1>1, <1>2, <1>3 DEF DepictsSession
<1>7. DepictsHypothesis(h, n, x, v) => DepictsHypothesis(g, m, x, v)
  BY <1>3, <1>5 DEF DepictsHypothesis
<1>8. DepictsExperiment(h, n, x, v) => DepictsExperiment(g, m, x, v)
  BY <1>3 DEF DepictsExperiment
<1>9. DepictsBranch(h, n, x, v) => DepictsBranch(g, m, x, v)
  BY <1>3 DEF DepictsBranch
<1>10. DepictsEnd(h, n, x, v) => DepictsEnd(g, m, x, v)
  BY <1>1, <1>2 DEF DepictsEnd
<1>11. DepictsAttempt(h, n, x, v) => DepictsAttempt(g, m, x, v)
  BY <1>3, <1>10 DEF DepictsAttempt
<1>12. DepictsModelCall(h, n, x, v) => DepictsModelCall(g, m, x, v)
  BY <1>3 DEF DepictsModelCall
<1>13. DepictsToolCall(h, n, x, v) => DepictsToolCall(g, m, x, v)
  BY <1>3 DEF DepictsToolCall
<1>14. DepictsObservation(h, n, x, v) => DepictsObservation(g, m, x, v)
  BY <1>1, <1>2, <1>3 DEF DepictsObservation
<1>15. DepictsArtifact(h, n, x, v) => DepictsArtifact(g, m, x, v)
  <2>1. \A i : LastOf(ReferencesUpTo(h, n, x), i) => g[i] = h[i]
    BY <1>2 DEF LastOf, ReferencesUpTo
  <2> QED BY <1>1, <2>1 DEF DepictsArtifact
<1>16. DepictsMetric(h, n, x, v) => DepictsMetric(g, m, x, v)
  BY <1>3 DEF DepictsMetric
<1>17. DepictsFailure(h, n, x, v) => DepictsFailure(g, m, x, v)
  BY <1>3 DEF DepictsFailure
<1>18. DepictsDecision(h, n, x, v) => DepictsDecision(g, m, x, v)
  BY <1>3 DEF DepictsDecision
<1>19. ASSUME DepictsStatus(h, n, x, v, "Candidate"),
              DepictsDecisions(h, n, x, v)
       PROVE  DepictsDecisions(g, m, x, v)
  <2>1. ChangesUpTo(h, n, x) # {} =>
          g[v.last_changed_at] = h[v.last_changed_at]
    BY <1>4, <1>19 DEF DepictsStatus
  <2> QED BY <1>1, <1>2, <1>19, <2>1 DEF DepictsDecisions
<1>20. DepictsResult(h, n, x, v) => DepictsResult(g, m, x, v)
  BY <1>3, <1>5, <1>19 DEF DepictsResult
<1> QED BY <1>6, <1>7, <1>8, <1>9, <1>11, <1>12, <1>13, <1>14, <1>15, <1>16,
           <1>17, <1>18, <1>20 DEF Depicts

LEMMA AgreeOnDepicts ==
  ASSUME NEW n \in Nat, NEW h, NEW g, Agree(g, h, n),
         NEW x, NEW v, Depicts(h, n, x, v)
  PROVE  Depicts(g, n, x, v)
<1>1. Prolongs(g, n, h, n, x)
  BY DEF Prolongs, Agree
<1> QED BY <1>1, DepictsProlonged

LEMMA DepictsOfOthers ==
  ASSUME NEW n \in Nat, NEW h, NEW x, NEW v, Depicts(h, n, x, v),
         ~About(h, n + 1, x)
  PROVE  Depicts(h, n + 1, x, v)
<1>1. Prolongs(h, n + 1, h, n, x)
  BY DEF Prolongs
<1> QED BY <1>1, DepictsProlonged

(* The links of a view are not among what the records make of it.           *)
LEMMA DepictsWithLinks ==
  ASSUME NEW n \in Nat, NEW h, NEW x \in Linked, NEW v \in View,
         ViewOf(x, v), NEW key \in Entity, Depicts(h, n, x, v)
  PROVE  Depicts(h, n, x, [ v EXCEPT !.links = @ \cup { key } ])
<1> DEFINE w == [ v EXCEPT !.links = @ \cup { key } ]
<1> SUFFICES Depicts(h, n, x, w)
  OBVIOUS
<1>1. v # None
  BY NoneAssumption
<1>2. CASE x \in Session
  <2>1. v \in SessionView
    BY <1>2 DEF ViewOf
  <2>2. w.opened_at = v.opened_at /\ w.closed_at = v.closed_at
        /\ w.state = v.state
    BY <2>1 DEF SessionView
  <2> HIDE DEF w
  <2>3. DepictsSession(h, n, x, w)
    BY <1>1, <1>2, <2>2 DEF Depicts, DepictsSession
  <2> QED BY <1>2, <2>3, IdentityDomains DEF Depicts
<1>3. CASE x \in Hypothesis
  <2>1. v \in HypothesisView
    BY <1>3 DEF ViewOf
  <2>2. /\ w.session = v.session /\ w.parent = v.parent
        /\ w.declared_at = v.declared_at /\ w.generation = v.generation
        /\ w.last_changed_at = v.last_changed_at /\ w.status = v.status
    BY <2>1 DEF HypothesisView
  <2> HIDE DEF w
  <2>3. DepictsHypothesis(h, n, x, v)
    BY <1>1, <1>3 DEF Depicts
  <2>4. DepictsHypothesis(h, n, x, w)
    BY <2>2, <2>3 DEF DepictsHypothesis, DepictsStatus
  <2> QED BY <1>3, <2>4, IdentityDomains DEF Depicts
<1>4. CASE x \in Experiment
  <2>1. v \in ExperimentView
    BY <1>4 DEF ViewOf
  <2>2. /\ w.session = v.session /\ w.parent = v.parent
        /\ w.declared_at = v.declared_at /\ w.branch = v.branch
        /\ w.hypotheses = v.hypotheses
    BY <2>1 DEF ExperimentView
  <2> HIDE DEF w
  <2>3. DepictsExperiment(h, n, x, w)
    BY <1>1, <1>4, <2>2 DEF Depicts, DepictsExperiment
  <2> QED BY <1>4, <2>3, IdentityDomains DEF Depicts
<1>5. CASE x \in Branch
  <2>1. v \in BranchView
    BY <1>5 DEF ViewOf
  <2>2. /\ w.session = v.session /\ w.parent = v.parent
        /\ w.declared_at = v.declared_at
    BY <2>1 DEF BranchView
  <2> HIDE DEF w
  <2>3. DepictsBranch(h, n, x, w)
    BY <1>1, <1>5, <2>2 DEF Depicts, DepictsBranch
  <2> QED BY <1>5, <2>3, IdentityDomains DEF Depicts
<1>6. CASE x \in Attempt
  <2>1. v \in AttemptView
    BY <1>6 DEF ViewOf
  <2>2. /\ w.experiment = v.experiment /\ w.branch = v.branch
        /\ w.started_at = v.started_at /\ w.generation = v.generation
        /\ w.state = v.state /\ w.terminated_at = v.terminated_at
        /\ w.failure = v.failure
    BY <2>1 DEF AttemptView
  <2> HIDE DEF w
  <2>3. DepictsAttempt(h, n, x, v)
    BY <1>1, <1>6 DEF Depicts
  <2>4. DepictsAttempt(h, n, x, w)
    BY <2>2, <2>3 DEF DepictsAttempt, DepictsEnd
  <2> QED BY <1>6, <2>4, IdentityDomains DEF Depicts
<1> QED BY <1>2, <1>3, <1>4, <1>5, <1>6 DEF Linked

LEMMA AgreeOnInvalidations ==
  ASSUME NEW h, NEW g, NEW n \in Nat \ { 0 }, Agree(g, h, n),
         InvalidatesValid(h, n)
  PROVE  InvalidatesValid(g, n)
<1> DEFINE x == h[n].draft.body.id
<1>1. /\ n - 1 \in Nat /\ g[n] = h[n]
      /\ \A i \in 1 .. n - 1 : g[i] = h[i]
  BY DEF Agree
<1>2. Prolongs(g, n - 1, h, n - 1, x)
  BY <1>1 DEF Prolongs
<1>3. /\ ReferencesUpTo(g, n - 1, x) = ReferencesUpTo(h, n - 1, x)
      /\ \A at : InvalidatedAfter(g, n - 1, x, at) <=>
                   InvalidatedAfter(h, n - 1, x, at)
  BY <1>1, <1>2, ProlongedPlaces
<1>4. SUFFICES ASSUME g[n].draft.type = "ArtifactInvalidated"
               PROVE  InvalidatesValid(g, n)
  BY DEF InvalidatesValid
<1>5. PICK i \in 1 .. n - 1 :
        /\ LastOf(ReferencesUpTo(h, n - 1, x), i)
        /\ ~InvalidatedAfter(h, n - 1, x, i)
        /\ h[i].draft.body.validation # "Invalidated"
  <2>1. h[n].draft.type = "ArtifactInvalidated"
    BY <1>1, <1>4
  <2> QED BY <2>1, Zenon DEF InvalidatesValid
<1>6. /\ LastOf(ReferencesUpTo(g, n - 1, x), i)
      /\ ~InvalidatedAfter(g, n - 1, x, i)
      /\ g[i].draft.body.validation # "Invalidated"
      /\ x = g[n].draft.body.id
  BY <1>1, <1>3, <1>5
<1> HIDE DEF x
<1> QED BY <1>6 DEF InvalidatesValid

LEMMA AgreeOnBuilds ==
  ASSUME NEW h, NEW g, NEW n \in Nat \ { 0 }, Agree(g, h, n), Builds(h, n)
  PROVE  Builds(g, n)
<1>1. g[n] = h[n] /\ \A i \in 1 .. n - 1 : g[i] = h[i]
  BY DEF Agree
<1>2. StartsOnBranch(g, n)
  BY <1>1 DEF Builds, StartsOnBranch, TypedAbout
<1> QED BY <1>2, AgreeOnInvalidations DEF Builds


-----------------------------------------------------------------------------
(* The entity of a validated draft is what the records make of it. *)

Pictured(g) == \A x \in Entity : Depicts(g, Extended, x, Find(x))

LEMMA NextPlace ==
  ASSUME TypeOK, NEW d, NEW g, Behind(d, g)
  PROVE  /\ Extended \in Nat /\ Sequence = Extended + 1
         /\ g[Sequence].draft = d /\ g[Sequence].session = SessionOf(d)
         /\ Sequence \in 1 .. Sequence /\ Sequence \in Nat
         /\ Sequence # 0 /\ Sequence \notin 1 .. Extended
         /\ \A i \in 1 .. Extended : i \in 1 .. Sequence /\ i < Sequence
         /\ \A i \in 1 .. Sequence : i \in 1 .. Extended \/ i = Sequence
<1>1. Extended \in Nat /\ Sequence = Extended + 1
  <2>1. Len(records) \in Nat /\ Len(staged) \in Nat
    BY DEF TypeOK
  <2> QED BY <2>1 DEF Extended, Sequence
<1>2. g[Sequence].draft = d /\ g[Sequence].session = SessionOf(d)
  BY <1>1 DEF Behind
<1> QED BY <1>1, <1>2

LEMMA DeclaresHere ==
  ASSUME TypeOK, NEW d \in Drafts, Validates(d), StagesTyped(d),
         NEW g, Behind(d, g), d.type \in DeclaringType
  PROVE  /\ DeclaredAs(g, Sequence, d.body.id, Sequence)
         /\ \A i \in 1 .. Extended : ~About(g, i, d.body.id)
<1>1. d.body.id \in Entity /\ ~Found(d.body.id)
  <2>1. Fresh(d.body.id)
    BY DeclaresFresh
  <2>2. d.type # "AccountingRecorded"
    BY DEF DeclaringType
  <2>3. d.body.id \in Entity
    BY <2>2 DEF StagesTyped
  <2> QED BY <2>1, <2>3 DEF Fresh
<1>2. \A i \in 1 .. Extended : ~About(g, i, d.body.id)
  BY <1>1, FoundIsShown
<1> QED BY <1>2, NextPlace DEF DeclaredAs, TypedAbout

LEMMA DeclaredBefore ==
  ASSUME TypeOK, NEW d, NEW g, Behind(d, g), NEW x, NEW at,
         DeclaredAs(g, Extended, x, at)
  PROVE  DeclaredAs(g, Sequence, x, at)
BY NextPlace DEF DeclaredAs

LEMMA FoundIsPictured ==
  ASSUME TypeOK, NEW d \in Drafts, Validates(d), StagesTyped(d),
         NEW g, Behind(d, g), Pictured(g), d.type \in ChangingType
  PROVE  /\ d.body.id \in Entity /\ Find(d.body.id) # None
         /\ ViewOf(d.body.id, Find(d.body.id))
         /\ Depicts(g, Extended, d.body.id, Find(d.body.id))
<1>1. d.body.id \in Entity /\ Found(d.body.id)
  BY ChangedAtHome
<1> QED BY <1>1, FoundViews DEF Found, Pictured

LEMMA StagedDepictsSession ==
  ASSUME TypeOK, NEW d \in Drafts, Validates(d), StagesTyped(d),
         NEW g, Behind(d, g), Pictured(g), d.type \in SessionRecord
  PROVE  DepictsSession(g, Sequence, d.body.id, EntityOf(d))
<1> DEFINE x == d.body.id
<1>1. x \in Session
  BY BodyKinds
<1>2. CASE d.type = "SessionOpened"
  <2>1. EntityOf(d) = SessionOpenedEntity(d)
    BY <1>2 DEF EntityOf, TerminalType, TerminalState
  <2>2. DeclaredAs(g, Sequence, x, Sequence)
    BY <1>2, DeclaresHere DEF DeclaringType
  <2> QED BY <2>1, <2>2 DEF DepictsSession, SessionOpenedEntity
<1>3. CASE d.type = "SessionClosed"
  <2>1. EntityOf(d) = SessionClosedEntity(d)
    BY <1>3 DEF EntityOf, TerminalType, TerminalState
  <2>2. Find(x) \in SessionView /\ DepictsSession(g, Extended, x, Find(x))
    BY <1>1, <1>3, FoundIsPictured DEF ChangingType, ViewOf, Depicts
  <2>3. /\ EntityOf(d).state = "Closed" /\ EntityOf(d).closed_at = Sequence
        /\ EntityOf(d).opened_at = Find(x).opened_at
    BY <2>1, <2>2 DEF SessionClosedEntity, SessionView
  <2>4. TypedAbout(g, Sequence, { "SessionClosed" }, x)
    BY <1>3, NextPlace DEF TypedAbout
  <2>5. DeclaredAs(g, Sequence, x, Find(x).opened_at)
    BY <2>2, DeclaredBefore DEF DepictsSession
  <2> QED BY <2>3, <2>4, <2>5, NextPlace DEF DepictsSession
<1>4. CASE d.type = "SessionAnnotation"
  <2>1. EntityOf(d) = Find(x)
    BY <1>4 DEF EntityOf, TerminalType, TerminalState,
       SessionAnnotationEntity
  <2>2. DepictsSession(g, Extended, x, Find(x))
    BY <1>1, <1>4, FoundIsPictured DEF ChangingType, Depicts
  <2>3. DeclaredAs(g, Sequence, x, Find(x).opened_at)
    BY <2>2, DeclaredBefore DEF DepictsSession
  <2> QED BY <2>1, <2>2, <2>3, NextPlace DEF DepictsSession
<1> QED BY <1>2, <1>3, <1>4 DEF SessionRecord

(* The changes there are once a draft is staged. *)
LEMMA ChangesHere ==
  ASSUME TypeOK, NEW d \in Drafts, NEW g, Behind(d, g)
  PROVE  LET x == d.body.id IN
         /\ d.type \notin ChangeType =>
              /\ ChangesUpTo(g, Sequence, x) = ChangesUpTo(g, Extended, x)
              /\ AcceptancesUpTo(g, Sequence, x)
                   = AcceptancesUpTo(g, Extended, x)
         /\ d.type \in ChangeType =>
              /\ LastOf(ChangesUpTo(g, Sequence, x), Sequence)
              /\ d.body.to = "Accepted" =>
                   LastOf(AcceptancesUpTo(g, Sequence, x), Sequence)
              /\ d.body.to # "Accepted" =>
                   AcceptancesUpTo(g, Sequence, x)
                     = AcceptancesUpTo(g, Extended, x)
<1> DEFINE x == d.body.id
<1>1. /\ Extended \in Nat /\ Sequence \in Nat /\ g[Sequence].draft = d
      /\ Sequence \in 1 .. Sequence
      /\ \A i \in 1 .. Extended : i \in 1 .. Sequence
      /\ \A i \in 1 .. Sequence : i \in 1 .. Extended \/ i = Sequence
      /\ \A i \in 1 .. Sequence : i <= Sequence
  BY NextPlace
<1>2. TypedAbout(g, Sequence, ChangeType, x) <=> d.type \in ChangeType
  BY <1>1 DEF TypedAbout
<1>3. d.type \notin ChangeType =>
        ChangesUpTo(g, Sequence, x) = ChangesUpTo(g, Extended, x)
  BY <1>1, <1>2 DEF ChangesUpTo
<1>4. d.type \in ChangeType =>
        ChangesUpTo(g, Sequence, x)
          = ChangesUpTo(g, Extended, x) \cup { Sequence }
  BY <1>1, <1>2 DEF ChangesUpTo
<1>5. \A k \in ChangesUpTo(g, Sequence, x) : k <= Sequence
  BY <1>1 DEF ChangesUpTo
<1> QED BY <1>1, <1>3, <1>4, <1>5 DEF LastOf, AcceptancesUpTo

LEMMA DeclaredUnchanged ==
  ASSUME TypeOK, NEW d \in Drafts, Validates(d), StagesTyped(d),
         NEW g, Behind(d, g), d.type \in DeclaringType
  PROVE  /\ ChangesUpTo(g, Sequence, d.body.id) = {}
         /\ AcceptancesUpTo(g, Sequence, d.body.id) = {}
<1> DEFINE x == d.body.id
<1>1. \A i \in 1 .. Extended : ~About(g, i, x)
  BY DeclaresHere
<1>2. ChangesUpTo(g, Extended, x) = {}
  BY <1>1 DEF ChangesUpTo, TypedAbout, About, ChangeType
<1>3. d.type \notin ChangeType
  BY DEF DeclaringType, ChangeType
<1>4. ChangesUpTo(g, Sequence, x) = {}
  BY <1>2, <1>3, ChangesHere
<1> QED BY <1>4 DEF AcceptancesUpTo

LEMMA StagedDepictsHypothesis ==
  ASSUME TypeOK, NEW d \in Drafts, Validates(d), StagesTyped(d),
         NEW g, Behind(d, g), Pictured(g),
         d.type \in { "HypothesisDeclared", "HypothesisStatusChanged" }
  PROVE  DepictsHypothesis(g, Sequence, d.body.id, EntityOf(d))
<1> DEFINE x == d.body.id
           v == EntityOf(d)
<1> SUFFICES DepictsHypothesis(g, Sequence, x, v)
  OBVIOUS
<1>1. x \in Hypothesis
  BY BodyKinds
<1>2. CASE d.type = "HypothesisDeclared"
  <2>1. v = HypothesisDeclaredEntity(d)
    BY <1>2 DEF EntityOf, TerminalType, TerminalState
  <2>2. d.type \in DeclaringType
    BY <1>2 DEF DeclaringType
  <2>3. /\ v.declared_at = Sequence /\ v.last_changed_at = Sequence
        /\ v.session = d.body.session /\ v.parent = d.body.parent
        /\ v.generation = 1 /\ v.status = "Proposed"
    BY <2>1 DEF HypothesisDeclaredEntity
  <2>4. DeclaredAs(g, Sequence, x, Sequence) /\ g[Sequence].draft = d
        /\ ChangesUpTo(g, Sequence, x) = {}
    BY <2>2, DeclaresHere, DeclaredUnchanged, NextPlace
  <2>5. /\ DeclaredAs(g, Sequence, x, v.declared_at)
        /\ g[v.declared_at].draft = d
    BY <2>3, <2>4
  <2> HIDE DEF v
  <2>6. DepictsStatus(g, Sequence, x, v, "Proposed")
    BY <2>3, <2>4 DEF DepictsStatus
  <2> QED BY <2>3, <2>5, <2>6 DEF DepictsHypothesis
<1>3. CASE d.type = "HypothesisStatusChanged"
  <2>1. v = HypothesisStatusChangedEntity(d)
    BY <1>3 DEF EntityOf, TerminalType, TerminalState
  <2>2. /\ Find(x) \in HypothesisView
        /\ DepictsHypothesis(g, Extended, x, Find(x))
    BY <1>1, <1>3, FoundIsPictured DEF ChangingType, ViewOf, Depicts
  <2>3. /\ v.declared_at = Find(x).declared_at
        /\ v.last_changed_at = Sequence
        /\ v.session = Find(x).session /\ v.parent = Find(x).parent
        /\ v.generation = d.body.generation /\ v.status = d.body.to
    BY <2>1, <2>2 DEF HypothesisStatusChangedEntity, HypothesisView
  <2>4. DeclaredAs(g, Sequence, x, Find(x).declared_at)
    BY <2>2, DeclaredBefore DEF DepictsHypothesis
  <2>5. LastOf(ChangesUpTo(g, Sequence, x), Sequence)
        /\ g[Sequence].draft = d
    BY <1>3, ChangesHere, NextPlace DEF ChangeType
  <2> HIDE DEF v, x
  <2>6. DepictsStatus(g, Sequence, x, v, "Proposed")
    BY <2>3, <2>5 DEF DepictsStatus
  <2> QED BY <2>2, <2>3, <2>4, <2>6 DEF DepictsHypothesis
<1> QED BY <1>2, <1>3

LEMMA StagedDepictsResult ==
  ASSUME TypeOK, NEW d \in Drafts, Validates(d), StagesTyped(d),
         NEW g, Behind(d, g), Pictured(g),
         d.type \in { "ResultDeclared", "ResultStatusChanged" }
  PROVE  DepictsResult(g, Sequence, d.body.id, EntityOf(d))
<1> DEFINE x == d.body.id
           v == EntityOf(d)
<1> SUFFICES DepictsResult(g, Sequence, x, v)
  OBVIOUS
<1>1. x \in Result
  BY BodyKinds
<1>2. CASE d.type = "ResultDeclared"
  <2>1. v = ResultDeclaredEntity(d)
    BY <1>2 DEF EntityOf, TerminalType, TerminalState
  <2>2. d.type \in DeclaringType
    BY <1>2 DEF DeclaringType
  <2>3. /\ v.declared_at = Sequence /\ v.last_changed_at = Sequence
        /\ v.session = d.body.session /\ v.support = d.body.support
        /\ v.generation = 1 /\ v.status = "Candidate"
        /\ v.last_decision = None /\ v.acceptance_decision = None
    BY <2>1 DEF ResultDeclaredEntity
  <2>4. DeclaredAs(g, Sequence, x, Sequence) /\ g[Sequence].draft = d
        /\ ChangesUpTo(g, Sequence, x) = {}
        /\ AcceptancesUpTo(g, Sequence, x) = {}
    BY <2>2, DeclaresHere, DeclaredUnchanged, NextPlace
  <2>5. /\ DeclaredAs(g, Sequence, x, v.declared_at)
        /\ g[v.declared_at].draft = d
    BY <2>3, <2>4
  <2> HIDE DEF v
  <2>6. DepictsStatus(g, Sequence, x, v, "Candidate")
    BY <2>3, <2>4 DEF DepictsStatus
  <2>7. DepictsDecisions(g, Sequence, x, v)
    BY <2>3, <2>4 DEF DepictsDecisions
  <2> QED BY <2>3, <2>5, <2>6, <2>7 DEF DepictsResult
<1>3. CASE d.type = "ResultStatusChanged"
  <2>1. v = ResultStatusChangedEntity(d)
    BY <1>3 DEF EntityOf, TerminalType, TerminalState
  <2>2. /\ Find(x) \in ResultView
        /\ DepictsResult(g, Extended, x, Find(x))
    BY <1>1, <1>3, FoundIsPictured DEF ChangingType, ViewOf, Depicts
  <2>3. /\ v.declared_at = Find(x).declared_at
        /\ v.last_changed_at = Sequence
        /\ v.session = Find(x).session /\ v.support = Find(x).support
        /\ v.generation = d.body.generation /\ v.status = d.body.to
        /\ v.last_decision = d.body.decision
        /\ v.acceptance_decision =
             IF d.body.to = "Accepted" THEN d.body.decision
             ELSE Find(x).acceptance_decision
    BY <2>1, <2>2 DEF ResultStatusChangedEntity, ResultView
  <2>4. DeclaredAs(g, Sequence, x, Find(x).declared_at)
    BY <2>2, DeclaredBefore DEF DepictsResult
  <2>5. /\ g[Sequence].draft = d /\ Sequence \in 1 .. Sequence
        /\ \A i \in 1 .. Extended : i \in 1 .. Sequence
    BY NextPlace
  <2>6. /\ LastOf(ChangesUpTo(g, Sequence, x), Sequence)
        /\ d.body.to = "Accepted" =>
             LastOf(AcceptancesUpTo(g, Sequence, x), Sequence)
        /\ d.body.to # "Accepted" =>
             AcceptancesUpTo(g, Sequence, x) = AcceptancesUpTo(g, Extended, x)
    BY <1>3, ChangesHere DEF ChangeType
  <2> HIDE DEF v, x
  <2>7. DepictsStatus(g, Sequence, x, v, "Candidate")
    BY <2>3, <2>5, <2>6 DEF DepictsStatus
  <2>8. ChangesUpTo(g, Sequence, x) # {}
    <3> DEFINE S == ChangesUpTo(g, Sequence, x)
    <3>1. Sequence \in S
      BY <2>6 DEF LastOf
    <3> HIDE DEF S
    <3>2. S # {}
      BY <3>1
    <3> QED BY <3>2 DEF S
  <2>9. v.last_decision = g[v.last_changed_at].draft.body.decision
    <3>1. /\ v.last_changed_at = Sequence /\ g[Sequence].draft = d
          /\ v.last_decision = d.body.decision
      BY <2>3, <2>5
    <3> QED BY <3>1, Zenon
  <2>10. ASSUME d.body.to = "Accepted"
         PROVE  DepictsDecisions(g, Sequence, x, v)
    <3>1. v.acceptance_decision = d.body.decision
      BY <2>3, <2>10
    <3>2. v.acceptance_decision = g[Sequence].draft.body.decision
      BY <2>5, <3>1, Zenon
    <3> QED BY <2>5, <2>6, <2>8, <2>9, <2>10, <3>2 DEF DepictsDecisions
  <2>11. ASSUME d.body.to # "Accepted"
         PROVE  DepictsDecisions(g, Sequence, x, v)
    BY <2>2, <2>3, <2>5, <2>6, <2>8, <2>9, <2>11
       DEF DepictsDecisions, DepictsResult
  <2> QED BY <2>2, <2>3, <2>4, <2>7, <2>10, <2>11 DEF DepictsResult
<1> QED BY <1>2, <1>3

LEMMA StagedDepictsAttempt ==
  ASSUME TypeOK, NEW d \in Drafts, Validates(d), StagesTyped(d),
         NEW g, Behind(d, g), Pictured(g),
         d.type \in { "AttemptStarted" } \cup TerminalType
  PROVE  DepictsAttempt(g, Sequence, d.body.id, EntityOf(d))
<1> DEFINE x == d.body.id
           v == EntityOf(d)
<1> SUFFICES DepictsAttempt(g, Sequence, x, v)
  OBVIOUS
<1>1. x \in Attempt
  BY BodyKinds
<1>2. CASE d.type = "AttemptStarted"
  <2>1. v = AttemptStartedEntity(d)
    BY <1>2 DEF EntityOf, TerminalType, TerminalState
  <2>2. /\ v.started_at = Sequence /\ v.experiment = d.body.experiment
        /\ v.branch = d.body.branch /\ v.generation = 1
        /\ v.state = "Running" /\ v.terminated_at = 0 /\ v.failure = None
    BY <2>1 DEF AttemptStartedEntity
  <2>3. /\ DeclaredAs(g, Sequence, x, v.started_at)
        /\ g[v.started_at].draft = d
    BY <1>2, <2>2, DeclaresHere, NextPlace DEF DeclaringType
  <2> HIDE DEF v, x
  <2>4. DepictsEnd(g, Sequence, x, v)
    BY <2>2 DEF DepictsEnd
  <2> QED BY <2>2, <2>3, <2>4 DEF DepictsAttempt
<1>3. CASE d.type \in TerminalType
  <2>1. v = AttemptEndedEntity(d)
    BY <1>3 DEF EntityOf, TerminalType, TerminalState
  <2>2. /\ Find(x) \in AttemptView
        /\ DepictsAttempt(g, Extended, x, Find(x))
        /\ Find(x).state = "Running"
    <3>1. /\ Find(x) \in AttemptView
          /\ DepictsAttempt(g, Extended, x, Find(x))
      BY <1>1, <1>3, FoundIsPictured DEF ChangingType, ViewOf, Depicts
    <3>2. AttemptEndedOK(d)
      BY <1>3, ValidatedAs
    <3> QED BY <3>1, <3>2 DEF AttemptEndedOK, MayEnd
  <2>3. /\ v.started_at = Find(x).started_at
        /\ v.experiment = Find(x).experiment /\ v.branch = Find(x).branch
        /\ v.generation = Find(x).generation
        /\ v.state = TerminalState[d.type] /\ v.terminated_at = Sequence
        /\ v.failure = IF d.type = "AttemptFailed" THEN d.body.failure
                       ELSE Find(x).failure
    BY <2>1, <2>2 DEF AttemptEndedEntity, AttemptView
  <2>4. Find(x).failure = None
    <3>1. DepictsEnd(g, Extended, x, Find(x))
      BY <2>2 DEF DepictsAttempt
    <3>2. ASSUME NEW type \in TerminalType
          PROVE  TerminalState[type] # "Running"
      BY <3>2 DEF TerminalType, TerminalState
    <3> QED BY <2>2, <3>1, <3>2 DEF DepictsEnd, TypedAbout
  <2>5. DeclaredAs(g, Sequence, x, Find(x).started_at)
    BY <2>2, DeclaredBefore DEF DepictsAttempt
  <2>6. /\ TypedAbout(g, Sequence, TerminalType, x)
        /\ g[Sequence].draft = d /\ Sequence \in 1 .. Sequence
    BY <1>3, NextPlace DEF TypedAbout
  <2> HIDE DEF v, x
  <2>7. g[v.terminated_at].draft = d
    BY <2>3, <2>6
  <2>8. DepictsEnd(g, Sequence, x, v)
    BY <2>3, <2>4, <2>6, <2>7 DEF DepictsEnd
  <2> QED BY <2>2, <2>3, <2>5, <2>8 DEF DepictsAttempt
<1> QED BY <1>2, <1>3

LEMMA StagedDepictsObservation ==
  ASSUME TypeOK, NEW d \in Drafts, Validates(d), StagesTyped(d),
         NEW g, Behind(d, g), d.type = "ObservationRecorded"
  PROVE  DepictsObservation(g, Sequence, d.body.id, EntityOf(d))
<1> DEFINE x == d.body.id
           v == EntityOf(d)
           a == d.body.attempt
<1> SUFFICES DepictsObservation(g, Sequence, x, v)
  OBVIOUS
<1>1. v = ObservationRecordedEntity(d)
  BY DEF EntityOf, TerminalType, TerminalState
<1>2. /\ v.recorded_at = Sequence /\ v.session = AttemptSession(a)
      /\ v.attempt = a /\ v.metric = d.body.metric
      /\ v.experiment = Find(a).experiment
  BY <1>1 DEF ObservationRecordedEntity
<1>3. /\ DeclaredAs(g, Sequence, x, v.recorded_at)
      /\ g[v.recorded_at].draft = d
      /\ g[v.recorded_at].session = SessionOf(d)
  BY <1>2, DeclaresHere, NextPlace DEF DeclaringType
<1>4. SessionOf(d) = AttemptSession(a)
  BY DEF SessionOf, TerminalType, TerminalState
<1>5. a \in Attempt /\ a \in Entity /\ Found(a)
  <2>1. a \in Attempt
    BY DraftBodies DEF ObservationBody
  <2>2. ObservationRecordedOK(d)
    BY ValidatedAs
  <2> QED BY <2>1, <2>2 DEF ObservationRecordedOK, AttemptTakesActivity,
          AttemptFound, Entity, Subject
<1>6. ShowsAttempt(g, Extended, a, Find(a))
  BY <1>5, FoundIsShown DEF Shows, Found
<1>7. PICK i \in 1 .. Extended :
        /\ TypedAbout(g, i, { "AttemptStarted" }, a)
        /\ g[i].draft.body.experiment = Find(a).experiment
  BY <1>6 DEF ShowsAttempt
<1>8. i \in 1 .. Sequence
  BY NextPlace
<1> HIDE DEF v, x, a
<1> QED BY <1>2, <1>3, <1>4, <1>7, <1>8 DEF DepictsObservation, a

(* The references there are once a draft is staged. *)
LEMMA ReferencesHere ==
  ASSUME TypeOK, NEW d \in Drafts, NEW g, Behind(d, g)
  PROVE  LET x == d.body.id IN
         /\ d.type # "ArtifactReferenced" =>
              ReferencesUpTo(g, Sequence, x) = ReferencesUpTo(g, Extended, x)
         /\ d.type = "ArtifactReferenced" =>
              /\ LastOf(ReferencesUpTo(g, Sequence, x), Sequence)
              /\ Cardinality(ReferencesUpTo(g, Sequence, x))
                   = Cardinality(ReferencesUpTo(g, Extended, x)) + 1
<1> DEFINE x == d.body.id
           before == ReferencesUpTo(g, Extended, x)
           after == ReferencesUpTo(g, Sequence, x)
<1>1. /\ Extended \in Nat /\ Sequence \in Nat /\ g[Sequence].draft = d
      /\ Sequence \in 1 .. Sequence /\ Sequence \notin 1 .. Extended
      /\ \A i \in 1 .. Extended : i \in 1 .. Sequence
      /\ \A i \in 1 .. Sequence : i \in 1 .. Extended \/ i = Sequence
      /\ \A i \in 1 .. Sequence : i <= Sequence
  BY NextPlace
<1>2. TypedAbout(g, Sequence, { "ArtifactReferenced" }, x) <=>
        d.type = "ArtifactReferenced"
  BY <1>1 DEF TypedAbout
<1>3. d.type # "ArtifactReferenced" => after = before
  BY <1>1, <1>2 DEF ReferencesUpTo
<1>4. d.type = "ArtifactReferenced" =>
        after = before \cup { Sequence } /\ Sequence \notin before
  BY <1>1, <1>2 DEF ReferencesUpTo
<1>5. \A k \in after : k <= Sequence
  BY <1>1 DEF ReferencesUpTo
<1>6. IsFiniteSet(before)
  <2>1. before \in SUBSET (1 .. Extended)
    BY DEF ReferencesUpTo
  <2>2. IsFiniteSet(1 .. Extended)
    BY <1>1, FS_Interval
  <2> QED BY <2>1, <2>2, FS_Subset
<1>7. d.type = "ArtifactReferenced" =>
        Cardinality(after) = Cardinality(before) + 1
  BY <1>4, <1>6, FS_AddElement
<1> QED BY <1>3, <1>4, <1>5, <1>7 DEF LastOf

LEMMA StagedDepictsArtifact ==
  ASSUME TypeOK, NEW d \in Drafts, Validates(d), StagesTyped(d),
         NEW g, Behind(d, g), Pictured(g),
         d.type \in { "ArtifactReferenced", "ArtifactInvalidated" }
  PROVE  DepictsArtifact(g, Sequence, d.body.id, EntityOf(d))
<1> DEFINE x == d.body.id
           v == EntityOf(d)
           before == ReferencesUpTo(g, Extended, x)
           after == ReferencesUpTo(g, Sequence, x)
<1> SUFFICES DepictsArtifact(g, Sequence, x, v)
  OBVIOUS
<1>1. x \in Artifact /\ x \in Entity
  BY BodyKinds DEF Entity, Subject
<1>2. CASE d.type = "ArtifactReferenced"
  <2>1. v = ArtifactReferencedEntity(d)
    BY <1>2 DEF EntityOf, TerminalType, TerminalState
  <2>2. /\ v.recorded_at = Sequence /\ v.session = d.body.session
        /\ v.generation = d.body.generation
        /\ v.producer = d.body.producer /\ v.parents = d.body.parents
        /\ v.validation = d.body.validation
    BY <2>1 DEF ArtifactReferencedEntity
  <2>3. LastOf(after, Sequence)
        /\ Cardinality(after) = Cardinality(before) + 1
    BY <1>2, ReferencesHere
  <2>4. d.body.generation = Cardinality(before) + 1
    <3>1. d.body.generation =
            IF Found(x) THEN Find(x).generation + 1 ELSE 1
      BY <1>2, ValidatedAs DEF ArtifactReferencedOK
    <3>2. CASE Found(x)
      <4>1. DepictsArtifact(g, Extended, x, Find(x))
        BY <1>1, <3>2 DEF Pictured, Depicts, Found
      <4> QED BY <3>1, <3>2, <4>1 DEF DepictsArtifact
    <3>3. CASE ~Found(x)
      <4>1. \A i \in 1 .. Extended : ~About(g, i, x)
        BY <1>1, <3>3, FoundIsShown
      <4>2. before = {}
        BY <4>1 DEF ReferencesUpTo, TypedAbout, About
      <4>3. Cardinality(before) = 0
        BY <4>2, FS_EmptySet
      <4> QED BY <3>1, <3>3, <4>3
    <3> QED BY <3>2, <3>3
  <2>5. ~InvalidatedAfter(g, Sequence, x, Sequence)
    BY NextPlace DEF InvalidatedAfter
  <2>6. g[Sequence].draft = d
    BY NextPlace
  <2>7. g[v.recorded_at].draft = d /\ LastOf(after, v.recorded_at)
        /\ ~InvalidatedAfter(g, Sequence, x, v.recorded_at)
    BY <2>2, <2>3, <2>5, <2>6
  <2>8. v.generation = Cardinality(after)
    BY <2>2, <2>3, <2>4
  <2> HIDE DEF v, x
  <2> QED BY <2>2, <2>7, <2>8 DEF DepictsArtifact
<1>3. CASE d.type = "ArtifactInvalidated"
  <2>1. v = ArtifactInvalidatedEntity(d)
    BY <1>3 DEF EntityOf, TerminalType, TerminalState
  <2>2. /\ Find(x) \in ArtifactView
        /\ DepictsArtifact(g, Extended, x, Find(x))
    BY <1>1, <1>3, FoundIsPictured DEF ChangingType, ViewOf, Depicts
  <2>3. /\ v.recorded_at = Find(x).recorded_at
        /\ v.session = Find(x).session
        /\ v.generation = Find(x).generation
        /\ v.producer = Find(x).producer /\ v.parents = Find(x).parents
        /\ v.validation = "Invalidated"
    BY <2>1, <2>2 DEF ArtifactInvalidatedEntity, ArtifactView
  <2>4. after = before
    BY <1>3, ReferencesHere
  <2>5. v.recorded_at < Sequence
    <3>1. Find(x).recorded_at \in 1 .. Extended
      BY <2>2 DEF DepictsArtifact, LastOf, ReferencesUpTo
    <3> QED BY <2>3, <3>1, NextPlace
  <2>6. InvalidatedAfter(g, Sequence, x, v.recorded_at)
    BY <1>3, <2>5, NextPlace DEF InvalidatedAfter, TypedAbout
  <2> HIDE DEF v, x
  <2> QED BY <2>2, <2>3, <2>4, <2>6 DEF DepictsArtifact
<1> QED BY <1>2, <1>3

LEMMA StagedInvalidatesValid ==
  ASSUME TypeOK, NEW d \in Drafts, Validates(d), StagesTyped(d),
         NEW g, Behind(d, g), Pictured(g)
  PROVE  InvalidatesValid(g, Sequence)
<1>1. g[Sequence].draft = d /\ Sequence - 1 = Extended
  BY NextPlace
<1> SUFFICES ASSUME d.type = "ArtifactInvalidated"
             PROVE  InvalidatesValid(g, Sequence)
  BY <1>1 DEF InvalidatesValid
<1> DEFINE x == d.body.id
           i == Find(x).recorded_at
<1>2. x \in Artifact
  BY BodyKinds
<1>3. DepictsArtifact(g, Extended, x, Find(x))
  BY <1>2, FoundIsPictured DEF ChangingType, Depicts
<1>4. Find(x).validation # "Invalidated"
  BY ValidatedAs DEF ArtifactInvalidatedOK
<1>5. /\ LastOf(ReferencesUpTo(g, Extended, x), i)
      /\ ~InvalidatedAfter(g, Extended, x, i)
      /\ g[i].draft.body.validation # "Invalidated"
  BY <1>3, <1>4 DEF DepictsArtifact
<1>6. i \in 1 .. Extended
  BY <1>5 DEF LastOf, ReferencesUpTo
<1> QED BY <1>1, <1>5, <1>6 DEF InvalidatesValid

LEMMA StagedStartsOnBranch ==
  ASSUME TypeOK, NEW d \in Drafts, Validates(d), StagesTyped(d),
         NEW g, Behind(d, g), Pictured(g)
  PROVE  StartsOnBranch(g, Sequence)
<1>1. g[Sequence].draft = d /\ Sequence - 1 = Extended
  BY NextPlace
<1> SUFFICES ASSUME d.type = "AttemptStarted"
             PROVE  StartsOnBranch(g, Sequence)
  BY <1>1 DEF StartsOnBranch
<1> DEFINE x == d.body.experiment
           i == Find(x).declared_at
<1>2. /\ Found(x) /\ Find(x).branch = d.body.branch
  BY ValidatedAs DEF AttemptStartedOK
<1>3. x \in Experiment /\ x \in Entity
  BY DraftBodies DEF AttemptBody, Entity, Subject
<1>4. DepictsExperiment(g, Extended, x, Find(x))
  BY <1>2, <1>3 DEF Pictured, Depicts, Found
<1>5. /\ i \in 1 .. Extended /\ TypedAbout(g, i, DeclaringType, x)
      /\ g[i].draft.body.branch = d.body.branch
  BY <1>2, <1>4 DEF DepictsExperiment, DeclaredAs
<1> QED BY <1>1, <1>5 DEF StartsOnBranch

LEMMA StagedBuildsOn ==
  ASSUME TypeOK, NEW d \in Drafts, Validates(d), StagesTyped(d),
         NEW g, Behind(d, g), Pictured(g)
  PROVE  Builds(g, Sequence)
BY StagedInvalidatesValid, StagedStartsOnBranch DEF Builds

(* The kinds that nothing revises. *)
LEMMA StagedDepictsFixed ==
  ASSUME TypeOK, NEW d \in Drafts, Validates(d), StagesTyped(d),
         NEW g, Behind(d, g), d.type \in DeclaringType
  PROVE  LET x == d.body.id
             v == EntityOf(d) IN
         /\ d.type = "ExperimentDeclared" =>
              DepictsExperiment(g, Sequence, x, v)
         /\ d.type = "BranchDeclared" => DepictsBranch(g, Sequence, x, v)
         /\ d.type = "ModelCallRecorded" =>
              DepictsModelCall(g, Sequence, x, v)
         /\ d.type = "ToolCallRecorded" =>
              DepictsToolCall(g, Sequence, x, v)
         /\ d.type = "MetricDeclared" => DepictsMetric(g, Sequence, x, v)
         /\ d.type = "FailureRecorded" => DepictsFailure(g, Sequence, x, v)
         /\ d.type = "DecisionRecorded" => DepictsDecision(g, Sequence, x, v)
<1> DEFINE x == d.body.id
           v == EntityOf(d)
<1>1. /\ DeclaredAs(g, Sequence, x, Sequence)
      /\ g[Sequence].draft = d /\ g[Sequence].session = SessionOf(d)
  BY DeclaresHere, NextPlace
<1>2. d.type = "ExperimentDeclared" => DepictsExperiment(g, Sequence, x, v)
  <2>1. SUFFICES ASSUME d.type = "ExperimentDeclared"
                 PROVE  DepictsExperiment(g, Sequence, x, v)
    OBVIOUS
  <2>2. v = ExperimentDeclaredEntity(d)
    BY <2>1 DEF EntityOf, TerminalType, TerminalState
  <2> QED BY <1>1, <2>2 DEF DepictsExperiment, ExperimentDeclaredEntity
<1>3. d.type = "BranchDeclared" => DepictsBranch(g, Sequence, x, v)
  <2>1. SUFFICES ASSUME d.type = "BranchDeclared"
                 PROVE  DepictsBranch(g, Sequence, x, v)
    OBVIOUS
  <2>2. v = BranchDeclaredEntity(d)
    BY <2>1 DEF EntityOf, TerminalType, TerminalState
  <2> QED BY <1>1, <2>2 DEF DepictsBranch, BranchDeclaredEntity
<1>4. d.type = "ModelCallRecorded" => DepictsModelCall(g, Sequence, x, v)
  <2>1. SUFFICES ASSUME d.type = "ModelCallRecorded"
                 PROVE  DepictsModelCall(g, Sequence, x, v)
    OBVIOUS
  <2>2. v = ModelCallRecordedEntity(d)
    BY <2>1 DEF EntityOf, TerminalType, TerminalState
  <2> QED BY <1>1, <2>2 DEF DepictsModelCall, ModelCallRecordedEntity
<1>5. d.type = "ToolCallRecorded" => DepictsToolCall(g, Sequence, x, v)
  <2>1. SUFFICES ASSUME d.type = "ToolCallRecorded"
                 PROVE  DepictsToolCall(g, Sequence, x, v)
    OBVIOUS
  <2>2. v = ToolCallRecordedEntity(d)
    BY <2>1 DEF EntityOf, TerminalType, TerminalState
  <2> QED BY <1>1, <2>2 DEF DepictsToolCall, ToolCallRecordedEntity
<1>6. d.type = "MetricDeclared" => DepictsMetric(g, Sequence, x, v)
  <2>1. SUFFICES ASSUME d.type = "MetricDeclared"
                 PROVE  DepictsMetric(g, Sequence, x, v)
    OBVIOUS
  <2>2. v = MetricDeclaredEntity(d)
    BY <2>1 DEF EntityOf, TerminalType, TerminalState
  <2> QED BY <1>1, <2>2 DEF DepictsMetric, MetricDeclaredEntity
<1>7. d.type = "FailureRecorded" => DepictsFailure(g, Sequence, x, v)
  <2>1. SUFFICES ASSUME d.type = "FailureRecorded"
                 PROVE  DepictsFailure(g, Sequence, x, v)
    OBVIOUS
  <2>2. v = FailureRecordedEntity(d)
    BY <2>1 DEF EntityOf, TerminalType, TerminalState
  <2>3. SessionOf(d) = Locate(d.body.scope)
    BY <2>1 DEF SessionOf, TerminalType, TerminalState
  <2> QED BY <1>1, <2>2, <2>3 DEF DepictsFailure, FailureRecordedEntity
<1>8. d.type = "DecisionRecorded" => DepictsDecision(g, Sequence, x, v)
  <2>1. SUFFICES ASSUME d.type = "DecisionRecorded"
                 PROVE  DepictsDecision(g, Sequence, x, v)
    OBVIOUS
  <2>2. v = DecisionRecordedEntity(d)
    BY <2>1 DEF EntityOf, TerminalType, TerminalState
  <2> QED BY <1>1, <2>2 DEF DepictsDecision, DecisionRecordedEntity
<1> QED BY <1>2, <1>3, <1>4, <1>5, <1>6, <1>7, <1>8

LEMMA MoreTypesOfKinds ==
  ASSUME NEW d \in Drafts, d.type # "AccountingRecorded"
  PROVE  /\ d.body.id \in Hypothesis =>
              d.type \in { "HypothesisDeclared", "HypothesisStatusChanged" }
         /\ d.body.id \in Result =>
              d.type \in { "ResultDeclared", "ResultStatusChanged" }
         /\ d.body.id \in Experiment => d.type = "ExperimentDeclared"
         /\ d.body.id \in Branch => d.type = "BranchDeclared"
         /\ d.body.id \in ModelCall => d.type = "ModelCallRecorded"
         /\ d.body.id \in ToolCall => d.type = "ToolCallRecorded"
         /\ d.body.id \in Artifact =>
              d.type \in { "ArtifactReferenced", "ArtifactInvalidated" }
         /\ d.body.id \in Metric => d.type = "MetricDeclared"
         /\ d.body.id \in Observation => d.type = "ObservationRecorded"
         /\ d.body.id \in Failure => d.type = "FailureRecorded"
<1>1. d.type \in RecordType
  BY DraftHeader
<1>2. d.type \in
        SessionRecord \cup TerminalType
          \cup { "HypothesisDeclared", "HypothesisStatusChanged",
                 "ResultDeclared", "ResultStatusChanged",
                 "ExperimentDeclared", "BranchDeclared", "AttemptStarted",
                 "ModelCallRecorded", "ToolCallRecorded",
                 "ArtifactReferenced", "ArtifactInvalidated",
                 "MetricDeclared", "ObservationRecorded",
                 "FailureRecorded", "DecisionRecorded" }
  BY <1>1 DEF RecordType, SessionRecord, TerminalType, TerminalState
<1>3. /\ d.type \in SessionRecord => d.body.id \in Session
      /\ d.type \in { "AttemptStarted" } \cup TerminalType =>
           d.body.id \in Attempt
  BY BodyKinds
<1> QED BY <1>2, <1>3, BodyKinds, IdentityDomains

LEMMA StagedDepicts ==
  ASSUME TypeOK, NEW d \in Drafts, Validates(d), StagesTyped(d),
         NEW g, Behind(d, g), Pictured(g), d.type # "AccountingRecorded"
  PROVE  Depicts(g, Sequence, d.body.id, EntityOf(d))
<1> DEFINE x == d.body.id
           v == EntityOf(d)
<1> SUFFICES Depicts(g, Sequence, x, v)
  OBVIOUS
<1>1. /\ x \in Session => DepictsSession(g, Sequence, x, v)
      /\ x \in Attempt => DepictsAttempt(g, Sequence, x, v)
  BY TypesOfKinds, StagedDepictsSession, StagedDepictsAttempt
<1>2. x \in Hypothesis => DepictsHypothesis(g, Sequence, x, v)
  BY MoreTypesOfKinds, StagedDepictsHypothesis
<1>3. x \in Result => DepictsResult(g, Sequence, x, v)
  BY MoreTypesOfKinds, StagedDepictsResult
<1>4. x \in Artifact => DepictsArtifact(g, Sequence, x, v)
  BY MoreTypesOfKinds, StagedDepictsArtifact
<1>5. x \in Observation => DepictsObservation(g, Sequence, x, v)
  BY MoreTypesOfKinds, StagedDepictsObservation
<1>6. ASSUME d.type \in { "ExperimentDeclared", "BranchDeclared",
                          "ModelCallRecorded", "ToolCallRecorded",
                          "MetricDeclared", "FailureRecorded",
                          "DecisionRecorded" }
      PROVE  d.type \in DeclaringType
  BY <1>6 DEF DeclaringType
<1>7. /\ x \in Experiment => DepictsExperiment(g, Sequence, x, v)
      /\ x \in Branch => DepictsBranch(g, Sequence, x, v)
      /\ x \in ModelCall => DepictsModelCall(g, Sequence, x, v)
      /\ x \in ToolCall => DepictsToolCall(g, Sequence, x, v)
      /\ x \in Metric => DepictsMetric(g, Sequence, x, v)
      /\ x \in Failure => DepictsFailure(g, Sequence, x, v)
  BY <1>6, MoreTypesOfKinds, StagedDepictsFixed
<1>8. x \in Decision => DepictsDecision(g, Sequence, x, v)
  BY <1>6, TypesOfKinds, StagedDepictsFixed
<1> QED BY <1>1, <1>2, <1>3, <1>4, <1>5, <1>7, <1>8 DEF Depicts

-----------------------------------------------------------------------------
(* The steps of the commit path *)

LEMMA StageKeepsDepicted ==
  ASSUME TypeOK, LifeInv, DepictedInv, NEW d \in Drafts, StageNext(d)
  PROVE  DepictedInv'
<1> DEFINE id == IF d.record_id = None THEN Sequence ELSE d.record_id
           s == StagedEntity(d, id)
           g == Whole'
           n == Extended
<1>1. /\ StagesTyped(d) /\ Stage(d)
  BY StageNextKeepsTypes
<1>2. Validates(d)
  BY StagedIsValid
<1>3. s \in Entry /\ EntityFitsKey(s)
  <2>1. id \in RecordId \cup Nat
    BY DraftHeader, SequenceIsNat DEF Opt
  <2> QED BY <1>1, <2>1, TypedEntry
<1>4. /\ staged' = Append(staged, s)
      /\ latest' = IF s.key = None THEN latest
                   ELSE [ latest EXCEPT ![s.key] = s.entity ]
      /\ records' = records /\ view' = view
  BY <1>1 DEF Stage, committed
<1>5. /\ s.draft = d /\ s.entity = EntityOf(d)
      /\ s.key = None <=> d.type = "AccountingRecorded"
      /\ s.key # None => s.key = d.body.id /\ s.key \in Entity
  BY <1>1, <1>3 DEF StagedEntity, EntityFitsKey, StagesTyped
<1>6. Behind(d, g)
  BY <1>3, <1>4, StagingIsBehind
<1>7. /\ Extended' = n + 1
      /\ Agree(g, Whole, n)
      /\ g[n + 1] = StagedRecord(s)
      /\ Len(staged') = Len(staged) + 1
      /\ \A k \in 1 .. Len(staged) : staged'[k] = staged[k]
      /\ staged'[Len(staged) + 1] = s
  BY <1>3, <1>4, WholeStaged
<1>8. /\ n \in Nat /\ Len(records) \in Nat /\ Len(staged) \in Nat
      /\ n = Len(records) + Len(staged) /\ Sequence = n + 1
  BY SequencesOfTheStep, ExtendedIsNat, NextPlace, <1>6 DEF Extended
<1> HIDE DEF id, s, g
<1>9. Pictured(g)
  BY <1>7, <1>8, AgreeOnDepicts DEF DepictedInv, Pictured
<1>10. \A i \in 1 .. n + 1 : Builds(g, i)
  <2>1. Builds(g, n + 1)
    BY <1>1, <1>2, <1>6, <1>8, <1>9, StagedBuildsOn
  <2>2. ASSUME NEW i \in 1 .. n
        PROVE  Builds(g, i)
    <3>1. Builds(Whole, i)
      BY <2>2 DEF DepictedInv
    <3>2. Agree(g, Whole, i) /\ i \in Nat /\ i - 1 \in Nat
      BY <1>7, <1>8, <2>2 DEF Agree
    <3> QED BY <2>2, <3>1, <3>2, AgreeOnBuilds
  <2> QED BY <1>8, <2>1, <2>2
<1>11. s.key # None => Depicts(g, n + 1, s.key, s.entity)
  BY <1>1, <1>2, <1>5, <1>6, <1>8, <1>9, StagedDepicts
<1>12. ASSUME NEW x \in Entity
       PROVE  Depicts(g, n + 1, x, Find(x)')
  <2>1. CASE x = s.key
    <3>1. s.key # None
      BY <1>5, <1>12, <2>1, NoneAssumption
    <3>2. latest'[x] = s.entity
      BY <1>4, <2>1, <3>1 DEF TypeOK
    <3>3. s.entity # None
      BY <1>3, <1>5, <3>1, ViewIsView, NoneAssumption DEF EntityFitsKey
    <3> QED BY <1>11, <2>1, <3>1, <3>2, <3>3 DEF Find
  <2>2. CASE x # s.key
    <3>1. Find(x)' = Find(x)
      BY <1>4, <2>2 DEF Find, TypeOK
    <3>2. ~About(g, n + 1, x)
      BY <1>5, <1>7, <2>2 DEF About, StagedRecord
    <3>3. Depicts(g, n, x, Find(x))
      BY <1>9 DEF Pictured
    <3> QED BY <1>8, <3>1, <3>2, <3>3, DepictsOfOthers
  <2> QED BY <2>1, <2>2
<1>13. \A x \in Entity : Depicts(g, Len(records), x, view[x])
  <2>1. Agree(g, Whole, Len(records))
    BY <1>7, <1>8 DEF Agree
  <2> QED BY <1>8, <2>1, AgreeOnDepicts DEF DepictedInv
<1>14. ASSUME NEW k \in 1 .. Len(staged'), staged'[k].key # None
       PROVE  Depicts(g, Len(records) + k, staged'[k].key,
                      staged'[k].entity)
  <2>1. CASE k \in 1 .. Len(staged)
    <3>1. staged'[k] = staged[k]
      BY <1>7, <2>1
    <3>2. Depicts(Whole, Len(records) + k, staged[k].key, staged[k].entity)
      BY <1>14, <2>1, <3>1 DEF DepictedInv
    <3>3. Agree(g, Whole, Len(records) + k) /\ Len(records) + k \in Nat
      BY <1>7, <1>8, <2>1 DEF Agree
    <3> QED BY <3>1, <3>2, <3>3, AgreeOnDepicts
  <2>2. CASE k = Len(staged) + 1
    <3>1. staged'[k] = s /\ Len(records) + k = n + 1
      BY <1>7, <1>8, <2>2
    <3> QED BY <1>11, <1>14, <3>1
  <2> QED BY <1>7, <1>8, <2>1, <2>2
<1>15. /\ \A i \in 1 .. Extended' : Builds(Whole', i)
       /\ \A x \in Entity : Depicts(Whole', Len(records'), x, view'[x])
       /\ \A x \in Entity : Depicts(Whole', Extended', x, Find(x)')
       /\ \A k \in 1 .. Len(staged') : staged'[k].key # None =>
            Depicts(Whole', Len(records') + k, staged'[k].key,
                    staged'[k].entity)
  BY <1>4, <1>7, <1>10, <1>12, <1>13, <1>14 DEF g
<1> QED BY <1>15 DEF DepictedInv

LEMMA EnteredDepicted ==
  ASSUME TypeOK, NEW e \in Entry, EntityFitsKey(e), Apply(e),
         NEW x \in Entity, x # e.key, NEW n \in Nat, NEW h,
         Depicts(h, n, x, view[x])
  PROVE  Depicts(h, n, x, view'[x])
<1>1. view' = AppliedView(e)
  BY DEF Apply
<1>2. CASE x \in LinkTargets(e) /\ view[x] # None
  <2>1. view'[x] = [ view[x] EXCEPT !.links = @ \cup { e.key } ]
    BY <1>1, <1>2 DEF AppliedView
  <2>2. x \in Linked /\ e.key \in Entity
    BY <1>2, LinkTargetsTyped
  <2>3. ViewOf(x, view[x]) /\ view[x] \in View
    BY <1>2, ViewIsView DEF TypeOK
  <2> QED BY <2>1, <2>2, <2>3, DepictsWithLinks
<1>3. CASE ~(x \in LinkTargets(e) /\ view[x] # None)
  BY <1>1, <1>3 DEF AppliedView
<1> QED BY <1>2, <1>3

LEMMA AppliedDepicted ==
  ASSUME TypeOK, ApplyNext, NEW x \in Entity, NEW n \in Nat, NEW h,
         Depicts(h, n, x, view[x]), x # staged[1].key
  PROVE  Depicts(h, n, x, view'[x])
<1> DEFINE e == Head(staged)
<1>1. Apply(e) /\ e = staged[1] /\ e \in Entry /\ EntityFitsKey(e)
  <2>1. staged # << >> /\ Apply(e)
    BY DEF ApplyNext
  <2>2. e = staged[1] /\ e \in Entry /\ 1 \in DOMAIN staged
    BY <2>1, SequencesOfTheStep
  <2> QED BY <2>1, <2>2 DEF TypeOK
<1> HIDE DEF e
<1> QED BY <1>1, EnteredDepicted

LEMMA ApplyKeepsDepicted ==
  ASSUME TypeOK, LifeInv, DepictedInv, ApplyNext
  PROVE  DepictedInv'
<1> DEFINE e == staged[1]
           n == Len(records)
<1>1. AppliesOne /\ Apply(e) /\ latest' = latest
  <2>1. staged # << >> /\ Apply(Head(staged))
    BY DEF ApplyNext
  <2>2. Head(staged) = e
    BY <2>1, SequencesOfTheStep
  <2> QED BY <2>1, <2>2 DEF ApplyNext, Apply, AppliesOne
<1>2. /\ Extended' = Extended /\ Whole' = Whole
      /\ Len(records') = n + 1
      /\ Len(staged) \in Nat \ { 0 } /\ Len(staged') = Len(staged) - 1
      /\ \A k \in 1 .. Len(staged) - 1 : staged'[k] = staged[k + 1]
      /\ Whole[n + 1] = StagedRecord(e)
  BY <1>1, WholeApplied
<1>3. n \in Nat /\ Extended = n + Len(staged)
  BY SequencesOfTheStep DEF Extended
<1>4. /\ e \in Entry /\ EntityFitsKey(e) /\ 1 \in 1 .. Len(staged)
  BY <1>2, SequencesOfTheStep DEF TypeOK
<1>5. e.key # None =>
        /\ latest[e.key] # None
        /\ Depicts(Whole, n + 1, e.key, e.entity)
  BY <1>4 DEF LifeInv, StagedViewsInv, DepictedInv
<1>6. e.key # None => e.key \in Entity /\ view'[e.key] = e.entity
  BY <1>1, <1>4 DEF Apply, AppliedView, Entry, Opt
<1>7. ASSUME NEW x \in Entity
      PROVE  Depicts(Whole, n + 1, x, view'[x])
  <2>1. CASE x = e.key
    BY <1>5, <1>6, <2>1, NoneAssumption
  <2>2. CASE x # e.key
    <3>1. ~About(Whole, n + 1, x)
      BY <1>2, <1>4, <2>2 DEF About, StagedRecord, EntityFitsKey
    <3>2. Depicts(Whole, n, x, view[x])
      BY DEF DepictedInv
    <3>3. Depicts(Whole, n + 1, x, view[x])
      BY <1>3, <3>1, <3>2, DepictsOfOthers
    <3> QED BY <1>3, <2>2, <3>3, AppliedDepicted
  <2> QED BY <2>1, <2>2
<1>8. ASSUME NEW x \in Entity
      PROVE  Depicts(Whole, Extended, x, Find(x)')
  <2>1. Depicts(Whole, Extended, x, Find(x))
    BY DEF DepictedInv
  <2>2. CASE latest[x] # None
    BY <1>1, <2>1, <2>2 DEF Find
  <2>3. CASE latest[x] = None
    <3>1. x # e.key
      BY <1>5, <1>8, <2>3, NoneAssumption
    <3>2. Find(x) = view[x] /\ Find(x)' = view'[x]
      BY <1>1, <2>3 DEF Find
    <3>3. Depicts(Whole, Extended, x, view[x])
      BY <2>1, <3>2
    <3>4. Depicts(Whole, Extended, x, view'[x])
      BY <3>1, <3>3, AppliedDepicted, ExtendedIsNat
    <3> QED BY <3>2, <3>4
  <2> QED BY <2>2, <2>3
<1>9. ASSUME NEW k \in 1 .. Len(staged'), staged'[k].key # None
      PROVE  Depicts(Whole, n + 1 + k, staged'[k].key, staged'[k].entity)
  <2>1. k \in 1 .. Len(staged) - 1
    BY <1>2, <1>9
  <2>2. staged'[k] = staged[k + 1]
    BY <1>2, <2>1
  <2>3. k + 1 \in 1 .. Len(staged) /\ n + 1 + k = n + (k + 1)
    <3> DEFINE l == Len(staged)
    <3>1. l \in Nat /\ k \in 1 .. l - 1
      BY <1>2, <2>1
    <3>2. n \in Nat
      BY <1>3
    <3> HIDE DEF l, n
    <3>3. k + 1 \in 1 .. l /\ n + 1 + k = n + (k + 1)
      BY <3>1, <3>2
    <3> QED BY <3>3 DEF l
  <2>4. Depicts(Whole, n + (k + 1), staged[k + 1].key, staged[k + 1].entity)
    BY <1>9, <2>2, <2>3 DEF DepictedInv
  <2> QED BY <2>2, <2>3, <2>4
<1>10. /\ \A i \in 1 .. Extended' : Builds(Whole', i)
       /\ \A x \in Entity : Depicts(Whole', Len(records'), x, view'[x])
       /\ \A x \in Entity : Depicts(Whole', Extended', x, Find(x)')
       /\ \A k \in 1 .. Len(staged') : staged'[k].key # None =>
            Depicts(Whole', Len(records') + k, staged'[k].key,
                    staged'[k].entity)
  BY <1>2, <1>7, <1>8, <1>9 DEF DepictedInv
<1> QED BY <1>10 DEF DepictedInv

LEMMA DropKeepsDepicted ==
  ASSUME TypeOK, DepictedInv, DropBatch, UNCHANGED committed
  PROVE  DepictedInv'
<1> DEFINE n == Len(records)
           g == Whole'
<1>1. /\ records' = records /\ view' = view
      /\ staged' = << >> /\ latest' = NothingStaged
  BY DEF DropBatch, committed
<1>2. /\ Extended' = n /\ Len(records') = n /\ n <= Extended
      /\ n \in Nat /\ Extended \in Nat
      /\ Agree(g, Whole, n)
  BY <1>1, WholeDropped
<1> HIDE DEF g
<1>3. ASSUME NEW i \in 1 .. n
      PROVE  Builds(g, i)
  <2>1. Builds(Whole, i)
    BY <1>2 DEF DepictedInv
  <2>2. Agree(g, Whole, i) /\ i \in Nat /\ i - 1 \in Nat
    BY <1>2 DEF Agree
  <2> QED BY <1>3, <2>1, <2>2, AgreeOnBuilds
<1>4. \A x \in Entity : Depicts(g, n, x, view[x])
  BY <1>2, AgreeOnDepicts DEF DepictedInv
<1>5. \A x \in Entity : Find(x)' = view[x]
  BY <1>1 DEF Find, NothingStaged
<1>6. Len(staged') = 0
  BY <1>1
<1>7. /\ \A i \in 1 .. Extended' : Builds(Whole', i)
      /\ \A x \in Entity : Depicts(Whole', Len(records'), x, view'[x])
      /\ \A x \in Entity : Depicts(Whole', Extended', x, Find(x)')
  BY <1>1, <1>2, <1>3, <1>4, <1>5 DEF g
<1> QED BY <1>6, <1>7 DEF DepictedInv

LEMMA DepictedStep ==
  ASSUME TypeOK, LifeInv, DepictedInv, [Next]_vars
  PROVE  DepictedInv'
<1>1. ASSUME NEW d \in Drafts, StageNext(d)
      PROVE  DepictedInv'
  BY <1>1, StageKeepsDepicted
<1>2. ASSUME NEW d \in Drafts, Reject(d)
      PROVE  DepictedInv'
  BY <1>2, DropKeepsDepicted DEF Reject
<1>3. CASE Finish
  BY <1>3, DropKeepsDepicted DEF Finish
<1>4. CASE ApplyNext
  BY <1>4, ApplyKeepsDepicted
<1>5. ASSUME UNCHANGED << records, view, staged, latest >>
      PROVE  DepictedInv'
  BY <1>5 DEF DepictedInv, Whole, Extended, Find
<1>6. ASSUME NEW d \in Drafts, RecognizeRepeat(d)
      PROVE  DepictedInv'
  BY <1>5, <1>6 DEF RecognizeRepeat, committed
<1>7. CASE Commit \/ UNCHANGED vars
  BY <1>5, <1>7 DEF Commit, vars, committed, batch
<1> QED BY <1>1, <1>2, <1>3, <1>4, <1>6, <1>7 DEF Next

LEMMA DepictedInit == Init => DepictedInv
<1> SUFFICES ASSUME Init PROVE DepictedInv
  OBVIOUS
<1>1. Len(records) = 0 /\ Len(staged) = 0 /\ Extended = 0
  BY DEF Init, Extended
<1>2. \A x \in Entity : view[x] = None /\ Find(x) = None
  BY DEF Init, NothingStaged, Find
<1>3. \A x \in Entity : Depicts(Whole, 0, x, None)
  BY DEF Depicts
<1> QED BY <1>1, <1>2, <1>3 DEF DepictedInv

-----------------------------------------------------------------------------
(* Lists and links *)

(* What the entry about to be applied is listed under, by its record.       *)
LEMMA EntryOwners ==
  ASSUME NEW s, Carries(s)
  PROVE  ListOwners(s) = OwnersOf(StagedRecord(s))
<1> DEFINE d == s.draft
<1>1. StagedRecord(s).draft = d /\ StagedRecord(s).session = s.session
  BY DEF StagedRecord
<1>2. CASE d.type = "HypothesisDeclared"
  BY <1>1, <1>2 DEF ListOwners, OwnersOf, Carries
<1>3. CASE d.type \in { "ExperimentDeclared", "BranchDeclared",
                        "ResultDeclared" }
  BY <1>1, <1>3 DEF ListOwners, OwnersOf, Carries
<1>4. CASE d.type = "FailureRecorded"
  BY <1>1, <1>4 DEF ListOwners, OwnersOf, Carries
<1>5. CASE d.type = "ArtifactReferenced"
  BY <1>1, <1>5 DEF ListOwners, OwnersOf, Carries
<1>6. CASE d.type \notin { "HypothesisDeclared", "ExperimentDeclared",
                           "BranchDeclared", "ResultDeclared",
                           "FailureRecorded", "ArtifactReferenced" }
  BY <1>1, <1>6 DEF ListOwners, OwnersOf
<1> QED BY <1>2, <1>3, <1>4, <1>5, <1>6

(* The entry about to be applied, and the records once it is.               *)
LEMMA NextEntry ==
  ASSUME TypeOK, LifeInv, ApplyNext
  PROVE  LET s == staged[1]
             n == Len(records) IN
         /\ Apply(s) /\ s = Head(staged) /\ s \in Entry /\ EntityFitsKey(s)
         /\ Carries(s) /\ s.draft \in Drafts
         /\ 1 \in 1 .. Len(staged)
         /\ \A k \in 1 .. Len(staged') : k + 1 \in 1 .. Len(staged)
                                         /\ staged'[k] = staged[k + 1]
         /\ n \in Nat /\ DOMAIN records = 1 .. n
         /\ DOMAIN records' = 1 .. n + 1
         /\ \A i \in 1 .. n : records'[i] = records[i]
         /\ records'[n + 1] = StagedRecord(s)
         /\ n + 1 \in 1 .. Extended /\ Whole[n + 1] = StagedRecord(s)
         /\ \A i \in 1 .. n : Whole[i] = records[i]
<1> DEFINE s == staged[1]
           n == Len(records)
<1>1. AppliesOne /\ Apply(s) /\ s = Head(staged) /\ staged # << >>
  <2>1. staged # << >> /\ Apply(Head(staged))
    BY DEF ApplyNext
  <2>2. Head(staged) = s
    BY <2>1, SequencesOfTheStep
  <2> QED BY <2>1, <2>2 DEF ApplyNext, Apply, AppliesOne
<1>2. /\ Len(staged) \in Nat \ { 0 } /\ Len(staged') = Len(staged) - 1
      /\ \A k \in 1 .. Len(staged) - 1 : staged'[k] = staged[k + 1]
      /\ Whole[n + 1] = StagedRecord(s)
  BY <1>1, WholeApplied
<1>3. /\ n \in Nat /\ DOMAIN records = 1 .. n /\ records' \in Seq(Record)
      /\ Len(records') = n + 1 /\ DOMAIN records' = 1 .. n + 1
      /\ \A i \in 1 .. n : records'[i] = records[i]
  <2>1. records \in Seq(Record) /\ records' \in Seq(Record)
        /\ Len(records') = n + 1
    BY <1>1, AppliedRecord DEF TypeOK
  <2> QED BY <1>1, <2>1, AppliedRecord
<1>4. records'[n + 1] = StagedRecord(s)
  <2>1. records' = Append(records, StagedRecord(s))
    BY <1>1 DEF Apply, StagedRecord
  <2> QED BY <1>1, <1>3, <2>1, SequencesOfTheStep DEF AppliesOne
<1>5. Extended = n + Len(staged) /\ n + 1 \in 1 .. Extended
  BY <1>2, <1>3 DEF Extended
<1>6. \A i \in 1 .. n : Whole[i] = records[i]
  BY <1>3, <1>5 DEF Whole
<1>7. \A k \in 1 .. Len(staged') : k + 1 \in 1 .. Len(staged)
                                   /\ staged'[k] = staged[k + 1]
  BY <1>2
<1>8. s \in Entry /\ EntityFitsKey(s) /\ Carries(s) /\ 1 \in 1 .. Len(staged)
  BY <1>1, <1>2, SequencesOfTheStep DEF TypeOK, LifeInv, StagedViewsInv
<1>9. s.draft \in Drafts
  BY <1>8 DEF Entry
<1> QED BY <1>1, <1>2, <1>3, <1>4, <1>5, <1>6, <1>7, <1>8, <1>9

(* What is gathered from the records once one more is there.                *)
LEMMA Gathering ==
  ASSUME TypeOK, LifeInv, ApplyNext
  PROVE  LET r == StagedRecord(staged[1])
             id == r.draft.body.id IN
         /\ \A x : Listed(x)' =
              Listed(x) \cup { y \in { id } : x \in OwnersOf(r) }
         /\ \A e : AttemptsOf(e)' =
              AttemptsOf(e) \cup
                { y \in { id } : /\ r.draft.type = "AttemptStarted"
                                 /\ r.draft.body.experiment = e }
         /\ \A b : ExperimentsOf(b)' =
              ExperimentsOf(b) \cup
                { y \in { id } : /\ r.draft.type = "ExperimentDeclared"
                                 /\ r.draft.body.branch = b }
<1> DEFINE n == Len(records)
           r == StagedRecord(staged[1])
           id == r.draft.body.id
<1>1. /\ n \in Nat /\ DOMAIN records = 1 .. n /\ DOMAIN records' = 1 .. n + 1
      /\ \A i \in 1 .. n : records'[i] = records[i]
      /\ records'[n + 1] = r
  BY NextEntry
<1>2. /\ \A i \in 1 .. n : i \in 1 .. n + 1
      /\ \A i \in 1 .. n + 1 : i \in 1 .. n \/ i = n + 1
      /\ n + 1 \in 1 .. n + 1
  BY <1>1
<1> HIDE DEF n, r
<1>3. ASSUME NEW x
      PROVE  Listed(x)' = Listed(x) \cup { y \in { id } : x \in OwnersOf(r) }
  BY <1>1, <1>2 DEF Listed
<1>4. ASSUME NEW e
      PROVE  AttemptsOf(e)' =
               AttemptsOf(e) \cup
                 { y \in { id } : /\ r.draft.type = "AttemptStarted"
                                  /\ r.draft.body.experiment = e }
  BY <1>1, <1>2 DEF AttemptsOf
<1>5. ASSUME NEW b
      PROVE  ExperimentsOf(b)' =
               ExperimentsOf(b) \cup
                 { y \in { id } : /\ r.draft.type = "ExperimentDeclared"
                                  /\ r.draft.body.branch = b }
  BY <1>1, <1>2 DEF ExperimentsOf
<1> QED BY <1>3, <1>4, <1>5 DEF r

(* Nothing was started in an experiment, or declared on a branch, that is   *)
(* only now declared.                                                       *)
LEMMA NothingBefore ==
  ASSUME TypeOK, LifeInv, ApplyNext
  PROVE  LET d == staged[1].draft IN
         /\ d.type = "ExperimentDeclared" => AttemptsOf(d.body.id) = {}
         /\ d.type = "BranchDeclared" => ExperimentsOf(d.body.id) = {}
<1> DEFINE n == Len(records)
           d == staged[1].draft
<1>1. /\ n \in Nat /\ DOMAIN records = 1 .. n
      /\ \A i \in 1 .. n : Whole[i] = records[i]
      /\ n + 1 \in 1 .. Extended /\ Whole[n + 1].draft = d
      /\ n <= Extended /\ d \in Drafts
  <2>1. Whole[n + 1] = StagedRecord(staged[1]) /\ n + 1 \in 1 .. Extended
        /\ d \in Drafts
    BY NextEntry
  <2>2. n \in Nat /\ DOMAIN records = 1 .. n
        /\ \A i \in 1 .. n : Whole[i] = records[i]
    BY NextEntry
  <2> QED BY <2>1, <2>2, ExtendedIsNat DEF StagedRecord
<1>2. ASSUME d.type \in DeclaringType, NEW i \in 1 .. n
      PROVE  ~About(Whole, i, d.body.id)
  <2>1. Follows(Whole, n + 1) /\ n + 1 - 1 = n
    BY <1>1 DEF LifeInv, HistoryInv
  <2> QED BY <1>1, <1>2, <2>1 DEF Follows, IsNew
<1>3. ASSUME d.type \in DeclaringType, NEW i \in 1 .. n,
             records[i].draft.type # "SessionOpened",
             d.body.id \in References(records[i].draft),
             d.body.id # None
      PROVE  FALSE
  <2>0. i \in 1 .. Extended
    BY <1>1, <1>3, ExtendedIsNat
  <2>1. Follows(Whole, i) /\ Whole[i] = records[i]
    BY <1>1, <1>3, <2>0 DEF LifeInv, HistoryInv
  <2>2. PICK k \in 1 .. i - 1 : About(Whole, k, d.body.id)
    BY <1>3, <2>1 DEF Follows, PointsBack, HasHome
  <2>3. k \in 1 .. n
    BY <1>1, <1>3
  <2> QED BY <1>2, <1>3, <2>2, <2>3
<1>4. d.body.id # None \/ d.type \notin { "ExperimentDeclared",
                                          "BranchDeclared" }
  BY <1>1, BodyKinds, NoneAssumption DEF Entity, Subject
<1>5. ASSUME d.type = "ExperimentDeclared"
      PROVE  AttemptsOf(d.body.id) = {}
  <2>1. d.type \in DeclaringType
    BY <1>5 DEF DeclaringType
  <2>2. ASSUME NEW i \in 1 .. n, records[i].draft.type = "AttemptStarted",
               records[i].draft.body.experiment = d.body.id
        PROVE  FALSE
    <3>1. d.body.id \in References(records[i].draft)
      BY <2>2 DEF References
    <3> QED BY <1>3, <1>4, <1>5, <2>1, <2>2, <3>1
  <2> QED BY <1>1, <2>2 DEF AttemptsOf
<1>6. ASSUME d.type = "BranchDeclared"
      PROVE  ExperimentsOf(d.body.id) = {}
  <2>1. d.type \in DeclaringType
    BY <1>6 DEF DeclaringType
  <2>2. ASSUME NEW i \in 1 .. n,
               records[i].draft.type = "ExperimentDeclared",
               records[i].draft.body.branch = d.body.id
        PROVE  FALSE
    <3>1. d.body.id \in References(records[i].draft)
      BY <2>2 DEF References
    <3> QED BY <1>3, <1>4, <1>6, <2>1, <2>2, <3>1
  <2> QED BY <1>1, <2>2 DEF ExperimentsOf
<1> QED BY <1>5, <1>6

(* The links of a view that is linked, or left alone.                       *)
LEMMA AppliedLinks ==
  ASSUME TypeOK, LifeInv, ApplyNext, NEW x \in Experiment \cup Branch,
         view'[x] # None, x # staged[1].key
  PROVE  /\ view[x] # None
         /\ view'[x].links =
              view[x].links \cup { y \in { staged[1].key } :
                                     x \in LinkTargets(staged[1]) }
<1> DEFINE s == staged[1]
<1>1. view' = AppliedView(s) /\ x \in Entity
  BY NextEntry DEF Apply, Entity, Subject
<1> HIDE DEF s
<1>2. CASE x \in LinkTargets(s) /\ view[x] # None
  <2>1. view'[x] = [ view[x] EXCEPT !.links = @ \cup { s.key } ]
    BY <1>1, <1>2 DEF AppliedView, s
  <2>2. view[x] \in ExperimentView \cup BranchView
    BY <1>1, <1>2 DEF TypeOK, ViewOf
  <2>3. view'[x].links = view[x].links \cup { s.key }
    BY <2>1, <2>2 DEF ExperimentView, BranchView
  <2> QED BY <1>2, <2>3 DEF s
<1>3. CASE ~(x \in LinkTargets(s) /\ view[x] # None)
  <2>1. view'[x] = view[x]
    BY <1>1, <1>3 DEF AppliedView, s
  <2> QED BY <1>3, <2>1 DEF s
<1> QED BY <1>2, <1>3

LEMMA ApplyKeepsLists ==
  ASSUME TypeOK, LifeInv, ListsInv, ApplyNext
  PROVE  ListsInv'
<1> DEFINE s == staged[1]
           d == s.draft
           id == d.body.id
           r == StagedRecord(s)
<1>1. /\ Apply(s) /\ EntityFitsKey(s) /\ Carries(s) /\ d \in Drafts
      /\ 1 \in 1 .. Len(staged) /\ r.draft = d
      /\ \A k \in 1 .. Len(staged') : k + 1 \in 1 .. Len(staged)
                                      /\ staged'[k] = staged[k + 1]
  <2>1. /\ Apply(s) /\ EntityFitsKey(s) /\ Carries(s) /\ d \in Drafts
        /\ 1 \in 1 .. Len(staged)
        /\ \A k \in 1 .. Len(staged') : k + 1 \in 1 .. Len(staged)
                                        /\ staged'[k] = staged[k + 1]
    BY NextEntry
  <2> QED BY <2>1 DEF StagedRecord
<1>2. /\ \A x : Listed(x)' =
           Listed(x) \cup { y \in { id } : x \in OwnersOf(r) }
      /\ \A e : AttemptsOf(e)' =
           AttemptsOf(e) \cup
             { y \in { id } : /\ d.type = "AttemptStarted"
                              /\ d.body.experiment = e }
      /\ \A b : ExperimentsOf(b)' =
           ExperimentsOf(b) \cup
             { y \in { id } : /\ d.type = "ExperimentDeclared"
                              /\ d.body.branch = b }
  BY <1>1, Gathering
<1>3. /\ d.type = "ExperimentDeclared" => AttemptsOf(id) = {}
      /\ d.type = "BranchDeclared" => ExperimentsOf(id) = {}
  BY NothingBefore
<1>4. d.type # "AccountingRecorded" => s.key = id
  BY <1>1 DEF EntityFitsKey
<1>5. ListOwners(s) = OwnersOf(r)
  BY <1>1, EntryOwners
<1>6. /\ d.type = "ExperimentDeclared" => id \in Experiment
      /\ d.type = "BranchDeclared" => id \in Branch
      /\ d.type = "AttemptStarted" => id \in Attempt
  BY <1>1, BodyKinds
<1>7. s.key \in Experiment => d.type = "ExperimentDeclared"
  <2>1. s.key # None => s.key = id /\ d.type # "AccountingRecorded"
    BY <1>1 DEF EntityFitsKey
  <2>2. None \notin Experiment
    BY NoneAssumption DEF Entity, Subject
  <2> QED BY <1>1, <2>1, <2>2, MoreTypesOfKinds
<1>8. s.key \in Branch => d.type = "BranchDeclared"
  <2>1. s.key # None => s.key = id /\ d.type # "AccountingRecorded"
    BY <1>1 DEF EntityFitsKey
  <2>2. None \notin Branch
    BY NoneAssumption DEF Entity, Subject
  <2> QED BY <1>1, <2>1, <2>2, MoreTypesOfKinds
<1>9. s.key \in Experiment \cup Branch =>
        view'[s.key] = s.entity /\ s.entity.links = {}
  <2>1. SUFFICES ASSUME s.key \in Experiment \cup Branch
                 PROVE  view'[s.key] = s.entity /\ s.entity.links = {}
    OBVIOUS
  <2>2. s.entity.links = {}
    BY <1>1, <1>7, <1>8, <2>1 DEF ListsInv
  <2>3. view'[s.key] = s.entity
    BY <1>1, <2>1 DEF Apply, AppliedView, Entity, Subject
  <2> QED BY <2>2, <2>3
<1>10. ASSUME NEW x \in Entity
       PROVE  children'[x] = Listed(x)'
  <2>1. children[x] = Listed(x)
    BY DEF ListsInv
  <2>2. children'[x] = IF x \in ListOwners(s) THEN children[x] \cup { s.key }
                       ELSE children[x]
    BY <1>1 DEF Apply
  <2>3. x \in OwnersOf(r) => d.type # "AccountingRecorded"
    BY <1>1 DEF OwnersOf
  <2>4. Listed(x)' = Listed(x) \cup { y \in { id } : x \in OwnersOf(r) }
    BY <1>2
  <2> HIDE DEF s, r, id
  <2> QED BY <1>4, <1>5, <2>1, <2>2, <2>3, <2>4
<1>11. ASSUME NEW e \in Experiment, view'[e] # None
       PROVE  view'[e].links \cap Attempt = AttemptsOf(e)'
  <2>1. AttemptsOf(e)' =
          AttemptsOf(e) \cup { y \in { id } : /\ d.type = "AttemptStarted"
                                              /\ d.body.experiment = e }
    BY <1>2
  <2>2. CASE e = s.key
    <3>1. d.type = "ExperimentDeclared" /\ e = id
      BY <1>4, <1>7, <2>2
    <3>2. AttemptsOf(e)' = {}
      BY <1>3, <2>1, <3>1
    <3> QED BY <1>9, <2>2, <3>2
  <2>3. CASE e # s.key
    <3>1. /\ view[e] # None
          /\ view'[e].links = view[e].links \cup { y \in { s.key } :
                                                     e \in LinkTargets(s) }
      BY <1>11, <2>3, AppliedLinks
    <3>2. view[e].links \cap Attempt = AttemptsOf(e)
      BY <3>1 DEF ListsInv
    <3>3. s.key \in Attempt /\ e \in LinkTargets(s)
            <=> d.type = "AttemptStarted" /\ d.body.experiment = e
      <4>1. CASE d.type = "AttemptStarted"
        <5>1. LinkTargets(s) = { d.body.experiment, d.body.branch }
              /\ s.key \in Attempt
          BY <1>1, <1>4, <1>6, <4>1 DEF LinkTargets, Carries
        <5>2. d.body.branch \in Branch
          BY <1>1, <4>1, DraftBodies DEF AttemptBody
        <5> QED BY <4>1, <5>1, <5>2, IdentityDomains
      <4>2. CASE d.type \in TerminalType
        BY <4>2 DEF LinkTargets, TerminalType, TerminalState
      <4>3. CASE d.type \notin { "AttemptStarted" } \cup TerminalType
        <5>1. s.key \notin Attempt
          <6>1. s.key # None => s.key = id /\ d.type # "AccountingRecorded"
            BY <1>1 DEF EntityFitsKey
          <6>2. None \notin Attempt
            BY NoneAssumption DEF Entity, Subject
          <6> QED BY <1>1, <4>3, <6>1, <6>2, TypesOfKinds
        <5> QED BY <4>3, <5>1
      <4> QED BY <4>1, <4>2, <4>3
    <3>4. d.type = "AttemptStarted" => s.key = id
      BY <1>4
    <3> HIDE DEF s, d, id
    <3> QED BY <1>6, <2>1, <3>1, <3>2, <3>3, <3>4
  <2> QED BY <2>2, <2>3
<1>12. ASSUME NEW b \in Branch, view'[b] # None
       PROVE  view'[b].links \cap Experiment = ExperimentsOf(b)'
  <2>1. ExperimentsOf(b)' =
          ExperimentsOf(b) \cup
            { y \in { id } : /\ d.type = "ExperimentDeclared"
                             /\ d.body.branch = b }
    BY <1>2
  <2>2. CASE b = s.key
    <3>1. d.type = "BranchDeclared" /\ b = id
      BY <1>4, <1>8, <2>2
    <3>2. ExperimentsOf(b)' = {}
      BY <1>3, <2>1, <3>1
    <3> QED BY <1>9, <2>2, <3>2
  <2>3. CASE b # s.key
    <3>1. /\ view[b] # None
          /\ view'[b].links = view[b].links \cup { y \in { s.key } :
                                                     b \in LinkTargets(s) }
      BY <1>12, <2>3, AppliedLinks
    <3>2. view[b].links \cap Experiment = ExperimentsOf(b)
      BY <3>1 DEF ListsInv
    <3>3. s.key \in Experiment /\ b \in LinkTargets(s)
            <=> d.type = "ExperimentDeclared" /\ d.body.branch = b
      <4>1. CASE d.type = "ExperimentDeclared"
        <5>1. LinkTargets(s) =
                { d.body.session, d.body.branch } \cup d.body.hypotheses
              /\ s.key \in Experiment
          BY <1>1, <1>4, <1>6, <4>1 DEF LinkTargets, Carries
        <5>2. d.body.session \in Session /\ d.body.hypotheses \subseteq Hypothesis
          BY <1>1, <4>1, DraftBodies DEF ExperimentBody
        <5> QED BY <4>1, <5>1, <5>2, IdentityDomains
      <4>2. CASE d.type # "ExperimentDeclared"
        BY <1>7, <4>2
      <4> QED BY <4>1, <4>2
    <3>4. d.type = "ExperimentDeclared" => s.key = id
      BY <1>4
    <3> HIDE DEF s, d, id
    <3> QED BY <1>6, <2>1, <3>1, <3>2, <3>3, <3>4
  <2> QED BY <2>2, <2>3
<1>13. \A k \in 1 .. Len(staged') :
         staged'[k].draft.type \in { "ExperimentDeclared", "BranchDeclared" }
           => staged'[k].entity.links = {}
  BY <1>1 DEF ListsInv
<1> QED BY <1>10, <1>11, <1>12, <1>13 DEF ListsInv

LEMMA StageKeepsLists ==
  ASSUME TypeOK, ListsInv, NEW d \in Drafts, StageNext(d)
  PROVE  ListsInv'
<1> DEFINE id == IF d.record_id = None THEN Sequence ELSE d.record_id
           s == StagedEntity(d, id)
<1>1. StagesTyped(d) /\ Stage(d)
  BY StageNextKeepsTypes
<1>2. s \in Entry
  <2>1. id \in RecordId \cup Nat
    BY DraftHeader, SequenceIsNat DEF Opt
  <2> QED BY <1>1, <2>1, TypedEntry
<1>3. /\ staged' = Append(staged, s) /\ records' = records
      /\ view' = view /\ children' = children
  BY <1>1 DEF Stage, committed
<1>4. /\ Len(staged) \in Nat /\ Len(staged') = Len(staged) + 1
      /\ \A k \in 1 .. Len(staged) : staged'[k] = staged[k]
      /\ staged'[Len(staged) + 1] = s
  BY <1>2, <1>3, SequencesOfTheStep
<1>5. s.draft = d /\ s.entity = EntityOf(d)
  BY DEF StagedEntity
<1>6. d.type = "ExperimentDeclared" => s.entity.links = {}
  BY <1>5 DEF EntityOf, TerminalType, TerminalState,
     ExperimentDeclaredEntity
<1>7. d.type = "BranchDeclared" => s.entity.links = {}
  BY <1>5 DEF EntityOf, TerminalType, TerminalState, BranchDeclaredEntity
<1> HIDE DEF s
<1>8. \A k \in 1 .. Len(staged') :
        staged'[k].draft.type \in { "ExperimentDeclared", "BranchDeclared" }
          => staged'[k].entity.links = {}
  BY <1>4, <1>5, <1>6, <1>7 DEF ListsInv
<1> QED BY <1>3, <1>8 DEF ListsInv, Listed, AttemptsOf, ExperimentsOf

LEMMA ListsStep ==
  ASSUME TypeOK, LifeInv, ListsInv, [Next]_vars
  PROVE  ListsInv'
<1>1. ASSUME NEW d \in Drafts, StageNext(d)
      PROVE  ListsInv'
  BY <1>1, StageKeepsLists
<1>2. ASSUME UNCHANGED committed, staged' \in { staged, << >> }
      PROVE  ListsInv'
  BY <1>2 DEF committed, ListsInv, Listed, AttemptsOf, ExperimentsOf
<1>3. ASSUME NEW d \in Drafts, RecognizeRepeat(d) \/ Reject(d)
      PROVE  ListsInv'
  BY <1>2, <1>3 DEF RecognizeRepeat, Reject, DropBatch
<1>4. CASE ApplyNext
  BY <1>4, ApplyKeepsLists
<1>5. CASE Commit \/ Finish \/ UNCHANGED vars
  BY <1>2, <1>5 DEF Commit, Finish, DropBatch, vars, batch
<1> QED BY <1>1, <1>3, <1>4, <1>5 DEF Next

LEMMA ListsInit == Init => ListsInv
<1> SUFFICES ASSUME Init PROVE ListsInv
  OBVIOUS
<1>1. Len(staged) = 0 /\ DOMAIN records = {}
  BY DEF Init
<1>2. \A x \in Entity : children[x] = {} /\ view[x] = None
  BY DEF Init
<1>3. Experiment \subseteq Entity /\ Branch \subseteq Entity
  BY DEF Entity, Subject
<1>4. \A x : Listed(x) = {}
  BY <1>1 DEF Listed
<1>5. \A k \in 1 .. Len(staged) : FALSE
  BY <1>1
<1>6. /\ \A x \in Entity : children[x] = Listed(x)
      /\ \A e \in Experiment : view[e] = None
      /\ \A b \in Branch : view[b] = None
  BY <1>2, <1>3, <1>4
<1> QED BY <1>5, <1>6 DEF ListsInv

PictureInv == DepictedInv /\ ListsInv

(* At every step each index entry is what the records before it make of its *)
(* entity, field by field, and each list holds exactly what the records put *)
(* under its owner (build_staged_entity and apply_staged_entity).           *)
THEOREM ViewsAreHistory == Spec => [](TypeOK /\ LifeInv /\ PictureInv)
<1>1. Init => PictureInv
  BY DepictedInit, ListsInit DEF PictureInv
<1>2. TypeOK /\ LifeInv /\ PictureInv /\ [Next]_vars => PictureInv'
  BY DepictedStep, ListsStep DEF PictureInv
<1> QED BY <1>1, <1>2, LifeInvariant, PTL DEF Spec
=============================================================================

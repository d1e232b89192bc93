--------------------------- MODULE LedgerEvidence ---------------------------
(***************************************************************************)
(* The queries that combine many indexes: the scope of an accounting query  *)
(* and the integrity check (src/ledger_aggregate.cpp), and the evidence     *)
(* that reconstructs a result (src/reconstruction.cpp); then what the       *)
(* queries promise to whoever holds a snapshot.                             *)
(***************************************************************************)
EXTENDS LedgerQuery

(* The scope of an accounting query.  collect_experiment: an experiment and *)
(* its attempts.  (Mutant: the experiment alone.)                           *)
ExperimentAlone(ix, e) == { e }

ExperimentScope(ix, e) ==
  { e } \cup (IF ix.view[e] = None THEN {} ELSE ix.view[e].links \cap Attempt)

ExperimentScopes(ix, S) == UNION { ExperimentScope(ix, e) : e \in S }

AttemptObserved(ix, o) ==
  IF ix.view[o] = None THEN {} ELSE { ix.view[o].attempt }

(* collect_core: a subject and what lies beneath it.  A failure and an      *)
(* artifact stand for what they are about, or were produced by.             *)
BeneathResult(ix, x) ==
  LET support == ix.view[x].support IN
  { x } \cup ExperimentScopes(ix, support \cap Experiment)
    \cup (support \cap (ModelCall \cup ToolCall \cup Observation))

Beneath(ix, x) ==
  CASE x \in Session ->
         { x } \cup ExperimentScopes(ix, ix.children[x] \cap Experiment)
           \cup (ix.children[x] \cap Branch)
    [] x \in Experiment -> ExperimentScope(ix, x)
    [] x \in Hypothesis \cup Branch /\ ix.view[x] # None ->
         { x } \cup ExperimentScopes(ix, ix.view[x].links \cap Experiment)
    [] x \in Result /\ ix.view[x] # None ->
         BeneathResult(ix, x)
           \cup UNION { AttemptObserved(ix, o) :
                          o \in ix.view[x].support \cap Observation }
    [] x \in Observation -> { x } \cup AttemptObserved(ix, x)
    [] OTHER -> { x }

StandsFor(ix, x) ==
  IF x \notin Failure \cup Artifact \/ ix.view[x] = None THEN {}
  ELSE IF x \in Failure THEN { ix.view[x].scope }
  ELSE { ix.view[x].producer }

(* The code follows StandsFor by recursion: from an artifact among its own  *)
(* producers it does not return (EndsNowhere), which is no answer here.     *)
ProducersOf(ix, x) ==
  Closure(StandsFor(ix, x), LAMBDA y : StandsFor(ix, y))

CollectCore(ix, x) ==
  UNION { Beneath(ix, y) : y \in { x } \cup ProducersOf(ix, x) }

(* expand_calls: the activity of every attempt that is included. *)
WithActivity(ix, S) ==
  S \cup { c \in ModelCall \cup ToolCall \cup Observation :
             ix.view[c] # None /\ ix.view[c].attempt \in S }

EndsNowhere(ix, x) ==
  \E y \in { x } \cup ProducersOf(ix, x) : y \in ProducersOf(ix, y)

ScopeAt(ix, x) == WithActivity(ix, CollectCore(ix, x))

(* The records accounting() adds up, or None if the scope is not committed. *)
ContributionsAt(ix, w, x) ==
  IF SequencesAbout(ix, x) = {} \/ EndsNowhere(ix, x) THEN None
  ELSE { i \in DOMAIN ix.records :
           /\ Visible(i, w)
           /\ ix.records[i].draft.type = "AccountingRecorded"
           /\ ix.records[i].draft.body.id \in ScopeAt(ix, x) }

-----------------------------------------------------------------------------
(* verify: the edges of lineage, over the current indexes, and the evidence *)
(* of decisions.  Sequences and digests of the records agree because the    *)
(* records are those that were committed; the identities are counted.       *)
EdgeIssues(ix, S, Parents(_), at) ==
  LET edges == { e \in S \X (Artifact \cup Hypothesis \cup Branch) :
                   ix.view[e[1]] # None /\ e[2] \in Parents(e[1]) } IN
  { [ code |-> "BROKEN_LINEAGE", subject |-> e[1] ] :
      e \in { x \in edges : ix.view[x[2]] = None } }
  \cup
  { [ code |-> "LINEAGE_CYCLE", subject |-> e[1] ] :
      e \in { x \in edges : /\ ix.view[x[2]] # None
                            /\ ~(ix.view[x[2]][at] < ix.view[x[1]][at]) } }

Untimely(ix, e, d) ==
  \/ e.sequence = 0 \/ e.sequence > Len(ix.records)
  \/ e.sequence >= ix.view[d].recorded_at

EvidenceIssues(ix) ==
  LET cited == UNION { { d } \X ix.view[d].evidence :
                         d \in { x \in Decision : ix.view[x] # None } } IN
  { [ code |-> "INVALID_TRANSITION", subject |-> c[1] ] :
      c \in { x \in cited : Untimely(ix, x[2], x[1]) } }
  \cup
  { [ code |-> "BROKEN_LINEAGE", subject |-> c[1] ] :
      c \in { x \in cited :
                /\ ~Untimely(ix, x[2], x[1])
                /\ ix.records[x[2].sequence].subject # x[2].subject } }

IdentityIssues(ix) ==
  IF Cardinality({ ix.records[i].record_id : i \in DOMAIN ix.records })
       = Len(ix.records)
  THEN {} ELSE { [ code |-> "DUPLICATE_RECORD", subject |-> None ] }

Verify(ix) ==
  IdentityIssues(ix)
    \cup EdgeIssues(ix, Artifact, LAMBDA x : ParentsOfArtifact(ix, x),
                    "recorded_at")
    \cup EdgeIssues(ix, Hypothesis, LAMBDA x : ParentOf(ix, x),
                    "declared_at")
    \cup EdgeIssues(ix, Branch, LAMBDA x : ParentOf(ix, x), "declared_at")
    \cup EvidenceIssues(ix)

-----------------------------------------------------------------------------
(* supporting_evidence.  The view of the result is the current one.         *)
EvidenceAttempts(ix, experiments) ==
  UNION { ix.view[e].links \cap Attempt : e \in experiments }

(* Calls and observations: those of the attempts, and those the result      *)
(* names.                                                                   *)
EvidenceActivity(ix, w, support, attempts) ==
  { c \in VisibleIn(ix, w, ModelCall \cup ToolCall \cup Observation,
                    "recorded_at") :
      ix.view[c].attempt \in attempts \/ c \in support }

(* Artifacts: those the result names, those the attempts and the named      *)
(* experiments produced, and the ancestry of both.                          *)
EvidenceArtifacts(ix, w, support, attempts) ==
  LET produced ==
        { a \in VisibleIn(ix, w, Artifact, "recorded_at") :
            ix.view[a].producer
              \in attempts \cup (support \cap Experiment) } IN
  Closure((support \cap Artifact) \cup produced,
          LAMBDA a : ParentsOfArtifact(ix, a))

ConcernsAny(ix, w, S, f, subjects) ==
  { x \in VisibleIn(ix, w, S, "recorded_at") : ix.view[x][f] \in subjects }

(* The bundle, with the walks that fail: a member of the closure that is    *)
(* not there, or lies beyond the watermark, is BROKEN_LINEAGE.  (Mutant:    *)
(* the result is not among the subjects whose decisions are looked up.)     *)
VisitedSupport(r, closure) == closure

Visited(r, closure) == { r } \cup closure

EvidenceAt(ix, w, r) ==
  IF r \notin VisibleIn(ix, w, Result, "declared_at") THEN None
  ELSE
  LET support == ix.view[r].support
      hypotheses == Closure(support \cap Hypothesis,
                            LAMBDA x : ParentOf(ix, x))
      experiments == Closure(support \cap Experiment,
                             LAMBDA x : ParentOf(ix, x))
      attempts == EvidenceAttempts(ix, experiments)
      artifacts == EvidenceArtifacts(ix, w, support, attempts)
      subjects == Visited(r, hypotheses \cup experiments \cup attempts
                               \cup artifacts)
      here == VisibleIn(ix, w, hypotheses, "declared_at")
                \cup VisibleIn(ix, w, experiments, "declared_at")
                \cup VisibleIn(ix, w, attempts, "started_at")
                \cup VisibleIn(ix, w, artifacts, "recorded_at")
  IN
  IF subjects \ { r } # here THEN [ code |-> "BROKEN_LINEAGE" ]
  ELSE [ result |-> ix.view[r],
         hypotheses |-> [ h \in hypotheses |->
                            RewoundHypothesis(ix.view[h], w) ],
         experiments |-> experiments,
         attempts |-> [ a \in attempts |-> RewoundAttempt(ix.view[a], w) ],
         activity |-> EvidenceActivity(ix, w, support, attempts),
         artifacts |-> [ a \in artifacts |-> RewoundArtifact(ix, w, a) ],
         failures |-> ConcernsAny(ix, w, Failure, "scope", subjects),
         decisions |-> ConcernsAny(ix, w, Decision, "subject", subjects) ]

-----------------------------------------------------------------------------
(* What a snapshot promises, at any time a query may run.                   *)
Held == watermark # None /\ Queryable

(* The counts inside a view are read as they stand. *)
Uncounted(v) ==
  IF v = None THEN None ELSE [ f \in DOMAIN v \ { "links" } |-> v[f] ]

(* A snapshot's answers do not change as the ledger goes on: what session(),*)
(* experiment(), attempt(), the lists of calls, observations, failures and  *)
(* decisions, and records() said when the snapshot was taken they say ever  *)
(* after, although they read the live indexes.                              *)
SnapshotAnswersStay ==
  Held =>
    LET w == watermark IN
    /\ \A s \in Session :
         Uncounted(SessionAt(Now, w, s)) = Uncounted(SessionAt(then, w, s))
    /\ \A e \in Experiment :
         ExperimentAt(Now, w, e) = ExperimentAt(then, w, e)
    /\ \A a \in Attempt :
         /\ Uncounted(AttemptAt(Now, w, a)) = Uncounted(AttemptAt(then, w, a))
         /\ ModelCallsAt(Now, w, a) = ModelCallsAt(then, w, a)
         /\ ToolCallsAt(Now, w, a) = ToolCallsAt(then, w, a)
         /\ ObservationsAt(Now, w, a) = ObservationsAt(then, w, a)
    /\ \A x \in Subject :
         /\ FailuresOf(Now, w, x) = FailuresOf(then, w, x)
         /\ DecisionsOf(Now, w, x) = DecisionsOf(then, w, x)
    /\ RecordsAt(Now, w) = RecordsAt(then, w)

(* The status a hypothesis or a result is shown with is one it was declared *)
(* with or was changed to by a record the snapshot sees, and a decision     *)
(* named with it is one the snapshot sees: an answer may be older than the  *)
(* watermark, and never newer.                                              *)
StatusesBy(x, w) ==
  { << 1, IF x \in Result THEN "Candidate" ELSE "Proposed" >> }
    \cup { << records[j].draft.body.generation, records[j].draft.body.to >> :
             j \in { i \in ChangesOf(x) : i <= w } }

NothingFromLater ==
  Held =>
    /\ \A h \in Hypothesis :
         LET v == HypothesisAt(Now, watermark, h) IN
         v # None => << v.generation, v.status >> \in StatusesBy(h, watermark)
    /\ \A r \in Result :
         LET v == ResultAt(Now, watermark, r) IN
         v # None =>
           /\ << v.generation, v.status >> \in StatusesBy(r, watermark)
           /\ \A d \in { v.last_decision, v.acceptance_decision } \ { None } :
                DecisionAt(Now, watermark, d) # None

-----------------------------------------------------------------------------
(* What history says, read from the records alone.                          *)
Declared(x) == Of(x, DeclaringType)

DraftOf(x) == records[CHOOSE i \in Declared(x) : TRUE].draft.body

AcceptedBy(r, n) ==
  \E j \in ChangesOf(r) :
    /\ j <= n
    /\ records[j].draft.body.to = "Accepted"
    /\ \A i \in ChangesOf(r) : i <= j \/ i > n

ExperimentsOn(b) ==
  { records[i].draft.body.id :
      i \in { j \in Types({ "ExperimentDeclared" }) :
                records[j].draft.body.branch = b } }

UnresolvedInHistory(b, n) ==
  LET started == { i \in Types({ "AttemptStarted" }) :
                     i <= n /\ records[i].draft.body.branch = b } IN
  /\ started # {}
  /\ \A i \in started :
       \A j \in Of(records[i].draft.body.id, { "AttemptCompleted" }) : j > n
  /\ \A r \in Result :
       AcceptedBy(r, n) => DraftOf(r).support \cap ExperimentsOn(b) = {}

(* A branch is unresolved exactly when history up to the watermark says so: *)
(* attempts were started on it, none completed, and no accepted result      *)
(* rests on its experiments.  For a snapshot that is no longer the latest   *)
(* this takes results whose acceptance it sees to be left as they are.      *)
BranchesMatchHistory ==
  Queryable =>
    \A w \in { Len(records), watermark } \ { None } :
      (\A r \in Result : AcceptedBy(r, w) => view[r].last_changed_at <= w) =>
        \A b \in Branch :
          BranchAt(Now, w, b) # None =>
            (BranchAt(Now, w, b).unresolved <=> UnresolvedInHistory(b, w))

(* A record is beneath the attempt it was recorded under, that attempt's    *)
(* experiment, and the experiment's branch and session.                     *)
Owners(x) ==
  LET attempt == IF x \in ModelCall \cup ToolCall \cup Observation
                 THEN { DraftOf(x).attempt } ELSE { x } \cap Attempt
      experiment == { DraftOf(a).experiment : a \in attempt }
                      \cup ({ x } \cap Experiment) IN
  { x } \cup attempt \cup experiment
    \cup { DraftOf(e).branch : e \in experiment }
    \cup { DraftOf(e).session : e \in experiment \cup ({ x } \cap Branch) }

(* The accounting of an attempt, an experiment, a branch or a session takes *)
(* in every accounting record beneath it, each once, and nothing else.      *)
TotalsMatchHistory ==
  Queryable =>
    \A x \in Attempt \cup Experiment \cup Branch \cup Session :
      Declared(x) # {} =>
        ContributionsAt(Now, Len(records), x) =
          { i \in Types({ "AccountingRecorded" }) :
              x \in Owners(records[i].draft.body.id) }

(* The latest snapshot reconstructs every result: no walk of its lineage is *)
(* broken, and an accepted result comes with the decision that accepted it. *)
ResultsAreExplained ==
  Queryable =>
    \A r \in Result :
      LET evidence == EvidenceAt(Now, Len(records), r) IN
      view[r] # None =>
        /\ "code" \notin DOMAIN evidence
        /\ AcceptedBy(r, Len(records)) =>
             evidence.result.acceptance_decision \in evidence.decisions

(* verify finds no fault with a history the ledger committed, save that an  *)
(* artifact referenced again no longer precedes what was made from it.      *)
VerifyAcceptsHistory ==
  Queryable =>
    \A issue \in Verify(Now) :
      /\ issue.code = "LINEAGE_CYCLE" /\ issue.subject \in Artifact
      /\ \E p \in view[issue.subject].parents : view[p].generation > 1

(* The walk up the parents and the walk down the children, which read lists *)
(* kept apart, agree on every hypothesis, and on the artifacts when none    *)
(* was referenced again and none is reached on two ways.                    *)
WalksAgree ==
  Queryable =>
    /\ \A g, h \in { x \in Hypothesis : view[x] # None } :
         g # h => (h \in HypothesisDescendants(Now, g)
                     <=> g \in HypothesisAncestry(Now, h))
    /\ (\A a \in Artifact : view[a] # None => view[a].generation = 1) =>
         \A a, c \in { x \in Artifact : view[x] # None } :
           LET down == ArtifactDescendants(Now, a) IN
           "nodes" \in DOMAIN down =>
             (c \in down.nodes <=> a \in ArtifactAncestry(Now, c))

-----------------------------------------------------------------------------
(* What the logical digest covers: the state as it stands of every entity   *)
(* declared by the watermark, in the fields that are rendered, and every    *)
(* accounting record.  (Mutant: an attempt is rendered without its state.)  *)
RenderedFields(x) ==
  CASE x \in Session -> { "state" }
    [] x \in Hypothesis -> { "generation", "status", "parent" }
    [] x \in Experiment -> { "branch" }
    [] x \in Attempt -> { "generation", "state", "experiment", "failure" }
    [] x \in ModelCall \cup ToolCall -> { "attempt" }
    [] x \in Artifact -> { "generation", "validation", "producer" }
    [] x \in Observation -> { "attempt" }
    [] x \in Failure -> { "scope" }
    [] x \in Decision -> { "subject", "decision_type", "outcome" }
    [] x \in Result -> { "generation", "status", "acceptance_decision" }
    [] x \in Metric -> { "key" }
    [] OTHER -> {}

RenderedStateless(ix, x) ==
  [ f \in RenderedFields(x) \ { "state" } |-> ix.view[x][f] ]

Rendered(ix, x) == [ f \in RenderedFields(x) |-> ix.view[x][f] ]

DeclaredAt(v) ==
  v[CHOOSE f \in { "opened_at", "declared_at", "started_at", "recorded_at" } :
      f \in DOMAIN v]

LogicalDigest(ix, w) ==
  [ entities |->
      [ x \in { y \in Entity : /\ ix.view[y] # None
                               /\ DeclaredAt(ix.view[y]) <= w } |->
          Rendered(ix, x) ],
    accounting |->
      { i \in DOMAIN ix.records :
          Visible(i, w) /\ ix.records[i].draft.type = "AccountingRecorded" } ]

(* The logical digest tells any two points of history apart: every record   *)
(* that is applied changes it, except an annotation, which leaves no trace  *)
(* but itself.  A view that a stale copy put back, or a field missing from  *)
(* the rendering, would let an end, a closure or a decision go unseen.      *)
DigestSeesEveryChange ==
  [][ Len(records') = Len(records) + 1 =>
        (LogicalDigest(Now, Len(records))' = LogicalDigest(Now, Len(records))
           <=> records'[Len(records')].draft.type = "SessionAnnotation")
    ]_queryVars

-----------------------------------------------------------------------------
(* "A hypothesis whose status changes after the snapshot is reported by the *)
(* snapshot as it stood at the watermark.  The result follows the same      *)
(* rule": the test of the snapshot contract.  The code shows it as it was   *)
(* declared, whatever it had become by then.                                *)
ShownAsOfTheWatermark ==
  Held =>
    /\ \A h \in Hypothesis :
         Uncounted(HypothesisAt(Now, watermark, h))
           = Uncounted(HypothesisAt(then, watermark, h))
    /\ \A r \in Result :
         ResultAt(Now, watermark, r) = ResultAt(then, watermark, r)
=============================================================================

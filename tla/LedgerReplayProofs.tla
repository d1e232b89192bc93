------------------------ MODULE LedgerReplayProofs ------------------------
(***************************************************************************)
(* Proofs about LedgerReplay: whatever was committed restores, and restores *)
(* the state it was saved from, for every choice of identities, drafts and  *)
(* limits.                                                                  *)
(*                                                                          *)
(* The difficulty is that a draft is validated beside the others of its     *)
(* batch when it is appended, and alone when it is restored.  Validation    *)
(* reads the indexes only through what they say of the history (Stands), so *)
(* the invariant carries, for every record, that it passes alone whatever   *)
(* indexes stand for the records before it (Passes); two such indexes       *)
(* differ at most in their links (IndexesAlike), and no check reads those   *)
(* (the Same... lemmas).                                                    *)
(*                                                                          *)
(* ArtifactsKeepSession is a hypothesis of the results: without it a batch  *)
(* can be committed that restore refuses.                                   *)
(***************************************************************************)
EXTENDS LedgerViews, LedgerReplay

(* The validation of a record that is alone in its batch, by a ledger with  *)
(* records r, views F and subject index L.                                  *)
Alone(r, F, L) ==
  INSTANCE LedgerValidate WITH
    records <- r, view <- F, subject_index <- L, staged <- << >>,
    latest <- [ x \in Entity |-> None ], front <- [ x \in Subject |-> None ]

(* The records of an artifact stay in a session one of its references named *)
StaysHome(h, n) ==
  \A x \in Artifact :
    About(h, n, x) =>
      \E d \in Drafts : /\ d.type = "ArtifactReferenced"
                        /\ d.body.id = x /\ d.body.session = h[n].session

(* The indexes F and L say what the first n records of h made them say.     *)
Stands(h, n, F, L) ==
  /\ \A x \in Entity : Shows(h, n, x, F[x]) /\ Depicts(h, n, x, F[x])
  /\ \A x \in Subject : L[x] # None => HasHome(h, n, x, L[x])
  /\ \A i \in 1 .. n : L[h[i].subject] # None

Starts(r, h, n) == Len(r) = n /\ \A i \in 1 .. n : r[i] = h[i]

(* Record n passes validation alone, whatever indexes stand for the         *)
(* records before it.                                                       *)
Passes(h, n) ==
  \A r, F, L :
    Starts(r, h, n - 1) /\ Stands(h, n - 1, F, L) =>
      /\ Alone(r, F, L)!Validates(h[n].draft)
      /\ Alone(r, F, L)!SessionOf(h[n].draft) = h[n].session

(* What record n is, whoever committed it. *)
Formed(h, n) ==
  /\ h[n].draft \in Drafts /\ h[n].subject \in Subject
  /\ h[n].session \in Session
  /\ h[n].subject = PrimarySubject(h[n].draft)

Settled(h, n) ==
  Formed(h, n) /\ Follows(h, n) /\ Builds(h, n) /\ StaysHome(h, n)

AllSettled(h, n) == \A i \in 1 .. n : Settled(h, i)

Sound(h, n) == Settled(h, n) /\ Passes(h, n)

(* Two views of x that differ at most in their links. *)
Alike(x, v, w) ==
  /\ v = None <=> w = None
  /\ v # None =>
       /\ x \in Session =>
            /\ v.session = w.session /\ v.state = w.state
            /\ v.opened_at = w.opened_at /\ v.closed_at = w.closed_at
       /\ x \in Hypothesis =>
            /\ v.session = w.session /\ v.generation = w.generation
            /\ v.status = w.status /\ v.parent = w.parent
            /\ v.declared_at = w.declared_at
            /\ v.last_changed_at = w.last_changed_at
       /\ x \in Experiment =>
            /\ v.session = w.session /\ v.hypotheses = w.hypotheses
            /\ v.branch = w.branch /\ v.parent = w.parent
            /\ v.declared_at = w.declared_at
       /\ x \in Branch =>
            /\ v.session = w.session /\ v.parent = w.parent
            /\ v.declared_at = w.declared_at
       /\ x \in Attempt =>
            /\ v.experiment = w.experiment /\ v.branch = w.branch
            /\ v.generation = w.generation /\ v.state = w.state
            /\ v.failure = w.failure /\ v.started_at = w.started_at
            /\ v.terminated_at = w.terminated_at
       /\ x \in ModelCall =>
            /\ v.attempt = w.attempt /\ v.parents = w.parents
            /\ v.recorded_at = w.recorded_at
       /\ x \in ToolCall =>
            v.attempt = w.attempt /\ v.recorded_at = w.recorded_at
       /\ x \in Artifact =>
            /\ v.session = w.session /\ v.generation = w.generation
            /\ v.producer = w.producer /\ v.parents = w.parents
            /\ v.validation = w.validation
            /\ v.recorded_at = w.recorded_at
       /\ x \in Metric =>
            /\ v.session = w.session /\ v.key = w.key
            /\ v.value_kind = w.value_kind /\ v.declared_at = w.declared_at
       /\ x \in Observation =>
            /\ v.session = w.session /\ v.attempt = w.attempt
            /\ v.experiment = w.experiment /\ v.metric = w.metric
            /\ v.recorded_at = w.recorded_at
       /\ x \in Failure =>
            /\ v.session = w.session /\ v.scope = w.scope
            /\ v.predecessor = w.predecessor /\ v.recovery = w.recovery
            /\ v.recorded_at = w.recorded_at
       /\ x \in Decision =>
            /\ v.session = w.session /\ v.subject = w.subject
            /\ v.decision_type = w.decision_type
            /\ v.outcome = w.outcome /\ v.evidence = w.evidence
            /\ v.recorded_at = w.recorded_at
       /\ x \in Result =>
            /\ v.session = w.session /\ v.generation = w.generation
            /\ v.status = w.status /\ v.support = w.support
            /\ v.declared_at = w.declared_at
            /\ v.last_changed_at = w.last_changed_at
            /\ v.last_decision = w.last_decision
            /\ v.acceptance_decision = w.acceptance_decision

-----------------------------------------------------------------------------
(* The same history makes the same indexes *)

LEMMA DeclaredOnce ==
  ASSUME NEW h, NEW n \in Nat, \A i \in 1 .. n : Follows(h, i),
         NEW x, NEW at, NEW to, DeclaredAs(h, n, x, at), DeclaredAs(h, n, x, to)
  PROVE  at = to
<1>1. at \in 1 .. n /\ to \in 1 .. n
  BY DEF DeclaredAs
<1>2. About(h, at, x) /\ About(h, to, x)
  BY DEF DeclaredAs, TypedAbout, About, DeclaringType
<1>3. /\ h[at].draft.type \in DeclaringType /\ h[at].draft.body.id = x
      /\ h[to].draft.type \in DeclaringType /\ h[to].draft.body.id = x
  BY DEF DeclaredAs, TypedAbout
<1>4. IsNew(h, at) /\ IsNew(h, to)
  BY <1>1 DEF Follows
<1>5. ~(at < to) /\ ~(to < at)
  BY <1>1, <1>2, <1>3, <1>4 DEF IsNew
<1> QED BY <1>1, <1>5

LEMMA LastOnce ==
  ASSUME NEW S \in SUBSET Nat, NEW i, NEW j, LastOf(S, i), LastOf(S, j)
  PROVE  i = j
BY DEF LastOf

LEMMA SessionsAlike ==
  ASSUME NEW h, NEW n \in Nat, \A i \in 1 .. n : Follows(h, i),
         NEW x \in Session, NEW v, NEW w, v # None, w # None,
         Shows(h, n, x, v), Depicts(h, n, x, v),
         Shows(h, n, x, w), Depicts(h, n, x, w)
  PROVE  /\ v.session = w.session /\ v.state = w.state
         /\ v.opened_at = w.opened_at /\ v.closed_at = w.closed_at
<1>1. /\ ShowsSession(h, n, x, v) /\ ShowsSession(h, n, x, w)
      /\ DepictsSession(h, n, x, v) /\ DepictsSession(h, n, x, w)
  BY DEF Shows, Depicts
<1>2. v.session = w.session /\ v.opened_at = w.opened_at
  BY <1>1, DeclaredOnce DEF ShowsSession, DepictsSession
<1>3. v.state = "Closed" <=> w.state = "Closed"
  BY <1>1 DEF ShowsSession
<1>4. CASE v.state = "Closed"
  <2>1. /\ v.closed_at \in 1 .. n /\ w.closed_at \in 1 .. n
        /\ TypedAbout(h, v.closed_at, { "SessionClosed" }, x)
        /\ TypedAbout(h, w.closed_at, { "SessionClosed" }, x)
        /\ w.state = "Closed"
    BY <1>1, <1>3, <1>4 DEF DepictsSession
  <2>2. ASSUME NEW i \in 1 .. n, NEW j \in 1 .. n, i < j,
               TypedAbout(h, i, { "SessionClosed" }, x),
               TypedAbout(h, j, { "SessionClosed" }, x)
        PROVE  FALSE
    <3>1. RespectsClosure(h, j) /\ IsAtHome(h, j)
      BY <2>2 DEF Follows
    <3>2. h[j].session = x /\ h[j].draft.type = "SessionClosed"
      BY <2>2, <3>1 DEF IsAtHome, TypedAbout, SessionRecord
    <3>3. i \in 1 .. j - 1
      BY <2>2
    <3> QED BY <2>2, <3>1, <3>2, <3>3 DEF RespectsClosure
  <2>3. v.closed_at = w.closed_at
    BY <2>1, <2>2
  <2> QED BY <1>2, <1>4, <2>1, <2>3
<1>5. CASE v.state # "Closed"
  BY <1>1, <1>2, <1>3, <1>5 DEF DepictsSession
<1> QED BY <1>4, <1>5

LEMMA StatusAlike ==
  ASSUME NEW h, NEW n \in Nat, NEW x, NEW v, NEW w, NEW first,
         v.declared_at = w.declared_at,
         DepictsStatus(h, n, x, v, first), DepictsStatus(h, n, x, w, first)
  PROVE  /\ v.generation = w.generation /\ v.status = w.status
         /\ v.last_changed_at = w.last_changed_at
<1> DEFINE S == ChangesUpTo(h, n, x)
<1>1. S \in SUBSET Nat
  BY DEF ChangesUpTo
<1>2. \/ /\ S = {} /\ v.last_changed_at = v.declared_at
         /\ v.generation = 1 /\ v.status = first
      \/ /\ LastOf(S, v.last_changed_at)
         /\ v.generation = h[v.last_changed_at].draft.body.generation
         /\ v.status = h[v.last_changed_at].draft.body.to
  BY DEF DepictsStatus
<1>3. \/ /\ S = {} /\ w.last_changed_at = w.declared_at
         /\ w.generation = 1 /\ w.status = first
      \/ /\ LastOf(S, w.last_changed_at)
         /\ w.generation = h[w.last_changed_at].draft.body.generation
         /\ w.status = h[w.last_changed_at].draft.body.to
  BY DEF DepictsStatus
<1> HIDE DEF S
<1>4. CASE S = {}
  BY <1>2, <1>3, <1>4 DEF LastOf
<1>5. CASE S # {}
  <2>1. LastOf(S, v.last_changed_at) /\ LastOf(S, w.last_changed_at)
    BY <1>2, <1>3, <1>5
  <2>2. v.last_changed_at = w.last_changed_at
    BY <1>1, <2>1, LastOnce
  <2> QED BY <1>2, <1>3, <1>5, <2>2
<1> QED BY <1>4, <1>5

LEMMA HypothesesAlike ==
  ASSUME NEW h, NEW n \in Nat, \A i \in 1 .. n : Follows(h, i),
         NEW x \in Hypothesis, NEW v, NEW w, v # None, w # None,
         Depicts(h, n, x, v), Depicts(h, n, x, w)
  PROVE  /\ v.session = w.session /\ v.generation = w.generation
         /\ v.status = w.status /\ v.parent = w.parent
         /\ v.declared_at = w.declared_at
         /\ v.last_changed_at = w.last_changed_at
<1>1. DepictsHypothesis(h, n, x, v) /\ DepictsHypothesis(h, n, x, w)
  BY DEF Depicts
<1>2. v.declared_at = w.declared_at
  BY <1>1, DeclaredOnce DEF DepictsHypothesis
<1>3. /\ v.generation = w.generation /\ v.status = w.status
      /\ v.last_changed_at = w.last_changed_at
  BY <1>1, <1>2, StatusAlike DEF DepictsHypothesis
<1> QED BY <1>1, <1>2, <1>3 DEF DepictsHypothesis

LEMMA ResultsAlike ==
  ASSUME NEW h, NEW n \in Nat, \A i \in 1 .. n : Follows(h, i),
         NEW x \in Result, NEW v, NEW w, v # None, w # None,
         Depicts(h, n, x, v), Depicts(h, n, x, w)
  PROVE  /\ v.session = w.session /\ v.generation = w.generation
         /\ v.status = w.status /\ v.support = w.support
         /\ v.declared_at = w.declared_at
         /\ v.last_changed_at = w.last_changed_at
         /\ v.last_decision = w.last_decision
         /\ v.acceptance_decision = w.acceptance_decision
<1>1. DepictsResult(h, n, x, v) /\ DepictsResult(h, n, x, w)
  BY DEF Depicts
<1>2. v.declared_at = w.declared_at
  BY <1>1, DeclaredOnce DEF DepictsResult
<1>3. /\ v.generation = w.generation /\ v.status = w.status
      /\ v.last_changed_at = w.last_changed_at
  BY <1>1, <1>2, StatusAlike DEF DepictsResult
<1>4. DepictsDecisions(h, n, x, v) /\ DepictsDecisions(h, n, x, w)
  BY <1>1 DEF DepictsResult
<1>5. v.last_decision = w.last_decision
  BY <1>3, <1>4 DEF DepictsDecisions
<1> DEFINE S == AcceptancesUpTo(h, n, x)
<1>6. S \in SUBSET Nat
  BY DEF AcceptancesUpTo, ChangesUpTo
<1>7. /\ \/ S = {} /\ v.acceptance_decision = None
         \/ \E i \in 1 .. n :
              LastOf(S, i) /\ v.acceptance_decision = h[i].draft.body.decision
      /\ \/ S = {} /\ w.acceptance_decision = None
         \/ \E i \in 1 .. n :
              LastOf(S, i) /\ w.acceptance_decision = h[i].draft.body.decision
  BY <1>4 DEF DepictsDecisions
<1> HIDE DEF S
<1>8. v.acceptance_decision = w.acceptance_decision
  <2>1. CASE S = {}
    BY <1>7, <2>1 DEF LastOf
  <2>2. CASE S # {}
    BY <1>6, <1>7, <2>2, LastOnce
  <2> QED BY <2>1, <2>2
<1> QED BY <1>1, <1>2, <1>3, <1>5, <1>8 DEF DepictsResult

LEMMA AttemptsAlike ==
  ASSUME NEW h, NEW n \in Nat, \A i \in 1 .. n : Follows(h, i),
         NEW x \in Attempt, NEW v, NEW w, v # None, w # None,
         Shows(h, n, x, v), Depicts(h, n, x, v),
         Shows(h, n, x, w), Depicts(h, n, x, w)
  PROVE  /\ v.experiment = w.experiment /\ v.branch = w.branch
         /\ v.generation = w.generation /\ v.state = w.state
         /\ v.failure = w.failure /\ v.started_at = w.started_at
         /\ v.terminated_at = w.terminated_at
<1>1. /\ ShowsAttempt(h, n, x, v) /\ ShowsAttempt(h, n, x, w)
      /\ DepictsAttempt(h, n, x, v) /\ DepictsAttempt(h, n, x, w)
  BY DEF Shows, Depicts
<1>2. v.started_at = w.started_at
  BY <1>1, DeclaredOnce DEF DepictsAttempt
<1>3. /\ v.experiment = w.experiment /\ v.branch = w.branch
      /\ v.generation = w.generation
  BY <1>1, <1>2 DEF DepictsAttempt
<1>4. v.state = "Running" <=> w.state = "Running"
  BY <1>1 DEF ShowsAttempt
<1>5. DepictsEnd(h, n, x, v) /\ DepictsEnd(h, n, x, w)
  BY <1>1 DEF DepictsAttempt
<1>6. ASSUME NEW i \in 1 .. n, TypedAbout(h, i, TerminalType, x)
      PROVE  v.state # "Running" /\ w.state # "Running"
  BY <1>1, <1>6 DEF ShowsAttempt
<1>7. CASE v.state = "Running"
  BY <1>2, <1>3, <1>4, <1>5, <1>6, <1>7 DEF DepictsEnd
<1>8. CASE v.state # "Running"
  <2>1. /\ v.terminated_at \in 1 .. n
        /\ TypedAbout(h, v.terminated_at, TerminalType, x)
        /\ w.terminated_at \in 1 .. n
        /\ TypedAbout(h, w.terminated_at, TerminalType, x)
    BY <1>4, <1>5, <1>8 DEF DepictsEnd
  <2>2. ASSUME NEW i \in 1 .. n, NEW j \in 1 .. n, i < j,
               TypedAbout(h, i, TerminalType, x),
               TypedAbout(h, j, TerminalType, x)
        PROVE  FALSE
    <3>1. EndsOnce(h, j) /\ i \in 1 .. j - 1
      BY <2>2 DEF Follows
    <3> QED BY <2>2, <3>1 DEF EndsOnce, TypedAbout
  <2>3. v.terminated_at = w.terminated_at
    BY <2>1, <2>2
  <2>4. v.state = w.state /\ v.failure = w.failure
    BY <1>4, <1>5, <1>8, <2>3 DEF DepictsEnd
  <2> QED BY <1>2, <1>3, <2>3, <2>4
<1> QED BY <1>7, <1>8

LEMMA ArtifactsAlike ==
  ASSUME NEW h, NEW n \in Nat,
         NEW x \in Artifact, NEW v, NEW w, v # None, w # None,
         Depicts(h, n, x, v), Depicts(h, n, x, w)
  PROVE  /\ v.session = w.session /\ v.generation = w.generation
         /\ v.producer = w.producer /\ v.parents = w.parents
         /\ v.validation = w.validation
         /\ v.recorded_at = w.recorded_at
<1>1. DepictsArtifact(h, n, x, v) /\ DepictsArtifact(h, n, x, w)
  BY DEF Depicts
<1>2. ReferencesUpTo(h, n, x) \in SUBSET Nat
  BY DEF ReferencesUpTo
<1>3. v.recorded_at = w.recorded_at
  BY <1>1, <1>2, LastOnce DEF DepictsArtifact
<1> QED BY <1>1, <1>3 DEF DepictsArtifact

LEMMA ObservationsAlike ==
  ASSUME NEW h, NEW n \in Nat, \A i \in 1 .. n : Follows(h, i),
         NEW x \in Observation, NEW v, NEW w, v # None, w # None,
         Depicts(h, n, x, v), Depicts(h, n, x, w)
  PROVE  /\ v.session = w.session /\ v.attempt = w.attempt
         /\ v.experiment = w.experiment /\ v.metric = w.metric
         /\ v.recorded_at = w.recorded_at
<1>1. DepictsObservation(h, n, x, v) /\ DepictsObservation(h, n, x, w)
  BY DEF Depicts
<1>2. v.recorded_at = w.recorded_at
  BY <1>1, DeclaredOnce DEF DepictsObservation
<1>3. v.session = w.session /\ v.attempt = w.attempt /\ v.metric = w.metric
  BY <1>1, <1>2 DEF DepictsObservation
<1>4. PICK i \in 1 .. n :
        /\ TypedAbout(h, i, { "AttemptStarted" }, v.attempt)
        /\ h[i].draft.body.experiment = v.experiment
  BY <1>1 DEF DepictsObservation
<1>5. PICK j \in 1 .. n :
        /\ TypedAbout(h, j, { "AttemptStarted" }, w.attempt)
        /\ h[j].draft.body.experiment = w.experiment
  BY <1>1 DEF DepictsObservation
<1>6. DeclaredAs(h, n, v.attempt, i) /\ DeclaredAs(h, n, v.attempt, j)
  BY <1>3, <1>4, <1>5 DEF DeclaredAs, TypedAbout, DeclaringType
<1>7. i = j
  BY <1>6, DeclaredOnce
<1> QED BY <1>2, <1>3, <1>4, <1>5, <1>7

LEMMA FixedAlike ==
  ASSUME NEW h, NEW n \in Nat, \A i \in 1 .. n : Follows(h, i),
         NEW x, NEW v, NEW w, v # None, w # None,
         Depicts(h, n, x, v), Depicts(h, n, x, w)
  PROVE  /\ x \in Experiment =>
              /\ v.session = w.session /\ v.hypotheses = w.hypotheses
              /\ v.branch = w.branch /\ v.parent = w.parent
              /\ v.declared_at = w.declared_at
         /\ x \in Branch =>
              /\ v.session = w.session /\ v.parent = w.parent
              /\ v.declared_at = w.declared_at
         /\ x \in ModelCall =>
              /\ v.attempt = w.attempt /\ v.parents = w.parents
              /\ v.recorded_at = w.recorded_at
         /\ x \in ToolCall =>
              v.attempt = w.attempt /\ v.recorded_at = w.recorded_at
         /\ x \in Metric =>
              /\ v.session = w.session /\ v.key = w.key
              /\ v.value_kind = w.value_kind
              /\ v.declared_at = w.declared_at
         /\ x \in Failure =>
              /\ v.session = w.session /\ v.scope = w.scope
              /\ v.predecessor = w.predecessor /\ v.recovery = w.recovery
              /\ v.recorded_at = w.recorded_at
         /\ x \in Decision =>
              /\ v.session = w.session /\ v.subject = w.subject
              /\ v.decision_type = w.decision_type
              /\ v.outcome = w.outcome /\ v.evidence = w.evidence
              /\ v.recorded_at = w.recorded_at
<1>1. ASSUME x \in Experiment
      PROVE  /\ v.session = w.session /\ v.hypotheses = w.hypotheses
             /\ v.branch = w.branch /\ v.parent = w.parent
             /\ v.declared_at = w.declared_at
  <2>1. DepictsExperiment(h, n, x, v) /\ DepictsExperiment(h, n, x, w)
    BY <1>1 DEF Depicts
  <2>2. v.declared_at = w.declared_at
    BY <2>1, DeclaredOnce DEF DepictsExperiment
  <2> QED BY <2>1, <2>2 DEF DepictsExperiment
<1>2. ASSUME x \in Branch
      PROVE  /\ v.session = w.session /\ v.parent = w.parent
             /\ v.declared_at = w.declared_at
  <2>1. DepictsBranch(h, n, x, v) /\ DepictsBranch(h, n, x, w)
    BY <1>2 DEF Depicts
  <2>2. v.declared_at = w.declared_at
    BY <2>1, DeclaredOnce DEF DepictsBranch
  <2> QED BY <2>1, <2>2 DEF DepictsBranch
<1>3. ASSUME x \in ModelCall
      PROVE  /\ v.attempt = w.attempt /\ v.parents = w.parents
             /\ v.recorded_at = w.recorded_at
  <2>1. DepictsModelCall(h, n, x, v) /\ DepictsModelCall(h, n, x, w)
    BY <1>3 DEF Depicts
  <2>2. v.recorded_at = w.recorded_at
    BY <2>1, DeclaredOnce DEF DepictsModelCall
  <2> QED BY <2>1, <2>2 DEF DepictsModelCall
<1>4. ASSUME x \in ToolCall
      PROVE  v.attempt = w.attempt /\ v.recorded_at = w.recorded_at
  <2>1. DepictsToolCall(h, n, x, v) /\ DepictsToolCall(h, n, x, w)
    BY <1>4 DEF Depicts
  <2>2. v.recorded_at = w.recorded_at
    BY <2>1, DeclaredOnce DEF DepictsToolCall
  <2> QED BY <2>1, <2>2 DEF DepictsToolCall
<1>5. ASSUME x \in Metric
      PROVE  /\ v.session = w.session /\ v.key = w.key
             /\ v.value_kind = w.value_kind
             /\ v.declared_at = w.declared_at
  <2>1. DepictsMetric(h, n, x, v) /\ DepictsMetric(h, n, x, w)
    BY <1>5 DEF Depicts
  <2>2. v.declared_at = w.declared_at
    BY <2>1, DeclaredOnce DEF DepictsMetric
  <2> QED BY <2>1, <2>2 DEF DepictsMetric
<1>6. ASSUME x \in Failure
      PROVE  /\ v.session = w.session /\ v.scope = w.scope
             /\ v.predecessor = w.predecessor /\ v.recovery = w.recovery
             /\ v.recorded_at = w.recorded_at
  <2>1. DepictsFailure(h, n, x, v) /\ DepictsFailure(h, n, x, w)
    BY <1>6 DEF Depicts
  <2>2. v.recorded_at = w.recorded_at
    BY <2>1, DeclaredOnce DEF DepictsFailure
  <2> QED BY <2>1, <2>2 DEF DepictsFailure
<1>7. ASSUME x \in Decision
      PROVE  /\ v.session = w.session /\ v.subject = w.subject
             /\ v.decision_type = w.decision_type
             /\ v.outcome = w.outcome /\ v.evidence = w.evidence
             /\ v.recorded_at = w.recorded_at
  <2>1. DepictsDecision(h, n, x, v) /\ DepictsDecision(h, n, x, w)
    BY <1>7 DEF Depicts
  <2>2. v.recorded_at = w.recorded_at
    BY <2>1, DeclaredOnce DEF DepictsDecision
  <2> QED BY <2>1, <2>2 DEF DepictsDecision
<1> QED BY <1>1, <1>2, <1>3, <1>4, <1>5, <1>6, <1>7

LEMMA ViewsAlike ==
  ASSUME NEW h, NEW n \in Nat, \A i \in 1 .. n : Follows(h, i),
         NEW x, NEW v, NEW w,
         Shows(h, n, x, v), Depicts(h, n, x, v),
         Shows(h, n, x, w), Depicts(h, n, x, w)
  PROVE  Alike(x, v, w)
<1>1. v = None <=> w = None
  BY DEF Shows
<1>2. CASE v = None
  BY <1>1, <1>2 DEF Alike
<1>3. CASE v # None
  <2>1. w # None
    BY <1>1, <1>3
  <2> QED BY <1>1, <1>3, <2>1, SessionsAlike, HypothesesAlike, ResultsAlike,
          AttemptsAlike, ArtifactsAlike, ObservationsAlike, FixedAlike
          DEF Alike
<1> QED BY <1>2, <1>3

LEMMA SubjectOfRecord ==
  ASSUME NEW h, NEW i, Formed(h, i), NEW x \in Subject, About(h, i, x)
  PROVE  h[i].subject = x
<1>1. h[i].draft \in Drafts /\ h[i].draft.body.id = x
      /\ h[i].subject = PrimarySubject(h[i].draft)
  BY DEF Formed, About
<1>2. h[i].draft.type # "MetricDeclared"
  <2>1. x \notin Metric
    BY IdentityDomains DEF Subject
  <2> QED BY <1>1, <2>1, BodyKinds
<1> QED BY <1>1, <1>2 DEF PrimarySubject

LEMMA OneSession ==
  ASSUME ArtifactsKeepSession, NEW h, NEW n \in Nat,
         \A i \in 1 .. n : Settled(h, i), NEW x \in Subject,
         NEW s, NEW t, HasHome(h, n, x, s), HasHome(h, n, x, t)
  PROVE  s = t
<1>1. PICK i \in 1 .. n : About(h, i, x) /\ h[i].session = s
  BY DEF HasHome
<1>2. PICK j \in 1 .. n : About(h, j, x) /\ h[j].session = t
  BY DEF HasHome
<1>3. CASE x \in Artifact
  <2>1. StaysHome(h, i) /\ StaysHome(h, j)
    BY DEF Settled
  <2>2. PICK d \in Drafts : /\ d.type = "ArtifactReferenced"
                            /\ d.body.id = x /\ d.body.session = s
    BY <1>1, <1>3, <2>1 DEF StaysHome
  <2>3. PICK e \in Drafts : /\ e.type = "ArtifactReferenced"
                            /\ e.body.id = x /\ e.body.session = t
    BY <1>2, <1>3, <2>1 DEF StaysHome
  <2> QED BY <2>2, <2>3 DEF ArtifactsKeepSession
<1>4. CASE x \notin Artifact
  <2>1. ASSUME NEW k \in 1 .. n, NEW l \in 1 .. n, k < l,
               About(h, k, x), About(h, l, x)
        PROVE  h[k].session = h[l].session
    <3>1. KeepsSession(h, l) /\ k \in 1 .. l - 1
      BY <2>1 DEF Settled, Follows
    <3> QED BY <1>4, <2>1, <3>1 DEF KeepsSession, About
  <2> QED BY <1>1, <1>2, <2>1
<1> QED BY <1>3, <1>4

LEMMA KnownSubject ==
  ASSUME NEW h, NEW n \in Nat, \A i \in 1 .. n : Settled(h, i),
         NEW F, NEW L, Stands(h, n, F, L),
         NEW x \in Subject, NEW s, HasHome(h, n, x, s)
  PROVE  L[x] # None
<1>1. PICK i \in 1 .. n : About(h, i, x)
  BY DEF HasHome
<1>2. h[i].subject = x
  BY <1>1, SubjectOfRecord DEF Settled
<1> QED BY <1>2 DEF Stands

LEMMA IndexesAlike ==
  ASSUME ArtifactsKeepSession, NEW h, NEW n \in Nat,
         AllSettled(h, n),
         NEW F, NEW L, Stands(h, n, F, L), NEW G, NEW M, Stands(h, n, G, M)
  PROVE  /\ \A x \in Entity : Alike(x, F[x], G[x])
         /\ \A x \in Subject : L[x] = M[x]
<1>1. ASSUME NEW x \in Entity
      PROVE  Alike(x, F[x], G[x])
  BY ViewsAlike DEF Stands, Settled, AllSettled
<1>2. ASSUME NEW x \in Subject
      PROVE  L[x] = M[x]
  <2>1. /\ L[x] # None => HasHome(h, n, x, L[x])
        /\ M[x] # None => HasHome(h, n, x, M[x])
    BY DEF Stands
  <2>2. L[x] # None <=> M[x] # None
    BY <2>1, KnownSubject DEF AllSettled
  <2>3. CASE L[x] = None
    BY <2>2, <2>3
  <2>4. CASE L[x] # None
    BY <2>1, <2>2, <2>4, OneSession DEF AllSettled
  <2> QED BY <2>3, <2>4
<1> QED BY <1>1, <1>2

-----------------------------------------------------------------------------
(* Validation is the same against indexes that differ only in links *)

Mirrors(F, L) ==
  /\ \A x \in Entity : Alike(x, Find(x), F[x])
  /\ \A x \in Subject : Locate(x) = L[x]

LEMMA AloneFinds ==
  ASSUME NEW r, NEW F, NEW L
  PROVE  /\ \A x \in Entity : Alone(r, F, L)!Find(x) = F[x]
         /\ \A x \in Subject : Alone(r, F, L)!Locate(x) = L[x]
BY DEF Alone!Find, Alone!Locate

LEMMA SameFound ==
  ASSUME NEW r, NEW F, NEW L, Mirrors(F, L), NEW x \in Entity
  PROVE  Alone(r, F, L)!Found(x) <=> Found(x)
<1>1. Alone(r, F, L)!Found(x) <=> F[x] # None
  BY AloneFinds DEF Alone!Found
<1> QED BY <1>1 DEF Mirrors, Alike, Found

LEMMA SameSession ==
  ASSUME NEW F, NEW L, Mirrors(F, L), NEW x \in Entity,
         x \notin Attempt \cup ModelCall \cup ToolCall
  PROVE  Find(x).session = F[x].session
<1>1. Alike(x, Find(x), F[x])
  BY DEF Mirrors
<1>2. CASE Find(x) = None
  BY <1>1, <1>2 DEF Alike
<1>3. CASE Find(x) # None
  BY <1>1, <1>3 DEF Alike, Entity, Subject
<1> QED BY <1>2, <1>3

LEMMA SameAttempt ==
  ASSUME TypeOK, NEW r, NEW F, NEW L, Mirrors(F, L), NEW a \in Attempt
  PROVE  /\ Alone(r, F, L)!AttemptFound(a) <=> AttemptFound(a)
         /\ AttemptFound(a) =>
              Alone(r, F, L)!AttemptSession(a) = AttemptSession(a)
<1>1. a \in Entity
  BY DEF Entity, Subject
<1>2. /\ Alone(r, F, L)!Found(a) <=> Found(a)
      /\ Alone(r, F, L)!Find(a) = F[a] /\ Alike(a, Find(a), F[a])
  BY <1>1, SameFound, AloneFinds DEF Mirrors
<1>3. CASE Found(a)
  <2>1. Find(a) \in AttemptView
    BY <1>1, <1>3, FoundViews DEF ViewOf
  <2>2. Find(a).experiment \in Experiment /\ Find(a).experiment \in Entity
        /\ Find(a).experiment \notin Attempt \cup ModelCall \cup ToolCall
    BY <2>1, IdentityDomains DEF AttemptView, Entity, Subject
  <2>3. Alone(r, F, L)!Find(a).experiment = Find(a).experiment
    BY <1>2, <1>3 DEF Alike, Found
  <2> DEFINE e == Find(a).experiment
  <2>4. /\ Alone(r, F, L)!Found(e) <=> Found(e)
        /\ Alone(r, F, L)!Find(e) = F[e] /\ Find(e).session = F[e].session
    BY <2>2, SameFound, AloneFinds, SameSession
  <2> HIDE DEF e
  <2>5. /\ Alone(r, F, L)!AttemptFound(a) <=>
             Alone(r, F, L)!Found(a) /\ Alone(r, F, L)!Found(e)
        /\ Alone(r, F, L)!AttemptSession(a)
             = Alone(r, F, L)!Find(e).session
    BY <2>3 DEF Alone!AttemptFound, Alone!AttemptSession, e
  <2>6. /\ AttemptFound(a) <=> Found(a) /\ Found(e)
        /\ AttemptSession(a) = Find(e).session
    BY DEF AttemptFound, AttemptSession, e
  <2> QED BY <1>2, <2>4, <2>5, <2>6
<1>4. CASE ~Found(a)
  BY <1>2, <1>4 DEF AttemptFound, Alone!AttemptFound
<1> QED BY <1>3, <1>4

LEMMA SameInSession ==
  ASSUME TypeOK, NEW r, NEW F, NEW L, Mirrors(F, L), NEW x \in Entity, NEW s
  PROVE  Alone(r, F, L)!InSession(x, s) <=> InSession(x, s)
<1>1. /\ Alone(r, F, L)!Found(x) <=> Found(x)
      /\ Alone(r, F, L)!Find(x) = F[x] /\ Alike(x, Find(x), F[x])
  BY SameFound, AloneFinds DEF Mirrors
<1>2. CASE x \in Attempt
  <2>1. /\ Alone(r, F, L)!AttemptFound(x) <=> AttemptFound(x)
        /\ AttemptFound(x) =>
             Alone(r, F, L)!AttemptSession(x) = AttemptSession(x)
    BY <1>2, SameAttempt
  <2> QED BY <1>1, <1>2, <2>1 DEF InSession, Alone!InSession
<1>3. CASE x \in ModelCall \cup ToolCall
  <2>0. x \notin Attempt
    BY <1>3, IdentityDomains
  <2>1. CASE Found(x)
    <3>1. Find(x) \in ModelCallView \cup ToolCallView
      BY <1>3, <2>1, FoundViews DEF ViewOf
    <3>2. Find(x).attempt \in Attempt
      BY <3>1 DEF ModelCallView, ToolCallView
    <3>3. Alone(r, F, L)!Find(x).attempt = Find(x).attempt
      BY <1>1, <1>3, <2>1 DEF Alike, Found
    <3> DEFINE a == Find(x).attempt
    <3>4. /\ Alone(r, F, L)!AttemptFound(a) <=> AttemptFound(a)
          /\ AttemptFound(a) =>
               Alone(r, F, L)!AttemptSession(a) = AttemptSession(a)
      BY <3>2, SameAttempt
    <3> HIDE DEF a
    <3>5. InSession(x, s) <=>
            Found(x) /\ AttemptFound(a) /\ AttemptSession(a) = s
      BY <1>3, <2>0 DEF InSession, a
    <3>6. Alone(r, F, L)!InSession(x, s) <=>
            /\ Alone(r, F, L)!Found(x) /\ Alone(r, F, L)!AttemptFound(a)
            /\ Alone(r, F, L)!AttemptSession(a) = s
      BY <1>3, <2>0, <3>3 DEF Alone!InSession, a
    <3> QED BY <1>1, <3>4, <3>5, <3>6
  <2>2. CASE ~Found(x)
    BY <1>1, <2>2 DEF InSession, Alone!InSession
  <2> QED BY <2>1, <2>2
<1>4. CASE x \notin Attempt \cup ModelCall \cup ToolCall
  <2>1. Find(x).session = F[x].session
    BY <1>4, SameSession
  <2> QED BY <1>1, <1>4, <2>1 DEF InSession, Alone!InSession
<1> QED BY <1>2, <1>3, <1>4

LEMMA SameAccepts ==
  ASSUME NEW r, NEW F, NEW L, Mirrors(F, L), NEW s \in Session
  PROVE  Alone(r, F, L)!AcceptsResearch(s) <=> AcceptsResearch(s)
<1>1. s \in Entity
  BY DEF Entity, Subject
<1>2. /\ Alone(r, F, L)!Found(s) <=> Found(s)
      /\ Alone(r, F, L)!Find(s) = F[s] /\ Alike(s, Find(s), F[s])
  BY <1>1, SameFound, AloneFinds DEF Mirrors
<1> QED BY <1>2 DEF AcceptsResearch, Alone!AcceptsResearch, Alike, Found

LEMMA SameActivity ==
  ASSUME TypeOK, NEW r, NEW F, NEW L, Mirrors(F, L), NEW a \in Attempt
  PROVE  Alone(r, F, L)!AttemptTakesActivity(a) <=> AttemptTakesActivity(a)
<1>1. a \in Entity
  BY DEF Entity, Subject
<1>2. /\ Alone(r, F, L)!Found(a) <=> Found(a)
      /\ Alone(r, F, L)!Find(a) = F[a] /\ Alike(a, Find(a), F[a])
      /\ Alone(r, F, L)!AttemptFound(a) <=> AttemptFound(a)
      /\ AttemptFound(a) =>
           Alone(r, F, L)!AttemptSession(a) = AttemptSession(a)
  BY <1>1, SameFound, AloneFinds, SameAttempt DEF Mirrors
<1>3. CASE AttemptFound(a)
  <2>1. AttemptSession(a) \in Session
    BY <1>3, AttemptSessions
  <2>2. Alone(r, F, L)!AcceptsResearch(AttemptSession(a)) <=>
          AcceptsResearch(AttemptSession(a))
    BY <2>1, SameAccepts
  <2>3. Alone(r, F, L)!Find(a).state = Find(a).state
    BY <1>2, <1>3 DEF Alike, AttemptFound, Found
  <2>4. Alone(r, F, L)!AttemptSession(a) = AttemptSession(a)
    BY <1>2, <1>3
  <2>5. Alone(r, F, L)!AcceptsResearch(Alone(r, F, L)!AttemptSession(a)) <=>
          AcceptsResearch(AttemptSession(a))
    BY <2>2, <2>4
  <2> QED BY <1>2, <1>3, <2>3, <2>5
          DEF AttemptTakesActivity, Alone!AttemptTakesActivity
<1>4. CASE ~AttemptFound(a)
  BY <1>2, <1>4 DEF AttemptTakesActivity, Alone!AttemptTakesActivity
<1> QED BY <1>3, <1>4

LEMMA SameEntity ==
  ASSUME NEW r, NEW F, NEW L, Mirrors(F, L), NEW x \in Entity
  PROVE  /\ Alone(r, F, L)!Found(x) <=> Found(x)
         /\ Alone(r, F, L)!Fresh(x) <=> Fresh(x)
         /\ Alone(r, F, L)!Find(x) = F[x] /\ Alike(x, Find(x), F[x])
BY SameFound, AloneFinds DEF Mirrors, Fresh, Alone!Fresh

LEMMA SameTables ==
  ASSUME NEW r, NEW F, NEW L
  PROVE  /\ Alone(r, F, L)!NextHypothesis = NextHypothesis
         /\ Alone(r, F, L)!NextResult = NextResult
         /\ Alone(r, F, L)!OutcomeOfType = OutcomeOfType
         /\ Alone(r, F, L)!StatusesOfOutcome = StatusesOfOutcome
         /\ Alone(r, F, L)!TerminalType = TerminalType
BY DEF NextHypothesis, Alone!NextHypothesis, NextResult, Alone!NextResult,
   OutcomeOfType, Alone!OutcomeOfType, StatusesOfOutcome,
   Alone!StatusesOfOutcome, TerminalType, Alone!TerminalType,
   TerminalState, Alone!TerminalState

LEMMA SameDrafted ==
  ASSUME NEW r, NEW F, NEW L, NEW d, NEW type
  PROVE  Alone(r, F, L)!Drafted(d, type) <=> Drafted(d, type)
BY DEF Drafted, Alone!Drafted

LEMMA SameCited ==
  ASSUME NEW r, NEW F, NEW L, Mirrors(F, L), NEW c \in Opt(Decision), NEW x
  PROVE  Alone(r, F, L)!CitedDecisionOK(c, x) <=> CitedDecisionOK(c, x)
<1>1. CASE c = None
  BY <1>1 DEF CitedDecisionOK, Alone!CitedDecisionOK
<1>2. CASE c # None
  <2>1. c \in Decision /\ c \in Entity
    BY <1>2 DEF Opt, Entity, Subject
  <2>2. /\ Alone(r, F, L)!Found(c) <=> Found(c)
        /\ Alone(r, F, L)!Find(c) = F[c] /\ Alike(c, Find(c), F[c])
    BY <2>1, SameEntity
  <2> QED BY <1>2, <2>1, <2>2
          DEF CitedDecisionOK, Alone!CitedDecisionOK, Alike, Found
<1> QED BY <1>1, <1>2

LEMMA SameRevision ==
  ASSUME NEW r, NEW F, NEW L, Mirrors(F, L), NEW b,
         b.id \in Hypothesis \cup Result, Found(b.id)
  PROVE  Alone(r, F, L)!NextRevision(b) <=> NextRevision(b)
<1>1. b.id \in Entity
  BY DEF Entity, Subject
<1>2. Alone(r, F, L)!Find(b.id) = F[b.id] /\ Alike(b.id, Find(b.id), F[b.id])
  BY <1>1, SameEntity
<1> QED BY <1>2 DEF NextRevision, Alone!NextRevision, NextRevisionOf,
        Alone!NextRevisionOf, Alike, Found

LEMMA SamePlaced ==
  ASSUME NEW r, NEW F, NEW L, Mirrors(F, L), NEW x \in Subject
  PROVE  Alone(r, F, L)!Locate(x) = Locate(x)
BY AloneFinds DEF Mirrors

LEMMA SameSessionOpened ==
  ASSUME TypeOK, NEW r, NEW F, NEW L, Mirrors(F, L), NEW d \in Drafts,
         d.type = "SessionOpened"
  PROVE  Alone(r, F, L)!SessionOpenedOK(d) <=> SessionOpenedOK(d)

<1>1. d.body.id \in Entity
  BY DraftBodies DEF SessionBody, Entity, Subject
<1> QED BY <1>1, SameEntity, SameDrafted
        DEF SessionOpenedOK, Alone!SessionOpenedOK

LEMMA SameSessionClosed ==
  ASSUME TypeOK, NEW r, NEW F, NEW L, Mirrors(F, L), NEW d \in Drafts,
         d.type = "SessionClosed"
  PROVE  Alone(r, F, L)!SessionClosedOK(d) <=> SessionClosedOK(d)

<1>1. d.body.id \in Session /\ d.body.id \in Entity
  BY DraftBodies DEF SessionBody, Entity, Subject
<1>2. Found(d.body.id) =>
        Find(d.body.id).state = Alone(r, F, L)!Find(d.body.id).state
  BY <1>1, SameEntity DEF Alike, Found
<1> QED BY <1>1, <1>2, SameEntity, SameDrafted
        DEF SessionClosedOK, Alone!SessionClosedOK

LEMMA SameSessionAnnotation ==
  ASSUME TypeOK, NEW r, NEW F, NEW L, Mirrors(F, L), NEW d \in Drafts,
         d.type = "SessionAnnotation"
  PROVE  Alone(r, F, L)!SessionAnnotationOK(d) <=> SessionAnnotationOK(d)

<1>1. d.body.id \in Entity
  BY DraftBodies DEF SessionBody, Entity, Subject
<1> QED BY <1>1, SameEntity, SameDrafted
        DEF SessionAnnotationOK, Alone!SessionAnnotationOK

LEMMA SameHypothesisDeclared ==
  ASSUME TypeOK, NEW r, NEW F, NEW L, Mirrors(F, L), NEW d \in Drafts,
         d.type = "HypothesisDeclared"
  PROVE  Alone(r, F, L)!HypothesisDeclaredOK(d) <=> HypothesisDeclaredOK(d)

<1> DEFINE b == d.body
<1>1. /\ b.id \in Entity /\ b.session \in Session /\ b.session \in Entity
      /\ b.parent # None => b.parent \in Hypothesis /\ b.parent \in Entity
  BY DraftBodies DEF HypothesisBody, Opt, Entity, Subject
<1>2. /\ Alone(r, F, L)!Drafted(d, "HypothesisDeclared") <=> Drafted(d, "HypothesisDeclared")
      /\ Alone(r, F, L)!Fresh(b.id) <=> Fresh(b.id)
      /\ Alone(r, F, L)!Found(b.session) <=> Found(b.session)
      /\ Alone(r, F, L)!AcceptsResearch(b.session) <=>
           AcceptsResearch(b.session)
  BY <1>1, SameEntity, SameDrafted, SameAccepts
<1>3. ASSUME b.parent # None
      PROVE  /\ Alone(r, F, L)!InSession(b.parent, b.session) <=>
                  InSession(b.parent, b.session)
             /\ InSession(b.parent, b.session) =>
                  Alone(r, F, L)!Find(b.parent).generation
                    = Find(b.parent).generation
  <2>1. Alone(r, F, L)!InSession(b.parent, b.session) <=>
          InSession(b.parent, b.session)
    BY <1>1, <1>3, SameInSession
  <2>2. /\ Alone(r, F, L)!Find(b.parent) = F[b.parent]
        /\ Alike(b.parent, Find(b.parent), F[b.parent])
    BY <1>1, <1>3, SameEntity
  <2> QED BY <1>1, <1>3, <2>1, <2>2 DEF InSession, Found, Alike
<1> QED BY <1>2, <1>3 DEF HypothesisDeclaredOK, Alone!HypothesisDeclaredOK

LEMMA SameHypothesisStatusChanged ==
  ASSUME TypeOK, NEW r, NEW F, NEW L, Mirrors(F, L), NEW d \in Drafts,
         d.type = "HypothesisStatusChanged"
  PROVE  Alone(r, F, L)!HypothesisStatusChangedOK(d) <=> HypothesisStatusChangedOK(d)

<1> DEFINE b == d.body
<1>1. /\ b.id \in Hypothesis /\ b.id \in Entity
      /\ b.decision \in Opt(Decision)
  BY DraftBodies DEF HypothesisChangeBody, Entity, Subject
<1>2. /\ Alone(r, F, L)!Drafted(d, "HypothesisStatusChanged") <=>
           Drafted(d, "HypothesisStatusChanged")
      /\ Alone(r, F, L)!Found(b.id) <=> Found(b.id)
      /\ Alone(r, F, L)!CitedDecisionOK(b.decision, b.id) <=>
           CitedDecisionOK(b.decision, b.id)
  BY <1>1, SameEntity, SameDrafted, SameCited
<1>3. ASSUME Found(b.id)
      PROVE  /\ Alone(r, F, L)!NextRevision(b) <=> NextRevision(b)
             /\ Alone(r, F, L)!AcceptsResearch(
                  Alone(r, F, L)!Find(b.id).session) <=>
                  AcceptsResearch(Find(b.id).session)
  <2>1. Find(b.id) \in HypothesisView
    BY <1>1, <1>3, FoundViews DEF ViewOf
  <2>2. Find(b.id).session \in Session
    BY <2>1 DEF HypothesisView
  <2>3. Alone(r, F, L)!Find(b.id).session = Find(b.id).session
    BY <1>1, <1>3, SameEntity DEF Alike, Found
  <2>4. Alone(r, F, L)!AcceptsResearch(Find(b.id).session) <=>
          AcceptsResearch(Find(b.id).session)
    BY <2>2, SameAccepts
  <2>5. Alone(r, F, L)!NextRevision(b) <=> NextRevision(b)
    BY <1>1, <1>3, SameRevision
  <2> QED BY <2>3, <2>4, <2>5
<1> QED BY <1>2, <1>3, SameTables
        DEF HypothesisStatusChangedOK, Alone!HypothesisStatusChangedOK

LEMMA SameExperimentDeclared ==
  ASSUME TypeOK, NEW r, NEW F, NEW L, Mirrors(F, L), NEW d \in Drafts,
         d.type = "ExperimentDeclared"
  PROVE  Alone(r, F, L)!ExperimentDeclaredOK(d) <=> ExperimentDeclaredOK(d)

<1> DEFINE b == d.body
<1>1. /\ b.id \in Entity /\ b.session \in Session /\ b.session \in Entity
      /\ b.branch \in Entity /\ \A x \in b.hypotheses : x \in Entity
      /\ b.parent # None => b.parent \in Entity
  BY DraftBodies DEF ExperimentBody, Opt, Entity, Subject
<1>2. /\ Alone(r, F, L)!Drafted(d, "ExperimentDeclared") <=> Drafted(d, "ExperimentDeclared")
      /\ Alone(r, F, L)!Fresh(b.id) <=> Fresh(b.id)
      /\ Alone(r, F, L)!Found(b.session) <=> Found(b.session)
      /\ Alone(r, F, L)!AcceptsResearch(b.session) <=>
           AcceptsResearch(b.session)
  BY <1>1, SameEntity, SameDrafted, SameAccepts
<1>3. \A x \in Entity : Alone(r, F, L)!InSession(x, b.session) <=>
                           InSession(x, b.session)
  BY SameInSession
<1> QED BY <1>1, <1>2, <1>3
        DEF ExperimentDeclaredOK, Alone!ExperimentDeclaredOK

LEMMA SameBranchDeclared ==
  ASSUME TypeOK, NEW r, NEW F, NEW L, Mirrors(F, L), NEW d \in Drafts,
         d.type = "BranchDeclared"
  PROVE  Alone(r, F, L)!BranchDeclaredOK(d) <=> BranchDeclaredOK(d)

<1> DEFINE b == d.body
<1>1. /\ b.id \in Entity /\ b.session \in Session /\ b.session \in Entity
      /\ b.parent # None => b.parent \in Entity
  BY DraftBodies DEF BranchBody, Opt, Entity, Subject
<1>2. /\ Alone(r, F, L)!Drafted(d, "BranchDeclared") <=> Drafted(d, "BranchDeclared")
      /\ Alone(r, F, L)!Fresh(b.id) <=> Fresh(b.id)
      /\ Alone(r, F, L)!Found(b.session) <=> Found(b.session)
      /\ Alone(r, F, L)!AcceptsResearch(b.session) <=>
           AcceptsResearch(b.session)
  BY <1>1, SameEntity, SameDrafted, SameAccepts
<1>3. \A x \in Entity : Alone(r, F, L)!InSession(x, b.session) <=>
                           InSession(x, b.session)
  BY SameInSession
<1> QED BY <1>1, <1>2, <1>3 DEF BranchDeclaredOK, Alone!BranchDeclaredOK

LEMMA SameAttemptStarted ==
  ASSUME TypeOK, NEW r, NEW F, NEW L, Mirrors(F, L), NEW d \in Drafts,
         d.type = "AttemptStarted"
  PROVE  Alone(r, F, L)!AttemptStartedOK(d) <=> AttemptStartedOK(d)

<1> DEFINE b == d.body
           e == b.experiment
<1>1. /\ b.id \in Entity /\ e \in Experiment /\ e \in Entity
      /\ b.branch \in Entity
  BY DraftBodies DEF AttemptBody, Entity, Subject
<1>2. /\ Alone(r, F, L)!Drafted(d, "AttemptStarted") <=>
           Drafted(d, "AttemptStarted")
      /\ Alone(r, F, L)!Fresh(b.id) <=> Fresh(b.id)
      /\ Alone(r, F, L)!Found(e) <=> Found(e)
  BY <1>1, SameEntity, SameDrafted
<1>3. CASE Found(e)
  <2>1. Find(e) \in ExperimentView
    BY <1>1, <1>3, FoundViews DEF ViewOf
  <2>2. Find(e).session \in Session
    BY <2>1 DEF ExperimentView
  <2>3. /\ Alone(r, F, L)!Find(e).session = Find(e).session
        /\ Alone(r, F, L)!Find(e).branch = Find(e).branch
    BY <1>1, <1>3, SameEntity DEF Alike, Found
  <2>4. /\ Alone(r, F, L)!AcceptsResearch(Find(e).session) <=>
             AcceptsResearch(Find(e).session)
        /\ Alone(r, F, L)!InSession(b.branch, Find(e).session) <=>
             InSession(b.branch, Find(e).session)
    BY <1>1, <2>2, SameAccepts, SameInSession
  <2> QED BY <1>2, <2>3, <2>4 DEF AttemptStartedOK, Alone!AttemptStartedOK
<1>4. CASE ~Found(e)
  BY <1>2, <1>4 DEF AttemptStartedOK, Alone!AttemptStartedOK
<1> QED BY <1>3, <1>4

LEMMA SameAttemptEnded ==
  ASSUME TypeOK, NEW r, NEW F, NEW L, Mirrors(F, L), NEW d \in Drafts,
         d.type \in TerminalType
  PROVE  Alone(r, F, L)!AttemptEndedOK(d) <=> AttemptEndedOK(d)

<1> DEFINE b == d.body
<1>1. /\ b.id \in Attempt /\ b.id \in Entity
      /\ b.failure # None => b.failure \in Failure /\ b.failure \in Entity
  BY DraftBodies DEF AttemptEndBody, Opt, Entity, Subject
<1>2. /\ Alone(r, F, L)!AttemptFound(b.id) <=> AttemptFound(b.id)
      /\ AttemptFound(b.id) =>
           Alone(r, F, L)!AttemptSession(b.id) = AttemptSession(b.id)
  BY <1>1, SameAttempt
<1>3. CASE AttemptFound(b.id)
  <2>1. AttemptSession(b.id) \in Session
    BY <1>1, <1>3, AttemptSessions
  <2>2. Alone(r, F, L)!AcceptsResearch(AttemptSession(b.id)) <=>
          AcceptsResearch(AttemptSession(b.id))
    BY <2>1, SameAccepts
  <2>3. Alone(r, F, L)!AcceptsResearch(Alone(r, F, L)!AttemptSession(b.id))
          <=> AcceptsResearch(AttemptSession(b.id))
    BY <1>2, <1>3, <2>2
  <2>4. Alone(r, F, L)!MayEnd(b) <=> MayEnd(b)
    <3>1. /\ Alone(r, F, L)!Find(b.id) = F[b.id]
          /\ Alike(b.id, Find(b.id), F[b.id])
      BY <1>1, SameEntity
    <3> QED BY <1>1, <1>3, <3>1
            DEF MayEnd, Alone!MayEnd, Alike, AttemptFound, Found
  <2>5. ASSUME b.failure # None
        PROVE  /\ Alone(r, F, L)!Found(b.failure) <=> Found(b.failure)
               /\ Found(b.failure) =>
                    Alone(r, F, L)!Find(b.failure).scope
                      = Find(b.failure).scope
    BY <1>1, <2>5, SameEntity DEF Alike, Found
  <2> QED BY <1>2, <2>3, <2>4, <2>5, SameTables
          DEF AttemptEndedOK, Alone!AttemptEndedOK
<1>4. CASE ~AttemptFound(b.id)
  BY <1>2, <1>4 DEF AttemptEndedOK, Alone!AttemptEndedOK
<1> QED BY <1>3, <1>4

LEMMA SameModelCallRecorded ==
  ASSUME TypeOK, NEW r, NEW F, NEW L, Mirrors(F, L), NEW d \in Drafts,
         d.type = "ModelCallRecorded"
  PROVE  Alone(r, F, L)!ModelCallRecordedOK(d) <=> ModelCallRecordedOK(d)

<1> DEFINE b == d.body
<1>1. /\ b.id \in Entity /\ b.attempt \in Attempt
      /\ \A p \in b.parents : p \in Entity
  BY DraftBodies DEF ModelCallBody, Entity, Subject
<1>2. /\ Alone(r, F, L)!Drafted(d, "ModelCallRecorded") <=>
           Drafted(d, "ModelCallRecorded")
      /\ Alone(r, F, L)!Fresh(b.id) <=> Fresh(b.id)
      /\ Alone(r, F, L)!AttemptTakesActivity(b.attempt) <=>
           AttemptTakesActivity(b.attempt)
  BY <1>1, SameEntity, SameDrafted, SameActivity
<1>3. ASSUME AttemptTakesActivity(b.attempt)
      PROVE  \A p \in b.parents :
               Alone(r, F, L)!InSession(
                 p, Alone(r, F, L)!AttemptSession(b.attempt)) <=>
                 InSession(p, AttemptSession(b.attempt))
  <2>1. Alone(r, F, L)!AttemptSession(b.attempt) = AttemptSession(b.attempt)
    BY <1>1, <1>3, SameAttempt DEF AttemptTakesActivity
  <2>2. \A p \in b.parents :
          Alone(r, F, L)!InSession(p, AttemptSession(b.attempt)) <=>
            InSession(p, AttemptSession(b.attempt))
    BY <1>1, SameInSession
  <2> QED BY <2>1, <2>2
<1> QED BY <1>2, <1>3 DEF ModelCallRecordedOK, Alone!ModelCallRecordedOK

LEMMA SameToolCallRecorded ==
  ASSUME TypeOK, NEW r, NEW F, NEW L, Mirrors(F, L), NEW d \in Drafts,
         d.type = "ToolCallRecorded"
  PROVE  Alone(r, F, L)!ToolCallRecordedOK(d) <=> ToolCallRecordedOK(d)

<1>1. d.body.id \in Entity /\ d.body.attempt \in Attempt
  BY DraftBodies DEF ToolCallBody, Entity, Subject
<1> QED BY <1>1, SameEntity, SameDrafted, SameActivity
        DEF ToolCallRecordedOK, Alone!ToolCallRecordedOK

LEMMA SameObservationRecorded ==
  ASSUME TypeOK, NEW r, NEW F, NEW L, Mirrors(F, L), NEW d \in Drafts,
         d.type = "ObservationRecorded"
  PROVE  Alone(r, F, L)!ObservationRecordedOK(d) <=> ObservationRecordedOK(d)

<1> DEFINE b == d.body
<1>1. /\ b.id \in Entity /\ b.attempt \in Attempt
      /\ b.metric # None => b.metric \in Metric /\ b.metric \in Entity
  BY DraftBodies DEF ObservationBody, Opt, Entity, Subject
<1>2. /\ Alone(r, F, L)!Drafted(d, "ObservationRecorded") <=>
           Drafted(d, "ObservationRecorded")
      /\ Alone(r, F, L)!Fresh(b.id) <=> Fresh(b.id)
      /\ Alone(r, F, L)!AttemptTakesActivity(b.attempt) <=>
           AttemptTakesActivity(b.attempt)
  BY <1>1, SameEntity, SameDrafted, SameActivity
<1>3. ASSUME AttemptTakesActivity(b.attempt), b.metric # None
      PROVE  /\ Alone(r, F, L)!InSession(
                  b.metric, Alone(r, F, L)!AttemptSession(b.attempt)) <=>
                  InSession(b.metric, AttemptSession(b.attempt))
             /\ InSession(b.metric, AttemptSession(b.attempt)) =>
                  Alone(r, F, L)!Find(b.metric).value_kind
                    = Find(b.metric).value_kind
  <2>1. Alone(r, F, L)!AttemptSession(b.attempt) = AttemptSession(b.attempt)
    BY <1>1, <1>3, SameAttempt DEF AttemptTakesActivity
  <2>2. Alone(r, F, L)!InSession(b.metric, AttemptSession(b.attempt)) <=>
          InSession(b.metric, AttemptSession(b.attempt))
    BY <1>1, <1>3, SameInSession
  <2>3. /\ Alone(r, F, L)!Find(b.metric) = F[b.metric]
        /\ Alike(b.metric, Find(b.metric), F[b.metric])
    BY <1>1, <1>3, SameEntity
  <2>4. Found(b.metric) => Alone(r, F, L)!Find(b.metric).value_kind
                             = Find(b.metric).value_kind
    BY <1>1, <1>3, <2>3 DEF Alike, Found
  <2> QED BY <2>1, <2>2, <2>4 DEF InSession
<1> QED BY <1>2, <1>3 DEF ObservationRecordedOK, Alone!ObservationRecordedOK

LEMMA SameArtifactReferenced ==
  ASSUME TypeOK, NEW r, NEW F, NEW L, Mirrors(F, L), NEW d \in Drafts,
         d.type = "ArtifactReferenced"
  PROVE  Alone(r, F, L)!ArtifactReferencedOK(d) <=> ArtifactReferencedOK(d)

<1> DEFINE b == d.body
<1>1. /\ b.id \in Artifact /\ b.id \in Entity /\ b.session \in Session
      /\ b.session \in Entity /\ b.producer \in Subject
      /\ \A p \in b.parents : p \in Entity
  BY DraftBodies DEF ArtifactBody, Producer, Entity, Subject
<1>2. /\ Alone(r, F, L)!Drafted(d, "ArtifactReferenced") <=>
           Drafted(d, "ArtifactReferenced")
      /\ Alone(r, F, L)!Found(b.id) <=> Found(b.id)
      /\ Alone(r, F, L)!Found(b.session) <=> Found(b.session)
      /\ Alone(r, F, L)!AcceptsResearch(b.session) <=>
           AcceptsResearch(b.session)
      /\ Alone(r, F, L)!Locate(b.producer) = Locate(b.producer)
  BY <1>1, SameEntity, SameDrafted, SameAccepts, SamePlaced
<1>3. Found(b.id) => Alone(r, F, L)!Find(b.id).generation
                       = Find(b.id).generation
  BY <1>1, SameEntity DEF Alike, Found
<1>4. \A p \in b.parents : Alone(r, F, L)!InSession(p, b.session) <=>
                              InSession(p, b.session)
  BY <1>1, SameInSession
<1> QED BY <1>2, <1>3, <1>4
        DEF ArtifactReferencedOK, Alone!ArtifactReferencedOK

LEMMA SameArtifactInvalidated ==
  ASSUME TypeOK, NEW r, NEW F, NEW L, Mirrors(F, L), NEW d \in Drafts,
         d.type = "ArtifactInvalidated"
  PROVE  Alone(r, F, L)!ArtifactInvalidatedOK(d) <=> ArtifactInvalidatedOK(d)

<1> DEFINE b == d.body
<1>1. /\ b.id \in Artifact /\ b.id \in Entity
      /\ b.failure # None => b.failure \in Entity
      /\ b.decision \in Opt(Decision)
  BY DraftBodies DEF ArtifactInvalidationBody, Opt, Entity, Subject
<1>2. /\ Alone(r, F, L)!Drafted(d, "ArtifactInvalidated") <=>
           Drafted(d, "ArtifactInvalidated")
      /\ Alone(r, F, L)!Found(b.id) <=> Found(b.id)
      /\ b.failure # None =>
           (Alone(r, F, L)!Found(b.failure) <=> Found(b.failure))
      /\ Alone(r, F, L)!CitedDecisionOK(b.decision, b.id) <=>
           CitedDecisionOK(b.decision, b.id)
  BY <1>1, SameEntity, SameDrafted, SameCited
<1>3. CASE Found(b.id)
  <2>1. Find(b.id) \in ArtifactView
    BY <1>1, <1>3, FoundViews DEF ViewOf
  <2>2. Find(b.id).session \in Session
    BY <2>1 DEF ArtifactView
  <2>3. /\ Alone(r, F, L)!Find(b.id).session = Find(b.id).session
        /\ Alone(r, F, L)!Find(b.id).generation = Find(b.id).generation
        /\ Alone(r, F, L)!Find(b.id).validation = Find(b.id).validation
    BY <1>1, <1>3, SameEntity DEF Alike, Found
  <2>4. Alone(r, F, L)!AcceptsResearch(Find(b.id).session) <=>
          AcceptsResearch(Find(b.id).session)
    BY <2>2, SameAccepts
  <2> QED BY <1>2, <2>3, <2>4
          DEF ArtifactInvalidatedOK, Alone!ArtifactInvalidatedOK
<1>4. CASE ~Found(b.id)
  BY <1>2, <1>4 DEF ArtifactInvalidatedOK, Alone!ArtifactInvalidatedOK
<1> QED BY <1>3, <1>4

LEMMA SameMetricDeclared ==
  ASSUME TypeOK, NEW r, NEW F, NEW L, Mirrors(F, L), NEW d \in Drafts,
         d.type = "MetricDeclared"
  PROVE  Alone(r, F, L)!MetricDeclaredOK(d) <=> MetricDeclaredOK(d)

<1> DEFINE b == d.body
<1>1. /\ b.id \in Entity /\ b.session \in Session /\ b.session \in Entity
  BY DraftBodies DEF MetricBody, Entity, Subject
<1>2. /\ Alone(r, F, L)!Drafted(d, "MetricDeclared") <=> Drafted(d, "MetricDeclared")
      /\ Alone(r, F, L)!Fresh(b.id) <=> Fresh(b.id)
      /\ Alone(r, F, L)!Found(b.session) <=> Found(b.session)
      /\ Alone(r, F, L)!AcceptsResearch(b.session) <=>
           AcceptsResearch(b.session)
  BY <1>1, SameEntity, SameDrafted, SameAccepts
<1>3. ASSUME NEW m \in Metric
      PROVE  /\ Alone(r, F, L)!Found(m) <=> Found(m)
             /\ Found(m) =>
                  /\ Alone(r, F, L)!Find(m).session = Find(m).session
                  /\ Alone(r, F, L)!Find(m).key = Find(m).key
  <2>1. m \in Entity
    BY DEF Entity
  <2> QED BY <2>1, SameEntity DEF Alike, Found
<1> QED BY <1>2, <1>3 DEF MetricDeclaredOK, Alone!MetricDeclaredOK

LEMMA SameFailureRecorded ==
  ASSUME TypeOK, NEW r, NEW F, NEW L, Mirrors(F, L), NEW d \in Drafts,
         d.type = "FailureRecorded"
  PROVE  Alone(r, F, L)!FailureRecordedOK(d) <=> FailureRecordedOK(d)

<1> DEFINE b == d.body
<1>1. /\ b.id \in Entity /\ b.scope \in Subject
      /\ b.predecessor # None => b.predecessor \in Entity
      /\ b.recovery # None => b.recovery \in Entity
  BY DraftBodies DEF FailureBody, Opt, Entity, Subject
<1>2. /\ Alone(r, F, L)!Drafted(d, "FailureRecorded") <=>
           Drafted(d, "FailureRecorded")
      /\ Alone(r, F, L)!Fresh(b.id) <=> Fresh(b.id)
      /\ Alone(r, F, L)!Locate(b.scope) = Locate(b.scope)
      /\ b.predecessor # None =>
           (Alone(r, F, L)!Found(b.predecessor) <=> Found(b.predecessor))
      /\ b.recovery # None =>
           (Alone(r, F, L)!InSession(b.recovery, Locate(b.scope)) <=>
              InSession(b.recovery, Locate(b.scope)))
  BY <1>1, SameEntity, SameDrafted, SamePlaced, SameInSession
<1>3. Locate(b.scope) # None =>
        (Alone(r, F, L)!AcceptsResearch(Locate(b.scope)) <=>
           AcceptsResearch(Locate(b.scope)))
  BY <1>1, LocatedSession, SameAccepts
<1> QED BY <1>2, <1>3 DEF FailureRecordedOK, Alone!FailureRecordedOK

LEMMA SameResultDeclared ==
  ASSUME TypeOK, NEW r, NEW F, NEW L, Mirrors(F, L), NEW d \in Drafts,
         d.type = "ResultDeclared"
  PROVE  Alone(r, F, L)!ResultDeclaredOK(d) <=> ResultDeclaredOK(d)

<1> DEFINE b == d.body
<1>1. /\ b.id \in Entity /\ b.session \in Session /\ b.session \in Entity
      /\ \A x \in b.support : x \in Entity
  BY DraftBodies DEF ResultBody, Support, Entity, Subject
<1>2. /\ Alone(r, F, L)!Drafted(d, "ResultDeclared") <=> Drafted(d, "ResultDeclared")
      /\ Alone(r, F, L)!Fresh(b.id) <=> Fresh(b.id)
      /\ Alone(r, F, L)!Found(b.session) <=> Found(b.session)
      /\ Alone(r, F, L)!AcceptsResearch(b.session) <=>
           AcceptsResearch(b.session)
  BY <1>1, SameEntity, SameDrafted, SameAccepts
<1>3. \A x \in b.support : Alone(r, F, L)!InSession(x, b.session) <=>
                              InSession(x, b.session)
  BY <1>1, SameInSession
<1> QED BY <1>2, <1>3 DEF ResultDeclaredOK, Alone!ResultDeclaredOK

LEMMA SameResultStatusChanged ==
  ASSUME TypeOK, NEW r, NEW F, NEW L, Mirrors(F, L), NEW d \in Drafts,
         d.type = "ResultStatusChanged"
  PROVE  Alone(r, F, L)!ResultStatusChangedOK(d) <=> ResultStatusChangedOK(d)

<1> DEFINE b == d.body
<1>1. /\ b.id \in Result /\ b.id \in Entity
      /\ b.decision \in Decision /\ b.decision \in Entity
  BY DraftBodies DEF ResultChangeBody, Entity, Subject
<1>2. /\ Alone(r, F, L)!Drafted(d, "ResultStatusChanged") <=>
           Drafted(d, "ResultStatusChanged")
      /\ Alone(r, F, L)!Found(b.id) <=> Found(b.id)
      /\ Alone(r, F, L)!Found(b.decision) <=> Found(b.decision)
  BY <1>1, SameEntity, SameDrafted
<1>3. ASSUME Found(b.id)
      PROVE  /\ Alone(r, F, L)!NextRevision(b) <=> NextRevision(b)
             /\ Alone(r, F, L)!AcceptsResearch(
                  Alone(r, F, L)!Find(b.id).session) <=>
                  AcceptsResearch(Find(b.id).session)
  <2>1. Find(b.id) \in ResultView
    BY <1>1, <1>3, FoundViews DEF ViewOf
  <2>2. Find(b.id).session \in Session
    BY <2>1 DEF ResultView
  <2>3. Alone(r, F, L)!Find(b.id).session = Find(b.id).session
    BY <1>1, <1>3, SameEntity DEF Alike, Found
  <2>4. Alone(r, F, L)!AcceptsResearch(Find(b.id).session) <=>
          AcceptsResearch(Find(b.id).session)
    BY <2>2, SameAccepts
  <2>5. Alone(r, F, L)!NextRevision(b) <=> NextRevision(b)
    BY <1>1, <1>3, SameRevision
  <2> QED BY <2>3, <2>4, <2>5
<1>4. ASSUME Found(b.decision)
      PROVE  Alone(r, F, L)!Authorizes(Alone(r, F, L)!Find(b.decision),
                                       b.id, b.to)
               <=> Authorizes(Find(b.decision), b.id, b.to)
  <2> DEFINE c == b.decision
             v == Alone(r, F, L)!Find(c)
             w == Find(c)
  <2>1. /\ v.subject = w.subject /\ v.decision_type = w.decision_type
        /\ v.outcome = w.outcome
    BY <1>1, <1>4, SameEntity DEF Alike, Found
  <2> HIDE DEF v, w
  <2>2. Alone(r, F, L)!Authorizes(v, b.id, b.to) <=>
          Authorizes(w, b.id, b.to)
    BY <2>1, SameTables DEF Authorizes, Alone!Authorizes
  <2> QED BY <2>2 DEF v, w
<1> QED BY <1>2, <1>3, <1>4, SameTables
        DEF ResultStatusChangedOK, Alone!ResultStatusChangedOK

LEMMA SameAccountingRecorded ==
  ASSUME TypeOK, NEW r, NEW F, NEW L, Mirrors(F, L), NEW d \in Drafts,
         d.type = "AccountingRecorded"
  PROVE  Alone(r, F, L)!AccountingRecordedOK(d) <=> AccountingRecordedOK(d)

<1>1. d.body.id \in Subject
  BY DraftBodies DEF AccountingBody
<1>2. /\ Alone(r, F, L)!Drafted(d, "AccountingRecorded") <=>
           Drafted(d, "AccountingRecorded")
      /\ Alone(r, F, L)!Locate(d.body.id) = Locate(d.body.id)
  BY <1>1, SameDrafted, SamePlaced
<1>3. Locate(d.body.id) # None =>
        (Alone(r, F, L)!AcceptsResearch(Locate(d.body.id)) <=>
           AcceptsResearch(Locate(d.body.id)))
  BY <1>1, LocatedSession, SameAccepts
<1> QED BY <1>2, <1>3 DEF AccountingRecordedOK, Alone!AccountingRecordedOK

LEMMA SameDecision ==
  ASSUME TypeOK, NEW r, NEW F, NEW L, Mirrors(F, L), NEW d \in Drafts,
         d.type = "DecisionRecorded"
  PROVE  LET cites == \A e \in d.body.evidence : EvidenceOK(e, d.body.session)
             citesAlone == \A e \in d.body.evidence :
                             Alone(r, F, L)!EvidenceOK(e, d.body.session) IN
         /\ DecisionRecordedOK(d) /\ (cites => citesAlone) =>
              Alone(r, F, L)!DecisionRecordedOK(d)
         /\ Alone(r, F, L)!DecisionRecordedOK(d) /\ (citesAlone => cites) =>
              DecisionRecordedOK(d)
<1> DEFINE b == d.body
<1>1. /\ b.id \in Entity /\ b.session \in Session /\ b.session \in Entity
      /\ b.subject \in Subject
  BY DraftBodies DEF DecisionBody, Entity, Subject
<1>2. /\ Alone(r, F, L)!Drafted(d, "DecisionRecorded") <=> Drafted(d, "DecisionRecorded")
      /\ Alone(r, F, L)!Fresh(b.id) <=> Fresh(b.id)
      /\ Alone(r, F, L)!Found(b.session) <=> Found(b.session)
      /\ Alone(r, F, L)!AcceptsResearch(b.session) <=>
           AcceptsResearch(b.session)
  BY <1>1, SameEntity, SameDrafted, SameAccepts
<1>3. Alone(r, F, L)!Locate(b.subject) = Locate(b.subject)
  BY <1>1, SamePlaced
<1> QED BY <1>2, <1>3, SameTables
        DEF DecisionRecordedOK, Alone!DecisionRecordedOK

LEMMA AloneGuardTypes ==
  ASSUME NEW r, NEW F, NEW L, NEW d
  PROVE  /\ Alone(r, F, L)!SessionOpenedOK(d) => d.type = "SessionOpened"
         /\ Alone(r, F, L)!SessionClosedOK(d) => d.type = "SessionClosed"
         /\ Alone(r, F, L)!SessionAnnotationOK(d) => d.type = "SessionAnnotation"
         /\ Alone(r, F, L)!HypothesisDeclaredOK(d) => d.type = "HypothesisDeclared"
         /\ Alone(r, F, L)!HypothesisStatusChangedOK(d) => d.type = "HypothesisStatusChanged"
         /\ Alone(r, F, L)!ExperimentDeclaredOK(d) => d.type = "ExperimentDeclared"
         /\ Alone(r, F, L)!BranchDeclaredOK(d) => d.type = "BranchDeclared"
         /\ Alone(r, F, L)!AttemptStartedOK(d) => d.type = "AttemptStarted"
         /\ Alone(r, F, L)!AttemptEndedOK(d) => d.type \in TerminalType
         /\ Alone(r, F, L)!ModelCallRecordedOK(d) => d.type = "ModelCallRecorded"
         /\ Alone(r, F, L)!ToolCallRecordedOK(d) => d.type = "ToolCallRecorded"
         /\ Alone(r, F, L)!ArtifactReferencedOK(d) => d.type = "ArtifactReferenced"
         /\ Alone(r, F, L)!ArtifactInvalidatedOK(d) => d.type = "ArtifactInvalidated"
         /\ Alone(r, F, L)!MetricDeclaredOK(d) => d.type = "MetricDeclared"
         /\ Alone(r, F, L)!ObservationRecordedOK(d) => d.type = "ObservationRecorded"
         /\ Alone(r, F, L)!FailureRecordedOK(d) => d.type = "FailureRecorded"
         /\ Alone(r, F, L)!DecisionRecordedOK(d) => d.type = "DecisionRecorded"
         /\ Alone(r, F, L)!ResultDeclaredOK(d) => d.type = "ResultDeclared"
         /\ Alone(r, F, L)!ResultStatusChangedOK(d) => d.type = "ResultStatusChanged"
         /\ Alone(r, F, L)!AccountingRecordedOK(d) => d.type = "AccountingRecorded"
BY SameTables DEF Alone!SessionOpenedOK, Alone!SessionClosedOK,
   Alone!SessionAnnotationOK, Alone!HypothesisDeclaredOK,
   Alone!HypothesisStatusChangedOK, Alone!ExperimentDeclaredOK,
   Alone!BranchDeclaredOK, Alone!AttemptStartedOK, Alone!AttemptEndedOK,
   Alone!ModelCallRecordedOK, Alone!ToolCallRecordedOK,
   Alone!ArtifactReferencedOK, Alone!ArtifactInvalidatedOK,
   Alone!MetricDeclaredOK, Alone!ObservationRecordedOK,
   Alone!FailureRecordedOK, Alone!DecisionRecordedOK,
   Alone!ResultDeclaredOK, Alone!ResultStatusChangedOK,
   Alone!AccountingRecordedOK, Alone!Drafted

(* What a decision cites is there for both, or the draft is no decision. *)
CitesHere(d) ==
  d.type = "DecisionRecorded" =>
    \A e \in d.body.evidence : EvidenceOK(e, d.body.session)

CitesAlone(r, F, L, d) ==
  d.type = "DecisionRecorded" =>
    \A e \in d.body.evidence : Alone(r, F, L)!EvidenceOK(e, d.body.session)

LEMMA ValidatesAlone ==
  ASSUME TypeOK, NEW r, NEW F, NEW L, Mirrors(F, L), NEW d \in Drafts,
         Validates(d), CitesHere(d) => CitesAlone(r, F, L, d)
  PROVE  Alone(r, F, L)!Validates(d)
<1>1. CASE SessionOpenedOK(d)
  BY <1>1, GuardTypes, SameSessionOpened DEF Alone!Validates
<1>2. CASE SessionClosedOK(d)
  BY <1>2, GuardTypes, SameSessionClosed DEF Alone!Validates
<1>3. CASE SessionAnnotationOK(d)
  BY <1>3, GuardTypes, SameSessionAnnotation DEF Alone!Validates
<1>4. CASE HypothesisDeclaredOK(d)
  BY <1>4, GuardTypes, SameHypothesisDeclared DEF Alone!Validates
<1>5. CASE HypothesisStatusChangedOK(d)
  BY <1>5, GuardTypes, SameHypothesisStatusChanged DEF Alone!Validates
<1>6. CASE ExperimentDeclaredOK(d)
  BY <1>6, GuardTypes, SameExperimentDeclared DEF Alone!Validates
<1>7. CASE BranchDeclaredOK(d)
  BY <1>7, GuardTypes, SameBranchDeclared DEF Alone!Validates
<1>8. CASE AttemptStartedOK(d)
  BY <1>8, GuardTypes, SameAttemptStarted DEF Alone!Validates
<1>9. CASE AttemptEndedOK(d)
  BY <1>9, GuardTypes, SameAttemptEnded DEF Alone!Validates
<1>10. CASE ModelCallRecordedOK(d)
  BY <1>10, GuardTypes, SameModelCallRecorded DEF Alone!Validates
<1>11. CASE ToolCallRecordedOK(d)
  BY <1>11, GuardTypes, SameToolCallRecorded DEF Alone!Validates
<1>12. CASE ArtifactReferencedOK(d)
  BY <1>12, GuardTypes, SameArtifactReferenced DEF Alone!Validates
<1>13. CASE ArtifactInvalidatedOK(d)
  BY <1>13, GuardTypes, SameArtifactInvalidated DEF Alone!Validates
<1>14. CASE MetricDeclaredOK(d)
  BY <1>14, GuardTypes, SameMetricDeclared DEF Alone!Validates
<1>15. CASE ObservationRecordedOK(d)
  BY <1>15, GuardTypes, SameObservationRecorded DEF Alone!Validates
<1>16. CASE FailureRecordedOK(d)
  BY <1>16, GuardTypes, SameFailureRecorded DEF Alone!Validates
<1>17. CASE DecisionRecordedOK(d)
  <2>1. d.type = "DecisionRecorded"
    BY <1>17, GuardTypes
  <2> QED BY <1>17, <2>1, SameDecision
          DEF Alone!Validates, CitesHere, CitesAlone
<1>18. CASE ResultDeclaredOK(d)
  BY <1>18, GuardTypes, SameResultDeclared DEF Alone!Validates
<1>19. CASE ResultStatusChangedOK(d)
  BY <1>19, GuardTypes, SameResultStatusChanged DEF Alone!Validates
<1>20. CASE AccountingRecordedOK(d)
  BY <1>20, GuardTypes, SameAccountingRecorded DEF Alone!Validates
<1> QED BY <1>1, <1>2, <1>3, <1>4, <1>5, <1>6, <1>7, <1>8, <1>9, <1>10,
        <1>11, <1>12, <1>13, <1>14, <1>15, <1>16, <1>17, <1>18, <1>19,
        <1>20 DEF Validates

LEMMA ValidatesHere ==
  ASSUME TypeOK, NEW r, NEW F, NEW L, Mirrors(F, L), NEW d \in Drafts,
         Alone(r, F, L)!Validates(d), CitesAlone(r, F, L, d) => CitesHere(d)
  PROVE  Validates(d)
<1>1. CASE Alone(r, F, L)!SessionOpenedOK(d)
  BY <1>1, AloneGuardTypes, SameSessionOpened DEF Validates
<1>2. CASE Alone(r, F, L)!SessionClosedOK(d)
  BY <1>2, AloneGuardTypes, SameSessionClosed DEF Validates
<1>3. CASE Alone(r, F, L)!SessionAnnotationOK(d)
  BY <1>3, AloneGuardTypes, SameSessionAnnotation DEF Validates
<1>4. CASE Alone(r, F, L)!HypothesisDeclaredOK(d)
  BY <1>4, AloneGuardTypes, SameHypothesisDeclared DEF Validates
<1>5. CASE Alone(r, F, L)!HypothesisStatusChangedOK(d)
  BY <1>5, AloneGuardTypes, SameHypothesisStatusChanged DEF Validates
<1>6. CASE Alone(r, F, L)!ExperimentDeclaredOK(d)
  BY <1>6, AloneGuardTypes, SameExperimentDeclared DEF Validates
<1>7. CASE Alone(r, F, L)!BranchDeclaredOK(d)
  BY <1>7, AloneGuardTypes, SameBranchDeclared DEF Validates
<1>8. CASE Alone(r, F, L)!AttemptStartedOK(d)
  BY <1>8, AloneGuardTypes, SameAttemptStarted DEF Validates
<1>9. CASE Alone(r, F, L)!AttemptEndedOK(d)
  BY <1>9, AloneGuardTypes, SameAttemptEnded DEF Validates
<1>10. CASE Alone(r, F, L)!ModelCallRecordedOK(d)
  BY <1>10, AloneGuardTypes, SameModelCallRecorded DEF Validates
<1>11. CASE Alone(r, F, L)!ToolCallRecordedOK(d)
  BY <1>11, AloneGuardTypes, SameToolCallRecorded DEF Validates
<1>12. CASE Alone(r, F, L)!ArtifactReferencedOK(d)
  BY <1>12, AloneGuardTypes, SameArtifactReferenced DEF Validates
<1>13. CASE Alone(r, F, L)!ArtifactInvalidatedOK(d)
  BY <1>13, AloneGuardTypes, SameArtifactInvalidated DEF Validates
<1>14. CASE Alone(r, F, L)!MetricDeclaredOK(d)
  BY <1>14, AloneGuardTypes, SameMetricDeclared DEF Validates
<1>15. CASE Alone(r, F, L)!ObservationRecordedOK(d)
  BY <1>15, AloneGuardTypes, SameObservationRecorded DEF Validates
<1>16. CASE Alone(r, F, L)!FailureRecordedOK(d)
  BY <1>16, AloneGuardTypes, SameFailureRecorded DEF Validates
<1>17. CASE Alone(r, F, L)!DecisionRecordedOK(d)
  <2>1. d.type = "DecisionRecorded"
    BY <1>17, AloneGuardTypes
  <2> QED BY <1>17, <2>1, SameDecision
          DEF Validates, CitesHere, CitesAlone
<1>18. CASE Alone(r, F, L)!ResultDeclaredOK(d)
  BY <1>18, AloneGuardTypes, SameResultDeclared DEF Validates
<1>19. CASE Alone(r, F, L)!ResultStatusChangedOK(d)
  BY <1>19, AloneGuardTypes, SameResultStatusChanged DEF Validates
<1>20. CASE Alone(r, F, L)!AccountingRecordedOK(d)
  BY <1>20, AloneGuardTypes, SameAccountingRecorded DEF Validates
<1> QED BY <1>1, <1>2, <1>3, <1>4, <1>5, <1>6, <1>7, <1>8, <1>9, <1>10,
        <1>11, <1>12, <1>13, <1>14, <1>15, <1>16, <1>17, <1>18, <1>19,
        <1>20 DEF Alone!Validates

LEMMA SameSessionOf ==
  ASSUME TypeOK, NEW r, NEW F, NEW L, Mirrors(F, L), NEW d \in Drafts,
         Validates(d)
  PROVE  Alone(r, F, L)!SessionOf(d) = SessionOf(d)
<1> DEFINE b == d.body
<1>1. CASE d.type \in { "SessionOpened", "SessionClosed",
                        "SessionAnnotation" }
  BY <1>1 DEF SessionOf, Alone!SessionOf
<1>2. CASE d.type \in { "HypothesisStatusChanged", "ArtifactInvalidated",
                        "ResultStatusChanged" }
  <2>1. b.id \in Hypothesis \cup Artifact \cup Result
    BY <1>2, BodyKinds
  <2>2. b.id \in Entity /\ b.id \notin Attempt \cup ModelCall \cup ToolCall
    BY <2>1, IdentityDomains DEF Entity, Subject
  <2>3. Alone(r, F, L)!Find(b.id).session = Find(b.id).session
    BY <2>2, SameSession, AloneFinds
  <2> QED BY <1>2, <2>3 DEF SessionOf, Alone!SessionOf
<1>3. CASE d.type = "AttemptStarted"
  <2>1. b.experiment \in Experiment
    BY <1>3, DraftBodies DEF AttemptBody
  <2>2. /\ b.experiment \in Entity
        /\ b.experiment \notin Attempt \cup ModelCall \cup ToolCall
    BY <2>1, IdentityDomains DEF Entity, Subject
  <2>3. Alone(r, F, L)!Find(b.experiment).session = Find(b.experiment).session
    BY <2>2, SameSession, AloneFinds
  <2> QED BY <1>3, <2>3 DEF SessionOf, Alone!SessionOf
<1>4. CASE d.type \in TerminalType
  <2>1. AttemptFound(b.id) /\ b.id \in Attempt
    BY <1>4, ValidatedAs, BodyKinds DEF AttemptEndedOK
  <2>2. Alone(r, F, L)!AttemptSession(b.id) = AttemptSession(b.id)
    BY <2>1, SameAttempt
  <2> QED BY <1>4, <2>2, SameTables
          DEF SessionOf, Alone!SessionOf, TerminalType, TerminalState
<1>5. CASE d.type \in ActivityType
  <2>1. b.attempt \in Attempt
    BY <1>5, DraftBodies
       DEF ActivityType, ModelCallBody, ToolCallBody, ObservationBody
  <2>2. AttemptFound(b.attempt)
    BY <1>5, ValidatedAs DEF ActivityType, ModelCallRecordedOK,
       ToolCallRecordedOK, ObservationRecordedOK, AttemptTakesActivity
  <2>3. Alone(r, F, L)!AttemptSession(b.attempt) = AttemptSession(b.attempt)
    BY <2>1, <2>2, SameAttempt
  <2> QED BY <1>5, <2>3, SameTables
          DEF SessionOf, Alone!SessionOf, ActivityType, TerminalType,
          TerminalState
<1>6. CASE d.type = "FailureRecorded"
  <2>1. b.scope \in Subject
    BY <1>6, DraftBodies DEF FailureBody
  <2>2. Alone(r, F, L)!Locate(b.scope) = Locate(b.scope)
    BY <2>1, SamePlaced
  <2> QED BY <1>6, <2>2, SameTables
          DEF SessionOf, Alone!SessionOf, TerminalType, TerminalState
<1>7. CASE d.type = "AccountingRecorded"
  <2>1. b.id \in Subject
    BY <1>7, DraftBodies DEF AccountingBody
  <2>2. Alone(r, F, L)!Locate(b.id) = Locate(b.id)
    BY <2>1, SamePlaced
  <2> QED BY <1>7, <2>2, SameTables
          DEF SessionOf, Alone!SessionOf, TerminalType, TerminalState
<1>8. CASE d.type \in { "HypothesisDeclared", "ExperimentDeclared",
                        "BranchDeclared", "ArtifactReferenced",
                        "MetricDeclared", "DecisionRecorded",
                        "ResultDeclared" }
  BY <1>8, SameTables
     DEF SessionOf, Alone!SessionOf, TerminalType, TerminalState
<1> QED BY <1>1, <1>2, <1>3, <1>4, <1>5, <1>6, <1>7, <1>8, DraftHeader
        DEF RecordType, ActivityType, TerminalType, TerminalState


-----------------------------------------------------------------------------
(* Appending *)

FoundNow == [ x \in Entity |-> Find(x) ]
LocatedNow == [ x \in Subject |-> Locate(x) ]

(* Every subject of the history, and of the batch, can be located. *)
KnownInv ==
  /\ \A i \in 1 .. Len(records) : subject_index[records[i].subject] # None
  /\ \A k \in 1 .. Len(staged) : front[staged[k].subject] # None

SoundInv == \A n \in 1 .. Extended : Sound(Whole, n)

(* A ledger that is not in the middle of a batch keeps nothing of one. *)
IdleInv ==
  phase = "validating" /\ outcomes = << >> =>
    staged = << >> /\ latest = NothingStaged /\ front = NowhereStaged

(* The lists that the first n records of h fill, and the last invalidation  *)
(* of artifact a among them, or 0.                                          *)
ListedIn(h, n, x) ==
  { h[i].draft.body.id : i \in { j \in 1 .. n : x \in OwnersOf(h[j]) } }

Invalidations(h, n, a) ==
  { i \in 1 .. n : TypedAbout(h, i, { "ArtifactInvalidated" }, a) }

IsInvalidation(h, n, a, at) ==
  \/ Invalidations(h, n, a) = {} /\ at = 0
  \/ LastOf(Invalidations(h, n, a), at)

Gathered(h, n, lists, ends) ==
  /\ \A x \in Entity : lists[x] = ListedIn(h, n, x)
  /\ \A a \in Artifact : IsInvalidation(h, n, a, ends[a])

GatheredInv == Gathered(records, Len(records), children, invalidated_at)

RunningInv ==
  LifeInv /\ DepictedInv /\ RecordIdsInv /\ OutcomesInv /\ KnownInv
    /\ SoundInv /\ IdleInv /\ GatheredInv

LEMMA AgreeOnStands ==
  ASSUME NEW n \in Nat, NEW h, NEW g, Agree(g, h, n),
         NEW F, NEW L, Stands(g, n, F, L)
  PROVE  Stands(h, n, F, L)
<1>1. Agree(h, g, n)
  BY DEF Agree
<1>2. ASSUME NEW x \in Entity
      PROVE  Shows(h, n, x, F[x]) /\ Depicts(h, n, x, F[x])
  BY <1>1, AgreeOnShows, AgreeOnDepicts DEF Stands
<1>3. ASSUME NEW x \in Subject, L[x] # None
      PROVE  HasHome(h, n, x, L[x])
  <2>1. HasHome(g, n, x, L[x]) /\ n \in 0 .. n
    BY <1>3 DEF Stands
  <2> QED BY <2>1, AgreeOnPlaces
<1>4. \A i \in 1 .. n : L[h[i].subject] # None
  BY DEF Stands, Agree
<1> QED BY <1>2, <1>3, <1>4 DEF Stands

LEMMA AgreeOnSettled ==
  ASSUME NEW n \in Nat \ { 0 }, NEW h, NEW g, Agree(g, h, n), Settled(h, n)
  PROVE  Settled(g, n)
<1>1. n \in Nat /\ n \in 1 .. n /\ g[n] = h[n]
  BY DEF Agree
<1>2. Formed(g, n)
  BY <1>1 DEF Settled, Formed
<1>3. Follows(g, n)
  BY <1>1, AgreeOnFollows DEF Settled
<1>4. Builds(g, n)
  BY AgreeOnBuilds DEF Settled
<1>5. StaysHome(g, n)
  BY <1>1 DEF Settled, StaysHome, About
<1> QED BY <1>2, <1>3, <1>4, <1>5 DEF Settled

LEMMA AgreeOnSound ==
  ASSUME NEW n \in Nat \ { 0 }, NEW h, NEW g, Agree(g, h, n), Sound(h, n)
  PROVE  Sound(g, n)
<1>1. n \in Nat /\ n - 1 \in Nat /\ n \in 1 .. n /\ g[n] = h[n]
      /\ Agree(g, h, n - 1)
  BY DEF Agree
<1>2. Settled(g, n)
  BY AgreeOnSettled DEF Sound
<1>3. ASSUME NEW r, NEW F, NEW L, Starts(r, g, n - 1), Stands(g, n - 1, F, L)
      PROVE  /\ Alone(r, F, L)!Validates(g[n].draft)
             /\ Alone(r, F, L)!SessionOf(g[n].draft) = g[n].session
  <2>1. Stands(h, n - 1, F, L)
    BY <1>1, <1>3, AgreeOnStands
  <2>2. Starts(r, h, n - 1)
    BY <1>1, <1>3 DEF Starts, Agree
  <2>3. Passes(h, n)
    BY DEF Sound
  <2>4. /\ Alone(r, F, L)!Validates(h[n].draft)
        /\ Alone(r, F, L)!SessionOf(h[n].draft) = h[n].session
    BY <2>1, <2>2, <2>3 DEF Passes
  <2> QED BY <1>1, <2>4
<1>4. Passes(g, n)
  BY <1>3 DEF Passes
<1> QED BY <1>2, <1>4 DEF Sound

LEMMA NowStands ==
  ASSUME TypeOK, LifeInv, DepictedInv, KnownInv
  PROVE  Stands(Whole, Extended, FoundNow, LocatedNow)
<1>1. /\ Len(records) \in Nat /\ Len(staged) \in Nat
      /\ Extended = Len(records) + Len(staged) /\ Len(records) <= Extended
      /\ records \in Seq(Record) /\ staged \in Seq(Entry)
  BY SequencesOfTheStep DEF Extended
<1>2. ASSUME NEW x \in Entity
      PROVE  /\ Shows(Whole, Extended, x, FoundNow[x])
             /\ Depicts(Whole, Extended, x, FoundNow[x])
  BY DEF LifeInv, FoundViewsInv, DepictedInv, FoundNow
<1>3. ASSUME NEW x \in Subject, LocatedNow[x] # None
      PROVE  HasHome(Whole, Extended, x, LocatedNow[x])
  BY <1>1, <1>3 DEF LifeInv, PlacesInv, Locate, HasHome, LocatedNow
<1>4. ASSUME NEW i \in 1 .. Extended
      PROVE  LocatedNow[Whole[i].subject] # None
  <2>1. CASE i <= Len(records)
    <3>1. /\ Whole[i] = records[i] /\ i \in 1 .. Len(records)
          /\ records[i] \in Record
      BY <1>1, <2>1 DEF Whole
    <3>2. records[i].subject \in Subject
      BY <3>1 DEF Record
    <3>3. subject_index[records[i].subject] # None
      BY <3>1 DEF KnownInv
    <3> QED BY <3>1, <3>2, <3>3 DEF LocatedNow, Locate
  <2>2. CASE i > Len(records)
    <3> DEFINE k == i - Len(records)
    <3>1. /\ Whole[i] = StagedRecord(staged[k]) /\ k \in 1 .. Len(staged)
          /\ staged[k] \in Entry
      BY <1>1, <2>2 DEF Whole
    <3>2. Whole[i].subject = staged[k].subject /\ staged[k].subject \in Subject
      BY <3>1 DEF StagedRecord, Entry
    <3>3. front[staged[k].subject] # None
      BY <3>1 DEF KnownInv
    <3> QED BY <3>2, <3>3 DEF LocatedNow, Locate
  <2> QED BY <1>1, <2>1, <2>2
<1> QED BY <1>2, <1>3, <1>4 DEF Stands

LEMMA BehindStands ==
  ASSUME TypeOK, LifeInv, DepictedInv, KnownInv, NEW g,
         Agree(g, Whole, Extended)
  PROVE  Stands(g, Extended, FoundNow, LocatedNow)
<1>1. Agree(Whole, g, Extended) /\ Extended \in Nat
  BY ExtendedIsNat DEF Agree
<1> QED BY <1>1, NowStands, AgreeOnStands

LEMMA StagedStaysHome ==
  ASSUME TypeOK, NEW d \in Drafts, Validates(d), StagesTyped(d),
         NEW g, Behind(d, g), Pictured(g),
         \A i \in 1 .. Extended : g[i].draft \in Drafts
  PROVE  StaysHome(g, Extended + 1)
<1> DEFINE n == Extended + 1
<1>1. g[n].draft = d /\ g[n].session = SessionOf(d)
  BY DEF Behind
<1>2. SUFFICES ASSUME NEW x \in Artifact, About(g, n, x)
               PROVE  \E e \in Drafts :
                        /\ e.type = "ArtifactReferenced"
                        /\ e.body.id = x /\ e.body.session = SessionOf(d)
  BY <1>1 DEF StaysHome
<1>3. d.body.id = x /\ d.type # "AccountingRecorded"
  BY <1>1, <1>2 DEF About
<1>4. d.type \in { "ArtifactReferenced", "ArtifactInvalidated" }
  BY <1>3, MoreTypesOfKinds
<1>5. CASE d.type = "ArtifactReferenced"
  <2>1. SessionOf(d) = d.body.session
    BY <1>5 DEF SessionOf, TerminalType, TerminalState
  <2>2. /\ d \in Drafts /\ d.type = "ArtifactReferenced"
        /\ d.body.id = x /\ d.body.session = SessionOf(d)
    BY <1>3, <1>5, <2>1
  <2> WITNESS d \in Drafts
  <2> QED BY <2>2
<1>6. CASE d.type = "ArtifactInvalidated"
  <2>1. SessionOf(d) = Find(x).session
    BY <1>3, <1>6 DEF SessionOf, TerminalType, TerminalState
  <2>2. Find(x) # None /\ Depicts(g, Extended, x, Find(x))
    BY <1>3, <1>6, FoundIsPictured DEF ChangingType
  <2>3. DepictsArtifact(g, Extended, x, Find(x))
    BY <2>2 DEF Depicts
  <2> DEFINE i == Find(x).recorded_at
  <2>4. /\ i \in 1 .. Extended
        /\ TypedAbout(g, i, { "ArtifactReferenced" }, x)
        /\ Find(x).session = g[i].draft.body.session
    BY <2>3 DEF DepictsArtifact, LastOf, ReferencesUpTo
  <2>5. g[i].draft \in Drafts
    BY <2>4
  <2> QED BY <2>1, <2>4, <2>5 DEF TypedAbout
<1> QED BY <1>4, <1>5, <1>6

(* Evidence is committed, so it is there for a draft validated alone too.   *)
LEMMA StagedCites ==
  ASSUME ArtifactsKeepSession, TypeOK, LifeInv, NEW d \in Drafts, NEW g,
         Agree(g, Whole, Extended), \A i \in 1 .. Extended : Settled(g, i),
         NEW r, NEW F, NEW L, Starts(r, g, Extended),
         Stands(g, Extended, F, L), CitesHere(d)
  PROVE  CitesAlone(r, F, L, d)
<1>1. SUFFICES ASSUME d.type = "DecisionRecorded", NEW e \in d.body.evidence
               PROVE  Alone(r, F, L)!EvidenceOK(e, d.body.session)
  BY DEF CitesAlone
<1> DEFINE x == e.subject
           s == d.body.session
           k == e.sequence
<1>2. x \in Subject /\ s \in Session /\ s # None
  <2>1. d.body \in DecisionBody
    BY <1>1, DraftBodies
  <2>2. e \in EvidenceRef /\ s \in Session
    BY <1>1, <2>1 DEF DecisionBody
  <2> QED BY <2>2, NoneAssumption DEF EvidenceRef, Entity, Subject
<1>3. /\ k \in 1 .. Len(records) /\ records[k].subject = x
      /\ subject_index[x] = s
  BY <1>1 DEF CitesHere, EvidenceOK
<1>4. /\ Len(records) \in Nat /\ Extended \in Nat /\ Len(records) <= Extended
  BY SequencesOfTheStep, ExtendedIsNat DEF Extended
<1>5. k \in 1 .. Extended
  BY <1>3, <1>4
<1>6. r[k].subject = x /\ k \in 1 .. Len(r)
  <2>1. Whole[k] = records[k]
    BY <1>3, <1>5 DEF Whole
  <2> QED BY <1>3, <1>5, <2>1 DEF Starts, Agree
<1>7. HasHome(g, Extended, x, s)
  <2>1. HasHome(Whole, Len(records), x, s)
    BY <1>2, <1>3 DEF LifeInv, PlacesInv
  <2>2. HasHome(Whole, Extended, x, s)
    BY <1>4, <2>1 DEF HasHome
  <2> QED BY <1>4, <2>2, AgreeOnPlaces
<1>8. L[x] # None
  BY <1>2, <1>4, <1>7, KnownSubject
<1>9. HasHome(g, Extended, x, L[x])
  BY <1>2, <1>8 DEF Stands
<1>10. L[x] = s
  BY <1>2, <1>4, <1>7, <1>9, OneSession
<1> QED BY <1>6, <1>10 DEF Alone!EvidenceOK

LEMMA StagedPasses ==
  ASSUME ArtifactsKeepSession, TypeOK, LifeInv, DepictedInv, KnownInv,
         NEW d \in Drafts, Validates(d), NEW g, Behind(d, g),
         Agree(g, Whole, Extended), \A i \in 1 .. Extended : Settled(g, i)
  PROVE  Passes(g, Extended + 1)
<1>1. /\ Extended \in Nat /\ (Extended + 1) - 1 = Extended
      /\ g[Extended + 1].draft = d /\ g[Extended + 1].session = SessionOf(d)
  BY ExtendedIsNat DEF Behind
<1>2. ASSUME NEW r, NEW F, NEW L, Starts(r, g, Extended),
             Stands(g, Extended, F, L)
      PROVE  /\ Alone(r, F, L)!Validates(d)
             /\ Alone(r, F, L)!SessionOf(d) = SessionOf(d)
  <2>1. Stands(g, Extended, FoundNow, LocatedNow)
    BY BehindStands
  <2>2. /\ \A x \in Entity : Alike(x, FoundNow[x], F[x])
        /\ \A x \in Subject : LocatedNow[x] = L[x]
    <3> PICK n : n = Extended
      OBVIOUS
    <3> PICK G : G = FoundNow
      OBVIOUS
    <3> PICK M : M = LocatedNow
      OBVIOUS
    <3>1. n \in Nat /\ AllSettled(g, n)
      BY <1>1 DEF AllSettled
    <3>2. Stands(g, n, F, L) /\ Stands(g, n, G, M)
      BY <1>2, <2>1
    <3>3. /\ \A x \in Entity : Alike(x, G[x], F[x])
          /\ \A x \in Subject : M[x] = L[x]
      BY <3>1, <3>2, IndexesAlike
    <3> QED BY <3>3
  <2>3. Mirrors(F, L)
    BY <2>2 DEF Mirrors, FoundNow, LocatedNow
  <2>4. CitesHere(d) => CitesAlone(r, F, L, d)
    BY <1>2, StagedCites
  <2> QED BY <2>3, <2>4, ValidatesAlone, SameSessionOf
<1> QED BY <1>1, <1>2 DEF Passes

LEMMA StageKeepsSound ==
  ASSUME ArtifactsKeepSession, TypeOK, LifeInv, DepictedInv, KnownInv,
         SoundInv, NEW d \in Drafts, StageNext(d)
  PROVE  SoundInv'
<1> DEFINE id == IF d.record_id = None THEN Sequence ELSE d.record_id
           s == StagedEntity(d, id)
           n == Extended
<1>1. StagesTyped(d) /\ Stage(d) /\ Validates(d)
  BY StageNextKeepsTypes, StagedIsValid
<1>2. s \in Entry
  <2>1. id \in RecordId \cup Nat
    BY DraftHeader, SequenceIsNat DEF Opt
  <2> QED BY <1>1, <2>1, TypedEntry
<1>3. staged' = Append(staged, s) /\ records' = records
  BY <1>1 DEF Stage, committed
<1> PICK g : g = Whole'
  OBVIOUS
<1>4. /\ Behind(d, g) /\ Extended' = n + 1 /\ Agree(g, Whole, n)
      /\ g[n + 1] = StagedRecord(s)
  BY <1>2, <1>3, StagingIsBehind, WholeStaged
<1>5. n \in Nat
  BY ExtendedIsNat
<1> HIDE DEF id, s
<1>6. ASSUME NEW i \in 1 .. n
      PROVE  Sound(g, i)
  <2>1. Sound(Whole, i) /\ i \in Nat \ { 0 }
    BY <1>5, <1>6 DEF SoundInv
  <2>2. Agree(g, Whole, i)
    BY <1>4, <1>5, <1>6 DEF Agree
  <2> QED BY <2>1, <2>2, AgreeOnSound
<1>7. \A i \in 1 .. n : Settled(g, i)
  BY <1>6 DEF Sound
<1>8. Pictured(g)
  BY <1>4, <1>5, AgreeOnDepicts DEF DepictedInv, Pictured
<1>9. Sound(g, n + 1)
  <2>1. Formed(g, n + 1)
    <3>1. /\ g[n + 1].draft = d /\ g[n + 1].subject = PrimarySubject(d)
          /\ g[n + 1].session = s.session /\ g[n + 1].subject = s.subject
      BY <1>4 DEF Behind, StagedRecord
    <3> QED BY <1>2, <3>1 DEF Formed, Entry
  <2>2. Follows(g, n + 1)
    BY <1>1, <1>4, ValidatedFollows
  <2>3. Builds(g, n + 1)
    <3>1. Sequence = n + 1
      BY <1>4, NextPlace
    <3> QED BY <1>1, <1>4, <1>8, <3>1, StagedBuildsOn
  <2>4. StaysHome(g, n + 1)
    BY <1>1, <1>4, <1>7, <1>8, StagedStaysHome DEF Settled, Formed
  <2>5. Passes(g, n + 1)
    BY <1>1, <1>4, <1>7, StagedPasses
  <2> QED BY <2>1, <2>2, <2>3, <2>4, <2>5 DEF Sound, Settled
<1>10. \A i \in 1 .. n + 1 : Sound(g, i)
  BY <1>5, <1>6, <1>9
<1> QED BY <1>4, <1>10 DEF SoundInv

LEMMA SoundStep ==
  ASSUME ArtifactsKeepSession, TypeOK, LifeInv, DepictedInv, KnownInv,
         SoundInv, [Next]_vars
  PROVE  SoundInv'
<1>1. ASSUME NEW d \in Drafts, StageNext(d)
      PROVE  SoundInv'
  BY <1>1, StageKeepsSound
<1>2. ASSUME records' = records, staged' = << >>
      PROVE  SoundInv'
  <2> PICK g : g = Whole'
    OBVIOUS
  <2>1. /\ Extended' = Len(records) /\ Len(records) <= Extended
        /\ Len(records) \in Nat /\ Extended \in Nat
        /\ Agree(g, Whole, Len(records))
    BY <1>2, WholeDropped
  <2>2. ASSUME NEW i \in 1 .. Len(records)
        PROVE  Sound(g, i)
    <3>1. Sound(Whole, i) /\ i \in Nat \ { 0 }
      BY <2>1, <2>2 DEF SoundInv
    <3>2. Agree(g, Whole, i)
      BY <2>1, <2>2 DEF Agree
    <3> QED BY <3>1, <3>2, AgreeOnSound
  <2> QED BY <2>1, <2>2 DEF SoundInv
<1>3. CASE ApplyNext
  <2>1. AppliesOne
    BY <1>3 DEF ApplyNext, Apply, AppliesOne
  <2>2. Extended' = Extended /\ Whole' = Whole
    BY <2>1, WholeApplied
  <2> QED BY <2>2 DEF SoundInv
<1>4. ASSUME UNCHANGED << records, staged >>
      PROVE  SoundInv'
  <2>1. Extended' = Extended /\ Whole' = Whole
    BY <1>4 DEF Whole, Extended
  <2> QED BY <2>1 DEF SoundInv
<1>5. ASSUME NEW d \in Drafts, RecognizeRepeat(d) \/ Reject(d)
      PROVE  SoundInv'
  BY <1>2, <1>4, <1>5 DEF RecognizeRepeat, Reject, DropBatch, committed
<1>6. CASE Commit \/ Finish \/ UNCHANGED vars
  BY <1>2, <1>4, <1>6 DEF Commit, Finish, DropBatch, vars, committed, batch
<1> QED BY <1>1, <1>3, <1>5, <1>6 DEF Next


-----------------------------------------------------------------------------
(* The steps of a running ledger *)

LEMMA KnownStep ==
  ASSUME TypeOK, KnownInv, [Next]_vars
  PROVE  KnownInv'
<1> DEFINE n == Len(records)
           m == Len(staged)
<1>1. /\ n \in Nat /\ m \in Nat
      /\ records \in Seq(Record) /\ staged \in Seq(Entry)
      /\ front \in [ Subject -> Opt(Session) ]
      /\ subject_index \in [ Subject -> Opt(Session) ]
  BY SequencesOfTheStep DEF TypeOK
<1>2. ASSUME NEW d \in Drafts, StageNext(d)
      PROVE  KnownInv'
  <2> DEFINE id == IF d.record_id = None THEN Sequence ELSE d.record_id
             s == StagedEntity(d, id)
  <2>1. StagesTyped(d) /\ Stage(d)
    BY <1>2, StageNextKeepsTypes
  <2>2. s \in Entry
    <3>1. id \in RecordId \cup Nat
      BY DraftHeader, SequenceIsNat DEF Opt
    <3> QED BY <2>1, <3>1, TypedEntry
  <2>3. /\ staged' = Append(staged, s) /\ records' = records
        /\ subject_index' = subject_index
        /\ front' = [ front EXCEPT ![s.subject] =
                        IF @ = None THEN s.session ELSE @ ]
    BY <2>1 DEF Stage, committed
  <2>4. s.subject \in Subject /\ s.session # None
    <3>1. s.subject \in Subject /\ s.session \in Session
      BY <2>2 DEF Entry
    <3> QED BY <3>1, NoneAssumption DEF Entity, Subject
  <2>5. /\ Len(staged') = m + 1 /\ staged'[m + 1] = s
        /\ \A k \in 1 .. m : staged'[k] = staged[k]
    BY <2>2, <2>3, WholeStaged
  <2> HIDE DEF id, s, m
  <2>6. \A x \in Subject : front[x] # None => front'[x] # None
    BY <1>1, <2>3, <2>4
  <2>7. front'[s.subject] # None
    BY <1>1, <2>3, <2>4
  <2>8. ASSUME NEW k \in 1 .. m + 1
        PROVE  front'[staged'[k].subject] # None
    <3>1. CASE k = m + 1
      BY <2>5, <2>7, <3>1
    <3>2. CASE k \in 1 .. m
      <4>1. staged[k] \in Entry
        BY <1>1, <3>2 DEF m
      <4>2. staged[k].subject \in Subject /\ front[staged[k].subject] # None
        BY <3>2, <4>1 DEF KnownInv, Entry, m
      <4> QED BY <2>5, <2>6, <3>2, <4>2
    <3> QED BY <1>1, <2>8, <3>1, <3>2
  <2> QED BY <2>3, <2>5, <2>8 DEF KnownInv
<1>3. CASE ApplyNext
  <2> DEFINE e == Head(staged)
  <2>1. AppliesOne /\ Apply(e) /\ front' = front /\ staged # << >>
    BY <1>3 DEF ApplyNext, Apply, AppliesOne
  <2>2. e = staged[1] /\ e \in Entry
    BY <2>1, SequencesOfTheStep
  <2>3. e.subject \in Subject /\ e.session # None
    <3>1. e.subject \in Subject /\ e.session \in Session
      BY <2>2 DEF Entry
    <3> QED BY <3>1, NoneAssumption DEF Entity, Subject
  <2>4. subject_index' = [ subject_index EXCEPT ![e.subject] = e.session ]
    BY <2>1 DEF Apply
  <2>5. /\ Len(records') = n + 1 /\ records'[n + 1].subject = e.subject
        /\ \A i \in 1 .. n : records'[i] = records[i]
    <3>1. records' = Append(records, StagedRecord(e))
      BY <2>1 DEF Apply, StagedRecord
    <3>2. StagedRecord(e) \in Record
      BY <2>2 DEF Entry, Record, StagedRecord
    <3> QED BY <1>1, <3>1, <3>2, SequencesOfTheStep DEF StagedRecord
  <2>6. /\ m \in Nat \ { 0 } /\ Len(staged') = m - 1
        /\ \A k \in 1 .. m - 1 : staged'[k] = staged[k + 1]
    BY <2>1, WholeApplied
  <2> HIDE DEF e, m, n
  <2>7. ASSUME NEW i \in 1 .. n + 1
        PROVE  subject_index'[records'[i].subject] # None
    <3>1. CASE i = n + 1
      BY <1>1, <2>3, <2>4, <2>5, <3>1
    <3>2. CASE i \in 1 .. n
      <4>1. records[i] \in Record
        BY <1>1, <3>2 DEF n
      <4>2. /\ records[i].subject \in Subject
            /\ subject_index[records[i].subject] # None
        BY <3>2, <4>1 DEF KnownInv, Record, n
      <4> QED BY <1>1, <2>3, <2>4, <2>5, <3>2, <4>2
    <3> QED BY <1>1, <2>7, <3>1, <3>2
  <2>8. ASSUME NEW k \in 1 .. m - 1
        PROVE  front'[staged'[k].subject] # None
    <3>1. k + 1 \in 1 .. m /\ staged'[k] = staged[k + 1]
      BY <1>1, <2>6, <2>8
    <3>2. front[staged[k + 1].subject] # None
      BY <3>1 DEF KnownInv, m
    <3> QED BY <2>1, <3>1, <3>2
  <2> QED BY <2>5, <2>6, <2>7, <2>8 DEF KnownInv
<1>4. ASSUME UNCHANGED << records, subject_index >>,
             staged' = << >> \/ UNCHANGED << staged, front >>
      PROVE  KnownInv'
  BY <1>4 DEF KnownInv
<1>5. ASSUME NEW d \in Drafts, RecognizeRepeat(d) \/ Reject(d)
      PROVE  KnownInv'
  BY <1>4, <1>5 DEF RecognizeRepeat, Reject, DropBatch, committed
<1>6. CASE Commit \/ Finish \/ UNCHANGED vars
  BY <1>4, <1>6 DEF Commit, Finish, DropBatch, vars, committed, batch
<1> QED BY <1>2, <1>3, <1>5, <1>6 DEF Next

LEMMA IdleStep ==
  ASSUME TypeOK, OutcomesInv, IdleInv, [Next]_vars
  PROVE  IdleInv'
<1>1. ASSUME NEW d \in Drafts, StageNext(d)
      PROVE  IdleInv'
  <2>1. Stage(d)
    BY <1>1, StageNextKeepsTypes
  <2> DEFINE o == [ sequence |-> Sequence, state |-> "Validated" ]
  <2>2. o \in Outcome
    BY SequenceIsNat DEF Outcome
  <2>3. outcomes' = Append(outcomes, o)
    BY <2>1 DEF Stage
  <2> HIDE DEF o
  <2>4. outcomes' # << >>
    BY <2>2, <2>3 DEF TypeOK
  <2> QED BY <2>4 DEF IdleInv
<1>2. ASSUME NEW d \in Drafts, RecognizeRepeat(d)
      PROVE  IdleInv'
  <2>1. PICK n \in SequencesOf(d.record_id) :
          outcomes' = Append(outcomes,
                             [ sequence |-> n, state |-> "Duplicate" ])
    BY <1>2 DEF RecognizeRepeat
  <2> DEFINE o == [ sequence |-> n, state |-> "Duplicate" ]
  <2>2. o \in Outcome
    <3>1. n \in 1 .. Extended /\ Extended \in Nat
      BY KnownPositions, ExtendedIsNat
    <3> QED BY <3>1 DEF Outcome
  <2>3. outcomes' = Append(outcomes, o)
    BY <2>1
  <2> HIDE DEF o
  <2>4. outcomes \in Seq(Outcome)
    BY DEF TypeOK
  <2>5. Append(outcomes, o) # << >>
    BY <2>2, <2>4
  <2>6. outcomes' # << >>
    BY <2>3, <2>5
  <2> QED BY <2>6 DEF IdleInv
<1>3. ASSUME DropBatch
      PROVE  IdleInv'
  BY <1>3 DEF DropBatch, IdleInv, NothingStaged, NowhereStaged
<1>4. CASE Commit \/ ApplyNext
  BY <1>4 DEF Commit, ApplyNext, IdleInv
<1>5. CASE UNCHANGED vars
  BY <1>5 DEF vars, batch, IdleInv, NothingStaged, NowhereStaged
<1>6. ASSUME NEW d \in Drafts, Reject(d)
      PROVE  IdleInv'
  BY <1>3, <1>6 DEF Reject
<1>7. CASE Finish
  BY <1>3, <1>7 DEF Finish
<1> QED BY <1>1, <1>2, <1>4, <1>5, <1>6, <1>7 DEF Next

(* One record more in the lists it belongs to. *)
LEMMA EnteredGathers ==
  ASSUME TypeOK, NEW s \in Entry, EntityFitsKey(s), Carries(s), Apply(s),
         NEW n \in Nat, n = Len(records), NEW g, NEW h,
         \A i \in 1 .. n : h[i] = g[i], h[n + 1] = StagedRecord(s),
         Gathered(g, n, children, invalidated_at)
  PROVE  Gathered(h, n + 1, children', invalidated_at')
<1> DEFINE r == StagedRecord(s)
           d == s.draft
           id == d.body.id
<1>1. /\ r.draft = d /\ h[n + 1].draft = d
      /\ d.type # "AccountingRecorded" => s.key = id
      /\ \A i \in 1 .. n : i \in 1 .. n + 1
      /\ \A i \in 1 .. n + 1 : i \in 1 .. n \/ i = n + 1
      /\ n + 1 \in 1 .. n + 1 /\ n + 1 # 0 /\ n + 1 \notin 1 .. n
      /\ \A i \in 1 .. n + 1 : i <= n + 1
  BY DEF StagedRecord, EntityFitsKey
<1>2. ASSUME NEW x \in Entity
      PROVE  children'[x] = ListedIn(h, n + 1, x)
  <2>1. children[x] = ListedIn(g, n, x)
    BY DEF Gathered
  <2>2. children'[x] = IF x \in OwnersOf(r) THEN children[x] \cup { s.key }
                       ELSE children[x]
    BY EntryOwners DEF Apply
  <2>3. x \in OwnersOf(r) => s.key = id
    BY <1>1 DEF OwnersOf
  <2>4. ListedIn(h, n + 1, x)
          = ListedIn(g, n, x) \cup { y \in { id } : x \in OwnersOf(r) }
    BY <1>1 DEF ListedIn
  <2> QED BY <2>1, <2>2, <2>3, <2>4
<1>3. ASSUME NEW a \in Artifact
      PROVE  IsInvalidation(h, n + 1, a, invalidated_at'[a])
  <2>1. IsInvalidation(g, n, a, invalidated_at[a])
    BY DEF Gathered
  <2>2. \A i \in 1 .. n : TypedAbout(h, i, { "ArtifactInvalidated" }, a)
                      <=> TypedAbout(g, i, { "ArtifactInvalidated" }, a)
    BY DEF TypedAbout
  <2>3. TypedAbout(h, n + 1, { "ArtifactInvalidated" }, a)
          <=> d.type = "ArtifactInvalidated" /\ id = a
    BY <1>1 DEF TypedAbout
  <2>4. CASE d.type = "ArtifactInvalidated" /\ id = a
    <3>1. invalidated_at'[a] = n + 1
      BY <1>1, <2>4 DEF Apply, TypeOK
    <3>2. LastOf(Invalidations(h, n + 1, a), n + 1)
      BY <1>1, <2>3, <2>4 DEF LastOf, Invalidations
    <3> QED BY <3>1, <3>2 DEF IsInvalidation
  <2>5. CASE ~(d.type = "ArtifactInvalidated" /\ id = a)
    <3>1. invalidated_at'[a] = invalidated_at[a]
      BY <1>1, <2>5 DEF Apply, TypeOK
    <3>2. Invalidations(h, n + 1, a) = Invalidations(g, n, a)
      BY <1>1, <2>2, <2>3, <2>5 DEF Invalidations
    <3> QED BY <2>1, <3>1, <3>2 DEF IsInvalidation
  <2> QED BY <2>4, <2>5
<1> QED BY <1>2, <1>3 DEF Gathered

LEMMA GatheredStep ==
  ASSUME TypeOK, LifeInv, GatheredInv, [Next]_vars
  PROVE  GatheredInv'
<1>1. CASE ApplyNext
  <2> PICK s : s = staged[1]
    OBVIOUS
  <2> PICK n : n = Len(records)
    OBVIOUS
  <2> PICK g : g = records
    OBVIOUS
  <2> PICK h : h = records'
    OBVIOUS
  <2>1. /\ Apply(s) /\ s \in Entry /\ EntityFitsKey(s) /\ Carries(s)
        /\ n \in Nat /\ \A i \in 1 .. n : h[i] = g[i]
        /\ h[n + 1] = StagedRecord(s)
    BY <1>1, NextEntry
  <2>2. Len(records') = n + 1
    <3>1. AppliesOne
      BY <1>1 DEF ApplyNext, Apply, AppliesOne
    <3> QED BY <3>1, AppliedRecord
  <2>3. Gathered(h, n + 1, children', invalidated_at')
    BY <2>1, EnteredGathers DEF GatheredInv
  <2> QED BY <2>2, <2>3 DEF GatheredInv
<1>2. ASSUME UNCHANGED committed
      PROVE  GatheredInv'
  BY <1>2 DEF committed, GatheredInv, Gathered
<1>3. ASSUME NEW d \in Drafts, StageNext(d)
      PROVE  GatheredInv'
  <2>1. Stage(d)
    BY <1>3, StageNextKeepsTypes
  <2> QED BY <1>2, <2>1 DEF Stage
<1>4. ASSUME NEW d \in Drafts, RecognizeRepeat(d) \/ Reject(d)
      PROVE  GatheredInv'
  BY <1>2, <1>4 DEF RecognizeRepeat, Reject
<1>5. CASE Commit \/ Finish \/ UNCHANGED vars
  BY <1>2, <1>5 DEF Commit, Finish, vars
<1> QED BY <1>1, <1>3, <1>4, <1>5 DEF Next

LEMMA RunningStep ==
  ASSUME ArtifactsKeepSession, TypeOK, RunningInv, [Next]_vars
  PROVE  RunningInv'
BY LifeStep, DepictedStep, RecordIdsStep, OutcomesStep, KnownStep, SoundStep,
   IdleStep, GatheredStep DEF RunningInv

LEMMA RunningInit == Init => RunningInv
<1> SUFFICES ASSUME Init PROVE RunningInv
  OBVIOUS
<1>1. /\ records = << >> /\ staged = << >> /\ outcomes = << >>
      /\ latest = NothingStaged /\ front = NowhereStaged
      /\ Len(records) = 0 /\ Len(staged) = 0 /\ Extended = 0
      /\ \A x \in Entity : children[x] = {}
      /\ \A a \in Artifact : invalidated_at[a] = 0
  BY DEF Init, Extended
<1>2. RecordIdsInv /\ KnownInv /\ SoundInv /\ IdleInv
  BY <1>1 DEF RecordIdsInv, KnownInv, SoundInv, IdleInv
<1>3. GatheredInv
  BY <1>1 DEF GatheredInv, Gathered, ListedIn, IsInvalidation, Invalidations
<1> QED BY <1>2, <1>3, LifeInit, DepictedInit, OutcomesInit DEF RunningInv


-----------------------------------------------------------------------------
(* Restoring *)

(* The indexes idx are what the first n records of h make of empty ones.    *)
Built(h, n, idx) ==
  /\ DOMAIN idx.view = Entity
  /\ \A x \in Entity : idx.view[x] # None => ViewOf(x, idx.view[x])
  /\ idx.subject_index \in [ Subject -> Opt(Session) ]
  /\ idx.children \in [ Entity -> SUBSET Entity ]
  /\ idx.invalidated_at \in [ Artifact -> Nat ]
  /\ Stands(h, n, idx.view, idx.subject_index)
  /\ Gathered(h, n, idx.children, idx.invalidated_at)

(* What a ledger saves is a history that could be committed again.          *)
Saved(h) ==
  /\ h \in Seq(Record)
  /\ \A i \in 1 .. Len(h) : Sound(h, i)
  /\ \A i, j \in 1 .. Len(h) : h[i].record_id = h[j].record_id => i = j
  /\ \A i \in 1 .. Len(h) : h[i].record_id \in Nat => h[i].record_id = i

Idle ==
  /\ phase = "validating" /\ outcomes = << >> /\ staged = << >>
  /\ latest = NothingStaged /\ front = NowhereStaged

RestoringInv ==
  /\ Idle /\ Saved(image)
  /\ Len(records) <= Len(image)
  /\ Starts(records, image, Len(records))
  /\ Built(image, Len(records), Indexes)
  /\ Built(image, Len(image), before)

ReplayInv ==
  /\ TypeOK
  /\ \/ mode = "running" /\ RunningInv
     \/ mode = "restoring" /\ RestoringInv

LEMMA ValidatedTyped ==
  ASSUME TypeOK, NEW d \in Drafts, Validates(d)
  PROVE  StagesTyped(d)
BY SessionOpenedTyped, SessionClosedTyped, SessionAnnotationTyped,
   HypothesisDeclaredTyped, HypothesisStatusChangedTyped,
   ExperimentDeclaredTyped, BranchDeclaredTyped, AttemptStartedTyped,
   AttemptEndedTyped, ModelCallRecordedTyped, ToolCallRecordedTyped,
   ArtifactReferencedTyped, ArtifactInvalidatedTyped, MetricDeclaredTyped,
   ObservationRecordedTyped, FailureRecordedTyped, DecisionRecordedTyped,
   ResultDeclaredTyped, ResultStatusChangedTyped, AccountingRecordedTyped
   DEF Validates

LEMMA AlikeItself ==
  ASSUME NEW x, NEW v
  PROVE  Alike(x, v, v)
BY DEF Alike

LEMMA IdleFinds ==
  ASSUME TypeOK, Idle
  PROVE  /\ \A x \in Entity : Find(x) = view[x]
         /\ \A x \in Subject : Locate(x) = subject_index[x]
         /\ Extended = Len(records) /\ Sequence = Len(records) + 1
         /\ Len(records) \in Nat
BY SequencesOfTheStep
   DEF Idle, Find, Locate, NothingStaged, NowhereStaged, Extended, Sequence

(* The next record passes: what it passed alone it passes here.             *)
LEMMA NextPasses ==
  ASSUME TypeOK, Idle, NEW h, Saved(h), NEW k \in Nat, k = Len(records),
         k < Len(h), Starts(records, h, k), Stands(h, k, view, subject_index)
  PROVE  /\ h[k + 1].draft \in Drafts
         /\ Validates(h[k + 1].draft) /\ StagesTyped(h[k + 1].draft)
         /\ SessionOf(h[k + 1].draft) = h[k + 1].session
         /\ PrimarySubject(h[k + 1].draft) = h[k + 1].subject
         /\ Behind(h[k + 1].draft, h) /\ Pictured(h)
<1> PICK d : d = h[k + 1].draft
  OBVIOUS
<1> PICK r : r = records
  OBVIOUS
<1> PICK F : F = view
  OBVIOUS
<1> PICK L : L = subject_index
  OBVIOUS
<1>1. /\ k + 1 \in 1 .. Len(h) /\ (k + 1) - 1 = k
      /\ \A i \in 1 .. k : i \in 1 .. Len(h)
  BY DEF Saved
<1>2. Sound(h, k + 1) /\ \A i \in 1 .. k : Sound(h, i)
  BY <1>1 DEF Saved
<1>3. d \in Drafts /\ PrimarySubject(d) = h[k + 1].subject
  BY <1>2 DEF Sound, Settled, Formed
<1>4. Passes(h, k + 1) /\ Starts(r, h, k) /\ Stands(h, k, F, L)
  BY <1>2 DEF Sound
<1>5. /\ Alone(r, F, L)!Validates(d)
      /\ Alone(r, F, L)!SessionOf(d) = h[k + 1].session
  BY <1>1, <1>4 DEF Passes
<1>6. Mirrors(F, L)
  BY IdleFinds, AlikeItself DEF Mirrors
<1>7. CitesAlone(r, F, L, d) => CitesHere(d)
  BY DEF CitesAlone, CitesHere, EvidenceOK, Alone!EvidenceOK
<1>8. Validates(d)
  BY <1>3, <1>5, <1>6, <1>7, ValidatesHere
<1>9. SessionOf(d) = h[k + 1].session
  BY <1>3, <1>5, <1>6, <1>8, SameSessionOf
<1>10. StagesTyped(d)
  BY <1>3, <1>8, ValidatedTyped
<1>11. Extended = k /\ \A i \in 1 .. k : Follows(h, i)
  BY <1>2, IdleFinds DEF Sound, Settled
<1>12. /\ \A x \in Entity : Shows(h, k, x, Find(x)) /\ Depicts(h, k, x, Find(x))
       /\ \A x \in Subject : Locate(x) # None => HasHome(h, k, x, Locate(x))
  BY IdleFinds DEF Stands
<1>13. Behind(d, h) /\ Pictured(h)
  BY <1>3, <1>9, <1>11, <1>12 DEF Behind, Pictured
<1> QED BY <1>3, <1>8, <1>9, <1>10, <1>13

LEMMA EnteredStands ==
  ASSUME TypeOK, Idle, NEW h, Saved(h), NEW k \in Nat, k = Len(records),
         k < Len(h), Starts(records, h, k), Stands(h, k, view, subject_index),
         NEW s \in Entry, s = StagedEntity(h[k + 1].draft, h[k + 1].record_id),
         EntityFitsKey(s), StagedRecord(s) = h[k + 1], Apply(s)
  PROVE  Stands(h, k + 1, view', subject_index')
<1> PICK d : d = h[k + 1].draft
  OBVIOUS
<1>1. /\ d \in Drafts /\ Validates(d) /\ StagesTyped(d)
      /\ Behind(d, h) /\ Pictured(h)
  BY NextPasses
<1>2. /\ Extended = k /\ Sequence = k + 1 /\ k + 1 \in 1 .. k + 1
      /\ \A i \in 1 .. k + 1 : i \in 1 .. k \/ i = k + 1
  BY IdleFinds
<1>3. /\ s.draft = d /\ s.entity = EntityOf(d)
      /\ s.subject = h[k + 1].subject /\ s.session = h[k + 1].session
      /\ s.key = None <=> d.type = "AccountingRecorded"
      /\ s.key # None => s.key = d.body.id /\ s.key \in Entity
  BY <1>1 DEF StagedEntity, StagedRecord, EntityFitsKey, StagesTyped
<1>4. ASSUME NEW x \in Entity
      PROVE  Shows(h, k + 1, x, view'[x]) /\ Depicts(h, k + 1, x, view'[x])
  <2>1. CASE x = s.key
    <3>1. d.type # "AccountingRecorded" /\ x = d.body.id
      BY <1>3, <1>4, <2>1, NoneAssumption
    <3>2. view'[x] = EntityOf(d)
      BY <1>3, <2>1 DEF Apply, AppliedView
    <3>3. Shows(h, Extended + 1, x, EntityOf(d))
      BY <1>1, <3>1, ValidatedShows
    <3>4. Depicts(h, Sequence, x, EntityOf(d))
      BY <1>1, <3>1, StagedDepicts
    <3> QED BY <1>2, <3>2, <3>3, <3>4
  <2>2. CASE x # s.key
    <3>1. ~About(h, k + 1, x)
      BY <1>3, <2>2 DEF About
    <3>2. Shows(h, k, x, view[x]) /\ Depicts(h, k, x, view[x])
      BY DEF Stands
    <3>3. Shows(h, k + 1, x, view[x]) /\ Depicts(h, k + 1, x, view[x])
      BY <3>1, <3>2, ShowsOfOthers, DepictsOfOthers
    <3> PICK n : n = k + 1
      OBVIOUS
    <3>4. n \in Nat /\ Shows(h, n, x, view[x]) /\ Depicts(h, n, x, view[x])
      BY <3>3
    <3>5. Shows(h, n, x, view'[x])
      BY <2>2, <3>4, EnteredViews
    <3>6. Depicts(h, n, x, view'[x])
      BY <2>2, <3>4, EnteredDepicted
    <3> QED BY <3>5, <3>6
  <2> QED BY <2>1, <2>2
<1>5. s.subject \in Subject /\ s.session # None
  <2>1. s.subject \in Subject /\ s.session \in Session
    BY DEF Entry
  <2> QED BY <2>1, NoneAssumption DEF Entity, Subject
<1>6. subject_index \in [ Subject -> Opt(Session) ]
      /\ subject_index' = [ subject_index EXCEPT ![s.subject] = s.session ]
  BY DEF TypeOK, Apply
<1>7. ASSUME NEW x \in Subject, subject_index'[x] # None
      PROVE  HasHome(h, k + 1, x, subject_index'[x])
  <2>1. HasHome(h, k + 1, s.subject, s.session)
    <3>1. k + 1 \in 1 .. Len(h)
      BY DEF Saved
    <3>2. IsAtHome(h, k + 1)
      BY <3>1 DEF Saved, Sound, Settled, Follows
    <3> QED BY <1>3, <3>2 DEF IsAtHome
  <2>2. \/ subject_index'[x] = subject_index[x]
        \/ x = s.subject /\ subject_index'[x] = s.session
    BY <1>6
  <2>3. subject_index[x] # None => HasHome(h, k, x, subject_index[x])
    BY DEF Stands
  <2>4. \A t : HasHome(h, k, x, t) => HasHome(h, k + 1, x, t)
    BY DEF HasHome
  <2> QED BY <1>7, <2>1, <2>2, <2>3, <2>4
<1>8. ASSUME NEW i \in 1 .. k + 1
      PROVE  subject_index'[h[i].subject] # None
  <2>1. CASE i = k + 1
    BY <1>3, <1>5, <1>6, <2>1
  <2>2. CASE i \in 1 .. k
    <3>1. subject_index[h[i].subject] # None
      BY <2>2 DEF Stands
    <3>2. h[i].subject \in Subject
      <4>1. i \in 1 .. Len(h)
        BY <2>2 DEF Saved
      <4> QED BY <4>1 DEF Saved, Sound, Settled, Formed
    <3> QED BY <1>5, <1>6, <3>1, <3>2
  <2> QED BY <1>2, <1>8, <2>1, <2>2
<1> QED BY <1>4, <1>7, <1>8 DEF Stands

LEMMA RestoreStep ==
  ASSUME TypeOK, mode = "restoring", RestoringInv, RestoreNext
  PROVE  TypeOK' /\ mode' = "restoring" /\ RestoringInv'
<1> PICK h : h = image
  OBVIOUS
<1> PICK k : k = Len(records)
  OBVIOUS
<1> PICK d : d = h[k + 1].draft
  OBVIOUS
<1> PICK s : s = StagedEntity(d, h[k + 1].record_id)
  OBVIOUS
<1>1. /\ Idle /\ Saved(h) /\ k < Len(h) /\ k \in Nat
      /\ Starts(records, h, k) /\ Built(h, k, Indexes)
      /\ Built(h, Len(h), before)
  BY IdleFinds DEF RestoringInv, RestoreNext
<1>2. /\ Stands(h, k, view, subject_index)
      /\ Gathered(h, k, children, invalidated_at)
  BY <1>1 DEF Built, Indexes
<1>3. /\ k + 1 \in 1 .. Len(h) /\ h[k + 1] \in Record /\ Len(h) \in Nat
      /\ \A i \in 1 .. k : i \in 1 .. Len(h) /\ i # k + 1
  BY <1>1 DEF Saved
<1>4. /\ d \in Drafts /\ Validates(d) /\ StagesTyped(d)
      /\ SessionOf(d) = h[k + 1].session
      /\ PrimarySubject(d) = h[k + 1].subject
  BY <1>1, <1>2, NextPasses
<1>5. RestoreAccepts(NextRecord)
  <2>1. NextRecord = h[k + 1]
    BY DEF NextRecord
  <2>2. DOMAIN records = 1 .. k
    BY SequencesOfTheStep
  <2>3. \A i \in 1 .. k : records[i] = h[i]
    BY <1>1 DEF Starts
  <2>4. \A i \in 1 .. k : records[i].record_id # h[k + 1].record_id
    BY <1>1, <1>3, <2>3 DEF Saved
  <2> QED BY <1>4, <2>1, <2>2, <2>4 DEF RestoreAccepts
<1>6. /\ Apply(s) /\ UNCHANGED << batch, phase, mode, image, before >>
  BY <1>5 DEF RestoreNext, NextRecord
<1>7. s \in Entry /\ EntityFitsKey(s) /\ StagedRecord(s) = h[k + 1]
  <2>1. h[k + 1].record_id \in RecordId \cup Nat
    BY <1>3 DEF Record
  <2>2. s \in Entry /\ EntityFitsKey(s)
    BY <1>4, <2>1, TypedEntry
  <2>3. StagedRecord(s) = h[k + 1]
    BY <1>3, <1>4 DEF StagedRecord, StagedEntity, Record
  <2> QED BY <2>2, <2>3
<1>8. /\ records' \in Seq(Record)
      /\ subject_index' \in [ Subject -> Opt(Session) ]
      /\ DOMAIN view' = Entity
      /\ \A x \in Entity : view'[x] # None => ViewOf(x, view'[x])
      /\ children' \in [ Entity -> SUBSET Entity ]
      /\ invalidated_at' \in [ Artifact -> Nat ]
  BY <1>6, <1>7, EnteringKeepsTypes
<1>9. TypeOK'
  BY <1>6, <1>8 DEF TypeOK, batch
<1>10. Idle'
  BY <1>1, <1>6 DEF Idle, batch, NothingStaged, NowhereStaged
<1>11. Len(records') = k + 1 /\ Starts(records', h, k + 1)
  <2>1. records' = Append(records, h[k + 1])
    BY <1>6, <1>7 DEF Apply, StagedRecord
  <2>2. /\ Len(records') = k + 1
        /\ \A i \in 1 .. k + 1 :
             records'[i] = IF i <= k THEN records[i] ELSE h[k + 1]
    BY <1>3, <2>1, SequencesOfTheStep
  <2>3. \A i \in 1 .. k : records[i] = h[i]
    BY <1>1 DEF Starts
  <2>4. \A i \in 1 .. k + 1 : \/ i <= k /\ i \in 1 .. k
                              \/ ~(i <= k) /\ i = k + 1
    BY <1>1
  <2> QED BY <2>2, <2>3, <2>4 DEF Starts
<1>12. Stands(h, k + 1, view', subject_index')
  BY <1>1, <1>2, <1>6, <1>7, EnteredStands
<1>13. Gathered(h, k + 1, children', invalidated_at')
  <2>1. Carries(s)
    BY <1>4, StagedCarries
  <2> QED BY <1>1, <1>2, <1>6, <1>7, <2>1, EnteredGathers
<1>14. Built(h, k + 1, Indexes')
  BY <1>8, <1>12, <1>13 DEF Built, Indexes
<1>15. Saved(image') /\ Built(image', Len(image'), before') /\ image' = h
       /\ k + 1 <= Len(h)
  BY <1>1, <1>3, <1>6
<1> QED BY <1>6, <1>9, <1>10, <1>11, <1>14, <1>15 DEF RestoringInv


LEMMA TypesStep ==
  ASSUME TypeOK, [Next]_vars
  PROVE  TypeOK'
BY StageNextKeepsTypes, ApplyKeepsTypes, OtherStepsKeepTypes DEF Next

(* What an idle ledger has committed, and what its indexes were made of.    *)
LEMMA IdleSaves ==
  ASSUME TypeOK, RunningInv, Idle, NEW h, h = records
  PROVE  Saved(h) /\ Built(h, Len(h), Indexes)
<1> PICK n : n = Len(records)
  OBVIOUS
<1> PICK g : g = Whole
  OBVIOUS
<1>1. /\ n \in Nat /\ Extended = n /\ h \in Seq(Record) /\ Len(h) = n
      /\ \A x \in Entity : Find(x) = view[x]
      /\ \A x \in Subject : Locate(x) = subject_index[x]
  BY IdleFinds, SequencesOfTheStep
<1>2. \A i \in 1 .. n : g[i] = h[i]
  BY <1>1 DEF Whole
<1>3. /\ LifeInv /\ DepictedInv /\ RecordIdsInv /\ KnownInv /\ SoundInv
      /\ GatheredInv
  BY DEF RunningInv
<1>4. ASSUME NEW i \in 1 .. n
      PROVE  Sound(h, i)
  <2>1. Sound(g, i) /\ i \in Nat \ { 0 }
    BY <1>1, <1>3, <1>4 DEF SoundInv
  <2>2. Agree(h, g, i)
    BY <1>1, <1>2, <1>4 DEF Agree
  <2> QED BY <2>1, <2>2, AgreeOnSound
<1>5. Saved(h)
  <2>1. \A i \in 1 .. n : Ids[i] = h[i].record_id
    BY <1>1 DEF Ids
  <2>2. /\ \A i, j \in 1 .. n : Ids[i] = Ids[j] => i = j
        /\ \A i \in 1 .. n : Ids[i] \in Nat => Ids[i] = i
    BY <1>1, <1>3 DEF RecordIdsInv
  <2> QED BY <1>1, <1>4, <2>1, <2>2 DEF Saved
<1>6. Stands(h, n, view, subject_index)
  <2>1. Stands(g, Extended, FoundNow, LocatedNow)
    BY <1>3, NowStands
  <2> PICK F : F = FoundNow
    OBVIOUS
  <2> PICK L : L = LocatedNow
    OBVIOUS
  <2>2. Agree(g, h, n) /\ Agree(h, g, n)
    BY <1>2 DEF Agree
  <2>3. Stands(h, n, F, L)
    BY <1>1, <2>1, <2>2, AgreeOnStands
  <2>4. /\ \A x \in Entity : F[x] = view[x]
        /\ \A x \in Subject : L[x] = subject_index[x]
    BY <1>1 DEF FoundNow, LocatedNow
  <2>5. \A i \in 1 .. n : h[i].subject \in Subject
    BY <1>4 DEF Sound, Settled, Formed
  <2> QED BY <2>3, <2>4, <2>5 DEF Stands
<1>7. Gathered(h, n, children, invalidated_at)
  BY <1>3 DEF GatheredInv
<1>8. Built(h, n, Indexes)
  BY <1>6, <1>7 DEF Built, Indexes, TypeOK
<1> QED BY <1>1, <1>5, <1>8

LEMMA RestartStep ==
  ASSUME TypeOK, RunningInv, Restart
  PROVE  TypeOK' /\ mode' = "restoring" /\ RestoringInv'
<1> PICK h : h = records
  OBVIOUS
<1>1. Idle
  BY DEF Restart, RunningInv, IdleInv, Idle
<1>2. Saved(h) /\ Built(h, Len(h), Indexes)
  BY <1>1, IdleSaves
<1>3. /\ mode' = "restoring" /\ image' = h /\ before' = Indexes
      /\ records' = << >>
      /\ view' = [ x \in Entity |-> None ]
      /\ subject_index' = [ x \in Subject |-> None ]
      /\ children' = [ x \in Entity |-> {} ]
      /\ invalidated_at' = [ a \in Artifact |-> 0 ]
      /\ UNCHANGED << staged, latest, front, outcomes, phase >>
  BY DEF Restart, batch
<1>4. TypeOK'
  BY <1>3 DEF TypeOK, Opt
<1>5. Idle'
  BY <1>1, <1>3 DEF Idle, NothingStaged, NowhereStaged
<1>6. Len(records') = 0 /\ Starts(records', h, 0)
  BY <1>3 DEF Starts
<1>7. Stands(h, 0, view', subject_index')
  <2>1. \A x \in Entity : Shows(h, 0, x, None) /\ Depicts(h, 0, x, None)
    BY DEF Shows, Depicts
  <2> QED BY <1>3, <2>1 DEF Stands
<1>8. Gathered(h, 0, children', invalidated_at')
  BY <1>3 DEF Gathered, ListedIn, IsInvalidation, Invalidations
<1>9. Built(h, 0, Indexes')
  BY <1>3, <1>7, <1>8 DEF Built, Indexes, Opt
<1>10. 0 <= Len(h)
  BY <1>2 DEF Saved
<1> QED BY <1>2, <1>3, <1>4, <1>5, <1>6, <1>9, <1>10 DEF RestoringInv

LEMMA RestoredRecords ==
  ASSUME TypeOK, RestoringInv, Len(records) = Len(image)
  PROVE  records = image
<1>1. /\ records \in Seq(Record) /\ image \in Seq(Record)
      /\ \A i \in 1 .. Len(records) : records[i] = image[i]
  BY DEF TypeOK, RestoringInv, Saved, Starts
<1> QED BY <1>1, SameSequence

(* A ledger that is restored is one that could have been running.           *)
LEMMA RestoredRuns ==
  ASSUME TypeOK, RestoringInv, Len(records) = Len(image)
  PROVE  RunningInv
<1> PICK n : n = Len(records)
  OBVIOUS
<1> PICK h : h = image
  OBVIOUS
<1> PICK g : g = Whole
  OBVIOUS
<1>1. /\ Idle /\ Saved(h) /\ records = h /\ Built(h, n, Indexes)
  BY RestoredRecords DEF RestoringInv
<1>2. /\ n \in Nat /\ Extended = n /\ Len(h) = n /\ Len(staged) = 0
      /\ \A x \in Entity : Find(x) = view[x]
      /\ staged = << >> /\ outcomes = << >> /\ phase = "validating"
      /\ latest = NothingStaged /\ front = NowhereStaged
  BY <1>1, IdleFinds DEF Idle
<1>3. \A i \in 1 .. n : g[i] = h[i]
  BY <1>1, <1>2 DEF Whole
<1>4. Agree(g, h, n) /\ Agree(h, g, n)
  BY <1>3 DEF Agree
<1>5. /\ Stands(h, n, view, subject_index)
      /\ Gathered(h, n, children, invalidated_at)
  BY <1>1 DEF Built, Indexes
<1>6. ASSUME NEW i \in 1 .. n
      PROVE  Sound(g, i)
  <2>1. Sound(h, i) /\ i \in Nat \ { 0 }
    BY <1>1, <1>2, <1>6 DEF Saved
  <2>2. Agree(g, h, i)
    BY <1>2, <1>3, <1>6 DEF Agree
  <2> QED BY <2>1, <2>2, AgreeOnSound
<1>7. Stands(g, n, view, subject_index)
  <2> PICK F : F = view
    OBVIOUS
  <2> PICK L : L = subject_index
    OBVIOUS
  <2>1. Stands(h, n, F, L)
    BY <1>5
  <2>2. Stands(g, n, F, L)
    BY <1>2, <1>4, <2>1, AgreeOnStands
  <2> QED BY <2>2
<1>8. LifeInv
  <2>1. HistoryInv
    BY <1>2, <1>6 DEF HistoryInv, Sound, Settled
  <2>2. CommittedViewsInv /\ FoundViewsInv
    BY <1>2, <1>7 DEF CommittedViewsInv, FoundViewsInv, Stands
  <2>3. StagedViewsInv
    BY <1>2 DEF StagedViewsInv
  <2>4. PlacesInv
    BY <1>2, <1>7 DEF PlacesInv, NowhereStaged, Stands
  <2> QED BY <2>1, <2>2, <2>3, <2>4 DEF LifeInv
<1>9. DepictedInv
  BY <1>2, <1>6, <1>7 DEF DepictedInv, Sound, Settled, Stands
<1>10. RecordIdsInv
  <2>1. \A i \in 1 .. n : Ids[i] = h[i].record_id
    BY <1>1, <1>2 DEF Ids
  <2> QED BY <1>1, <1>2, <2>1 DEF RecordIdsInv, Saved
<1>11. OutcomesInv
  BY <1>2, NoOutcomes DEF OutcomesInv
<1>12. KnownInv
  BY <1>1, <1>2, <1>5 DEF KnownInv, Stands
<1>13. SoundInv
  BY <1>2, <1>6 DEF SoundInv
<1>14. IdleInv
  BY <1>2 DEF IdleInv
<1>15. GatheredInv
  BY <1>1, <1>5 DEF GatheredInv
<1> QED BY <1>8, <1>9, <1>10, <1>11, <1>12, <1>13, <1>14, <1>15
        DEF RunningInv

LEMMA ReplayInvInit == ReplayInit => ReplayInv
<1>1. Init => TypeOK
  BY DEF Init, TypeOK, NothingStaged, NowhereStaged, Opt, EntityFitsKey
<1> QED BY <1>1, RunningInit DEF ReplayInit, ReplayInv

LEMMA ReplayInvStep ==
  ASSUME ArtifactsKeepSession, ReplayInv, [ReplayNext]_replayVars
  PROVE  ReplayInv'
<1>1. TypeOK
  BY DEF ReplayInv
<1>2. CASE Appending
  <2>1. mode = "running" /\ mode' = "running" /\ Next /\ RunningInv
    BY <1>2 DEF Appending, ReplayInv
  <2> QED BY <1>1, <2>1, TypesStep, RunningStep DEF ReplayInv
<1>3. CASE Restart
  <2>1. RunningInv
    BY <1>3 DEF Restart, ReplayInv
  <2> QED BY <1>1, <1>3, <2>1, RestartStep DEF ReplayInv
<1>4. CASE RestoreNext
  <2>1. mode = "restoring" /\ RestoringInv
    BY <1>4 DEF RestoreNext, ReplayInv
  <2> QED BY <1>1, <1>4, <2>1, RestoreStep DEF ReplayInv
<1>5. CASE RestoreDone
  <2>1. /\ RestoringInv /\ Len(records) = Len(image)
        /\ mode' = "running" /\ UNCHANGED vars
    BY <1>5 DEF RestoreDone, Restored, ReplayInv
  <2>2. RunningInv
    BY <1>1, <2>1, RestoredRuns
  <2> QED BY <1>1, <2>1, <2>2, TypesStep, RunningStep DEF ReplayInv
<1>6. CASE UNCHANGED replayVars
  <2>1. UNCHANGED vars /\ UNCHANGED << mode, image, before >>
    BY <1>6 DEF replayVars
  <2>2. TypeOK'
    BY <1>1, <2>1, TypesStep
  <2>3. RunningInv => RunningInv'
    BY <1>1, <2>1, RunningStep
  <2>4. /\ Indexes' = Indexes /\ records' = records
        /\ (Idle <=> Idle')
    BY <2>1 DEF vars, committed, batch, Indexes, Idle, NothingStaged,
       NowhereStaged
  <2>5. RestoringInv => RestoringInv'
    BY <2>1, <2>4 DEF RestoringInv
  <2> QED BY <2>1, <2>2, <2>3, <2>5 DEF ReplayInv
<1> QED BY <1>2, <1>3, <1>4, <1>5, <1>6 DEF ReplayNext


-----------------------------------------------------------------------------
(* What a restored ledger has, and what its callers see *)

LEMMA SameOffLinks ==
  ASSUME NEW v, NEW w, v # None, w # None, DOMAIN v = DOMAIN w,
         \A f \in DOMAIN v \ { "links" } : v[f] = w[f]
  PROVE  WithoutLinks(v) = WithoutLinks(w)
BY DEF WithoutLinks

LEMMA WithoutLinksAlike ==
  ASSUME NEW x \in Entity, NEW v, NEW w, Alike(x, v, w),
         v # None => ViewOf(x, v), w # None => ViewOf(x, w)
  PROVE  WithoutLinks(v) = WithoutLinks(w)
<1>1. CASE v = None
  BY <1>1 DEF Alike, WithoutLinks
<1> SUFFICES ASSUME v # None PROVE WithoutLinks(v) = WithoutLinks(w)
  BY <1>1
<1>2. w # None /\ ViewOf(x, v) /\ ViewOf(x, w)
  BY DEF Alike
<1>3. CASE x \in Session
  <2>1. v \in SessionView /\ w \in SessionView
    BY <1>2, <1>3 DEF ViewOf
  <2>2. /\ DOMAIN v = { "session", "state", "opened_at", "closed_at", "links" }
        /\ DOMAIN w = DOMAIN v
    BY <2>1 DEF SessionView
  <2>3. /\ v.session = w.session /\ v.state = w.state
        /\ v.opened_at = w.opened_at /\ v.closed_at = w.closed_at
    BY <1>3 DEF Alike
  <2> QED BY <1>2, <2>2, <2>3, SameOffLinks
<1>4. CASE x \in Hypothesis
  <2>1. v \in HypothesisView /\ w \in HypothesisView
    BY <1>2, <1>4 DEF ViewOf
  <2>2. /\ DOMAIN v = { "session", "generation", "status", "parent",
                        "declared_at", "last_changed_at", "links" }
        /\ DOMAIN w = DOMAIN v
    BY <2>1 DEF HypothesisView
  <2>3. /\ v.session = w.session /\ v.generation = w.generation
        /\ v.status = w.status /\ v.parent = w.parent
        /\ v.declared_at = w.declared_at /\ v.last_changed_at = w.last_changed_at
    BY <1>4 DEF Alike
  <2> QED BY <1>2, <2>2, <2>3, SameOffLinks
<1>5. CASE x \in Experiment
  <2>1. v \in ExperimentView /\ w \in ExperimentView
    BY <1>2, <1>5 DEF ViewOf
  <2>2. /\ DOMAIN v = { "session", "hypotheses", "branch", "parent",
                        "declared_at", "links" }
        /\ DOMAIN w = DOMAIN v
    BY <2>1 DEF ExperimentView
  <2>3. /\ v.session = w.session /\ v.hypotheses = w.hypotheses
        /\ v.branch = w.branch /\ v.parent = w.parent
        /\ v.declared_at = w.declared_at
    BY <1>5 DEF Alike
  <2> QED BY <1>2, <2>2, <2>3, SameOffLinks
<1>6. CASE x \in Branch
  <2>1. v \in BranchView /\ w \in BranchView
    BY <1>2, <1>6 DEF ViewOf
  <2>2. /\ DOMAIN v = { "session", "parent", "declared_at", "links" }
        /\ DOMAIN w = DOMAIN v
    BY <2>1 DEF BranchView
  <2>3. /\ v.session = w.session /\ v.parent = w.parent
        /\ v.declared_at = w.declared_at
    BY <1>6 DEF Alike
  <2> QED BY <1>2, <2>2, <2>3, SameOffLinks
<1>7. CASE x \in Attempt
  <2>1. v \in AttemptView /\ w \in AttemptView
    BY <1>2, <1>7 DEF ViewOf
  <2>2. /\ DOMAIN v = { "experiment", "branch", "generation", "state", "failure",
                        "started_at", "terminated_at", "links" }
        /\ DOMAIN w = DOMAIN v
    BY <2>1 DEF AttemptView
  <2>3. /\ v.experiment = w.experiment /\ v.branch = w.branch
        /\ v.generation = w.generation /\ v.state = w.state
        /\ v.failure = w.failure /\ v.started_at = w.started_at
        /\ v.terminated_at = w.terminated_at
    BY <1>7 DEF Alike
  <2> QED BY <1>2, <2>2, <2>3, SameOffLinks
<1>8. CASE x \in ModelCall
  <2>1. v \in ModelCallView /\ w \in ModelCallView
    BY <1>2, <1>8 DEF ViewOf
  <2>2. /\ DOMAIN v = { "attempt", "parents", "recorded_at" }
        /\ DOMAIN w = DOMAIN v
    BY <2>1 DEF ModelCallView
  <2>3. /\ v.attempt = w.attempt /\ v.parents = w.parents
        /\ v.recorded_at = w.recorded_at
    BY <1>8 DEF Alike
  <2> QED BY <1>2, <2>2, <2>3, SameOffLinks
<1>9. CASE x \in ToolCall
  <2>1. v \in ToolCallView /\ w \in ToolCallView
    BY <1>2, <1>9 DEF ViewOf
  <2>2. /\ DOMAIN v = { "attempt", "recorded_at" }
        /\ DOMAIN w = DOMAIN v
    BY <2>1 DEF ToolCallView
  <2>3. /\ v.attempt = w.attempt /\ v.recorded_at = w.recorded_at
    BY <1>9 DEF Alike
  <2> QED BY <1>2, <2>2, <2>3, SameOffLinks
<1>10. CASE x \in Artifact
  <2>1. v \in ArtifactView /\ w \in ArtifactView
    BY <1>2, <1>10 DEF ViewOf
  <2>2. /\ DOMAIN v = { "session", "generation", "producer", "parents",
                        "validation", "recorded_at" }
        /\ DOMAIN w = DOMAIN v
    BY <2>1 DEF ArtifactView
  <2>3. /\ v.session = w.session /\ v.generation = w.generation
        /\ v.producer = w.producer /\ v.parents = w.parents
        /\ v.validation = w.validation /\ v.recorded_at = w.recorded_at
    BY <1>10 DEF Alike
  <2> QED BY <1>2, <2>2, <2>3, SameOffLinks
<1>11. CASE x \in Metric
  <2>1. v \in MetricView /\ w \in MetricView
    BY <1>2, <1>11 DEF ViewOf
  <2>2. /\ DOMAIN v = { "session", "key", "value_kind", "declared_at" }
        /\ DOMAIN w = DOMAIN v
    BY <2>1 DEF MetricView
  <2>3. /\ v.session = w.session /\ v.key = w.key
        /\ v.value_kind = w.value_kind /\ v.declared_at = w.declared_at
    BY <1>11 DEF Alike
  <2> QED BY <1>2, <2>2, <2>3, SameOffLinks
<1>12. CASE x \in Observation
  <2>1. v \in ObservationView /\ w \in ObservationView
    BY <1>2, <1>12 DEF ViewOf
  <2>2. /\ DOMAIN v = { "session", "attempt", "experiment", "metric",
                        "recorded_at" }
        /\ DOMAIN w = DOMAIN v
    BY <2>1 DEF ObservationView
  <2>3. /\ v.session = w.session /\ v.attempt = w.attempt
        /\ v.experiment = w.experiment /\ v.metric = w.metric
        /\ v.recorded_at = w.recorded_at
    BY <1>12 DEF Alike
  <2> QED BY <1>2, <2>2, <2>3, SameOffLinks
<1>13. CASE x \in Failure
  <2>1. v \in FailureView /\ w \in FailureView
    BY <1>2, <1>13 DEF ViewOf
  <2>2. /\ DOMAIN v = { "session", "scope", "predecessor", "recovery",
                        "recorded_at" }
        /\ DOMAIN w = DOMAIN v
    BY <2>1 DEF FailureView
  <2>3. /\ v.session = w.session /\ v.scope = w.scope
        /\ v.predecessor = w.predecessor /\ v.recovery = w.recovery
        /\ v.recorded_at = w.recorded_at
    BY <1>13 DEF Alike
  <2> QED BY <1>2, <2>2, <2>3, SameOffLinks
<1>14. CASE x \in Decision
  <2>1. v \in DecisionView /\ w \in DecisionView
    BY <1>2, <1>14 DEF ViewOf
  <2>2. /\ DOMAIN v = { "session", "subject", "decision_type", "outcome",
                        "evidence", "recorded_at" }
        /\ DOMAIN w = DOMAIN v
    BY <2>1 DEF DecisionView
  <2>3. /\ v.session = w.session /\ v.subject = w.subject
        /\ v.decision_type = w.decision_type /\ v.outcome = w.outcome
        /\ v.evidence = w.evidence /\ v.recorded_at = w.recorded_at
    BY <1>14 DEF Alike
  <2> QED BY <1>2, <2>2, <2>3, SameOffLinks
<1>15. CASE x \in Result
  <2>1. v \in ResultView /\ w \in ResultView
    BY <1>2, <1>15 DEF ViewOf
  <2>2. /\ DOMAIN v = { "session", "generation", "status", "support",
                        "declared_at", "last_changed_at", "last_decision",
                        "acceptance_decision" }
        /\ DOMAIN w = DOMAIN v
    BY <2>1 DEF ResultView
  <2>3. /\ v.session = w.session /\ v.generation = w.generation
        /\ v.status = w.status /\ v.support = w.support
        /\ v.declared_at = w.declared_at /\ v.last_changed_at = w.last_changed_at
        /\ v.last_decision = w.last_decision /\ v.acceptance_decision = w.acceptance_decision
    BY <1>15 DEF Alike
  <2> QED BY <1>2, <2>2, <2>3, SameOffLinks
<1> QED BY <1>3, <1>4, <1>5, <1>6, <1>7, <1>8, <1>9,
          <1>10, <1>11, <1>12, <1>13, <1>14, <1>15 DEF Entity, Subject

LEMMA OneLast ==
  ASSUME NEW S \in SUBSET Nat, NEW a, NEW b, LastOf(S, a), LastOf(S, b)
  PROVE  a = b
BY DEF LastOf

LEMMA InvalidationsAlike ==
  ASSUME NEW h, NEW n \in Nat, NEW a, NEW s \in Nat, NEW t \in Nat,
         IsInvalidation(h, n, a, s), IsInvalidation(h, n, a, t)
  PROVE  s = t
<1>1. Invalidations(h, n, a) \in SUBSET Nat
  BY DEF Invalidations
<1>2. CASE Invalidations(h, n, a) = {}
  BY <1>2 DEF IsInvalidation, LastOf
<1>3. CASE Invalidations(h, n, a) # {}
  BY <1>1, <1>3, OneLast DEF IsInvalidation
<1> QED BY <1>2, <1>3

(* Two ledgers that the same history built differ at most in their links.   *)
LEMMA TwoBuilds ==
  ASSUME ArtifactsKeepSession, NEW h, NEW n \in Nat,
         AllSettled(h, n),
         NEW p, Built(h, n, p), NEW q, Built(h, n, q)
  PROVE  /\ p.subject_index = q.subject_index
         /\ p.children = q.children
         /\ p.invalidated_at = q.invalidated_at
         /\ \A x \in Entity : WithoutLinks(p.view[x]) = WithoutLinks(q.view[x])
<1>1. /\ Stands(h, n, p.view, p.subject_index)
      /\ Stands(h, n, q.view, q.subject_index)
      /\ Gathered(h, n, p.children, p.invalidated_at)
      /\ Gathered(h, n, q.children, q.invalidated_at)
  BY DEF Built
<1>2. /\ \A x \in Entity : Alike(x, p.view[x], q.view[x])
      /\ \A x \in Subject : p.subject_index[x] = q.subject_index[x]
  BY <1>1, IndexesAlike
<1>3. p.subject_index = q.subject_index
  <2>1. /\ p.subject_index \in [ Subject -> Opt(Session) ]
        /\ q.subject_index \in [ Subject -> Opt(Session) ]
    BY DEF Built
  <2> QED BY <1>2, <2>1
<1>4. p.children = q.children
  <2>1. /\ p.children \in [ Entity -> SUBSET Entity ]
        /\ q.children \in [ Entity -> SUBSET Entity ]
    BY DEF Built
  <2>2. \A x \in Entity : p.children[x] = q.children[x]
    BY <1>1 DEF Gathered
  <2> QED BY <2>1, <2>2
<1>5. p.invalidated_at = q.invalidated_at
  <2>1. /\ p.invalidated_at \in [ Artifact -> Nat ]
        /\ q.invalidated_at \in [ Artifact -> Nat ]
    BY DEF Built
  <2>2. ASSUME NEW a \in Artifact
        PROVE  p.invalidated_at[a] = q.invalidated_at[a]
    <3>1. /\ IsInvalidation(h, n, a, p.invalidated_at[a])
          /\ IsInvalidation(h, n, a, q.invalidated_at[a])
      BY <1>1 DEF Gathered
    <3>2. p.invalidated_at[a] \in Nat /\ q.invalidated_at[a] \in Nat
      BY <2>1
    <3> QED BY <3>1, <3>2, InvalidationsAlike
  <2> QED BY <2>1, <2>2
<1>6. ASSUME NEW x \in Entity
      PROVE  WithoutLinks(p.view[x]) = WithoutLinks(q.view[x])
  <2>1. /\ p.view[x] # None => ViewOf(x, p.view[x])
        /\ q.view[x] # None => ViewOf(x, q.view[x])
    BY DEF Built
  <2> QED BY <1>2, <2>1, WithoutLinksAlike
<1> QED BY <1>3, <1>4, <1>5, <1>6

LEMMA RebuiltState ==
  ASSUME ArtifactsKeepSession, TypeOK, RestoringInv, Restored
  PROVE  RestoreRebuildsState
<1> PICK h : h = image
  OBVIOUS
<1> PICK p : p = Indexes
  OBVIOUS
<1> PICK q : q = before
  OBVIOUS
<1> PICK n : n = Len(h)
  OBVIOUS
<1>1. records = h
  BY RestoredRecords DEF Restored
<1>2. Saved(h) /\ Built(h, n, p) /\ Built(h, n, q)
  BY DEF RestoringInv, Restored
<1>3. n \in Nat /\ AllSettled(h, n)
  BY <1>2 DEF Saved, Sound, AllSettled
<1>4. /\ p.subject_index = q.subject_index
      /\ p.children = q.children
      /\ p.invalidated_at = q.invalidated_at
      /\ \A x \in Entity : WithoutLinks(p.view[x]) = WithoutLinks(q.view[x])
  BY <1>2, <1>3, TwoBuilds
<1>5. /\ p.view = view /\ p.subject_index = subject_index
      /\ p.children = children /\ p.invalidated_at = invalidated_at
  BY DEF Indexes
<1> QED BY <1>1, <1>4, <1>5 DEF RestoreRebuildsState

LEMMA ReplayInvIds ==
  ASSUME ReplayInv
  PROVE  RecordIdsUnique
<1>1. TypeOK
  BY DEF ReplayInv
<1>2. Len(records) \in Nat /\ DOMAIN records = 1 .. Len(records)
  BY <1>1, SequencesOfTheStep
<1>3. CASE RunningInv
  <2>1. /\ \A i, j \in 1 .. Extended : Ids[i] = Ids[j] => i = j
        /\ \A i \in 1 .. Len(records) :
             i \in 1 .. Extended /\ Ids[i] = records[i].record_id
    BY <1>1, <1>2, <1>3, SequencesOfTheStep
       DEF RunningInv, RecordIdsInv, Ids, Extended
  <2> QED BY <1>2, <2>1 DEF RecordIdsUnique
<1>4. CASE RestoringInv
  <2>1. /\ Saved(image)
        /\ \A i \in 1 .. Len(records) :
             records[i] = image[i] /\ i \in 1 .. Len(image)
    BY <1>2, <1>4 DEF RestoringInv, Starts, Saved
  <2> QED BY <1>2, <2>1 DEF RecordIdsUnique, Saved
<1> QED BY <1>3, <1>4 DEF ReplayInv



(* What the two refinement mappings promise is the same. *)
LEMMA SamePromise ==
  ASSUME NEW a, NEW b, NEW r
  PROVE  /\ Promised!Extends(a, b) => PromisedAcrossRestarts!Extends(a, b)
         /\ Promised!Answers(r, a, b) =>
              PromisedAcrossRestarts!Answers(r, a, b)
<1>1. Promised!Extends(a, b) => PromisedAcrossRestarts!Extends(a, b)
  BY DEF Promised!Extends, PromisedAcrossRestarts!Extends
<1>2. Promised!New(r) = PromisedAcrossRestarts!New(r)
  BY DEF Promised!New, PromisedAcrossRestarts!New
<1>3. Promised!Answers(r, a, b) => PromisedAcrossRestarts!Answers(r, a, b)
  BY <1>2 DEF Promised!Answers, PromisedAcrossRestarts!Answers
<1> QED BY <1>1, <1>3

(* The history and the reply of a ledger that may be restarted. *)
KeptHistory == IF mode = "running" THEN LogicalHistory ELSE image
ReplyHeld == IF phase = "applying" THEN outcomes ELSE << >>

LEMMA AppendingKeepsPromise ==
  ASSUME TypeOK, TypeOK', RecordIdsInv, OutcomesInv, Appending
  PROVE  [PromisedAcrossRestarts!Next]_<< KeptHistory, ReplyHeld >>
<1> PICK a : a = LogicalHistory
  OBVIOUS
<1> PICK b : b = LogicalHistory'
  OBVIOUS
<1> PICK p : p = ReplyHeld
  OBVIOUS
<1> PICK q : q = ReplyHeld'
  OBVIOUS
<1>1. mode = "running" /\ mode' = "running" /\ Next
  BY DEF Appending
<1>2. [Promised!Next]_<< LogicalHistory,
                         IF phase = "applying" THEN outcomes ELSE << >> >>
  BY <1>1, EverySteps
<1>3. KeptHistory = a /\ KeptHistory' = b
  BY <1>1 DEF KeptHistory
<1>4. CASE Promised!AppendBatch
  <2>1. p = << >> /\ q # << >> /\ Promised!Extends(a, b)
        /\ Promised!Answers(q, a, b)
    BY <1>4 DEF Promised!AppendBatch, ReplyHeld
  <2>2. PromisedAcrossRestarts!Extends(a, b)
        /\ PromisedAcrossRestarts!Answers(q, a, b)
    BY <2>1, SamePromise
  <2>3. PromisedAcrossRestarts!AppendBatch
    BY <1>3, <2>1, <2>2
       DEF PromisedAcrossRestarts!AppendBatch, KeptHistory, ReplyHeld
  <2> QED BY <2>3 DEF PromisedAcrossRestarts!Next
<1>5. CASE Promised!Reply
  <2>1. p # << >> /\ q = << >> /\ b = a
    BY <1>5 DEF Promised!Reply, ReplyHeld
  <2>2. PromisedAcrossRestarts!Reply
    BY <1>3, <2>1 DEF PromisedAcrossRestarts!Reply, KeptHistory, ReplyHeld
  <2> QED BY <2>2 DEF PromisedAcrossRestarts!Next
<1>6. CASE UNCHANGED << LogicalHistory,
                        IF phase = "applying" THEN outcomes ELSE << >> >>
  BY <1>3, <1>6 DEF ReplyHeld
<1> QED BY <1>2, <1>4, <1>5, <1>6 DEF Promised!Next

(* Saving, restoring and being ready again change nothing a caller sees. *)
LEMMA RestartingIsUnseen ==
  ASSUME ReplayInv, ReplayInv', Restart \/ RestoreNext \/ RestoreDone
  PROVE  UNCHANGED << KeptHistory, ReplyHeld >>
<1>1. CASE Restart
  BY <1>1 DEF Restart, KeptHistory, LogicalHistory, ReplyHeld, batch
<1>2. CASE RestoreNext
  <2>1. mode = "restoring" /\ RestoringInv /\ TypeOK
    BY <1>2 DEF RestoreNext, ReplayInv
  <2>2. mode' = "restoring" /\ RestoringInv'
    BY <1>2, <2>1, RestoreStep
  <2>3. image' = image /\ phase = "validating" /\ phase' = "validating"
    BY <1>2, <2>1, <2>2 DEF RestoreNext, RestoringInv, Idle
  <2> QED BY <2>1, <2>2, <2>3 DEF KeptHistory, ReplyHeld
<1>3. CASE RestoreDone
  <2>1. /\ mode = "restoring" /\ mode' = "running" /\ RestoringInv /\ TypeOK
        /\ Len(records) = Len(image) /\ UNCHANGED vars
    BY <1>3 DEF RestoreDone, Restored, ReplayInv
  <2>2. records = image
    BY <2>1, RestoredRecords
  <2>3. /\ phase = "validating" /\ phase' = "validating"
        /\ records' = records
    BY <2>1 DEF RestoringInv, Idle, vars, committed, batch
  <2> QED BY <2>1, <2>2, <2>3 DEF KeptHistory, ReplyHeld, LogicalHistory
<1> QED BY <1>1, <1>2, <1>3

LEMMA PromiseKeptAcross ==
  ASSUME ReplayInv, ReplayInv', [ReplayNext]_replayVars
  PROVE  [PromisedAcrossRestarts!Next]_<< KeptHistory, ReplyHeld >>
<1>1. CASE Appending
  <2>1. RunningInv /\ TypeOK /\ TypeOK'
    BY <1>1 DEF Appending, ReplayInv
  <2> QED BY <1>1, <2>1, AppendingKeepsPromise DEF RunningInv
<1>2. CASE Restart \/ RestoreNext \/ RestoreDone
  BY <1>2, RestartingIsUnseen
<1>3. CASE UNCHANGED replayVars
  BY <1>3 DEF replayVars, vars, committed, batch, KeptHistory, ReplyHeld,
     LogicalHistory, StagedRecords
<1> QED BY <1>1, <1>2, <1>3 DEF ReplayNext

LEMMA PromiseStarts ==
  ASSUME ReplayInit
  PROVE  PromisedAcrossRestarts!Init
BY DEF ReplayInit, Init, PromisedAcrossRestarts!Init, LogicalHistory

-----------------------------------------------------------------------------
(* The properties, for every choice of identities, drafts and limits. *)

(* Running or restoring, the records are ones that restore: each of them    *)
(* passes validation again, alone, against the indexes of the records       *)
(* before it (append_batch_with_authority and Ledger::restore).             *)
THEOREM ReplayInvariant ==
  ArtifactsKeepSession => (ReplaySpec => []ReplayInv)
<1> SUFFICES ASSUME ArtifactsKeepSession
             PROVE  ReplaySpec => []ReplayInv
  OBVIOUS
<1>1. ReplayInit => ReplayInv
  BY ReplayInvInit
<1>2. ReplayInv /\ [ReplayNext]_replayVars => ReplayInv'
  BY ReplayInvStep
<1> QED BY <1>1, <1>2, PTL DEF ReplaySpec

(* A history that was committed is never refused by the restore that        *)
(* revalidates it record by record: not its identities, not its entities,   *)
(* not the decisions its status changes cite (the error returns of the      *)
(* replay loop in Ledger::restore).                                         *)
THEOREM RestoreIsAccepted ==
  ArtifactsKeepSession => (ReplaySpec => []RestoreNeverRejects)
<1>1. ReplayInv => RestoreNeverRejects
  BY DEF ReplayInv, RestoreNeverRejects
<1> QED BY <1>1, ReplayInvariant, PTL

(* A restored ledger has the records it saved and, links aside, every view, *)
(* subject entry, lineage list and invalidation it had (Ledger::restore and *)
(* apply_staged_entity).                                                    *)
THEOREM RestoreRebuilds ==
  ArtifactsKeepSession => (ReplaySpec => []RestoreRebuildsState)
<1> SUFFICES ASSUME ArtifactsKeepSession
             PROVE  ReplaySpec => []RestoreRebuildsState
  OBVIOUS
<1>1. ReplayInv => RestoreRebuildsState
  <2> SUFFICES ASSUME ReplayInv PROVE RestoreRebuildsState
    OBVIOUS
  <2>1. CASE Restored
    <3>1. TypeOK /\ RestoringInv
      BY <2>1 DEF Restored, ReplayInv
    <3> QED BY <2>1, <3>1, RebuiltState
  <2>2. CASE ~Restored
    BY <2>2 DEF RestoreRebuildsState
  <2> QED BY <2>1, <2>2
<1>2. ReplaySpec => []ReplayInv
  BY ReplayInvariant
<1> QED BY <1>1, <1>2, PTL

(* Before a restart, while restoring and after it, no record identity is    *)
(* in the history twice (the duplicate checks of Ledger::restore and        *)
(* append_batch_with_authority).                                            *)
THEOREM IdsStayUnique ==
  ArtifactsKeepSession => (ReplaySpec => []RecordIdsUnique)
<1>1. ReplayInv => RecordIdsUnique
  BY ReplayInvIds
<1> QED BY <1>1, ReplayInvariant, PTL

(* A running ledger keeps every promise of the commit path, however often   *)
(* it was restarted (append_batch_with_authority over what Ledger::restore  *)
(* rebuilt).                                                                *)
THEOREM RestartsKeepSafety ==
  ArtifactsKeepSession =>
    (ReplaySpec => [](mode = "running" =>
       /\ TerminalExclusive /\ ClosedSessionsStayClosed
       /\ CancelledAttemptsStayQuiet /\ StatusChangesAuthorized
       /\ ReferencesPointBack /\ RevisionsFormAChain /\ ApplyCannotFail))
<1>1. ReplayInv /\ mode = "running" =>
       /\ TerminalExclusive /\ ClosedSessionsStayClosed
       /\ CancelledAttemptsStayQuiet /\ StatusChangesAuthorized
       /\ ReferencesPointBack /\ RevisionsFormAChain /\ ApplyCannotFail
  <2>1. ReplayInv /\ mode = "running" => TypeOK /\ LifeInv
    BY DEF ReplayInv, RunningInv
  <2> QED BY <2>1, LifeExcludesTerminals, LifeKeepsClosed, LifeKeepsQuiet,
          LifeAuthorizesChanges, LifePointsBack, LifeChains, LifeApplies
<1> QED BY <1>1, ReplayInvariant, PTL

(* The ledger implements the append-only history across restarts: the       *)
(* history only grows, by whole batches under new identities, and saving    *)
(* and restoring it are steps no caller sees (append_batch_with_authority,  *)
(* Ledger::save and Ledger::restore).                                       *)
THEOREM HistoryIsKept ==
  ArtifactsKeepSession => (ReplaySpec => HistorySurvivesRestarts)
<1> SUFFICES ASSUME ArtifactsKeepSession
             PROVE  ReplaySpec => HistorySurvivesRestarts
  OBVIOUS
<1>1. ReplaySpec => []ReplayInv
  BY ReplayInvariant
<1>2. ReplayInit => PromisedAcrossRestarts!Init
  BY PromiseStarts
<1>3. ReplayInv /\ ReplayInv' /\ [ReplayNext]_replayVars =>
        [PromisedAcrossRestarts!Next]_<< KeptHistory, ReplyHeld >>
  BY PromiseKeptAcross
<1>4. ReplayInv /\ ReplayInv' /\ [ReplayNext]_replayVars =>
        [PromisedAcrossRestarts!Next]_<<
          IF mode = "running" THEN LogicalHistory ELSE image,
          IF phase = "applying" THEN outcomes ELSE << >> >>
  BY <1>3 DEF KeptHistory, ReplyHeld
<1> QED BY <1>1, <1>2, <1>4, PTL
        DEF ReplaySpec, HistorySurvivesRestarts, PromisedAcrossRestarts!Spec

=============================================================================

---------------------------- MODULE LedgerSafety ----------------------------
(***************************************************************************)
(* What the commit path promises, stated over the committed history and the *)
(* indexes built from it.                                                   *)
(***************************************************************************)
EXTENDS LedgerCommit

(* The entity of an entry is a view of the kind of the slot it is kept for. *)
EntityFitsKey(s) ==
  /\ s.key = None <=> s.draft.type = "AccountingRecorded"
  /\ s.key # None => s.key = s.draft.body.id /\ ViewOf(s.key, s.entity)

(* Every slot of every index holds a view of the kind its identity domain   *)
(* calls for, and a staged entry carries a view of the kind of its slot:    *)
(* the std::get_if of apply_staged_entity never comes back empty.           *)
TypeOK ==
  /\ records \in Seq(Record)
  /\ staged \in Seq(Entry)
  /\ \A i \in DOMAIN staged : EntityFitsKey(staged[i])
  /\ DOMAIN view = Entity
  /\ \A x \in Entity : view[x] # None => ViewOf(x, view[x])
  /\ DOMAIN latest = Entity
  /\ \A x \in Entity : latest[x] # None => ViewOf(x, latest[x])
  /\ subject_index \in [ Subject -> Opt(Session) ]
  /\ front \in [ Subject -> Opt(Session) ]
  /\ children \in [ Entity -> SUBSET Entity ]
  /\ invalidated_at \in [ Artifact -> Nat ]
  /\ outcomes \in Seq(Outcome)
  /\ phase \in { "validating", "applying" }

-----------------------------------------------------------------------------
Types(types) == { i \in DOMAIN records : records[i].draft.type \in types }

Of(x, types) == { i \in Types(types) : records[i].draft.body.id = x }

DeclaringType ==
  { "SessionOpened", "HypothesisDeclared", "ExperimentDeclared",
    "BranchDeclared", "AttemptStarted", "ModelCallRecorded",
    "ToolCallRecorded", "MetricDeclared", "ObservationRecorded",
    "FailureRecorded", "DecisionRecorded", "ResultDeclared" }

(* "Nothing below can fail": whatever an entry about to be applied wants to *)
(* be listed in is there already, so no index update is skipped, and a      *)
(* declaration never overwrites an entity that exists.  Both depend on what *)
(* was validated against a batch only partly staged.                        *)
ApplyCannotFail ==
  phase = "applying" /\ staged # << >> =>
    LET s == Head(staged) IN
    /\ \A x \in LinkTargets(s) \cup ListOwners(s) : view[x] # None
    /\ s.draft.type \in DeclaringType => view[s.key] = None

(* Terminal states are exclusive: one attempt never has two terminal        *)
(* records, of one kind or of two, even when a batch carries both.          *)
TerminalExclusive ==
  \A a \in Attempt : \A i, j \in Of(a, TerminalType) : i = j

(* A closed session never takes new research: after its closing record only *)
(* annotations follow, in the same batch or any later one.                  *)
ClosedSessionsStayClosed ==
  \A i \in Types({ "SessionClosed" }) : \A j \in DOMAIN records :
    j > i /\ records[j].session = records[i].session =>
      records[j].draft.type = "SessionAnnotation"

(* Once an attempt is cancelled no call and no observation is recorded      *)
(* under it.                                                                *)
CancelledAttemptsStayQuiet ==
  \A i \in Types({ "AttemptCancelled" }) :
    \A j \in Types({ "ModelCallRecorded", "ToolCallRecorded",
                     "ObservationRecorded" }) :
      records[j].draft.body.attempt = records[i].draft.body.id => j < i

(* d cites only records among the first n, each about the cited subject.    *)
CitesCommitted(d, n) ==
  d.type = "DecisionRecorded" =>
    \A e \in d.body.evidence :
      /\ e.sequence \in 1 .. n
      /\ records[e.sequence].subject = e.subject

(* Evidence added later never becomes evidence an earlier decision          *)
(* considered: a decision cites records before its own, about the subjects  *)
(* it names.                                                                *)
EvidencePrecedesDecision ==
  \A i \in DOMAIN records : CitesCommitted(records[i].draft, i - 1)

(* A result's status never changes without a decision committed before the  *)
(* change, about this result, whose outcome authorizes the new status.      *)
StatusChangesAuthorized ==
  \A j \in Types({ "ResultStatusChanged" }) :
    LET change == records[j].draft.body IN
    \E i \in Of(change.decision, { "DecisionRecorded" }) :
      /\ i < j
      /\ records[i].draft.body.subject = change.id
      /\ change.to \in StatusesOfOutcome[records[i].draft.body.outcome]

(* The revisions of a hypothesis or a result form one chain: each change    *)
(* starts at the status the one before it left and takes the next           *)
(* generation, and once a batch is through the index shows the last link.   *)
(* Two revisions in one batch, or a batch built on a stale view, would fork *)
(* the chain.                                                               *)
ChangesOf(x) == Of(x, { "HypothesisStatusChanged", "ResultStatusChanged" })

RevisionsFormAChain ==
  \A x \in Hypothesis \cup Result :
    /\ \A j \in ChangesOf(x) :
         LET earlier == { i \in ChangesOf(x) : i < j }
             change == records[j].draft.body IN
         /\ change.generation = Cardinality(earlier) + 2
         /\ IF earlier = {} THEN change.from \in { "Candidate", "Proposed" }
            ELSE \E i \in earlier :
                   /\ \A k \in earlier : k <= i
                   /\ change.from = records[i].draft.body.to
    /\ phase = "validating" /\ view[x] # None =>
         /\ view[x].generation = Cardinality(ChangesOf(x)) + 1
         /\ \A j \in ChangesOf(x) :
              (\A i \in ChangesOf(x) : i <= j) =>
                view[x].status = records[j].draft.body.to

(* What a record refers to within its session, by the fields that           *)
(* validation resolves with a session check.                                *)
References(d) ==
  LET b == d.body IN
  CASE d.type = "HypothesisDeclared" -> { b.session, b.parent }
    [] d.type = "ExperimentDeclared" ->
         { b.session, b.branch, b.parent } \cup b.hypotheses
    [] d.type = "BranchDeclared" -> { b.session, b.parent }
    [] d.type = "AttemptStarted" -> { b.experiment, b.branch }
    [] d.type = "ModelCallRecorded" -> { b.attempt } \cup b.parents
    [] d.type = "ToolCallRecorded" -> { b.attempt }
    [] d.type = "ObservationRecorded" -> { b.attempt, b.metric }
    [] d.type = "ArtifactReferenced" ->
         { b.session, b.producer } \cup b.parents
    [] d.type = "MetricDeclared" -> { b.session }
    [] d.type = "FailureRecorded" -> { b.scope, b.recovery }
    [] d.type = "DecisionRecorded" -> { b.session, b.subject }
    [] d.type = "ResultDeclared" -> { b.session } \cup b.support
    [] OTHER -> { b.id }

(* Every reference a record makes is to an entity that an earlier record of *)
(* the same session declared or changed, however the batches cut the        *)
(* history: lineage never dangles, never crosses sessions, never points     *)
(* forward.                                                                 *)
ReferencesPointBack ==
  \A j \in DOMAIN records :
    records[j].draft.type # "SessionOpened" =>
      \A x \in References(records[j].draft) \ { None } :
        \E i \in Of(x, RecordType \ { "AccountingRecorded" }) :
          i < j /\ records[i].session = records[j].session

(* A record identity is committed once, whether it was supplied or derived, *)
(* repeated in one batch, or sent again later.                              *)
RecordIdsUnique ==
  \A i, j \in DOMAIN records :
    records[i].record_id = records[j].record_id => i = j

-----------------------------------------------------------------------------
(* The commit path implements the append-only history its callers rely on:  *)
(* a batch becomes history at Commit, all of it, in the order it was        *)
(* validated and with the sequences it is told; rejecting a batch and       *)
(* applying one are steps a caller cannot see.                              *)
StagedRecord(s) ==
  [ draft |-> s.draft, record_id |-> s.record_id, subject |-> s.subject,
    session |-> s.session ]

StagedRecords == [ i \in DOMAIN staged |-> StagedRecord(staged[i]) ]

LogicalHistory ==
  IF phase = "applying" THEN records \o StagedRecords ELSE records

Promised ==
  INSTANCE AppendOnlyHistory WITH
    Supplied <- RecordId,
    history <- LogicalHistory,
    reply <- IF phase = "applying" THEN outcomes ELSE << >>

KeepsItsPromise == Promised!Spec

=============================================================================

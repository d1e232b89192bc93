------------------------ MODULE LedgerEvidenceProofs ------------------------
(***************************************************************************)
(* Proofs of what the queries promise (LedgerEvidence).  A query reads the  *)
(* indexes; LedgerViews says what the records make of each index entry; so  *)
(* each answer is put down to the records up to the watermark, which never  *)
(* change.                                                                  *)
(***************************************************************************)
EXTENDS LedgerViews, LedgerEvidence, NaturalsInduction, WellFoundedInduction

(* Taking a snapshot and querying it leave the ledger alone: whatever the   *)
(* ledger promises by itself it promises beside its readers.                *)
THEOREM QueriesOnlyRead == QuerySpec => Spec
<1>1. QueryInit => Init
  BY DEF QueryInit
<1>2. [QueryNext]_queryVars => [Next]_vars
  BY DEF QueryNext, queryVars, Appending, TakeSnapshot
<1> QED BY <1>1, <1>2, PTL DEF QuerySpec, Spec

(* What is known of the ledger between any two steps.                       *)
LedgerInv ==
  /\ TypeOK /\ LifeInv /\ PictureInv
  /\ RecordIdsUnique /\ EvidencePrecedesDecision

LEMMA QueriedLedger == QuerySpec => []LedgerInv
<1>1. LedgerInv <=> /\ TypeOK /\ LifeInv /\ PictureInv
                    /\ RecordIdsUnique /\ EvidencePrecedesDecision
  BY DEF LedgerInv
<1> QED BY <1>1, QueriesOnlyRead, ViewsAreHistory, RecordIdsNeverRepeat,
           EvidenceNeverLate, PTL

-----------------------------------------------------------------------------
(* The committed records *)

(* The place of the record a view was declared by, under its name.          *)
LEMMA Settled ==
  ASSUME LedgerInv
  PROVE  /\ Len(records) \in Nat /\ DOMAIN records = 1 .. Len(records)
         /\ \A i \in 1 .. Len(records) : Follows(records, i)
         /\ \A i \in 1 .. Len(records) : Builds(records, i)
         /\ \A i \in 1 .. Len(records) : records[i].draft \in Drafts
         /\ \A x \in Entity : Shows(records, Len(records), x, view[x])
         /\ \A x \in Entity : Depicts(records, Len(records), x, view[x])
         /\ \A x \in Entity : view[x] # None => ViewOf(x, view[x])
         /\ \A x, types : \A i : i \in Of(x, types) <=>
              i \in 1 .. Len(records) /\ TypedAbout(records, i, types, x)
<1> DEFINE n == Len(records)
<1>1. TypeOK /\ LifeInv /\ DepictedInv
  BY DEF LedgerInv, PictureInv
<1>2. /\ n \in Nat /\ DOMAIN records = 1 .. n
      /\ \A i \in 1 .. n : Follows(records, i)
      /\ \A i \in 1 .. n : records[i].draft \in Drafts
      /\ \A x \in Entity : Shows(records, n, x, view[x])
      /\ \A x, types : \A i : i \in Of(x, types) <=>
           i \in 1 .. n /\ TypedAbout(records, i, types, x)
  BY <1>1, CommittedHistory
<1>3. n <= Extended /\ Extended \in Nat
  <2>1. Len(staged) \in Nat
    BY <1>1 DEF TypeOK
  <2> QED BY <1>2, <2>1 DEF Extended
<1>4. \A i \in 1 .. n : i \in 1 .. Extended /\ Whole[i] = records[i]
  BY <1>2, <1>3 DEF Whole
<1>5. Agree(records, Whole, n)
  BY <1>4 DEF Agree
<1>6. \A x \in Entity : Depicts(records, n, x, view[x])
  BY <1>1, <1>2, <1>5, AgreeOnDepicts DEF DepictedInv
<1>7. ASSUME NEW i \in 1 .. n
      PROVE  Builds(records, i)
  <2>1. Builds(Whole, i)
    BY <1>1, <1>4, <1>7 DEF DepictedInv
  <2>2. Agree(records, Whole, i) /\ i \in Nat \ { 0 }
    BY <1>2, <1>4, <1>7 DEF Agree
  <2> QED BY <2>1, <2>2, AgreeOnBuilds
<1>8. \A x \in Entity : view[x] # None => ViewOf(x, view[x])
  BY <1>1 DEF TypeOK
<1> QED BY <1>2, <1>6, <1>7, <1>8

(* An entity is declared once, before all else about it.                    *)
LEMMA DeclaredFirst ==
  ASSUME LedgerInv, NEW x, NEW at, DeclaredAs(records, Len(records), x, at)
  PROVE  /\ \A i \in 1 .. Len(records) : About(records, i, x) => at <= i
         /\ \A k : DeclaredAs(records, Len(records), x, k) => k = at
<1>1. \A i \in 1 .. Len(records) : IsNew(records, i)
  BY Settled DEF Follows
<1>2. Len(records) \in Nat
  BY Settled
<1>3. ASSUME NEW i \in 1 .. Len(records), NEW k,
             About(records, i, x), DeclaredAs(records, Len(records), x, k)
      PROVE  k <= i
  <2>1. /\ k \in 1 .. Len(records) /\ IsNew(records, k)
        /\ records[k].draft.type \in DeclaringType
        /\ records[k].draft.body.id = x
    BY <1>1, <1>3 DEF DeclaredAs, TypedAbout
  <2>2. \A j \in 1 .. k - 1 : ~About(records, j, x)
    BY <2>1 DEF IsNew
  <2> QED BY <1>2, <1>3, <2>1, <2>2
<1>4. ASSUME NEW k, DeclaredAs(records, Len(records), x, k)
      PROVE  k \in 1 .. Len(records) /\ About(records, k, x)
  BY <1>4 DEF DeclaredAs, TypedAbout, About, DeclaringType
<1>5. ASSUME NEW k, DeclaredAs(records, Len(records), x, k)
      PROVE  k = at
  <2>1. k <= at /\ at <= k /\ k \in 1 .. Len(records) /\ at \in 1 .. Len(records)
    BY <1>3, <1>4, <1>5
  <2> QED BY <1>2, <2>1
<1> QED BY <1>3, <1>5

(* What a record is about is there.                                         *)
LEMMA AboutIsThere ==
  ASSUME LedgerInv, NEW i \in 1 .. Len(records), NEW x \in Entity,
         About(records, i, x)
  PROVE  view[x] # None
<1>1. Shows(records, Len(records), x, view[x])
  BY Settled
<1> QED BY <1>1 DEF Shows

(* The field a view keeps the place of its declaration in.                  *)
Born(x) ==
  CASE x \in Session -> view[x].opened_at
    [] x \in Attempt -> view[x].started_at
    [] x \in Hypothesis \cup Experiment \cup Branch \cup Result \cup Metric ->
         view[x].declared_at
    [] OTHER -> view[x].recorded_at

LEMMA BornAtDeclaration ==
  ASSUME LedgerInv, NEW x \in Entity \ Artifact, view[x] # None
  PROVE  DeclaredAs(records, Len(records), x, Born(x))
<1>1. Depicts(records, Len(records), x, view[x])
  BY Settled
<1>2. CASE x \in Session
  BY <1>1, <1>2, IdentityDomains DEF Depicts, DepictsSession, Born
<1>3. CASE x \in Attempt
  BY <1>1, <1>3, IdentityDomains DEF Depicts, DepictsAttempt, Born
<1>4. CASE x \in Hypothesis \cup Experiment \cup Branch
  <2>1. DeclaredAs(records, Len(records), x, view[x].declared_at)
    BY <1>1, <1>4 DEF Depicts, DepictsHypothesis, DepictsExperiment,
       DepictsBranch
  <2> QED BY <1>4, <2>1, IdentityDomains DEF Born
<1>5. CASE x \in Result \cup Metric
  <2>1. DeclaredAs(records, Len(records), x, view[x].declared_at)
    BY <1>1, <1>5 DEF Depicts, DepictsResult, DepictsMetric
  <2> QED BY <1>5, <2>1, IdentityDomains DEF Born
<1>6. CASE x \in ModelCall \cup ToolCall \cup Observation \cup Failure
                   \cup Decision
  <2>1. DeclaredAs(records, Len(records), x, view[x].recorded_at)
    BY <1>1, <1>6 DEF Depicts, DepictsModelCall, DepictsToolCall,
       DepictsObservation, DepictsFailure, DepictsDecision
  <2>2. x \notin Session /\ x \notin Attempt
        /\ x \notin Hypothesis \cup Experiment \cup Branch \cup Result
                      \cup Metric
    BY <1>6, IdentityDomains
  <2> QED BY <2>1, <2>2 DEF Born
<1> QED BY <1>2, <1>3, <1>4, <1>5, <1>6 DEF Entity, Subject

-----------------------------------------------------------------------------
(* verify *)

(* The records' identities are as many as the records.                      *)
LEMMA IdentitiesCounted ==
  ASSUME LedgerInv
  PROVE  IdentityIssues(Now) = {}
<1> DEFINE n == Len(records)
           f == [ i \in 1 .. n |-> records[i].record_id ]
           S == { records[i].record_id : i \in DOMAIN records }
<1>1. n \in Nat /\ DOMAIN records = 1 .. n
  BY Settled
<1>2. \A i, j \in 1 .. n : f[i] = f[j] => i = j
  BY <1>1 DEF LedgerInv, RecordIdsUnique
<1>3. f \in Bijection(1 .. n, S)
  <2>1. f \in [ 1 .. n -> S ]
    BY <1>1
  <2>2. \A t \in S : \E i \in 1 .. n : f[i] = t
    BY <1>1
  <2>3. DOMAIN f = 1 .. n
    OBVIOUS
  <2> HIDE DEF f, S, n
  <2> QED BY <1>2, <2>1, <2>2, <2>3
          DEF Bijection, Injection, Surjection, IsInjective
<1> HIDE DEF n
<1>4. IsFiniteSet(1 .. n) /\ Cardinality(1 .. n) = n
  <2>1. n \in Int /\ 1 \in Int
    BY <1>1
  <2>2. Cardinality(1 .. n) = IF 1 > n THEN 0 ELSE n - 1 + 1
    BY <2>1, FS_Interval
  <2>3. IsFiniteSet(1 .. n)
    BY <2>1, FS_Interval
  <2> QED BY <1>1, <2>2, <2>3
<1>5. Cardinality(S) = n
  <2> HIDE DEF f, S
  <2>1. ExistsBijection(1 .. n, S)
    BY <1>3 DEF ExistsBijection
  <2> QED BY <1>4, <2>1, FS_Bijection
<1> QED BY <1>5 DEF IdentityIssues, Now, n

(* A parent that a record names was declared before it.                     *)
LEMMA ParentsPrecede ==
  ASSUME LedgerInv, NEW x \in Entity, NEW p \in Entity \ Artifact,
         NEW at \in 1 .. Len(records),
         records[at].draft.type # "SessionOpened",
         p \in References(records[at].draft)
  PROVE  /\ view[p] # None /\ Born(p) \in 1 .. Len(records)
         /\ Born(p) < at
<1>1. p # None
  BY NoneAssumption
<1>2. PointsBack(records, at)
  BY Settled DEF Follows
<1>3. PICK i \in 1 .. at - 1 : About(records, i, p)
  BY <1>1, <1>2 DEF PointsBack, HasHome
<1>4. Len(records) \in Nat /\ i \in 1 .. Len(records) /\ i < at
  BY <1>3, Settled
<1>5. view[p] # None
  BY <1>3, <1>4, AboutIsThere
<1>6. DeclaredAs(records, Len(records), p, Born(p))
  BY <1>5, BornAtDeclaration
<1>7. Born(p) <= i
  BY <1>3, <1>4, <1>6, DeclaredFirst
<1> QED BY <1>4, <1>5, <1>6, <1>7 DEF DeclaredAs

LEMMA HypothesesPrecede ==
  ASSUME LedgerInv, NEW x \in Hypothesis, view[x] # None,
         NEW p \in ParentOf(Now, x)
  PROVE  /\ p \in Hypothesis /\ view[p] # None
         /\ view[p].declared_at < view[x].declared_at
<1>1. x \in Entity /\ ViewOf(x, view[x])
  BY Settled DEF Entity, Subject
<1>2. p = view[x].parent /\ p # None
  BY DEF ParentOf, Now
<1>3. p \in Hypothesis
  BY <1>1, <1>2 DEF ViewOf, HypothesisView, Opt
<1>4. DepictsHypothesis(records, Len(records), x, view[x])
  BY <1>1, Settled DEF Depicts
<1> DEFINE at == view[x].declared_at
<1>5. /\ at \in 1 .. Len(records)
      /\ TypedAbout(records, at, DeclaringType, x)
      /\ p = records[at].draft.body.parent
  BY <1>2, <1>4 DEF DepictsHypothesis, DeclaredAs
<1>6. records[at].draft.type = "HypothesisDeclared"
  <2>1. records[at].draft \in Drafts /\ records[at].draft.body.id = x
        /\ records[at].draft.type \in DeclaringType
    BY <1>5, Settled DEF TypedAbout
  <2>2. records[at].draft.type # "AccountingRecorded"
        /\ records[at].draft.type # "HypothesisStatusChanged"
    BY <2>1 DEF DeclaringType
  <2> QED BY <2>1, <2>2, MoreTypesOfKinds
<1>7. p \in References(records[at].draft)
  BY <1>5, <1>6 DEF References
<1>8. p \in Entity \ Artifact /\ Born(p) = view[p].declared_at
  BY <1>3, IdentityDomains DEF Entity, Subject, Born
<1> HIDE DEF at
<1>9. view[p] # None /\ Born(p) < at
  BY <1>1, <1>5, <1>6, <1>7, <1>8, ParentsPrecede
<1> QED BY <1>3, <1>8, <1>9 DEF at

LEMMA BranchesPrecede ==
  ASSUME LedgerInv, NEW x \in Branch, view[x] # None,
         NEW p \in ParentOf(Now, x)
  PROVE  /\ p \in Branch /\ view[p] # None
         /\ view[p].declared_at < view[x].declared_at
<1>1. x \in Entity /\ ViewOf(x, view[x])
  BY Settled DEF Entity, Subject
<1>2. p = view[x].parent /\ p # None
  BY DEF ParentOf, Now
<1>3. p \in Branch
  BY <1>1, <1>2 DEF ViewOf, BranchView, Opt
<1>4. DepictsBranch(records, Len(records), x, view[x])
  BY <1>1, Settled DEF Depicts
<1> DEFINE at == view[x].declared_at
<1>5. /\ at \in 1 .. Len(records)
      /\ TypedAbout(records, at, DeclaringType, x)
      /\ p = records[at].draft.body.parent
  BY <1>2, <1>4 DEF DepictsBranch, DeclaredAs
<1>6. records[at].draft.type = "BranchDeclared"
  <2>1. records[at].draft \in Drafts /\ records[at].draft.body.id = x
        /\ records[at].draft.type \in DeclaringType
    BY <1>5, Settled DEF TypedAbout
  <2>2. records[at].draft.type # "AccountingRecorded"
    BY <2>1 DEF DeclaringType
  <2> QED BY <2>1, <2>2, MoreTypesOfKinds
<1>7. p \in References(records[at].draft)
  BY <1>5, <1>6 DEF References
<1>8. p \in Entity \ Artifact /\ Born(p) = view[p].declared_at
  BY <1>3, IdentityDomains DEF Entity, Subject, Born
<1> HIDE DEF at
<1>9. view[p] # None /\ Born(p) < at
  BY <1>1, <1>5, <1>6, <1>7, <1>8, ParentsPrecede
<1> QED BY <1>3, <1>8, <1>9 DEF at

(* An artifact is referenced before anything else is recorded about it.     *)
LEMMA ReferencedFirst ==
  ASSUME LedgerInv, NEW p \in Artifact, NEW i \in 1 .. Len(records),
         About(records, i, p)
  PROVE  \E j \in 1 .. i : j \in ReferencesUpTo(records, Len(records), p)
<1>1. Len(records) \in Nat
  BY Settled
<1>2. records[i].draft \in Drafts /\ records[i].draft.body.id = p
      /\ records[i].draft.type # "AccountingRecorded"
  BY Settled DEF About
<1>3. CASE records[i].draft.type = "ArtifactReferenced"
  BY <1>1, <1>2, <1>3 DEF ReferencesUpTo, TypedAbout
<1>4. CASE records[i].draft.type = "ArtifactInvalidated"
  <2>1. InvalidatesValid(records, i)
    BY Settled DEF Builds
  <2>2. PICK j \in 1 .. i - 1 : j \in ReferencesUpTo(records, i - 1, p)
    BY <1>2, <1>4, <2>1 DEF InvalidatesValid, LastOf
  <2>3. j \in 1 .. i /\ j \in ReferencesUpTo(records, Len(records), p)
    BY <1>1, <2>2 DEF ReferencesUpTo
  <2> QED BY <2>3
<1> QED BY <1>2, <1>3, <1>4, MoreTypesOfKinds

LEMMA ArtifactParents ==
  ASSUME LedgerInv, NEW x \in Artifact, view[x] # None,
         NEW p \in ParentsOfArtifact(Now, x)
  PROVE  /\ p \in Artifact /\ view[p] # None /\ p \in view[x].parents
         /\ view[p].recorded_at < view[x].recorded_at
              \/ view[p].generation > 1
<1>1. x \in Entity /\ ViewOf(x, view[x])
  BY Settled DEF Entity, Subject
<1>2. p \in view[x].parents
  BY DEF ParentsOfArtifact, Now
<1>3. p \in Artifact /\ p \in Entity
  BY <1>1, <1>2 DEF ViewOf, ArtifactView, Entity, Subject
<1>4. DepictsArtifact(records, Len(records), x, view[x])
  BY <1>1, Settled DEF Depicts
<1> DEFINE n == Len(records)
           at == view[x].recorded_at
           refs == ReferencesUpTo(records, n, p)
<1>5. /\ at \in 1 .. n
      /\ records[at].draft.type = "ArtifactReferenced"
      /\ p \in records[at].draft.body.parents
  BY <1>2, <1>4 DEF DepictsArtifact, LastOf, ReferencesUpTo, TypedAbout
<1>6. PointsBack(records, at) /\ n \in Nat
  BY <1>5, Settled DEF Follows
<1>7. p \in References(records[at].draft) /\ p # None
  BY <1>3, <1>5, NoneAssumption DEF References
<1>8. PICK i \in 1 .. at - 1 : About(records, i, p)
  BY <1>5, <1>6, <1>7 DEF PointsBack, HasHome
<1>9. i \in 1 .. n
  BY <1>5, <1>6, <1>8
<1>10. view[p] # None
  BY <1>3, <1>8, <1>9, AboutIsThere
<1>11. PICK j \in 1 .. i : j \in refs
  BY <1>3, <1>8, <1>9, ReferencedFirst
<1>12. /\ LastOf(refs, view[p].recorded_at)
       /\ view[p].generation = Cardinality(refs)
  <2>1. DepictsArtifact(records, n, p, view[p])
    BY <1>3, <1>10, Settled DEF Depicts
  <2> QED BY <2>1 DEF DepictsArtifact
<1>13. CASE view[p].recorded_at = j
  BY <1>2, <1>3, <1>5, <1>6, <1>8, <1>9, <1>10, <1>11, <1>13
<1>14. CASE view[p].recorded_at # j
  <2> DEFINE k == view[p].recorded_at
  <2>1. k \in refs /\ j \in refs /\ k # j
    BY <1>11, <1>12, <1>14 DEF LastOf
  <2>2. refs \subseteq 1 .. n
    BY DEF ReferencesUpTo
  <2> HIDE DEF refs, k
  <2>3. IsFiniteSet(refs) /\ IsFiniteSet({ k, j })
    <3>1. IsFiniteSet(1 .. n)
      BY <1>6, FS_Interval
    <3>2. IsFiniteSet(refs)
      BY <2>2, <3>1, FS_Subset
    <3> QED BY <2>1, <3>2, FS_Subset
  <2>4. Cardinality({ k, j }) = 2
    <3>1. IsFiniteSet({ k }) /\ Cardinality({ k }) = 1
      BY FS_Singleton
    <3>2. { k, j } = { k } \cup { j } /\ j \notin { k }
      BY <2>1
    <3> QED BY <3>1, <3>2, FS_AddElement
  <2>5. Cardinality({ k, j }) <= Cardinality(refs)
        /\ Cardinality(refs) \in Nat
    BY <2>1, <2>3, FS_Subset, FS_CardinalityType
  <2>6. view[p].generation > 1
    BY <1>12, <2>4, <2>5
  <2> QED BY <1>2, <1>3, <1>10, <2>6
<1> QED BY <1>13, <1>14

LEMMA DecisionsRest ==
  ASSUME LedgerInv
  PROVE  EvidenceIssues(Now) = {}
<1> DEFINE n == Len(records)
<1>1. n \in Nat /\ DOMAIN records = 1 .. n
  BY Settled
<1>2. ASSUME NEW d \in Decision, view[d] # None, NEW e \in view[d].evidence
      PROVE  /\ ~Untimely(Now, e, d)
             /\ records[e.sequence].subject = e.subject
  <2>1. DepictsDecision(records, n, d, view[d])
    BY <1>2, Settled DEF Depicts, Entity, Subject
  <2> DEFINE at == view[d].recorded_at
  <2>2. /\ at \in 1 .. n /\ records[at].draft.type \in DeclaringType
        /\ records[at].draft.body.id = d
        /\ e \in records[at].draft.body.evidence
    BY <1>2, <2>1 DEF DepictsDecision, DeclaredAs, TypedAbout
  <2>3. records[at].draft.type = "DecisionRecorded"
    BY <2>2, Settled, TypesOfKinds DEF DeclaringType
  <2>4. CitesCommitted(records[at].draft, at - 1)
    BY <1>1, <2>2 DEF LedgerInv, EvidencePrecedesDecision
  <2>5. /\ e.sequence \in 1 .. at - 1
        /\ records[e.sequence].subject = e.subject
    BY <2>2, <2>3, <2>4 DEF CitesCommitted
  <2>6. e.sequence # 0 /\ e.sequence <= n /\ e.sequence < at
    BY <1>1, <2>2, <2>5
  <2> QED BY <1>1, <2>2, <2>5, <2>6 DEF Untimely, Now
<1> HIDE DEF n
<1> DEFINE cited == UNION { { d } \X Now.view[d].evidence :
                         d \in { x \in Decision : Now.view[x] # None } }
<1>3. ASSUME NEW c \in cited
      PROVE  /\ ~Untimely(Now, c[2], c[1])
             /\ Now.records[c[2].sequence].subject = c[2].subject
  <2>1. PICK d \in Decision :
          view[d] # None /\ c \in { d } \X view[d].evidence
    BY <1>3 DEF Now
  <2>2. c[1] = d /\ c[2] \in view[d].evidence
    BY <2>1
  <2> QED BY <1>2, <2>1, <2>2 DEF Now
<1>4. EvidenceIssues(Now) =
        { [ code |-> "INVALID_TRANSITION", subject |-> c[1] ] :
            c \in { x \in cited : Untimely(Now, x[2], x[1]) } }
        \cup
        { [ code |-> "BROKEN_LINEAGE", subject |-> c[1] ] :
            c \in { x \in cited :
                      /\ ~Untimely(Now, x[2], x[1])
                      /\ Now.records[x[2].sequence].subject # x[2].subject } }
  BY DEF EvidenceIssues
<1> HIDE DEF cited
<1> QED BY <1>3, <1>4

(* The edges from x to its parents, in a way that names no operator.        *)
LEMMA EdgesInOrder ==
  ASSUME LedgerInv
  PROVE  /\ EdgeIssues(Now, Hypothesis, LAMBDA x : ParentOf(Now, x),
                       "declared_at") = {}
         /\ EdgeIssues(Now, Branch, LAMBDA x : ParentOf(Now, x),
                       "declared_at") = {}
         /\ \A issue \in EdgeIssues(Now, Artifact,
                                    LAMBDA x : ParentsOfArtifact(Now, x),
                                    "recorded_at") :
              /\ issue.code = "LINEAGE_CYCLE" /\ issue.subject \in Artifact
              /\ \E p \in view[issue.subject].parents :
                   view[p].generation > 1
<1>1. Now.view = view
  BY DEF Now
<1>2. EdgeIssues(Now, Hypothesis, LAMBDA x : ParentOf(Now, x),
                 "declared_at") = {}
  <2>1. ASSUME NEW e \in Hypothesis \X (Artifact \cup Hypothesis \cup Branch),
               Now.view[e[1]] # None, e[2] \in ParentOf(Now, e[1])
        PROVE  /\ Now.view[e[2]] # None
               /\ Now.view[e[2]]["declared_at"] < Now.view[e[1]]["declared_at"]
    <3>1. e[1] \in Hypothesis
      BY <2>1
    <3> QED BY <1>1, <2>1, <3>1, HypothesesPrecede
  <2> QED BY <2>1 DEF EdgeIssues
<1>3. EdgeIssues(Now, Branch, LAMBDA x : ParentOf(Now, x),
                 "declared_at") = {}
  <2>1. ASSUME NEW e \in Branch \X (Artifact \cup Hypothesis \cup Branch),
               Now.view[e[1]] # None, e[2] \in ParentOf(Now, e[1])
        PROVE  /\ Now.view[e[2]] # None
               /\ Now.view[e[2]]["declared_at"] < Now.view[e[1]]["declared_at"]
    <3>1. e[1] \in Branch
      BY <2>1
    <3> QED BY <1>1, <2>1, <3>1, BranchesPrecede
  <2> QED BY <2>1 DEF EdgeIssues
<1>4. ASSUME NEW issue \in EdgeIssues(Now, Artifact,
                                     LAMBDA x : ParentsOfArtifact(Now, x),
                                     "recorded_at")
      PROVE  /\ issue.code = "LINEAGE_CYCLE" /\ issue.subject \in Artifact
             /\ \E p \in view[issue.subject].parents : view[p].generation > 1
  <2>1. ASSUME NEW e \in Artifact \X (Artifact \cup Hypothesis \cup Branch),
               Now.view[e[1]] # None, e[2] \in ParentsOfArtifact(Now, e[1])
        PROVE  /\ Now.view[e[2]] # None
               /\ e[2] \in view[e[1]].parents
               /\ \/ Now.view[e[2]]["recorded_at"]
                       < Now.view[e[1]]["recorded_at"]
                  \/ view[e[2]].generation > 1
    <3>1. e[1] \in Artifact
      BY <2>1
    <3> QED BY <1>1, <2>1, <3>1, ArtifactParents
  <2>2. PICK e \in Artifact \X (Artifact \cup Hypothesis \cup Branch) :
          /\ Now.view[e[1]] # None /\ e[2] \in ParentsOfArtifact(Now, e[1])
          /\ \/ /\ Now.view[e[2]] = None
             \/ /\ issue = [ code |-> "LINEAGE_CYCLE", subject |-> e[1] ]
                /\ ~(Now.view[e[2]]["recorded_at"]
                       < Now.view[e[1]]["recorded_at"])
    BY <1>4 DEF EdgeIssues
  <2>3. e[1] \in Artifact
    BY <2>2
  <2> QED BY <2>1, <2>2, <2>3
<1> QED BY <1>2, <1>3, <1>4

(* The integrity check accepts every history the ledger can commit, save    *)
(* for artifacts that were referenced again (ResearchLedger::verify): no    *)
(* identity twice, no dangling parent, no parent younger than its child, no *)
(* decision on evidence that came later.                                    *)
THEOREM HistoryVerifies == QuerySpec => []VerifyAcceptsHistory
<1>1. ASSUME LedgerInv PROVE VerifyAcceptsHistory
  <2>1. Now.view = view
    BY DEF Now
  <2> QED BY <1>1, IdentitiesCounted, EdgesInOrder, DecisionsRest
          DEF VerifyAcceptsHistory, Verify
<1> QED BY <1>1, QueriedLedger, PTL

-----------------------------------------------------------------------------
(* The snapshot that is held *)

AttemptsUpTo(n, e) ==
  { records[i].draft.body.id :
      i \in { j \in 1 .. n : /\ records[j].draft.type = "AttemptStarted"
                             /\ records[j].draft.body.experiment = e } }

(* The indexes as they were are what the records up to the watermark make   *)
(* of them, however many records there are by now.                          *)
HeldInv ==
  watermark # None =>
    /\ watermark \in Nat /\ watermark <= Len(records)
    /\ DOMAIN then.records = 1 .. watermark
    /\ \A i \in 1 .. watermark : then.records[i] = records[i]
    /\ \A x \in Entity :
         /\ then.view[x] # None => ViewOf(x, then.view[x])
         /\ Shows(records, watermark, x, then.view[x])
         /\ Depicts(records, watermark, x, then.view[x])
    /\ \A e \in Experiment : then.view[e] # None =>
         then.view[e].links \cap Attempt = AttemptsUpTo(watermark, e)

(* Records are only added. *)
LEMMA RecordsGrow ==
  ASSUME TypeOK, [Next]_vars
  PROVE  /\ Len(records) \in Nat /\ Len(records') \in Nat
         /\ Len(records) <= Len(records')
         /\ \A i \in 1 .. Len(records) : records'[i] = records[i]
<1>1. Len(records) \in Nat
  BY SequencesOfTheStep
<1>2. CASE AppliesOne
  BY <1>1, <1>2, AppliedRecord
<1>3. CASE records' = records
  BY <1>1, <1>3
<1> QED BY <1>2, <1>3, StepShapes DEF StagesOne, StagesNothing

LEMMA HeldKept ==
  ASSUME LedgerInv, HeldInv, [Next]_vars, UNCHANGED << watermark, then >>
  PROVE  HeldInv'
<1> SUFFICES ASSUME watermark # None PROVE HeldInv'
  BY DEF HeldInv
<1> DEFINE w == watermark
           g == records'
<1>1. /\ Len(records) \in Nat /\ Len(records') \in Nat
      /\ Len(records) <= Len(records')
      /\ \A i \in 1 .. Len(records) : g[i] = records[i]
  BY RecordsGrow DEF LedgerInv
<1>2. /\ w \in Nat /\ w <= Len(records)
      /\ DOMAIN then.records = 1 .. w
      /\ \A i \in 1 .. w : then.records[i] = records[i]
      /\ \A x \in Entity :
           /\ then.view[x] # None => ViewOf(x, then.view[x])
           /\ Shows(records, w, x, then.view[x])
           /\ Depicts(records, w, x, then.view[x])
      /\ \A e \in Experiment : then.view[e] # None =>
           then.view[e].links \cap Attempt = AttemptsUpTo(w, e)
  BY DEF HeldInv
<1>3. \A i \in 1 .. w : g[i] = records[i]
  BY <1>1, <1>2
<1>4. Agree(g, records, w)
  BY <1>3 DEF Agree
<1>5. ASSUME NEW e
      PROVE  AttemptsUpTo(w, e)' = AttemptsUpTo(w, e)
  BY <1>3 DEF AttemptsUpTo
<1> HIDE DEF g
<1>6. ASSUME NEW x \in Entity
      PROVE  /\ Shows(g, w, x, then.view[x])
             /\ Depicts(g, w, x, then.view[x])
  BY <1>2, <1>4, AgreeOnShows, AgreeOnDepicts
<1>7. /\ w \in Nat /\ w <= Len(records')
      /\ DOMAIN then.records = 1 .. w
      /\ \A i \in 1 .. w : then.records[i] = g[i]
      /\ \A x \in Entity : then.view[x] # None => ViewOf(x, then.view[x])
      /\ \A e \in Experiment : then.view[e] # None =>
           then.view[e].links \cap Attempt = AttemptsUpTo(w, e)'
  BY <1>1, <1>2, <1>3, <1>5
<1> HIDE DEF w
<1>8. w' = w /\ then' = then
  BY DEF w
<1> QED BY <1>6, <1>7, <1>8 DEF HeldInv, g, w

LEMMA HeldTaken ==
  ASSUME LedgerInv, TakeSnapshot
  PROVE  HeldInv'
<1> DEFINE n == Len(records)
<1>1. /\ watermark' = n /\ then' = Now /\ records' = records
  BY DEF TakeSnapshot, vars, committed
<1>2. /\ then'.records = records /\ then'.view = view
  BY <1>1 DEF Now
<1>3. /\ n \in Nat /\ DOMAIN records = 1 .. n
      /\ \A x \in Entity : Shows(records, n, x, view[x])
      /\ \A x \in Entity : Depicts(records, n, x, view[x])
      /\ \A x \in Entity : view[x] # None => ViewOf(x, view[x])
  BY Settled
<1>4. ASSUME NEW e \in Experiment, view[e] # None
      PROVE  view[e].links \cap Attempt = AttemptsUpTo(n, e)'
  <2>1. view[e].links \cap Attempt = AttemptsOf(e)
    BY <1>4 DEF LedgerInv, PictureInv, ListsInv
  <2> QED BY <1>1, <1>3, <2>1 DEF AttemptsOf, AttemptsUpTo
<1> HIDE DEF n
<1>5. /\ watermark' \in Nat /\ watermark' <= Len(records')
      /\ DOMAIN then'.records = 1 .. watermark'
      /\ \A i \in 1 .. watermark' : then'.records[i] = records'[i]
  BY <1>1, <1>2, <1>3 DEF n
<1>6. \A x \in Entity :
         /\ then'.view[x] # None => ViewOf(x, then'.view[x])
         /\ Shows(records', watermark', x, then'.view[x])
         /\ Depicts(records', watermark', x, then'.view[x])
  BY <1>1, <1>2, <1>3
<1>7. \A e \in Experiment : then'.view[e] # None =>
         then'.view[e].links \cap Attempt = AttemptsUpTo(n, e)'
  BY <1>2, <1>4
<1> QED BY <1>1, <1>5, <1>6, <1>7 DEF HeldInv, n

(* Whoever holds a snapshot, the records up to its watermark say what the   *)
(* indexes were.                                                            *)
THEOREM SnapshotsAreHistory == QuerySpec => [](LedgerInv /\ HeldInv)
<1>1. QueryInit => HeldInv
  BY DEF QueryInit, HeldInv
<1>2. LedgerInv /\ HeldInv /\ [QueryNext]_queryVars => HeldInv'
  <2> SUFFICES ASSUME LedgerInv, HeldInv, [QueryNext]_queryVars
               PROVE  HeldInv'
    OBVIOUS
  <2>1. CASE TakeSnapshot
    BY <2>1, HeldTaken
  <2>2. CASE Appending \/ UNCHANGED queryVars
    BY <2>2, HeldKept DEF Appending, queryVars
  <2> QED BY <2>1, <2>2 DEF QueryNext
<1> QED BY <1>1, <1>2, QueriedLedger, PTL DEF QuerySpec

-----------------------------------------------------------------------------
(* An answer is never newer than its snapshot *)

(* The changes of x up to the n-th record, as the property names them.      *)
LEMMA ChangesAre ==
  ASSUME LedgerInv, NEW x, NEW i
  PROVE  i \in ChangesOf(x) <=> i \in ChangesUpTo(records, Len(records), x)
BY Settled DEF ChangesOf, ChangesUpTo, ChangeType

LEMMA StatusFromThePast ==
  ASSUME LedgerInv, NEW x \in Hypothesis \cup Result, NEW w \in Nat, NEW v,
         NEW first, first = IF x \in Result THEN "Candidate" ELSE "Proposed",
         DepictsStatus(records, Len(records), x, v, first),
         v.last_changed_at <= w
  PROVE  << v.generation, v.status >> \in StatusesBy(x, w)
<1> DEFINE n == Len(records)
           changes == ChangesUpTo(records, n, x)
           c == v.last_changed_at
<1>1. CASE changes = {}
  <2>1. \A i \in changes : FALSE
    BY <1>1
  <2>2. ~LastOf(changes, c)
    BY <2>1 DEF LastOf
  <2>3. v.generation = 1 /\ v.status = first
    BY <2>2 DEF DepictsStatus
  <2> QED BY <2>3 DEF StatusesBy
<1>2. CASE changes # {}
  <2>1. /\ c \in changes
        /\ v.generation = records[c].draft.body.generation
        /\ v.status = records[c].draft.body.to
    BY <1>2 DEF DepictsStatus, LastOf
  <2>2. c \in { i \in ChangesOf(x) : i <= w }
    BY <2>1, ChangesAre
  <2> QED BY <2>1, <2>2 DEF StatusesBy
<1> QED BY <1>1, <1>2

(* A decision that a change rests on was recorded before the change.        *)
LEMMA DecidedBefore ==
  ASSUME LedgerInv, NEW r \in Result, NEW w \in Nat,
         NEW j \in ChangesUpTo(records, Len(records), r), j <= w
  PROVE  LET d == records[j].draft.body.decision IN
         /\ d \in Decision /\ view[d] # None
         /\ view[d].recorded_at \in 1 .. w
         /\ view[d].subject = r
         /\ d \in VisibleIn(Now, w, Decision, "recorded_at")
         /\ DecisionAt(Now, w, d) # None
<1> DEFINE d == records[j].draft.body.decision
           n == Len(records)
<1>1. /\ n \in Nat /\ j \in 1 .. n /\ records[j].draft \in Drafts
      /\ records[j].draft.body.id = r
      /\ records[j].draft.type # "AccountingRecorded"
      /\ records[j].draft.type \in ChangeType
  BY Settled DEF ChangesUpTo, TypedAbout, ChangeType
<1>2. records[j].draft.type = "ResultStatusChanged"
  BY <1>1, MoreTypesOfKinds DEF ChangeType
<1>3. PICK i \in 1 .. j - 1 :
        /\ TypedAbout(records, i, { "DecisionRecorded" }, d)
        /\ records[i].draft.body.subject = r
  BY <1>1, <1>2, Settled DEF Follows, IsDecided
<1>4. i \in 1 .. n /\ i <= w /\ i \in 1 .. w
  BY <1>1, <1>3
<1>5. records[i].draft \in Drafts /\ records[i].draft.type = "DecisionRecorded"
      /\ records[i].draft.body.id = d
  BY <1>3, <1>4, Settled DEF TypedAbout
<1>6. d \in Decision /\ d \in Entity
  BY <1>5, BodyKinds DEF Entity, Subject
<1> HIDE DEF d
<1>7. DeclaredAs(records, n, d, i) /\ About(records, i, d)
  BY <1>4, <1>5 DEF DeclaredAs, TypedAbout, About, DeclaringType
<1>8. view[d] # None
  BY <1>4, <1>6, <1>7, AboutIsThere
<1>9. DepictsDecision(records, n, d, view[d])
  BY <1>6, <1>8, Settled DEF Depicts
<1>10. view[d].recorded_at = i
  BY <1>7, <1>9, DeclaredFirst DEF DepictsDecision
<1>11. view[d].subject = r
  BY <1>3, <1>9, <1>10 DEF DepictsDecision
<1>12. d \in VisibleIn(Now, w, Decision, "recorded_at")
  BY <1>4, <1>6, <1>8, <1>10 DEF VisibleIn, Visible, Now
<1>13. DecisionAt(Now, w, d) # None
  BY <1>8, <1>12 DEF DecisionAt, Now
<1> QED BY <1>4, <1>6, <1>8, <1>10, <1>11, <1>12, <1>13 DEF d

LEMMA HypothesesNotFromLater ==
  ASSUME LedgerInv, NEW w \in Nat, NEW h \in Hypothesis,
         HypothesisAt(Now, w, h) # None
  PROVE  LET v == HypothesisAt(Now, w, h) IN
         << v.generation, v.status >> \in StatusesBy(h, w)
<1> DEFINE u == view[h]
           v == HypothesisAt(Now, w, h)
<1>1. h \in Entity /\ h \in Hypothesis \cup Result /\ h \notin Result
  BY IdentityDomains DEF Entity, Subject
<1>2. u # None /\ v = RewoundHypothesis(u, w)
  BY DEF HypothesisAt, VisibleIn, Now
<1>3. u \in HypothesisView
  BY <1>1, <1>2, Settled DEF ViewOf
<1>4. DepictsStatus(records, Len(records), h, u, "Proposed")
  BY <1>1, <1>2, Settled DEF Depicts, DepictsHypothesis
<1> HIDE DEF u, v
<1>5. CASE Visible(u.last_changed_at, w)
  <2>1. v = u /\ u.last_changed_at <= w
    BY <1>2, <1>5 DEF RewoundHypothesis, Visible
  <2> QED BY <1>1, <1>4, <2>1, StatusFromThePast DEF v
<1>6. CASE ~Visible(u.last_changed_at, w)
  <2>1. v = [ u EXCEPT !.generation = 1, !.status = "Proposed",
                       !.last_changed_at = u.declared_at ]
    BY <1>2, <1>6 DEF RewoundHypothesis
  <2>2. v.generation = 1 /\ v.status = "Proposed"
    BY <1>3, <2>1 DEF HypothesisView
  <2>3. << v.generation, v.status >> \in StatusesBy(h, w)
    BY <1>1, <2>2 DEF StatusesBy
  <2> QED BY <2>3 DEF v
<1> QED BY <1>5, <1>6

LEMMA ResultsNotFromLater ==
  ASSUME LedgerInv, NEW w \in Nat, NEW r \in Result,
         ResultAt(Now, w, r) # None
  PROVE  LET v == ResultAt(Now, w, r) IN
         /\ << v.generation, v.status >> \in StatusesBy(r, w)
         /\ \A d \in { v.last_decision, v.acceptance_decision } \ { None } :
              DecisionAt(Now, w, d) # None
<1> DEFINE u == view[r]
           v == ResultAt(Now, w, r)
           n == Len(records)
<1>1. r \in Entity /\ r \in Hypothesis \cup Result
  BY DEF Entity, Subject
<1>2. u # None /\ v = RewoundResult(u, w)
  BY DEF ResultAt, VisibleIn, Now
<1>3. u \in ResultView
  BY <1>1, <1>2, Settled DEF ViewOf
<1>4. /\ DepictsStatus(records, n, r, u, "Candidate")
      /\ DepictsDecisions(records, n, r, u)
  BY <1>1, <1>2, Settled DEF Depicts, DepictsResult
<1> HIDE DEF u, v
<1>5. CASE Visible(u.last_changed_at, w)
  <2>1. v = u /\ u.last_changed_at <= w
    BY <1>2, <1>5 DEF RewoundResult, Visible
  <2>2. << v.generation, v.status >> \in StatusesBy(r, w)
    BY <1>1, <1>4, <2>1, StatusFromThePast
  <2> DEFINE changes == ChangesUpTo(records, n, r)
  <2>3. changes # {} => LastOf(changes, u.last_changed_at)
    BY <1>4 DEF DepictsStatus
  <2>4. ASSUME u.last_decision # None
        PROVE  DecisionAt(Now, w, u.last_decision) # None
    <3>1. /\ changes # {}
          /\ u.last_decision = records[u.last_changed_at].draft.body.decision
      BY <1>4, <2>4 DEF DepictsDecisions
    <3>2. u.last_changed_at \in changes
      BY <2>3, <3>1 DEF LastOf
    <3> QED BY <2>1, <3>1, <3>2, DecidedBefore
  <2>5. ASSUME u.acceptance_decision # None
        PROVE  DecisionAt(Now, w, u.acceptance_decision) # None
    <3>1. PICK i \in 1 .. n :
            /\ LastOf(AcceptancesUpTo(records, n, r), i)
            /\ u.acceptance_decision = records[i].draft.body.decision
      BY <1>4, <2>5 DEF DepictsDecisions
    <3>2. i \in changes
      BY <3>1 DEF LastOf, AcceptancesUpTo
    <3>3. i <= u.last_changed_at
      BY <2>3, <3>2 DEF LastOf
    <3>4. u.last_changed_at \in Nat /\ i \in Nat
      BY <1>3, <3>1 DEF ResultView
    <3>5. i <= w
      BY <2>1, <3>3, <3>4
    <3> HIDE DEF changes
    <3>6. i \in ChangesUpTo(records, n, r)
      BY <3>2 DEF changes
    <3> QED BY <3>1, <3>5, <3>6, DecidedBefore
  <2> QED BY <2>1, <2>2, <2>4, <2>5 DEF v
<1>6. CASE ~Visible(u.last_changed_at, w)
  <2>1. v = [ u EXCEPT !.generation = 1, !.status = "Candidate",
                       !.last_changed_at = u.declared_at,
                       !.last_decision = None, !.acceptance_decision = None ]
    BY <1>2, <1>6 DEF RewoundResult
  <2>2. /\ v.generation = 1 /\ v.status = "Candidate"
        /\ v.last_decision = None /\ v.acceptance_decision = None
    BY <1>3, <2>1 DEF ResultView
  <2>3. << v.generation, v.status >> \in StatusesBy(r, w)
    BY <2>2 DEF StatusesBy
  <2> QED BY <2>2, <2>3 DEF v
<1> QED BY <1>5, <1>6

(* A hypothesis or a result is shown with a status it had at the watermark  *)
(* or before, and with decisions the snapshot sees (hypothesis() and        *)
(* result() rewind what changed later).                                     *)
THEOREM AnswersAreNotFromLater == QuerySpec => []NothingFromLater
<1>1. ASSUME LedgerInv, HeldInv PROVE NothingFromLater
  <2> SUFFICES ASSUME Held PROVE NothingFromLater
    BY DEF NothingFromLater
  <2>1. watermark \in Nat
    BY <1>1 DEF Held, HeldInv
  <2> QED BY <1>1, <2>1, HypothesesNotFromLater, ResultsNotFromLater
          DEF NothingFromLater
<1> QED BY <1>1, SnapshotsAreHistory, PTL

-----------------------------------------------------------------------------
(* An answer stays as it was *)

(* The indexes held everything declared by the watermark, and nothing else. *)
LEMMA HeldThen ==
  ASSUME LedgerInv, HeldInv, watermark # None, NEW x \in Entity \ Artifact
  PROVE  /\ watermark \in Nat /\ watermark <= Len(records)
         /\ Len(records) \in Nat
         /\ then.view[x] # None <=> view[x] # None /\ Born(x) <= watermark
         /\ view[x] # None => Born(x) \in 1 .. Len(records)
         /\ \A at : DeclaredAs(records, watermark, x, at) => at = Born(x)
<1> DEFINE w == watermark
           n == Len(records)
<1>1. /\ w \in Nat /\ w <= n /\ n \in Nat
      /\ Shows(records, w, x, then.view[x])
  BY Settled DEF HeldInv
<1> HIDE DEF w
<1>2. \A i \in 1 .. w : i \in 1 .. n
  BY <1>1
<1>3. view[x] # None => DeclaredAs(records, n, x, Born(x))
  BY BornAtDeclaration
<1>4. ASSUME then.view[x] # None
      PROVE  view[x] # None /\ Born(x) <= w
  <2>1. PICK i \in 1 .. w : About(records, i, x)
    BY <1>1, <1>4 DEF Shows
  <2>2. view[x] # None
    BY <1>2, <2>1, AboutIsThere
  <2>3. Born(x) <= i
    BY <1>2, <1>3, <2>1, <2>2, DeclaredFirst
  <2>4. Born(x) \in 1 .. n
    BY <1>3, <2>2 DEF DeclaredAs
  <2> QED BY <1>1, <2>1, <2>2, <2>3, <2>4
<1>5. ASSUME view[x] # None, Born(x) <= w
      PROVE  then.view[x] # None
  <2>1. Born(x) \in 1 .. w /\ About(records, Born(x), x)
    BY <1>1, <1>3, <1>5 DEF DeclaredAs, TypedAbout, About, DeclaringType
  <2> QED BY <1>1, <2>1 DEF Shows
<1>6. ASSUME NEW at, DeclaredAs(records, w, x, at)
      PROVE  at = Born(x)
  <2>1. DeclaredAs(records, n, x, at)
    BY <1>2, <1>6 DEF DeclaredAs
  <2>2. at \in 1 .. n /\ About(records, at, x)
    BY <2>1 DEF DeclaredAs, TypedAbout, About, DeclaringType
  <2>3. view[x] # None
    BY <2>2, AboutIsThere
  <2> QED BY <1>3, <2>1, <2>3, DeclaredFirst
<1>7. view[x] # None => Born(x) \in 1 .. n
  BY <1>3 DEF DeclaredAs
<1> QED BY <1>1, <1>4, <1>5, <1>6, <1>7 DEF w

(* The field f of both views is the place of declaration.                   *)
BornIn(x, f) == view[x][f] = Born(x) /\ then.view[x][f] = Born(x)

LEMMA SeenBoth ==
  ASSUME LedgerInv, HeldInv, watermark # None, NEW x \in Entity \ Artifact,
         NEW f, NEW S, x \in S, view[x] # None => view[x][f] = Born(x),
         then.view[x] # None => then.view[x][f] = Born(x)
  PROVE  /\ x \in VisibleIn(Now, watermark, S, f) <=> then.view[x] # None
         /\ x \in VisibleIn(then, watermark, S, f) <=> then.view[x] # None
<1>1. /\ watermark \in Nat /\ Len(records) \in Nat
      /\ then.view[x] # None <=> view[x] # None /\ Born(x) <= watermark
      /\ view[x] # None => Born(x) \in 1 .. Len(records)
  BY HeldThen
<1>2. view[x] # None => Born(x) # 0
  BY <1>1
<1> QED BY <1>1, <1>2 DEF VisibleIn, Visible, Now

LEMMA BornOfKinds ==
  ASSUME NEW x
  PROVE  /\ x \in Session => Born(x) = view[x].opened_at
         /\ x \in Attempt => Born(x) = view[x].started_at
         /\ x \in Hypothesis \cup Experiment \cup Branch \cup Result \cup Metric
              => Born(x) = view[x].declared_at
         /\ x \in ModelCall \cup ToolCall \cup Observation \cup Failure
                    \cup Decision => Born(x) = view[x].recorded_at
<1>1. CASE x \in Session
  BY <1>1, IdentityDomains DEF Born
<1>2. CASE x \in Attempt
  BY <1>2, IdentityDomains DEF Born
<1>3. CASE x \in Hypothesis \cup Experiment \cup Branch \cup Result \cup Metric
  <2>1. /\ x \notin Session /\ x \notin Attempt
        /\ x \notin ModelCall \cup ToolCall \cup Observation \cup Failure
                      \cup Decision
    BY <1>3, IdentityDomains
  <2> QED BY <1>3, <2>1 DEF Born
<1>4. CASE x \in ModelCall \cup ToolCall \cup Observation \cup Failure
                   \cup Decision
  <2>1. /\ x \notin Session /\ x \notin Attempt
        /\ x \notin Hypothesis \cup Experiment \cup Branch \cup Result
                      \cup Metric
    BY <1>4, IdentityDomains
  <2> QED BY <1>4, <2>1 DEF Born
<1> QED BY <1>1, <1>2, <1>3, <1>4

(* Sessions *)

ClosedAt(s, i) ==
  i \in 1 .. Len(records) /\ TypedAbout(records, i, { "SessionClosed" }, s)

LEMMA ClosedOnce ==
  ASSUME LedgerInv, NEW s, NEW i, NEW j, ClosedAt(s, i), ClosedAt(s, j)
  PROVE  i = j
<1>1. ASSUME NEW k, NEW m, ClosedAt(s, k), ClosedAt(s, m), k < m
      PROVE  FALSE
  <2>1. /\ m \in 1 .. Len(records) /\ k \in 1 .. m - 1
        /\ records[m].draft.type = "SessionClosed"
        /\ records[m].draft.body.id = s
        /\ TypedAbout(records, k, { "SessionClosed" }, s)
    BY <1>1, Settled DEF ClosedAt, TypedAbout
  <2>2. RespectsClosure(records, m) /\ IsAtHome(records, m)
    BY <2>1, Settled DEF Follows
  <2>3. records[m].session = s
    BY <2>1, <2>2 DEF IsAtHome, SessionRecord
  <2> QED BY <2>1, <2>2, <2>3 DEF RespectsClosure
<1>2. i \in 1 .. Len(records) /\ j \in 1 .. Len(records)
  BY DEF ClosedAt
<1>3. Len(records) \in Nat
  BY Settled
<1>4. i \in Nat /\ j \in Nat
  BY <1>2, <1>3
<1> QED BY <1>1, <1>4

LEMMA SessionsStay ==
  ASSUME LedgerInv, HeldInv, watermark # None, NEW s \in Session
  PROVE  Uncounted(SessionAt(Now, watermark, s))
           = Uncounted(SessionAt(then, watermark, s))
<1> DEFINE w == watermark
           n == Len(records)
           v == view[s]
           u == then.view[s]
<1>1. s \in Entity \ Artifact /\ s \in Entity
  BY IdentityDomains DEF Entity, Subject
<1>2. /\ w \in Nat /\ w <= n /\ n \in Nat
      /\ u # None <=> v # None /\ Born(s) <= w
      /\ v # None => Born(s) \in 1 .. n
      /\ \A at : DeclaredAs(records, w, s, at) => at = Born(s)
  BY <1>1, HeldThen
<1>3. Born(s) = v.opened_at
  BY BornOfKinds
<1>4. u # None => /\ u \in SessionView /\ DepictsSession(records, w, s, u)
                  /\ ShowsSession(records, w, s, u)
  BY <1>1 DEF HeldInv, ViewOf, Depicts, Shows
<1>5. v # None => /\ v \in SessionView /\ DepictsSession(records, n, s, v)
                  /\ ShowsSession(records, n, s, v)
  BY <1>1, Settled DEF ViewOf, Depicts, Shows
<1>6. u # None => u.opened_at = Born(s)
  BY <1>2, <1>4 DEF DepictsSession
<1>7. /\ s \in VisibleIn(Now, w, Session, "opened_at") <=> u # None
      /\ s \in VisibleIn(then, w, Session, "opened_at") <=> u # None
  BY <1>1, <1>3, <1>6, SeenBoth
<1>8. CASE u = None
  BY <1>7, <1>8 DEF SessionAt
<1>9. CASE u # None
  <2> DEFINE a == SessionAt(Now, w, s)
             b == SessionAt(then, w, s)
  <2>1. Now.view = view
    BY DEF Now
  <2>2. a = IF v.state = "Closed" /\ ~Visible(v.closed_at, w)
            THEN [ v EXCEPT !.state = "Open", !.closed_at = 0 ] ELSE v
    BY <1>7, <1>9, <2>1 DEF SessionAt
  <2>3. b = IF u.state = "Closed" /\ ~Visible(u.closed_at, w)
            THEN [ u EXCEPT !.state = "Open", !.closed_at = 0 ] ELSE u
    BY <1>7, <1>9 DEF SessionAt
  <2>4. /\ v \in SessionView /\ DepictsSession(records, n, s, v)
        /\ u \in SessionView /\ DepictsSession(records, w, s, u)
        /\ v.session = s /\ u.session = s
        /\ v.opened_at = u.opened_at
    BY <1>2, <1>3, <1>4, <1>5, <1>6, <1>9 DEF ShowsSession
  <2>5. u.state = "Closed" => /\ u.closed_at \in 1 .. w
                              /\ ClosedAt(s, u.closed_at)
    BY <1>2, <2>4 DEF DepictsSession, ClosedAt
  <2>6. v.state = "Closed" => ClosedAt(s, v.closed_at)
    BY <1>2, <2>4 DEF DepictsSession, ClosedAt
  <2>7. u.state = "Closed" => v.state = "Closed"
    BY <1>2, <1>5, <1>9, <2>5 DEF ShowsSession, ClosedAt
  <2>8. v.state = "Closed" /\ v.closed_at <= w => u.state = "Closed"
    <3>1. SUFFICES ASSUME v.state = "Closed", v.closed_at <= w
                   PROVE  u.state = "Closed"
      OBVIOUS
    <3>2. /\ v.closed_at \in 1 .. w
          /\ TypedAbout(records, v.closed_at, { "SessionClosed" }, s)
      BY <1>2, <2>6, <3>1 DEF ClosedAt
    <3> QED BY <1>4, <1>9, <3>2 DEF ShowsSession
  <2>9. u.state # "Closed" => u.state = "Open" /\ u.closed_at = 0
    BY <2>4 DEF DepictsSession
  <2>10. v.state # "Closed" => v.state = "Open" /\ v.closed_at = 0
    BY <2>4 DEF DepictsSession
  <2>11. b = u
    BY <1>2, <2>3, <2>5 DEF Visible
  <2>12. v.state = "Closed" /\ u.state = "Closed" => v.closed_at = u.closed_at
    BY <2>5, <2>6, ClosedOnce
  <2>13. v.state = "Closed" => v.closed_at \in 1 .. n
    BY <2>6 DEF ClosedAt
  <2> HIDE DEF a, b, u, v
  <2>14. /\ a \in SessionView /\ a.session = u.session /\ a.state = u.state
         /\ a.opened_at = u.opened_at /\ a.closed_at = u.closed_at
    <3>1. CASE v.state = "Closed" /\ u.state = "Closed"
      <4>1. a = v
        BY <1>2, <2>2, <2>5, <2>12, <3>1 DEF Visible
      <4> QED BY <2>4, <2>12, <3>1, <4>1
    <3>2. CASE v.state = "Closed" /\ u.state # "Closed"
      <4>1. ~Visible(v.closed_at, w)
        BY <2>8, <3>2 DEF Visible
      <4>2. a = [ v EXCEPT !.state = "Open", !.closed_at = 0 ]
        BY <2>2, <3>2, <4>1
      <4> QED BY <2>4, <2>9, <3>2, <4>2 DEF SessionView, SessionState
    <3>3. CASE v.state # "Closed"
      BY <2>2, <2>4, <2>7, <2>9, <2>10, <3>3
    <3> QED BY <3>1, <3>2, <3>3
  <2>15. a # None /\ b # None
    BY <2>4, <2>11, <2>14, NoneAssumption DEF View
  <2>16. Uncounted(a) = Uncounted(b)
    BY <2>4, <2>11, <2>14, <2>15 DEF Uncounted, SessionView
  <2> QED BY <2>16 DEF a, b
<1> QED BY <1>8, <1>9

(* Attempts *)

EndedAt(a, i) == i \in 1 .. Len(records) /\ TypedAbout(records, i, TerminalType, a)

LEMMA EndedOnce ==
  ASSUME LedgerInv, NEW a, NEW i, NEW j, EndedAt(a, i), EndedAt(a, j)
  PROVE  i = j
<1>1. ASSUME NEW k, NEW m, EndedAt(a, k), EndedAt(a, m), k < m
      PROVE  FALSE
  <2>1. /\ m \in 1 .. Len(records) /\ k \in 1 .. m - 1
        /\ records[m].draft.type \in TerminalType
        /\ records[m].draft.body.id = a
        /\ TypedAbout(records, k, TerminalType, a)
    BY <1>1, Settled DEF EndedAt, TypedAbout
  <2>2. EndsOnce(records, m)
    BY <2>1, Settled DEF Follows
  <2> QED BY <2>1, <2>2 DEF EndsOnce
<1>2. i \in 1 .. Len(records) /\ j \in 1 .. Len(records) /\ Len(records) \in Nat
  BY Settled DEF EndedAt
<1>3. i \in Nat /\ j \in Nat
  BY <1>2
<1> QED BY <1>1, <1>3

LEMMA AttemptsStay ==
  ASSUME LedgerInv, HeldInv, watermark # None, NEW s \in Attempt
  PROVE  /\ Uncounted(AttemptAt(Now, watermark, s))
              = Uncounted(AttemptAt(then, watermark, s))
         /\ s \in VisibleIn(Now, watermark, Attempt, "started_at")
              <=> then.view[s] # None
         /\ s \in VisibleIn(then, watermark, Attempt, "started_at")
              <=> then.view[s] # None
<1> DEFINE w == watermark
           n == Len(records)
           v == view[s]
           u == then.view[s]
<1>1. s \in Entity \ Artifact /\ s \in Entity
  BY IdentityDomains DEF Entity, Subject
<1>2. /\ w \in Nat /\ w <= n /\ n \in Nat
      /\ u # None <=> v # None /\ Born(s) <= w
      /\ v # None => Born(s) \in 1 .. n
      /\ \A at : DeclaredAs(records, w, s, at) => at = Born(s)
  BY <1>1, HeldThen
<1>3. Born(s) = v.started_at
  BY BornOfKinds
<1>4. u # None => /\ u \in AttemptView /\ DepictsAttempt(records, w, s, u)
                  /\ ShowsAttempt(records, w, s, u)
  BY <1>1 DEF HeldInv, ViewOf, Depicts, Shows
<1>5. v # None => /\ v \in AttemptView /\ DepictsAttempt(records, n, s, v)
                  /\ ShowsAttempt(records, n, s, v)
  BY <1>1, Settled DEF ViewOf, Depicts, Shows
<1>6. u # None => u.started_at = Born(s)
  BY <1>2, <1>4 DEF DepictsAttempt
<1>7. /\ s \in VisibleIn(Now, w, Attempt, "started_at") <=> u # None
      /\ s \in VisibleIn(then, w, Attempt, "started_at") <=> u # None
  BY <1>1, <1>3, <1>6, SeenBoth
<1>8. CASE u = None
  BY <1>7, <1>8 DEF AttemptAt
<1>9. CASE u # None
  <2> DEFINE a == AttemptAt(Now, w, s)
             b == AttemptAt(then, w, s)
  <2>1. Now.view = view
    BY DEF Now
  <2>2. a = IF v.terminated_at = 0 \/ Visible(v.terminated_at, w) THEN v
            ELSE [ v EXCEPT !.state = "Running", !.terminated_at = 0,
                            !.failure = None ]
    BY <1>7, <1>9, <2>1 DEF AttemptAt, RewoundAttempt
  <2>3. b = IF u.terminated_at = 0 \/ Visible(u.terminated_at, w) THEN u
            ELSE [ u EXCEPT !.state = "Running", !.terminated_at = 0,
                            !.failure = None ]
    BY <1>7, <1>9 DEF AttemptAt, RewoundAttempt
  <2>4. /\ v \in AttemptView /\ DepictsEnd(records, n, s, v)
        /\ u \in AttemptView /\ DepictsEnd(records, w, s, u)
        /\ v.started_at = u.started_at
        /\ v.experiment = u.experiment /\ v.branch = u.branch
        /\ v.generation = u.generation
    BY <1>2, <1>3, <1>4, <1>5, <1>6, <1>9 DEF DepictsAttempt
  <2>5. u.terminated_at # 0 => /\ u.terminated_at \in 1 .. w
                               /\ EndedAt(s, u.terminated_at)
    BY <1>2, <2>4 DEF DepictsEnd, EndedAt
  <2>6. v.terminated_at # 0 => EndedAt(s, v.terminated_at)
    BY <1>2, <2>4 DEF DepictsEnd, EndedAt
  <2>7. TerminalState[records[v.terminated_at].draft.type] # "Running"
          \/ v.terminated_at = 0
    BY <2>6 DEF EndedAt, TypedAbout, TerminalType, TerminalState
  <2>8. u.terminated_at # 0 => v.terminated_at # 0
    <3>1. SUFFICES ASSUME u.terminated_at # 0 PROVE v.terminated_at # 0
      OBVIOUS
    <3>2. v.state # "Running"
      BY <1>5, <1>2, <1>9, <2>5, <3>1 DEF ShowsAttempt, EndedAt
    <3>3. 0 \notin 1 .. n
      OBVIOUS
    <3> QED BY <2>4, <3>2, <3>3 DEF DepictsEnd
  <2>9. v.terminated_at # 0 /\ v.terminated_at <= w => u.terminated_at # 0
    <3>1. SUFFICES ASSUME v.terminated_at # 0, v.terminated_at <= w
                   PROVE  u.terminated_at # 0
      OBVIOUS
    <3>2. /\ v.terminated_at \in 1 .. w
          /\ TypedAbout(records, v.terminated_at, TerminalType, s)
      BY <1>2, <2>6, <3>1 DEF EndedAt
    <3>3. u.state # "Running"
      BY <1>4, <1>9, <3>2 DEF ShowsAttempt
    <3>4. 0 \notin 1 .. w
      OBVIOUS
    <3> QED BY <2>4, <3>3, <3>4 DEF DepictsEnd
  <2>10. v.terminated_at # 0 /\ u.terminated_at # 0 =>
           v.terminated_at = u.terminated_at
    BY <2>5, <2>6, EndedOnce
  <2>11. b = u
    BY <1>2, <2>3, <2>5 DEF Visible
  <2>12. /\ v.terminated_at = 0 =>
              v.state = "Running" /\ v.failure = None
         /\ u.terminated_at = 0 =>
              u.state = "Running" /\ u.failure = None
    <3>1. 0 \notin 1 .. n /\ 0 \notin 1 .. w
      OBVIOUS
    <3> QED BY <2>4, <3>1 DEF DepictsEnd
  <2>13. v.terminated_at # 0 /\ u.terminated_at # 0 =>
           v.state = u.state /\ v.failure = u.failure
    <3>1. SUFFICES ASSUME v.terminated_at # 0, u.terminated_at # 0
                   PROVE  v.state = u.state /\ v.failure = u.failure
      OBVIOUS
    <3>2. v.terminated_at = u.terminated_at
      BY <2>10, <3>1
    <3> QED BY <2>4, <3>1, <3>2 DEF DepictsEnd
  <2> HIDE DEF a, b, u, v
  <2>14. /\ a \in AttemptView /\ a.experiment = u.experiment
         /\ a.branch = u.branch /\ a.generation = u.generation
         /\ a.state = u.state /\ a.failure = u.failure
         /\ a.started_at = u.started_at
         /\ a.terminated_at = u.terminated_at
    <3>1. CASE v.terminated_at # 0 /\ u.terminated_at # 0
      <4>1. a = v
        BY <1>2, <2>2, <2>5, <2>10, <3>1 DEF Visible
      <4> QED BY <2>4, <2>10, <2>13, <3>1, <4>1
    <3>2. CASE v.terminated_at # 0 /\ u.terminated_at = 0
      <4>1. ~Visible(v.terminated_at, w)
        BY <2>9, <3>2 DEF Visible
      <4>2. a = [ v EXCEPT !.state = "Running", !.terminated_at = 0,
                            !.failure = None ]
        BY <2>2, <3>2, <4>1
      <4> QED BY <2>4, <2>12, <3>2, <4>2 DEF AttemptView, AttemptState, Opt
    <3>3. CASE v.terminated_at = 0
      BY <2>2, <2>4, <2>8, <2>12, <3>3
    <3> QED BY <3>1, <3>2, <3>3
  <2>15. a # None /\ b # None
    BY <2>4, <2>11, <2>14, NoneAssumption DEF View
  <2>16. Uncounted(a) = Uncounted(b)
    BY <2>4, <2>11, <2>14, <2>15 DEF Uncounted, AttemptView
  <2> QED BY <1>7, <2>16 DEF a, b, u
<1> QED BY <1>7, <1>8, <1>9

(* Experiments *)

LEMMA ExperimentsStay ==
  ASSUME LedgerInv, HeldInv, watermark # None, NEW e \in Experiment
  PROVE  ExperimentAt(Now, watermark, e) = ExperimentAt(then, watermark, e)
<1> DEFINE w == watermark
           n == Len(records)
           v == view[e]
           u == then.view[e]
<1>1. e \in Entity \ Artifact /\ e \in Entity
  BY IdentityDomains DEF Entity, Subject
<1>2. /\ w \in Nat /\ w <= n /\ n \in Nat
      /\ u # None <=> v # None /\ Born(e) <= w
      /\ v # None => Born(e) \in 1 .. n
      /\ \A at : DeclaredAs(records, w, e, at) => at = Born(e)
  BY <1>1, HeldThen
<1>3. Born(e) = v.declared_at
  BY BornOfKinds
<1>4. u # None => /\ u \in ExperimentView
                  /\ DepictsExperiment(records, w, e, u)
  BY <1>1 DEF HeldInv, ViewOf, Depicts
<1>5. v # None => /\ v \in ExperimentView
                  /\ DepictsExperiment(records, n, e, v)
  BY <1>1, Settled DEF ViewOf, Depicts
<1>6. u # None => u.declared_at = Born(e)
  BY <1>2, <1>4 DEF DepictsExperiment
<1>7. /\ e \in VisibleIn(Now, w, Experiment, "declared_at") <=> u # None
      /\ e \in VisibleIn(then, w, Experiment, "declared_at") <=> u # None
  BY <1>1, <1>3, <1>6, SeenBoth
<1>8. CASE u = None
  BY <1>7, <1>8 DEF ExperimentAt
<1>9. CASE u # None
  <2> DEFINE now == VisibleIn(Now, w, v.links \cap Attempt, "started_at")
             past == VisibleIn(then, w, u.links \cap Attempt, "started_at")
  <2>1. Now.view = view
    BY DEF Now
  <2>2. v.links \cap Attempt = AttemptsOf(e)
    BY <1>2, <1>9 DEF LedgerInv, PictureInv, ListsInv
  <2>3. u.links \cap Attempt = AttemptsUpTo(w, e)
    BY <1>9 DEF HeldInv
  <2>4. AttemptsUpTo(w, e) \subseteq AttemptsOf(e)
    BY <1>2, Settled DEF AttemptsUpTo, AttemptsOf
  <2>5. ASSUME NEW a
        PROVE  a \in now <=> a \in AttemptsUpTo(w, e)
    <3>1. CASE a \in AttemptsOf(e) /\ a \in Attempt
      <4>1. /\ a \in VisibleIn(Now, w, Attempt, "started_at")
                 <=> then.view[a] # None
        BY <3>1, AttemptsStay
      <4>2. a \in now <=> then.view[a] # None
        BY <2>2, <3>1, <4>1 DEF VisibleIn
      <4>3. PICK i \in 1 .. n :
              /\ records[i].draft.type = "AttemptStarted"
              /\ records[i].draft.body.experiment = e
              /\ records[i].draft.body.id = a
        BY <3>1, Settled DEF AttemptsOf
      <4>4. DeclaredAs(records, n, a, i) /\ About(records, i, a)
        BY <4>3 DEF DeclaredAs, TypedAbout, About, DeclaringType
      <4>5. a \in Entity \ Artifact /\ a \in Entity
        BY <3>1, IdentityDomains DEF Entity, Subject
      <4>6. view[a] # None
        BY <4>4, <4>5, AboutIsThere
      <4>7. Born(a) = i
        BY <4>4, <4>5, <4>6, BornAtDeclaration, DeclaredFirst
      <4>8. then.view[a] # None <=> i <= w
        BY <4>5, <4>6, <4>7, HeldThen
      <4>9. a \in AttemptsUpTo(w, e) => i <= w
        <5>1. SUFFICES ASSUME a \in AttemptsUpTo(w, e) PROVE i <= w
          OBVIOUS
        <5>2. PICK j \in 1 .. w :
                /\ records[j].draft.type = "AttemptStarted"
                /\ records[j].draft.body.id = a
          BY <5>1 DEF AttemptsUpTo
        <5>3. DeclaredAs(records, n, a, j)
          BY <1>2, <5>2 DEF DeclaredAs, TypedAbout, DeclaringType
        <5>4. j = i
          BY <4>4, <5>3, DeclaredFirst
        <5> QED BY <1>2, <5>2, <5>4
      <4>10. i <= w => a \in AttemptsUpTo(w, e)
        BY <1>2, <4>3 DEF AttemptsUpTo
      <4> QED BY <4>2, <4>8, <4>9, <4>10
    <3>2. CASE a \notin AttemptsOf(e)
      BY <2>2, <2>4, <3>2 DEF VisibleIn
    <3> QED BY <2>2, <3>1, <3>2
  <2>6. ASSUME NEW a
        PROVE  a \in past <=> a \in AttemptsUpTo(w, e)
    <3>1. CASE a \in AttemptsUpTo(w, e)
      <4>1. a \in Attempt /\ a \in now
        BY <2>3, <2>5, <3>1
      <4>2. a \in VisibleIn(Now, w, Attempt, "started_at")
        BY <4>1 DEF VisibleIn
      <4>3. a \in VisibleIn(then, w, Attempt, "started_at")
        BY <4>1, <4>2, AttemptsStay
      <4> QED BY <2>3, <3>1, <4>3 DEF VisibleIn
    <3>2. CASE a \notin AttemptsUpTo(w, e)
      BY <2>3, <3>2 DEF VisibleIn
    <3> QED BY <3>1, <3>2
  <2>7. now = past
    BY <2>5, <2>6
  <2>8. ExperimentAt(Now, w, e) = [ v EXCEPT !.links = now ]
    BY <1>7, <1>9, <2>1 DEF ExperimentAt
  <2>9. ExperimentAt(then, w, e) = [ u EXCEPT !.links = past ]
    BY <1>7, <1>9 DEF ExperimentAt
  <2>10. /\ v \in ExperimentView /\ u \in ExperimentView
         /\ v.session = u.session /\ v.hypotheses = u.hypotheses
         /\ v.branch = u.branch /\ v.parent = u.parent
         /\ v.declared_at = u.declared_at
    BY <1>2, <1>3, <1>4, <1>5, <1>6, <1>9 DEF DepictsExperiment
  <2> HIDE DEF now, past, u, v
  <2>11. [ v EXCEPT !.links = now ] = [ u EXCEPT !.links = now ]
    BY <2>10 DEF ExperimentView
  <2> QED BY <2>7, <2>8, <2>9, <2>11
<1> QED BY <1>8, <1>9

(* What is never revised *)

Fixed == ModelCall \cup ToolCall \cup Observation \cup Failure \cup Decision

LEMMA FixedStay ==
  ASSUME LedgerInv, HeldInv, watermark # None, NEW x \in Fixed,
         then.view[x] # None
  PROVE  then.view[x] = view[x]
<1> DEFINE w == watermark
           n == Len(records)
           v == view[x]
           u == then.view[x]
<1>1. x \in Entity \ Artifact /\ x \in Entity
  BY IdentityDomains DEF Fixed, Entity, Subject
<1>2. /\ w \in Nat /\ w <= n /\ n \in Nat
      /\ v # None
      /\ \A at : DeclaredAs(records, w, x, at) => at = Born(x)
  BY <1>1, HeldThen
<1>3. Born(x) = v.recorded_at
  BY BornOfKinds DEF Fixed
<1>4. ViewOf(x, u) /\ Depicts(records, w, x, u)
  BY <1>1 DEF HeldInv
<1>5. ViewOf(x, v) /\ Depicts(records, n, x, v)
  BY <1>1, <1>2, Settled
<1> HIDE DEF w, n, v, u
<1>6. CASE x \in ModelCall
  <2>1. /\ u \in ModelCallView /\ DepictsModelCall(records, w, x, u)
        /\ v \in ModelCallView /\ DepictsModelCall(records, n, x, v)
    BY <1>2, <1>4, <1>5, <1>6 DEF ViewOf, Depicts, u
  <2>2. u.recorded_at = v.recorded_at
    BY <1>2, <1>3, <2>1 DEF DepictsModelCall
  <2>3. u.attempt = v.attempt /\ u.parents = v.parents
    BY <2>1, <2>2 DEF DepictsModelCall
  <2> QED BY <2>1, <2>2, <2>3 DEF ModelCallView, u, v
<1>7. CASE x \in ToolCall
  <2>1. /\ u \in ToolCallView /\ DepictsToolCall(records, w, x, u)
        /\ v \in ToolCallView /\ DepictsToolCall(records, n, x, v)
    BY <1>2, <1>4, <1>5, <1>7 DEF ViewOf, Depicts, u
  <2>2. u.recorded_at = v.recorded_at
    BY <1>2, <1>3, <2>1 DEF DepictsToolCall
  <2>3. u.attempt = v.attempt
    BY <2>1, <2>2 DEF DepictsToolCall
  <2> QED BY <2>1, <2>2, <2>3 DEF ToolCallView, u, v
<1>8. CASE x \in Observation
  <2>1. /\ u \in ObservationView /\ DepictsObservation(records, w, x, u)
        /\ v \in ObservationView /\ DepictsObservation(records, n, x, v)
    BY <1>2, <1>4, <1>5, <1>8 DEF ViewOf, Depicts, u
  <2>2. u.recorded_at = v.recorded_at
    BY <1>2, <1>3, <2>1 DEF DepictsObservation
  <2>3. /\ u.session = v.session /\ u.attempt = v.attempt
        /\ u.metric = v.metric
    BY <2>1, <2>2 DEF DepictsObservation
  <2>4. PICK i \in 1 .. w :
          /\ TypedAbout(records, i, { "AttemptStarted" }, u.attempt)
          /\ records[i].draft.body.experiment = u.experiment
    BY <2>1 DEF DepictsObservation
  <2>5. PICK j \in 1 .. n :
          /\ TypedAbout(records, j, { "AttemptStarted" }, v.attempt)
          /\ records[j].draft.body.experiment = v.experiment
    BY <2>1 DEF DepictsObservation
  <2>6. /\ DeclaredAs(records, n, u.attempt, i)
        /\ DeclaredAs(records, n, u.attempt, j)
    BY <1>2, <2>3, <2>4, <2>5 DEF DeclaredAs, TypedAbout, DeclaringType
  <2>7. i = j
    BY <2>6, DeclaredFirst DEF n
  <2>8. u.experiment = v.experiment
    BY <2>4, <2>5, <2>7
  <2> QED BY <2>1, <2>2, <2>3, <2>8 DEF ObservationView, u, v
<1>9. CASE x \in Failure
  <2>1. /\ u \in FailureView /\ DepictsFailure(records, w, x, u)
        /\ v \in FailureView /\ DepictsFailure(records, n, x, v)
    BY <1>2, <1>4, <1>5, <1>9 DEF ViewOf, Depicts, u
  <2>2. u.recorded_at = v.recorded_at
    BY <1>2, <1>3, <2>1 DEF DepictsFailure
  <2>3. /\ u.session = v.session /\ u.scope = v.scope
        /\ u.predecessor = v.predecessor /\ u.recovery = v.recovery
    BY <2>1, <2>2 DEF DepictsFailure
  <2> QED BY <2>1, <2>2, <2>3 DEF FailureView, u, v
<1>10. CASE x \in Decision
  <2>1. /\ u \in DecisionView /\ DepictsDecision(records, w, x, u)
        /\ v \in DecisionView /\ DepictsDecision(records, n, x, v)
    BY <1>2, <1>4, <1>5, <1>10 DEF ViewOf, Depicts, u
  <2>2. u.recorded_at = v.recorded_at
    BY <1>2, <1>3, <2>1 DEF DepictsDecision
  <2>3. /\ u.session = v.session /\ u.subject = v.subject
        /\ u.decision_type = v.decision_type /\ u.outcome = v.outcome
        /\ u.evidence = v.evidence
    BY <2>1, <2>2 DEF DepictsDecision
  <2> QED BY <2>1, <2>2, <2>3 DEF DecisionView, u, v
<1> QED BY <1>6, <1>7, <1>8, <1>9, <1>10 DEF Fixed, u, v

LEMMA FixedSeen ==
  ASSUME LedgerInv, HeldInv, watermark # None, NEW S \in SUBSET Fixed,
         NEW x
  PROVE  /\ x \in VisibleIn(Now, watermark, S, "recorded_at")
              <=> x \in S /\ then.view[x] # None
         /\ x \in VisibleIn(then, watermark, S, "recorded_at")
              <=> x \in S /\ then.view[x] # None
<1>1. CASE x \notin S
  BY <1>1 DEF VisibleIn
<1>2. CASE x \in S
  <2>1. x \in Fixed /\ x \in Entity \ Artifact
    BY <1>2, IdentityDomains DEF Fixed, Entity, Subject
  <2>2. Born(x) = view[x].recorded_at
    BY <2>1, BornOfKinds DEF Fixed
  <2>3. then.view[x] # None => then.view[x].recorded_at = Born(x)
    BY <2>1, <2>2, FixedStay
  <2> QED BY <1>2, <2>1, <2>2, <2>3, SeenBoth
<1> QED BY <1>1, <1>2

(* A list of such entities, chosen by one of their fields. *)
Chosen(ix, S, f, y) ==
  { c \in VisibleIn(ix, watermark, S, "recorded_at") : ix.view[c][f] = y }

LEMMA ListsStay ==
  ASSUME LedgerInv, HeldInv, watermark # None, NEW S \in SUBSET Fixed,
         NEW f, NEW y
  PROVE  ViewsOf(Now, Chosen(Now, S, f, y))
           = ViewsOf(then, Chosen(then, S, f, y))
<1> DEFINE A == Chosen(Now, S, f, y)
           B == Chosen(then, S, f, y)
<1>1. Now.view = view
  BY DEF Now
<1>2. ASSUME NEW c \in S, then.view[c] # None
      PROVE  then.view[c] = Now.view[c]
  BY <1>1, <1>2, FixedStay
<1>3. A = B
  <2>1. \A c : c \in A <=> /\ c \in S /\ then.view[c] # None
                           /\ Now.view[c][f] = y
    BY FixedSeen DEF Chosen
  <2>2. \A c : c \in B <=> /\ c \in S /\ then.view[c] # None
                           /\ then.view[c][f] = y
    BY FixedSeen DEF Chosen
  <2> HIDE DEF A, B
  <2> QED BY <1>2, <2>1, <2>2
<1>4. \A c \in A : c \in S /\ then.view[c] # None
  BY FixedSeen DEF Chosen
<1>5. \A c \in A : then.view[c] = Now.view[c]
  BY <1>2, <1>4
<1> HIDE DEF A, B
<1>6. ViewsOf(Now, A) = ViewsOf(then, B)
  BY <1>3, <1>5 DEF ViewsOf
<1> QED BY <1>6 DEF A, B

LEMMA RecordsStay ==
  ASSUME LedgerInv, HeldInv, watermark # None
  PROVE  RecordsAt(Now, watermark) = RecordsAt(then, watermark)
<1> DEFINE w == watermark
           A == { k \in DOMAIN Now.records : Visible(k, w) }
           B == { k \in DOMAIN then.records : Visible(k, w) }
<1>1. /\ w \in Nat /\ w <= Len(records)
      /\ DOMAIN then.records = 1 .. w
      /\ \A i \in 1 .. w : then.records[i] = records[i]
  BY DEF HeldInv
<1>2. Len(records) \in Nat /\ DOMAIN records = 1 .. Len(records)
      /\ Now.records = records
  BY Settled DEF Now
<1>3. A = 1 .. w /\ B = 1 .. w
  BY <1>1, <1>2 DEF Visible
<1> HIDE DEF A, B
<1>4. [ i \in A |-> Now.records[i] ] = [ i \in B |-> then.records[i] ]
  BY <1>1, <1>2, <1>3
<1> QED BY <1>4 DEF RecordsAt, A, B

(* What a snapshot said when it was taken it says ever after, although its  *)
(* queries read the live indexes: sessions and attempts are rewound, the    *)
(* lists leave out what came later (session(), experiment(), attempt(),     *)
(* model_calls(), tool_calls(), observations(), failures_for(),             *)
(* decisions_for(), records()).                                             *)
THEOREM AnswersStay == QuerySpec => []SnapshotAnswersStay
<1>1. ASSUME LedgerInv, HeldInv PROVE SnapshotAnswersStay
  <2> SUFFICES ASSUME watermark # None PROVE SnapshotAnswersStay
    BY DEF SnapshotAnswersStay, Held
  <2> DEFINE w == watermark
  <2>1. \A s \in Session :
          Uncounted(SessionAt(Now, w, s)) = Uncounted(SessionAt(then, w, s))
    BY <1>1, SessionsStay
  <2>2. \A e \in Experiment : ExperimentAt(Now, w, e) = ExperimentAt(then, w, e)
    BY <1>1, ExperimentsStay
  <2>3. \A a \in Attempt :
          Uncounted(AttemptAt(Now, w, a)) = Uncounted(AttemptAt(then, w, a))
    BY <1>1, AttemptsStay
  <2>4. /\ ModelCall \in SUBSET Fixed /\ ToolCall \in SUBSET Fixed
        /\ Observation \in SUBSET Fixed /\ Failure \in SUBSET Fixed
        /\ Decision \in SUBSET Fixed
    BY DEF Fixed
  <2>5. ASSUME NEW a
        PROVE  /\ ModelCallsAt(Now, w, a) = ModelCallsAt(then, w, a)
               /\ ToolCallsAt(Now, w, a) = ToolCallsAt(then, w, a)
               /\ ObservationsAt(Now, w, a) = ObservationsAt(then, w, a)
    <3>1. ModelCallsAt(Now, w, a) = ModelCallsAt(then, w, a)
      <4>1. ViewsOf(Now, Chosen(Now, ModelCall, "attempt", a))
              = ViewsOf(then, Chosen(then, ModelCall, "attempt", a))
        BY <1>1, <2>4, ListsStay
      <4> QED BY <4>1 DEF Chosen, ModelCallsAt, ActivityOf
    <3>2. ToolCallsAt(Now, w, a) = ToolCallsAt(then, w, a)
      <4>1. ViewsOf(Now, Chosen(Now, ToolCall, "attempt", a))
              = ViewsOf(then, Chosen(then, ToolCall, "attempt", a))
        BY <1>1, <2>4, ListsStay
      <4> QED BY <4>1 DEF Chosen, ToolCallsAt, ActivityOf
    <3>3. ObservationsAt(Now, w, a) = ObservationsAt(then, w, a)
      <4>1. ViewsOf(Now, Chosen(Now, Observation, "attempt", a))
              = ViewsOf(then, Chosen(then, Observation, "attempt", a))
        BY <1>1, <2>4, ListsStay
      <4> QED BY <4>1 DEF Chosen, ObservationsAt, ActivityOf
    <3> QED BY <3>1, <3>2, <3>3
  <2>6. ASSUME NEW x
        PROVE  /\ FailuresOf(Now, w, x) = FailuresOf(then, w, x)
               /\ DecisionsOf(Now, w, x) = DecisionsOf(then, w, x)
    <3>1. FailuresOf(Now, w, x) = FailuresOf(then, w, x)
      <4>1. ViewsOf(Now, Chosen(Now, Failure, "scope", x))
              = ViewsOf(then, Chosen(then, Failure, "scope", x))
        BY <1>1, <2>4, ListsStay
      <4> QED BY <4>1 DEF Chosen, FailuresOf
    <3>2. DecisionsOf(Now, w, x) = DecisionsOf(then, w, x)
      <4>1. ViewsOf(Now, Chosen(Now, Decision, "subject", x))
              = ViewsOf(then, Chosen(then, Decision, "subject", x))
        BY <1>1, <2>4, ListsStay
      <4> QED BY <4>1 DEF Chosen, DecisionsOf
    <3> QED BY <3>1, <3>2
  <2>7. RecordsAt(Now, w) = RecordsAt(then, w)
    BY <1>1, RecordsStay
  <2> QED BY <2>1, <2>2, <2>3, <2>5, <2>6, <2>7 DEF SnapshotAnswersStay
<1> QED BY <1>1, SnapshotsAreHistory, PTL

-----------------------------------------------------------------------------
(* Branches *)

LEMMA OneSession ==
  ASSUME LedgerInv, NEW x, x \notin Artifact,
         NEW i \in 1 .. Len(records), NEW j \in 1 .. Len(records),
         About(records, i, x), About(records, j, x)
  PROVE  records[i].session = records[j].session
<1>1. ASSUME NEW k \in 1 .. Len(records), NEW m \in 1 .. Len(records),
             About(records, k, x), About(records, m, x), k < m
      PROVE  records[k].session = records[m].session
  <2>1. KeepsSession(records, m)
    BY Settled DEF Follows
  <2>2. k \in 1 .. m - 1
    BY <1>1, Settled
  <2> QED BY <1>1, <2>1, <2>2 DEF KeepsSession, About
<1>2. i \in Nat /\ j \in Nat
  BY Settled
<1> QED BY <1>1, <1>2

(* What a record refers to is of its session.                               *)
LEMMA ReferredSession ==
  ASSUME LedgerInv, NEW x \in Entity \ Artifact, NEW at \in 1 .. Len(records),
         records[at].draft.type # "SessionOpened",
         x \in References(records[at].draft),
         NEW i \in 1 .. Len(records), About(records, i, x)
  PROVE  records[i].session = records[at].session
<1>1. x # None
  BY NoneAssumption
<1>2. PICK k \in 1 .. at - 1 :
        About(records, k, x) /\ records[k].session = records[at].session
  BY <1>1, Settled DEF Follows, PointsBack, HasHome
<1>3. k \in 1 .. Len(records)
  BY <1>2, Settled
<1> QED BY <1>2, <1>3, OneSession

LEMMA ExperimentBranch ==
  ASSUME LedgerInv, NEW e \in Experiment, NEW at, 
         DeclaredAs(records, Len(records), e, at)
  PROVE  /\ records[at].draft.type = "ExperimentDeclared"
         /\ \A b : e \in ExperimentsOf(b) <=> records[at].draft.body.branch = b
<1> DEFINE n == Len(records)
<1>1. /\ n \in Nat /\ DOMAIN records = 1 .. n /\ at \in 1 .. n
      /\ records[at].draft \in Drafts /\ records[at].draft.body.id = e
      /\ records[at].draft.type \in DeclaringType
  BY Settled DEF DeclaredAs, TypedAbout
<1>2. records[at].draft.type = "ExperimentDeclared"
  BY <1>1, MoreTypesOfKinds DEF DeclaringType
<1>3. ASSUME NEW b, e \in ExperimentsOf(b)
      PROVE  records[at].draft.body.branch = b
  <2>1. PICK m \in 1 .. n :
          /\ records[m].draft.type = "ExperimentDeclared"
          /\ records[m].draft.body.branch = b /\ records[m].draft.body.id = e
    BY <1>1, <1>3 DEF ExperimentsOf
  <2>2. DeclaredAs(records, n, e, m)
    BY <2>1 DEF DeclaredAs, TypedAbout, DeclaringType
  <2>3. m = at
    BY <2>2, DeclaredFirst
  <2> QED BY <2>1, <2>3
<1>4. ASSUME NEW b, records[at].draft.body.branch = b
      PROVE  e \in ExperimentsOf(b)
  BY <1>1, <1>2, <1>4 DEF ExperimentsOf
<1> QED BY <1>2, <1>3, <1>4

(* The attempts of a branch are those its records started.                  *)
StartedOn(b, w, a) ==
  \E i \in 1 .. w : /\ records[i].draft.type = "AttemptStarted"
                    /\ records[i].draft.body.branch = b
                    /\ records[i].draft.body.id = a

LEMMA AttemptsOnBranch ==
  ASSUME LedgerInv, NEW w \in Nat, w <= Len(records),
         NEW b \in Branch, view[b] # None, NEW a
  PROVE  a \in VisibleIn(Now, w, AttemptsOfBranch(Now, b), "started_at")
           <=> StartedOn(b, w, a)
<1> DEFINE n == Len(records)
<1>1. n \in Nat /\ DOMAIN records = 1 .. n /\ Now.view = view
      /\ \A i \in 1 .. n : records[i].draft \in Drafts
  BY Settled DEF Now
<1>2. view[b].links \cap Experiment = ExperimentsOf(b)
  BY DEF LedgerInv, PictureInv, ListsInv
<1>3. \A e \in Experiment : view[e] # None =>
        view[e].links \cap Attempt = AttemptsOf(e)
  BY DEF LedgerInv, PictureInv, ListsInv
<1>4. ExperimentsOf(b) \subseteq Experiment
  BY <1>2
<1>5. a \in AttemptsOfBranch(Now, b) <=>
        \E e \in ExperimentsOf(b) : view[e] # None /\ a \in AttemptsOf(e)
  BY <1>1, <1>2, <1>3, <1>4 DEF AttemptsOfBranch, ExperimentsOfBranch
<1>6. ASSUME a \in Attempt, NEW i \in 1 .. n,
             records[i].draft.type = "AttemptStarted",
             records[i].draft.body.id = a
      PROVE  view[a] # None /\ view[a].started_at = i
  <2>1. a \in Entity \ Artifact /\ a \in Entity
    BY <1>6, IdentityDomains DEF Entity, Subject
  <2>2. DeclaredAs(records, n, a, i) /\ About(records, i, a)
    BY <1>6 DEF DeclaredAs, TypedAbout, About, DeclaringType
  <2>3. view[a] # None
    BY <2>1, <2>2, AboutIsThere
  <2>4. Born(a) = i
    BY <2>1, <2>2, <2>3, BornAtDeclaration, DeclaredFirst
  <2> QED BY <1>6, <2>3, <2>4, BornOfKinds
<1>7. ASSUME NEW i \in 1 .. n, records[i].draft.type = "AttemptStarted"
      PROVE  /\ records[i].draft.body.id \in Attempt
             /\ LET e == records[i].draft.body.experiment IN
                /\ e \in Experiment /\ view[e] # None
                /\ \A c : e \in ExperimentsOf(c) <=>
                            records[i].draft.body.branch = c
  <2> DEFINE e == records[i].draft.body.experiment
  <2>1. records[i].draft.body \in AttemptBody
    BY <1>1, <1>7, DraftBodies
  <2>2. records[i].draft.body.id \in Attempt /\ e \in Experiment
    BY <2>1 DEF AttemptBody
  <2>3. PICK k \in 1 .. i - 1 :
          /\ TypedAbout(records, k, DeclaringType, e)
          /\ records[k].draft.body.branch = records[i].draft.body.branch
    BY <1>7, Settled DEF Builds, StartsOnBranch
  <2>4. k \in 1 .. n
    BY <1>1, <2>3
  <2>5. DeclaredAs(records, n, e, k) /\ About(records, k, e)
    BY <2>3, <2>4 DEF DeclaredAs, TypedAbout, About, DeclaringType
  <2>6. e \in Entity
    BY <2>2 DEF Entity, Subject
  <2>7. view[e] # None
    BY <2>4, <2>5, <2>6, AboutIsThere
  <2>8. \A c : e \in ExperimentsOf(c) <=> records[k].draft.body.branch = c
    BY <2>2, <2>5, ExperimentBranch
  <2> QED BY <2>2, <2>3, <2>7, <2>8
<1>8. ASSUME a \in VisibleIn(Now, w, AttemptsOfBranch(Now, b), "started_at")
      PROVE  StartedOn(b, w, a)
  <2>1. PICK e \in ExperimentsOf(b) : view[e] # None /\ a \in AttemptsOf(e)
    BY <1>5, <1>8 DEF VisibleIn
  <2>2. PICK i \in 1 .. n :
          /\ records[i].draft.type = "AttemptStarted"
          /\ records[i].draft.body.experiment = e
          /\ records[i].draft.body.id = a
    BY <1>1, <2>1 DEF AttemptsOf
  <2>3. a \in Attempt /\ records[i].draft.body.branch = b
    BY <1>7, <2>1, <2>2
  <2>4. view[a].started_at = i
    BY <1>6, <2>2, <2>3
  <2>5. i <= w
    BY <1>1, <1>8, <2>4 DEF VisibleIn, Visible
  <2> QED BY <2>2, <2>3, <2>5 DEF StartedOn
<1>9. ASSUME StartedOn(b, w, a)
      PROVE  a \in VisibleIn(Now, w, AttemptsOfBranch(Now, b), "started_at")
  <2>1. PICK i \in 1 .. w :
          /\ records[i].draft.type = "AttemptStarted"
          /\ records[i].draft.body.branch = b
          /\ records[i].draft.body.id = a
    BY <1>9 DEF StartedOn
  <2> DEFINE e == records[i].draft.body.experiment
  <2>2. i \in 1 .. n /\ i # 0 /\ i <= w
    BY <1>1, <2>1
  <2>3. /\ a \in Attempt /\ e \in Experiment /\ view[e] # None
        /\ e \in ExperimentsOf(b)
    BY <1>7, <2>1, <2>2
  <2>4. a \in AttemptsOf(e)
    BY <1>1, <2>1, <2>2 DEF AttemptsOf
  <2>5. a \in AttemptsOfBranch(Now, b)
    BY <1>5, <2>3, <2>4
  <2>6. view[a] # None /\ view[a].started_at = i
    BY <1>6, <2>1, <2>2, <2>3
  <2> QED BY <1>1, <2>2, <2>5, <2>6 DEF VisibleIn, Visible
<1> QED BY <1>8, <1>9

LEMMA CompletedInHistory ==
  ASSUME LedgerInv, NEW w \in Nat, w <= Len(records),
         NEW a \in Attempt, view[a] # None
  PROVE  CompletedAt(Now, w, a)
           <=> \E j \in Of(a, { "AttemptCompleted" }) : j <= w
<1> DEFINE n == Len(records)
           v == view[a]
           at == v.terminated_at
<1>1. n \in Nat /\ Now.view = view
      /\ \A x, types : \A i : i \in Of(x, types) <=>
           i \in 1 .. n /\ TypedAbout(records, i, types, x)
  BY Settled DEF Now
<1>2. /\ DepictsEnd(records, n, a, v) /\ ShowsAttempt(records, n, a, v)
  BY Settled DEF Depicts, DepictsAttempt, Shows, Entity, Subject
<1>3. ASSUME v.state = "Completed", Visible(at, w)
      PROVE  \E j \in Of(a, { "AttemptCompleted" }) : j <= w
  <2>1. /\ at \in 1 .. n
        /\ TypedAbout(records, at, TerminalType, a)
        /\ TerminalState[records[at].draft.type] = "Completed"
    BY <1>2, <1>3 DEF DepictsEnd
  <2>2. TypedAbout(records, at, { "AttemptCompleted" }, a)
    BY <2>1 DEF TypedAbout, TerminalType, TerminalState
  <2> QED BY <1>1, <1>3, <2>1, <2>2 DEF Visible
<1>4. ASSUME NEW j \in Of(a, { "AttemptCompleted" }), j <= w
      PROVE  v.state = "Completed" /\ Visible(at, w)
  <2>1. /\ j \in 1 .. n /\ TypedAbout(records, j, TerminalType, a)
        /\ records[j].draft.type = "AttemptCompleted"
    BY <1>1 DEF TypedAbout, TerminalType, TerminalState
  <2>2. v.state # "Running"
    BY <1>2, <2>1 DEF ShowsAttempt
  <2>3. EndedAt(a, at) /\ EndedAt(a, j)
        /\ v.state = TerminalState[records[at].draft.type]
    BY <1>2, <2>1, <2>2 DEF DepictsEnd, EndedAt
  <2>4. at = j
    BY <2>3, EndedOnce
  <2>5. v.state = "Completed"
    BY <2>1, <2>3, <2>4 DEF TerminalState
  <2>6. j # 0
    BY <2>1
  <2> QED BY <1>4, <2>4, <2>5, <2>6 DEF Visible
<1> HIDE DEF v, at
<1> QED BY <1>1, <1>3, <1>4 DEF CompletedAt, v, at

LEMMA AcceptedInHistory ==
  ASSUME LedgerInv, NEW w \in Nat, w <= Len(records), NEW r \in Result,
         AcceptedBy(r, w) => view[r].last_changed_at <= w
  PROVE  AcceptedBy(r, w) <=>
           /\ view[r] # None /\ Visible(view[r].declared_at, w)
           /\ view[r].last_changed_at <= w /\ view[r].status = "Accepted"
<1> DEFINE n == Len(records)
           v == view[r]
           c == v.last_changed_at
           changes == ChangesUpTo(records, n, r)
<1>1. n \in Nat /\ r \in Entity /\ r \in Entity \ Artifact
  BY Settled, IdentityDomains DEF Entity, Subject
<1>2. v # None => /\ DepictsStatus(records, n, r, v, "Candidate")
                  /\ v \in ResultView
                  /\ DeclaredAs(records, n, r, v.declared_at)
  BY <1>1, Settled DEF Depicts, DepictsResult, ViewOf
<1>3. \A i : i \in ChangesOf(r) <=> i \in changes
  BY ChangesAre
<1>4. \A i \in changes : i \in 1 .. n /\ About(records, i, r)
  BY DEF ChangesUpTo, TypedAbout, About, ChangeType
<1> HIDE DEF c, v, changes
<1>5. ASSUME AcceptedBy(r, w)
      PROVE  /\ v # None /\ Visible(v.declared_at, w)
             /\ c <= w /\ v.status = "Accepted"
  <2>1. PICK j \in changes :
          /\ j <= w /\ records[j].draft.body.to = "Accepted"
          /\ \A i \in changes : i <= j \/ i > w
    BY <1>3, <1>5 DEF AcceptedBy
  <2>2. v # None
    BY <1>1, <1>4, <2>1, AboutIsThere DEF v
  <2>3. c <= w
    BY <1>5 DEF c, v
  <2>4. LastOf(changes, c) /\ v.status = records[c].draft.body.to
    BY <1>2, <2>1, <2>2 DEF DepictsStatus, changes, c
  <2>5. c \in changes /\ j <= c
    BY <2>1, <2>4 DEF LastOf
  <2>6. c = j
    BY <1>1, <1>4, <2>1, <2>3, <2>5
  <2>7. v.declared_at <= j /\ v.declared_at \in 1 .. n
    BY <1>2, <1>4, <2>1, <2>2, DeclaredFirst DEF DeclaredAs
  <2>8. Visible(v.declared_at, w)
    BY <1>1, <1>4, <2>1, <2>7 DEF Visible
  <2> QED BY <2>1, <2>2, <2>3, <2>4, <2>6, <2>8
<1>6. ASSUME v # None, c <= w, v.status = "Accepted"
      PROVE  AcceptedBy(r, w)
  <2>1. changes # {}
    <3>1. SUFFICES ASSUME changes = {} PROVE FALSE
      OBVIOUS
    <3>2. ~LastOf(changes, c)
      BY <3>1 DEF LastOf
    <3> QED BY <1>2, <1>6, <3>2 DEF DepictsStatus, changes, c
  <2>2. LastOf(changes, c) /\ records[c].draft.body.to = "Accepted"
    BY <1>2, <1>6, <2>1 DEF DepictsStatus, changes, c
  <2> QED BY <1>3, <1>6, <2>2 DEF AcceptedBy, LastOf
<1> QED BY <1>5, <1>6 DEF c, v

LEMMA DraftsOfDeclared ==
  ASSUME LedgerInv, NEW x \in Entity \ Artifact, view[x] # None
  PROVE  DraftOf(x) = records[Born(x)].draft.body
<1>1. DeclaredAs(records, Len(records), x, Born(x))
  BY BornAtDeclaration
<1>2. \A i : i \in Declared(x) <=> DeclaredAs(records, Len(records), x, i)
  BY Settled DEF Declared, DeclaredAs
<1>3. Declared(x) = { Born(x) }
  BY <1>1, <1>2, DeclaredFirst
<1> QED BY <1>3 DEF DraftOf

LEMMA ExperimentsAreOn ==
  ASSUME LedgerInv, NEW b
  PROVE  ExperimentsOn(b) = ExperimentsOf(b)
BY DEF ExperimentsOn, ExperimentsOf, Types

(* A result and a branch are of one session if the result rests on one of   *)
(* the branch's experiments.                                                *)
LEMMA RestsInSession ==
  ASSUME LedgerInv, NEW r \in Result, NEW b \in Branch,
         view[r] # None, view[b] # None,
         NEW e \in view[r].support \cap ExperimentsOf(b)
  PROVE  r \in children[view[b].session]
<1> DEFINE n == Len(records)
           at == view[r].declared_at
<1>1. /\ n \in Nat /\ DOMAIN records = 1 .. n
      /\ \A i \in 1 .. n : records[i].draft \in Drafts
  BY Settled
<1>2. /\ r \in Entity /\ r \in Entity \ Artifact
      /\ b \in Entity /\ b \in Entity \ Artifact
      /\ b \notin Attempt \cup ModelCall \cup ToolCall
      /\ r \notin Attempt \cup ModelCall \cup ToolCall
  BY IdentityDomains DEF Entity, Subject
<1>3. /\ DeclaredAs(records, n, r, at)
      /\ view[r].session = records[at].draft.body.session
      /\ view[r].support = records[at].draft.body.support
  BY <1>2, Settled DEF Depicts, DepictsResult
<1>4. /\ at \in 1 .. n /\ About(records, at, r)
      /\ records[at].draft.body.id = r
      /\ records[at].draft.type \in DeclaringType
  BY <1>3 DEF DeclaredAs, TypedAbout, About, DeclaringType
<1>5. records[at].draft.type = "ResultDeclared"
  BY <1>1, <1>4, MoreTypesOfKinds DEF DeclaringType
<1>6. PICK m \in 1 .. n :
        /\ records[m].draft.type = "ExperimentDeclared"
        /\ records[m].draft.body.branch = b /\ records[m].draft.body.id = e
  BY <1>1 DEF ExperimentsOf
<1>7. e \in Experiment
  <2>1. records[m].draft.body \in ExperimentBody
    BY <1>1, <1>6, DraftBodies
  <2> QED BY <1>6, <2>1 DEF ExperimentBody
<1>8. e \in Entity \ Artifact /\ About(records, m, e)
  BY <1>6, <1>7, IdentityDomains DEF Entity, Subject, About
<1> HIDE DEF at
<1>9. records[m].session = records[at].session
  <2>1. e \in References(records[at].draft)
    BY <1>3, <1>5 DEF References
  <2> QED BY <1>4, <1>5, <1>8, <2>1, ReferredSession
<1>10. PICK k \in 1 .. n :
         About(records, k, b) /\ records[k].session = view[b].session
  BY <1>2, Settled DEF Shows, HasHome
<1>11. records[k].session = records[m].session
  <2>1. b \in References(records[m].draft)
    BY <1>6 DEF References
  <2> QED BY <1>2, <1>6, <1>10, <2>1, ReferredSession
<1>12. PICK i \in 1 .. n :
         About(records, i, r) /\ records[i].session = view[r].session
  BY <1>2, Settled DEF Shows, HasHome
<1>13. records[i].session = records[at].session
  BY <1>2, <1>4, <1>12, OneSession
<1>14. records[at].draft.body.session = view[b].session
  BY <1>3, <1>9, <1>10, <1>11, <1>12, <1>13
<1>15. OwnersOf(records[at]) = { view[b].session }
  BY <1>5, <1>14 DEF OwnersOf
<1>16. r \in Listed(view[b].session)
  BY <1>1, <1>4, <1>15 DEF Listed
<1>17. view[b].session \in Entity
  <2>1. view[b] \in BranchView
    BY <1>2, Settled DEF ViewOf
  <2> QED BY <2>1 DEF BranchView, Entity, Subject
<1> QED BY <1>16, <1>17 DEF LedgerInv, PictureInv, ListsInv

LEMMA BranchInHistory ==
  ASSUME LedgerInv, NEW w \in Nat, w <= Len(records),
         \A r \in Result : AcceptedBy(r, w) => view[r].last_changed_at <= w,
         NEW b \in Branch, view[b] # None
  PROVE  UnresolvedAt(Now, w, b) <=> UnresolvedInHistory(b, w)
<1> DEFINE n == Len(records)
           attempts == VisibleIn(Now, w, AttemptsOfBranch(Now, b), "started_at")
           started == { i \in Types({ "AttemptStarted" }) :
                          i <= w /\ records[i].draft.body.branch = b }
<1>1. /\ n \in Nat /\ DOMAIN records = 1 .. n /\ Now.view = view
      /\ Now.children = children
      /\ \A i \in 1 .. n : records[i].draft \in Drafts
  BY Settled DEF Now
<1>2. \A a : a \in attempts <=> StartedOn(b, w, a)
  BY AttemptsOnBranch
<1>3. \A i : i \in started <=> /\ i \in 1 .. w
                               /\ records[i].draft.type = "AttemptStarted"
                               /\ records[i].draft.body.branch = b
  BY <1>1 DEF Types
<1>4. \A a : a \in attempts <=> \E i \in started : records[i].draft.body.id = a
  BY <1>2, <1>3 DEF StartedOn
<1>5. \A a \in attempts : a \in Attempt /\ view[a] # None
  <2>1. TAKE a \in attempts
  <2>2. PICK i \in started : records[i].draft.body.id = a
    BY <1>4
  <2>3. i \in 1 .. n /\ records[i].draft.type = "AttemptStarted"
    BY <1>1, <1>3
  <2>4. records[i].draft.body \in AttemptBody
    BY <1>1, <2>3, DraftBodies
  <2>5. a \in Attempt
    BY <2>2, <2>4 DEF AttemptBody
  <2>6. view[a] # None
    BY <1>1 DEF VisibleIn
  <2> QED BY <2>5, <2>6
<1> HIDE DEF attempts, started
<1>6. attempts # {} <=> started # {}
  BY <1>4
<1>7. (\A a \in attempts : ~CompletedAt(Now, w, a))
        <=> \A i \in started :
              \A j \in Of(records[i].draft.body.id, { "AttemptCompleted" }) :
                j > w
  <2>1. \A a \in attempts :
          CompletedAt(Now, w, a)
            <=> \E j \in Of(a, { "AttemptCompleted" }) : j <= w
    BY <1>5, CompletedInHistory
  <2>2. \A a : \A j \in Of(a, { "AttemptCompleted" }) : j > w <=> ~(j <= w)
    BY <1>1, Settled DEF Of, Types
  <2> QED BY <1>4, <2>1, <2>2
<1>8. (ExperimentsOfBranch(Now, b)
         \cap AcceptedExperiments(Now, w, view[b].session) = {})
        <=> \A r \in Result : AcceptedBy(r, w) =>
              DraftOf(r).support \cap ExperimentsOn(b) = {}
  <2>1. /\ ExperimentsOfBranch(Now, b) = ExperimentsOf(b)
        /\ ExperimentsOn(b) = ExperimentsOf(b)
    BY <1>1, ExperimentsAreOn
       DEF LedgerInv, PictureInv, ListsInv, ExperimentsOfBranch
  <2>2. ASSUME NEW r \in Result
        PROVE  /\ AcceptedBy(r, w) <=>
                    /\ view[r] # None /\ Visible(view[r].declared_at, w)
                    /\ view[r].last_changed_at <= w
                    /\ view[r].status = "Accepted"
               /\ view[r] # None => DraftOf(r).support = view[r].support
    <3>1. r \in Entity \ Artifact /\ r \in Entity
      BY IdentityDomains DEF Entity, Subject
    <3>2. AcceptedBy(r, w) <=>
            /\ view[r] # None /\ Visible(view[r].declared_at, w)
            /\ view[r].last_changed_at <= w /\ view[r].status = "Accepted"
      BY AcceptedInHistory
    <3>3. view[r] # None => DraftOf(r).support = view[r].support
      BY <3>1, DraftsOfDeclared, BornOfKinds, Settled
         DEF Depicts, DepictsResult
    <3> QED BY <3>2, <3>3
  <2>3. \A e : e \in AcceptedExperiments(Now, w, view[b].session) <=>
          \E r \in children[view[b].session] \cap Result :
            /\ view[r] # None /\ Visible(view[r].declared_at, w)
            /\ view[r].last_changed_at <= w /\ view[r].status = "Accepted"
            /\ e \in view[r].support \cap Experiment
    BY <1>1 DEF AcceptedExperiments, VisibleIn
  <2>4. ExperimentsOf(b) \subseteq Experiment
    BY DEF LedgerInv, PictureInv, ListsInv
  <2>5. ASSUME NEW r \in Result, AcceptedBy(r, w),
               NEW e \in DraftOf(r).support \cap ExperimentsOf(b)
        PROVE  e \in AcceptedExperiments(Now, w, view[b].session)
    <3>1. view[r] # None /\ e \in view[r].support \cap ExperimentsOf(b)
      BY <2>2, <2>5
    <3>2. r \in children[view[b].session]
      BY <3>1, RestsInSession
    <3> QED BY <2>2, <2>3, <2>4, <2>5, <3>1, <3>2
  <2>6. ASSUME NEW e \in ExperimentsOf(b),
               e \in AcceptedExperiments(Now, w, view[b].session)
        PROVE  \E r \in Result : /\ AcceptedBy(r, w)
                                 /\ e \in DraftOf(r).support
    BY <2>2, <2>3, <2>6
  <2>7. ExperimentsOf(b) \cap AcceptedExperiments(Now, w, view[b].session) = {}
          <=> \A r \in Result : AcceptedBy(r, w) =>
                DraftOf(r).support \cap ExperimentsOf(b) = {}
    BY <2>5, <2>6
  <2> QED BY <2>1, <2>7
<1>9. UnresolvedAt(Now, w, b) <=>
        /\ attempts # {}
        /\ \A a \in attempts : ~CompletedAt(Now, w, a)
        /\ ExperimentsOfBranch(Now, b)
             \cap AcceptedExperiments(Now, w, view[b].session) = {}
  BY <1>1 DEF UnresolvedAt, attempts
<1>10. UnresolvedInHistory(b, w) <=>
         /\ started # {}
         /\ \A i \in started :
              \A j \in Of(records[i].draft.body.id, { "AttemptCompleted" }) :
                j > w
         /\ \A r \in Result : AcceptedBy(r, w) =>
              DraftOf(r).support \cap ExperimentsOn(b) = {}
  BY DEF UnresolvedInHistory, started
<1> QED BY <1>6, <1>7, <1>8, <1>9, <1>10

(* branch() and resolve_branch_state agree with the history up to the       *)
(* watermark: which attempts count, which of them completed, and which      *)
(* results rest on the branch's experiments.                                *)
THEOREM BranchesAreHistory == QuerySpec => []BranchesMatchHistory
<1>1. ASSUME LedgerInv, HeldInv PROVE BranchesMatchHistory
  <2>1. ASSUME NEW w \in { Len(records), watermark } \ { None },
               \A r \in Result :
                 AcceptedBy(r, w) => view[r].last_changed_at <= w,
               NEW b \in Branch, BranchAt(Now, w, b) # None
        PROVE  BranchAt(Now, w, b).unresolved <=> UnresolvedInHistory(b, w)
    <3>1. w \in Nat /\ w <= Len(records)
      <4>1. Len(records) \in Nat
        BY <1>1, Settled
      <4> QED BY <1>1, <2>1, <4>1 DEF HeldInv
    <3>2. view[b] # None /\ BranchAt(Now, w, b).unresolved = UnresolvedAt(Now, w, b)
      BY <2>1 DEF BranchAt, VisibleIn, Now
    <3>3. UnresolvedAt(Now, w, b) <=> UnresolvedInHistory(b, w)
      BY <1>1, <2>1, <3>1, <3>2, BranchInHistory
    <3> QED BY <3>2, <3>3
  <2> QED BY <2>1, Zenon DEF BranchesMatchHistory
<1> QED BY <1>1, SnapshotsAreHistory, PTL


-----------------------------------------------------------------------------
(* Walks over the indexes.  Closure takes as many steps as there are        *)
(* entities; what it reaches is put down to the paths of at most so many    *)
(* steps, which can be read from either end.                                *)
LEMMA Induction ==
  ASSUME NEW T, 0 \in T, \A n \in Nat : n \in T => n + 1 \in T
  PROVE  Nat \subseteq T
<1> DEFINE less == { ss \in Nat \X Nat : ss[1] < ss[2] }
           Missing == { n \in Nat : n \notin T }
<1>1. IsWellFoundedOn(less, Nat)
  BY NatLessThanWellFounded DEF OpToRel
<1> HIDE DEF less
<1>2. SUFFICES ASSUME Missing # {} PROVE FALSE
  OBVIOUS
<1>3. \E x \in Missing : \A y \in Missing : ~(<< y, x >> \in less)
  <2>1. \A R, S : IsWellFoundedOn(R, S) =>
          \A V : V \subseteq S /\ V # {} =>
            \E x \in V : \A y \in V : ~(<< y, x >> \in R)
    BY WFMin
  <2> QED BY <1>1, <1>2, <2>1
<1>4. PICK x : x \in Missing /\ \A y \in Missing : ~(<< y, x >> \in less)
  BY <1>3
<1>5. x \in Nat /\ x # 0 /\ x - 1 \in Nat /\ (x - 1) + 1 = x
  BY <1>4
<1>6. << x - 1, x >> \in less
  BY <1>5 DEF less
<1>7. x - 1 \in T
  BY <1>4, <1>5, <1>6
<1> QED BY <1>4, <1>5, <1>7

(* What a path of at most n steps within P, along the edges E, leads to     *)
(* from S.                                                                  *)
Path(P, E, k, p) ==
  p \in [ 0 .. k -> P ] /\ \A i \in 1 .. k : << p[i - 1], p[i] >> \in E

Walked(P, E, S, n) ==
  { y \in P : \E k \in 0 .. n : \E p : Path(P, E, k, p) /\ p[0] \in S /\ p[k] = y }

Beyond(P, E, V) == { y \in P : \E x \in V : << x, y >> \in E }

GoesFurther(P, E, S, n) ==
  Walked(P, E, S, n + 1)
    = Walked(P, E, S, n) \cup Beyond(P, E, Walked(P, E, S, n))

LEMMA WalkedFurther ==
  ASSUME NEW P, NEW E, NEW S \in SUBSET P, NEW n \in Nat
  PROVE  Walked(P, E, S, 0) = S /\ GoesFurther(P, E, S, n)
<1> DEFINE next ==
             { y \in P : \E x \in Walked(P, E, S, n) : << x, y >> \in E }
<1>1. ASSUME NEW y \in S
      PROVE  y \in Walked(P, E, S, 0)
  <2> DEFINE p == [ i \in 0 .. 0 |-> y ]
  <2>1. Path(P, E, 0, p) /\ p[0] = y
    BY DEF Path
  <2>2. 0 \in 0 .. 0
    OBVIOUS
  <2> HIDE DEF p
  <2> QED BY <1>1, <2>1, <2>2 DEF Walked
<1>2. ASSUME NEW y \in Walked(P, E, S, 0)
      PROVE  y \in S
  <2>1. PICK k \in 0 .. 0 : \E p : Path(P, E, k, p) /\ p[0] \in S /\ p[k] = y
    BY <1>2 DEF Walked
  <2> QED BY <2>1
<1>3. ASSUME NEW y \in Walked(P, E, S, n)
      PROVE  y \in Walked(P, E, S, n + 1)
  <2>1. PICK k \in 0 .. n : \E p : Path(P, E, k, p) /\ p[0] \in S /\ p[k] = y
    BY <1>3 DEF Walked
  <2>2. k \in 0 .. n + 1 /\ y \in P
    BY <1>3 DEF Walked
  <2> QED BY <2>1, <2>2 DEF Walked
<1>4. ASSUME NEW y \in next
      PROVE  y \in Walked(P, E, S, n + 1)
  <2>1. PICK x \in Walked(P, E, S, n) : << x, y >> \in E
    BY <1>4
  <2>2. PICK k \in 0 .. n : \E p : Path(P, E, k, p) /\ p[0] \in S /\ p[k] = x
    BY DEF Walked
  <2>3. PICK p : Path(P, E, k, p) /\ p[0] \in S /\ p[k] = x
    BY <2>2
  <2> DEFINE q == [ i \in 0 .. k + 1 |-> IF i <= k THEN p[i] ELSE y ]
  <2>4. k \in Nat /\ k + 1 \in 0 .. n + 1 /\ y \in P
    OBVIOUS
  <2>5. q \in [ 0 .. k + 1 -> P ]
    BY <2>3, <2>4 DEF Path
  <2>6. ASSUME NEW i \in 1 .. k + 1
        PROVE  << q[i - 1], q[i] >> \in E
    <3>1. CASE i \in 1 .. k
      <4>1. q[i - 1] = p[i - 1] /\ q[i] = p[i]
        BY <2>4, <3>1
      <4> QED BY <2>3, <3>1, <4>1 DEF Path
    <3>2. CASE i = k + 1
      <4>1. q[i - 1] = p[k] /\ q[i] = y
        BY <2>4, <3>2
      <4> QED BY <2>1, <2>3, <4>1
    <3> QED BY <2>4, <3>1, <3>2
  <2>7. q[0] = p[0] /\ q[k + 1] = y
    BY <2>4
  <2> HIDE DEF q
  <2>8. Path(P, E, k + 1, q)
    BY <2>5, <2>6 DEF Path
  <2> QED BY <2>3, <2>4, <2>7, <2>8 DEF Walked
<1>5. ASSUME NEW y \in Walked(P, E, S, n + 1), y \notin Walked(P, E, S, n)
      PROVE  y \in next
  <2>1. PICK k \in 0 .. n + 1 : \E p : Path(P, E, k, p) /\ p[0] \in S /\ p[k] = y
    BY <1>5 DEF Walked
  <2>2. PICK p : Path(P, E, k, p) /\ p[0] \in S /\ p[k] = y
    BY <2>1
  <2>3. y \in P
    BY <1>5 DEF Walked
  <2>4. k = n + 1
    <3>1. k \notin 0 .. n
      BY <1>5, <2>2, <2>3 DEF Walked
    <3> QED BY <3>1
  <2> DEFINE q == [ i \in 0 .. n |-> p[i] ]
  <2>5. p \in [ 0 .. n + 1 -> P ] /\ \A i \in 1 .. n + 1 : << p[i - 1], p[i] >> \in E
    BY <2>2, <2>4 DEF Path
  <2>6. q \in [ 0 .. n -> P ]
    BY <2>5
  <2>7. ASSUME NEW i \in 1 .. n
        PROVE  << q[i - 1], q[i] >> \in E
    <3>1. q[i - 1] = p[i - 1] /\ q[i] = p[i] /\ i \in 1 .. n + 1
      OBVIOUS
    <3> QED BY <2>5, <3>1
  <2>8. q[0] = p[0] /\ q[n] = p[n] /\ n \in 0 .. n /\ p[n] \in P
    BY <2>5
  <2>9. << p[n], y >> \in E
    <3>1. n + 1 \in 1 .. n + 1 /\ (n + 1) - 1 = n
      OBVIOUS
    <3> QED BY <2>2, <2>4, <2>5, <3>1
  <2> HIDE DEF q
  <2>10. Path(P, E, n, q)
    BY <2>6, <2>7 DEF Path
  <2>11. p[n] \in Walked(P, E, S, n)
    BY <2>2, <2>8, <2>10 DEF Walked
  <2> QED BY <2>3, <2>9, <2>11
<1>6. next = Beyond(P, E, Walked(P, E, S, n))
  BY DEF Beyond
<1> HIDE DEF next
<1>7. Walked(P, E, S, n + 1) = Walked(P, E, S, n) \cup next
  BY <1>3, <1>4, <1>5
<1>8. Walked(P, E, S, 0) = S
  BY <1>1, <1>2
<1> QED BY <1>6, <1>7, <1>8 DEF GoesFurther

(* Sets that grow by the edges of what they hold are what is walked to.     *)
Grown(P, E, N, w) ==
  \A n \in 1 .. N :
    w[n - 1] \subseteq P => w[n] = w[n - 1] \cup Beyond(P, E, w[n - 1])

LEMMA WalkIs ==
  ASSUME NEW P, NEW E, NEW S \in SUBSET P, NEW N \in Nat, NEW w, w[0] = S,
         Grown(P, E, N, w)
  PROVE  w[N] = Walked(P, E, S, N)
<1> DEFINE T == { n \in Nat : n <= N => w[n] = Walked(P, E, S, n) }
<1>1. 0 \in T
  BY WalkedFurther
<1>2. ASSUME NEW n \in Nat, n \in T
      PROVE  n + 1 \in T
  <2>1. SUFFICES ASSUME n + 1 <= N PROVE w[n + 1] = Walked(P, E, S, n + 1)
    OBVIOUS
  <2>2. n <= N /\ n + 1 \in 1 .. N /\ (n + 1) - 1 = n
    BY <2>1
  <2>3. w[n] = Walked(P, E, S, n)
    BY <1>2, <2>2
  <2>4. w[n] \subseteq P
    BY <2>3 DEF Walked
  <2>5. w[n + 1] = w[n] \cup Beyond(P, E, w[n])
    BY <2>2, <2>4 DEF Grown
  <2>6. GoesFurther(P, E, S, n)
    BY WalkedFurther
  <2> QED BY <2>3, <2>5, <2>6 DEF GoesFurther
<1> HIDE DEF T
<1>3. N \in T
  BY <1>1, <1>2, Induction
<1> QED BY <1>3 DEF T

WalkOf(P, E, S, N) == [ n \in 0 .. N |-> Walked(P, E, S, n) ]

StaysIn(P, N, h) == \A n \in 0 .. N : h[n] \subseteq P

LEMMA WalkGrows ==
  ASSUME NEW P, NEW E, NEW S \in SUBSET P, NEW N \in Nat, NEW h,
         h = WalkOf(P, E, S, N)
  PROVE  h[0] = S /\ Grown(P, E, N, h) /\ StaysIn(P, N, h)
<1>0. h = [ n \in 0 .. N |-> Walked(P, E, S, n) ]
  BY DEF WalkOf
<1>1. h[0] = S
  <2>1. h[0] = Walked(P, E, S, 0)
    BY <1>0
  <2> QED BY <2>1, WalkedFurther
<1>2. ASSUME NEW n \in 1 .. N
      PROVE  h[n] = h[n - 1] \cup Beyond(P, E, h[n - 1])
  <2>1. n - 1 \in Nat /\ n - 1 \in 0 .. N /\ n \in 0 .. N /\ (n - 1) + 1 = n
    OBVIOUS
  <2>2. h[n - 1] = Walked(P, E, S, n - 1) /\ h[n] = Walked(P, E, S, n)
    BY <1>0, <2>1
  <2>3. GoesFurther(P, E, S, n - 1)
    BY <2>1, WalkedFurther
  <2> QED BY <2>1, <2>2, <2>3 DEF GoesFurther
<1>3. StaysIn(P, N, h)
  BY <1>0 DEF StaysIn, Walked
<1> QED BY <1>1, <1>2, <1>3 DEF Grown

LEMMA StepsCounted == Cardinality(Entity) \in Nat
BY EntitiesAssumption, FS_CardinalityType

(* Each closure the queries ask for is such a walk.                         *)
ParentsStay(P) == \A x \in P : ParentOf(Now, x) \subseteq P

ParentEdges(P) == { e \in P \X P : e[2] \in ParentOf(Now, e[1]) }

LEMMA ParentsWalked ==
  ASSUME NEW P, NEW S \in SUBSET P, ParentsStay(P)
  PROVE  Closure(S, LAMBDA x : ParentOf(Now, x))
           = Walked(P, ParentEdges(P), S, Cardinality(Entity))
<1> DEFINE N == Cardinality(Entity)
           E == ParentEdges(P)
           After(V) == V \cup UNION { ParentOf(Now, x) : x \in V }
           Grows(w) ==
             w = [ n \in 0 .. N |-> IF n = 0 THEN S ELSE After(w[n - 1]) ]
<1>1. N \in Nat
  BY StepsCounted
<1>2. ASSUME NEW V \in SUBSET P
      PROVE  After(V) = V \cup Beyond(P, E, V)
  <2>1. \A x \in V, y \in P : << x, y >> \in E <=> y \in ParentOf(Now, x)
    BY DEF ParentEdges
  <2>2. \A x \in V : ParentOf(Now, x) \subseteq P
    BY DEF ParentsStay
  <2> HIDE DEF E
  <2> QED BY <2>1, <2>2 DEF Beyond
<1>3. Closure(S, LAMBDA x : ParentOf(Now, x)) = (CHOOSE w : Grows(w))[N]
  BY DEF Closure
<1> HIDE DEF N, E, After
<1>4. \E w : Grows(w)
  <2>1. PICK h : h = WalkOf(P, E, S, N)
    OBVIOUS
  <2>2. h[0] = S /\ Grown(P, E, N, h) /\ StaysIn(P, N, h)
    BY <1>1, <2>1, WalkGrows
  <2>3. ASSUME NEW n \in 1 .. N
        PROVE  h[n] = After(h[n - 1])
    <3>1. h[n - 1] \subseteq P
      BY <1>1, <2>2 DEF StaysIn
    <3>2. h[n] = h[n - 1] \cup Beyond(P, E, h[n - 1])
      BY <2>2, <3>1 DEF Grown
    <3> QED BY <1>2, <3>1, <3>2
  <2>4. h = [ n \in 0 .. N |-> h[n] ]
    BY <2>1 DEF WalkOf
  <2>5. \A n \in 0 .. N : h[n] = IF n = 0 THEN S ELSE After(h[n - 1])
    BY <1>1, <2>2, <2>3
  <2> QED BY <2>4, <2>5
<1> DEFINE w == CHOOSE w : Grows(w)
<1>5. Grows(w)
  BY <1>4
<1> HIDE DEF w
<1>6. w[0] = S /\ \A n \in 1 .. N : w[n] = After(w[n - 1])
  BY <1>1, <1>5
<1>7. Grown(P, E, N, w)
  BY <1>2, <1>6 DEF Grown
<1>8. w[N] = Walked(P, E, S, N)
  BY <1>1, <1>6, <1>7, WalkIs
<1> QED BY <1>3, <1>8 DEF w, N, E

ArtifactParentsStay(P) == \A x \in P : ParentsOfArtifact(Now, x) \subseteq P

ArtifactParentEdges(P) == { e \in P \X P : e[2] \in ParentsOfArtifact(Now, e[1]) }

LEMMA ArtifactParentsWalked ==
  ASSUME NEW P, NEW S \in SUBSET P, ArtifactParentsStay(P)
  PROVE  Closure(S, LAMBDA x : ParentsOfArtifact(Now, x))
           = Walked(P, ArtifactParentEdges(P), S, Cardinality(Entity))
<1> DEFINE N == Cardinality(Entity)
           E == ArtifactParentEdges(P)
           After(V) == V \cup UNION { ParentsOfArtifact(Now, x) : x \in V }
           Grows(w) ==
             w = [ n \in 0 .. N |-> IF n = 0 THEN S ELSE After(w[n - 1]) ]
<1>1. N \in Nat
  BY StepsCounted
<1>2. ASSUME NEW V \in SUBSET P
      PROVE  After(V) = V \cup Beyond(P, E, V)
  <2>1. \A x \in V, y \in P : << x, y >> \in E <=> y \in ParentsOfArtifact(Now, x)
    BY DEF ArtifactParentEdges
  <2>2. \A x \in V : ParentsOfArtifact(Now, x) \subseteq P
    BY DEF ArtifactParentsStay
  <2> HIDE DEF E
  <2> QED BY <2>1, <2>2 DEF Beyond
<1>3. Closure(S, LAMBDA x : ParentsOfArtifact(Now, x)) = (CHOOSE w : Grows(w))[N]
  BY DEF Closure
<1> HIDE DEF N, E, After
<1>4. \E w : Grows(w)
  <2>1. PICK h : h = WalkOf(P, E, S, N)
    OBVIOUS
  <2>2. h[0] = S /\ Grown(P, E, N, h) /\ StaysIn(P, N, h)
    BY <1>1, <2>1, WalkGrows
  <2>3. ASSUME NEW n \in 1 .. N
        PROVE  h[n] = After(h[n - 1])
    <3>1. h[n - 1] \subseteq P
      BY <1>1, <2>2 DEF StaysIn
    <3>2. h[n] = h[n - 1] \cup Beyond(P, E, h[n - 1])
      BY <2>2, <3>1 DEF Grown
    <3> QED BY <1>2, <3>1, <3>2
  <2>4. h = [ n \in 0 .. N |-> h[n] ]
    BY <2>1 DEF WalkOf
  <2>5. \A n \in 0 .. N : h[n] = IF n = 0 THEN S ELSE After(h[n - 1])
    BY <1>1, <2>2, <2>3
  <2> QED BY <2>4, <2>5
<1> DEFINE w == CHOOSE w : Grows(w)
<1>5. Grows(w)
  BY <1>4
<1> HIDE DEF w
<1>6. w[0] = S /\ \A n \in 1 .. N : w[n] = After(w[n - 1])
  BY <1>1, <1>5
<1>7. Grown(P, E, N, w)
  BY <1>2, <1>6 DEF Grown
<1>8. w[N] = Walked(P, E, S, N)
  BY <1>1, <1>6, <1>7, WalkIs
<1> QED BY <1>3, <1>8 DEF w, N, E

HypothesesStay(P) == \A x \in P : (Now.children[x] \cap Hypothesis) \subseteq P

HypothesisEdges(P) == { e \in P \X P : e[2] \in (Now.children[e[1]] \cap Hypothesis) }

LEMMA HypothesesWalked ==
  ASSUME NEW P, NEW S \in SUBSET P, HypothesesStay(P)
  PROVE  Closure(S, LAMBDA x : Now.children[x] \cap Hypothesis)
           = Walked(P, HypothesisEdges(P), S, Cardinality(Entity))
<1> DEFINE N == Cardinality(Entity)
           E == HypothesisEdges(P)
           After(V) == V \cup UNION { (Now.children[x] \cap Hypothesis) : x \in V }
           Grows(w) ==
             w = [ n \in 0 .. N |-> IF n = 0 THEN S ELSE After(w[n - 1]) ]
<1>1. N \in Nat
  BY StepsCounted
<1>2. ASSUME NEW V \in SUBSET P
      PROVE  After(V) = V \cup Beyond(P, E, V)
  <2>1. \A x \in V, y \in P : << x, y >> \in E <=> y \in (Now.children[x] \cap Hypothesis)
    BY DEF HypothesisEdges
  <2>2. \A x \in V : (Now.children[x] \cap Hypothesis) \subseteq P
    BY DEF HypothesesStay
  <2> HIDE DEF E
  <2> QED BY <2>1, <2>2 DEF Beyond
<1>3. Closure(S, LAMBDA x : Now.children[x] \cap Hypothesis) = (CHOOSE w : Grows(w))[N]
  BY DEF Closure
<1> HIDE DEF N, E, After
<1>4. \E w : Grows(w)
  <2>1. PICK h : h = WalkOf(P, E, S, N)
    OBVIOUS
  <2>2. h[0] = S /\ Grown(P, E, N, h) /\ StaysIn(P, N, h)
    BY <1>1, <2>1, WalkGrows
  <2>3. ASSUME NEW n \in 1 .. N
        PROVE  h[n] = After(h[n - 1])
    <3>1. h[n - 1] \subseteq P
      BY <1>1, <2>2 DEF StaysIn
    <3>2. h[n] = h[n - 1] \cup Beyond(P, E, h[n - 1])
      BY <2>2, <3>1 DEF Grown
    <3> QED BY <1>2, <3>1, <3>2
  <2>4. h = [ n \in 0 .. N |-> h[n] ]
    BY <2>1 DEF WalkOf
  <2>5. \A n \in 0 .. N : h[n] = IF n = 0 THEN S ELSE After(h[n - 1])
    BY <1>1, <2>2, <2>3
  <2> QED BY <2>4, <2>5
<1> DEFINE w == CHOOSE w : Grows(w)
<1>5. Grows(w)
  BY <1>4
<1> HIDE DEF w
<1>6. w[0] = S /\ \A n \in 1 .. N : w[n] = After(w[n - 1])
  BY <1>1, <1>5
<1>7. Grown(P, E, N, w)
  BY <1>2, <1>6 DEF Grown
<1>8. w[N] = Walked(P, E, S, N)
  BY <1>1, <1>6, <1>7, WalkIs
<1> QED BY <1>3, <1>8 DEF w, N, E

ArtifactsStay(P) == \A x \in P : (Now.children[x] \cap Artifact) \subseteq P

ArtifactEdges(P) == { e \in P \X P : e[2] \in (Now.children[e[1]] \cap Artifact) }

LEMMA ArtifactsWalked ==
  ASSUME NEW P, NEW S \in SUBSET P, ArtifactsStay(P)
  PROVE  Closure(S, LAMBDA x : Now.children[x] \cap Artifact)
           = Walked(P, ArtifactEdges(P), S, Cardinality(Entity))
<1> DEFINE N == Cardinality(Entity)
           E == ArtifactEdges(P)
           After(V) == V \cup UNION { (Now.children[x] \cap Artifact) : x \in V }
           Grows(w) ==
             w = [ n \in 0 .. N |-> IF n = 0 THEN S ELSE After(w[n - 1]) ]
<1>1. N \in Nat
  BY StepsCounted
<1>2. ASSUME NEW V \in SUBSET P
      PROVE  After(V) = V \cup Beyond(P, E, V)
  <2>1. \A x \in V, y \in P : << x, y >> \in E <=> y \in (Now.children[x] \cap Artifact)
    BY DEF ArtifactEdges
  <2>2. \A x \in V : (Now.children[x] \cap Artifact) \subseteq P
    BY DEF ArtifactsStay
  <2> HIDE DEF E
  <2> QED BY <2>1, <2>2 DEF Beyond
<1>3. Closure(S, LAMBDA x : Now.children[x] \cap Artifact) = (CHOOSE w : Grows(w))[N]
  BY DEF Closure
<1> HIDE DEF N, E, After
<1>4. \E w : Grows(w)
  <2>1. PICK h : h = WalkOf(P, E, S, N)
    OBVIOUS
  <2>2. h[0] = S /\ Grown(P, E, N, h) /\ StaysIn(P, N, h)
    BY <1>1, <2>1, WalkGrows
  <2>3. ASSUME NEW n \in 1 .. N
        PROVE  h[n] = After(h[n - 1])
    <3>1. h[n - 1] \subseteq P
      BY <1>1, <2>2 DEF StaysIn
    <3>2. h[n] = h[n - 1] \cup Beyond(P, E, h[n - 1])
      BY <2>2, <3>1 DEF Grown
    <3> QED BY <1>2, <3>1, <3>2
  <2>4. h = [ n \in 0 .. N |-> h[n] ]
    BY <2>1 DEF WalkOf
  <2>5. \A n \in 0 .. N : h[n] = IF n = 0 THEN S ELSE After(h[n - 1])
    BY <1>1, <2>2, <2>3
  <2> QED BY <2>4, <2>5
<1> DEFINE w == CHOOSE w : Grows(w)
<1>5. Grows(w)
  BY <1>4
<1> HIDE DEF w
<1>6. w[0] = S /\ \A n \in 1 .. N : w[n] = After(w[n - 1])
  BY <1>1, <1>5
<1>7. Grown(P, E, N, w)
  BY <1>2, <1>6 DEF Grown
<1>8. w[N] = Walked(P, E, S, N)
  BY <1>1, <1>6, <1>7, WalkIs
<1> QED BY <1>3, <1>8 DEF w, N, E

ProducersStay(P) == \A x \in P : StandsFor(Now, x) \subseteq P

ProducerEdges(P) == { e \in P \X P : e[2] \in StandsFor(Now, e[1]) }

LEMMA ProducersWalked ==
  ASSUME NEW P, NEW S \in SUBSET P, ProducersStay(P)
  PROVE  Closure(S, LAMBDA x : StandsFor(Now, x))
           = Walked(P, ProducerEdges(P), S, Cardinality(Entity))
<1> DEFINE N == Cardinality(Entity)
           E == ProducerEdges(P)
           After(V) == V \cup UNION { StandsFor(Now, x) : x \in V }
           Grows(w) ==
             w = [ n \in 0 .. N |-> IF n = 0 THEN S ELSE After(w[n - 1]) ]
<1>1. N \in Nat
  BY StepsCounted
<1>2. ASSUME NEW V \in SUBSET P
      PROVE  After(V) = V \cup Beyond(P, E, V)
  <2>1. \A x \in V, y \in P : << x, y >> \in E <=> y \in StandsFor(Now, x)
    BY DEF ProducerEdges
  <2>2. \A x \in V : StandsFor(Now, x) \subseteq P
    BY DEF ProducersStay
  <2> HIDE DEF E
  <2> QED BY <2>1, <2>2 DEF Beyond
<1>3. Closure(S, LAMBDA x : StandsFor(Now, x)) = (CHOOSE w : Grows(w))[N]
  BY DEF Closure
<1> HIDE DEF N, E, After
<1>4. \E w : Grows(w)
  <2>1. PICK h : h = WalkOf(P, E, S, N)
    OBVIOUS
  <2>2. h[0] = S /\ Grown(P, E, N, h) /\ StaysIn(P, N, h)
    BY <1>1, <2>1, WalkGrows
  <2>3. ASSUME NEW n \in 1 .. N
        PROVE  h[n] = After(h[n - 1])
    <3>1. h[n - 1] \subseteq P
      BY <1>1, <2>2 DEF StaysIn
    <3>2. h[n] = h[n - 1] \cup Beyond(P, E, h[n - 1])
      BY <2>2, <3>1 DEF Grown
    <3> QED BY <1>2, <3>1, <3>2
  <2>4. h = [ n \in 0 .. N |-> h[n] ]
    BY <2>1 DEF WalkOf
  <2>5. \A n \in 0 .. N : h[n] = IF n = 0 THEN S ELSE After(h[n - 1])
    BY <1>1, <2>2, <2>3
  <2> QED BY <2>4, <2>5
<1> DEFINE w == CHOOSE w : Grows(w)
<1>5. Grows(w)
  BY <1>4
<1> HIDE DEF w
<1>6. w[0] = S /\ \A n \in 1 .. N : w[n] = After(w[n - 1])
  BY <1>1, <1>5
<1>7. Grown(P, E, N, w)
  BY <1>2, <1>6 DEF Grown
<1>8. w[N] = Walked(P, E, S, N)
  BY <1>1, <1>6, <1>7, WalkIs
<1> QED BY <1>3, <1>8 DEF w, N, E

-----------------------------------------------------------------------------
(* Results and what they rest on *)

LEMMA ExperimentsPrecede ==
  ASSUME LedgerInv, NEW x \in Experiment, view[x] # None,
         NEW p \in ParentOf(Now, x)
  PROVE  p \in Experiment /\ view[p] # None
<1>1. x \in Entity /\ ViewOf(x, view[x])
  BY Settled DEF Entity, Subject
<1>2. p = view[x].parent /\ p # None
  BY DEF ParentOf, Now
<1>3. p \in Experiment
  BY <1>1, <1>2 DEF ViewOf, ExperimentView, Opt
<1>4. DepictsExperiment(records, Len(records), x, view[x])
  BY <1>1, Settled DEF Depicts
<1> DEFINE at == view[x].declared_at
<1>5. /\ at \in 1 .. Len(records)
      /\ TypedAbout(records, at, DeclaringType, x)
      /\ p = records[at].draft.body.parent
  BY <1>2, <1>4 DEF DepictsExperiment, DeclaredAs
<1>6. records[at].draft.type = "ExperimentDeclared"
  <2>1. records[at].draft \in Drafts /\ records[at].draft.body.id = x
        /\ records[at].draft.type \in DeclaringType
    BY <1>5, Settled DEF TypedAbout
  <2>2. records[at].draft.type # "AccountingRecorded"
    BY <2>1 DEF DeclaringType
  <2> QED BY <2>1, <2>2, MoreTypesOfKinds
<1>7. p \in References(records[at].draft)
  BY <1>5, <1>6 DEF References
<1>8. p \in Entity \ Artifact
  BY <1>3, IdentityDomains DEF Entity, Subject
<1> HIDE DEF at
<1>9. view[p] # None
  BY <1>1, <1>5, <1>6, <1>7, <1>8, ParentsPrecede
<1> QED BY <1>3, <1>9

(* What a record refers to is there (artifacts too).                        *)
LEMMA ReferredIsThere ==
  ASSUME LedgerInv, NEW at \in 1 .. Len(records), NEW p \in Entity,
         records[at].draft.type # "SessionOpened",
         p \in References(records[at].draft)
  PROVE  view[p] # None
<1>1. p # None
  BY NoneAssumption
<1>2. PointsBack(records, at)
  BY Settled DEF Follows
<1>3. PICK i \in 1 .. at - 1 : About(records, i, p)
  BY <1>1, <1>2 DEF PointsBack, HasHome
<1>4. i \in 1 .. Len(records)
  BY <1>3, Settled
<1> QED BY <1>3, <1>4, AboutIsThere

LEMMA SupportIsThere ==
  ASSUME LedgerInv, NEW r \in Result, view[r] # None,
         NEW p \in view[r].support
  PROVE  p \in Entity /\ view[p] # None
<1>1. r \in Entity /\ ViewOf(r, view[r])
  BY Settled DEF Entity, Subject
<1>2. p \in Entity
  BY <1>1 DEF ViewOf, ResultView, Support, Entity, Subject
<1>3. DepictsResult(records, Len(records), r, view[r])
  BY <1>1, Settled DEF Depicts
<1> DEFINE at == view[r].declared_at
<1>4. /\ at \in 1 .. Len(records)
      /\ TypedAbout(records, at, DeclaringType, r)
      /\ p \in records[at].draft.body.support
  BY <1>3 DEF DepictsResult, DeclaredAs
<1>5. records[at].draft.type = "ResultDeclared"
  <2>1. records[at].draft \in Drafts /\ records[at].draft.body.id = r
        /\ records[at].draft.type \in DeclaringType
    BY <1>4, Settled DEF TypedAbout
  <2>2. records[at].draft.type # "AccountingRecorded"
        /\ records[at].draft.type # "ResultStatusChanged"
    BY <2>1 DEF DeclaringType
  <2> QED BY <2>1, <2>2, MoreTypesOfKinds
<1>6. p \in References(records[at].draft)
  BY <1>4, <1>5 DEF References
<1> HIDE DEF at
<1> QED BY <1>2, <1>4, <1>5, <1>6, ReferredIsThere

There(S) == { x \in S : view[x] # None }

(* The latest snapshot sees whatever is there.                              *)
LEMMA ThereIsSeen ==
  ASSUME LedgerInv
  PROVE  /\ \A S \in SUBSET There(Hypothesis \cup Experiment \cup Result) :
              VisibleIn(Now, Len(records), S, "declared_at") = S
         /\ \A S \in SUBSET There(Attempt) :
              VisibleIn(Now, Len(records), S, "started_at") = S
         /\ \A S \in SUBSET There(Artifact) :
              VisibleIn(Now, Len(records), S, "recorded_at") = S
<1> DEFINE n == Len(records)
<1>1. n \in Nat
  BY Settled
<1>2. ASSUME NEW x \in There(Hypothesis \cup Experiment \cup Result)
      PROVE  view[x].declared_at \in 1 .. n
  <2>1. x \in Entity \ Artifact /\ view[x] # None
    BY IdentityDomains DEF There, Entity, Subject
  <2>2. Born(x) = view[x].declared_at
    BY BornOfKinds DEF There
  <2>3. DeclaredAs(records, n, x, Born(x))
    BY <2>1, BornAtDeclaration
  <2> QED BY <2>2, <2>3 DEF DeclaredAs
<1>3. ASSUME NEW x \in There(Attempt)
      PROVE  view[x].started_at \in 1 .. n
  <2>1. x \in Entity \ Artifact /\ view[x] # None
    BY IdentityDomains DEF There, Entity, Subject
  <2>2. Born(x) = view[x].started_at
    BY BornOfKinds DEF There
  <2>3. DeclaredAs(records, n, x, Born(x))
    BY <2>1, BornAtDeclaration
  <2> QED BY <2>2, <2>3 DEF DeclaredAs
<1>4. ASSUME NEW x \in There(Artifact)
      PROVE  view[x].recorded_at \in 1 .. n
  <2>1. x \in Entity /\ x \in Artifact /\ view[x] # None
    BY DEF There, Entity, Subject
  <2>2. DepictsArtifact(records, n, x, view[x])
    BY <2>1, Settled DEF Depicts
  <2> QED BY <2>2 DEF DepictsArtifact, LastOf, ReferencesUpTo
<1>5. \A i \in 1 .. n : Visible(i, n)
  BY <1>1 DEF Visible
<1> HIDE DEF n
<1>6. \A S \in SUBSET There(Hypothesis \cup Experiment \cup Result) :
        VisibleIn(Now, n, S, "declared_at") = S
  BY <1>2, <1>5 DEF VisibleIn, Now, There
<1>7. \A S \in SUBSET There(Attempt) : VisibleIn(Now, n, S, "started_at") = S
  BY <1>3, <1>5 DEF VisibleIn, Now, There
<1>8. \A S \in SUBSET There(Artifact) : VisibleIn(Now, n, S, "recorded_at") = S
  BY <1>4, <1>5 DEF VisibleIn, Now, There
<1> QED BY <1>6, <1>7, <1>8 DEF n

(* No walk from a result leaves what is there.                              *)
LEMMA LineageIsThere ==
  ASSUME LedgerInv
  PROVE  /\ \A S \in SUBSET There(Hypothesis) :
              Closure(S, LAMBDA x : ParentOf(Now, x)) \subseteq There(Hypothesis)
         /\ \A S \in SUBSET There(Experiment) :
              Closure(S, LAMBDA x : ParentOf(Now, x)) \subseteq There(Experiment)
         /\ \A S \in SUBSET There(Artifact) :
              Closure(S, LAMBDA a : ParentsOfArtifact(Now, a))
                \subseteq There(Artifact)
<1>1. ParentsStay(There(Hypothesis))
  BY HypothesesPrecede DEF There, ParentsStay
<1>2. ParentsStay(There(Experiment))
  BY ExperimentsPrecede DEF There, ParentsStay
<1>3. ArtifactParentsStay(There(Artifact))
  BY ArtifactParents DEF There, ArtifactParentsStay
<1>4. \A P, E, S, n : Walked(P, E, S, n) \subseteq P
  BY DEF Walked
<1>5. ASSUME NEW S \in SUBSET There(Hypothesis)
      PROVE  Closure(S, LAMBDA x : ParentOf(Now, x)) \subseteq There(Hypothesis)
  <2>1. Closure(S, LAMBDA x : ParentOf(Now, x))
          = Walked(There(Hypothesis), ParentEdges(There(Hypothesis)), S, Cardinality(Entity))
    BY <1>1, ParentsWalked
  <2> QED BY <1>4, <2>1
<1>6. ASSUME NEW S \in SUBSET There(Experiment)
      PROVE  Closure(S, LAMBDA x : ParentOf(Now, x)) \subseteq There(Experiment)
  <2>1. Closure(S, LAMBDA x : ParentOf(Now, x))
          = Walked(There(Experiment), ParentEdges(There(Experiment)), S, Cardinality(Entity))
    BY <1>2, ParentsWalked
  <2> QED BY <1>4, <2>1
<1>7. ASSUME NEW S \in SUBSET There(Artifact)
      PROVE  Closure(S, LAMBDA a : ParentsOfArtifact(Now, a)) \subseteq There(Artifact)
  <2>1. Closure(S, LAMBDA a : ParentsOfArtifact(Now, a))
          = Walked(There(Artifact), ArtifactParentEdges(There(Artifact)), S, Cardinality(Entity))
    BY <1>3, ArtifactParentsWalked
  <2> QED BY <1>4, <2>1
<1> QED BY <1>5, <1>6, <1>7

LEMMA AttemptsAreThere ==
  ASSUME LedgerInv, NEW S \in SUBSET There(Experiment)
  PROVE  EvidenceAttempts(Now, S) \subseteq There(Attempt)
<1>1. ASSUME NEW e \in S, NEW t \in view[e].links \cap Attempt
      PROVE  view[t] # None
  <2>1. e \in Experiment /\ view[e] # None
    BY <1>1 DEF There
  <2>2. t \in AttemptsOf(e)
    BY <1>1, <2>1 DEF LedgerInv, PictureInv, ListsInv
  <2>3. PICK i \in DOMAIN records :
          /\ records[i].draft.type = "AttemptStarted"
          /\ records[i].draft.body.id = t
    BY <2>2 DEF AttemptsOf
  <2>4. i \in 1 .. Len(records) /\ About(records, i, t) /\ t \in Entity
    BY <1>1, <2>3, Settled DEF About, Entity, Subject
  <2> QED BY <2>4, AboutIsThere
<1> QED BY <1>1 DEF EvidenceAttempts, There, Now

(* An accepted result names the decision that accepted it.                  *)
LEMMA AcceptanceIsNamed ==
  ASSUME LedgerInv, NEW r \in Result, view[r] # None,
         AcceptedBy(r, Len(records))
  PROVE  LET d == view[r].acceptance_decision IN
         /\ d \in VisibleIn(Now, Len(records), Decision, "recorded_at")
         /\ view[d].subject = r
<1> DEFINE n == Len(records)
           accepting == AcceptancesUpTo(records, n, r)
<1>1. n \in Nat /\ r \in Entity
  BY Settled DEF Entity, Subject
<1>2. PICK j \in ChangesOf(r) : records[j].draft.body.to = "Accepted"
  BY DEF AcceptedBy
<1>3. j \in accepting
  BY <1>2, ChangesAre DEF AcceptancesUpTo
<1>4. DepictsDecisions(records, n, r, view[r])
  BY <1>1, Settled DEF Depicts, DepictsResult
<1>5. PICK i \in 1 .. n :
        /\ LastOf(accepting, i)
        /\ view[r].acceptance_decision = records[i].draft.body.decision
  BY <1>3, <1>4 DEF DepictsDecisions
<1>6. i \in ChangesUpTo(records, n, r) /\ i <= n
  BY <1>1, <1>5 DEF LastOf, AcceptancesUpTo
<1> HIDE DEF accepting
<1> QED BY <1>1, <1>5, <1>6, DecidedBefore DEF n

LEMMA ResultIsExplained ==
  ASSUME LedgerInv, NEW r \in Result, view[r] # None
  PROVE  LET evidence == EvidenceAt(Now, Len(records), r) IN
         /\ "code" \notin DOMAIN evidence
         /\ AcceptedBy(r, Len(records)) =>
              evidence.result.acceptance_decision \in evidence.decisions
<1> DEFINE w == Len(records)
           support == view[r].support
           hypotheses == Closure(support \cap Hypothesis,
                                 LAMBDA x : ParentOf(Now, x))
           experiments == Closure(support \cap Experiment,
                                  LAMBDA x : ParentOf(Now, x))
           attempts == EvidenceAttempts(Now, experiments)
           artifacts == EvidenceArtifacts(Now, w, support, attempts)
           subjects == Visited(r, hypotheses \cup experiments \cup attempts
                                    \cup artifacts)
           here == VisibleIn(Now, w, hypotheses, "declared_at")
                     \cup VisibleIn(Now, w, experiments, "declared_at")
                     \cup VisibleIn(Now, w, attempts, "started_at")
                     \cup VisibleIn(Now, w, artifacts, "recorded_at")
           evidence == EvidenceAt(Now, w, r)
<1>1. /\ support \cap Hypothesis \in SUBSET There(Hypothesis)
      /\ support \cap Experiment \in SUBSET There(Experiment)
      /\ support \cap Artifact \in SUBSET There(Artifact)
  BY SupportIsThere DEF There
<1>2. /\ hypotheses \subseteq There(Hypothesis)
      /\ experiments \subseteq There(Experiment)
  BY <1>1, LineageIsThere
<1>3. attempts \subseteq There(Attempt)
  BY <1>2, AttemptsAreThere
<1>4. artifacts \subseteq There(Artifact)
  <2> DEFINE produced ==
        { a \in VisibleIn(Now, w, Artifact, "recorded_at") :
            Now.view[a].producer \in attempts \cup (support \cap Experiment) }
  <2>1. produced \subseteq There(Artifact)
    BY DEF VisibleIn, There, Now
  <2>2. artifacts = Closure((support \cap Artifact) \cup produced,
                            LAMBDA a : ParentsOfArtifact(Now, a))
    BY DEF EvidenceArtifacts
  <2> HIDE DEF produced, artifacts, support
  <2> QED BY <1>1, <2>1, <2>2, LineageIsThere
<1> HIDE DEF hypotheses, experiments, attempts, artifacts
<1>5. here = hypotheses \cup experiments \cup attempts \cup artifacts
  <2>1. hypotheses \subseteq There(Hypothesis \cup Experiment \cup Result)
        /\ experiments \subseteq There(Hypothesis \cup Experiment \cup Result)
    BY <1>2 DEF There
  <2> QED BY <1>3, <1>4, <2>1, ThereIsSeen
<1>6. r \notin here
  BY <1>2, <1>3, <1>4, <1>5, IdentityDomains DEF There
<1>7. subjects \ { r } = here /\ r \in subjects
  BY <1>5, <1>6 DEF Visited
<1>8. r \in VisibleIn(Now, w, Result, "declared_at")
  <2>1. { r } \in SUBSET There(Hypothesis \cup Experiment \cup Result)
    BY DEF There
  <2>2. r \in VisibleIn(Now, w, { r }, "declared_at")
    BY <2>1, ThereIsSeen
  <2> QED BY <2>2 DEF VisibleIn
<1> HIDE DEF here, subjects
<1>9. /\ DOMAIN evidence = { "result", "hypotheses", "experiments", "attempts",
                             "activity", "artifacts", "failures", "decisions" }
      /\ evidence.result = view[r]
      /\ evidence.decisions
           = ConcernsAny(Now, w, Decision, "subject", subjects)
  BY <1>7, <1>8
     DEF EvidenceAt, hypotheses, experiments, attempts, artifacts, subjects,
         here, Now
<1> HIDE DEF evidence
<1>10. "code" \notin DOMAIN evidence
  BY <1>9
<1>11. ASSUME AcceptedBy(r, w)
       PROVE  evidence.result.acceptance_decision \in evidence.decisions
  <2>1. /\ view[r].acceptance_decision
             \in VisibleIn(Now, w, Decision, "recorded_at")
        /\ view[view[r].acceptance_decision].subject = r
    BY <1>11, AcceptanceIsNamed
  <2> QED BY <1>7, <1>9, <2>1 DEF ConcernsAny, Now
<1> QED BY <1>10, <1>11 DEF evidence

(* The latest snapshot reconstructs every result: each walk of its lineage  *)
(* ends, and an accepted result comes with the decision that accepted it    *)
(* (supporting_evidence).                                                   *)
THEOREM ResultsExplained == QuerySpec => []ResultsAreExplained
<1>1. ASSUME LedgerInv PROVE ResultsAreExplained
  BY <1>1, ResultIsExplained DEF ResultsAreExplained
<1> QED BY <1>1, QueriedLedger, PTL

-----------------------------------------------------------------------------
(* Walks up and walks down *)

Reverses(P, E, F) == \A x, y \in P : << x, y >> \in E <=> << y, x >> \in F

(* A path read from its end.                                                *)
LEMMA WalkReversed ==
  ASSUME NEW P, NEW E, NEW F, Reverses(P, E, F), NEW N \in Nat,
         NEW x \in P, NEW y \in P, y \in Walked(P, E, { x }, N)
  PROVE  x \in Walked(P, F, { y }, N)
<1>1. PICK k \in 0 .. N : \E p : Path(P, E, k, p) /\ p[0] \in { x } /\ p[k] = y
  BY DEF Walked
<1>2. PICK p : Path(P, E, k, p) /\ p[0] \in { x } /\ p[k] = y
  BY <1>1
<1> DEFINE q == [ i \in 0 .. k |-> p[k - i] ]
<1>3. /\ k \in Nat /\ p \in [ 0 .. k -> P ]
      /\ \A i \in 1 .. k : << p[i - 1], p[i] >> \in E
  BY <1>2 DEF Path
<1>4. q \in [ 0 .. k -> P ]
  <2>1. \A i \in 0 .. k : k - i \in 0 .. k
    BY <1>3
  <2> QED BY <1>3, <2>1
<1>5. ASSUME NEW i \in 1 .. k
      PROVE  << q[i - 1], q[i] >> \in F
  <2>1. k - i + 1 \in 1 .. k /\ (k - i + 1) - 1 = k - i
        /\ k - i \in 0 .. k /\ k - i + 1 \in 0 .. k
        /\ i - 1 \in 0 .. k /\ i \in 0 .. k /\ k - (i - 1) = k - i + 1
    BY <1>3
  <2>2. q[i - 1] = p[k - i + 1] /\ q[i] = p[k - i]
    BY <2>1
  <2>3. << p[k - i], p[k - i + 1] >> \in E
    BY <1>3, <2>1
  <2>4. p[k - i] \in P /\ p[k - i + 1] \in P
    BY <1>3, <2>1
  <2> QED BY <2>2, <2>3, <2>4 DEF Reverses
<1>6. q[0] = y /\ q[k] = x
  <2>1. 0 \in 0 .. k /\ k \in 0 .. k /\ k - 0 = k /\ k - k = 0
    BY <1>3
  <2> QED BY <1>2, <2>1
<1> HIDE DEF q
<1>7. Path(P, F, k, q)
  BY <1>4, <1>5 DEF Path
<1> QED BY <1>6, <1>7 DEF Walked

LEMMA WalksMeet ==
  ASSUME NEW P, NEW E, NEW F, Reverses(P, E, F), NEW N \in Nat,
         NEW x \in P, NEW y \in P
  PROVE  y \in Walked(P, E, { x }, N) <=> x \in Walked(P, F, { y }, N)
<1>1. Reverses(P, F, E)
  BY DEF Reverses
<1> QED BY <1>1, WalkReversed

(* The list of children and the field of the parent are filled from the     *)
(* same record.                                                             *)
LEMMA HypothesesListed ==
  ASSUME LedgerInv
  PROVE  /\ HypothesesStay(There(Hypothesis))
         /\ Reverses(There(Hypothesis), HypothesisEdges(There(Hypothesis)),
                     ParentEdges(There(Hypothesis)))
<1> DEFINE n == Len(records)
<1>1. n \in Nat /\ DOMAIN records = 1 .. n
  BY Settled
<1>2. ASSUME NEW x \in Hypothesis, NEW y \in children[x] \cap Hypothesis
      PROVE  view[y] # None /\ view[y].parent = x
  <2>1. x \in Entity /\ y \in Entity
    BY DEF Entity, Subject
  <2>2. y \in Listed(x)
    BY <1>2, <2>1 DEF LedgerInv, PictureInv, ListsInv
  <2>3. PICK j \in 1 .. n :
          x \in OwnersOf(records[j]) /\ records[j].draft.body.id = y
    BY <1>1, <2>2 DEF Listed
  <2>4. records[j].draft \in Drafts
    BY Settled
  <2>5. records[j].draft.type # "AccountingRecorded"
        /\ records[j].draft.type # "HypothesisStatusChanged"
    BY <2>3 DEF OwnersOf
  <2>6. records[j].draft.type = "HypothesisDeclared"
    BY <2>3, <2>4, <2>5, MoreTypesOfKinds
  <2>7. records[j].draft.body \in HypothesisBody
    BY <2>4, <2>6, DraftBodies
  <2>8. x # records[j].draft.body.session
    BY <2>7, IdentityDomains DEF HypothesisBody
  <2>9. x = records[j].draft.body.parent
    BY <2>3, <2>6, <2>8 DEF OwnersOf
  <2>10. DeclaredAs(records, n, y, j) /\ About(records, j, y)
    BY <2>3, <2>6 DEF DeclaredAs, TypedAbout, About, DeclaringType
  <2>11. view[y] # None
    BY <2>1, <2>10, AboutIsThere
  <2>12. DepictsHypothesis(records, n, y, view[y])
    BY <2>1, <2>11, Settled DEF Depicts
  <2>13. view[y].declared_at = j
    BY <2>10, <2>12, DeclaredFirst DEF DepictsHypothesis
  <2> QED BY <2>9, <2>11, <2>12, <2>13 DEF DepictsHypothesis
<1>3. ASSUME NEW x \in Hypothesis, NEW y \in Hypothesis, view[y] # None,
             view[y].parent = x
      PROVE  y \in children[x]
  <2>1. x \in Entity /\ y \in Entity /\ x # None
    BY NoneAssumption DEF Entity, Subject
  <2>2. DepictsHypothesis(records, n, y, view[y])
    BY <1>3, <2>1, Settled DEF Depicts
  <2> DEFINE j == view[y].declared_at
  <2>3. /\ j \in 1 .. n /\ TypedAbout(records, j, DeclaringType, y)
        /\ x = records[j].draft.body.parent
    BY <1>3, <2>2 DEF DepictsHypothesis, DeclaredAs
  <2> HIDE DEF j
  <2>4. records[j].draft \in Drafts /\ records[j].draft.body.id = y
        /\ records[j].draft.type # "AccountingRecorded"
        /\ records[j].draft.type # "HypothesisStatusChanged"
    BY <2>3, Settled DEF TypedAbout, DeclaringType
  <2>5. records[j].draft.type = "HypothesisDeclared"
    BY <2>4, MoreTypesOfKinds
  <2>6. x \in OwnersOf(records[j])
    BY <2>1, <2>3, <2>5 DEF OwnersOf
  <2>7. y \in Listed(x)
    BY <1>1, <2>3, <2>4, <2>6 DEF Listed
  <2> QED BY <2>1, <2>7 DEF LedgerInv, PictureInv, ListsInv
<1>4. HypothesesStay(There(Hypothesis))
  BY <1>2 DEF HypothesesStay, There, Now
<1>5. Reverses(There(Hypothesis), HypothesisEdges(There(Hypothesis)),
               ParentEdges(There(Hypothesis)))
  <2>1. ASSUME NEW x \in There(Hypothesis), NEW y \in There(Hypothesis)
        PROVE  << x, y >> \in HypothesisEdges(There(Hypothesis))
                 <=> << y, x >> \in ParentEdges(There(Hypothesis))
    <3>1. x \in Hypothesis /\ y \in Hypothesis /\ view[y] # None /\ x # None
      BY NoneAssumption DEF There, Entity, Subject
    <3>2. << x, y >> \in HypothesisEdges(There(Hypothesis))
            <=> y \in children[x] \cap Hypothesis
      BY DEF HypothesisEdges, Now
    <3>3. << y, x >> \in ParentEdges(There(Hypothesis))
            <=> x \in ParentOf(Now, y)
      BY DEF ParentEdges
    <3>4. x \in ParentOf(Now, y) <=> view[y].parent = x
      BY <3>1 DEF ParentOf, Now
    <3> QED BY <1>2, <1>3, <3>1, <3>2, <3>3, <3>4
  <2> QED BY <2>1 DEF Reverses
<1> QED BY <1>4, <1>5

LEMMA OneReference ==
  ASSUME LedgerInv, NEW y \in Artifact, view[y] # None,
         view[y].generation = 1,
         NEW j \in ReferencesUpTo(records, Len(records), y)
  PROVE  j = view[y].recorded_at
<1> DEFINE n == Len(records)
           refs == ReferencesUpTo(records, n, y)
           k == view[y].recorded_at
<1>1. n \in Nat /\ y \in Entity
  BY Settled DEF Entity, Subject
<1>2. DepictsArtifact(records, n, y, view[y])
  BY <1>1, Settled DEF Depicts
<1>3. k \in refs /\ Cardinality(refs) = 1
  BY <1>2 DEF DepictsArtifact, LastOf
<1>4. refs \subseteq 1 .. n
  BY DEF ReferencesUpTo
<1>5. j \in refs
  OBVIOUS
<1> HIDE DEF refs, k
<1>6. SUFFICES ASSUME j # k PROVE FALSE
  BY DEF k
<1>7. IsFiniteSet(refs)
  <2>1. IsFiniteSet(1 .. n)
    BY <1>1, FS_Interval
  <2> QED BY <1>4, <2>1, FS_Subset
<1>8. Cardinality({ k, j }) = 2
  <2>1. IsFiniteSet({ k }) /\ Cardinality({ k }) = 1
    BY FS_Singleton
  <2>2. { k, j } = { k } \cup { j } /\ j \notin { k }
    BY <1>6
  <2> QED BY <2>1, <2>2, FS_AddElement
<1>9. Cardinality({ k, j }) <= Cardinality(refs)
  BY <1>3, <1>5, <1>7, FS_Subset
<1> QED BY <1>3, <1>8, <1>9

LEMMA ArtifactsListed ==
  ASSUME LedgerInv, \A a \in There(Artifact) : view[a].generation = 1
  PROVE  /\ ArtifactsStay(There(Artifact))
         /\ Reverses(There(Artifact), ArtifactEdges(There(Artifact)),
                     ArtifactParentEdges(There(Artifact)))
<1> DEFINE n == Len(records)
<1>1. n \in Nat /\ DOMAIN records = 1 .. n
  BY Settled
<1>2. ASSUME NEW x \in Artifact, NEW y \in children[x] \cap Artifact
      PROVE  view[y] # None /\ x \in view[y].parents
  <2>1. x \in Entity /\ y \in Entity
    BY DEF Entity, Subject
  <2>2. y \in Listed(x)
    BY <1>2, <2>1 DEF LedgerInv, PictureInv, ListsInv
  <2>3. PICK j \in 1 .. n :
          x \in OwnersOf(records[j]) /\ records[j].draft.body.id = y
    BY <1>1, <2>2 DEF Listed
  <2>4. records[j].draft \in Drafts
    BY Settled
  <2>5. records[j].draft.type # "AccountingRecorded"
        /\ records[j].draft.type # "ArtifactInvalidated"
    BY <2>3 DEF OwnersOf
  <2>6. records[j].draft.type = "ArtifactReferenced"
    BY <2>3, <2>4, <2>5, MoreTypesOfKinds
  <2>7. x \in records[j].draft.body.parents
    BY <2>3, <2>6 DEF OwnersOf
  <2>8. About(records, j, y) /\ j \in ReferencesUpTo(records, n, y)
    BY <2>3, <2>6 DEF ReferencesUpTo, TypedAbout, About
  <2>9. view[y] # None
    BY <2>1, <2>8, AboutIsThere
  <2>10. view[y].generation = 1
    BY <2>9 DEF There
  <2>11. view[y].recorded_at = j
    BY <2>8, <2>9, <2>10, OneReference
  <2>12. DepictsArtifact(records, n, y, view[y])
    BY <2>1, <2>9, Settled DEF Depicts
  <2> QED BY <2>7, <2>9, <2>11, <2>12 DEF DepictsArtifact
<1>3. ASSUME NEW x \in Artifact, NEW y \in Artifact, view[y] # None,
             x \in view[y].parents
      PROVE  y \in children[x]
  <2>1. x \in Entity /\ y \in Entity
    BY DEF Entity, Subject
  <2>2. DepictsArtifact(records, n, y, view[y])
    BY <1>3, <2>1, Settled DEF Depicts
  <2> DEFINE j == view[y].recorded_at
  <2>3. /\ j \in 1 .. n /\ records[j].draft.type = "ArtifactReferenced"
        /\ records[j].draft.body.id = y
        /\ x \in records[j].draft.body.parents
    BY <1>3, <2>2 DEF DepictsArtifact, LastOf, ReferencesUpTo, TypedAbout
  <2> HIDE DEF j
  <2>4. x \in OwnersOf(records[j])
    BY <2>3 DEF OwnersOf
  <2>5. y \in Listed(x)
    BY <1>1, <2>3, <2>4 DEF Listed
  <2> QED BY <2>1, <2>5 DEF LedgerInv, PictureInv, ListsInv
<1>4. ArtifactsStay(There(Artifact))
  BY <1>2 DEF ArtifactsStay, There, Now
<1>5. Reverses(There(Artifact), ArtifactEdges(There(Artifact)),
               ArtifactParentEdges(There(Artifact)))
  <2>1. ASSUME NEW x \in There(Artifact), NEW y \in There(Artifact)
        PROVE  << x, y >> \in ArtifactEdges(There(Artifact))
                 <=> << y, x >> \in ArtifactParentEdges(There(Artifact))
    <3>1. x \in Artifact /\ y \in Artifact /\ view[y] # None
      BY DEF There
    <3>2. << x, y >> \in ArtifactEdges(There(Artifact))
            <=> y \in children[x] \cap Artifact
      BY DEF ArtifactEdges, Now
    <3>3. << y, x >> \in ArtifactParentEdges(There(Artifact))
            <=> x \in ParentsOfArtifact(Now, y)
      BY DEF ArtifactParentEdges
    <3>4. x \in ParentsOfArtifact(Now, y) <=> x \in view[y].parents
      BY <3>1 DEF ParentsOfArtifact, Now
    <3> QED BY <1>2, <1>3, <3>1, <3>2, <3>3, <3>4
  <2> QED BY <2>1 DEF Reverses
<1> QED BY <1>4, <1>5

LEMMA HypothesisWalksAgree ==
  ASSUME LedgerInv, NEW g \in There(Hypothesis), NEW h \in There(Hypothesis),
         g # h
  PROVE  h \in HypothesisDescendants(Now, g)
           <=> g \in HypothesisAncestry(Now, h)
<1> DEFINE P == There(Hypothesis)
           N == Cardinality(Entity)
<1>1. HypothesesStay(P) /\ Reverses(P, HypothesisEdges(P), ParentEdges(P))
  BY HypothesesListed
<1>2. ParentsStay(P)
  BY HypothesesPrecede DEF There, ParentsStay
<1>3. N \in Nat /\ { g } \in SUBSET P /\ { h } \in SUBSET P
      /\ view[g] # None /\ view[h] # None
  BY StepsCounted DEF There
<1>4. h \in HypothesisDescendants(Now, g)
        <=> h \in Closure({ g }, LAMBDA x : Now.children[x] \cap Hypothesis)
  BY <1>3 DEF HypothesisDescendants, Now
<1>5. g \in HypothesisAncestry(Now, h)
        <=> g \in Closure({ h }, LAMBDA x : ParentOf(Now, x))
  BY <1>3 DEF HypothesisAncestry, Now
<1> HIDE DEF P
<1>6. Closure({ g }, LAMBDA x : Now.children[x] \cap Hypothesis)
        = Walked(P, HypothesisEdges(P), { g }, N)
  BY <1>1, <1>3, HypothesesWalked
<1>7. Closure({ h }, LAMBDA x : ParentOf(Now, x))
        = Walked(P, ParentEdges(P), { h }, N)
  BY <1>2, <1>3, ParentsWalked
<1>8. h \in Walked(P, HypothesisEdges(P), { g }, N)
        <=> g \in Walked(P, ParentEdges(P), { h }, N)
  BY <1>1, <1>3, WalksMeet
<1> QED BY <1>4, <1>5, <1>6, <1>7, <1>8

LEMMA ArtifactWalksAgree ==
  ASSUME LedgerInv, \A a \in There(Artifact) : view[a].generation = 1,
         NEW a \in There(Artifact), NEW c \in There(Artifact),
         "nodes" \in DOMAIN ArtifactDescendants(Now, a)
  PROVE  c \in ArtifactDescendants(Now, a).nodes
           <=> a \in ArtifactAncestry(Now, c)
<1> DEFINE P == There(Artifact)
           N == Cardinality(Entity)
           down == Closure({ a }, LAMBDA x : Now.children[x] \cap Artifact)
           up == Closure({ c }, LAMBDA x : ParentsOfArtifact(Now, x))
<1>1. ArtifactsStay(P) /\ Reverses(P, ArtifactEdges(P), ArtifactParentEdges(P))
  BY ArtifactsListed
<1>2. ArtifactParentsStay(P)
  BY ArtifactParents DEF There, ArtifactParentsStay
<1>3. N \in Nat /\ { a } \in SUBSET P /\ { c } \in SUBSET P
      /\ view[a] # None /\ view[c] # None
  BY StepsCounted DEF There
<1>4. ArtifactAncestry(Now, c) = up \ { c }
  BY <1>3 DEF ArtifactAncestry, Now
<1>5. ArtifactDescendants(Now, a) \in
        { [ code |-> "LINEAGE_CYCLE" ], [ nodes |-> down \ { a } ] }
  BY <1>3 DEF ArtifactDescendants, Now
<1> HIDE DEF P
<1>6. down = Walked(P, ArtifactEdges(P), { a }, N)
  BY <1>1, <1>3, ArtifactsWalked
<1>7. up = Walked(P, ArtifactParentEdges(P), { c }, N)
  BY <1>2, <1>3, ArtifactParentsWalked
<1> HIDE DEF down, up
<1>8. ArtifactDescendants(Now, a).nodes = down \ { a }
  <2>1. "nodes" \notin DOMAIN [ code |-> "LINEAGE_CYCLE" ]
    OBVIOUS
  <2>2. ArtifactDescendants(Now, a) = [ nodes |-> down \ { a } ]
    BY <1>5, <2>1
  <2> QED BY <2>2
<1>9. c \in Walked(P, ArtifactEdges(P), { a }, N)
        <=> a \in Walked(P, ArtifactParentEdges(P), { c }, N)
  BY <1>1, <1>3, WalksMeet
<1> QED BY <1>4, <1>6, <1>7, <1>8, <1>9

(* Going down the lists of children, which applying fills, leads where      *)
(* going up the parents, which are fields of views, comes from              *)
(* (hypothesis_ancestry, hypothesis_descendants and their counterparts for  *)
(* artifacts).                                                              *)
THEOREM WalksUpAndDown == QuerySpec => []WalksAgree
<1>1. ASSUME LedgerInv PROVE WalksAgree
  <2>1. \A g, h \in { x \in Hypothesis : view[x] # None } :
          g # h => (h \in HypothesisDescendants(Now, g)
                      <=> g \in HypothesisAncestry(Now, h))
    BY <1>1, HypothesisWalksAgree DEF There
  <2>2. ASSUME \A a \in Artifact : view[a] # None => view[a].generation = 1
        PROVE  \A a, c \in { x \in Artifact : view[x] # None } :
                 "nodes" \in DOMAIN ArtifactDescendants(Now, a) =>
                   (c \in ArtifactDescendants(Now, a).nodes
                      <=> a \in ArtifactAncestry(Now, c))
    BY <1>1, <2>2, ArtifactWalksAgree DEF There
  <2> QED BY <2>1, <2>2 DEF WalksAgree
<1> QED BY <1>1, QueriedLedger, PTL
-----------------------------------------------------------------------------
(* Accounting *)

(* The subject a record is found under is the one its draft names.          *)
SubjectsInv ==
  /\ \A i \in 1 .. Len(records) :
       records[i].subject = PrimarySubject(records[i].draft)
  /\ \A k \in 1 .. Len(staged) :
       staged[k].subject = PrimarySubject(staged[k].draft)

LEMMA SubjectsKept == Spec => []SubjectsInv
<1>1. Init => SubjectsInv
  BY DEF Init, SubjectsInv
<1>2. ASSUME TypeOK, TypeOK', SubjectsInv, [Next]_vars
      PROVE  SubjectsInv'
  <2>1. CASE StagesOne
    <3>0. PICK d \in Drafts : \E id :
            staged' = Append(staged, StagedEntity(d, id)) /\ records' = records
      BY <2>1 DEF StagesOne
    <3>1. PICK id :
            staged' = Append(staged, StagedEntity(d, id)) /\ records' = records
      BY <3>0
    <3>2. StagedEntity(d, id).subject
            = PrimarySubject(StagedEntity(d, id).draft)
      BY DEF StagedEntity
    <3>3. PICK s : s = StagedEntity(d, id)
      OBVIOUS
    <3>4. staged \in Seq(Entry)
      BY <1>2 DEF TypeOK
    <3>5. /\ Len(staged') = Len(staged) + 1
          /\ \A k \in 1 .. Len(staged) + 1 :
               staged'[k] = IF k <= Len(staged) THEN staged[k] ELSE s
      BY <3>1, <3>3, <3>4
    <3>6. s.subject = PrimarySubject(s.draft)
      BY <3>2, <3>3
    <3>7. Len(staged) \in Nat
      BY <3>4
    <3>8. ASSUME NEW k \in 1 .. Len(staged')
          PROVE  staged'[k].subject = PrimarySubject(staged'[k].draft)
      <4>1. CASE k \in 1 .. Len(staged)
        <5>1. staged'[k] = staged[k]
          BY <3>5, <3>7, <4>1
        <5> QED BY <1>2, <4>1, <5>1 DEF SubjectsInv
      <4>2. CASE k = Len(staged) + 1
        BY <3>5, <3>6, <3>7, <4>2
      <4> QED BY <3>5, <3>7, <4>1, <4>2
    <3> QED BY <1>2, <3>1, <3>8 DEF SubjectsInv, PrimarySubject
  <2>2. CASE AppliesOne
    <3>1. staged \in Seq(Entry) /\ records \in Seq(Record) /\ staged # << >>
      BY <1>2, <2>2 DEF TypeOK, AppliesOne
    <3>2. PICK e : e = Head(staged)
      OBVIOUS
    <3>3. e = staged[1] /\ 1 \in 1 .. Len(staged)
      BY <3>1, <3>2
    <3>4. e.subject = PrimarySubject(e.draft)
      BY <1>2, <3>3 DEF SubjectsInv
    <3>5. PICK r : r = [ draft |-> e.draft, record_id |-> e.record_id,
                         subject |-> e.subject, session |-> e.session ]
      OBVIOUS
    <3>6. records' = Append(records, r) /\ staged' = Tail(staged)
      BY <2>2, <3>2, <3>5 DEF AppliesOne
    <3>7. /\ Len(records') = Len(records) + 1
          /\ \A i \in 1 .. Len(records) + 1 :
               records'[i] = IF i <= Len(records) THEN records[i] ELSE r
      BY <3>1, <3>6
    <3>8. /\ Len(staged') = Len(staged) - 1
          /\ \A k \in 1 .. Len(staged) - 1 : staged'[k] = staged[k + 1]
      BY <3>1, <3>6
    <3>9. r.subject = PrimarySubject(r.draft)
      BY <3>4, <3>5
    <3>10. Len(records) \in Nat /\ Len(staged) \in Nat
      BY <3>1
    <3>11. ASSUME NEW i \in 1 .. Len(records')
           PROVE  records'[i].subject = PrimarySubject(records'[i].draft)
      <4>1. CASE i \in 1 .. Len(records)
        <5>1. records'[i] = records[i]
          BY <3>7, <3>10, <4>1
        <5> QED BY <1>2, <4>1, <5>1 DEF SubjectsInv
      <4>2. CASE i = Len(records) + 1
        BY <3>7, <3>9, <3>10, <4>2
      <4> QED BY <3>7, <3>10, <4>1, <4>2
    <3>12. ASSUME NEW k \in 1 .. Len(staged')
           PROVE  staged'[k].subject = PrimarySubject(staged'[k].draft)
      <4>1. staged'[k] = staged[k + 1] /\ k + 1 \in 1 .. Len(staged)
        BY <3>8, <3>10
      <4> QED BY <1>2, <4>1 DEF SubjectsInv
    <3> QED BY <3>11, <3>12 DEF SubjectsInv, PrimarySubject
  <2>3. CASE StagesNothing
    <3>1. records' = records /\ (staged' = staged \/ staged' = << >>)
      BY <2>3 DEF StagesNothing
    <3> QED BY <1>2, <3>1 DEF SubjectsInv, PrimarySubject
  <2> QED BY <1>2, <2>1, <2>2, <2>3, StepShapes
<1> QED BY <1>1, <1>2, TypeCorrect, PTL DEF Spec

(* Nothing but a failure or an artifact stands for something else.          *)
LEMMA NoProducers ==
  ASSUME NEW x, x \notin Failure \cup Artifact
  PROVE  ProducersOf(Now, x) = {}
<1>1. StandsFor(Now, x) = {}
  BY DEF StandsFor
<1>2. ProducersStay({})
  BY DEF ProducersStay
<1>3. PICK P : P = {}
  OBVIOUS
<1>4. P \in SUBSET P /\ ProducersStay(P)
  BY <1>2, <1>3
<1>5. Closure(P, LAMBDA y : StandsFor(Now, y))
        = Walked(P, ProducerEdges(P), P, Cardinality(Entity))
  BY <1>4, ProducersWalked
<1>6. Closure({}, LAMBDA y : StandsFor(Now, y)) \subseteq {}
  BY <1>3, <1>5 DEF Walked
<1>7. ProducersOf(Now, x) = Closure(StandsFor(Now, x), LAMBDA y : StandsFor(Now, y))
  BY DEF ProducersOf
<1>8. ProducersOf(Now, x) = Closure({}, LAMBDA y : StandsFor(Now, y))
  BY <1>1, <1>7
<1> QED BY <1>6, <1>8

Call == ModelCall \cup ToolCall \cup Observation

(* Whom a record of each kind names as its owner, by its view, by its draft *)
(* and by the owner's list.                                                 *)
LEMMA CallOwned ==
  ASSUME LedgerInv, NEW c \in Call, view[c] # None
  PROVE  /\ DraftOf(c).attempt = view[c].attempt
         /\ view[c].attempt \in Attempt /\ view[view[c].attempt] # None
<1> DEFINE at == Born(c)
<1>1. c \in Entity /\ c \in Entity \ Artifact
  BY IdentityDomains DEF Call, Entity, Subject
<1>2. DraftOf(c) = records[at].draft.body
      /\ DeclaredAs(records, Len(records), c, at)
  BY <1>1, DraftsOfDeclared, BornAtDeclaration
<1>3. /\ at = view[c].recorded_at
      /\ view[c].attempt = records[at].draft.body.attempt
      /\ view[c].attempt \in Attempt
  <2>1. Depicts(records, Len(records), c, view[c]) /\ ViewOf(c, view[c])
    BY <1>1, Settled
  <2>2. at = view[c].recorded_at
    <3>1. c \notin Session \cup Attempt \cup Hypothesis \cup Experiment
            \cup Branch \cup Result \cup Metric
      BY IdentityDomains DEF Call
    <3> QED BY <3>1 DEF Born
  <2>3. CASE c \in ModelCall
    BY <2>1, <2>2, <2>3 DEF Depicts, DepictsModelCall, ViewOf, ModelCallView
  <2>4. CASE c \in ToolCall
    BY <2>1, <2>2, <2>4 DEF Depicts, DepictsToolCall, ViewOf, ToolCallView
  <2>5. CASE c \in Observation
    BY <2>1, <2>2, <2>5 DEF Depicts, DepictsObservation, ViewOf,
       ObservationView
  <2> QED BY <2>3, <2>4, <2>5 DEF Call
<1>4. /\ at \in 1 .. Len(records) /\ records[at].draft \in Drafts
      /\ records[at].draft.body.id = c
      /\ records[at].draft.type \in DeclaringType
  BY <1>2, Settled DEF DeclaredAs, TypedAbout
<1>5. records[at].draft.type \in ActivityType
  <2>1. records[at].draft.type # "AccountingRecorded"
    BY <1>4 DEF DeclaringType
  <2> QED BY <1>4, <2>1, MoreTypesOfKinds DEF Call, ActivityType
<1> HIDE DEF at
<1>6. view[c].attempt \in References(records[at].draft)
  BY <1>3, <1>5 DEF References, ActivityType
<1>7. records[at].draft.type # "SessionOpened"
  BY <1>5 DEF ActivityType
<1>8. view[c].attempt \in Entity
  BY <1>3 DEF Entity, Subject
<1>9. view[view[c].attempt] # None
  BY <1>4, <1>6, <1>7, <1>8, ReferredIsThere
<1> QED BY <1>2, <1>3, <1>9

LEMMA AttemptOwned ==
  ASSUME LedgerInv, NEW a \in Attempt, view[a] # None
  PROVE  /\ DraftOf(a).experiment = view[a].experiment
         /\ view[a].experiment \in Experiment
         /\ view[view[a].experiment] # None
         /\ \A e : a \in AttemptsOf(e) <=> e = view[a].experiment
<1> DEFINE at == Born(a)
           n == Len(records)
<1>1. a \in Entity /\ a \in Entity \ Artifact
  BY IdentityDomains DEF Entity, Subject
<1>2. DraftOf(a) = records[at].draft.body
      /\ DeclaredAs(records, n, a, at)
  BY <1>1, DraftsOfDeclared, BornAtDeclaration
<1>3. /\ view[a].experiment = records[at].draft.body.experiment
      /\ view[a].experiment \in Experiment
  <2>1. DepictsAttempt(records, n, a, view[a]) /\ view[a] \in AttemptView
    BY <1>1, Settled DEF Depicts, ViewOf
  <2>2. at = view[a].started_at
    BY BornOfKinds
  <2> QED BY <2>1, <2>2 DEF DepictsAttempt, AttemptView
<1>4. /\ at \in 1 .. n /\ records[at].draft \in Drafts
      /\ records[at].draft.body.id = a
      /\ records[at].draft.type \in DeclaringType
      /\ DOMAIN records = 1 .. n
  BY <1>2, Settled DEF DeclaredAs, TypedAbout
<1>5. records[at].draft.type = "AttemptStarted"
  <2>1. records[at].draft.type # "AccountingRecorded"
    BY <1>4 DEF DeclaringType
  <2> QED BY <1>4, <2>1, TypesOfKinds
          DEF DeclaringType, TerminalType, TerminalState
<1> HIDE DEF at
<1>6. view[view[a].experiment] # None
  <2>1. view[a].experiment \in References(records[at].draft)
    BY <1>3, <1>5 DEF References
  <2>2. view[a].experiment \in Entity
    BY <1>3 DEF Entity, Subject
  <2> QED BY <1>4, <1>5, <2>1, <2>2, ReferredIsThere
<1>7. a \in AttemptsOf(view[a].experiment)
  BY <1>3, <1>4, <1>5 DEF AttemptsOf
<1>8. ASSUME NEW e, a \in AttemptsOf(e)
      PROVE  e = view[a].experiment
  <2>1. PICK i \in 1 .. n :
          /\ records[i].draft.type = "AttemptStarted"
          /\ records[i].draft.body.experiment = e
          /\ records[i].draft.body.id = a
    BY <1>4, <1>8 DEF AttemptsOf
  <2>2. DeclaredAs(records, n, a, i)
    BY <2>1 DEF DeclaredAs, TypedAbout, DeclaringType
  <2>3. i = at
    BY <1>2, <2>2, DeclaredFirst
  <2> QED BY <1>3, <2>1, <2>3
<1> QED BY <1>2, <1>3, <1>6, <1>7, <1>8

LEMMA ListedOnce ==
  ASSUME LedgerInv, NEW x \in Experiment \cup Branch, view[x] # None
  PROVE  /\ DraftOf(x).session = view[x].session
         /\ \A s : x \in Listed(s) <=> s = view[x].session
<1> DEFINE at == Born(x)
           n == Len(records)
<1>1. x \in Entity /\ x \in Entity \ Artifact
  BY IdentityDomains DEF Entity, Subject
<1>2. DraftOf(x) = records[at].draft.body
      /\ DeclaredAs(records, n, x, at)
  BY <1>1, DraftsOfDeclared, BornAtDeclaration
<1>3. view[x].session = records[at].draft.body.session
  <2>1. at = view[x].declared_at /\ Depicts(records, n, x, view[x])
    BY <1>1, BornOfKinds, Settled
  <2> QED BY <2>1 DEF Depicts, DepictsExperiment, DepictsBranch
<1>4. /\ at \in 1 .. n /\ records[at].draft \in Drafts
      /\ records[at].draft.body.id = x
      /\ records[at].draft.type \in DeclaringType
      /\ DOMAIN records = 1 .. n
      /\ \A i \in 1 .. n : records[i].draft \in Drafts
  BY <1>2, Settled DEF DeclaredAs, TypedAbout
<1>5. ASSUME NEW i \in 1 .. n, records[i].draft.body.id = x,
             records[i].draft.type # "AccountingRecorded"
      PROVE  records[i].draft.type \in { "ExperimentDeclared", "BranchDeclared" }
  BY <1>4, <1>5, MoreTypesOfKinds
<1>6. records[at].draft.type \in { "ExperimentDeclared", "BranchDeclared" }
  <2>1. records[at].draft.type # "AccountingRecorded"
    BY <1>4 DEF DeclaringType
  <2> QED BY <1>4, <1>5, <2>1
<1> HIDE DEF at
<1>7. x \in Listed(view[x].session)
  <2>1. OwnersOf(records[at]) = { view[x].session }
    BY <1>3, <1>6 DEF OwnersOf
  <2> QED BY <1>4, <2>1 DEF Listed
<1>8. ASSUME NEW s, x \in Listed(s)
      PROVE  s = view[x].session
  <2>1. PICK i \in 1 .. n :
          s \in OwnersOf(records[i]) /\ records[i].draft.body.id = x
    BY <1>4, <1>8 DEF Listed
  <2>2. records[i].draft.type # "AccountingRecorded"
    BY <2>1 DEF OwnersOf
  <2>3. records[i].draft.type \in { "ExperimentDeclared", "BranchDeclared" }
    BY <1>5, <2>1, <2>2
  <2>4. DeclaredAs(records, n, x, i)
    BY <2>1, <2>3 DEF DeclaredAs, TypedAbout, DeclaringType
  <2>5. i = at
    BY <1>2, <2>4, DeclaredFirst
  <2> QED BY <1>3, <2>1, <2>3, <2>5 DEF OwnersOf
<1> QED BY <1>2, <1>3, <1>7, <1>8

LEMMA ExperimentOwned ==
  ASSUME LedgerInv, NEW e \in Experiment, view[e] # None
  PROVE  /\ DraftOf(e).branch = view[e].branch
         /\ \A b : e \in ExperimentsOf(b) <=> b = view[e].branch
<1>1. e \in Entity /\ e \in Entity \ Artifact
  BY IdentityDomains DEF Entity, Subject
<1>2. DraftOf(e) = records[Born(e)].draft.body
      /\ DeclaredAs(records, Len(records), e, Born(e))
  BY <1>1, DraftsOfDeclared, BornAtDeclaration
<1>3. view[e].branch = records[Born(e)].draft.body.branch
  <2>1. Born(e) = view[e].declared_at
        /\ DepictsExperiment(records, Len(records), e, view[e])
    BY <1>1, BornOfKinds, Settled DEF Depicts
  <2> QED BY <2>1 DEF DepictsExperiment
<1>4. \A b : e \in ExperimentsOf(b) <=> records[Born(e)].draft.body.branch = b
  BY <1>2, ExperimentBranch
<1> QED BY <1>2, <1>3, <1>4

(* What is listed or linked is there.                                       *)
LEMMA OwnedAreThere ==
  ASSUME LedgerInv
  PROVE  /\ \A e : AttemptsOf(e) \subseteq There(Attempt)
         /\ \A b : ExperimentsOf(b) \subseteq There(Experiment)
         /\ \A s : Listed(s) \cap (Experiment \cup Branch)
                     \subseteq There(Experiment \cup Branch)
<1>1. /\ DOMAIN records = 1 .. Len(records)
      /\ \A i \in 1 .. Len(records) : records[i].draft \in Drafts
  BY Settled
<1>2. ASSUME NEW i \in 1 .. Len(records), records[i].draft.body.id \in Entity,
             records[i].draft.type # "AccountingRecorded"
      PROVE  view[records[i].draft.body.id] # None
  BY <1>2, AboutIsThere DEF About
<1>3. ASSUME NEW e, NEW a \in AttemptsOf(e)
      PROVE  a \in There(Attempt)
  <2>1. PICK i \in 1 .. Len(records) :
          /\ records[i].draft.type = "AttemptStarted"
          /\ records[i].draft.body.id = a
    BY <1>1, <1>3 DEF AttemptsOf
  <2>2. a \in Attempt /\ a \in Entity
    BY <1>1, <2>1, BodyKinds DEF Entity, Subject
  <2> QED BY <1>2, <2>1, <2>2 DEF There
<1>4. ASSUME NEW b, NEW e \in ExperimentsOf(b)
      PROVE  e \in There(Experiment)
  <2>1. PICK i \in 1 .. Len(records) :
          /\ records[i].draft.type = "ExperimentDeclared"
          /\ records[i].draft.body.id = e
    BY <1>1, <1>4 DEF ExperimentsOf
  <2>2. e \in Experiment /\ e \in Entity
    BY <1>1, <2>1, BodyKinds DEF Entity, Subject
  <2> QED BY <1>2, <2>1, <2>2 DEF There
<1>5. ASSUME NEW s, NEW x \in Listed(s) \cap (Experiment \cup Branch)
      PROVE  x \in There(Experiment \cup Branch)
  <2>1. PICK i \in 1 .. Len(records) :
          s \in OwnersOf(records[i]) /\ records[i].draft.body.id = x
    BY <1>1, <1>5 DEF Listed
  <2>2. records[i].draft.type # "AccountingRecorded"
    BY <2>1 DEF OwnersOf
  <2>3. x \in Entity
    BY <1>5 DEF Entity, Subject
  <2> QED BY <1>2, <1>5, <2>1, <2>2, <2>3 DEF There
<1> QED BY <1>3, <1>4, <1>5

(* The owners history names are those the views name.                       *)
LEMMA OwnersAre ==
  ASSUME LedgerInv, NEW y, view[y] # None
  PROVE  /\ y \in Branch => Owners(y) = { y, view[y].session }
         /\ y \in Experiment =>
              Owners(y) = { y, view[y].branch, view[y].session }
         /\ y \in Attempt =>
              LET e == view[y].experiment IN
              Owners(y) = { y, e, view[e].branch, view[e].session }
         /\ y \in Call => Owners(y) = { y } \cup Owners(view[y].attempt)
         /\ y \notin Branch \cup Experiment \cup Attempt \cup Call =>
              Owners(y) = { y }
<1>1. CASE y \in Branch
  <2>1. y \notin Experiment \cup Attempt \cup Call
    BY <1>1, IdentityDomains DEF Call
  <2>2. Owners(y) = { y, DraftOf(y).session }
    BY <1>1, <2>1 DEF Owners, Call
  <2> QED BY <1>1, <2>1, <2>2, ListedOnce
<1>2. CASE y \in Experiment
  <2>1. y \notin Branch \cup Attempt \cup Call
    BY <1>2, IdentityDomains DEF Call
  <2>2. Owners(y) = { y, DraftOf(y).branch, DraftOf(y).session }
    BY <1>2, <2>1 DEF Owners, Call
  <2> QED BY <1>2, <2>1, <2>2, ListedOnce, ExperimentOwned
<1>3. ASSUME NEW a \in Attempt, view[a] # None
      PROVE  LET e == view[a].experiment IN
             Owners(a) = { a, e, view[e].branch, view[e].session }
  <2>1. a \notin Branch \cup Experiment \cup Call
    BY <1>3, IdentityDomains DEF Call
  <2> DEFINE e == view[a].experiment
  <2>2. DraftOf(a).experiment = e /\ e \in Experiment /\ view[e] # None
    BY <1>3, AttemptOwned
  <2>3. Owners(a) = { a, DraftOf(a).experiment,
                      DraftOf(DraftOf(a).experiment).branch,
                      DraftOf(DraftOf(a).experiment).session }
    BY <1>3, <2>1 DEF Owners, Call
  <2> HIDE DEF e
  <2>4. Owners(a) = { a, e, DraftOf(e).branch, DraftOf(e).session }
    BY <2>2, <2>3
  <2>5. DraftOf(e).branch = view[e].branch /\ DraftOf(e).session = view[e].session
    BY <2>2, ListedOnce, ExperimentOwned
  <2> QED BY <2>4, <2>5 DEF e
<1>4. CASE y \in Attempt
  <2>1. y \notin Branch \cup Experiment \cup Call
    BY <1>4, IdentityDomains DEF Call
  <2> QED BY <1>3, <1>4, <2>1
<1>5. CASE y \in Call
  <2>1. y \notin Branch \cup Experiment \cup Attempt
    BY <1>5, IdentityDomains DEF Call
  <2>2. PICK a : a = view[y].attempt
    OBVIOUS
  <2>3. a \in Attempt /\ view[a] # None /\ DraftOf(y).attempt = a
    BY <1>5, <2>2, CallOwned
  <2>4. a \notin Branch \cup Experiment \cup Call
    BY <2>3, IdentityDomains DEF Call
  <2>5. Owners(y) = { y, a, DraftOf(a).experiment,
                      DraftOf(DraftOf(a).experiment).branch,
                      DraftOf(DraftOf(a).experiment).session }
    BY <1>5, <2>1, <2>3 DEF Owners, Call
  <2>6. Owners(a) = { a, DraftOf(a).experiment,
                      DraftOf(DraftOf(a).experiment).branch,
                      DraftOf(DraftOf(a).experiment).session }
    BY <2>3, <2>4 DEF Owners, Call
  <2> QED BY <1>5, <2>1, <2>2, <2>5, <2>6
<1>6. CASE y \notin Branch \cup Experiment \cup Attempt \cup Call
  <2>1. Owners(y) = { y }
    BY <1>6 DEF Owners, Call
  <2> QED BY <1>6, <2>1
<1> QED BY <1>1, <1>2, <1>4, <1>5, <1>6

(* What collect_core finds beneath each kind of scope.                      *)
LEMMA BeneathAre ==
  ASSUME LedgerInv, NEW x, view[x] # None, NEW y
  PROVE  /\ x \in Attempt => (y \in Beneath(Now, x) <=> y = x)
         /\ x \in Experiment =>
              (y \in Beneath(Now, x) <=> y = x \/ y \in AttemptsOf(x))
         /\ x \in Branch =>
              (y \in Beneath(Now, x) <=>
                 y = x \/ \E e \in ExperimentsOf(x) :
                            y = e \/ y \in AttemptsOf(e))
         /\ x \in Session =>
              (y \in Beneath(Now, x) <=>
                 \/ y = x
                 \/ y \in Branch /\ y \in Listed(x)
                 \/ \E e \in Experiment : /\ e \in Listed(x)
                                          /\ y = e \/ y \in AttemptsOf(e))
<1>1. /\ Now.view = view /\ Now.children = children
  BY DEF Now
<1>2. ASSUME NEW e \in Experiment, view[e] # None
      PROVE  \A z : z \in ExperimentScope(Now, e) <=> z = e \/ z \in AttemptsOf(e)
  <2>1. view[e].links \cap Attempt = AttemptsOf(e)
    BY <1>2 DEF LedgerInv, PictureInv, ListsInv
  <2> QED BY <1>1, <1>2, <2>1 DEF ExperimentScope
<1>3. CASE x \in Attempt
  <2>1. x \notin Session \cup Hypothesis \cup Experiment \cup Branch
                   \cup Result \cup Observation
    BY <1>3, IdentityDomains
  <2>2. Beneath(Now, x) = { x }
    BY <2>1 DEF Beneath
  <2> QED BY <1>3, <2>1, <2>2
<1>4. CASE x \in Experiment
  <2>1. x \notin Session \cup Branch \cup Attempt \cup Hypothesis \cup Result
                   \cup Observation
    BY <1>4, IdentityDomains
  <2>2. Beneath(Now, x) = ExperimentScope(Now, x)
    BY <1>4, <2>1 DEF Beneath
  <2> QED BY <1>2, <1>4, <2>1, <2>2
<1>5. CASE x \in Branch
  <2>1. x \notin Session \cup Experiment \cup Attempt \cup Result
                   \cup Observation
    BY <1>5, IdentityDomains
  <2>2. Beneath(Now, x)
          = { x } \cup ExperimentScopes(Now, view[x].links \cap Experiment)
    BY <1>1, <1>5, <2>1 DEF Beneath
  <2>3. view[x].links \cap Experiment = ExperimentsOf(x)
    BY <1>5 DEF LedgerInv, PictureInv, ListsInv
  <2>4. \A e \in ExperimentsOf(x) : e \in Experiment /\ view[e] # None
    BY OwnedAreThere DEF There
  <2>5. y \in ExperimentScopes(Now, ExperimentsOf(x))
          <=> \E e \in ExperimentsOf(x) : y = e \/ y \in AttemptsOf(e)
    BY <1>2, <2>4 DEF ExperimentScopes
  <2> QED BY <1>5, <2>1, <2>2, <2>3, <2>5
<1>6. CASE x \in Session
  <2>1. x \notin Branch \cup Experiment \cup Attempt
    BY <1>6, IdentityDomains
  <2>2. x \in Entity
    BY <1>6 DEF Entity, Subject
  <2>3. children[x] = Listed(x)
    BY <2>2 DEF LedgerInv, PictureInv, ListsInv
  <2>4. Beneath(Now, x)
          = { x } \cup ExperimentScopes(Now, Listed(x) \cap Experiment)
              \cup (Listed(x) \cap Branch)
    BY <1>1, <1>6, <2>3, IdentityDomains DEF Beneath
  <2>5. \A e \in Listed(x) \cap Experiment : e \in Experiment /\ view[e] # None
    BY OwnedAreThere DEF There
  <2>6. y \in ExperimentScopes(Now, Listed(x) \cap Experiment)
          <=> \E e \in Listed(x) \cap Experiment : y = e \/ y \in AttemptsOf(e)
    BY <1>2, <2>5 DEF ExperimentScopes
  <2>7. y \in Beneath(Now, x) <=>
          \/ y = x
          \/ y \in Branch /\ y \in Listed(x)
          \/ \E e \in Experiment : /\ e \in Listed(x)
                                   /\ y = e \/ y \in AttemptsOf(e)
    BY <2>4, <2>6
  <2> QED BY <1>6, <2>1, <2>7
<1>7. CASE x \notin Attempt \cup Experiment \cup Branch \cup Session
  BY <1>7
<1> QED BY <1>3, <1>4, <1>5, <1>6, <1>7

Scope == Attempt \cup Experiment \cup Branch \cup Session

LEMMA BeneathOwned ==
  ASSUME LedgerInv, NEW x \in Scope, view[x] # None,
         NEW y \in Entity \ Call, view[y] # None
  PROVE  y \in Beneath(Now, x) <=> x \in Owners(y)
<1> DEFINE exp == view[y].experiment
<1>1. y \in Attempt =>
        /\ Owners(y) = { y, exp, view[exp].branch, view[exp].session }
        /\ exp \in Experiment /\ view[exp] # None
        /\ \A e : y \in AttemptsOf(e) <=> e = exp
        /\ \A b : exp \in ExperimentsOf(b) <=> b = view[exp].branch
        /\ \A s : exp \in Listed(s) <=> s = view[exp].session
  <2> SUFFICES ASSUME y \in Attempt
               PROVE  /\ Owners(y) = { y, exp, view[exp].branch, view[exp].session }
                      /\ exp \in Experiment /\ view[exp] # None
                      /\ \A e : y \in AttemptsOf(e) <=> e = exp
                      /\ \A b : exp \in ExperimentsOf(b) <=> b = view[exp].branch
                      /\ \A s : exp \in Listed(s) <=> s = view[exp].session
    OBVIOUS
  <2>1. Owners(y) = { y, exp, view[exp].branch, view[exp].session }
    BY OwnersAre
  <2>2. /\ exp \in Experiment /\ view[exp] # None
        /\ \A e : y \in AttemptsOf(e) <=> e = exp
    BY AttemptOwned
  <2>3. \A b : exp \in ExperimentsOf(b) <=> b = view[exp].branch
    BY <2>2, ExperimentOwned
  <2>4. \A s : exp \in Listed(s) <=> s = view[exp].session
    BY <2>2, ListedOnce
  <2> QED BY <2>1, <2>2, <2>3, <2>4
<1>2. y \in Experiment =>
        /\ Owners(y) = { y, view[y].branch, view[y].session }
        /\ \A b : y \in ExperimentsOf(b) <=> b = view[y].branch
        /\ \A s : y \in Listed(s) <=> s = view[y].session
  BY OwnersAre, ExperimentOwned, ListedOnce
<1>3. y \in Branch =>
        /\ Owners(y) = { y, view[y].session }
        /\ \A s : y \in Listed(s) <=> s = view[y].session
  BY OwnersAre, ListedOnce
<1>4. y \notin Branch \cup Experiment \cup Attempt => Owners(y) = { y }
  BY OwnersAre
<1>5. /\ view[y].session \in Session \/ y \in Attempt
      /\ y \in Experiment => view[y].branch \in Branch
      /\ y \in Attempt =>
           view[exp].branch \in Branch /\ view[exp].session \in Session
  <2>1. ViewOf(y, view[y])
    BY Settled
  <2>2. y \in Experiment => view[y].branch \in Branch
    BY <2>1 DEF ViewOf, ExperimentView
  <2>3. y \in Attempt => ViewOf(exp, view[exp])
    BY <1>1, Settled DEF Entity, Subject
  <2>4. y \in Attempt =>
           view[exp].branch \in Branch /\ view[exp].session \in Session
    BY <1>1, <2>3 DEF ViewOf, ExperimentView
  <2>5. y \in Attempt \/ view[y].session \in Session
    BY <2>1 DEF ViewOf, Entity, Subject, Call, SessionView, HypothesisView,
       ExperimentView, BranchView, ArtifactView, MetricView, FailureView,
       DecisionView, ResultView
  <2> QED BY <2>2, <2>4, <2>5
<1>6. \A e : AttemptsOf(e) \subseteq Attempt
  BY OwnedAreThere DEF There
<1>7. \A b : ExperimentsOf(b) \subseteq Experiment
  BY OwnedAreThere DEF There
<1> HIDE DEF exp
<1>8. CASE x \in Attempt
  <2>1. y \in Beneath(Now, x) <=> y = x
    BY <1>8, BeneathAre
  <2> QED BY <1>1, <1>2, <1>3, <1>4, <1>5, <1>8, <2>1, IdentityDomains
<1>9. CASE x \in Experiment
  <2>1. y \in Beneath(Now, x) <=> y = x \/ y \in AttemptsOf(x)
    BY <1>9, BeneathAre
  <2> QED BY <1>1, <1>2, <1>3, <1>4, <1>5, <1>6, <1>9, <2>1, IdentityDomains
<1>10. CASE x \in Branch
  <2>1. y \in Beneath(Now, x) <=>
          y = x \/ \E e \in ExperimentsOf(x) : y = e \/ y \in AttemptsOf(e)
    BY <1>10, BeneathAre
  <2> QED BY <1>1, <1>2, <1>3, <1>4, <1>5, <1>6, <1>7, <1>10, <2>1,
             IdentityDomains
<1>11. CASE x \in Session
  <2>1. y \in Beneath(Now, x) <=>
          \/ y = x
          \/ y \in Branch /\ y \in Listed(x)
          \/ \E e \in Experiment : /\ e \in Listed(x)
                                   /\ y = e \/ y \in AttemptsOf(e)
    BY <1>11, BeneathAre
  <2> QED BY <1>1, <1>2, <1>3, <1>4, <1>5, <1>6, <1>11, <2>1,
             IdentityDomains
<1> QED BY <1>8, <1>9, <1>10, <1>11 DEF Scope

(* What the accounting of x takes in is what x owns.                        *)
LEMMA ScopeOwned ==
  ASSUME LedgerInv, NEW x \in Scope, view[x] # None,
         NEW y \in Entity, view[y] # None
  PROVE  y \in ScopeAt(Now, x) <=> x \in Owners(y)
<1>1. x \notin Failure \cup Artifact /\ x \notin Call
  BY IdentityDomains DEF Scope, Call
<1>2. CollectCore(Now, x) = Beneath(Now, x)
  <2>1. ProducersOf(Now, x) = {}
    BY <1>1, NoProducers
  <2> QED BY <2>1 DEF CollectCore
<1>3. y \in ScopeAt(Now, x) <=>
        \/ y \in Beneath(Now, x)
        \/ y \in Call /\ view[y].attempt \in Beneath(Now, x)
  <2>1. PICK S : S = Beneath(Now, x)
    OBVIOUS
  <2>2. Now.view = view
    BY DEF Now
  <2>3. ScopeAt(Now, x) = WithActivity(Now, S)
    BY <1>2, <2>1 DEF ScopeAt
  <2>4. WithActivity(Now, S)
          = S \cup { c \in Call : view[c] # None /\ view[c].attempt \in S }
    BY <2>2 DEF WithActivity, Call
  <2>5. y \in ScopeAt(Now, x) <=>
          \/ y \in S
          \/ y \in Call /\ view[y].attempt \in S
    BY <2>3, <2>4
  <2> QED BY <2>1, <2>5
<1>4. CASE y \notin Call
  BY <1>3, <1>4, BeneathOwned
<1>5. CASE y \in Call
  <2>1. y \notin Attempt \cup Experiment \cup Branch \cup Session
    BY <1>5, IdentityDomains DEF Call
  <2>2. /\ \A e : AttemptsOf(e) \subseteq Attempt
        /\ \A b : ExperimentsOf(b) \subseteq Experiment
    BY OwnedAreThere DEF There
  <2>3. y \notin Beneath(Now, x)
    BY <1>1, <1>5, <2>1, <2>2, BeneathAre DEF Scope
  <2>4. PICK a : a = view[y].attempt
    OBVIOUS
  <2>5. a \in Attempt /\ view[a] # None
    BY <1>5, <2>4, CallOwned
  <2>6. a \in Entity \ Call
    BY <2>5, IdentityDomains DEF Entity, Subject, Call
  <2>7. a \in Beneath(Now, x) <=> x \in Owners(a)
    BY <2>5, <2>6, BeneathOwned
  <2>8. Owners(y) = { y } \cup Owners(a)
    BY <1>5, <2>4, OwnersAre
  <2> QED BY <1>1, <1>3, <1>5, <2>3, <2>4, <2>7, <2>8
<1> QED BY <1>4, <1>5

(* The accounting of an attempt, an experiment, a branch or a session is    *)
(* the accounting recorded beneath it: the lists collect_core and           *)
(* expand_calls walk hold what the records name, each entity once.          *)
THEOREM TotalsAreHistory == QuerySpec => []TotalsMatchHistory
<1>1. ASSUME LedgerInv, SubjectsInv PROVE TotalsMatchHistory
  <2> DEFINE n == Len(records)
  <2>1. /\ n \in Nat /\ DOMAIN records = 1 .. n
        /\ \A i \in 1 .. n : records[i].draft \in Drafts
    BY <1>1, Settled
  <2>2. ASSUME NEW x \in Attempt \cup Experiment \cup Branch \cup Session,
               Declared(x) # {}
        PROVE  ContributionsAt(Now, n, x)
                 = { i \in Types({ "AccountingRecorded" }) :
                       x \in Owners(records[i].draft.body.id) }
    <3>1. PICK i \in 1 .. n : TypedAbout(records, i, DeclaringType, x)
      BY <1>1, <2>2, Settled DEF Declared
    <3>2. x \in Scope /\ x \in Entity /\ x \notin Metric
          /\ x \notin Failure \cup Artifact
      BY IdentityDomains DEF Scope, Entity, Subject
    <3>3. view[x] # None
      BY <1>1, <3>1, <3>2, AboutIsThere DEF TypedAbout, About, DeclaringType
    <3>4. records[i].subject = x
      <4>1. records[i].draft.type # "MetricDeclared"
        BY <2>1, <3>1, <3>2, BodyKinds DEF TypedAbout
      <4> QED BY <1>1, <3>1, <4>1 DEF SubjectsInv, PrimarySubject, TypedAbout
    <3>5. Now.records = records
      BY DEF Now
    <3>6. SequencesAbout(Now, x) # {}
      BY <2>1, <3>4, <3>5 DEF SequencesAbout
    <3>7. ~EndsNowhere(Now, x)
      <4>1. ProducersOf(Now, x) = {}
        BY <3>2, NoProducers
      <4> QED BY <4>1 DEF EndsNowhere
    <3>8. ContributionsAt(Now, n, x)
            = { k \in Types({ "AccountingRecorded" }) :
                  records[k].draft.body.id \in ScopeAt(Now, x) }
      <4>1. ContributionsAt(Now, n, x)
              = { k \in DOMAIN records :
                    /\ Visible(k, n)
                    /\ records[k].draft.type = "AccountingRecorded"
                    /\ records[k].draft.body.id \in ScopeAt(Now, x) }
        BY <3>5, <3>6, <3>7 DEF ContributionsAt
      <4>2. \A k \in 1 .. n : Visible(k, n)
        BY <2>1 DEF Visible
      <4> QED BY <2>1, <4>1, <4>2 DEF Types
    <3>9. ASSUME NEW k \in Types({ "AccountingRecorded" })
          PROVE  records[k].draft.body.id \in ScopeAt(Now, x)
                   <=> x \in Owners(records[k].draft.body.id)
      <4> DEFINE y == records[k].draft.body.id
      <4>1. k \in 1 .. n /\ records[k].draft.type = "AccountingRecorded"
        BY <2>1 DEF Types
      <4>2. y \in Entity
        <5>1. records[k].draft.body \in AccountingBody
          BY <2>1, <4>1, DraftBodies
        <5> QED BY <5>1 DEF AccountingBody, Entity
      <4>3. y \in References(records[k].draft)
        BY <4>1 DEF References
      <4> HIDE DEF y
      <4>4. view[y] # None
        BY <1>1, <4>1, <4>2, <4>3, ReferredIsThere
      <4>5. y \in ScopeAt(Now, x) <=> x \in Owners(y)
        BY <1>1, <3>2, <3>3, <4>2, <4>4, ScopeOwned
      <4> QED BY <4>5 DEF y
    <3> QED BY <3>8, <3>9
  <2> QED BY <2>2 DEF TotalsMatchHistory
<1>2. QuerySpec => []SubjectsInv
  BY QueriesOnlyRead, SubjectsKept, PTL
<1> QED BY <1>1, <1>2, QueriedLedger, PTL

-----------------------------------------------------------------------------
(* What the logical digest sees *)

(* A record about k that is no annotation is seen: k was not there, or a    *)
(* field that is rendered is not what it was.                               *)
Told(k, v, w) ==
  /\ w # None
  /\ v # None => \E f \in RenderedFields(k) : w[f] # v[f]

LEMMA DeclarationTold ==
  ASSUME NEW n \in Nat, NEW h, NEW g, Agree(g, h, n), NEW k, NEW v, NEW w,
         Shows(h, n, k, v), Shows(g, n + 1, k, w), Follows(g, n + 1),
         TypedAbout(g, n + 1, DeclaringType, k)
  PROVE  Told(k, v, w)
<1>1. n + 1 \in 1 .. n + 1 /\ (n + 1) - 1 = n
  OBVIOUS
<1>2. About(g, n + 1, k)
  BY DEF TypedAbout, About, DeclaringType
<1>3. w # None
  BY <1>1, <1>2 DEF Shows
<1>4. \A i \in 1 .. n : ~About(g, i, k)
  BY <1>1 DEF Follows, IsNew, TypedAbout
<1>5. \A i \in 1 .. n : ~About(h, i, k)
  BY <1>4, AgreeOnPlaces
<1>6. v = None
  BY <1>5 DEF Shows
<1> QED BY <1>3, <1>6 DEF Told

LEMMA ClosureTold ==
  ASSUME NEW n \in Nat, NEW h, NEW g, Agree(g, h, n), NEW k \in Session,
         NEW v, NEW w,
         Shows(h, n, k, v), Shows(g, n + 1, k, w), Follows(g, n + 1),
         TypedAbout(g, n + 1, { "SessionClosed" }, k)
  PROVE  Told(k, v, w)
<1>1. n + 1 \in 1 .. n + 1 /\ (n + 1) - 1 = n
  OBVIOUS
<1>2. About(g, n + 1, k) /\ g[n + 1].draft.type = "SessionClosed"
  BY DEF TypedAbout, About
<1>3. w # None
  BY <1>1, <1>2 DEF Shows
<1>4. g[n + 1].session = k
  BY <1>2 DEF Follows, IsAtHome, SessionRecord, About
<1>5. \A i \in 1 .. n : ~TypedAbout(g, i, { "SessionClosed" }, k)
  BY <1>1, <1>2, <1>4 DEF Follows, RespectsClosure
<1>6. \A i \in 1 .. n : ~TypedAbout(h, i, { "SessionClosed" }, k)
  BY <1>5, AgreeOnPlaces
<1>7. w.state = "Closed"
  BY <1>1, <1>3 DEF Shows, ShowsSession
<1>8. v # None => v.state # "Closed"
  BY <1>6 DEF Shows, ShowsSession
<1>9. "state" \in RenderedFields(k)
  BY IdentityDomains DEF RenderedFields
<1> QED BY <1>3, <1>7, <1>8, <1>9 DEF Told

LEMMA EndTold ==
  ASSUME NEW n \in Nat, NEW h, NEW g, Agree(g, h, n), NEW k \in Attempt,
         NEW v, NEW w,
         Shows(h, n, k, v), Shows(g, n + 1, k, w), Follows(g, n + 1),
         TypedAbout(g, n + 1, TerminalType, k)
  PROVE  Told(k, v, w)
<1>1. n + 1 \in 1 .. n + 1 /\ (n + 1) - 1 = n
  OBVIOUS
<1>2. About(g, n + 1, k)
  BY DEF TypedAbout, About, TerminalType, TerminalState
<1>3. w # None
  BY <1>1, <1>2 DEF Shows
<1>4. \A i \in 1 .. n : ~TypedAbout(g, i, TerminalType, k)
  BY <1>1 DEF Follows, EndsOnce, TypedAbout
<1>5. \A i \in 1 .. n : ~TypedAbout(h, i, TerminalType, k)
  BY <1>4, AgreeOnPlaces
<1>6. w.state # "Running"
  BY <1>1, <1>3 DEF Shows, ShowsAttempt
<1>7. v # None => v.state = "Running"
  BY <1>5 DEF Shows, ShowsAttempt
<1>8. "state" \in RenderedFields(k)
  BY IdentityDomains DEF RenderedFields
<1> QED BY <1>3, <1>6, <1>7, <1>8 DEF Told

LEMMA OneMore ==
  ASSUME NEW n \in Nat, NEW S \in SUBSET (1 .. n), NEW T,
         T = S \cup { n + 1 }
  PROVE  Cardinality(T) = Cardinality(S) + 1 /\ Cardinality(S) \in Nat
<1>1. IsFiniteSet(1 .. n)
  <2>1. 1 \in Int /\ n \in Int
    OBVIOUS
  <2> QED BY <2>1, FS_Interval
<1>2. IsFiniteSet(S)
  BY <1>1, FS_Subset
<1>3. n + 1 \notin S
  OBVIOUS
<1>4. Cardinality(S \cup { n + 1 }) = Cardinality(S) + 1
  BY <1>2, <1>3, FS_AddElement
<1> QED BY <1>2, <1>4, FS_CardinalityType

LEMMA ChangeTold ==
  ASSUME NEW n \in Nat, NEW h, NEW g, Agree(g, h, n),
         NEW k \in Hypothesis \cup Result, NEW v, NEW w,
         Shows(h, n, k, v), Shows(g, n + 1, k, w),
         TypedAbout(g, n + 1, ChangeType, k)
  PROVE  Told(k, v, w)
<1>1. n + 1 \in 1 .. n + 1 /\ n \in 0 .. n
  OBVIOUS
<1>2. About(g, n + 1, k)
  BY DEF TypedAbout, About, ChangeType
<1>3. w # None
  BY <1>1, <1>2 DEF Shows
<1>4. ChangesUpTo(g, n, k) = ChangesUpTo(h, n, k)
  BY <1>1, AgreeOnPlaces
<1>5. ChangesUpTo(g, n + 1, k) = ChangesUpTo(h, n, k) \cup { n + 1 }
  <2>1. ChangesUpTo(g, n + 1, k) = ChangesUpTo(g, n, k) \cup { n + 1 }
    BY DEF ChangesUpTo
  <2> QED BY <1>4, <2>1
<1>6. ChangesUpTo(h, n, k) \in SUBSET (1 .. n)
  BY DEF ChangesUpTo
<1>7. /\ Cardinality(ChangesUpTo(g, n + 1, k))
           = Cardinality(ChangesUpTo(h, n, k)) + 1
      /\ Cardinality(ChangesUpTo(h, n, k)) \in Nat
  BY <1>5, <1>6, OneMore
<1>8. w.generation = Cardinality(ChangesUpTo(g, n + 1, k)) + 1
  BY <1>3 DEF Shows, ShowsChanges
<1>9. v # None => v.generation = Cardinality(ChangesUpTo(h, n, k)) + 1
  BY DEF Shows, ShowsChanges
<1>10. "generation" \in RenderedFields(k)
  BY IdentityDomains DEF RenderedFields
<1>11. v # None => w.generation # v.generation
  BY <1>7, <1>8, <1>9
<1> QED BY <1>3, <1>10, <1>11 DEF Told

LEMMA ReferenceTold ==
  ASSUME NEW n \in Nat, NEW h, NEW g, Agree(g, h, n),
         NEW k \in Artifact, NEW v, NEW w,
         Depicts(h, n, k, v), Depicts(g, n + 1, k, w),
         Shows(g, n + 1, k, w),
         TypedAbout(g, n + 1, { "ArtifactReferenced" }, k)
  PROVE  Told(k, v, w)
<1>1. n + 1 \in 1 .. n + 1
  OBVIOUS
<1>2. About(g, n + 1, k)
  BY DEF TypedAbout, About
<1>3. w # None
  BY <1>1, <1>2 DEF Shows
<1>4. Prolongs(g, n, h, n, k)
  BY DEF Prolongs, Agree
<1>5. ReferencesUpTo(g, n, k) = ReferencesUpTo(h, n, k)
  BY <1>4, ProlongedPlaces
<1>6. ReferencesUpTo(g, n + 1, k) = ReferencesUpTo(h, n, k) \cup { n + 1 }
  <2>1. ReferencesUpTo(g, n + 1, k) = ReferencesUpTo(g, n, k) \cup { n + 1 }
    BY DEF ReferencesUpTo
  <2> QED BY <1>5, <2>1
<1>7. ReferencesUpTo(h, n, k) \in SUBSET (1 .. n)
  BY DEF ReferencesUpTo
<1>8. /\ Cardinality(ReferencesUpTo(g, n + 1, k))
           = Cardinality(ReferencesUpTo(h, n, k)) + 1
      /\ Cardinality(ReferencesUpTo(h, n, k)) \in Nat
  BY <1>6, <1>7, OneMore
<1>9. w.generation = Cardinality(ReferencesUpTo(g, n + 1, k))
  BY <1>3 DEF Depicts, DepictsArtifact
<1>10. v # None => v.generation = Cardinality(ReferencesUpTo(h, n, k))
  BY DEF Depicts, DepictsArtifact
<1>11. "generation" \in RenderedFields(k)
  BY IdentityDomains DEF RenderedFields
<1>12. v # None => w.generation # v.generation
  BY <1>8, <1>9, <1>10
<1> QED BY <1>3, <1>11, <1>12 DEF Told

LEMMA InvalidationTold ==
  ASSUME NEW n \in Nat, NEW h, NEW g, Agree(g, h, n),
         NEW k \in Artifact, NEW v, NEW w,
         Depicts(h, n, k, v), Depicts(g, n + 1, k, w),
         Shows(g, n + 1, k, w), Builds(g, n + 1),
         TypedAbout(g, n + 1, { "ArtifactInvalidated" }, k)
  PROVE  Told(k, v, w)
<1>1. n + 1 \in 1 .. n + 1 /\ (n + 1) - 1 = n
  OBVIOUS
<1>2. About(g, n + 1, k) /\ g[n + 1].draft.type = "ArtifactInvalidated"
      /\ g[n + 1].draft.body.id = k
  BY DEF TypedAbout, About
<1>3. w # None
  BY <1>1, <1>2 DEF Shows
<1>4. Prolongs(g, n, h, n, k)
  BY DEF Prolongs, Agree
<1>5. /\ ReferencesUpTo(g, n, k) = ReferencesUpTo(h, n, k)
      /\ \A at : InvalidatedAfter(g, n, k, at) <=> InvalidatedAfter(h, n, k, at)
  BY <1>4, ProlongedPlaces
<1>6. PICK i \in 1 .. n :
        /\ LastOf(ReferencesUpTo(g, n, k), i)
        /\ ~InvalidatedAfter(g, n, k, i)
        /\ g[i].draft.body.validation # "Invalidated"
  BY <1>1, <1>2 DEF Builds, InvalidatesValid
<1>7. ReferencesUpTo(g, n + 1, k) = ReferencesUpTo(g, n, k)
  BY <1>2 DEF ReferencesUpTo, TypedAbout
<1>8. \A j \in 1 .. n + 1 : LastOf(ReferencesUpTo(g, n, k), j) => j = i
  BY <1>6 DEF LastOf, ReferencesUpTo
<1>9. w.recorded_at = i
  BY <1>3, <1>7, <1>8 DEF Depicts, DepictsArtifact, LastOf, ReferencesUpTo
<1>10. InvalidatedAfter(g, n + 1, k, i)
  BY <1>1 DEF InvalidatedAfter
<1>11. w.validation = "Invalidated"
  BY <1>3, <1>9, <1>10 DEF Depicts, DepictsArtifact
<1>12. ASSUME v # None
       PROVE  v.validation # "Invalidated"
  <2>1. DepictsArtifact(h, n, k, v)
    BY <1>12 DEF Depicts
  <2>2. v.recorded_at = i
    BY <1>5, <1>8, <2>1 DEF DepictsArtifact, LastOf, ReferencesUpTo
  <2>3. v.validation = h[i].draft.body.validation
    BY <1>5, <1>6, <2>1, <2>2 DEF DepictsArtifact
  <2> QED BY <1>6, <2>3 DEF Agree
<1>13. "validation" \in RenderedFields(k)
  BY IdentityDomains DEF RenderedFields
<1> QED BY <1>3, <1>11, <1>12, <1>13 DEF Told

LEMMA RecordTold ==
  ASSUME NEW n \in Nat, NEW h, NEW g, Agree(g, h, n), NEW k \in Entity,
         NEW v, NEW w,
         Shows(h, n, k, v), Depicts(h, n, k, v),
         Shows(g, n + 1, k, w), Depicts(g, n + 1, k, w),
         Follows(g, n + 1), Builds(g, n + 1),
         g[n + 1].draft \in Drafts, About(g, n + 1, k),
         g[n + 1].draft.type # "SessionAnnotation"
  PROVE  Told(k, v, w)
<1> DEFINE d == g[n + 1].draft
<1>1. d \in Drafts /\ d.body.id = k /\ d.type # "AccountingRecorded"
      /\ d.type # "SessionAnnotation"
  BY DEF About
<1>2. \/ d.type \in DeclaringType
      \/ d.type = "SessionClosed"
      \/ d.type \in TerminalType
      \/ d.type \in ChangeType
      \/ d.type = "ArtifactReferenced"
      \/ d.type = "ArtifactInvalidated"
  <2>1. d.type \in RecordType
    BY <1>1, DraftHeader
  <2> HIDE DEF d
  <2> QED BY <1>1, <2>1 DEF RecordType, DeclaringType, TerminalType,
             TerminalState, ChangeType
<1>3. /\ d.type = "SessionClosed" => k \in Session
      /\ d.type \in TerminalType => k \in Attempt
      /\ d.type \in ChangeType => k \in Hypothesis \cup Result
      /\ d.type \in { "ArtifactReferenced", "ArtifactInvalidated" } =>
           k \in Artifact
  BY <1>1, BodyKinds DEF SessionRecord, ChangeType
<1>4. CASE d.type \in DeclaringType
  BY <1>1, <1>4, DeclarationTold DEF TypedAbout
<1>5. CASE d.type = "SessionClosed"
  BY <1>1, <1>3, <1>5, ClosureTold DEF TypedAbout
<1>6. CASE d.type \in TerminalType
  BY <1>1, <1>3, <1>6, EndTold DEF TypedAbout
<1>7. CASE d.type \in ChangeType
  BY <1>1, <1>3, <1>7, ChangeTold DEF TypedAbout
<1>8. CASE d.type = "ArtifactReferenced"
  BY <1>1, <1>3, <1>8, ReferenceTold DEF TypedAbout
<1>9. CASE d.type = "ArtifactInvalidated"
  BY <1>1, <1>3, <1>9, InvalidationTold DEF TypedAbout
<1> QED BY <1>2, <1>4, <1>5, <1>6, <1>7, <1>8, <1>9

(* An annotation leaves no trace in its session.                            *)
LEMMA AnnotationUntold ==
  ASSUME NEW n \in Nat, NEW h, NEW g, Agree(g, h, n), NEW k \in Session,
         NEW v, NEW w,
         Shows(h, n, k, v), Shows(g, n + 1, k, w), Follows(g, n + 1),
         TypedAbout(g, n + 1, { "SessionAnnotation" }, k),
         v # None => v.state \in SessionState,
         w # None => w.state \in SessionState
  PROVE  v # None /\ w # None /\ w.state = v.state
<1>1. n + 1 \in 1 .. n + 1 /\ (n + 1) - 1 = n
  OBVIOUS
<1>2. g[n + 1].draft.type = "SessionAnnotation" /\ g[n + 1].draft.body.id = k
  BY DEF TypedAbout
<1>3. w # None
  BY <1>1, <1>2 DEF Shows, About
<1>4. v # None
  <2>1. k \in References(g[n + 1].draft) \ { None }
    BY <1>2, NoneAssumption DEF References, Entity, Subject
  <2>2. PICK i \in 1 .. n : About(g, i, k)
    BY <1>1, <1>2, <2>1 DEF Follows, PointsBack, HasHome
  <2>3. About(h, i, k)
    BY <2>2, AgreeOnPlaces
  <2> QED BY <2>3 DEF Shows
<1>5. w.state = "Closed" <=> v.state = "Closed"
  <2>1. \A i \in 1 .. n : TypedAbout(g, i, { "SessionClosed" }, k)
                            <=> TypedAbout(h, i, { "SessionClosed" }, k)
    BY AgreeOnPlaces
  <2>2. ~TypedAbout(g, n + 1, { "SessionClosed" }, k)
    BY <1>2 DEF TypedAbout
  <2>3. /\ w.state = "Closed" <=>
             \E i \in 1 .. n + 1 : TypedAbout(g, i, { "SessionClosed" }, k)
        /\ v.state = "Closed" <=>
             \E i \in 1 .. n : TypedAbout(h, i, { "SessionClosed" }, k)
    BY <1>3, <1>4 DEF Shows, ShowsSession
  <2>4. \A i \in 1 .. n + 1 : i \in 1 .. n \/ i = n + 1
    OBVIOUS
  <2>5. \A i \in 1 .. n : i \in 1 .. n + 1
    OBVIOUS
  <2> QED BY <2>1, <2>2, <2>3, <2>4, <2>5
<1> QED BY <1>3, <1>4, <1>5 DEF SessionState

-----------------------------------------------------------------------------
(* The digest of all that is there.                                         *)
DigestOf(S, v, A) ==
  [ entities |-> [ x \in S |-> [ f \in RenderedFields(x) |-> v[x][f] ] ],
    accounting |-> A ]

LEMMA SameDigest ==
  ASSUME NEW S, NEW T, NEW v, NEW w, NEW A, NEW B
  PROVE  DigestOf(S, v, A) = DigestOf(T, w, B) <=>
           /\ S = T /\ A = B
           /\ \A x \in S : \A f \in RenderedFields(x) : v[x][f] = w[x][f]
<1> DEFINE e == [ x \in S |-> [ f \in RenderedFields(x) |-> v[x][f] ] ]
           d == [ x \in T |-> [ f \in RenderedFields(x) |-> w[x][f] ] ]
<1>1. ASSUME DigestOf(S, v, A) = DigestOf(T, w, B)
      PROVE  /\ S = T /\ A = B
             /\ \A x \in S : \A f \in RenderedFields(x) : v[x][f] = w[x][f]
  <2>1. [ entities |-> e, accounting |-> A ]
          = [ entities |-> d, accounting |-> B ]
    BY <1>1 DEF DigestOf
  <2>2. DOMAIN e = S /\ DOMAIN d = T
    OBVIOUS
  <2>3. ASSUME NEW x \in S, NEW f \in RenderedFields(x)
        PROVE  e[x][f] = v[x][f]
    OBVIOUS
  <2>4. ASSUME NEW x \in T, NEW f \in RenderedFields(x)
        PROVE  d[x][f] = w[x][f]
    OBVIOUS
  <2> HIDE DEF e, d
  <2>5. e = d /\ A = B
    BY <2>1
  <2> QED BY <2>2, <2>3, <2>4, <2>5
<1>2. ASSUME S = T, A = B,
             \A x \in S : \A f \in RenderedFields(x) : v[x][f] = w[x][f]
      PROVE  DigestOf(S, v, A) = DigestOf(T, w, B)
  <2>1. ASSUME NEW x \in S
        PROVE  [ f \in RenderedFields(x) |-> v[x][f] ]
                 = [ f \in RenderedFields(x) |-> w[x][f] ]
    BY <1>2, <2>1
  <2>2. e = d
    BY <1>2, <2>1
  <2> QED BY <1>2, <2>2 DEF DigestOf
<1> QED BY <1>1, <1>2

LEMMA DateOf ==
  ASSUME NEW v, NEW f,
         \A g \in { "opened_at", "declared_at", "started_at", "recorded_at" } :
           g \in DOMAIN v <=> g = f,
         f \in { "opened_at", "declared_at", "started_at", "recorded_at" }
  PROVE  DeclaredAt(v) = v[f]
<1>1. (CHOOSE g \in { "opened_at", "declared_at", "started_at",
                      "recorded_at" } : g \in DOMAIN v) = f
  OBVIOUS
<1> QED BY <1>1 DEF DeclaredAt

(* Whatever is there was declared by now.                                   *)
LEMMA DatedInHistory ==
  ASSUME LedgerInv, NEW x \in Entity, view[x] # None
  PROVE  DeclaredAt(view[x]) \in 1 .. Len(records)
<1>1. ViewOf(x, view[x]) /\ Depicts(records, Len(records), x, view[x])
  BY Settled
<1>2. CASE x \in Artifact
  <2>1. view[x] \in ArtifactView
    BY <1>1, <1>2 DEF ViewOf
  <2>2. DeclaredAt(view[x]) = view[x].recorded_at
    BY <2>1, DateOf DEF ArtifactView
  <2>3. DepictsArtifact(records, Len(records), x, view[x])
    BY <1>1, <1>2 DEF Depicts
  <2> QED BY <2>2, <2>3 DEF DepictsArtifact, LastOf, ReferencesUpTo
<1>3. CASE x \notin Artifact
  <2>1. Born(x) \in 1 .. Len(records)
    BY <1>3, BornAtDeclaration DEF DeclaredAs
  <2>2. CASE x \in Session
    <3>1. view[x] \in SessionView
      BY <1>1, <2>2 DEF ViewOf
    <3>2. DeclaredAt(view[x]) = view[x].opened_at
      BY <3>1, DateOf DEF SessionView
    <3> QED BY <2>1, <2>2, <3>2, BornOfKinds
  <2>3. CASE x \in Attempt
    <3>1. view[x] \in AttemptView
      BY <1>1, <2>3 DEF ViewOf
    <3>2. DeclaredAt(view[x]) = view[x].started_at
      BY <3>1, DateOf DEF AttemptView
    <3> QED BY <2>1, <2>3, <3>2, BornOfKinds
  <2>4. CASE x \in Hypothesis \cup Experiment \cup Branch \cup Result
                      \cup Metric
    <3>1. view[x] \in HypothesisView \cup ExperimentView \cup BranchView
                       \cup ResultView \cup MetricView
      BY <1>1, <2>4 DEF ViewOf
    <3>2. DeclaredAt(view[x]) = view[x].declared_at
      BY <3>1, DateOf DEF HypothesisView, ExperimentView, BranchView,
         ResultView, MetricView
    <3> QED BY <2>1, <2>4, <3>2, BornOfKinds
  <2>5. CASE x \in ModelCall \cup ToolCall \cup Observation \cup Failure
                     \cup Decision
    <3>1. view[x] \in ModelCallView \cup ToolCallView \cup ObservationView
                       \cup FailureView \cup DecisionView
      BY <1>1, <2>5 DEF ViewOf
    <3>2. DeclaredAt(view[x]) = view[x].recorded_at
      BY <3>1, DateOf DEF ModelCallView, ToolCallView, ObservationView,
         FailureView, DecisionView
    <3> QED BY <2>1, <2>5, <3>2, BornOfKinds
  <2> QED BY <1>3, <2>2, <2>3, <2>4, <2>5 DEF Entity, Subject
<1> QED BY <1>2, <1>3

(* The ledger between two steps, and what its digest takes in.              *)
DigestedInv ==
  /\ Len(records) \in Nat /\ DOMAIN records = 1 .. Len(records)
  /\ \A i \in 1 .. Len(records) :
       /\ Follows(records, i) /\ Builds(records, i)
       /\ records[i].draft \in Drafts
  /\ \A x \in Entity :
       /\ Shows(records, Len(records), x, view[x])
       /\ Depicts(records, Len(records), x, view[x])
       /\ view[x] # None => ViewOf(x, view[x])
  /\ LogicalDigest(Now, Len(records))
       = DigestOf(There(Entity), view, Types({ "AccountingRecorded" }))

LEMMA LedgerIsDigested == LedgerInv => DigestedInv
<1>1. SUFFICES ASSUME LedgerInv
               PROVE  DigestedInv
  OBVIOUS
<1>2. PICK n : n = Len(records)
  OBVIOUS
<1>3. n \in Nat /\ DOMAIN records = 1 .. n
  BY <1>1, <1>2, Settled
<1>4. PICK ix : ix = Now
  OBVIOUS
<1>5. ix.records = records /\ ix.view = view
  BY <1>4 DEF Now
<1>6. { y \in Entity : ix.view[y] # None /\ DeclaredAt(ix.view[y]) <= n }
        = There(Entity)
  <2>1. ASSUME NEW y \in Entity, view[y] # None
        PROVE  DeclaredAt(view[y]) <= n
    <3>1. DeclaredAt(view[y]) \in 1 .. n
      BY <1>1, <1>2, <2>1, DatedInHistory
    <3> QED BY <1>3, <3>1
  <2> QED BY <1>5, <2>1 DEF There
<1>7. { i \in DOMAIN ix.records :
          Visible(i, n) /\ ix.records[i].draft.type = "AccountingRecorded" }
        = Types({ "AccountingRecorded" })
  <2>1. \A i \in 1 .. n : Visible(i, n)
    BY <1>3 DEF Visible
  <2> QED BY <1>3, <1>5, <2>1 DEF Types
<1>8. LogicalDigest(ix, n)
        = [ entities |-> [ x \in There(Entity) |-> Rendered(ix, x) ],
            accounting |-> Types({ "AccountingRecorded" }) ]
  BY <1>6, <1>7, Zenon DEF LogicalDigest
<1>9. LogicalDigest(ix, n)
        = DigestOf(There(Entity), view, Types({ "AccountingRecorded" }))
  BY <1>5, <1>8, Zenon DEF Rendered, DigestOf
<1> QED BY <1>1, <1>2, <1>4, <1>9, Settled DEF DigestedInv

LEMMA LedgerStaysDigested == LedgerInv' => DigestedInv'
  BY LedgerIsDigested, PTL

LEMMA LongerByOne ==
  ASSUME TypeOK, [Next]_vars, Len(records') = Len(records) + 1
  PROVE  ApplyNext
<1>1. Len(records) \in Nat
  BY SequencesOfTheStep
<1>2. records' # records
  BY <1>1
<1>3. ASSUME NEW d \in Drafts
      PROVE  ~(StageNext(d) \/ RecognizeRepeat(d) \/ Reject(d))
  <2>1. StageNext(d) => Stage(d)
    BY StageNextKeepsTypes
  <2>2. ~Stage(d)
    BY <1>2 DEF Stage, committed
  <2>3. ~(RecognizeRepeat(d) \/ Reject(d))
    BY <1>2 DEF RecognizeRepeat, Reject, DropBatch, committed
  <2> QED BY <2>1, <2>2, <2>3
<1>4. ~(Commit \/ Finish \/ UNCHANGED vars)
  BY <1>2 DEF Commit, Finish, DropBatch, vars, committed, batch
<1> QED BY <1>3, <1>4 DEF Next

(* What an annotation, which links nothing, leaves as it was.               *)
LEMMA AnnotationApplied ==
  ASSUME LedgerInv, ApplyNext,
         records'[Len(records) + 1].draft.type = "SessionAnnotation",
         NEW x \in Entity, x # records'[Len(records) + 1].draft.body.id
  PROVE  view'[x] = view[x]
<1>1. PICK s : s = staged[1]
  OBVIOUS
<1>2. /\ Apply(s) /\ EntityFitsKey(s)
      /\ records'[Len(records) + 1] = StagedRecord(s)
  BY <1>1, NextEntry DEF LedgerInv
<1>3. s.draft.type = "SessionAnnotation" /\ s.key = s.draft.body.id
      /\ x # s.key
  BY <1>2 DEF EntityFitsKey, StagedRecord
<1>4. LinkTargets(s) = {}
  BY <1>3 DEF LinkTargets
<1> QED BY <1>2, <1>3, <1>4 DEF Apply, AppliedView

LEMMA BodyIdentified ==
  ASSUME NEW d \in Drafts, d.type # "AccountingRecorded"
  PROVE  d.body.id \in Entity
<1>1. PICK t, k : t = d.type /\ k = d.body.id
  OBVIOUS
<1>2. t \in RecordType
  BY <1>1, DraftHeader
<1>3. k \in Session \cup Hypothesis \cup Experiment \cup Branch \cup Attempt
             \cup ModelCall \cup ToolCall \cup Artifact \cup Metric
             \cup Observation \cup Failure \cup Decision \cup Result
  BY <1>1, <1>2, BodyKinds DEF RecordType, SessionRecord, TerminalType,
     TerminalState
<1> QED BY <1>1, <1>3 DEF Entity, Subject

(* A record other than an annotation is seen: in the accounting, or in what *)
(* it is about.                                                             *)
LEMMA RecordSeen ==
  ASSUME DigestedInv, DigestedInv', Agree(records', records, Len(records)),
         Len(records') = Len(records) + 1,
         records'[Len(records')].draft.type # "SessionAnnotation"
  PROVE  LogicalDigest(Now, Len(records))' # LogicalDigest(Now, Len(records))
<1>1. PICK n, h, g, v, w : /\ n = Len(records) /\ h = records /\ g = records'
                           /\ v = view /\ w = view'
  OBVIOUS
<1>2. /\ n \in Nat /\ Agree(g, h, n) /\ Len(g) = n + 1
      /\ DOMAIN h = 1 .. n /\ DOMAIN g = 1 .. n + 1
      /\ Follows(g, n + 1) /\ Builds(g, n + 1) /\ g[n + 1].draft \in Drafts
      /\ g[n + 1].draft.type # "SessionAnnotation"
  BY <1>1 DEF DigestedInv
<1>3. \A x \in Entity : /\ Shows(h, n, x, v[x]) /\ Depicts(h, n, x, v[x])
                        /\ Shows(g, n + 1, x, w[x])
                        /\ Depicts(g, n + 1, x, w[x])
  BY <1>1 DEF DigestedInv
<1>4. PICK S, T, A, B :
        /\ S = There(Entity) /\ T = There(Entity)'
        /\ A = Types({ "AccountingRecorded" })
        /\ B = Types({ "AccountingRecorded" })'
  OBVIOUS
<1>5. /\ LogicalDigest(Now, Len(records)) = DigestOf(S, v, A)
      /\ LogicalDigest(Now, Len(records))' = DigestOf(T, w, B)
  BY <1>1, <1>4 DEF DigestedInv
<1>6. CASE g[n + 1].draft.type = "AccountingRecorded"
  <2>1. n + 1 \in B
    BY <1>1, <1>2, <1>4, <1>6 DEF Types
  <2>2. n + 1 \notin A
    BY <1>1, <1>2, <1>4 DEF Types
  <2> QED BY <1>5, <2>1, <2>2, SameDigest
<1>7. CASE g[n + 1].draft.type # "AccountingRecorded"
  <2>1. PICK k : k = g[n + 1].draft.body.id
    OBVIOUS
  <2>2. About(g, n + 1, k)
    BY <1>7, <2>1 DEF About
  <2>3. k \in Entity
    BY <1>2, <1>7, <2>1, BodyIdentified
  <2>4. Told(k, v[k], w[k])
    BY <1>2, <1>3, <2>2, <2>3, RecordTold
  <2>5. k \in T /\ (k \in S => v[k] # None)
    BY <1>1, <1>4, <2>3, <2>4 DEF Told, There
  <2> QED BY <1>5, <2>4, <2>5, SameDigest DEF Told
<1> QED BY <1>6, <1>7

LEMMA AnnotationUnseen ==
  ASSUME LedgerInv, DigestedInv, DigestedInv', ApplyNext,
         Agree(records', records, Len(records)),
         Len(records') = Len(records) + 1,
         records'[Len(records')].draft.type = "SessionAnnotation"
  PROVE  LogicalDigest(Now, Len(records))' = LogicalDigest(Now, Len(records))
<1>1. PICK n, h, g, v, w : /\ n = Len(records) /\ h = records /\ g = records'
                           /\ v = view /\ w = view'
  OBVIOUS
<1>2. /\ n \in Nat /\ Agree(g, h, n) /\ Len(g) = n + 1
      /\ DOMAIN h = 1 .. n /\ DOMAIN g = 1 .. n + 1
      /\ Follows(g, n + 1) /\ g[n + 1].draft \in Drafts
      /\ g[n + 1].draft.type = "SessionAnnotation"
  BY <1>1 DEF DigestedInv
<1>3. \A x \in Entity : /\ Shows(h, n, x, v[x]) /\ Shows(g, n + 1, x, w[x])
                        /\ v[x] # None => ViewOf(x, v[x])
                        /\ w[x] # None => ViewOf(x, w[x])
  BY <1>1 DEF DigestedInv
<1>4. PICK S, T, A, B :
        /\ S = There(Entity) /\ T = There(Entity)'
        /\ A = Types({ "AccountingRecorded" })
        /\ B = Types({ "AccountingRecorded" })'
  OBVIOUS
<1>5. /\ LogicalDigest(Now, Len(records)) = DigestOf(S, v, A)
      /\ LogicalDigest(Now, Len(records))' = DigestOf(T, w, B)
  BY <1>1, <1>4 DEF DigestedInv
<1>6. PICK k : k = g[n + 1].draft.body.id
  OBVIOUS
<1>7. k \in Session /\ k \in Entity
  <2>1. g[n + 1].draft.body \in SessionBody
    BY <1>2, DraftBodies
  <2> QED BY <1>6, <2>1 DEF SessionBody, Entity, Subject
<1>8. v[k] # None /\ w[k] # None /\ w[k].state = v[k].state
  <2>1. /\ v[k] # None => v[k].state \in SessionState
        /\ w[k] # None => w[k].state \in SessionState
    BY <1>3, <1>7 DEF ViewOf, SessionView
  <2>2. TypedAbout(g, n + 1, { "SessionAnnotation" }, k)
    BY <1>2, <1>6 DEF TypedAbout
  <2> QED BY <1>2, <1>3, <1>7, <2>1, <2>2, AnnotationUntold
<1>9. \A x \in Entity : x # k => w[x] = v[x]
  BY <1>1, <1>2, <1>6, AnnotationApplied
<1>10. S = T
  BY <1>1, <1>4, <1>8, <1>9 DEF There
<1>11. A = B
  <2>1. \A i \in 1 .. n : g[i] = h[i]
    BY <1>2 DEF Agree
  <2> QED BY <1>1, <1>2, <1>4, <2>1 DEF Types
<1>12. ASSUME NEW x \in S, NEW f \in RenderedFields(x)
       PROVE  v[x][f] = w[x][f]
  <2>1. x \in Entity
    BY <1>4 DEF There
  <2>2. x = k => f = "state"
    BY <1>7, <1>12, IdentityDomains DEF RenderedFields
  <2> QED BY <1>8, <1>9, <2>1, <2>2
<1> QED BY <1>5, <1>10, <1>11, <1>12, SameDigest

(* The logical digest changes with every record but an annotation           *)
(* (logical_digest over the entities' rendered state and the accounting):   *)
(* no end, closure, change or reference is applied without being seen.      *)
THEOREM DigestTellsRecords == QuerySpec => DigestSeesEveryChange
<1>1. ASSUME LedgerInv, LedgerInv', [QueryNext]_queryVars,
             Len(records') = Len(records) + 1
      PROVE  LogicalDigest(Now, Len(records))' = LogicalDigest(Now, Len(records))
               <=> records'[Len(records')].draft.type = "SessionAnnotation"
  <2>1. [Next]_vars
    BY <1>1 DEF QueryNext, queryVars, Appending, TakeSnapshot
  <2>2. ApplyNext
    BY <1>1, <2>1, LongerByOne DEF LedgerInv
  <2>3. DigestedInv /\ DigestedInv'
    BY <1>1, LedgerIsDigested, LedgerStaysDigested
  <2>4. Agree(records', records, Len(records))
    BY <1>1, <2>2, NextEntry DEF LedgerInv, Agree
  <2>5. records'[Len(records')].draft.type # "SessionAnnotation" =>
          LogicalDigest(Now, Len(records))' # LogicalDigest(Now, Len(records))
    BY <1>1, <2>3, <2>4, RecordSeen
  <2>6. records'[Len(records')].draft.type = "SessionAnnotation" =>
          LogicalDigest(Now, Len(records))' = LogicalDigest(Now, Len(records))
    BY <1>1, <2>2, <2>3, <2>4, AnnotationUnseen
  <2> QED BY <2>5, <2>6
<1>2. LedgerInv /\ LedgerInv' /\ [QueryNext]_queryVars =>
        [ Len(records') = Len(records) + 1 =>
            (LogicalDigest(Now, Len(records))' = LogicalDigest(Now, Len(records))
               <=> records'[Len(records')].draft.type = "SessionAnnotation")
        ]_queryVars
  BY <1>1
<1> QED BY <1>2, QueriedLedger, PTL DEF QuerySpec, DigestSeesEveryChange

=============================================================================

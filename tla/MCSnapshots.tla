---------------------------- MODULE MCSnapshots -----------------------------
(***************************************************************************)
(* Three stories of one session, with a snapshot taken at some point.  In   *)
(* the first a result is decided, reclassified and decided again.  In the   *)
(* others a result rests on an experiment and is accepted or not while, in  *)
(* the second, the attempts go on, fail or complete and, in the third, the  *)
(* hypothesis is revised and the session closed.                            *)
(* Several drafts of a story cannot all be accepted: the first decision     *)
(* that asks for its turn wins, and the ledger must refuse the rest.        *)
(***************************************************************************)
EXTENDS LedgerEvidence

D == INSTANCE MCDrafts

ResultStory ==
  [ setup |-> << D!OpenSession("s1"), D!ReferTo("a1", "s1", 1, "s1", {}),
                 D!DeclareResult("r1", "s1", { "a1" }) >>,
    rest |->
      { D!Decide("accept", "s1", "r1", "Accept", "Accepted",
                 { D!Cite("a1", 2) }),
        D!Decide("reject", "s1", "r1", "Reject", "Rejected",
                 { D!Cite("r1", 3), D!Cite("a1", 2) }),
        D!Decide("again", "s1", "r1", "Reclassify", "Reclassified",
                 { D!Cite("r1", 5) }),
        D!Decide("again", "s1", "r1", "Reclassify", "Reclassified",
                 { D!Cite("r1", 6) }),
        D!Decide("other", "s1", "a1", "Accept", "Accepted", {}),
        D!ChangeResult("r1", 2, "Candidate", "Accepted", "accept"),
        D!ChangeResult("r1", 2, "Candidate", "Accepted", "other"),
        D!ChangeResult("r1", 2, "Candidate", "Rejected", "reject"),
        D!ChangeResult("r1", 3, "Rejected", "Accepted", "accept"),
        D!ChangeResult("r1", 3, "Rejected", "Candidate", "again"),
        D!ChangeResult("r1", 3, "Accepted", "Retracted", "accept"),
        D!ChangeResult("r1", 4, "Candidate", "Accepted", "accept"),
        D!InvalidateArtifact("a1", 1, None, "other"),
        [ D!OpenSession("s1") EXCEPT !.provenance = "Unknown" ] } ]

ExperimentSetup ==
  << D!OpenSession("s1"), D!Declare("h1", "s1", None, 0),
     D!DeclareBranch("b1", "s1", None),
     D!DeclareExperiment("e1", "s1", { "h1" }, "b1"),
     D!StartAttempt("t1", "e1", "b1"),
     D!DeclareResult("r1", "s1", { "e1", "h1" }) >>

Acceptance ==
  { D!Decide("accept", "s1", "r1", "Accept", "Accepted", { D!Cite("r1", 6) }),
    D!ChangeResult("r1", 2, "Candidate", "Accepted", "accept") }

ActivityStory ==
  [ setup |-> Append(ExperimentSetup, D!ModelCalled("m1", "t1", {})),
    rest |-> Acceptance \cup
      { D!StartAttempt("t2", "e1", "b1"),
        D!ReferTo("a1", "s1", 1, "t1", {}),
        D!ReferTo("a2", "s1", 1, "t1", {"a1"}),
        D!ReferTo("a1", "s1", 2, "t1", {}),
        D!Fail("f1", "t1", None, None),
        D!EndAttempt("AttemptCompleted", "t1", None),
        D!EndAttempt("AttemptFailed", "t1", "f1"),
        D!Account("m1") } ]

HypothesisStory ==
  [ setup |-> ExperimentSetup,
    rest |-> Acceptance \cup
      { D!Revise("h1", 2, "Proposed", "Active", None),
        D!Revise("h1", 3, "Active", "Supported", None),
        D!Declare("h2", "s1", "h1", 2),
        D!EndAttempt("AttemptCompleted", "t1", None),
        D!ChangeResult("r1", 3, "Accepted", "Retracted", "accept"),
        D!CloseSession("s1") } ]

Stories == { ResultStory, ActivityStory, HypothesisStory }

DraftsOf(story) ==
  { story.setup[i] : i \in DOMAIN story.setup } \cup story.rest

SnapshotDrafts == UNION { DraftsOf(story) : story \in Stories }

History == [ i \in 1 .. Len(records) + Len(staged) |->
               IF i <= Len(records) THEN records[i].draft
               ELSE staged[i - Len(records)].draft ]

(* The history begins with the setup of a story and stays within it. *)
InStory ==
  \E story \in Stories :
    \A i \in DOMAIN History :
      IF i \in DOMAIN story.setup THEN History[i] = story.setup[i]
      ELSE History[i] \in story.rest

(* A step that stages a record keeps to a story: the action constraint.     *)
KeepsToAStory == Len(staged') > Len(staged) => InStory'
=============================================================================

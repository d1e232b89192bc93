----------------------------- MODULE MCAttempts -----------------------------
(***************************************************************************)
(* Two stories.  In the first, one attempt from its session down to its     *)
(* calls, the three ways it can end, closure of its session, and a second   *)
(* session that other entities must not reach into.  In the second, a       *)
(* result and the artifact it rests on, decisions about both, and closure.  *)
(***************************************************************************)
EXTENDS LedgerSafety

CONSTANTS id1, id2

D == INSTANCE MCDrafts

AttemptDrafts ==
  { D!OpenSession("s1"), D!OpenSession("s2"),
    D!Declare("h1", "s1", None, 0),
    D!Declare("h2", "s2", "h1", 1),
    D!DeclareBranch("b1", "s1", None),
    D!DeclareExperiment("e1", "s1", { "h1" }, "b1"),
    D!StartAttempt("a1", "e1", "b1"),
    D!Fail("f1", "a1", None, "a1"),
    D!EndAttempt("AttemptCompleted", "a1", None),
    D!EndAttempt("AttemptFailed", "a1", "f1"),
    D!EndAttempt("AttemptCancelled", "a1", None),
    D!ModelCalled("m1", "a1", {}),
    D!ToolCalled("t1", "a1"),
    D!DeclareMetric("k1", "s1", "loss"),
    D!Observe("o1", "a1", "k1"),
    [ D!Account("a1") EXCEPT !.record_id = id1 ],
    D!Revise("h1", 2, "Proposed", "Active", None),
    D!CloseSession("s1"),
    [ D!Annotate("s1") EXCEPT !.record_id = id2, !.idempotent = TRUE ] }

ResultDrafts ==
  { D!OpenSession("s1"),
    D!ReferTo("p1", "s1", 1, "s1", {}),
    D!DeclareResult("r1", "s1", { "p1" }),
    D!Decide("accept", "s1", "r1", "Accept", "Accepted", { D!Cite("p1", 2) }),
    D!ChangeResult("r1", 2, "Candidate", "Accepted", "accept"),
    D!ChangeResult("r1", 3, "Accepted", "Retracted", "accept"),
    D!Decide("withdraw", "s1", "p1", "Reject", "Rejected", {}),
    D!InvalidateArtifact("p1", 1, None, "withdraw"),
    D!CloseSession("s1") }

AllDrafts == AttemptDrafts \cup ResultDrafts

Held == { records[i].draft : i \in DOMAIN records }
          \cup { staged[i].draft : i \in DOMAIN staged }

(* A step that stages a record keeps to a story: the action constraint.     *)
KeepsToAStory ==
  Len(staged') > Len(staged) =>
    Held' \subseteq AttemptDrafts \/ Held' \subseteq ResultDrafts
=============================================================================

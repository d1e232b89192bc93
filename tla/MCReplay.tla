------------------------------ MODULE MCReplay ------------------------------
(***************************************************************************)
(* A ledger that is restarted at any point between batches.  The drafts     *)
(* revise one hypothesis and one artifact twice in a batch or across        *)
(* batches, concern one subject through entities of several kinds, repeat   *)
(* record identities, and retry after a restart.                            *)
(***************************************************************************)
EXTENDS LedgerReplay

CONSTANTS id1, id2

D == INSTANCE MCDrafts

WithId(d, id, idempotent) ==
  [ d EXCEPT !.record_id = id, !.idempotent = idempotent ]

ReplayDrafts ==
  { WithId(D!OpenSession("s1"), id1, TRUE),
    WithId(D!Annotate("s1"), id2, TRUE),
    WithId(D!CloseSession("s1"), id2, FALSE),
    D!Declare("h1", "s1", None, 0),
    D!Declare("h2", "s1", "h1", 2),
    D!Revise("h1", 2, "Proposed", "Active", "d1"),
    D!Revise("h1", 3, "Active", "Supported", None),
    D!Decide("d1", "s1", "h1", "HypothesisTransition", "Recorded", {}),
    D!ReferTo("a1", "s1", 1, "s1", {}),
    D!ReferTo("a1", "s1", 2, "a1", {}),
    D!ReferTo("a2", "s1", 1, "a1", { "a1" }),
    D!InvalidateArtifact("a1", 1, "f1", None),
    D!Fail("f1", "a1", None, None) }

(* One batch references an artifact in two sessions and decides about it    *)
(* in the first: it commits, and restoring it fails (ArtifactsKeepSession). *)
MovedDrafts ==
  { D!OpenSession("s1"), D!OpenSession("s2"),
    D!ReferTo("a1", "s1", 1, "s1", {}),
    D!ReferTo("a1", "s2", 2, "s2", {}),
    D!Decide("d1", "s1", "a1", "HypothesisTransition", "Recorded", {}) }
=============================================================================

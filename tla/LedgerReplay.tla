---------------------------- MODULE LedgerReplay ----------------------------
(***************************************************************************)
(* Restarting from committed history: Ledger::save keeps the records and    *)
(* nothing else, and Ledger::restore (src/replay.cpp) rebuilds every index  *)
(* by sending each record through the validation used at commit time, alone *)
(* in its batch, and applying it.  The process may be restarted whenever no *)
(* batch holds the lock; it then goes on appending to what it rebuilt.      *)
(*                                                                          *)
(* Records reach restore sorted by sequence and their digests were computed *)
(* from these very records, so the sequence, generation and digest checks   *)
(* pass; the identity check and the revalidation are what can fail.         *)
(***************************************************************************)
EXTENDS LedgerSafety

VARIABLES
  mode,   \* "running" | "restoring" | "failed"
  image,  \* the records that were saved
  before  \* the indexes when they were saved, to compare with

replayVars == << vars, mode, image, before >>

Indexes ==
  [ view |-> view, subject_index |-> subject_index, children |-> children,
    invalidated_at |-> invalidated_at ]

ReplayInit ==
  /\ Init
  /\ mode = "running"
  /\ image = << >>
  /\ before = Indexes

Appending == mode = "running" /\ Next /\ UNCHANGED << mode, image, before >>

(* Save, lose the process, and create an empty ledger to restore into. *)
Restart ==
  /\ mode = "running"
  /\ phase = "validating"
  /\ outcomes = << >>
  /\ mode' = "restoring"
  /\ image' = records
  /\ before' = Indexes
  /\ records' = << >>
  /\ view' = [ x \in Entity |-> None ]
  /\ subject_index' = [ x \in Subject |-> None ]
  /\ children' = [ x \in Entity |-> {} ]
  /\ invalidated_at' = [ a \in Artifact |-> 0 ]
  /\ UNCHANGED << batch, phase >>

NextRecord == image[Len(records) + 1]

RestoreAccepts(r) ==
  /\ \A i \in DOMAIN records : records[i].record_id # r.record_id
  /\ Validates(r.draft)

(* One turn of the loop of restore.  A record that is not accepted makes    *)
(* restore return its status, and the process has no ledger.                *)
RestoreNext ==
  /\ mode = "restoring"
  /\ Len(records) < Len(image)
  /\ IF RestoreAccepts(NextRecord)
       THEN /\ Apply(StagedEntity(NextRecord.draft, NextRecord.record_id))
            /\ UNCHANGED << batch, phase, mode >>
       ELSE /\ mode' = "failed"
            /\ UNCHANGED vars
  /\ UNCHANGED << image, before >>

Restored == mode = "restoring" /\ Len(records) = Len(image)

RestoreDone ==
  /\ Restored
  /\ mode' = "running"
  /\ image' = << >>
  /\ before' = Indexes
  /\ UNCHANGED vars

ReplayNext ==
  \/ Appending
  \/ Restart
  \/ RestoreNext
  \/ RestoreDone

ReplaySpec == ReplayInit /\ [][ReplayNext]_replayVars

-----------------------------------------------------------------------------
(* Callers never refer to one artifact from two sessions.  The code does    *)
(* not check it, and restoring needs it: a record that was validated while  *)
(* the artifact was in the first session may need it there when it is       *)
(* validated again.                                                         *)
ArtifactsKeepSession ==
  \A d, e \in Drafts :
    d.type = "ArtifactReferenced" /\ e.type = "ArtifactReferenced"
      /\ d.body.id = e.body.id => d.body.session = e.body.session

-----------------------------------------------------------------------------
(* Whatever was committed restores: a record validated beside others of its *)
(* batch passes again when it is validated alone.                           *)
RestoreNeverRejects == mode # "failed"

WithoutLinks(v) ==
  IF v = None THEN None ELSE [ f \in DOMAIN v \ { "links" } |-> v[f] ]

(* Restoring gives back the records, with the subjects and sessions they    *)
(* were committed under, every view (life-cycle state, generation,          *)
(* decisions), the subject index and the lineage lists.  Only the reverse   *)
(* links kept inside the views are left out of this comparison.             *)
RestoreRebuildsState ==
  Restored =>
    /\ records = image
    /\ subject_index = before.subject_index
    /\ children = before.children
    /\ invalidated_at = before.invalidated_at
    /\ \A x \in Entity :
         WithoutLinks(view[x]) = WithoutLinks(before.view[x])

(* Restoring gives back the same indexes, links included: the same history  *)
(* answers a query the same way before and after a restart.                 *)
RestoreRebuildsIndexes == Restored => Indexes = before
-----------------------------------------------------------------------------
(* The ledger still implements the append-only history when it may be       *)
(* restarted between any two batches: saving and restoring change nothing   *)
(* a caller can tell, and a retry after a restart is still recognized.      *)
PromisedAcrossRestarts ==
  INSTANCE AppendOnlyHistory WITH
    Supplied <- RecordId,
    history <- IF mode = "running" THEN LogicalHistory ELSE image,
    reply <- IF phase = "applying" THEN outcomes ELSE << >>

HistorySurvivesRestarts == PromisedAcrossRestarts!Spec
=============================================================================

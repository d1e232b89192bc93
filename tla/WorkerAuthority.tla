-------------------------- MODULE WorkerAuthority ---------------------------
(***************************************************************************)
(* Who may append to a ledger (src/ledger.cpp): the coordinator epoch, the  *)
(* table of worker incarnations, the ledger's own local authority, and the  *)
(* authority each committed record was appended under.  Every operation     *)
(* takes the ledger's lock for its whole length and is one action.          *)
(*                                                                          *)
(* A record is its identity and its author: what validation says of a       *)
(* draft is the subject of LedgerCommit.  A minted boot identity is         *)
(* (epoch << 32) | counter, two 32-bit halves, written as a pair.           *)
(***************************************************************************)
EXTENDS Naturals, Sequences, FiniteSets

CONSTANTS
  Worker,             \* worker identities, the local one included
  LocalWorker,        \* LedgerConfig::local_worker
  RecordId,           \* record identities of the drafts callers send
  None,
  RequireAdmission,   \* LedgerConfig::require_worker_admission
  MaxRecords          \* Limits::max_records

VARIABLES
  epoch,     \* the current coordinator epoch
  workers,   \* worker -> its WorkerAuthorityView, or None
  local,     \* local_authority
  history    \* committed records

authorityVars == << epoch, workers, local, history >>

ASSUME LocalAssumption == LocalWorker \in Worker

LocalBoot == << 0, 1 >>

Boot == { LocalBoot } \cup ((Nat \ { 0 }) \X (Nat \ { 0 }))

Authority == [ epoch : Nat \ { 0 }, worker : Worker, boot : Boot ]

WorkerView ==
  [ boot : Boot, epoch : Nat \ { 0 }, live : BOOLEAN,
    committed_records : Nat ]

HistoryRecord == [ id : RecordId, author : Authority ]

(* An absent view or authority is none. *)
ASSUME NoneAssumption == None \notin WorkerView \cup Authority

Admitted(boot, n) ==
  [ boot |-> boot, epoch |-> epoch, live |-> TRUE, committed_records |-> n ]

CommittedRecords(w) ==
  IF workers[w] = None THEN 0 ELSE workers[w].committed_records

(* worker_is_live *)
IsCurrent(w, boot) ==
  /\ workers[w] # None
  /\ workers[w].boot = boot
  /\ workers[w].live
  /\ workers[w].epoch = epoch

-----------------------------------------------------------------------------
(* Admission.  The caller chooses the boot identity of admit_worker, the    *)
(* ledger mints the one of admit_worker_incarnation, unless the worker      *)
(* still holds a current one.                                               *)
AdmitWorker(w, boot) ==
  /\ workers' = IF IsCurrent(w, boot) THEN workers
                ELSE [ workers EXCEPT ![w] =
                         Admitted(boot, CommittedRecords(w)) ]
  /\ local' = IF w = local.worker /\ ~IsCurrent(w, boot)
                THEN [ epoch |-> epoch, worker |-> w, boot |-> boot ]
                ELSE local
  /\ UNCHANGED << epoch, history >>

(* (Mutant of the minted identity: the counter alone.) *)
BootOfCounter(counter) == << 1, counter >>

MintedBoot(counter) == << epoch, counter >>

AdmittedBoot(w, previous, counter) ==
  IF IsCurrent(w, previous) THEN previous ELSE MintedBoot(counter)

(* What a new incarnation inherits.  (Mutant: it starts counting anew.)     *)
NoInheritance(w) == 0

InheritedRecords(w) == CommittedRecords(w)

AdmitIncarnation(w, previous, counter) ==
  /\ workers' = IF IsCurrent(w, previous) THEN workers
                ELSE [ workers EXCEPT ![w] =
                         Admitted(MintedBoot(counter), InheritedRecords(w)) ]
  /\ UNCHANGED << epoch, local, history >>

-----------------------------------------------------------------------------
(* Fencing and epochs *)
FenceWorker(w) ==
  /\ workers[w] # None
  /\ workers' = [ workers EXCEPT ![w].live = FALSE ]
  /\ UNCHANGED << epoch, local, history >>

FenceWorkerBoot(w, boot) ==
  /\ workers' = IF workers[w] # None /\ workers[w].boot = boot
                  THEN [ workers EXCEPT ![w].live = FALSE ]
                  ELSE workers
  /\ UNCHANGED << epoch, local, history >>

Fenced(view) == IF view = None THEN None ELSE [ view EXCEPT !.live = FALSE ]

FenceAllWorkers ==
  /\ workers' = [ w \in Worker |-> Fenced(workers[w]) ]
  /\ UNCHANGED << epoch, local, history >>

(* A new epoch fences everybody but the process's own local authority.      *)
(* (Mutant: that authority stays at the old epoch.)                         *)
OldLocal == local

RenewedLocal == [ local EXCEPT !.epoch = epoch + 1 ]

AdvanceEpoch ==
  /\ epoch' = epoch + 1
  /\ local' = RenewedLocal
  /\ workers' =
       [ w \in Worker |->
           IF w = local.worker
             THEN [ boot |-> local.boot, epoch |-> epoch + 1, live |-> TRUE,
                    committed_records |-> CommittedRecords(w) ]
             ELSE Fenced(workers[w]) ]
  /\ UNCHANGED history

-----------------------------------------------------------------------------
(* The head of append_batch_with_authority, and the commit of a batch of    *)
(* one draft.  (Mutant: an incarnation that was replaced still appends.)    *)
AuthorizesWorker(a) ==
  /\ a.epoch = epoch
  /\ RequireAdmission => workers[a.worker] # None /\ workers[a.worker].live

Authorizes(a) ==
  /\ a.epoch = epoch
  /\ RequireAdmission => IsCurrent(a.worker, a.boot)

Known(id) == \E i \in DOMAIN history : history[i].id = id

CommitRecord(a, id) ==
  /\ history' = Append(history, [ id |-> id, author |-> a ])
  /\ workers' = IF workers[a.worker] = None THEN workers
                ELSE [ workers EXCEPT ![a.worker].committed_records = @ + 1 ]
  /\ UNCHANGED << epoch, local >>

-----------------------------------------------------------------------------
(* Ledger::create, and the authority Ledger::restore rebuilds from records  *)
(* h saved under epoch e: everybody who appended is remembered and nobody   *)
(* of them is live.                                                         *)
LocalAt(e) == [ epoch |-> e, worker |-> LocalWorker, boot |-> LocalBoot ]

LocalView(e) ==
  [ boot |-> LocalBoot, epoch |-> e, live |-> TRUE, committed_records |-> 0 ]

Create ==
  /\ epoch' = 1
  /\ local' = LocalAt(1)
  /\ workers' = [ w \in Worker |->
                    IF w = LocalWorker THEN LocalView(1) ELSE None ]
  /\ history' = << >>

AuthoredBy(w, h) == { i \in DOMAIN h : h[i].author.worker = w }

Historical(w, h) ==
  LET last == CHOOSE i \in AuthoredBy(w, h) :
                \A j \in AuthoredBy(w, h) : j <= i IN
  [ boot |-> h[last].author.boot, epoch |-> h[last].author.epoch,
    live |-> FALSE, committed_records |-> Cardinality(AuthoredBy(w, h)) ]

Restore(h, e) ==
  /\ epoch' = e
  /\ local' = LocalAt(e)
  /\ history' = h
  /\ workers' =
       [ w \in Worker |->
           IF w = LocalWorker
                /\ (~RequireAdmission \/ AuthoredBy(w, h) = {})
             THEN LocalView(e)
             ELSE IF AuthoredBy(w, h) = {} THEN None
             ELSE Historical(w, h) ]

-----------------------------------------------------------------------------
(* The state has its types; the local authority is one of the current       *)
(* epoch, and no incarnation or record is of an epoch still to come         *)
(* (ledger.cpp).                                                            *)
AuthorityTypeOK ==
  /\ epoch \in Nat \ { 0 }
  /\ local \in Authority /\ local.epoch = epoch
  /\ DOMAIN workers = Worker
  /\ \A w \in Worker :
       workers[w] # None => workers[w] \in WorkerView /\ workers[w].epoch <= epoch
  /\ history \in Seq(HistoryRecord)
  /\ \A i \in DOMAIN history : history[i].author.epoch <= epoch

(* The count the ledger keeps for a worker is the number of records in its  *)
(* history that the worker authored, whichever incarnations they were       *)
(* appended under and however often the ledger was restored.                *)
CountsMatchHistory ==
  \A w \in Worker :
    workers[w] # None =>
      workers[w].committed_records = Cardinality(AuthoredBy(w, history))

(* The records of one worker fall into runs, one per identity the ledger    *)
(* minted: once another incarnation of the worker has appended, that one    *)
(* never does again.  The local boot is not minted: admit_worker takes it   *)
(* from its caller, as often as it likes.                                   *)
IncarnationsNeverInterleave ==
  \A i, j, k \in DOMAIN history :
    /\ i < j /\ j < k
    /\ history[i].author.worker = history[j].author.worker
    /\ history[i].author = history[k].author
    /\ history[i].author.boot # LocalBoot
    => history[j].author = history[i].author
=============================================================================

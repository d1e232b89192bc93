# Research Ledger: TLA+ specifications and proofs

This directory specifies the research ledger in TLA+, model-checks the
specifications with TLC, and proves theorems about them with TLAPS.  Paths are
relative to the repository; `ledger_validate.cpp` and the like live in its
`src/` directory, the public headers in `include/research_ledger/`.

## 1. The system

| Component | Code | State it keeps | Operations |
|---|---|---|---|
| Commit path | `ledger.cpp`, `ledger_validate.cpp`, `ledger_commit.cpp`, `ledger_commit.hpp`, `ledger_state.hpp` | the committed records, one index per entity kind, `subject_index`, reverse lists, the chain digest; during a batch the `BatchStaging` | `append`, `append_batch`, `append_batch_with_authority` |
| Research model | `model.cpp`, `model.hpp`, `record.hpp` | none | the transition and consistency tables |
| Worker authority | `ledger.cpp` | `workers` (boot, epoch, live, counts), `epoch`, boot counter | `admit_worker`, `admit_worker_incarnation`, `fence_worker`, `fence_worker_boot`, `fence_all_workers`, `advance_epoch` |
| Replay and restore | `replay.cpp` | rebuilds all of the above from records | `Ledger::restore`, `save`, `load` |
| Persistence | `persistence.cpp` | the snapshot file, a temporary file per process | serialize, check, write the temporary and rename; load |
| Snapshots and queries | `ledger_query.cpp` | a watermark and the chain digest it was taken at | every read of the public interface |
| Aggregation | `ledger_aggregate.cpp`, `quantity.cpp` | none (reads the ledger) | accounting totals by scope |
| Reconstruction | `reconstruction.cpp` | none (reads the ledger) | `verify`, `explain_*`, `logical_digest` |
| Coordinator, worker client | `cluster.cpp`, `apps/coordinator_main.cpp`, `apps/worker_main.cpp` | connections, boot and correlation counters, the ledger | handshake, append, status, shutdown; restart from the saved file |
| Wire protocol | `protocol.cpp` | none | frames, `check_frame_authority` |
| Codecs, digests, identities | `codec.cpp`, `record_codec.cpp`, `digest.cpp`, `identity.cpp`, `error.cpp` | none | byte formats |
| Sockets, processes, CLI | `net.cpp`, `process.cpp`, `apps/` | operating-system handles | input and output |

**How they interact.**  Everything goes through one `LedgerState` behind a
`shared_mutex`.  An append holds it exclusively from its first check to its
last index update; queries and snapshots take it shared; `save` copies the
records under it and writes the file after releasing it.  The coordinator runs
one thread per connection, each of which calls into the ledger and replies to
its worker; it persists after a reply, and at start loads the file and advances
the epoch.  A worker that loses its connection reconnects, is given a new boot,
and sends again whatever it has no reply for, with the same record identities
and the idempotent flag.

**What is hard.**
- Validation of a draft reads the committed indexes *and* the entries already
  staged beside it, through lookups that disagree on which entry they prefer
  (`find_as` the newest, `locate_subject` the oldest, `check_evidence` none).
- A staged view is a copy made when its draft is validated; it is written back
  when earlier entries of the batch have changed the slot in the meantime.
- "Nothing below can fail": applying skips a missing target silently, so
  everything depends on validation.
- Restoring puts every record through validation alone, although it was
  accepted in company.
- Retries of committed or staged identities, before and after a restart.
- Threads of two connections of one worker, replies sent before the file is
  written, and a restart between the two.
- Snapshots that copy nothing: they read current views under an old watermark.
- Totals in which unknown, overflow and currencies meet, in the order of the
  contributions.
- Threads and processes that save to one path, and die while they do; what the
  decoder refuses although the ledger has committed it.

**What makes each part correct.**
- *Commit path*: a batch is history as a whole or not at all; references point
  back inside a session; terminal states exclude each other; closed sessions
  and cancelled attempts stay as they are; evidence precedes decisions; changes
  of status are authorized and chained; record identities are unique.
- *Replay*: what was committed is accepted again and rebuilds the same state.
- *Worker authority*: no record is committed under a superseded incarnation or
  epoch; nobody becomes live again without a handshake.
- *Coordinator*: what a worker appended reaches the file before its handler
  takes the next request; the file never goes back; incarnations are never
  reused; a shutdown request ends the process.
- *Snapshots*: a snapshot's answers do not change, and show nothing later than
  its watermark.
- *Aggregation*: unknown never becomes zero; a total is exact or fails; a record
  is counted once.
- *Reconstruction*: `verify` accepts every history the ledger commits; every
  result can be explained; the logical digest misses no change.
- *Persistence*: the file at the path always loads, and holds what was saved; a
  process never puts an older state over its own newer one.
- *Codecs*: what the writer of a record type wrote, its reader gives back.

The hazards, at their lines, are listed in `PROJECT.json`.

## 2. Modules

| Module | Models | Extends |
|---|---|---|
| `ResearchModel` | record types, life-cycle states, the four tables of `model.cpp` | - |
| `LedgerState` | identity domains, payloads (`Draft`), views, records, staged entries; constants and assumptions | `ResearchModel` |
| `LedgerValidate` | `build_staged_entity`: for each record type a guard `<Type>OK` and the view `<Type>Entity` | `LedgerState` |
| `LedgerCommit` | `append_batch_with_authority` and `apply_staged_entity` as a state machine | `LedgerValidate` |
| `LedgerSafety` | the type invariant and the properties of the commit path | `LedgerCommit` |
| `AppendOnlyHistory` | the abstract specification: a history that grows by whole batches and truthful replies | - |
| `LedgerReplay` | `save`, `load`, `restore` around the commit path | `LedgerSafety` |
| `LedgerCommitProofs` | theorems `TypeCorrect`, `EvidenceNeverLate`, `RecordIdsNeverRepeat`, and the refinement `LedgerKeepsPromise`; then the invariant `LifeInv` that joins views and records, and from it seven theorems about life cycles, references and revisions | `LedgerSafety`, `TLAPS` |
| `LedgerViews` | the invariant `PictureInv`: what the records make of every field of a view and of every list (`ViewsAreHistory`) | `LedgerCommitProofs` |
| `LedgerReplayProofs` | the invariant `ReplayInv`, and from it six theorems about restarts: what was committed restores, to the state it was saved from, and callers see one history | `LedgerViews`, `LedgerReplay` |
| `LedgerEvidenceProofs` | what queries answer: ten theorems from `ViewsAreHistory` | `LedgerViews`, `LedgerEvidence` |
| `WorkerAuthority` | the worker table, the epoch, the local authority, the authority check of an append, and what `create` and `restore` make of them | - |
| `Coordinator` | the coordinator process: `start`, `serve`, its handler threads, `persist`, `request_shutdown`, crash and restart | `WorkerAuthority` |
| `CoordinatorSafety` | the properties of the coordinator process | `Coordinator` |
| `CoordinatorProofs` | six theorems about the coordinator: types, authority, the file | `CoordinatorSafety`, `TLAPS` |
| `MCCoordinator` | instances of the coordinator | `CoordinatorSafety` |
| `LedgerQuery` | a snapshot beside the appending ledger, and the queries of `ledger_query.cpp` as operators of the live indexes and the watermark | `LedgerSafety` |
| `LedgerEvidence` | the queries that combine many indexes (accounting scopes, `verify`, `supporting_evidence`, the logical digest), and what the queries promise | `LedgerQuery` |
| `Accounting` | `accumulate` and `aggregate_accounting`, with machine arithmetic | - |
| `AccountingProofs` | five theorems about sums | `Accounting`, `TLAPS` |
| `RecordCodec` | the fields records are made of: how each is written, read and refused | - |
| `RecordLayouts` | the writer and the reader of the 22 record types and of the header | `RecordCodec` |
| `LedgerFile` | serialization and loading, `save_snapshot_file` step by step, coordinators and commands on one path; the codec is a parameter | - |
| `LedgerFileProofs` | theorems `LockFollowsSaver`, `FileAlwaysLoads`, `SavesReproduce`, `OwnSavesOnlyGrow`, `DecodableLedgersSave` | `LedgerFile`, `TLAPS` |
| `EncodedFile` | the file with the codec in it: which bodies are stated, and that a ledger of such bodies saves | `LedgerFile`, `RecordLayouts` |
| `RecordCodecProofs` | that every reader inverts its writer (`RecordsRoundTrip`) and refuses no stated record (`StatedRecordsAreRead`), and the file with that codec in it: `EncodedFilesReproduce`, `EncodedSavesOnlyGrow`, `StatedLedgersSave` | `LedgerFileProofs`, `EncodedFile` |
| `MCDrafts` | short forms of drafts for the model-checking modules | - |
| `MCAttempts`, `MCReplay`, `MCSnapshots` | instances for TLC: the drafts callers may submit | `LedgerSafety`, `LedgerReplay`, `LedgerEvidence` |
| `MCAccounting` | the vectors to be added up | `Accounting` |
| `MCStorage` | a coordinator, a command, and record bodies of every type; puts the codec into the file | `EncodedFile` |

### State

| Variable | Code |
|---|---|
| `records` | `LedgerState::records`, with the subject and session `apply_staged_entity` files each record under |
| `view` | all entity indexes (`sessions`, `hypotheses`, ... `results`, `metrics`) as one function, from the entity to its view or `None` |
| `subject_index` | the session of a subject's last record |
| `children` | the lists kept outside views (`session_hypotheses`, `hypothesis_children`, `artifact_children`, ...) |
| `invalidated_at` | `artifact_invalidated_at` |
| `staged`, `latest`, `front` | `BatchStaging`: its entries, what `find_as` returns, what `find` returns |
| `outcomes` | the vector of `AppendOutcome` being built |
| `phase` | which loop of `append_batch_with_authority` is running |
| `mode`, `image` | the process: running or restoring, and the saved records |
| `before` | history variable: the indexes at the moment of saving |
| `epoch`, `workers`, `local` | `LedgerState::epoch`, `workers`, `local_authority` |
| `history` | `LedgerState::records` of `WorkerAuthority`: identity and author only |
| `server`, `pc` | where the thread in `start` and `serve`, and each handler thread, is |
| `shutting`, `listening`, `listed` | `shutting_down`, the listener, `connections` |
| `sock`, `conn`, `request` | a connection: whether it is open, the handler's locals, the record being appended |
| `next_boot` | the atomic boot counter |
| `saving` | the copy of the ledger each thread holds inside `persist`; at most one, by `persist_mutex` |
| `disk` | the snapshot file |
| `owner` | the thread of the program that embeds the coordinator |
| `starts`, `issued`, `acked` | processes started, incarnations handed out, records acknowledged and not in the file since |
| `watermark`, `then` | the `LedgerSnapshot` somebody holds; history variable: the indexes when it was taken |
| `given`, `total`, `unknowns`, `status` | the loop of `aggregate_accounting`: the contributions it has reached, `AccountingAggregate`, what it returns |
| `exact` | history variable: the sums of what was known, without a width |
| `path`, `temp` | the files: at the state path, and `<path>.tmp<pid>` of each process |
| `running`, `ledger`, `thread`, `mutex` | each process: its records, where its threads are in a save and which image they hold, `persist_mutex` |
| `saved` | history variable: who wrote the file at the path, and of which records |

### Actions

`Stage<Type>` (20 of them; the three records that end an attempt share one, as
they share their code) is one turn of the validating loop: the guard of its
type, then `Stage`.  `RecognizeRepeat` is the turn that finds an idempotent
draft's identity committed or staged.  `Reject` is every early return: the
limits, missing provenance, a duplicate that is not idempotent, a draft that
does not validate.  `Commit` leaves the validating loop, `ApplyNext` is one
turn of the applying loop, `Finish` returns the outcomes.  `Restart` is `save`
and the end of the process, `RestoreNext` one turn of the loop of `restore`,
`RestoreDone` its return.

A batch holds the unique lock, so nothing of the ledger interleaves with it; it
is spread over steps because the order *inside* it is what can go wrong, and
because the properties are thereby stated over half-staged and half-applied
batches as well.  The drafts of a batch are picked as they are validated:
every sequence of drafts is tried.  The two limits are tested draft by draft,
which rejects the same batches as testing the size in advance.

In `Coordinator` a step is what a thread does between two points where another
may be seen to interfere: one operation of the ledger, one access to
`next_boot` or to the list of connections, one send, the copy and the write of
`persist`.  A frame is modelled from the moment its handler reads it, and a
worker goes away where its handler reads or writes the connection: earlier
moments cannot be told apart.  `Accept` and `List` are two steps because a
shutdown request may fall between `accept()` and the insertion into the list.
`Crash` also stands for the regular exit of the process.

A query holds the lock from beginning to end, so it is not a step but an
operator, evaluated wherever the lock is free (`Queryable`).  The properties
compare what it answers now with what it answered when the snapshot was taken,
or with what history, read from the records alone, says.

`Accounting` does not know its contributions beforehand: each turn of the loop
picks the next one (`First`, `Further`, `Fails`), so every order of every choice
of contributions is a behaviour.

In `LedgerFile` a save is the steps of `save_snapshot_file`: `BeginSave` takes
the mutex and copies the records, `Check` decodes the image, then `Open`,
`WriteSome`, `WriteRest`, `Rename`, each of which may fail (`CannotOpen`,
`CannotReplace`).  `End` is the end of a process, regular or not, at any of these
points; its temporary file stays.

### Abstractions

- Checks that read nothing but the draft (text lengths, empty lists, zero
  identities, enumerations, "a root branch has no parent") are one Boolean,
  `wellformed`.  Payload fields no later decision depends on are left out.
- A view's reverse counters and lists are its `links`, the set of entities they
  count or list.  A slot that is overwritten loses links just as the code loses
  counts.
- A record identity derived by `derive_record_id` is the record's sequence:
  the digest covers the sequence, and is taken to be free of collisions.
  Supplied identities are taken to differ from derived ones.
- Payload and chain digests are left out: the records that are restored are
  those that were saved, so the comparisons succeed.
- Identity domains are disjoint sets (assumption `IdentityDomains`), which is
  what the strong types of `identity.hpp` give.
- The two halves of the system are not composed: `LedgerCommit` has drafts and
  no authority, `WorkerAuthority` has authority and, of a record, its identity
  and its author.  An append of the coordinator is a batch of one idempotent
  draft that validates.
- A boot identity `(epoch << 32) | counter` is the pair of its halves; neither
  comes near 2^32.
- In `Coordinator` the snapshot file is replaced as a whole or not at all, which
  is what `LedgerFile` shows (`PathLoads`, `LoadsAsSaved`).
- A list a query returns is the set of its members, and the limits on depths and
  numbers of nodes are not reached.
- An encoding is a sequence of tokens, one for each integer that is written;
  widths and byte order are left out.  The characters of a text are tokens, a
  digest is one token.  In `LedgerFile` a digest is the sequence it digests.
- The records of `LedgerFile` have the type, the fields, the sequence and the
  digests of the code's; the authority, time and provenance are constants.  A
  draft is a body that validation accepts; validation itself is `LedgerCommit`'s.
- The ledger's generation never changes and is left out.

## 3. Runs

| Run | Asks | Instance |
|---|---|---|
| `snapshots` | a snapshot taken at any point of three stories: a result decided, reclassified and decided again; an experiment whose attempts and result change; one whose hypothesis and result change | 30 drafts, batches of up to 2, up to 10 records |
| `attempts` | an attempt from its session to its calls, three ways to end, closure, a second session; or a result, its artifact and the decisions about both; refinement of `AppendOnlyHistory` | 26 drafts, batches of up to 2, up to 8 records |
| `replay` | restart between any two batches | 13 drafts, batches of up to 3, up to 6 records |
| `coordinator` | two connections of one worker, the ledger's own or another, the embedding program's appends and fences, a crash and restart at any point | 3 records, 2 connections, 2 processes, 2 epochs |
| `shutdown` | shutdown asked for by a worker or the embedding program while connections are accepted, greeted and saved | 1 record, 2 connections, 1 process |
| `accounting` | sums of contributions in every order | up to 4 contributions, 2 measures and money, units 0..3, amounts -2..1 |
| `storage` | saves of two threads and of two processes, with failing files and dying processes; a record of every type | 2 processes started, 2 records, 50 bodies |
| `acked_lost`, `shutdown_posix`, `replay_indexes`, `snapshot_later`, `unreadable` | a promise of the documentation the code does not keep (section 5) | as `coordinator`, `shutdown`, `replay`, `snapshots`, `storage` |

**What they show.**
- `EvidencePrecedesDecision`, `StatusChangesAuthorized`, `RevisionsFormAChain`:
  even when a decision, the record it cites and the change that rests on it
  share a batch.
- `TypeOK`, `ApplyCannotFail`: validation against a half-staged batch leaves
  nothing for the applying loop to trip over.
- `TerminalExclusive`, `ClosedSessionsStayClosed`,
  `CancelledAttemptsStayQuiet`, `ReferencesPointBack`: the life-cycle rules
  hold for records of one batch as for records of two.
- `KeepsItsPromise`: the commit path implements `AppendOnlyHistory`, with
  `history` being the records, plus the staged ones from `Commit` on, and
  `reply` the outcomes.
- `RestoreNeverRejects`, `RestoreRebuildsState`: a saved ledger loads, and
  loads the same state apart from `links`.
- `RecordIdsUnique`, `HistorySurvivesRestarts`: a retry is recognized in its
  own batch, in a later one and after a restart.
- `CountsMatchHistory`, `IncarnationsNeverInterleave`,
  `IncarnationsNeverReturn`: admission, fencing and restart leave the worker
  table in agreement with history; when a worker reconnects, a request of its
  old connection that has passed its frame check commits before the new
  incarnation is admitted or not at all; an identity that was given up is not
  handed out again by a later process.  The last two are about the identities
  the ledger mints; the local boot, which is none of them, does interleave and
  does return (section 5).  The last one is stated for writes of
  the file that succeed (`PersistMayFail = FALSE`): with a failing first save a
  coordinator killed again reuses its epoch, and the property fails.
- `WorkerRecordsReachTheFile`, `FileOnlyGrows`: copying and writing under
  `persist_mutex` never lets an older copy overwrite a newer one, and a handler
  is back at its connection only when the file holds what it appended.  Records
  of the local boot are left out, because they may be the embedding program's,
  which saves when it likes.
- `ShutdownCompletes`: no order of accepting, listing and stopping connections
  leaves a handler that nobody stops.
- `SnapshotAnswersStay`: the answers that rewind or filter (`session`,
  `experiment`, `attempt`, calls, observations, failures, decisions, records)
  are the same for ever.  Those that return views as they stand (`sessions`,
  `experiment_attempts`, `branch_attempts`, `results_in_session`, and the counts
  inside a view) are not among them.
- `NothingFromLater`: where `hypothesis` and `result` do change (section 5),
  they never show a status, generation or decision from beyond the watermark.
- `BranchesMatchHistory`, `TotalsMatchHistory`: what `branch` derives from
  attempts and results, and what `accounting` collects, is what the records say;
  nothing is counted twice or left out.  The first leaves out an older snapshot
  of a result that was accepted in it and has changed since, for which the code
  no longer knows the acceptance.
- `ResultsAreExplained`, `VerifyAcceptsHistory`: no committed history is broken
  lineage to the latest snapshot, and the only thing `verify` may report is an
  artifact that was referenced again after something was made from it.
- `WalksAgree`: parents kept in views and children kept in lists say the same.
- `DigestSeesEveryChange`: each record that is applied changes the logical
  digest of the state it leaves, except an annotation, which has no effect but
  itself.
- `TotalsAreExact`, `NeverStronger`, `CompleteMeansKnown`, `FailsForCause`: a
  total is the exact sum of figures that are all known, or unknown; its
  provenance is that of the weakest contribution or weaker; a sum fails only
  for amounts in two currencies, or because the contributions up to some point,
  in the order given, add up to a total that does not fit (a later one may bring
  it back: the same contributions may succeed in another order).
- `PathLoads`, `LoadsAsSaved`, `OwnSavesGrow`, `FileTypeOK`: two threads that
  save at once, a process that dies inside a save and a command that saves to
  the same path never leave a torn file, a file that does not decode, or a
  process's older state over its newer one; the mutex is never left behind.
  `LoadsAsSaved` compares the records field by field, so it is also the round
  trip of the codec for each record type.
- `StatedLedgerSaves`: the limits of writer and reader agree, for the smallest
  and the largest body of each type, when every enumerator is stated.

**Bounds.**  `MaxRecordsPerBatch` and `MaxRecords` are the code's own limits
with small values, and both are reached.  What goes wrong in this code goes
wrong between two drafts of a batch, or between a batch and one committed
before it.  Two drafts per batch show every pair; `replay` has three, where a
chain matters (declare, revise, revise again; reference, reference, cite).
`MaxRecords` lets each run reach the end of its story: a result is rejected,
reclassified and accepted again in 10 records of `snapshots`; in `attempts` 8
records reach an ended attempt with a call under it.  Symmetry is not used:
the drafts tell the identities apart.

`attempts` and `snapshots` follow stories: the action constraint `KeepsToAStory`
excludes a step that stages a draft of another one, so that drafts that have
nothing to do with each other are not interleaved.  In `snapshots` a history
begins with the setup of one of three (`InStory`), batched in any way, and goes on with its drafts in any order the
ledger accepts.  A decision that cites a record names its sequence, so a story
holds drafts that are right only in some orders.  The queries read single
entities and their direct relations; two hypotheses, two attempts and two
artifacts have every relation the queries follow (parent and child, producer,
sibling), and ten records let a hypothesis change twice and a result be accepted
and retracted around a snapshot.  Diamonds of artifacts need four of them and are
out of this instance.

In `accounting` what matters of a figure is whether it is known, whether adding
the next overflows, and its provenance: `MaxUnits` = 3 gives 0 and the largest,
`MaxMicro` = 1 the least and the largest amount.  Four contributions let an
unknown or a failure come before, between and after known ones.  The theorems
remove these bounds.

In `storage`, two processes and two threads are every pair; two records are a
file that grows.  The bodies that are not plain are appended by a command that
finds an empty file, so that a coordinator loads and saves them afterwards; more
than one record of an unusual type in one file would tell nothing new, since
records are length-prefixed and decoded alone.  The limits of texts and lists
are small numbers that differ from one another, so that a reader that uses
another limit than the writer is seen.  `MaxImage` is not reached.

The drafts of `replay` leave every artifact in its first session; what happens
otherwise is told in section 5.

In `coordinator`, two connections are one old and one new, or one on either
side of a restart; three records let an old incarnation append, the new one
append, and the old one try again.  One worker connects (`OneWorkerConnects`): the
ledger's own, which may claim the local boot, or another; the worker table has
both, and connections of different workers use different entries of it.  A
worker that goes away while a handler replies does so after the reply
(`HearsReplies`): the handler saves in both cases, and only `acked` can tell, which
no property of this run reads and its `VIEW` leaves out.  The other runs of the
coordinator have one worker that is not the ledger's own.  The record identities
are interchangeable, and the run uses that symmetry; it checks no liveness.
`Managed` and `MayStop` divide the work: fences and local appends are explored in `coordinator`,
shutdown and a failing `accept()` in `shutdown`, which starts one process
because what follows a crash is not its subject.  The embedding program appends
one record and does not advance the epoch: `ledger.hpp` reserves that for the
start of a process.

**Fairness.**  An append runs to its end in one thread under the lock, and
nothing obliges a caller to send another batch: the commit path and replay
assume none and state no liveness.  `ShutdownCompletes` assumes that the
threads of a running process are scheduled (weak fairness of `serve`'s steps,
of each handler's and of `OwnerCloses`), and that a thread waiting for
`persist_mutex` gets it although others take it again and again (strong
fairness of `ServeCopies` and `Copies`).  C++ does not promise the second; in
the code a thread that takes the mutex again has been to the network in
between.  Without it a worker on a connection the shutdown request missed could
keep `serve` from its final save by asking for shutdown for ever.  Workers,
`accept()` and the embedding program owe nothing.  `CHECK_DEADLOCK` is on for
the ledger: at its limit it still rejects.  The coordinator may stop for good
(its last process is down), so there it is off; so it is in `accounting`, whose
loop ends, and in `storage`, where the processes that may start are bounded.
`snapshots` and `storage` state no liveness: nobody is obliged to query or to
save, and a thread that waits for `persist_mutex` is the subject of
`ShutdownCompletes`.

## 4. Proofs

The theorems about the commit path hold for every choice of the constants that
satisfies the assumptions of `LedgerState`: identity domains are disjoint, `None` is
neither an entity nor a record identity nor a view, a supplied record identity is not
a number (as derived ones are), and `Drafts` is a subset of `Draft` (the identities,
the drafts and the limits may be infinite).  Those about queries assume in addition
that there are finitely many identities of entities (`EntitiesAssumption` of
`LedgerQuery`; an identity of the code has 32 bytes), because the walks are
bounded by their number.

- `TypeCorrect` (`Spec => []TypeOK`).  `TypeOK` is inductive.  The work is in
  the twenty `Stage` actions: the entity each builds from what it looked up is
  a view of the kind its key calls for.  That is what `apply_staged_entity`
  takes for granted when it asks `std::get_if` for a view and returns silently
  if there is none.
- `EvidenceNeverLate` (`Spec => []EvidencePrecedesDecision`).  The property says
  nothing about entries that are validated but not applied, so it is not
  inductive; the invariant adds that every *staged* decision cites records
  among those committed before its batch, and that applying only makes that
  prefix longer.
- `RecordIdsNeverRepeat` (`Spec => []RecordIdsUnique`).  The invariant is about
  records and staged entries as one sequence: supplied identities are distinct
  along it, and a derived identity is the position it stands at.

- `LedgerKeepsPromise` (`Spec => KeepsItsPromise`), the refinement of
  `AppendOnlyHistory`.  `Commit` maps to the one abstract step, `ApplyNext` and
  the validating steps to stutters (`EverySteps`): while a batch is applied, the
  records it has become and the entries that are left are the same history.
  That the replies are truthful rests on `OutcomesInv`: outcomes number the
  staged entries in order (`NumbersTheBatch`), and the outcome of a repeat names
  the place of the record it repeats (`PointsAtRepeats`), which `RecordIdsInv`
  makes the only one.
- Life cycles (second half of `LedgerCommitProofs`): `TerminalsExclude`, `ClosedStaysClosed`,
  `CancelledStaysQuiet`, `LineagePointsBack`, `ChangesAuthorized`,
  `RevisionsChain`, `ApplyingCannotFail`.  None of these properties is inductive:
  each is about records, and validation looks at views, of which it may find a
  committed one, the newest staged one or the oldest.  `LifeInv` joins the two.
  It reads the records and the staged entries behind them as one sequence
  (`Whole`), which staging extends, applying leaves as it is and a rejection cuts
  back.  Every record of that sequence is right after those before it
  (`Follows`, one named part for each rule); and each view, indexed or staged,
  shows what the prefix it stands for says of its entity (`Shows`): whether a
  session is closed, how an attempt ended, how many changes a hypothesis has had
  and the last of them, the subject and outcome of a decision.  A guard that was
  true of a view is thereby true of the sequence.  The twenty `Stage` actions are
  proved one by one, the rest once for all of them.

- Views (`LedgerViews`): `ViewsAreHistory`, the invariant `PictureInv` beside
  `LifeInv`.  `LifeInv` says of a view what validation needs to know of it; a
  query also reads the rest.  `DepictedInv` says that each view, indexed or
  staged, is what a prefix of `Whole` makes of its entity, field by field
  (`Depicts`, with one operator for each kind of entity): a field is that of the
  record which declared the entity or of the last one which changed it, and a
  date is that record's place.  `ListsInv` says that each list beside the views,
  and each link inside a view that nothing revises, holds exactly the entities
  whose records name its owner; links inside a view that a later entry of its
  batch may put back are left out, because of them it is not true (section 5,
  number 1).  The step proofs are those of `LifeInv` over again:
  one for each `Stage` action (`StagedBuildsOn` and its parts), one for applying,
  one for dropping a batch.
- Queries (`LedgerEvidenceProofs`).  `QueriesOnlyRead`: the ledger beside its
  readers is the ledger (`QuerySpec => Spec`), so all of the above holds beside
  them.  `SnapshotsAreHistory` adds `HeldInv`, about the snapshot somebody holds:
  its records are a prefix of today's, and its indexes are what that prefix
  makes of them.  A query that undoes what came after the watermark is then
  compared with the indexes of old through the records both depict:
  `AnswersStay`, `AnswersAreNotFromLater`, `BranchesAreHistory`.
  `HistoryVerifies` needs no snapshot: each parent `verify` follows was declared
  by an earlier record.  The conditions that `BranchesMatchHistory`,
  `VerifyAcceptsHistory` and `WalksAgree` carry are those of section 5; the
  theorems have no others.
- Walks over the indexes.  `Closure` repeats a step as often as there are
  entities.  `WalkIs` puts it down to paths of edges: something is reached just
  when a path of at most that many steps ends at it, because a walk that finds
  nothing new once finds nothing new again (`WalkedFurther`, by cardinality), and
  a path can be read from its other end (`WalkReversed`).  The inductions are
  over sets of numbers (`Induction`).  `ResultsExplained`: no edge that
  `supporting_evidence` follows leaves what is there, since what a record refers
  to was there before it.  `WalksUpAndDown`: an edge up a view's parents is an
  edge down the list of a parent, by `ListsInv`.
- Accounting: `TotalsAreHistory`.  The downward walk of `collect_core` and
  `expand_calls` collects from lists and links; the property says who owns an
  entity by the fields of the records upwards (`Owners`).  `OwnersAre` and
  `BeneathAre` bring both to one step, `ScopeOwned` joins them.  It needs that
  the subject of an entity's first record is the entity (`SubjectsInv`), since
  the code looks for the sequences about a scope.
- The logical digest: `DigestTellsRecords`.  `LedgerIsDigested` says what the
  digest of all that is there contains.  A record that is no annotation is seen
  (`RecordTold`, one lemma for each way a record acts on its entity): it adds an
  entity, or a field that is rendered was provably different before, as a
  generation that counts records is; an accounting record is seen by its place.
  An annotation leaves the state of its session, which is all that is rendered
  of it (`AnnotationUnseen`).

- Restarts (`LedgerReplayProofs`), for drafts with `ArtifactsKeepSession` (no
  artifact is referenced from two sessions), a hypothesis of each theorem and
  not an assumption of the module.  A draft is validated beside the others of
  its batch when it is appended, and alone when it is restored, against indexes
  that were built in another order; why should it pass?  The argument has three
  parts.
  *What indexes say.*  `Stands(h, n, F, L)` says that views `F` and subject index
  `L` are what the first `n` records of `h` make of them: `Shows` and `Depicts`
  of the two earlier invariants, and where each subject is.  Two pairs of
  indexes that stand for the same records differ at most in their links
  (`IndexesAlike`, one lemma for each kind of entity).  This is where
  `ArtifactsKeepSession` is used: of an artifact in two sessions, the staged and
  the committed index name different ones.
  *What validation reads.*  Validation against two such pairs comes out the same:
  `Alone` is an instance of `LedgerValidate` with no batch, and one lemma for
  each record type (`SameSessionOpened` to `SameAccountingRecorded`) compares
  its guard with the guard in the batch.  Evidence a decision cites is
  committed, so it is there in both cases (`StagedCites`).
  *The invariant.*  Each record of the history, committed or staged, passes
  alone against *whatever* indexes stand for the records before it (`Passes`,
  in `SoundInv`), which is what appending establishes (`SoundStep`) and what
  restoring uses (`NextPasses`).  While restoring, the records are a prefix of
  the image and the indexes what that prefix makes of empty ones (`Built`); at
  the end they and the indexes before the restart are two builds of one history
  (`TwoBuilds`), and the ledger satisfies all that a running one does
  (`RestoredRuns`).
  From `ReplayInvariant` follow `RestoreIsAccepted` (`RestoreNeverRejects`),
  `RestoreRebuilds` (`RestoreRebuildsState`), `IdsStayUnique`,
  `RestartsKeepSafety` (the seven properties of life cycles and references hold
  of a ledger that was restarted any number of times, not only of one that
  started empty) and the refinement `HistoryIsKept` (`HistorySurvivesRestarts`):
  the steps of restoring are stutters of `AppendOnlyHistory`.

All of these rest on `TypeCorrect` or on the lemmas behind it.

- The coordinator (`CoordinatorProofs`), for any number of workers, connections,
  records, epochs, processes and crashes, under `CoordinatorAssumption`,
  `NoneAssumption` and `SnapshotAssumption` (`None` is neither a view, an
  authority nor a snapshot).  Any worker may connect, the ledger's own with the
  boot it claims included, as in `serve`, which asks only for a valid identity.
  `TypeInv` puts types, threads and file in one
  invariant, because a restored ledger is typed only as the file is, and a record
  only as the authority of its connection; it holds that at most the thread in
  the mutex has a copy (`CoordinatorTypes`).  `AuthorityInv` is
  the argument about incarnations: history is cut into runs of one incarnation
  each (`SoundHistory`), the worker table shows the last run (`ViewsInv`,
  `CountsInv`, `CurrentInv`), and a boot a handler has still to use is in use
  nowhere (`FreshInv`, the part about a counter that is taken outside the lock):
  `CountsMatch`, `IncarnationsStayApart`.  Runs and last runs are of minted
  incarnations (`InRuns`, `LastRun`): nothing of the kind is true of the local
  boot, which `BootFits` allows to the local worker in every epoch.  `FileInv`
  orders three histories: the file's comes before every copy's, and a copy's
  before the ledger's: `FileGrows`.  `LostIncarnationsStayLost` and
  `WorkerRecordsAreSaved` assume what the runs assume, that writes succeed
  (`~PersistMayFail`) and, for the second, that the coordinator persists on
  append; the first adds `IssuedInv`, which says that an incarnation is handed
  out only when its epoch is in the file.

- Sums (`AccountingProofs`): `SumsTyped`, `ExactTotals`, `WeakestWins`,
  `CompleteTotals`, `FailuresHaveCause`, for any widths (`UnitsAssumption`,
  `MicroAssumption`), any measures and currencies, any number of contributions
  of which none is empty (`VectorsAssumption`, which is what
  `AccountingRecorded` demands).  The invariant is `TypeOK` and `Sound`: what the
  properties say of the total, with the history variable `exact` to compare
  with.  The work is in `Further`, where an unknown contribution makes a total
  unknown for good, and in `Fails`, where the failing addition is one that the
  exact sum does not survive either.
- The file (`LedgerFileProofs`): `LockFollowsSaver` and `FileAlwaysLoads`, for
  any number of processes, threads and runs, and for any codec: the encoding is
  a constant operator, so nothing about it is assumed.  The invariant adds that
  an image that has passed its check loads (`ImagesChecked`), that before the
  rename the temporary file *is* that image (`WholeAtRename`, which is where the
  mutex is needed: another thread of the process would truncate it), and that
  only running processes save (`OnlyRunning`).
- What the file holds: `SavesReproduce` and `OwnSavesOnlyGrow`, for any codec
  that gives back each record: `GivesBack(Kept, Token)` asks for a set `Kept` of
  records, closed under what is committed, whose encodings are sequences over
  `Token` and, where they decode, decode to the record they are of; and that no
  image is `None`.  The lemmas before them are about serialization:
  in the body of an image every encoding stands where the lengths before it say
  (`RecordsAreLocated`), so reading it record by record gives back all of them
  (`ReadsBack`, `LoadsBack`).  The body and its parsing are recursive functions
  on the number of records; the induction is over a *set* of numbers
  (`Induction`, from the well-foundedness of `<`), which needs no operator as a
  parameter.  The invariant `HeldInv` orders what a process holds: what it saved
  last comes before the copy it is saving, and that before its memory.

- The codec (`RecordCodecProofs`): `RecordsRoundTrip`, for all 22 record types,
  any values of their fields and any limits of texts and lists: what
  `decode_record` makes of the bytes of `encode_record` is the record, or a
  refusal.  It goes up the levels of `RecordCodec`.  At each of them (a token or
  a text, the parts of a group, the elements of a list, the fields of a layout, a
  body, a record) the lemma says that a writer puts its encoding after the
  cursor, and that the reader, if it is still ok, has moved over exactly that
  encoding and holds the value.  Writer and reader of a record type are two
  layouts, translated apart from two functions of the source; that they name the
  same fields in the same order, with tags the reader takes back, is one lemma
  for each type (`SessionOpenedAgrees` to `ResultStatusChangedAgrees`), and is
  what a swapped pair of fields would break.  Values are numbers and sequences of
  values, to any depth (`Closed(T)`).
  From it `CodecGivesBack` is the hypothesis of `SavesReproduce`, so
  `EncodedFilesReproduce` and `EncodedSavesOnlyGrow` hold with nothing assumed
  of the codec except that it is this one (`EncodesRecords`), for any catalogue
  of bodies of the 22 types (`TypedCatalogue`), provided that `None` is not an
  image.

- That a save succeeds.  `DecodableLedgersSave`, for any codec that gives back
  each record: the check before the rename lets an image through if it is within
  the limit on bytes and each of its records decodes.  The invariant behind it is
  `LinkedInv`: what is in memory, in a copy and in the file is *linked*, each
  record `Genuine` after the one before it.  `CommittedLinks` is the step that
  matters, where the chain that `append` computes over all records so far is the
  digest in the last header (`ChainOfLinked`); `LinkedIsParsed` walks the reader
  over the image.  The actions enter through `RecordsMove`, the few ways in which
  a step moves records between memory, copy and file.
  `StatedRecordsAreRead` is the other half of `RecordsRoundTrip`: a record whose
  texts and lists are within the limits (`FitsBody`), whose values are ones of the
  program (`ValidBody`: no identity is zero, an enumerator is one of its type, a
  fraction is finite) and whose enumerators are stated (`Stated`) is decoded.  Each
  lemma on the way up carries this beside the round trip (`SimpleTaken`,
  `ListTaken`, `MetricTaken`, `FieldTaken`, `FieldsRead`).
  `StatedLedgersSave` puts both together: `StatedLedgerSaves`, for any processes,
  threads and limits, if the catalogue is valid but for the two enumerators of
  section 5 (`ValidCatalogue`), if the ledger measures texts and lists as the
  writer does (`FittingFits`), and as long as images stay within the limit on
  bytes (`ImagesWithin`).  The last is a hypothesis because the code does not
  ensure it (section 5: 4,000,000 records need more than 512 MiB).  The instance
  of the `storage` run satisfies all three: no image of it is longer than 150
  tokens of the 400 it may have.

Liveness and statements about `ENABLED` are out of
the provers' reach; everything else that is only model-checked so far is named
in section 6.

## 5. What the models found

Each of these is a run that TLC ends with a counterexample; the quotations are
in `PROJECT.json`.

1. `replay_indexes`.  In a batch that declares a hypothesis and then annotates
   its session (or starts an attempt's call and then ends the attempt), the
   second entry's copy of the view overwrites the count the first one added.
   The running ledger and the one restored from its file answer differently.
2. `acked_lost`.  A handler replies and then saves.  A process killed in between
   restarts without records a worker was told are committed.
3. `shutdown_posix`.  `request_shutdown` closes the listener to end the
   `accept()` that `serve` is blocked in.  On Windows that works
   (`CloseWakesAccept = TRUE` in the other runs); on POSIX systems `close` does
   not end an `accept` of another thread, and `serve` does not return until
   somebody connects.
4. `snapshot_later`.  A hypothesis that was `Active` when a snapshot was taken is
   shown by it as `Proposed`, generation 1, as soon as it changes again; a result
   that was accepted as a `Candidate` without its decision.  Only the first
   change after a declaration is undone correctly, which is what the test does.
5. `unreadable`.  An observation without a metric whose unit is left at its
   default, or a branch with a parent whose kind is 0, passes validation.  The
   decoder refuses both, and `save_snapshot_file` decodes what it is about to
   write: from that commit on no save succeeds, and the file stays old.

While modelling, the following was seen as well.  The models behave this way
(where the instances of section 3 reach it, a property says so in its
condition), and no run is about it:

- An artifact's second reference may belong to another session
  (`ledger_validate.cpp:833`).  A batch that references `a1` in `s1`, again in
  `s2`, and then decides about it in `s1` commits, because `locate_subject`
  prefers the first staged entry; alone, after a restart, the same decision is a
  cross-session reference, and the saved ledger does not load.  `MCReplay` under
  `MCReplayMoved.cfg` shows it: TLC ends with `RestoreNeverRejects` violated,
  the ledger failing at the fifth record.  It is why the theorems about restarts
  have `ArtifactsKeepSession` as a hypothesis.  The drafts of the run `replay`
  satisfy it.
- Generation 2 of an artifact may name as its parent one whose parent is
  generation 1 (`ledger_validate.cpp:894`); `verify` reports a cycle, and the
  ancestry is one.  Even without that, an artifact that is referenced again is
  younger than what was made from it, and `verify` calls that a cycle too
  (`ledger_aggregate.cpp:464`; condition of `VerifyAcceptsHistory`).
- `artifact_descendants` answers LINEAGE_CYCLE for an artifact that is reached
  on two ways (`ledger_query.cpp:437`; condition of `WalksAgree`).
- After a rejection and a reclassification, an acceptance decision from before
  the rejection is enough to accept (`ledger_validate.cpp:1345`).
- An older snapshot answers `supporting_evidence` with BROKEN_LINEAGE when one of
  the experiments has an attempt that started after its watermark
  (`reconstruction.cpp:540`), and shows the result itself as it is now
  (`reconstruction.cpp:474`), although "everything below is filtered".
- An attempt of an experiment whose accepted result changes after the watermark
  turns its branch unresolved in the older snapshot (`ledger_aggregate.cpp:216`;
  condition of `BranchesMatchHistory`).
- The handshake (`cluster.cpp:164`) takes any valid worker identity and any boot,
  so a worker may connect as the ledger's own: `local_worker` and `local_boot`
  are both 1 unless they are configured, and `test_concurrency.cpp:586` connects
  worker 1.  It then displaces the program's authority, whose appends are refused
  until it is admitted again; and if the program is, its records and the client's
  interleave under the boots they have.  If the client claims boot 1 while that is
  current, it is given the local boot itself: the end of its connection fences
  the program, and when it has lost that boot, `advance_epoch` (`ledger.cpp:216`)
  makes it current again after a restart.  `IncarnationsNeverInterleave` and
  `IncarnationsNeverReturn` without the condition on the local boot are violated
  in the run `coordinator`; with it they are theorems.
- `explain_result` reads the session index without the lock
  (`reconstruction.cpp:416`).
- Two commands at once: the one that saves last wins (`cli_main.cpp:105`).
- 4,000,000 records, the limit on records, need more bytes than the limit on the
  file (`limits.hpp`); between the two no save succeeds.

## 6. Not modelled, not proved, and the plan

Not modelled: frames and messages of the wire protocol except
`check_frame_authority`, sockets and platform calls, SHA-256, the parsing and
the wording of identities, errors and enumerations, the arguments and the output
of the programs under `apps/`, `examples/` and `benchmarks/`.  They are
sequential pure functions or platform calls and take no decision about the
state.  A crash of the operating system is outside `LedgerFile`: the code does
not sync, and promises nothing for it.

Only model-checked: `ShutdownCompletes`, which is liveness under fairness.

In order:

1. A worker client that retries through reconnections, composed with
   `Coordinator`, and the frames between them.

----------------------------- MODULE LedgerFile -----------------------------
(***************************************************************************)
(* The snapshot file of a ledger (src/persistence.cpp, save and load of     *)
(* src/replay.cpp) and the processes that share its path: coordinators,     *)
(* whose threads append and persist (Impl::persist of src/cluster.cpp), and *)
(* commands of the command line (apps/cli_main.cpp), which have one thread. *)
(*                                                                          *)
(* A save is split where another process or thread can come in between:     *)
(* the copy of the records, the open of the temporary file, the write, the  *)
(* rename.  Every file operation may fail, and a process may die at any     *)
(* point; what it leaves of its temporary file stays.  The operating system *)
(* keeps running: what was written is not lost by a rename.                 *)
(*                                                                          *)
(* A digest is the sequence it digests (no two have the same digest).  The  *)
(* runtime version in the header is read and ignored and is left out.       *)
(***************************************************************************)
EXTENDS Naturals, Sequences, SequencesExt

CONSTANTS
  Pid,          \* process identities: the name of the temporary file
  Thread,       \* threads that append and persist
  Threads(_),   \* those of a process
  Commands,     \* the processes that are commands
  Encoded(_),   \* a record -> its encoding, a sequence of tokens
  Decoded(_),   \* tokens -> whether they decode, and the record
  Payload(_),   \* a body -> its encoding
  Fitting(_),   \* whether the texts and lists of a body are within the limits
  Catalogue,    \* a sequence of record bodies
  Offered(_, _), \* the entries of it offered to a process with these records
  None,
  MaxRecords,   \* Limits::max_records and max_persistence_records
  MaxImage,     \* Limits::max_persistence_bytes, in tokens
  MaxRuns       \* bound: processes started

ASSUME ThreadsAssumption == Commands \subseteq Pid /\ \A p \in Pid : Threads(p) \subseteq Thread
ASSUME NoneAssumption == None \notin Thread
ASSUME BoundsAssumption == MaxRecords \in Nat /\ MaxImage \in Nat /\ MaxRuns \in Nat

VARIABLES
  path,    \* the content of the file at the path, or None
  temp,    \* pid -> the content of its temporary file, or None
  running, \* the processes that run
  ledger,  \* pid -> the committed records in its memory
  thread,  \* pid -> thread -> where it is in a save, and the image it holds
  mutex,   \* pid -> the thread that holds persist_mutex, or None
  runs,    \* the number of processes started
  saved    \* history variable: who wrote the file at the path, and of what

fileVars == << path, temp, running, ledger, thread, mutex, runs, saved >>

-----------------------------------------------------------------------------
(* The image of the records: the header (magic, format, generation, epoch,  *)
(* count, body length), its digest, the length-prefixed records, the digest *)
(* of the body.                                                             *)
Magic == 77
Format == 1
HeaderSize == 7

Body(rs) ==
  FlattenSeq([i \in 1..Len(rs) |-> << Len(Encoded(rs[i])) >> \o Encoded(rs[i])])

Serialized(rs) ==
  LET body == Body(rs)
      header == << Magic, Format, 1, 1, Len(rs), Len(body) >>
  IN header \o << header >> \o body \o << body >>

(* serialize_snapshot fails beyond the limits. *)
Serializes(rs) == Len(rs) <= MaxRecords /\ Len(Body(rs)) <= MaxImage

(* The chain links what went before to a record and its payload; the        *)
(* authority a record was committed under is not part of it.                *)
NextChain(chain, header) ==
  << chain, header.sequence, header.type, header.record_id, header.committed_at,
     header.provenance, header.payload_digest >>

(* One record of an image: contiguous, of this ledger generation, with the  *)
(* digests of its payload and of the chain up to it.                        *)
Genuine(record, sequence, chain) ==
  /\ record.header.sequence = sequence
  /\ record.header.ledger = 1
  /\ record.header.payload_digest = Payload(record.body)
  /\ record.header.chain_digest = NextChain(chain, record.header)

(* A decoded record, number i, joins what p has read: the token after the   *)
(* last one, the chain and the records.                                     *)
Joined(p, i, length, d) ==
  IF d.ok /\ Genuine(d.record, i, p.chain)
  THEN [ ok |-> TRUE, at |-> p.at + 1 + length, chain |-> d.record.header.chain_digest,
         records |-> Append(p.records, d.record) ]
  ELSE [ p EXCEPT !.ok = FALSE ]

ReadRecord(body, i, p) ==
  IF /\ p.ok
     /\ p.at + 1 <= Len(body)
     /\ p.at + 1 + body[p.at + 1] <= Len(body)
  THEN Joined(p, i, body[p.at + 1],
              Decoded(SubSeq(body, p.at + 2, p.at + 1 + body[p.at + 1])))
  ELSE [ p EXCEPT !.ok = FALSE ]

Parsed(body, count) ==
  LET p[i \in 0..count] ==
        IF i = 0 THEN [ ok |-> TRUE, at |-> 0, chain |-> << >>, records |-> << >> ]
        ELSE ReadRecord(body, i, p[i - 1])
  IN p[count]

(* The header and both digests are checked before any record is.            *)
Framed(image) ==
  /\ Len(image) >= HeaderSize + 1
  /\ Len(image) <= MaxImage
  /\ image[1] = Magic
  /\ image[2] = Format
  /\ image[HeaderSize] = SubSeq(image, 1, HeaderSize - 1)
  /\ image[5] <= MaxRecords
  /\ image[6] = Len(image) - HeaderSize - 1
  /\ image[Len(image)] = SubSeq(image, HeaderSize + 1, Len(image) - 1)
  /\ image[3] # 0
  /\ image[4] # 0

BodyOf(image) == SubSeq(image, HeaderSize + 1, Len(image) - 1)

Whole(body, p) == p.ok /\ p.at = Len(body)

Loads(image) ==
  /\ Framed(image)
  /\ Whole(BodyOf(image), Parsed(BodyOf(image), image[5]))

Loaded(image) == Parsed(BodyOf(image), image[5]).records

-----------------------------------------------------------------------------
(* What append commits for a draft: the next sequence, the local authority, *)
(* the digest of the payload and the chain.                                 *)
Committed(rs, body) ==
  LET chain[i \in 0..Len(rs)] ==
        IF i = 0 THEN << >> ELSE NextChain(chain[i - 1], rs[i].header)
      unchained == [ sequence |-> Len(rs) + 1, type |-> body.type, record_id |-> Len(rs) + 1,
                     ledger |-> 1, epoch |-> 1, worker |-> 1, worker_boot |-> 1,
                     committed_at |-> 0, provenance |-> 1, payload_digest |-> Payload(body),
                     chain_digest |-> << >> ]
  IN [ header |-> [unchained EXCEPT !.chain_digest = NextChain(chain[Len(rs)], unchained)],
       body |-> body ]

Holding(at) == [ at |-> at, image |-> None, of |-> None ]
Idle == Holding("idle")
ToSave == Holding("appended")
Done == Holding("done")

(* A thread that is somewhere inside persist.                               *)
Saving(p, t) == thread[p][t].at \in { "check", "open", "write", "close", "rename" }

FileInit ==
  /\ path = None
  /\ temp = [p \in Pid |-> None]
  /\ running = { }
  /\ ledger = [p \in Pid |-> << >>]
  /\ thread = [p \in Pid |-> [t \in Thread |-> Idle]]
  /\ mutex = [p \in Pid |-> None]
  /\ runs = 0
  /\ saved = [ by |-> None, records |-> << >> ]

(* A process starts: it loads the file, and a file that does not load stops *)
(* it.  Without a file a coordinator creates an empty ledger.  (Its first   *)
(* persist is among Persist below; the order of its start is Coordinator's.)*)
Start(p) ==
  /\ p \notin running
  /\ runs < MaxRuns
  /\ IF path = None THEN p \notin Commands ELSE Loads(path)
  /\ runs' = runs + 1
  /\ running' = running \cup { p }
  /\ ledger' = [ledger EXCEPT ![p] = IF path = None THEN << >> ELSE Loaded(path)]
  /\ UNCHANGED << path, temp, thread, mutex, saved >>

(* command_init: where no file is, an empty ledger is created and saved.    *)
InitCommand(p) ==
  /\ p \notin running
  /\ p \in Commands
  /\ runs < MaxRuns
  /\ path = None
  /\ runs' = runs + 1
  /\ running' = running \cup { p }
  /\ ledger' = [ledger EXCEPT ![p] = << >>]
  /\ thread' = [thread EXCEPT ![p] =
                  [t \in Thread |-> IF t \in Threads(p) THEN ToSave ELSE Idle]]
  /\ UNCHANGED << path, temp, mutex, saved >>

(* A thread commits a body and goes on to save (commit_records, and the     *)
(* coordinator's handler).  The limits on texts and lists are the ledger's  *)
(* too: the payload digest is of the encoded body.                          *)
AppendBody(p, t, body) ==
  /\ p \in running
  /\ thread[p][t].at = "idle"
  /\ Len(ledger[p]) < MaxRecords
  /\ Fitting(body)
  /\ ledger' = [ledger EXCEPT ![p] = Append(@, Committed(@, body))]
  /\ thread' = [thread EXCEPT ![p][t] = ToSave]
  /\ UNCHANGED << path, temp, running, mutex, runs, saved >>

(* A coordinator also persists as it starts and when it shuts down; both    *)
(* also save when every draft only repeats a record.                        *)
Persist(p, t) ==
  /\ p \in running
  /\ thread[p][t].at = "idle"
  /\ thread' = [thread EXCEPT ![p][t] = ToSave]
  /\ UNCHANGED << path, temp, running, ledger, mutex, runs, saved >>

(* persist_mutex is free.  A command has no such lock and one thread.       *)
(* (Mutant: threads save without it.)                                       *)
NoLock(p) == mutex[p] \in Thread \cup { None }
Unlocked(p) == mutex[p] = None

(* Under persist_mutex the records are copied and serialized.               *)
BeginSave(p, t) ==
  /\ thread[p][t].at = "appended"
  /\ Unlocked(p)
  /\ mutex' = [mutex EXCEPT ![p] = t]
  /\ thread' = [thread EXCEPT ![p][t] =
                  [ at |-> "check", image |-> Serialized(ledger[p]), of |-> ledger[p] ]]
  /\ UNCHANGED << path, temp, running, ledger, runs, saved >>

(* The save goes on: the image is the one that was copied. *)
Moved(p, t, at) ==
  [thread EXCEPT ![p][t] = [ at |-> at, image |-> thread[p][t].image, of |-> thread[p][t].of ]]

(* save_snapshot_file returns, and the lock is released with it.  A command *)
(* is done, whatever the answer.                                            *)
(* (Mutant: an early return keeps it.)                                      *)
KeepLock(p) == mutex
Released(p) == [mutex EXCEPT ![p] = None]

Return(p, t) ==
  /\ mutex' = Released(p)
  /\ thread' = [thread EXCEPT ![p][t] = IF p \in Commands THEN Done ELSE Idle]

(* The image is decoded before it can replace anything; one that does not   *)
(* decode, or exceeds a limit, ends the save.                               *)
Check(p, t) ==
  /\ thread[p][t].at = "check"
  /\ IF Serializes(thread[p][t].of) /\ Loads(thread[p][t].image)
     THEN thread' = Moved(p, t, "open") /\ UNCHANGED mutex
     ELSE Return(p, t)
  /\ UNCHANGED << path, temp, running, ledger, runs, saved >>

(* The temporary file of this process, emptied. *)
Open(p, t) ==
  /\ thread[p][t].at = "open"
  /\ temp' = [temp EXCEPT ![p] = << >>]
  /\ thread' = Moved(p, t, "write")
  /\ UNCHANGED << path, running, ledger, mutex, runs, saved >>

CannotOpen(p, t) ==
  /\ thread[p][t].at = "open"
  /\ Return(p, t)
  /\ UNCHANGED << path, temp, running, ledger, runs, saved >>

(* Half of the image reaches the file, then the rest. *)
WriteSome(p, t) ==
  /\ thread[p][t].at = "write"
  /\ temp' = [temp EXCEPT ![p] = SubSeq(thread[p][t].image, 1, Len(thread[p][t].image) \div 2)]
  /\ thread' = Moved(p, t, "close")
  /\ UNCHANGED << path, running, ledger, mutex, runs, saved >>

WriteRest(p, t) ==
  /\ thread[p][t].at = "close"
  /\ temp' = [temp EXCEPT ![p] = thread[p][t].image]
  /\ thread' = Moved(p, t, "rename")
  /\ UNCHANGED << path, running, ledger, mutex, runs, saved >>

(* A write, a close or a rename that fails removes the temporary file.      *)
CannotReplace(p, t) ==
  /\ thread[p][t].at \in { "write", "close", "rename" }
  /\ temp' = [temp EXCEPT ![p] = None]
  /\ Return(p, t)
  /\ UNCHANGED << path, running, ledger, runs, saved >>

Rename(p, t) ==
  /\ thread[p][t].at = "rename"
  /\ path' = temp[p]
  /\ temp' = [temp EXCEPT ![p] = None]
  /\ saved' = [ by |-> p, records |-> thread[p][t].of ]
  /\ Return(p, t)
  /\ UNCHANGED << running, ledger, runs >>

(* The process ends, on its own or killed: its memory goes, its temporary   *)
(* file stays.                                                              *)
End(p) ==
  /\ p \in running
  /\ running' = running \ { p }
  /\ ledger' = [ledger EXCEPT ![p] = << >>]
  /\ thread' = [thread EXCEPT ![p] = [t \in Thread |-> Idle]]
  /\ mutex' = [mutex EXCEPT ![p] = None]
  /\ UNCHANGED << path, temp, runs, saved >>

SaveStep(p, t) ==
  \/ Persist(p, t) \/ BeginSave(p, t) \/ Check(p, t)
  \/ Open(p, t) \/ CannotOpen(p, t)
  \/ WriteSome(p, t) \/ WriteRest(p, t)
  \/ CannotReplace(p, t) \/ Rename(p, t)

FileNext ==
  \E p \in Pid :
    \/ Start(p) \/ InitCommand(p) \/ End(p)
    \/ \E t \in Threads(p) :
         \/ SaveStep(p, t)
         \/ \E n \in Offered(p, ledger[p]) : AppendBody(p, t, Catalogue[n])

FileSpec == FileInit /\ [][FileNext]_fileVars

-----------------------------------------------------------------------------
(* The lock of a process is held exactly by its thread that is inside a     *)
(* save: no return of save_snapshot_file keeps it, no crash leaves it, and  *)
(* so no thread waits for it for ever.                                      *)
FileTypeOK ==
  /\ DOMAIN temp = Pid
  /\ DOMAIN ledger = Pid
  /\ running \subseteq Pid
  /\ DOMAIN thread = Pid
  /\ mutex \in [Pid -> Thread \cup { None }]
  /\ runs \in 0..MaxRuns
  /\ \A p \in Pid :
       /\ DOMAIN thread[p] = Thread
       /\ \A t \in Thread : Saving(p, t) <=> mutex[p] = t

(* Whatever fails or dies, and whoever else saves to the same path, the     *)
(* file there loads: it is never torn, never half of one image and half of  *)
(* another, never an image that does not decode.                            *)
PathLoads == path # None => Loads(path)

(* The file holds exactly the records of the ledger that wrote it: the      *)
(* reader of every record type gives back, field for field, what its writer *)
(* wrote.                                                                   *)
LoadsAsSaved == path # None => Loaded(path) = saved.records

(* A process never puts an older state over a newer one of its own: the     *)
(* copy is taken under the same lock as the rename.  (Two processes may     *)
(* each overwrite the other.)                                               *)
OwnSavesGrow ==
  [][ path' # path /\ saved'.by = saved.by =>
        /\ Len(saved.records) <= Len(saved'.records)
        /\ SubSeq(saved'.records, 1, Len(saved.records)) = saved.records ]_fileVars

(* "The last image always loads and reproduces the live logical digest":    *)
(* only a file operation can fail the save of a live ledger; its image is   *)
(* within the limits and decodes.                                           *)
LiveLedgerSaves ==
  \A p \in Pid, t \in Thread :
    thread[p][t].at = "check" =>
      Serializes(thread[p][t].of) /\ Loads(thread[p][t].image)

=============================================================================

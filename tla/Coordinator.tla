---------------------------- MODULE Coordinator -----------------------------
(***************************************************************************)
(* The coordinator process (src/cluster.cpp): the thread in serve(), one    *)
(* handler thread per connection, the thread of the embedding program, the  *)
(* file they persist to, and the crash and restart of the whole process.    *)
(* Threads interleave wherever the code holds no lock; an operation of the  *)
(* ledger (module WorkerAuthority) is one step, and so is the write of the  *)
(* file, which replaces it atomically.                                      *)
(*                                                                          *)
(* The other end of a connection is the environment: a worker connects,     *)
(* asks, waits for its reply, and may go away at any time.  A frame is      *)
(* modelled from the moment its handler reads it.  Status requests, and     *)
(* messages nobody can read or expects, change nothing and are left out.    *)
(***************************************************************************)
EXTENDS WorkerAuthority, SequencesExt

CONSTANTS
  Client,            \* the workers that connect: any, the local one too
  MaxConn,           \* bound: connections, over all processes
  MaxEpoch,          \* bound: epochs explored
  MaxStarts,         \* bound: processes started
  Managed,           \* bound: the embedding program uses the ledger
  MayStop,           \* bound: shutdown is requested, accept() may fail
  PersistOnAppend,   \* CoordinatorConfig::persist_on_append
  PersistMayFail,    \* a write of the file may fail
  CloseWakesAccept   \* closing a listener ends an accept() blocked on it:
                     \*   so on Windows, not so on POSIX systems

ASSUME CoordinatorAssumption ==
  /\ RequireAdmission      \* start() turns admission on
  /\ Client \subseteq Worker
  /\ MaxConn \in Nat /\ MaxEpoch \in Nat \ { 0 } /\ MaxStarts \in Nat
  /\ Managed \in BOOLEAN /\ MayStop \in BOOLEAN
  /\ PersistOnAppend \in BOOLEAN
  /\ PersistMayFail \in BOOLEAN
  /\ CloseWakesAccept \in BOOLEAN

VARIABLES
  server,     \* where start() and serve() are, or "down"
  shutting,   \* shutting_down
  listening,  \* the listener is open
  listed,     \* connections
  pc,         \* handler thread -> where it is
  sock,       \* connection -> "none", "open" or "shut"
  conn,       \* connection -> the worker at its other end, the boot it says
              \*   it had, its boot counter, and the authority it was given
  request,    \* connection -> the record its handler is to append, or None
  next_boot,  \* the counter the next handshake takes
  saving,     \* thread -> the copy of the ledger it holds in persist(), or None
  owner,      \* the embedding program's thread
  disk,       \* the snapshot file, or None
  starts,     \* processes started
  issued,     \* history variable: [worker, authority] handed out, ever
  acked       \* history variable: records some worker was told are committed
              \*   and that no file has held since

serverVars == << server, shutting, listening, listed >>
handlerVars == << pc, sock, conn, request, next_boot >>
historyVars == << starts, issued, acked >>
vars == << authorityVars, serverVars, handlerVars, saving, owner, disk,
           historyVars >>

Conn == 1..MaxConn

Serve == 0            \* the thread in serve()

Thread == Conn \cup { Serve }

NoConnection ==
  [ worker |-> None, claims |-> None, counter |-> 0, authority |-> None ]

HelloDone(c) == conn[c].authority # None

Up == server \notin { "down", "loaded", "starting" }

Goto(c, place) == pc' = [ pc EXCEPT ![c] = place ]

-----------------------------------------------------------------------------
(* The process: Coordinator::start and its death *)
NoProcess ==
  /\ shutting' = FALSE
  /\ listening' = FALSE
  /\ listed' = {}
  /\ pc' = [ c \in Conn |-> IF pc[c] = "free" THEN "free" ELSE "done" ]
  /\ sock' = [ c \in Conn |-> IF pc[c] = "free" THEN "none" ELSE "shut" ]
  /\ conn' = [ c \in Conn |-> NoConnection ]
  /\ request' = [ c \in Conn |-> None ]
  /\ next_boot' = 1
  /\ saving' = [ t \in Thread |-> None ]
  /\ owner' = "idle"

Init ==
  /\ epoch = 1 /\ local = LocalAt(1)
  /\ workers = [ w \in Worker |-> None ] /\ history = << >>
  /\ server = "down" /\ shutting = FALSE /\ listening = FALSE /\ listed = {}
  /\ pc = [ c \in Conn |-> "free" ]
  /\ sock = [ c \in Conn |-> "none" ]
  /\ conn = [ c \in Conn |-> NoConnection ]
  /\ request = [ c \in Conn |-> None ]
  /\ next_boot = 1 /\ saving = [ t \in Thread |-> None ] /\ owner = "idle" /\ disk = None
  /\ starts = 0 /\ issued = {} /\ acked = {}

(* A process that finds no file creates a ledger; one that does loads it.   *)
Start ==
  /\ server = "down" /\ starts < MaxStarts
  /\ starts' = starts + 1
  /\ \/ disk = None /\ Create /\ server' = "starting"
     \/ disk # None /\ Restore(disk.history, disk.epoch) /\ server' = "loaded"
  /\ UNCHANGED << shutting, listening, listed, handlerVars, saving, owner,
                  disk, issued, acked >>

(* A restarted coordinator is a new authority epoch. *)
StartAdvance ==
  /\ server = "loaded" /\ epoch < MaxEpoch
  /\ AdvanceEpoch
  /\ server' = "starting"
  /\ UNCHANGED << shutting, listening, listed, handlerVars, saving, owner,
                  disk, historyVars >>

Image == [ epoch |-> epoch, history |-> history ]

Snapshot == [ epoch : Nat \ { 0 }, history : Seq(HistoryRecord) ]

(* An absent file, or copy, is none. *)
ASSUME SnapshotAssumption == None \notin Snapshot

Ids(h) == { h[i].id : i \in DOMAIN h }

Authors(h) == { h[i].author : i \in DOMAIN h }

Written(image) ==
  \/ disk' = image /\ acked' = acked \ Ids(image.history)
  \/ PersistMayFail /\ UNCHANGED << disk, acked >>

(* The status of the persist is not looked at.  Then it listens. *)
StartPersist ==
  /\ server = "starting"
  /\ Written(Image)
  /\ server' = "looping" /\ listening' = TRUE
  /\ UNCHANGED << authorityVars, shutting, listed, handlerVars, saving, owner,
                  starts, issued >>

(* The process is killed, or exits: all that is left is the file. *)
Crash ==
  /\ server # "down"
  /\ server' = "down"
  /\ NoProcess
  /\ epoch' = 1 /\ local' = LocalAt(1)
  /\ workers' = [ w \in Worker |-> None ] /\ history' = << >>
  /\ UNCHANGED << disk, historyVars >>

-----------------------------------------------------------------------------
(* persist(), by the thread t: under persist_mutex it copies the ledger and *)
(* then writes the copy.  (Mutant: the copy is taken without the mutex.)    *)
CopyUnlocked(t) == saving' = [ saving EXCEPT ![t] = Image ]

CopyLedger(t) ==
  /\ \A u \in Thread : saving[u] = None
  /\ saving' = [ saving EXCEPT ![t] = Image ]

Copied(t) == saving[t] # None

WriteCopy(t) ==
  /\ Written(saving[t])
  /\ saving' = [ saving EXCEPT ![t] = None ]

-----------------------------------------------------------------------------
(* serve() *)
Loop ==
  /\ server = "looping"
  /\ server' = IF shutting \/ ~listening THEN "persisting" ELSE "accepting"
  /\ UNCHANGED << authorityVars, shutting, listening, listed, handlerVars,
                  saving, owner, disk, historyVars >>

Unused == { c \in Conn : pc[c] = "free" }

(* A worker w connects, saying it had the boot identity b, or none. *)
Accept(w, b) ==
  /\ server = "accepting"
  /\ listening \/ ~CloseWakesAccept
  /\ Unused # {}
  /\ LET c == Min(Unused) IN
       /\ Goto(c, "accepted")
       /\ sock' = [ sock EXCEPT ![c] = "open" ]
       /\ conn' = [ conn EXCEPT ![c].worker = w, ![c].claims = b ]
  /\ server' = "listing"
  /\ UNCHANGED << authorityVars, shutting, listening, listed, request,
                  next_boot, saving, owner, disk, historyVars >>

(* The accepted connection enters the list, and its handler starts. *)
List ==
  /\ server = "listing"
  /\ \E c \in Conn :
       /\ pc[c] = "accepted"
       /\ listed' = listed \cup { c }
       /\ Goto(c, "hello")
  /\ server' = "looping"
  /\ UNCHANGED << authorityVars, shutting, listening, sock, conn, request,
                  next_boot, saving, owner, disk, historyVars >>

(* accept() ends without a connection: the listener was closed under it ... *)
AcceptClosed ==
  /\ server = "accepting" /\ ~listening /\ CloseWakesAccept
  /\ server' = "persisting"
  /\ UNCHANGED << authorityVars, shutting, listening, listed, handlerVars,
                  saving, owner, disk, historyVars >>

(* ... or it failed by itself, which ends the loop just the same. *)
AcceptFailed ==
  /\ MayStop /\ server = "accepting" /\ listening
  /\ server' = "persisting"
  /\ UNCHANGED << authorityVars, shutting, listening, listed, handlerVars,
                  saving, owner, disk, historyVars >>

ServeCopies ==
  /\ server = "persisting"
  /\ CopyLedger(Serve)
  /\ server' = "writing"
  /\ UNCHANGED << authorityVars, shutting, listening, listed, handlerVars,
                  owner, disk, historyVars >>

ServeWrites ==
  /\ server = "writing" /\ Copied(Serve)
  /\ WriteCopy(Serve)
  /\ server' = "stopping"
  /\ UNCHANGED << authorityVars, shutting, listening, listed, handlerVars,
                  owner, starts, issued >>

ShutSockets(cs) ==
  sock' = [ c \in Conn |-> IF c \in cs /\ sock[c] = "open" THEN "shut"
                           ELSE sock[c] ]

(* (Mutant: serve() leaves that to request_shutdown().) *)
LeavesSockets == {}

SocketsToStop == listed

StopConnections ==
  /\ server = "stopping"
  /\ ShutSockets(SocketsToStop)
  /\ server' = "joining"
  /\ UNCHANGED << authorityVars, shutting, listening, listed, pc, conn,
                  request, next_boot, saving, owner, disk, historyVars >>

Join ==
  /\ server = "joining"
  /\ \A c \in listed : pc[c] = "done"
  /\ server' = "returned" /\ listed' = {}
  /\ UNCHANGED << authorityVars, shutting, listening, handlerVars, saving,
                  owner, disk, historyVars >>

-----------------------------------------------------------------------------
(* The handler thread of connection c.  Until the handshake it waits for a  *)
(* hello: the boot counter is taken without a lock, then the ledger admits. *)
TakeCounter(c) ==
  /\ pc[c] = "hello"
  /\ conn' = [ conn EXCEPT ![c].counter = next_boot ]
  /\ next_boot' = next_boot + 1
  /\ Goto(c, "admitting")
  /\ UNCHANGED << authorityVars, serverVars, sock, request, saving, owner,
                  disk, historyVars >>

Admit(c) ==
  LET w == conn[c].worker
      a == [ epoch |-> epoch, worker |-> w,
             boot |-> AdmittedBoot(w, conn[c].claims, conn[c].counter) ] IN
  /\ pc[c] = "admitting"
  /\ AdmitIncarnation(w, conn[c].claims, conn[c].counter)
  /\ conn' = [ conn EXCEPT ![c] = [ NoConnection EXCEPT !.worker = w,
                                                        !.authority = a ] ]
  /\ issued' = issued \cup { a }
  /\ Goto(c, "ready")
  /\ UNCHANGED << serverVars, sock, request, next_boot, saving, owner, disk,
                  starts, acked >>

(* check_frame_authority, against the epoch of this moment. *)
FrameAuthorityOK(c, a) ==
  /\ a.epoch = epoch
  /\ a.worker = conn[c].authority.worker
  /\ a.boot = conn[c].authority.boot

(* A frame under authority a: when it is not that of the connection, an     *)
(* error reply ends the connection.                                         *)
RefuseFrame(c, a) ==
  /\ pc[c] = "ready" /\ sock[c] = "open"
  /\ a.worker = conn[c].worker /\ ~FrameAuthorityOK(c, a)
  /\ Goto(c, "ending")
  /\ UNCHANGED << authorityVars, serverVars, sock, conn, request, next_boot,
                  saving, owner, disk, historyVars >>

ReceiveAppend(c, id) ==
  /\ pc[c] = "ready" /\ sock[c] = "open"
  /\ FrameAuthorityOK(c, conn[c].authority)
  /\ request' = [ request EXCEPT ![c] = id ]
  /\ Goto(c, "appending")
  /\ UNCHANGED << authorityVars, serverVars, sock, conn, next_boot, saving,
                  owner, disk, historyVars >>

(* A shutdown request is answered at once. *)
ReceiveShutdown(c) ==
  /\ MayStop /\ pc[c] = "ready" /\ sock[c] = "open"
  /\ FrameAuthorityOK(c, conn[c].authority)
  /\ Goto(c, "saving for shutdown")
  /\ UNCHANGED << authorityVars, serverVars, sock, conn, request, next_boot,
                  saving, owner, disk, historyVars >>

(* The append, under the authority of the connection: refused, recognised   *)
(* as a repeat, or committed.  The refusal is answered at once.             *)
AppendAllowed(a) == Authorizes(a) /\ Len(history) < MaxRecords

AppendRefused(c) ==
  /\ pc[c] = "appending" /\ ~AppendAllowed(conn[c].authority)
  /\ request' = [ request EXCEPT ![c] = None ]
  /\ Goto(c, "ready")
  /\ UNCHANGED << authorityVars, serverVars, sock, conn, next_boot, saving,
                  owner, disk, historyVars >>

AppendTaken(c) ==
  /\ pc[c] = "appending" /\ AppendAllowed(conn[c].authority)
  /\ IF Known(request[c]) THEN UNCHANGED authorityVars
     ELSE CommitRecord(conn[c].authority, request[c])
  /\ Goto(c, "replying")
  /\ UNCHANGED << serverVars, sock, conn, request, next_boot, saving, owner,
                  disk, historyVars >>

(* (Mutant: the appended records are left to the final persist.) *)
NeverSaves == "ready"

AfterReply == IF PersistOnAppend THEN "saving" ELSE "ready"

Reply(c) ==
  /\ pc[c] = "replying"
  /\ acked' = IF sock[c] = "open" THEN acked \cup { request[c] } ELSE acked
  /\ request' = [ request EXCEPT ![c] = None ]
  /\ Goto(c, AfterReply)
  /\ UNCHANGED << authorityVars, serverVars, sock, conn, next_boot, saving,
                  owner, disk, starts, issued >>

Copies(c) ==
  /\ pc[c] \in { "saving", "saving for shutdown" } /\ ~Copied(c)
  /\ CopyLedger(c)
  /\ UNCHANGED << authorityVars, serverVars, handlerVars, owner, disk,
                  historyVars >>

Writes(c) ==
  /\ pc[c] \in { "saving", "saving for shutdown" } /\ Copied(c)
  /\ WriteCopy(c)
  /\ Goto(c, IF pc[c] = "saving" THEN "ready" ELSE "requesting shutdown")
  /\ UNCHANGED << authorityVars, serverVars, sock, conn, request, next_boot,
                  owner, starts, issued >>

(* The stream of c ends, in the handshake or after it. *)
EndOfStream(c) ==
  /\ pc[c] \in { "hello", "ready" } /\ sock[c] = "shut"
  /\ Goto(c, "ending")
  /\ UNCHANGED << authorityVars, serverVars, sock, conn, request, next_boot,
                  saving, owner, disk, historyVars >>

End(c) ==
  /\ pc[c] = "ending"
  /\ IF HelloDone(c)
       THEN FenceWorkerBoot(conn[c].worker, conn[c].authority.boot)
       ELSE UNCHANGED authorityVars
  /\ sock' = [ sock EXCEPT ![c] = "shut" ]
  /\ conn' = [ conn EXCEPT ![c] = NoConnection ]
  /\ Goto(c, "done")
  /\ UNCHANGED << serverVars, request, next_boot, saving, owner, disk,
                  historyVars >>

-----------------------------------------------------------------------------
(* request_shutdown(), by a handler or by the embedding program: whoever    *)
(* raises the flag closes the listener and stops the connections listed.    *)
CloseAndStop ==
  /\ listening' = FALSE
  /\ ShutSockets(listed)

HandlerRequestsShutdown(c) ==
  /\ pc[c] = "requesting shutdown"
  /\ shutting' = TRUE
  /\ Goto(c, IF shutting THEN "ready" ELSE "closing")
  /\ UNCHANGED << authorityVars, server, listening, listed, sock, conn,
                  request, next_boot, saving, owner, disk, historyVars >>

HandlerCloses(c) ==
  /\ pc[c] = "closing"
  /\ CloseAndStop
  /\ Goto(c, "ready")
  /\ UNCHANGED << authorityVars, server, shutting, listed, conn, request,
                  next_boot, saving, owner, disk, historyVars >>

OwnerIdle == Up /\ owner = "idle"

OwnerRequestsShutdown ==
  /\ MayStop /\ OwnerIdle /\ ~shutting
  /\ shutting' = TRUE
  /\ owner' = "closing"
  /\ UNCHANGED << authorityVars, server, listening, listed, handlerVars,
                  saving, disk, historyVars >>

OwnerCloses ==
  /\ owner = "closing"
  /\ CloseAndStop
  /\ owner' = "idle"
  /\ UNCHANGED << authorityVars, server, shutting, listed, pc, conn, request,
                  next_boot, saving, disk, historyVars >>

-----------------------------------------------------------------------------
(* What the embedding program does to the ledger: it fences workers, admits *)
(* the local one again, and appends under the local authority, which none   *)
(* of these changes between the moment append() reads it and its commit.    *)
OwnerFences ==
  /\ Managed /\ OwnerIdle
  /\ FenceAllWorkers \/ \E w \in Worker : FenceWorker(w)
  /\ UNCHANGED << serverVars, handlerVars, saving, owner, disk, historyVars >>

OwnerReadmitsLocal ==
  /\ Managed /\ OwnerIdle
  /\ AdmitWorker(LocalWorker, LocalBoot)
  /\ UNCHANGED << serverVars, handlerVars, saving, owner, disk, historyVars >>

OwnerAppends(id) ==
  /\ Managed /\ OwnerIdle
  /\ AppendAllowed(local) /\ ~Known(id)
  /\ local \notin Authors(history)            \* bound: one local record
  /\ CommitRecord(local, id)
  /\ UNCHANGED << serverVars, handlerVars, saving, owner, disk, historyVars >>

-----------------------------------------------------------------------------
(* The worker at the other end of c goes away.  It is seen where the        *)
(* handler reads or writes the connection, so it may as well happen there.  *)
GoesAway(c) ==
  /\ pc[c] \in { "hello", "ready", "replying" } /\ sock[c] = "open"
  /\ sock' = [ sock EXCEPT ![c] = "shut" ]
  /\ UNCHANGED << authorityVars, serverVars, pc, conn, request, next_boot,
                  saving, owner, disk, historyVars >>

(* The boot identities a worker may say it had.  Nothing keeps a worker     *)
(* from connecting as the ledger's own and claiming the boot of that one;   *)
(* any other claim is like none, unless it guesses a boot still to come.    *)
BootsOf(w) ==
  { a.boot : a \in { i \in issued : i.worker = w } }
    \cup (IF w = LocalWorker THEN { LocalBoot } ELSE {})

-----------------------------------------------------------------------------
(* What the process does by itself, and what others do to it *)
ServeStep ==
  Loop \/ List \/ AcceptClosed \/ ServeCopies \/ ServeWrites
       \/ StopConnections \/ Join

HandlerStep(c) ==
  \/ TakeCounter(c) \/ Admit(c)
  \/ AppendRefused(c) \/ AppendTaken(c) \/ Reply(c)
  \/ Copies(c) \/ Writes(c)
  \/ HandlerRequestsShutdown(c) \/ HandlerCloses(c)
  \/ EndOfStream(c) \/ End(c)

OwnerStep ==
  \/ OwnerFences \/ OwnerReadmitsLocal
  \/ \E id \in RecordId : OwnerAppends(id)
  \/ OwnerRequestsShutdown \/ OwnerCloses

Next ==
  \/ Start \/ StartAdvance \/ StartPersist \/ Crash
  \/ ServeStep
  \/ AcceptFailed
  \/ \E w \in Client : \E b \in BootsOf(w) \cup { None } : Accept(w, b)
  \/ \E c \in Conn : HandlerStep(c) \/ GoesAway(c)
  \/ \E c \in Conn :
       \/ \E id \in RecordId : ReceiveAppend(c, id)
       \/ \E a \in issued : RefuseFrame(c, a)
       \/ ReceiveShutdown(c)
  \/ OwnerStep

Spec == Init /\ [][Next]_vars

(* The threads of the process run, and none waits for persist_mutex for     *)
(* ever while others take it again and again.  Nobody has to connect, ask   *)
(* or leave, the embedding program has to do nothing but finish what it     *)
(* began, and the process may be killed or not.                             *)
FairSpec ==
  /\ Spec
  /\ WF_vars(ServeStep) /\ SF_vars(ServeCopies)
  /\ \A c \in Conn : WF_vars(HandlerStep(c)) /\ SF_vars(Copies(c))
  /\ WF_vars(OwnerCloses)
=============================================================================

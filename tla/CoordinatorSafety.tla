------------------------- MODULE CoordinatorSafety --------------------------
(***************************************************************************)
(* What the coordinator process keeps true of its ledger, its incarnations, *)
(* its threads and its file.                                                *)
(***************************************************************************)
EXTENDS Coordinator

Places ==
  { "free", "accepted", "hello", "admitting", "ready", "appending",
    "replying", "saving", "saving for shutdown", "requesting shutdown",
    "closing", "ending", "done" }

(* The state has its types; a handler runs exactly for a connection that    *)
(* was accepted, works under an incarnation the ledger minted, and holds a  *)
(* copy of the ledger only while it persists (cluster.cpp).                 *)
CoordinatorTypeOK ==
  /\ AuthorityTypeOK
  /\ pc \in [ Conn -> Places ]
  /\ sock \in [ Conn -> { "none", "open", "shut" } ]
  /\ \A c \in Conn : pc[c] = "free" <=> sock[c] = "none"
  /\ \A c \in Conn : HelloDone(c) => conn[c].authority \in issued
  /\ \A c \in Conn : Copied(c) => pc[c] \in { "saving", "saving for shutdown" }
  /\ Copied(Serve) => server = "writing"
  /\ disk # None => disk.epoch \in 1..MaxEpoch

(* A record a worker appended is in the file, or a handler has still to     *)
(* write a copy that holds it: whatever the order in which handlers copy    *)
(* and write, none of them returns to its connection before the file holds  *)
(* what it appended (persist and the AppendRequest case of serve).  Records *)
(* of the local boot may be the program's own, which saves when it likes.   *)
WillSave(c, i) ==
  \/ pc[c] = "replying"
  \/ pc[c] = "saving" /\ (Copied(c) => i <= Len(saving[c].history))

WorkerRecordsReachTheFile ==
  Up => \A i \in DOMAIN history :
          \/ history[i].author.boot = LocalBoot
          \/ disk # None /\ i <= Len(disk.history)
          \/ \E c \in Conn : WillSave(c, i)

(* The file never loses a record or goes back to an older epoch: no thread  *)
(* overwrites what a later copy holds with an earlier one (persist).        *)
FileOnlyGrows ==
  [][ disk # None =>
        /\ IsPrefix(disk.history, disk'.history)
        /\ disk.epoch <= disk'.epoch ]_vars

(* An identity that was minted for a worker, and that it no longer holds,   *)
(* is never current again, in this process or after any number of restarts: *)
(* "a restart advances the epoch, so an identity can never be reused across *)
(* coordinator generations" (admit_worker_incarnation, ledger.cpp).  The    *)
(* local boot, which was not minted, comes back: a restart renews it.       *)
IncarnationsNeverReturn ==
  [][ \A a \in issued :
        a.boot # LocalBoot /\ IsCurrent(a.worker, a.boot)' =>
          IsCurrent(a.worker, a.boot) ]_vars

(* A record a worker was told is committed is in the history the            *)
(* coordinator works on, restarts included (README.md, reference            *)
(* deployment proof: "killed and restarted ... committed history is         *)
(* intact").                                                                *)
AckedRecordsSurvive == Up => \A id \in acked : Known(id)

(* Once the shutdown flag is up the process comes to an end: serve()        *)
(* returns with every handler joined, however a connection that is being    *)
(* accepted races with request_shutdown (cluster.hpp: serve "returns when   *)
(* shutdown is requested or when the listener is closed").                  *)
ShutdownCompletes == shutting ~> server \in { "returned", "down" }
=============================================================================

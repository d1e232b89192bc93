------------------------- MODULE CoordinatorProofs --------------------------
(***************************************************************************)
(* What the coordinator keeps true, for any number of workers, connections, *)
(* records, epochs and restarts: its types, the authority of its records,   *)
(* and its file.                                                            *)
(*                                                                         *)
(* The types of the threads and of the file come first (TypeInv), for they  *)
(* need each other: a record is typed because the authority of its          *)
(* connection was handed out, a restored ledger because the file is a copy  *)
(* of an earlier one.  AuthorityInv then says why no incarnation that was   *)
(* minted for a worker can ever come back into the history (FreshInv is the *)
(* part about counters taken without a lock), FileInv why an old copy never *)
(* overwrites a newer one.  Any worker may connect, the local one with its  *)
(* boot included; of the local boot, which is not minted, no such thing is  *)
(* true.                                                                    *)
(***************************************************************************)
EXTENDS CoordinatorSafety, FiniteSetTheorems, TLAPS

-----------------------------------------------------------------------------
(* Types *)
Connection ==
  [ worker : Worker \cup { None }, claims : Boot \cup { None },
    counter : Nat, authority : Authority \cup { None } ]

(* Places of a handler whose handshake is done, and of one yet to come. *)
Established ==
  { "ready", "appending", "replying", "saving", "saving for shutdown",
    "requesting shutdown", "closing" }

Greeting == { "accepted", "hello", "admitting" }

HandlerInv(c) ==
  /\ pc[c] = "free" <=> sock[c] = "none"
  /\ pc[c] \in Greeting => conn[c].worker \in Client
  /\ pc[c] = "admitting" => conn[c].counter # 0
  /\ pc[c] \in Established => HelloDone(c)
  /\ HelloDone(c) => /\ pc[c] \in Established \cup { "ending" }
                     /\ conn[c].authority \in issued
                     /\ conn[c].authority.worker = conn[c].worker
  /\ pc[c] \in { "appending", "replying" } => request[c] \in RecordId

HandlersInv ==
  /\ pc \in [ Conn -> Places ]
  /\ sock \in [ Conn -> { "none", "open", "shut" } ]
  /\ conn \in [ Conn -> Connection ]
  /\ request \in [ Conn -> RecordId \cup { None } ]
  /\ next_boot \in Nat \ { 0 }
  /\ issued \subseteq { a \in Authority : a.worker \in Client }
  /\ \A c \in Conn : HandlerInv(c)

(* Before the coordinator listens no handler runs, nobody saves, and the    *)
(* embedding program is in no request.                                      *)
ProcessInv ==
  ~Up => /\ \A c \in Conn : pc[c] \in { "free", "done" }
         /\ \A t \in Thread : ~Copied(t)
         /\ owner = "idle"

(* persist_mutex: one thread at a time holds a copy, one that is to save. *)
HoldersSave ==
  /\ \A c \in Conn : Copied(c) => pc[c] \in { "saving", "saving for shutdown" }
  /\ Copied(Serve) => server = "writing"

MutexInv ==
  /\ saving \in [ Thread -> Snapshot \cup { None } ]
  /\ HoldersSave
  /\ \A t, u \in Thread : Copied(t) /\ Copied(u) => t = u

(* No record of h is of an epoch after e. *)
WrittenBy(h, e) == \A i \in DOMAIN h : h[i].author.epoch <= e

Loadable(s) ==
  /\ s \in Snapshot /\ s.epoch <= MaxEpoch
  /\ WrittenBy(s.history, s.epoch)

ImagesInv ==
  /\ disk # None => Loadable(disk)
  /\ \A t \in Thread : Copied(t) => Loadable(saving[t])

TypeInv ==
  /\ AuthorityTypeOK /\ epoch <= MaxEpoch
  /\ HandlersInv /\ ProcessInv /\ MutexInv /\ ImagesInv

-----------------------------------------------------------------------------
(* Authority *)

(* An incarnation carries the epoch it was minted in, unless it is the local *)
(* boot, which only the local worker has and which keeps no epoch.          *)
BootFits(w, boot, e) == (w = LocalWorker /\ boot = LocalBoot) \/ boot[1] = e

ViewsInv ==
  /\ local = LocalAt(epoch)
  /\ \A w \in Worker :
       workers[w] # None => BootFits(w, workers[w].boot, workers[w].epoch)

(* A worker without a view has no record. *)
CountsInv ==
  \A w \in Worker :
    CommittedRecords(w) = Cardinality(AuthoredBy(w, history))

(* Nothing is said of the local boot: its caller admits it again at will.   *)
InRuns(h) ==
  \A i, j, k \in DOMAIN h :
    /\ i < j /\ j < k
    /\ h[i].author.boot # LocalBoot
    /\ h[i].author.worker = h[j].author.worker
    /\ h[i].author = h[k].author
    => h[j].author = h[i].author

SoundHistory(h) ==
  /\ \A i \in DOMAIN h :
       BootFits(h[i].author.worker, h[i].author.boot, h[i].author.epoch)
  /\ \A i, j \in DOMAIN h : i < j => h[i].author.epoch <= h[j].author.epoch
  /\ InRuns(h)

(* After a record of a minted incarnation a worker may still use, no other  *)
(* incarnation of the worker has one.                                       *)
LastRun(a) ==
  a.boot # LocalBoot =>
    \A i, j \in DOMAIN history :
      /\ i < j /\ history[i].author = a
      /\ history[j].author.worker = a.worker
      => history[j].author = a

CurrentInv ==
  \A w \in Worker :
    workers[w] # None /\ IsCurrent(w, workers[w].boot) =>
      LastRun([ epoch |-> epoch, worker |-> w, boot |-> workers[w].boot ])

(* The boot identities some view or record has. *)
BootsInUse ==
  { workers[w].boot : w \in { v \in Worker : workers[v] # None } }
    \cup { history[i].author.boot : i \in DOMAIN history }

(* A counter a handler has taken and not used yet is below the next one and *)
(* unlike all others, and no identity minted from it is in use.             *)
Pending(c) == pc[c] = "admitting"

FreshInv ==
  server \notin { "down", "loaded" } =>
    /\ \A boot \in BootsInUse : boot[1] = epoch => boot[2] < next_boot
    /\ \A c \in Conn : Pending(c) =>
         /\ conn[c].counter < next_boot
         /\ MintedBoot(conn[c].counter) \notin BootsInUse
         /\ \A d \in Conn :
              Pending(d) /\ conn[d].counter = conn[c].counter => d = c

LedgerInv == ViewsInv /\ CountsInv /\ SoundHistory(history) /\ CurrentInv

AuthorityInv ==
  /\ LedgerInv /\ FreshInv
  /\ disk # None => SoundHistory(disk.history)
  /\ \A t \in Thread : Copied(t) => SoundHistory(saving[t].history)

-----------------------------------------------------------------------------
(* The file *)

(* s is what the ledger h of epoch e was at some moment. *)
Earlier(s, h, e) == IsPrefix(s.history, h) /\ s.epoch <= e

FileInv ==
  /\ server # "down" /\ disk # None => Earlier(disk, history, epoch)
  /\ server = "loaded" => disk # None
  /\ \A t \in Thread : Copied(t) =>
       /\ Earlier(saving[t], history, epoch)
       /\ disk # None =>
            Earlier(disk, saving[t].history, saving[t].epoch)

(* When every write succeeds: the file is of the epoch of the process from  *)
(* the moment it listens, and of every epoch an incarnation was handed out  *)
(* in; a counter a handler has still to use was never handed out.  A worker *)
(* may be handed the local boot; that one is of no epoch.                   *)
IssuedInv ==
  /\ \A a \in issued : a.boot = LocalBoot \/ a.boot[1] = a.epoch
  /\ issued # {} => disk # None
  /\ \A a \in issued : a.epoch <= disk.epoch
  /\ server = "loaded" => epoch = disk.epoch
  /\ server = "starting" /\ disk # None => disk.epoch < epoch
  /\ Up => disk # None /\ disk.epoch = epoch
  /\ Up => \A a \in issued : a.boot[1] = epoch =>
       /\ a.boot[2] < next_boot
       /\ \A c \in Conn : Pending(c) => conn[c].counter # a.boot[2]

-----------------------------------------------------------------------------
(* Sets of naturals and sequences. *)

LEMMA LeastNatural ==
  ASSUME NEW T, T \subseteq Nat, T # {}
  PROVE  \E x \in T : \A y \in T : x <= y
<1> DEFINE less == { ss \in Nat \X Nat : ss[1] < ss[2] }
<1>1. IsWellFoundedOn(less, Nat)
  BY NatLessThanWellFounded DEF OpToRel
<1> HIDE DEF less
<1>2. \E x \in T : \A y \in T : ~(<< y, x >> \in less)
  <2>1. \A R, S : IsWellFoundedOn(R, S) =>
          \A V : V \subseteq S /\ V # {} =>
            \E x \in V : \A y \in V : ~(<< y, x >> \in R)
    BY WFMin
  <2> QED BY <1>1, <2>1
<1>4. PICK x : x \in T /\ \A y \in T : ~(<< y, x >> \in less)
  BY <1>2
<1>3. ASSUME NEW y \in T PROVE x <= y
  <2>1. x \in Nat /\ y \in Nat /\ ~(<< y, x >> \in less)
    BY <1>4, <1>3
  <2>2. y < x => << y, x >> \in less
    BY <2>1 DEF less
  <2> QED BY <2>1, <2>2
<1> QED BY <1>3, <1>4

LEMMA GreatestIndex ==
  ASSUME NEW n \in Nat, NEW T, T \subseteq 1 .. n, T # {}
  PROVE  \E x \in T : \A y \in T : y <= x
<1> DEFINE U == { k \in 0 .. n : n - k \in T }
<1>1. U \subseteq Nat /\ U # {}
  <2>1. \E x : x \in T
    OBVIOUS
  <2>4. PICK x : x \in T /\ x \in 1 .. n
    BY <2>1
  <2>3. n - x \in 0 .. n /\ n - (n - x) = x
    BY <2>4
  <2>5. n - x \in U
    BY <2>3, <2>4
  <2> QED BY <2>5
<1>2. PICK k \in U : \A j \in U : k <= j
  BY <1>1, LeastNatural
<1>3. ASSUME NEW y \in T PROVE y <= n - k
  <2>1. y \in 1 .. n
    BY <1>3
  <2>2. n - y \in 0 .. n /\ n - (n - y) = y
    BY <2>1
  <2>3. n - y \in U
    BY <1>3, <2>2
  <2>4. k <= n - y /\ k \in 0 .. n
    BY <1>2, <2>3
  <2> QED BY <2>1, <2>4
<1>4. n - k \in T
  BY <1>2
<1> QED BY <1>3, <1>4

LEMMA PrefixIs ==
  ASSUME NEW S, NEW s \in Seq(S), NEW t \in Seq(S)
  PROVE IsPrefix(s, t) <=> Len(s) <= Len(t) /\ \A i \in 1 .. Len(s) : s[i] = t[i]
<1>1. Len(s) \in Nat /\ Len(t) \in Nat
  OBVIOUS
<1>2. SubSeq(s, 1, Len(s)) = s
  OBVIOUS
<1>3. ASSUME Len(s) <= Len(t) PROVE SubSeq(t, 1, Len(s)) = [i \in 1 .. Len(s) |-> t[i]]
  BY <1>1, <1>3
<1>4. s = [i \in 1 .. Len(s) |-> s[i]]
  OBVIOUS
<1>5. ASSUME Len(s) <= Len(t), s = [i \in 1 .. Len(s) |-> t[i]], NEW i \in 1 .. Len(s) PROVE s[i] = t[i]
  BY <1>5
<1>6. ASSUME Len(s) <= Len(t), \A i \in 1 .. Len(s) : s[i] = t[i] PROVE s = [i \in 1 .. Len(s) |-> t[i]]
  BY <1>6, <1>4
<1> QED BY <1>1, <1>2, <1>3, <1>5, <1>6 DEF IsPrefix

-----------------------------------------------------------------------------
(* Each operation of the ledger keeps the types of its authority. *)

LEMMA ViewsAreTyped ==
  ASSUME AuthorityTypeOK, NEW w \in Worker
  PROVE  /\ workers[w] # None =>
              /\ workers[w] \in WorkerView /\ workers[w].epoch <= epoch
              /\ workers[w].boot \in Boot
              /\ workers[w].committed_records \in Nat
         /\ CommittedRecords(w) \in Nat
BY DEF AuthorityTypeOK, WorkerView, CommittedRecords

LEMMA AdmittedTyped ==
  ASSUME AuthorityTypeOK, NEW boot \in Boot, NEW n \in Nat
  PROVE  /\ Admitted(boot, n) \in WorkerView /\ Admitted(boot, n) # None
         /\ Admitted(boot, n).epoch = epoch
<1>1. epoch \in Nat \ { 0 }
  BY DEF AuthorityTypeOK
<1>2. Admitted(boot, n) \in WorkerView /\ Admitted(boot, n).epoch = epoch
  BY <1>1 DEF Admitted, WorkerView
<1> QED BY <1>2, NoneAssumption

LEMMA AdmitWorkerTypes ==
  ASSUME AuthorityTypeOK, NEW w \in Worker, NEW boot \in Boot,
         AdmitWorker(w, boot)
  PROVE  AuthorityTypeOK'
<1>1. /\ epoch' = epoch /\ history' = history
      /\ local' \in Authority /\ local'.epoch = epoch
  BY DEF AdmitWorker, AuthorityTypeOK, Authority
<1>2. DOMAIN workers' = Worker
  BY DEF AdmitWorker, AuthorityTypeOK
<1>3. ASSUME NEW v \in Worker, workers'[v] # None
      PROVE  workers'[v] \in WorkerView /\ workers'[v].epoch <= epoch
  <2>1. \/ workers'[v] = workers[v]
        \/ workers'[v] = Admitted(boot, CommittedRecords(w))
    BY <1>3 DEF AdmitWorker, AuthorityTypeOK
  <2>2. epoch \in Nat
    BY DEF AuthorityTypeOK
  <2> QED BY <1>3, <2>1, <2>2, ViewsAreTyped, AdmittedTyped
<1> QED BY <1>1, <1>2, <1>3 DEF AuthorityTypeOK

LEMMA AdmitIncarnationTypes ==
  ASSUME AuthorityTypeOK, NEW w \in Worker, NEW previous,
         NEW counter \in Nat \ { 0 }, AdmitIncarnation(w, previous, counter)
  PROVE  AuthorityTypeOK'
<1>1. /\ epoch' = epoch /\ history' = history /\ local' = local
  BY DEF AdmitIncarnation
<1>2. DOMAIN workers' = Worker
  BY DEF AdmitIncarnation, AuthorityTypeOK
<1>3. ASSUME NEW v \in Worker, workers'[v] # None
      PROVE  workers'[v] \in WorkerView /\ workers'[v].epoch <= epoch
  <2>1. \/ workers'[v] = workers[v]
        \/ workers'[v] = Admitted(MintedBoot(counter), CommittedRecords(w))
    BY <1>3 DEF AdmitIncarnation, AuthorityTypeOK, InheritedRecords
  <2>2. epoch \in Nat \ { 0 }
    BY DEF AuthorityTypeOK
  <2>3. MintedBoot(counter) \in Boot
    BY <2>2 DEF MintedBoot, Boot
  <2> QED BY <1>3, <2>1, <2>2, <2>3, ViewsAreTyped, AdmittedTyped
<1> QED BY <1>1, <1>2, <1>3 DEF AuthorityTypeOK

LEMMA FencingTypes ==
  ASSUME AuthorityTypeOK,
         \/ FenceAllWorkers
         \/ \E w \in Worker : FenceWorker(w)
         \/ \E w \in Worker, boot \in Boot : FenceWorkerBoot(w, boot)
  PROVE  /\ AuthorityTypeOK'
         /\ epoch' = epoch /\ local' = local /\ history' = history
         /\ \A v \in Worker :
              \/ workers'[v] = workers[v]
              \/ /\ workers[v] # None /\ workers'[v] # None
                 /\ workers'[v] = [ workers[v] EXCEPT !.live = FALSE ]
<1>1. /\ epoch' = epoch /\ history' = history /\ local' = local
  BY DEF FenceAllWorkers, FenceWorker, FenceWorkerBoot
<1>2. DOMAIN workers' = Worker
  BY DEF FenceAllWorkers, FenceWorker, FenceWorkerBoot, AuthorityTypeOK
<1>3. ASSUME NEW v \in Worker
      PROVE  \/ workers'[v] = workers[v]
             \/ /\ workers[v] # None
                /\ workers'[v] = [ workers[v] EXCEPT !.live = FALSE ]
  <2>1. CASE FenceAllWorkers
    BY <1>3, <2>1 DEF FenceAllWorkers, Fenced
  <2>2. ASSUME NEW w \in Worker, FenceWorker(w)
        PROVE  <1>3!2
    BY <1>3, <2>2 DEF FenceWorker, AuthorityTypeOK
  <2>3. ASSUME NEW w \in Worker, NEW boot \in Boot, FenceWorkerBoot(w, boot)
        PROVE  <1>3!2
    BY <1>3, <2>3 DEF FenceWorkerBoot, AuthorityTypeOK
  <2> QED BY <2>1, <2>2, <2>3
<1>4. ASSUME NEW v \in Worker, workers[v] # None,
             workers'[v] = [ workers[v] EXCEPT !.live = FALSE ]
      PROVE  /\ workers'[v] \in WorkerView /\ workers'[v].epoch <= epoch
             /\ workers'[v] # None
  BY <1>4, NoneAssumption DEF AuthorityTypeOK, WorkerView
<1> QED BY <1>1, <1>2, <1>3, <1>4 DEF AuthorityTypeOK

LEMMA AdvanceTypes ==
  ASSUME AuthorityTypeOK, AdvanceEpoch
  PROVE  AuthorityTypeOK'
<1>1. epoch \in Nat \ { 0 } /\ epoch' = epoch + 1 /\ history' = history
  BY DEF AdvanceEpoch, AuthorityTypeOK
<1>2. local' \in Authority /\ local'.epoch = epoch + 1
      /\ local.boot \in Boot
  BY <1>1 DEF AdvanceEpoch, RenewedLocal, AuthorityTypeOK, Authority
<1>3. DOMAIN workers' = Worker
  BY DEF AdvanceEpoch
<1>4. ASSUME NEW v \in Worker, workers'[v] # None
      PROVE  workers'[v] \in WorkerView /\ workers'[v].epoch <= epoch + 1
  <2>1. CASE v = local.worker
    <3>1. workers'[v] = [ boot |-> local.boot, epoch |-> epoch + 1,
                          live |-> TRUE,
                          committed_records |-> CommittedRecords(v) ]
      BY <2>1 DEF AdvanceEpoch
    <3> QED BY <1>1, <1>2, <3>1, ViewsAreTyped DEF WorkerView
  <2>2. CASE v # local.worker
    <3>1. workers'[v] = Fenced(workers[v])
      BY <2>2 DEF AdvanceEpoch
    <3>2. /\ workers[v] # None
          /\ workers'[v] = [ workers[v] EXCEPT !.live = FALSE ]
      BY <1>4, <3>1 DEF Fenced
    <3>3. workers[v] \in WorkerView /\ workers[v].epoch <= epoch
      BY <3>2, ViewsAreTyped
    <3>4. workers[v].epoch \in Nat
      BY <3>3 DEF WorkerView
    <3>5. /\ workers'[v] \in WorkerView
          /\ workers'[v].epoch = workers[v].epoch
      BY <3>2, <3>3 DEF WorkerView
    <3>6. workers[v].epoch <= epoch + 1
      BY <1>1, <3>3, <3>4
    <3> QED BY <3>5, <3>6
  <2> QED BY <2>1, <2>2
<1>5. ASSUME NEW i \in DOMAIN history
      PROVE  history[i].author.epoch <= epoch + 1
  <2>1. history[i] \in HistoryRecord /\ history[i].author.epoch <= epoch
    BY <1>5 DEF AuthorityTypeOK
  <2>2. history[i].author.epoch \in Nat
    BY <2>1 DEF HistoryRecord, Authority
  <2> QED BY <1>1, <2>1, <2>2
<1> QED BY <1>1, <1>2, <1>3, <1>4, <1>5 DEF AuthorityTypeOK

LEMMA CommitTypes ==
  ASSUME AuthorityTypeOK, NEW a \in Authority, a.epoch = epoch,
         NEW id \in RecordId, CommitRecord(a, id)
  PROVE  /\ AuthorityTypeOK'
         /\ epoch' = epoch /\ local' = local
         /\ Len(history') = Len(history) + 1
         /\ \A i \in 1 .. Len(history) : history'[i] = history[i]
         /\ history'[Len(history) + 1] = [ id |-> id, author |-> a ]
<1>1. /\ epoch' = epoch /\ local' = local
      /\ history \in Seq(HistoryRecord) /\ Len(history) \in Nat
      /\ [ id |-> id, author |-> a ] \in HistoryRecord
      /\ history' = Append(history, [ id |-> id, author |-> a ])
  BY DEF CommitRecord, AuthorityTypeOK, HistoryRecord
<1>2. /\ history' \in Seq(HistoryRecord)
      /\ Len(history') = Len(history) + 1
      /\ \A i \in 1 .. Len(history) : history'[i] = history[i]
      /\ history'[Len(history) + 1] = [ id |-> id, author |-> a ]
  BY <1>1
<1>3. \A i \in DOMAIN history' : history'[i].author.epoch <= epoch
  <2>1. ASSUME NEW i \in 1 .. Len(history')
        PROVE  history'[i].author.epoch <= epoch
    <3>1. CASE i = Len(history) + 1
      BY <1>2, <3>1 DEF AuthorityTypeOK
    <3>2. CASE i # Len(history) + 1
      BY <1>1, <1>2, <2>1, <3>2 DEF AuthorityTypeOK
    <3> QED BY <3>1, <3>2
  <2> QED BY <1>2, <2>1
<1>4. DOMAIN workers' = Worker /\ a.worker \in Worker
  BY DEF CommitRecord, AuthorityTypeOK, Authority
<1>5. ASSUME NEW v \in Worker, workers'[v] # None
      PROVE  workers'[v] \in WorkerView /\ workers'[v].epoch <= epoch
  <2>1. CASE workers'[v] = workers[v]
    BY <1>5, <2>1, ViewsAreTyped
  <2>2. CASE /\ workers[v] # None
             /\ workers'[v] = [ workers[v] EXCEPT !.committed_records = @ + 1 ]
    BY <2>2, ViewsAreTyped DEF WorkerView
  <2> QED BY <1>4, <1>5, <2>1, <2>2 DEF CommitRecord, AuthorityTypeOK
<1> QED BY <1>1, <1>2, <1>3, <1>4, <1>5 DEF AuthorityTypeOK

LEMMA CreateTypes ==
  ASSUME \/ Create
         \/ /\ epoch' = 1 /\ local' = LocalAt(1)
            /\ workers' = [ w \in Worker |-> None ] /\ history' = << >>
  PROVE  AuthorityTypeOK'
<1>1. epoch' = 1 /\ local' = LocalAt(1) /\ history' = << >>
      /\ DOMAIN workers' = Worker
  BY DEF Create
<1>2. \A w \in Worker : workers'[w] # None => workers'[w] = LocalView(1)
  BY DEF Create
<1>3. /\ LocalAt(1) \in Authority /\ LocalAt(1).epoch = 1
      /\ LocalView(1) \in WorkerView /\ LocalView(1).epoch = 1
  BY LocalAssumption DEF LocalAt, LocalView, Authority, WorkerView, Boot
<1>4. << >> \in Seq(HistoryRecord) /\ DOMAIN << >> = {}
  OBVIOUS
<1> QED BY <1>1, <1>2, <1>3, <1>4 DEF AuthorityTypeOK

(* The last record of a worker there is; restore rebuilds its view from it. *)
LEMMA LastAuthored ==
  ASSUME NEW h \in Seq(HistoryRecord), NEW w, AuthoredBy(w, h) # {}
  PROVE  \E last \in AuthoredBy(w, h) :
           /\ h[last] \in HistoryRecord
           /\ \A j \in AuthoredBy(w, h) : j <= last
           /\ Historical(w, h) =
                [ boot |-> h[last].author.boot,
                  epoch |-> h[last].author.epoch, live |-> FALSE,
                  committed_records |-> Cardinality(AuthoredBy(w, h)) ]
<1> DEFINE A == AuthoredBy(w, h)
<1>1. Len(h) \in Nat /\ A \subseteq 1 .. Len(h)
  BY DEF AuthoredBy
<1>2. \E x \in A : \A j \in A : j <= x
  BY <1>1, GreatestIndex
<1> DEFINE last == CHOOSE i \in A : \A j \in A : j <= i
<1>3. last \in A /\ \A j \in A : j <= last
  BY <1>2
<1>4. h[last] \in HistoryRecord
  BY <1>1, <1>3
<1>5. Historical(w, h) =
        [ boot |-> h[last].author.boot, epoch |-> h[last].author.epoch,
          live |-> FALSE,
          committed_records |-> Cardinality(AuthoredBy(w, h)) ]
  BY DEF Historical
<1> QED BY <1>3, <1>4, <1>5

LEMMA AuthoredIsFinite ==
  ASSUME NEW S, NEW h \in Seq(S), NEW w
  PROVE  /\ IsFiniteSet(AuthoredBy(w, h))
         /\ Cardinality(AuthoredBy(w, h)) \in Nat
<1>1. Len(h) \in Nat /\ AuthoredBy(w, h) \subseteq 1 .. Len(h)
  BY DEF AuthoredBy
<1>2. IsFiniteSet(1 .. Len(h))
  BY <1>1, FS_Interval
<1>3. IsFiniteSet(AuthoredBy(w, h))
  BY <1>1, <1>2, FS_Subset
<1> QED BY <1>3, FS_CardinalityType

LEMMA RestoreTypes ==
  ASSUME NEW h \in Seq(HistoryRecord), NEW e \in Nat \ { 0 },
         WrittenBy(h, e), Restore(h, e)
  PROVE  AuthorityTypeOK'
<1>1. epoch' = e /\ local' = LocalAt(e) /\ history' = h
      /\ DOMAIN workers' = Worker
  BY DEF Restore
<1>2. ASSUME NEW w \in Worker, workers'[w] # None
      PROVE  workers'[w] \in WorkerView /\ workers'[w].epoch <= e
  <2>1. CASE workers'[w] = LocalView(e)
    BY <2>1 DEF LocalView, WorkerView, Boot
  <2>2. CASE AuthoredBy(w, h) # {} /\ workers'[w] = Historical(w, h)
    <3>1. PICK last :
             /\ last \in AuthoredBy(w, h)
             /\ h[last] \in HistoryRecord
             /\ Historical(w, h) =
                  [ boot |-> h[last].author.boot,
                    epoch |-> h[last].author.epoch, live |-> FALSE,
                    committed_records |-> Cardinality(AuthoredBy(w, h)) ]
      BY <2>2, LastAuthored
    <3>2. h[last].author \in Authority /\ h[last].author.epoch <= e
      BY <3>1 DEF HistoryRecord, WrittenBy, AuthoredBy
    <3>3. Cardinality(AuthoredBy(w, h)) \in Nat
      BY AuthoredIsFinite
    <3> QED BY <2>2, <3>1, <3>2, <3>3 DEF WorkerView, Authority
  <2> QED BY <1>2, <2>1, <2>2 DEF Restore
<1> QED BY <1>1, <1>2, LocalAssumption
        DEF AuthorityTypeOK, LocalAt, Authority, Boot, WrittenBy

-----------------------------------------------------------------------------
(* The threads.  What a step may do to the threads is one of these.         *)

(* Handler c goes on to a place, and nothing else of a handler changes. *)
GoesOn(c, place) ==
  /\ pc' = [ pc EXCEPT ![c] = place ]
  /\ UNCHANGED << sock, conn, next_boot, issued >>

(* Sockets are shut, and no handler moves. *)
ShutsSome ==
  /\ \A c \in Conn : \/ sock'[c] = sock[c]
                      \/ (sock'[c] = "shut" /\ pc[c] # "free")
  /\ sock' \in [ Conn -> { "none", "open", "shut" } ]

LEMMA ShuttingShutsSome ==
  ASSUME HandlersInv, NEW cs, ShutSockets(cs)
  PROVE  ShutsSome
<1>1. sock' = [ c \in Conn |-> IF c \in cs /\ sock[c] = "open" THEN "shut"
                               ELSE sock[c] ]
  BY DEF ShutSockets
<1>2. ASSUME NEW c \in Conn
      PROVE  /\ \/ sock'[c] = sock[c]
                \/ (sock'[c] = "shut" /\ pc[c] # "free")
             /\ sock'[c] \in { "none", "open", "shut" }
  <2>1. sock[c] \in { "none", "open", "shut" } /\ HandlerInv(c)
    BY DEF HandlersInv
  <2> QED BY <1>1, <1>2, <2>1 DEF HandlerInv
<1> QED BY <1>1, <1>2 DEF ShutsSome

LEMMA HandlersStay ==
  ASSUME HandlersInv, UNCHANGED << handlerVars, issued >>
  PROVE  HandlersInv'
BY DEF HandlersInv, HandlerInv, handlerVars, HelloDone

LEMMA HandlersGoOn ==
  ASSUME HandlersInv, NEW c \in Conn, NEW place, GoesOn(c, place),
         place \in Established \cup { "ending", "hello" },
         pc[c] # "free",
         place = "hello" => pc[c] = "accepted",
         place \in Established => pc[c] \in Established,
         request' \in [ Conn -> RecordId \cup { None } ],
         \A d \in Conn : d # c => request'[d] = request[d],
         place \in { "appending", "replying" } => request'[c] \in RecordId
  PROVE  HandlersInv'
<1>1. /\ pc' \in [ Conn -> Places ]
      /\ pc'[c] = place
      /\ \A d \in Conn : d # c => pc'[d] = pc[d]
  BY DEF GoesOn, HandlersInv, Places, Established
<1>2. ASSUME NEW d \in Conn
      PROVE  HandlerInv(d)'
  <2>1. CASE d = c
    BY <1>1, <2>1 DEF GoesOn, HandlersInv, HandlerInv, HelloDone,
       Established, Greeting
  <2>2. CASE d # c
    BY <1>1, <2>2 DEF GoesOn, HandlersInv, HandlerInv, HelloDone
  <2> QED BY <2>1, <2>2
<1> QED BY <1>1, <1>2 DEF GoesOn, HandlersInv

LEMMA HandlersShut ==
  ASSUME HandlersInv, ShutsSome,
         UNCHANGED << conn, request, next_boot, issued >>,
         \/ pc' = pc
         \/ \E c \in Conn : /\ pc[c] = "closing"
                            /\ pc' = [ pc EXCEPT ![c] = "ready" ]
  PROVE  HandlersInv'
<1>1. /\ pc' \in [ Conn -> Places ]
      /\ \A d \in Conn : \/ pc'[d] = pc[d]
                         \/ (pc[d] = "closing" /\ pc'[d] = "ready")
  BY DEF HandlersInv, Places
<1>2. ASSUME NEW d \in Conn
      PROVE  HandlerInv(d)'
  <2>1. \/ sock'[d] = sock[d]
        \/ (sock'[d] = "shut" /\ pc[d] # "free")
    BY DEF ShutsSome
  <2> QED BY <1>1, <2>1 DEF HandlersInv, HandlerInv, HelloDone,
             Established, Greeting
<1> QED BY <1>1, <1>2 DEF HandlersInv, ShutsSome

(* The first connection nobody has used is one. *)
LEMMA FirstUnused ==
  ASSUME Unused # {}
  PROVE  Min(Unused) \in Conn /\ pc[Min(Unused)] = "free"
<1>1. Unused \subseteq Conn /\ Unused \subseteq Nat
  BY CoordinatorAssumption DEF Unused, Conn
<1>2. \E x \in Unused : \A y \in Unused : x <= y
  BY <1>1, LeastNatural
<1>3. Min(Unused) \in Unused
  BY <1>2 DEF Min
<1> QED BY <1>3 DEF Unused

LEMMA HandlersAccept ==
  ASSUME HandlersInv, NEW w \in Client, NEW b \in BootsOf(w) \cup { None },
         Accept(w, b)
  PROVE  HandlersInv'
<1> DEFINE c == Min(Unused)
<1>1. c \in Conn /\ pc[c] = "free"
  BY FirstUnused DEF Accept
<1>2. /\ pc' = [ pc EXCEPT ![c] = "accepted" ]
      /\ sock' = [ sock EXCEPT ![c] = "open" ]
      /\ conn' = [ conn EXCEPT ![c].worker = w, ![c].claims = b ]
      /\ UNCHANGED << request, next_boot, issued >>
  BY DEF Accept, Goto, historyVars
<1> HIDE DEF c
<1>3. b \in Boot \cup { None } /\ w \in Worker
  <2>1. LocalBoot \in Boot
    BY DEF Boot
  <2>2. \A a \in issued : a.boot \in Boot
    BY DEF HandlersInv, Authority
  <2> QED BY <2>1, <2>2, CoordinatorAssumption DEF BootsOf
<1>4. conn[c] \in Connection
  BY <1>1 DEF HandlersInv
<1>5. /\ conn' \in [ Conn -> Connection ]
      /\ conn'[c].worker = w /\ conn'[c].authority = conn[c].authority
      /\ \A d \in Conn : d # c => conn'[d] = conn[d]
  BY <1>1, <1>2, <1>3, <1>4 DEF HandlersInv, Connection
<1>6. /\ pc' \in [ Conn -> Places ]
      /\ sock' \in [ Conn -> { "none", "open", "shut" } ]
      /\ pc'[c] = "accepted" /\ sock'[c] = "open"
      /\ \A d \in Conn : d # c => pc'[d] = pc[d] /\ sock'[d] = sock[d]
  BY <1>1, <1>2 DEF HandlersInv, Places
<1>7. ASSUME NEW d \in Conn
      PROVE  HandlerInv(d)'
  <2>1. CASE d = c
    <3>1. HandlerInv(c)
      BY <1>1 DEF HandlersInv
    <3> QED BY <1>1, <1>2, <1>5, <1>6, <2>1, <3>1 DEF HandlerInv, HelloDone,
            Established, Greeting
  <2>2. CASE d # c
    BY <1>2, <1>5, <1>6, <2>2 DEF HandlersInv, HandlerInv, HelloDone
  <2> QED BY <2>1, <2>2
<1> QED BY <1>2, <1>5, <1>6, <1>7 DEF HandlersInv

LEMMA HandlersTakeCounter ==
  ASSUME HandlersInv, NEW c \in Conn, TakeCounter(c)
  PROVE  HandlersInv'
<1>1. /\ pc[c] = "hello" /\ pc' = [ pc EXCEPT ![c] = "admitting" ]
      /\ conn' = [ conn EXCEPT ![c].counter = next_boot ]
      /\ next_boot' = next_boot + 1
      /\ UNCHANGED << sock, request, issued >>
  BY DEF TakeCounter, Goto, historyVars
<1>2. conn[c] \in Connection /\ next_boot \in Nat \ { 0 }
  BY DEF HandlersInv
<1>3. /\ conn' \in [ Conn -> Connection ]
      /\ conn'[c].counter = next_boot
      /\ conn'[c].worker = conn[c].worker
      /\ conn'[c].authority = conn[c].authority
      /\ \A d \in Conn : d # c => conn'[d] = conn[d]
  BY <1>1, <1>2 DEF HandlersInv, Connection
<1>4. /\ pc' \in [ Conn -> Places ] /\ pc'[c] = "admitting"
      /\ \A d \in Conn : d # c => pc'[d] = pc[d]
  BY <1>1 DEF HandlersInv, Places
<1>5. ASSUME NEW d \in Conn
      PROVE  HandlerInv(d)'
  <2>1. CASE d = c
    <3>1. HandlerInv(c)
      BY DEF HandlersInv
    <3> QED BY <1>1, <1>2, <1>3, <1>4, <2>1, <3>1 DEF HandlerInv, HelloDone,
            Established, Greeting
  <2>2. CASE d # c
    BY <1>1, <1>3, <1>4, <2>2 DEF HandlersInv, HandlerInv, HelloDone
  <2> QED BY <2>1, <2>2
<1> QED BY <1>1, <1>2, <1>3, <1>4, <1>5 DEF HandlersInv

(* What Admit hands out. *)
LEMMA AdmitHandsOut ==
  ASSUME AuthorityTypeOK, HandlersInv, NEW c \in Conn, Admit(c)
  PROVE  LET w == conn[c].worker
             a == conn'[c].authority IN
         /\ pc[c] = "admitting" /\ pc' = [ pc EXCEPT ![c] = "ready" ]
         /\ w \in Client /\ w \in Worker
         /\ conn[c].counter \in Nat \ { 0 }
         /\ AdmitIncarnation(w, conn[c].claims, conn[c].counter)
         /\ a = [ epoch |-> epoch, worker |-> w,
                  boot |-> AdmittedBoot(w, conn[c].claims, conn[c].counter) ]
         /\ a \in Authority
         /\ conn' = [ conn EXCEPT ![c] =
                        [ NoConnection EXCEPT !.worker = w, !.authority = a ] ]
         /\ issued' = issued \cup { a }
         /\ UNCHANGED << sock, request, next_boot >>
<1> DEFINE w == conn[c].worker
           a == [ epoch |-> epoch, worker |-> w,
                  boot |-> AdmittedBoot(w, conn[c].claims, conn[c].counter) ]
<1>1. /\ pc[c] = "admitting" /\ pc' = [ pc EXCEPT ![c] = "ready" ]
      /\ AdmitIncarnation(w, conn[c].claims, conn[c].counter)
      /\ conn' = [ conn EXCEPT ![c] =
                     [ NoConnection EXCEPT !.worker = w, !.authority = a ] ]
      /\ issued' = issued \cup { a }
      /\ UNCHANGED << sock, request, next_boot >>
  BY DEF Admit, Goto
<1>2. /\ conn[c] \in Connection /\ w \in Client /\ w \in Worker
      /\ conn[c].counter \in Nat \ { 0 }
  BY <1>1, CoordinatorAssumption
     DEF HandlersInv, HandlerInv, Connection, Greeting
<1>3. AdmittedBoot(w, conn[c].claims, conn[c].counter) \in Boot
  <2>1. epoch \in Nat \ { 0 }
    BY DEF AuthorityTypeOK
  <2>2. MintedBoot(conn[c].counter) \in Boot
    BY <1>2, <2>1 DEF MintedBoot, Boot
  <2>3. IsCurrent(w, conn[c].claims) => conn[c].claims \in Boot
    BY <1>2, ViewsAreTyped DEF IsCurrent
  <2> QED BY <2>2, <2>3 DEF AdmittedBoot
<1>4. a \in Authority
  BY <1>2, <1>3 DEF AuthorityTypeOK, Authority
<1>5. conn'[c].authority = a
  BY <1>1 DEF HandlersInv, NoConnection
<1> QED BY <1>1, <1>2, <1>4, <1>5

LEMMA HandlersAdmit ==
  ASSUME AuthorityTypeOK, HandlersInv, NEW c \in Conn, Admit(c)
  PROVE  HandlersInv'
<1> DEFINE w == conn[c].worker
           a == conn'[c].authority
<1>1. /\ pc[c] = "admitting" /\ pc' = [ pc EXCEPT ![c] = "ready" ]
      /\ w \in Client /\ w \in Worker /\ a \in Authority /\ a.worker = w
      /\ conn' = [ conn EXCEPT ![c] =
                     [ NoConnection EXCEPT !.worker = w, !.authority = a ] ]
      /\ issued' = issued \cup { a }
      /\ UNCHANGED << sock, request, next_boot >>
  <2>1. a = [ epoch |-> epoch, worker |-> w,
              boot |-> AdmittedBoot(w, conn[c].claims, conn[c].counter) ]
    BY AdmitHandsOut
  <2>2. a.worker = w
    BY <2>1
  <2> QED BY <2>2, AdmitHandsOut
<1>2. /\ conn' \in [ Conn -> Connection ] /\ conn'[c].worker = w
      /\ \A d \in Conn : d # c => conn'[d] = conn[d]
  <2>1. [ NoConnection EXCEPT !.worker = w, !.authority = a ] \in Connection
    BY <1>1 DEF NoConnection, Connection
  <2> QED BY <1>1, <2>1 DEF HandlersInv, NoConnection
<1>3. /\ pc' \in [ Conn -> Places ] /\ pc'[c] = "ready"
      /\ \A d \in Conn : d # c => pc'[d] = pc[d]
  BY <1>1 DEF HandlersInv, Places
<1>4. a # None
  BY <1>1, NoneAssumption
<1>5. ASSUME NEW d \in Conn
      PROVE  HandlerInv(d)'
  <2>1. CASE d = c
    <3>1. HandlerInv(c)
      BY DEF HandlersInv
    <3> QED BY <1>1, <1>2, <1>3, <1>4, <2>1, <3>1 DEF HandlerInv, HelloDone,
            Established, Greeting
  <2>2. CASE d # c
    BY <1>1, <1>2, <1>3, <2>2 DEF HandlersInv, HandlerInv, HelloDone
  <2> QED BY <2>1, <2>2
<1> QED BY <1>1, <1>2, <1>3, <1>5 DEF HandlersInv

LEMMA HandlersEnd ==
  ASSUME HandlersInv, NEW c \in Conn, End(c)
  PROVE  HandlersInv'
<1>1. /\ pc[c] = "ending" /\ pc' = [ pc EXCEPT ![c] = "done" ]
      /\ sock' = [ sock EXCEPT ![c] = "shut" ]
      /\ conn' = [ conn EXCEPT ![c] = NoConnection ]
      /\ UNCHANGED << request, next_boot, issued >>
  BY DEF End, Goto, historyVars
<1>2. NoConnection \in Connection /\ NoConnection.authority = None
  BY DEF NoConnection, Connection
<1>3. /\ conn' \in [ Conn -> Connection ] /\ conn'[c] = NoConnection
      /\ \A d \in Conn : d # c => conn'[d] = conn[d]
  BY <1>1, <1>2 DEF HandlersInv
<1>4. /\ pc' \in [ Conn -> Places ] /\ pc'[c] = "done"
      /\ sock' \in [ Conn -> { "none", "open", "shut" } ]
      /\ sock'[c] = "shut"
      /\ \A d \in Conn : d # c => pc'[d] = pc[d] /\ sock'[d] = sock[d]
  BY <1>1 DEF HandlersInv, Places
<1>5. ASSUME NEW d \in Conn
      PROVE  HandlerInv(d)'
  <2>1. CASE d = c
    BY <1>2, <1>3, <1>4, <2>1 DEF HandlerInv, HelloDone, Established, Greeting
  <2>2. CASE d # c
    BY <1>1, <1>3, <1>4, <2>2 DEF HandlersInv, HandlerInv, HelloDone
  <2> QED BY <2>1, <2>2
<1> QED BY <1>1, <1>3, <1>4, <1>5 DEF HandlersInv

LEMMA HandlersOfNoProcess ==
  ASSUME HandlersInv, NoProcess, UNCHANGED issued
  PROVE  /\ HandlersInv'
         /\ \A c \in Conn : pc'[c] \in { "free", "done" }
         /\ \A t \in Thread : saving'[t] = None
<1>1. /\ pc' \in [ Conn -> Places ]
      /\ sock' \in [ Conn -> { "none", "open", "shut" } ]
      /\ conn' \in [ Conn -> Connection ]
      /\ request' \in [ Conn -> RecordId \cup { None } ]
      /\ next_boot' \in Nat \ { 0 }
  BY DEF NoProcess, Places, Connection, NoConnection
<1>2. \A c \in Conn : /\ pc'[c] \in { "free", "done" }
                      /\ HandlerInv(c)'
  BY DEF NoProcess, HandlerInv, HelloDone, NoConnection, Established, Greeting
<1> QED BY <1>1, <1>2 DEF HandlersInv, NoProcess

-----------------------------------------------------------------------------
(* What a step of a process that listens may do, besides its end.           *)

Boundary == Start \/ StartAdvance \/ StartPersist \/ Crash

Fences ==
  \/ FenceAllWorkers
  \/ \E w \in Worker : FenceWorker(w)
  \/ \E w \in Worker, boot \in Boot : FenceWorkerBoot(w, boot)

Commits ==
  \E a \in Authority, id \in RecordId :
    a.epoch = epoch /\ IsCurrent(a.worker, a.boot) /\ CommitRecord(a, id)

AuthorityMoves ==
  \/ UNCHANGED authorityVars
  \/ \E c \in Conn : Admit(c)
  \/ AdmitWorker(LocalWorker, LocalBoot)
  \/ Fences
  \/ Commits

FileMoves ==
  \/ UNCHANGED << disk, saving >>
  \/ \E t \in Thread : CopyLedger(t) /\ UNCHANGED << disk, authorityVars >>
  \/ \E t \in Thread : Copied(t) /\ WriteCopy(t) /\ UNCHANGED authorityVars

PendingStays ==
  /\ UNCHANGED << next_boot, issued >>
  /\ \A d \in Conn : Pending(d)' =>
       Pending(d) /\ conn'[d].counter = conn[d].counter

CounterMoves ==
  \/ PendingStays
  \/ \E c \in Conn : TakeCounter(c)
  \/ \E c \in Conn : Admit(c)

Runs == Up /\ Up' /\ AuthorityMoves /\ FileMoves /\ CounterMoves

LEMMA HandlersNeedProcess ==
  ASSUME TypeInv, NEW c \in Conn, pc[c] \notin { "free", "done" }
  PROVE  Up
BY DEF TypeInv, ProcessInv

LEMMA QuietMoves ==
  ASSUME UNCHANGED << authorityVars, disk, saving, next_boot, issued >>, Up, Up',
         \A d \in Conn : Pending(d)' =>
           Pending(d) /\ conn'[d].counter = conn[d].counter
  PROVE  Runs
BY DEF Runs, AuthorityMoves, FileMoves, CounterMoves, PendingStays

LEMMA ServeRuns ==
  ASSUME TypeInv, ServeStep \/ AcceptFailed
  PROVE  Runs /\ HandlersInv'
<1>1. HandlersInv
  BY DEF TypeInv
<1>2. CASE Loop \/ AcceptClosed \/ AcceptFailed
  <2>1. /\ UNCHANGED << authorityVars, disk, saving, next_boot, issued >>
        /\ UNCHANGED << handlerVars, issued >> /\ Up /\ Up'
    BY <1>2 DEF Loop, AcceptClosed, AcceptFailed, Up, handlerVars, historyVars
  <2> QED BY <1>1, <2>1, QuietMoves, HandlersStay DEF Pending, handlerVars
<1>3. CASE List
  <2>1. PICK c \in Conn : pc[c] = "accepted" /\ Goto(c, "hello")
    BY <1>3 DEF List
  <2>2. /\ UNCHANGED << authorityVars, disk, saving, next_boot, issued >>
        /\ UNCHANGED << sock, conn, request >> /\ Up /\ Up'
    BY <1>3 DEF List, Up, historyVars
  <2>3. \A d \in Conn : Pending(d)' =>
           Pending(d) /\ conn'[d].counter = conn[d].counter
    BY <1>1, <2>1, <2>2 DEF Pending, Goto, HandlersInv
  <2>4. HandlersInv'
    BY <1>1, <2>1, <2>2, HandlersGoOn DEF GoesOn, Goto, HandlersInv, Established
  <2> QED BY <2>2, <2>3, <2>4, QuietMoves
<1>4. CASE ServeCopies
  <2>1. /\ CopyLedger(Serve) /\ Serve \in Thread
        /\ UNCHANGED << authorityVars, disk >>
        /\ UNCHANGED << handlerVars, issued >> /\ Up /\ Up'
    BY <1>4 DEF ServeCopies, Up, handlerVars, historyVars, Thread
  <2> QED BY <1>1, <2>1, HandlersStay
          DEF Runs, AuthorityMoves, FileMoves, CounterMoves, PendingStays,
              Pending, handlerVars
<1>5. CASE ServeWrites
  <2>1. /\ Copied(Serve) /\ WriteCopy(Serve) /\ Serve \in Thread
        /\ UNCHANGED authorityVars
        /\ UNCHANGED << handlerVars, issued >> /\ Up /\ Up'
    BY <1>5 DEF ServeWrites, Up, handlerVars, historyVars, Thread
  <2> QED BY <1>1, <2>1, HandlersStay
          DEF Runs, AuthorityMoves, FileMoves, CounterMoves, PendingStays,
              Pending, handlerVars
<1>6. CASE StopConnections
  <2>1. /\ UNCHANGED << authorityVars, disk, saving, next_boot, issued >>
        /\ UNCHANGED << pc, conn, request, next_boot, issued >> /\ Up /\ Up'
        /\ ShutSockets(SocketsToStop)
    BY <1>6 DEF StopConnections, Up, historyVars
  <2>2. ShutsSome
    BY <1>1, <2>1, ShuttingShutsSome
  <2> QED BY <1>1, <2>1, <2>2, QuietMoves, HandlersShut DEF Pending
<1>7. CASE Join
  <2>1. /\ UNCHANGED << authorityVars, disk, saving, next_boot, issued >>
        /\ UNCHANGED << handlerVars, issued >> /\ Up /\ Up'
    BY <1>7 DEF Join, Up, handlerVars, historyVars
  <2> QED BY <1>1, <2>1, QuietMoves, HandlersStay DEF Pending, handlerVars
<1> QED BY <1>2, <1>3, <1>4, <1>5, <1>6, <1>7 DEF ServeStep

LEMMA AcceptRuns ==
  ASSUME TypeInv, NEW w \in Client, NEW b \in BootsOf(w) \cup { None },
         Accept(w, b)
  PROVE  Runs /\ HandlersInv'
<1>1. HandlersInv
  BY DEF TypeInv
<1>2. Min(Unused) \in Conn /\ pc[Min(Unused)] = "free"
  BY FirstUnused DEF Accept
<1>3. /\ UNCHANGED << authorityVars, disk, saving, next_boot, issued >>
      /\ Up /\ Up'
      /\ pc' = [ pc EXCEPT ![Min(Unused)] = "accepted" ]
      /\ conn' = [ conn EXCEPT ![Min(Unused)].worker = w,
                               ![Min(Unused)].claims = b ]
  BY DEF Accept, Up, historyVars, Goto
<1>4. \A d \in Conn : Pending(d)' =>
         Pending(d) /\ conn'[d].counter = conn[d].counter
  BY <1>1, <1>2, <1>3 DEF Pending, HandlersInv
<1> QED BY <1>1, <1>3, <1>4, QuietMoves, HandlersAccept

(* The moves of a handler, or of whoever is at the other end of it, that    *)
(* touch neither the ledger nor the file.                                   *)
MovesTo(c, place) ==
  /\ Goto(c, place)
  /\ place \in Established => pc[c] \in Established
  /\ request' \in [ Conn -> RecordId \cup { None } ]
  /\ \A d \in Conn : d # c => request'[d] = request[d]
  /\ place \in { "appending", "replying" } => request'[c] \in RecordId

LEMMA HandlerMovesOn ==
  ASSUME TypeInv, NEW c \in Conn,
         \/ AppendRefused(c) \/ Reply(c) \/ HandlerRequestsShutdown(c)
         \/ EndOfStream(c) \/ ReceiveShutdown(c)
         \/ \E id \in RecordId : ReceiveAppend(c, id)
         \/ \E a \in issued : RefuseFrame(c, a)
  PROVE  Runs /\ HandlersInv'
<1>1. HandlersInv
  BY DEF TypeInv
<1>2. pc[c] \in Established \cup { "hello" }
  BY DEF AppendRefused, Reply, HandlerRequestsShutdown, EndOfStream,
     ReceiveShutdown, ReceiveAppend, RefuseFrame, Established
<1>3. /\ UNCHANGED << authorityVars, disk, saving, next_boot, issued >>
      /\ UNCHANGED << sock, conn, server >>
  BY DEF AppendRefused, Reply, HandlerRequestsShutdown, EndOfStream,
     ReceiveShutdown, ReceiveAppend, RefuseFrame, historyVars, serverVars
<1>4. \E place \in Established \cup { "ending" } : MovesTo(c, place)
  <2>1. CASE AppendRefused(c)
    <3>1. MovesTo(c, "ready")
      BY <1>1, <2>1 DEF AppendRefused, MovesTo, Established, HandlersInv
    <3> QED BY <3>1 DEF Established
  <2>2. CASE Reply(c)
    <3>1. AfterReply \in { "saving", "ready" }
      BY DEF AfterReply
    <3>2. MovesTo(c, AfterReply)
      BY <1>1, <2>2, <3>1 DEF Reply, MovesTo, Established, HandlersInv
    <3> QED BY <3>1, <3>2 DEF Established
  <2>3. CASE HandlerRequestsShutdown(c)
    <3>1. MovesTo(c, "ready") \/ MovesTo(c, "closing")
      BY <1>1, <2>3 DEF HandlerRequestsShutdown, MovesTo, Established,
         HandlersInv
    <3> QED BY <3>1 DEF Established
  <2>4. CASE EndOfStream(c)
    <3>1. MovesTo(c, "ending")
      BY <1>1, <2>4 DEF EndOfStream, MovesTo, Established, HandlersInv
    <3> QED BY <3>1
  <2>5. CASE ReceiveShutdown(c)
    <3>1. MovesTo(c, "saving for shutdown")
      BY <1>1, <2>5 DEF ReceiveShutdown, MovesTo, Established, HandlersInv
    <3> QED BY <3>1 DEF Established
  <2>6. ASSUME NEW id \in RecordId, ReceiveAppend(c, id)
        PROVE  MovesTo(c, "appending")
    BY <1>1, <2>6 DEF ReceiveAppend, MovesTo, Established, HandlersInv
  <2>7. ASSUME NEW a \in issued, RefuseFrame(c, a)
        PROVE  MovesTo(c, "ending")
    BY <1>1, <2>7 DEF RefuseFrame, MovesTo, Established, HandlersInv
  <2> QED BY <2>1, <2>2, <2>3, <2>4, <2>5, <2>6, <2>7 DEF Established
<1>5. PICK place \in Established \cup { "ending" } : MovesTo(c, place)
  BY <1>4
<1>6. Up /\ Up'
  BY <1>2, <1>3, HandlersNeedProcess DEF Up, Established
<1>7. \A d \in Conn : Pending(d)' =>
         Pending(d) /\ conn'[d].counter = conn[d].counter
  BY <1>1, <1>3, <1>5 DEF MovesTo, Pending, Goto, HandlersInv, Established
<1>8. HandlersInv'
  BY <1>1, <1>2, <1>3, <1>5, HandlersGoOn DEF MovesTo, GoesOn, Goto,
     Established
<1> QED BY <1>3, <1>6, <1>7, <1>8, QuietMoves

LEMMA HandlerShuts ==
  ASSUME TypeInv,
         \/ \E c \in Conn : HandlerCloses(c) \/ GoesAway(c)
         \/ OwnerCloses
  PROVE  Runs /\ HandlersInv'
<1>1. HandlersInv
  BY DEF TypeInv
<1>2. /\ UNCHANGED << authorityVars, disk, saving, next_boot, issued >>
      /\ UNCHANGED << conn, server, request >>
  BY DEF HandlerCloses, GoesAway, OwnerCloses, historyVars, serverVars
<1>3. \/ pc' = pc
      \/ \E c \in Conn : /\ pc[c] = "closing"
                         /\ pc' = [ pc EXCEPT ![c] = "ready" ]
  BY DEF HandlerCloses, GoesAway, OwnerCloses, Goto
<1>4. ShutsSome
  <2>1. ASSUME NEW c \in Conn, HandlerCloses(c)
        PROVE  ShutsSome
    BY <1>1, <2>1, ShuttingShutsSome DEF HandlerCloses, CloseAndStop
  <2>2. ASSUME NEW c \in Conn, GoesAway(c)
        PROVE  ShutsSome
    <3>1. /\ pc[c] # "free" /\ sock' = [ sock EXCEPT ![c] = "shut" ]
          /\ sock \in [ Conn -> { "none", "open", "shut" } ]
      BY <1>1, <2>2 DEF GoesAway, HandlersInv, HandlerInv
    <3> QED BY <2>2, <3>1 DEF ShutsSome
  <2>3. CASE OwnerCloses
    BY <1>1, <2>3, ShuttingShutsSome DEF OwnerCloses, CloseAndStop
  <2> QED BY <2>1, <2>2, <2>3
<1>5. Up /\ Up'
  <2>1. (\E c \in Conn : pc[c] \notin { "free", "done" }) \/ owner # "idle"
    BY DEF HandlerCloses, GoesAway, OwnerCloses
  <2>2. Up
    BY <2>1, HandlersNeedProcess DEF TypeInv, ProcessInv
  <2> QED BY <1>2, <2>2 DEF Up
<1>6. \A d \in Conn : Pending(d)' =>
         Pending(d) /\ conn'[d].counter = conn[d].counter
  BY <1>1, <1>2, <1>3 DEF Pending, HandlersInv
<1> QED BY <1>1, <1>2, <1>3, <1>4, <1>5, <1>6, QuietMoves, HandlersShut

LEMMA HandlerSaves ==
  ASSUME TypeInv, NEW c \in Conn, Copies(c) \/ Writes(c)
  PROVE  Runs /\ HandlersInv'
<1>1. HandlersInv /\ c \in Thread
  BY DEF TypeInv, Thread
<1>2. Up
  BY HandlersNeedProcess DEF Copies, Writes
<1>3. CASE Copies(c)
  <2>1. /\ CopyLedger(c) /\ UNCHANGED << authorityVars, disk, server >>
        /\ UNCHANGED << handlerVars, issued >>
    BY <1>3 DEF Copies, historyVars, serverVars
  <2> QED BY <1>1, <1>2, <2>1, HandlersStay
          DEF Runs, AuthorityMoves, FileMoves, CounterMoves, PendingStays,
              Pending, handlerVars, Up
<1>4. CASE Writes(c)
  <2> DEFINE place == IF pc[c] = "saving" THEN "ready"
                      ELSE "requesting shutdown"
  <2>1. /\ Copied(c) /\ WriteCopy(c) /\ UNCHANGED << authorityVars, server >>
        /\ UNCHANGED << sock, conn, request, next_boot, issued >>
        /\ Goto(c, place)
        /\ pc[c] \in Established /\ place \in Established
        /\ place \notin { "appending", "replying", "hello" }
    BY <1>4 DEF Writes, serverVars, Established
  <2> HIDE DEF place
  <2>2. HandlersInv'
    BY <1>1, <2>1, HandlersGoOn DEF GoesOn, Goto, HandlersInv, Established
  <2>3. PendingStays
    BY <1>1, <2>1 DEF PendingStays, Pending, Goto, HandlersInv, Established
  <2> QED BY <1>1, <1>2, <2>1, <2>2, <2>3
          DEF Runs, AuthorityMoves, FileMoves, CounterMoves, Up
<1> QED BY <1>3, <1>4

LEMMA HandlerChangesLedger ==
  ASSUME TypeInv, NEW c \in Conn,
         TakeCounter(c) \/ Admit(c) \/ AppendTaken(c) \/ End(c)
  PROVE  Runs /\ HandlersInv'
<1>1. HandlersInv /\ AuthorityTypeOK
  BY DEF TypeInv
<1>2. Up /\ Up'
  <2>1. pc[c] \notin { "free", "done" } /\ server' = server
    BY DEF TakeCounter, Admit, AppendTaken, End, serverVars
  <2> QED BY <2>1, HandlersNeedProcess DEF Up
<1>3. CASE TakeCounter(c)
  <2>1. UNCHANGED << authorityVars, disk, saving >>
    BY <1>3 DEF TakeCounter
  <2> QED BY <1>1, <1>2, <1>3, <2>1, HandlersTakeCounter
          DEF Runs, AuthorityMoves, FileMoves, CounterMoves
<1>4. CASE Admit(c)
  <2>1. UNCHANGED << disk, saving >>
    BY <1>4 DEF Admit
  <2> QED BY <1>1, <1>2, <1>4, <2>1, HandlersAdmit
          DEF Runs, AuthorityMoves, FileMoves, CounterMoves
<1>5. CASE AppendTaken(c)
  <2>1. /\ pc[c] = "appending" /\ AppendAllowed(conn[c].authority)
        /\ Goto(c, "replying")
        /\ UNCHANGED << disk, saving, next_boot, issued >>
        /\ UNCHANGED << sock, conn, request >>
    BY <1>5 DEF AppendTaken, historyVars
  <2>2. /\ request[c] \in RecordId /\ conn[c].authority \in Authority
        /\ request \in [ Conn -> RecordId \cup { None } ]
    BY <1>1, <2>1 DEF HandlersInv, HandlerInv, Established
  <2>3. AuthorityMoves
    BY <1>5, <2>1, <2>2, CoordinatorAssumption DEF AppendTaken,
       AuthorityMoves, Commits, AppendAllowed, Authorizes
  <2>4. HandlersInv'
    BY <1>1, <2>1, <2>2, HandlersGoOn DEF GoesOn, Goto, Established
  <2>5. PendingStays
    BY <1>1, <2>1 DEF PendingStays, Pending, Goto, HandlersInv
  <2> QED BY <1>2, <2>1, <2>3, <2>4, <2>5 DEF Runs, FileMoves, CounterMoves
<1>6. CASE End(c)
  <2>1. UNCHANGED << disk, saving, next_boot, issued >>
    BY <1>6 DEF End, historyVars
  <2>2. HelloDone(c) => /\ conn[c].authority \in Authority
                        /\ conn[c].authority.worker = conn[c].worker
    BY <1>1 DEF HandlersInv, HandlerInv
  <2>3. AuthorityMoves
    <3>1. CASE ~HelloDone(c)
      BY <1>6, <3>1 DEF End, AuthorityMoves
    <3>2. CASE HelloDone(c)
      <4>1. FenceWorkerBoot(conn[c].worker, conn[c].authority.boot)
        BY <1>6, <3>2 DEF End
      <4>2. conn[c].authority.boot \in Boot /\ conn[c].worker \in Worker
        BY <2>2, <3>2 DEF Authority
      <4> QED BY <4>1, <4>2 DEF AuthorityMoves, Fences
    <3> QED BY <3>1, <3>2
  <2>4. PendingStays
    BY <1>1, <1>6, <2>1 DEF PendingStays, Pending, End, Goto, HandlersInv
  <2> QED BY <1>1, <1>2, <1>6, <2>1, <2>3, <2>4, HandlersEnd
          DEF Runs, FileMoves, CounterMoves
<1> QED BY <1>3, <1>4, <1>5, <1>6

LEMMA OwnerRuns ==
  ASSUME TypeInv, OwnerStep
  PROVE  Runs /\ HandlersInv'
<1>1. HandlersInv /\ AuthorityTypeOK
  BY DEF TypeInv
<1>2. CASE OwnerCloses
  BY <1>2, HandlerShuts
<1>3. CASE ~OwnerCloses
  <2>1. /\ Up /\ Up' /\ UNCHANGED << disk, saving, handlerVars, issued >>
    BY <1>3 DEF OwnerStep, OwnerFences, OwnerReadmitsLocal, OwnerAppends,
       OwnerRequestsShutdown, OwnerIdle, Up, serverVars, historyVars
  <2>2. AuthorityMoves
    <3>1. CASE OwnerFences
      BY <3>1, CoordinatorAssumption DEF OwnerFences, AuthorityMoves, Fences
    <3>2. CASE OwnerReadmitsLocal \/ OwnerRequestsShutdown
      BY <3>2 DEF OwnerReadmitsLocal, OwnerRequestsShutdown, AuthorityMoves
    <3>3. ASSUME NEW id \in RecordId, OwnerAppends(id)
          PROVE  AuthorityMoves
      BY <1>1, <3>3, CoordinatorAssumption DEF OwnerAppends, AppendAllowed,
         Authorizes, AuthorityMoves, Commits, AuthorityTypeOK
    <3> QED BY <1>3, <3>1, <3>2, <3>3 DEF OwnerStep
  <2>3. PendingStays /\ HandlersInv'
    BY <1>1, <2>1, HandlersStay DEF PendingStays, Pending, handlerVars
  <2> QED BY <2>1, <2>2, <2>3 DEF Runs, FileMoves, CounterMoves
<1> QED BY <1>2, <1>3

(* Every step of Next starts or ends a process, or is one of those above.   *)
LEMMA StepsRun ==
  ASSUME TypeInv, Next
  PROVE  Boundary \/ (Runs /\ HandlersInv')
<1>1. ASSUME NEW c \in Conn, HandlerStep(c) \/ GoesAway(c)
      PROVE  Runs /\ HandlersInv'
  BY <1>1, HandlerMovesOn, HandlerShuts, HandlerSaves, HandlerChangesLedger
     DEF HandlerStep
<1>2. ASSUME NEW c \in Conn,
             \/ \E id \in RecordId : ReceiveAppend(c, id)
             \/ \E a \in issued : RefuseFrame(c, a)
             \/ ReceiveShutdown(c)
      PROVE  Runs /\ HandlersInv'
  BY <1>2, HandlerMovesOn
<1>3. ASSUME NEW w \in Client, NEW b \in BootsOf(w) \cup { None },
             Accept(w, b)
      PROVE  Runs /\ HandlersInv'
  BY <1>3, AcceptRuns
<1> QED BY <1>1, <1>2, <1>3, ServeRuns, OwnerRuns DEF Next, Boundary

LEMMA HoldersStay ==
  ASSUME HoldersSave, saving' = saving,
         server = "writing" => server' = "writing",
         \A c \in Conn : pc[c] \in { "saving", "saving for shutdown" } =>
                           pc'[c] = pc[c]
  PROVE  HoldersSave'
BY DEF HoldersSave, Copied

LEMMA HoldersStep ==
  ASSUME TypeInv, Next, ~Boundary
  PROVE  HoldersSave'
<1>1. /\ HoldersSave /\ pc \in [ Conn -> Places ]
      /\ saving \in [ Thread -> Snapshot \cup { None } ]
      /\ Serve \notin Conn /\ Thread = Conn \cup { Serve }
  BY DEF TypeInv, MutexInv, HandlersInv, Serve, Conn, Thread
<1>2. CASE /\ ServeStep \/ AcceptFailed \/ OwnerStep
           /\ ~ServeCopies /\ ~ServeWrites
  <2>1. saving' = saving /\ (server = "writing" => server' = "writing")
    BY <1>2 DEF ServeStep, Loop, List, AcceptClosed, AcceptFailed,
       StopConnections, Join, OwnerStep, OwnerFences, OwnerReadmitsLocal,
       OwnerAppends, OwnerRequestsShutdown, OwnerCloses, serverVars
  <2>2. \A c \in Conn : pc[c] \in { "saving", "saving for shutdown" } =>
                          pc'[c] = pc[c]
    BY <1>1, <1>2 DEF ServeStep, Loop, List, AcceptClosed, AcceptFailed,
       StopConnections, Join, OwnerStep, OwnerFences, OwnerReadmitsLocal,
       OwnerAppends, OwnerRequestsShutdown, OwnerCloses, handlerVars, Goto
  <2> QED BY <1>1, <2>1, <2>2, HoldersStay
<1>3. CASE ServeCopies
  <2>1. /\ \A c \in Conn : saving'[c] = saving[c] /\ pc'[c] = pc[c]
        /\ server' = "writing"
    BY <1>1, <1>3 DEF ServeCopies, CopyLedger, handlerVars
  <2> QED BY <1>1, <2>1 DEF HoldersSave, Copied
<1>4. CASE ServeWrites
  <2>1. /\ \A c \in Conn : saving'[c] = saving[c] /\ pc'[c] = pc[c]
        /\ saving'[Serve] = None
    BY <1>1, <1>4 DEF ServeWrites, WriteCopy, handlerVars
  <2> QED BY <1>1, <2>1 DEF HoldersSave, Copied
<1>5. ASSUME NEW w \in Client, NEW b \in BootsOf(w) \cup { None },
             Accept(w, b)
      PROVE  HoldersSave'
  <2>1. /\ Min(Unused) \in Conn /\ pc[Min(Unused)] = "free"
        /\ saving' = saving /\ server # "writing"
        /\ pc' = [ pc EXCEPT ![Min(Unused)] = "accepted" ]
    BY <1>5, FirstUnused DEF Accept, Goto
  <2> QED BY <1>1, <2>1, HoldersStay
<1>6. ASSUME NEW c \in Conn, Copies(c)
      PROVE  HoldersSave'
  <2>1. /\ \A t \in Thread : t # c => saving'[t] = saving[t]
        /\ pc' = pc /\ server' = server
        /\ pc[c] \in { "saving", "saving for shutdown" }
    BY <1>1, <1>6 DEF Copies, CopyLedger, handlerVars, serverVars
  <2> QED BY <1>1, <1>6, <2>1 DEF HoldersSave, Copied
<1>7. ASSUME NEW c \in Conn, Writes(c)
      PROVE  HoldersSave'
  <2>1. /\ \A t \in Thread : t # c => saving'[t] = saving[t]
        /\ \A d \in Conn : d # c => pc'[d] = pc[d]
        /\ saving'[c] = None /\ server' = server
    BY <1>1, <1>7 DEF Writes, WriteCopy, Goto, serverVars
  <2> QED BY <1>1, <1>7, <2>1 DEF HoldersSave, Copied
<1>8. ASSUME NEW c \in Conn,
             \/ HandlerStep(c) /\ ~Copies(c) /\ ~Writes(c)
             \/ GoesAway(c) \/ ReceiveShutdown(c)
             \/ \E id \in RecordId : ReceiveAppend(c, id)
             \/ \E a \in issued : RefuseFrame(c, a)
      PROVE  HoldersSave'
  <2>1. saving' = saving /\ server' = server
    BY <1>8 DEF HandlerStep, TakeCounter, Admit, AppendRefused, AppendTaken,
       Reply, HandlerRequestsShutdown, HandlerCloses, EndOfStream, End,
       GoesAway, ReceiveShutdown, ReceiveAppend, RefuseFrame, serverVars
  <2>2. /\ pc' = pc \/ \E place : Goto(c, place)
        /\ pc[c] \notin { "saving", "saving for shutdown" }
    BY <1>8 DEF HandlerStep, TakeCounter, Admit, AppendRefused, AppendTaken,
       Reply, HandlerRequestsShutdown, HandlerCloses, EndOfStream, End,
       GoesAway, ReceiveShutdown, ReceiveAppend, RefuseFrame
  <2>3. \A d \in Conn : pc[d] \in { "saving", "saving for shutdown" } =>
                          pc'[d] = pc[d]
    BY <1>1, <2>2 DEF Goto
  <2> QED BY <1>1, <2>1, <2>3, HoldersStay
<1> QED BY <1>2, <1>3, <1>4, <1>5, <1>6, <1>7, <1>8 DEF Next, Boundary,
        HandlerStep, ServeStep

(* The ledger as it is makes an image that loads again. *)
LEMMA ImageIsLoadable ==
  ASSUME AuthorityTypeOK, epoch <= MaxEpoch
  PROVE  Loadable(Image) /\ Image # None
<1>1. Image \in Snapshot /\ Image.epoch = epoch /\ Image.history = history
  BY DEF AuthorityTypeOK, Image, Snapshot
<1> QED BY <1>1, SnapshotAssumption DEF Loadable, WrittenBy, AuthorityTypeOK

LEMMA FileMovesKeepTypes ==
  ASSUME TypeInv, FileMoves, HoldersSave'
  PROVE  MutexInv' /\ ImagesInv'
<1>1. /\ MutexInv /\ ImagesInv /\ Loadable(Image) /\ Image \in Snapshot
      /\ saving \in [ Thread -> Snapshot \cup { None } ]
  BY ImageIsLoadable DEF TypeInv, Loadable, MutexInv
<1>2. CASE UNCHANGED << disk, saving >>
  BY <1>1, <1>2 DEF MutexInv, ImagesInv, Copied
<1>3. ASSUME NEW t \in Thread, CopyLedger(t), UNCHANGED disk
      PROVE  MutexInv' /\ ImagesInv'
  <2>1. /\ \A u \in Thread : saving[u] = None
        /\ saving' = [ saving EXCEPT ![t] = Image ]
    BY <1>3 DEF CopyLedger
  <2>2. /\ saving'[t] = Image
        /\ \A u \in Thread : u # t => saving'[u] = None
    BY <1>1, <2>1
  <2>3. saving' \in [ Thread -> Snapshot \cup { None } ]
    BY <1>1, <2>1
  <2>4. \A u, v \in Thread : Copied(u)' /\ Copied(v)' => u = v
    BY <2>2 DEF Copied
  <2>5. ImagesInv'
    BY <1>1, <1>3, <2>2 DEF ImagesInv, Copied, Loadable
  <2> QED BY <2>3, <2>4, <2>5 DEF MutexInv
<1>4. ASSUME NEW t \in Thread, Copied(t), WriteCopy(t)
      PROVE  MutexInv' /\ ImagesInv'
  <2>1. /\ saving' = [ saving EXCEPT ![t] = None ]
        /\ disk' \in { disk, saving[t] }
    BY <1>4 DEF WriteCopy, Written
  <2>2. saving' \in [ Thread -> Snapshot \cup { None } ]
        /\ saving'[t] = None
        /\ \A u \in Thread : u # t => saving'[u] = saving[u]
    BY <1>1, <2>1
  <2>3. \A u \in Thread : Copied(u)' => Copied(u) /\ saving'[u] = saving[u]
    BY <2>2 DEF Copied
  <2>4. disk' # None => Loadable(disk')
    BY <1>1, <1>4, <2>1 DEF ImagesInv
  <2>5. ImagesInv'
    BY <1>1, <2>3, <2>4 DEF ImagesInv, Loadable
  <2> QED BY <1>1, <2>2, <2>3, <2>5 DEF MutexInv
<1> QED BY <1>2, <1>3, <1>4 DEF FileMoves

LEMMA AuthorityMovesKeepTypes ==
  ASSUME TypeInv, AuthorityMoves
  PROVE  AuthorityTypeOK' /\ epoch' = epoch
<1>1. AuthorityTypeOK /\ HandlersInv
  BY DEF TypeInv
<1>2. CASE UNCHANGED authorityVars
  BY <1>1, <1>2 DEF authorityVars, AuthorityTypeOK
<1>3. ASSUME NEW c \in Conn, Admit(c)
      PROVE  AuthorityTypeOK' /\ epoch' = epoch
  BY <1>1, <1>3, AdmitHandsOut, AdmitIncarnationTypes DEF AdmitIncarnation
<1>4. CASE AdmitWorker(LocalWorker, LocalBoot)
  BY <1>1, <1>4, AdmitWorkerTypes, LocalAssumption DEF AdmitWorker, Boot
<1>5. CASE Fences
  BY <1>1, <1>5, FencingTypes DEF Fences
<1>6. CASE Commits
  BY <1>1, <1>6, CommitTypes DEF Commits
<1> QED BY <1>2, <1>3, <1>4, <1>5, <1>6 DEF AuthorityMoves

LEMMA BoundaryKeepsTypes ==
  ASSUME TypeInv, Boundary
  PROVE  TypeInv'
<1>1. /\ AuthorityTypeOK /\ HandlersInv /\ MutexInv /\ ImagesInv
      /\ epoch \in Nat \ { 0 } /\ epoch <= MaxEpoch
      /\ MaxEpoch \in Nat \ { 0 }
  BY CoordinatorAssumption DEF TypeInv, AuthorityTypeOK
<1>2. CASE Start
  <2>1. /\ UNCHANGED << handlerVars, issued, saving, owner, disk >>
        /\ server = "down" /\ server' \in { "starting", "loaded" }
    BY <1>2 DEF Start
  <2>2. AuthorityTypeOK' /\ epoch' <= MaxEpoch
    <3>1. CASE disk = None
      <4>1. Create
        BY <1>2, <3>1 DEF Start
      <4>2. epoch' = 1
        BY <4>1 DEF Create
      <4> QED BY <1>1, <4>1, <4>2, CreateTypes
    <3>2. CASE disk # None
      <4>1. Restore(disk.history, disk.epoch) /\ Loadable(disk)
        BY <1>1, <1>2, <3>2 DEF Start, ImagesInv
      <4>2. /\ disk.history \in Seq(HistoryRecord)
            /\ disk.epoch \in Nat \ { 0 } /\ disk.epoch <= MaxEpoch
            /\ WrittenBy(disk.history, disk.epoch)
        BY <4>1 DEF Loadable, Snapshot
      <4> QED BY <4>1, <4>2, RestoreTypes DEF Restore
    <3> QED BY <3>1, <3>2
  <2>3. HandlersInv'
    BY <1>1, <2>1, HandlersStay
  <2>4. ProcessInv' /\ MutexInv' /\ ImagesInv'
    BY <1>1, <2>1 DEF TypeInv, ProcessInv, MutexInv, HoldersSave, ImagesInv,
       Copied, Up, handlerVars
  <2> QED BY <2>2, <2>3, <2>4 DEF TypeInv
<1>3. CASE StartAdvance
  <2>1. /\ UNCHANGED << handlerVars, issued, saving, owner, disk >>
        /\ server = "loaded" /\ server' = "starting"
        /\ epoch < MaxEpoch /\ AdvanceEpoch /\ epoch' = epoch + 1
    BY <1>3 DEF StartAdvance, AdvanceEpoch, historyVars
  <2>2. AuthorityTypeOK' /\ epoch' <= MaxEpoch
    BY <1>1, <2>1, AdvanceTypes
  <2>3. HandlersInv'
    BY <1>1, <2>1, HandlersStay
  <2>4. ProcessInv' /\ MutexInv' /\ ImagesInv'
    BY <1>1, <2>1 DEF TypeInv, ProcessInv, MutexInv, HoldersSave, ImagesInv,
       Copied, Up, handlerVars
  <2> QED BY <2>2, <2>3, <2>4 DEF TypeInv
<1>4. CASE StartPersist
  <2>1. /\ UNCHANGED << handlerVars, issued, saving, authorityVars >>
        /\ server = "starting" /\ server' = "looping"
        /\ disk' \in { disk, Image }
    BY <1>4 DEF StartPersist, Written
  <2>2. AuthorityTypeOK' /\ epoch' <= MaxEpoch
    BY <1>1, <2>1 DEF authorityVars, AuthorityTypeOK
  <2>3. HandlersInv'
    BY <1>1, <2>1, HandlersStay
  <2>4. ImagesInv'
    BY <1>1, <2>1, ImageIsLoadable DEF ImagesInv, Copied
  <2>5. ProcessInv' /\ MutexInv'
    BY <1>1, <2>1 DEF ProcessInv, MutexInv, HoldersSave, Copied, Up,
       handlerVars
  <2> QED BY <2>2, <2>3, <2>4, <2>5 DEF TypeInv
<1>5. CASE Crash
  <2>1. /\ server' = "down" /\ NoProcess /\ UNCHANGED << disk, issued >>
        /\ epoch' = 1 /\ local' = LocalAt(1)
        /\ workers' = [ w \in Worker |-> None ] /\ history' = << >>
    BY <1>5 DEF Crash, historyVars
  <2>2. AuthorityTypeOK' /\ epoch' <= MaxEpoch
    BY <1>1, <2>1, CreateTypes
  <2>3. /\ HandlersInv' /\ owner' = "idle"
        /\ \A c \in Conn : pc'[c] \in { "free", "done" }
        /\ \A t \in Thread : saving'[t] = None
        /\ saving' \in [ Thread -> Snapshot \cup { None } ]
    BY <1>1, <2>1, HandlersOfNoProcess DEF NoProcess
  <2>4. Conn \subseteq Thread /\ Serve \in Thread
    BY DEF Thread
  <2>5. ProcessInv' /\ MutexInv'
    BY <2>3, <2>4 DEF ProcessInv, MutexInv, HoldersSave, Copied
  <2>6. ImagesInv'
    BY <1>1, <2>1, <2>3 DEF ImagesInv, Copied
  <2> QED BY <2>2, <2>3, <2>5, <2>6 DEF TypeInv
<1> QED BY <1>2, <1>3, <1>4, <1>5 DEF Boundary

LEMMA TypeStep ==
  ASSUME TypeInv, [Next]_vars
  PROVE  TypeInv'
<1>1. CASE Boundary
  BY <1>1, BoundaryKeepsTypes
<1>2. CASE Next /\ ~Boundary
  <2>1. Runs /\ HandlersInv' /\ HoldersSave'
    BY <1>2, StepsRun, HoldersStep
  <2>2. AuthorityTypeOK' /\ epoch' = epoch
    BY <2>1, AuthorityMovesKeepTypes DEF Runs
  <2>3. MutexInv' /\ ImagesInv'
    BY <2>1, FileMovesKeepTypes DEF Runs
  <2>4. ProcessInv'
    BY <2>1 DEF Runs, ProcessInv
  <2> QED BY <2>1, <2>2, <2>3, <2>4 DEF TypeInv
<1>3. CASE UNCHANGED vars
  <2>1. UNCHANGED << epoch, workers, local, history, server, pc, sock, conn,
                     request, next_boot, saving, owner, disk, issued >>
    BY <1>3 DEF vars, authorityVars, serverVars, handlerVars, historyVars
  <2> QED BY <2>1 DEF TypeInv, AuthorityTypeOK, HandlersInv, HandlerInv,
             HelloDone, ProcessInv, MutexInv, HoldersSave, ImagesInv, Copied,
             Up
<1> QED BY <1>1, <1>2, <1>3 DEF Boundary

LEMMA TypeInit == Init => TypeInv
<1> SUFFICES ASSUME Init PROVE TypeInv
  OBVIOUS
<1>1. AuthorityTypeOK
  <2>1. LocalAt(1) \in Authority /\ LocalAt(1).epoch = 1
    BY LocalAssumption DEF LocalAt, Authority, Boot
  <2> QED BY <2>1 DEF Init, AuthorityTypeOK
<1>2. HandlersInv
  BY DEF Init, HandlersInv, HandlerInv, HelloDone, Connection, NoConnection,
     Places, Established, Greeting
<1>3. ProcessInv /\ MutexInv /\ ImagesInv
  BY DEF Init, ProcessInv, MutexInv, HoldersSave, ImagesInv, Copied, Up,
     Thread
<1>4. epoch <= MaxEpoch
  BY CoordinatorAssumption DEF Init
<1> QED BY <1>1, <1>2, <1>3, <1>4 DEF TypeInv

(* The state has its types, a handler works under an incarnation that was   *)
(* handed out, and one thread at a time holds a copy of the ledger, for any *)
(* number of workers, connections, records, epochs and restarts.            *)
THEOREM CoordinatorTypes == Spec => [](CoordinatorTypeOK /\ TypeInv)
<1>1. TypeInv => CoordinatorTypeOK
  <2>1. SUFFICES ASSUME TypeInv PROVE CoordinatorTypeOK
    OBVIOUS
  <2>2. disk # None => disk.epoch \in 1 .. MaxEpoch
    BY <2>1, CoordinatorAssumption DEF TypeInv, ImagesInv, Loadable, Snapshot
  <2> QED BY <2>1, <2>2 DEF TypeInv, CoordinatorTypeOK, HandlersInv,
             HandlerInv, MutexInv, HoldersSave
<1> QED BY <1>1, TypeInit, TypeStep, PTL DEF Spec

-----------------------------------------------------------------------------
(* The authority of records, operation by operation of the ledger. *)

LEMMA AuthorsAreTyped ==
  ASSUME AuthorityTypeOK, NEW i \in DOMAIN history
  PROVE  /\ i \in Nat /\ i \in 1 .. Len(history) /\ Len(history) \in Nat
         /\ history[i].author \in Authority
         /\ history[i].author.epoch \in Nat
         /\ history[i].author.epoch <= epoch /\ epoch \in Nat
<1>1. Len(history) \in Nat /\ DOMAIN history = 1 .. Len(history)
  BY DEF AuthorityTypeOK
<1>2. history[i] \in HistoryRecord /\ history[i].author.epoch <= epoch
  BY DEF AuthorityTypeOK
<1>3. history[i].author \in Authority /\ history[i].author.epoch \in Nat
  BY <1>2 DEF HistoryRecord, Authority
<1> QED BY <1>1, <1>2, <1>3 DEF AuthorityTypeOK

LEMMA SameAuthority ==
  ASSUME NEW a \in Authority, NEW b \in Authority, a.worker = b.worker,
         a.boot = b.boot, a.epoch = b.epoch
  PROVE  a = b
BY DEF Authority

LEMMA LedgerStays ==
  ASSUME LedgerInv, UNCHANGED authorityVars
  PROVE  LedgerInv' /\ BootsInUse' = BootsInUse
BY DEF LedgerInv, authorityVars, ViewsInv, CountsInv, CurrentInv, IsCurrent,
   CommittedRecords, LastRun, BootsInUse

(* Views change without a record, and no new one is current unless it is in *)
(* its last run.                                                            *)
LEMMA ViewsChange ==
  ASSUME AuthorityTypeOK, LedgerInv, epoch' = epoch, history' = history,
         local' = local,
         NEW boot,
         \A w \in Worker :
           \/ workers'[w] = workers[w]
           \/ /\ workers'[w] # None
              /\ workers'[w].committed_records = CommittedRecords(w)
              /\ BootFits(w, workers'[w].boot, workers'[w].epoch)
              /\ \/ workers[w] # None /\ workers'[w].boot = workers[w].boot
                 \/ workers'[w].boot = boot
              /\ IsCurrent(w, workers[w].boot)' =>
                   LastRun([ epoch |-> epoch, worker |-> w,
                             boot |-> workers'[w].boot ])
  PROVE  LedgerInv' /\ BootsInUse' \subseteq BootsInUse \cup { boot }
<1>1. ViewsInv'
  BY DEF LedgerInv, ViewsInv
<1>2. CountsInv'
  BY DEF LedgerInv, CountsInv, CommittedRecords
<1>3. CurrentInv'
  <2>1. ASSUME NEW w \in Worker,
               workers'[w] # None, IsCurrent(w, workers[w].boot)'
        PROVE  LastRun([ epoch |-> epoch, worker |-> w,
                         boot |-> workers'[w].boot ])
    <3>1. CASE workers'[w] = workers[w]
      BY <2>1, <3>1 DEF LedgerInv, CurrentInv, IsCurrent
    <3>2. CASE workers'[w] # workers[w]
      BY <2>1, <3>2
    <3> QED BY <3>1, <3>2
  <2> QED BY <2>1 DEF CurrentInv, LastRun
<1>4. BootsInUse' \subseteq BootsInUse \cup { boot }
  BY DEF BootsInUse
<1> QED BY <1>1, <1>2, <1>3, <1>4 DEF LedgerInv

LEMMA FencesKeepLedger ==
  ASSUME AuthorityTypeOK, LedgerInv, Fences
  PROVE  LedgerInv' /\ BootsInUse' \subseteq BootsInUse
<1>1. /\ epoch' = epoch /\ history' = history /\ local' = local
      /\ \A v \in Worker :
           \/ workers'[v] = workers[v]
           \/ /\ workers[v] # None /\ workers'[v] # None
              /\ workers'[v] = [ workers[v] EXCEPT !.live = FALSE ]
  BY FencingTypes DEF Fences
<1>2. ASSUME NEW w \in Worker, workers'[w] # workers[w]
      PROVE  /\ workers'[w] # None /\ workers[w] # None
             /\ workers'[w].committed_records = CommittedRecords(w)
             /\ BootFits(w, workers'[w].boot, workers'[w].epoch)
             /\ workers'[w].boot = workers[w].boot
             /\ ~IsCurrent(w, workers[w].boot)'
  <2>1. /\ workers[w] # None /\ workers'[w] # None
        /\ workers'[w] = [ workers[w] EXCEPT !.live = FALSE ]
        /\ workers[w] \in WorkerView
    BY <1>1, <1>2, ViewsAreTyped
  <2>2. /\ workers'[w].boot = workers[w].boot
        /\ workers'[w].epoch = workers[w].epoch
        /\ workers'[w].committed_records = workers[w].committed_records
        /\ workers'[w].live = FALSE
    BY <2>1 DEF WorkerView
  <2>3. BootFits(w, workers[w].boot, workers[w].epoch)
    BY <2>1 DEF LedgerInv, ViewsInv
  <2> QED BY <2>1, <2>2, <2>3 DEF CommittedRecords, IsCurrent
<1>3. LedgerInv'
  BY <1>1, <1>2, ViewsChange
<1>4. BootsInUse' \subseteq BootsInUse
  BY <1>1, <1>2 DEF BootsInUse
<1> QED BY <1>3, <1>4

LEMMA LocalReadmissionKeepsLedger ==
  ASSUME AuthorityTypeOK, LedgerInv, AdmitWorker(LocalWorker, LocalBoot)
  PROVE  LedgerInv' /\ BootsInUse' \subseteq BootsInUse \cup { LocalBoot }
<1>1. /\ epoch' = epoch /\ history' = history /\ local = LocalAt(epoch)
      /\ local' = local
  BY DEF AdmitWorker, LedgerInv, ViewsInv, LocalAt
<1>2. ASSUME NEW w \in Worker, workers'[w] # workers[w]
      PROVE  /\ workers'[w] # None
             /\ workers'[w].committed_records = CommittedRecords(w)
             /\ BootFits(w, workers'[w].boot, workers'[w].epoch)
             /\ workers'[w].boot = LocalBoot
             /\ LastRun([ epoch |-> epoch, worker |-> w,
                          boot |-> workers'[w].boot ])
  <2>1. /\ w = LocalWorker
        /\ workers'[w] = Admitted(LocalBoot, CommittedRecords(LocalWorker))
    BY <1>2 DEF AdmitWorker, AuthorityTypeOK
  <2>2. workers'[w] # None
    BY <2>1, AdmittedTyped, ViewsAreTyped DEF Boot
  <2>3. LastRun([ epoch |-> epoch, worker |-> w, boot |-> LocalBoot ])
    BY DEF LastRun
  <2> QED BY <2>1, <2>2, <2>3 DEF Admitted, BootFits
<1> QED BY <1>1, <1>2, ViewsChange

LEMMA ClientsAreWorkers ==
  ASSUME NEW w \in Client
  PROVE  w \in Worker
BY CoordinatorAssumption

LEMMA AdmissionKeepsLedger ==
  ASSUME AuthorityTypeOK, LedgerInv, NEW w \in Client, NEW previous,
         NEW counter \in Nat \ { 0 }, AdmitIncarnation(w, previous, counter),
         MintedBoot(counter) \notin BootsInUse
  PROVE  LedgerInv' /\ BootsInUse' \subseteq BootsInUse \cup
                                              { MintedBoot(counter) }
<1>1. /\ epoch' = epoch /\ history' = history /\ local' = local
      /\ w \in Worker
  BY ClientsAreWorkers DEF AdmitIncarnation
<1>2. ASSUME NEW v \in Worker, workers'[v] # workers[v]
      PROVE  /\ workers'[v] # None
             /\ workers'[v].committed_records = CommittedRecords(v)
             /\ BootFits(v, workers'[v].boot, workers'[v].epoch)
             /\ workers'[v].boot = MintedBoot(counter)
             /\ LastRun([ epoch |-> epoch, worker |-> v,
                          boot |-> workers'[v].boot ])
  <2>1. /\ v = w
        /\ workers'[v] = Admitted(MintedBoot(counter), CommittedRecords(w))
    BY <1>1, <1>2 DEF AdmitIncarnation, AuthorityTypeOK, InheritedRecords
  <2>2. MintedBoot(counter) \in Boot /\ MintedBoot(counter)[1] = epoch
    BY DEF MintedBoot, Boot, AuthorityTypeOK
  <2>3. workers'[v] # None
    BY <1>1, <2>1, <2>2, AdmittedTyped, ViewsAreTyped
  <2>4. LastRun([ epoch |-> epoch, worker |-> v,
                  boot |-> MintedBoot(counter) ])
    BY DEF LastRun, BootsInUse
  <2> QED BY <1>1, <2>1, <2>2, <2>3, <2>4 DEF Admitted, BootFits
<1> QED BY <1>1, <1>2, ViewsChange

(* A new record is one more of its author's. *)
LEMMA AuthoredGrows ==
  ASSUME NEW S, NEW h \in Seq(S), NEW g \in Seq(S), NEW w,
         Len(g) = Len(h) + 1,
         \A i \in 1 .. Len(h) : g[i] = h[i]
  PROVE  Cardinality(AuthoredBy(w, g)) =
           Cardinality(AuthoredBy(w, h)) +
             IF g[Len(h) + 1].author.worker = w THEN 1 ELSE 0
<1> DEFINE n == Len(h)
<1>1. n \in Nat /\ DOMAIN h = 1 .. n /\ DOMAIN g = 1 .. n + 1
  OBVIOUS
<1>2. IsFiniteSet(AuthoredBy(w, h)) /\ n + 1 \notin AuthoredBy(w, h)
      /\ Cardinality(AuthoredBy(w, h)) \in Nat
  <2>1. n + 1 \notin DOMAIN h
    BY <1>1
  <2> QED BY <2>1, AuthoredIsFinite DEF AuthoredBy
<1>3. CASE g[n + 1].author.worker = w
  <2>1. AuthoredBy(w, g) = AuthoredBy(w, h) \cup { n + 1 }
    <3>1. ASSUME NEW i
          PROVE  i \in AuthoredBy(w, g) <=>
                   i \in AuthoredBy(w, h) \cup { n + 1 }
      <4>1. i \in 1 .. n + 1 <=> (i \in 1 .. n \/ i = n + 1)
        BY <1>1
      <4>2. i \in 1 .. n => g[i] = h[i]
        OBVIOUS
      <4>3. CASE i = n + 1
        BY <1>1, <1>3, <4>1, <4>3 DEF AuthoredBy
      <4>4. CASE i # n + 1
        <5>1. i \in DOMAIN g <=> i \in DOMAIN h
          BY <1>1, <4>1, <4>4
        <5>2. i \in DOMAIN h => g[i].author.worker = h[i].author.worker
          BY <1>1, <4>2
        <5>3. i \in AuthoredBy(w, g) <=> i \in AuthoredBy(w, h)
          BY <5>1, <5>2 DEF AuthoredBy
        <5> QED BY <4>4, <5>3
      <4> QED BY <4>3, <4>4
    <3> QED BY <3>1
  <2>2. Cardinality(AuthoredBy(w, h) \cup { n + 1 }) =
          Cardinality(AuthoredBy(w, h)) + 1
    BY <1>2, FS_AddElement
  <2> QED BY <1>3, <2>1, <2>2
<1>4. CASE g[n + 1].author.worker # w
  <2>1. AuthoredBy(w, g) = AuthoredBy(w, h)
    BY <1>1, <1>4 DEF AuthoredBy
  <2> QED BY <1>2, <1>4, <2>1
<1> QED BY <1>3, <1>4

LEMMA CommitsKeepLedger ==
  ASSUME AuthorityTypeOK, LedgerInv, Commits
  PROVE  LedgerInv' /\ BootsInUse' \subseteq BootsInUse
<1>1. PICK a \in Authority, id \in RecordId :
        /\ a.epoch = epoch /\ IsCurrent(a.worker, a.boot)
        /\ CommitRecord(a, id)
  BY DEF Commits
<1> DEFINE n == Len(history)
           w == a.worker
<1>2. /\ AuthorityTypeOK' /\ epoch' = epoch /\ local' = local
      /\ Len(history') = n + 1 /\ n \in Nat
      /\ history \in Seq(HistoryRecord) /\ history' \in Seq(HistoryRecord)
      /\ \A i \in 1 .. n : history'[i] = history[i]
      /\ history'[n + 1].author = a
      /\ DOMAIN history = 1 .. n /\ DOMAIN history' = 1 .. n + 1
  <2>1. /\ AuthorityTypeOK' /\ epoch' = epoch /\ local' = local
        /\ Len(history') = n + 1
        /\ \A i \in 1 .. n : history'[i] = history[i]
        /\ history'[n + 1] = [ id |-> id, author |-> a ]
    BY <1>1, CommitTypes
  <2>2. history \in Seq(HistoryRecord) /\ history' \in Seq(HistoryRecord)
    BY <2>1 DEF AuthorityTypeOK
  <2>3. /\ n \in Nat /\ DOMAIN history = 1 .. n
        /\ DOMAIN history' = 1 .. Len(history')
    BY <2>2
  <2> QED BY <2>1, <2>2, <2>3
<1>3. /\ w \in Worker /\ workers[w] # None /\ workers[w].boot = a.boot
      /\ workers[w].epoch = epoch
      /\ workers[w] \in WorkerView
      /\ a = [ epoch |-> epoch, worker |-> w, boot |-> workers[w].boot ]
  BY <1>1, ViewsAreTyped DEF IsCurrent, Authority
<1>4. /\ workers'[w] = [ workers[w] EXCEPT !.committed_records = @ + 1 ]
      /\ workers'[w] # None
      /\ workers'[w].boot = workers[w].boot
      /\ workers'[w].epoch = workers[w].epoch
      /\ workers'[w].live = workers[w].live
      /\ workers'[w].committed_records = workers[w].committed_records + 1
      /\ \A v \in Worker : v # w => workers'[v] = workers[v]
  <2>1. workers' = [ workers EXCEPT ![w].committed_records = @ + 1 ]
    BY <1>1, <1>3 DEF CommitRecord
  <2>2. /\ workers'[w] = [ workers[w] EXCEPT !.committed_records = @ + 1 ]
        /\ \A v \in Worker : v # w => workers'[v] = workers[v]
    BY <1>3, <2>1 DEF AuthorityTypeOK
  <2>3. workers'[w] \in WorkerView
    BY <1>3, <2>2 DEF WorkerView
  <2> QED BY <1>3, <2>2, <2>3, NoneAssumption DEF WorkerView
<1> HIDE DEF n, w
<1>5. ViewsInv'
  BY <1>2, <1>3, <1>4 DEF LedgerInv, ViewsInv
<1>6. CountsInv'
  <2>1. ASSUME NEW v \in Worker
        PROVE  CommittedRecords(v)' = Cardinality(AuthoredBy(v, history'))
    <3>1. Cardinality(AuthoredBy(v, history')) =
            CommittedRecords(v) + IF w = v THEN 1 ELSE 0
      <4>1. Cardinality(AuthoredBy(v, history')) =
              Cardinality(AuthoredBy(v, history)) +
                IF history'[n + 1].author.worker = v THEN 1 ELSE 0
        BY <1>2, AuthoredGrows DEF n
      <4>2. CommittedRecords(v) = Cardinality(AuthoredBy(v, history))
        BY DEF LedgerInv, CountsInv
      <4> QED BY <1>2, <4>1, <4>2 DEF w
    <3>2. CommittedRecords(v) \in Nat
      BY ViewsAreTyped
    <3>3. CASE v = w
      BY <1>3, <1>4, <3>1, <3>3 DEF CommittedRecords
    <3>4. CASE v # w
      <4>1. CommittedRecords(v)' = CommittedRecords(v)
        BY <1>4, <3>4 DEF CommittedRecords
      <4> QED BY <3>1, <3>2, <3>4, <4>1
    <3> QED BY <3>3, <3>4
  <2> QED BY <2>1 DEF CountsInv
<1>7. LastRun(a)
  BY <1>1, <1>3 DEF LedgerInv, CurrentInv, w
<1>8. SoundHistory(history')
  <2>1. BootFits(a.worker, a.boot, a.epoch)
    BY <1>1, <1>3 DEF LedgerInv, ViewsInv, w
  <2>2. ASSUME NEW i \in 1 .. n
        PROVE  /\ history'[i] = history[i] /\ i \in DOMAIN history
               /\ history[i].author.epoch <= a.epoch
    BY <1>1, <1>2, <2>2, AuthorsAreTyped
  <2>3. \A i \in DOMAIN history' :
          BootFits(history'[i].author.worker, history'[i].author.boot,
                   history'[i].author.epoch)
    BY <1>2, <2>1, <2>2 DEF LedgerInv, SoundHistory
  <2>4. ASSUME NEW i \in 1 .. n + 1, NEW j \in 1 .. n + 1, i < j
        PROVE  history'[i].author.epoch <= history'[j].author.epoch
    <3>1. i \in 1 .. n
      BY <1>2, <2>4
    <3>2. CASE j = n + 1
      BY <1>2, <2>2, <3>1, <3>2
    <3>3. CASE j # n + 1
      <4>1. j \in 1 .. n
        BY <1>2, <2>4, <3>3
      <4> QED BY <2>2, <2>4, <3>1, <4>1 DEF LedgerInv, SoundHistory
    <3> QED BY <3>2, <3>3
  <2>5. ASSUME NEW i \in 1 .. n + 1, NEW j \in 1 .. n + 1,
               NEW k \in 1 .. n + 1, i < j, j < k,
               history'[i].author.boot # LocalBoot,
               history'[i].author.worker = history'[j].author.worker,
               history'[i].author = history'[k].author
        PROVE  history'[j].author = history'[i].author
    <3>1. i \in 1 .. n /\ j \in 1 .. n
      BY <1>2, <2>5
    <3>2. CASE k = n + 1
      BY <1>2, <1>7, <2>2, <2>5, <3>1, <3>2 DEF LastRun
    <3>3. CASE k # n + 1
      <4>1. k \in 1 .. n
        BY <1>2, <2>5, <3>3
      <4> QED BY <2>2, <2>5, <3>1, <4>1 DEF LedgerInv, SoundHistory, InRuns
    <3> QED BY <3>2, <3>3
  <2> QED BY <1>2, <2>3, <2>4, <2>5 DEF SoundHistory, InRuns
<1>9. CurrentInv'
  <2>1. ASSUME NEW v \in Worker, workers'[v] # None,
               IsCurrent(v, workers[v].boot)',
               workers'[v].boot # LocalBoot,
               NEW i \in 1 .. n + 1, NEW j \in 1 .. n + 1, i < j,
               history'[i].author = [ epoch |-> epoch, worker |-> v,
                                      boot |-> workers'[v].boot ],
               history'[j].author.worker = v
        PROVE  history'[j].author = history'[i].author
    <3>1. /\ workers[v] # None /\ workers'[v].boot = workers[v].boot
          /\ IsCurrent(v, workers[v].boot)
      BY <1>2, <1>3, <1>4, <2>1 DEF IsCurrent
    <3>2. i \in 1 .. n /\ history'[i] = history[i]
      BY <1>2, <2>1
    <3>3. CASE j = n + 1
      BY <1>2, <1>3, <2>1, <3>1, <3>3
    <3>4. CASE j # n + 1
      <4>1. j \in 1 .. n /\ history'[j] = history[j]
        BY <1>2, <2>1, <3>4
      <4> QED BY <1>2, <2>1, <3>1, <3>2, <4>1
              DEF LedgerInv, CurrentInv, LastRun
    <3> QED BY <3>3, <3>4
  <2> QED BY <1>2, <2>1 DEF CurrentInv, LastRun
<1>10. BootsInUse' \subseteq BootsInUse
  <2>1. ASSUME NEW v \in Worker, workers'[v] # None
        PROVE  workers'[v].boot \in BootsInUse
    BY <1>3, <1>4, <2>1 DEF BootsInUse
  <2>2. ASSUME NEW i \in 1 .. n + 1
        PROVE  history'[i].author.boot \in BootsInUse
    <3>1. CASE i = n + 1
      BY <1>2, <1>3, <3>1 DEF BootsInUse
    <3>2. CASE i # n + 1
      <4>1. i \in 1 .. n
        BY <1>2, <2>2, <3>2
      <4> QED BY <1>2, <4>1 DEF BootsInUse
    <3> QED BY <3>1, <3>2
  <2> QED BY <1>2, <2>1, <2>2 DEF BootsInUse
<1> QED BY <1>5, <1>6, <1>8, <1>9, <1>10 DEF LedgerInv

LEMMA RestoreMakesLedger ==
  ASSUME NEW h \in Seq(HistoryRecord), NEW e \in Nat \ { 0 },
         WrittenBy(h, e), SoundHistory(h), Restore(h, e)
  PROVE  LedgerInv'
<1>1. /\ epoch' = e /\ local' = LocalAt(e) /\ history' = h
      /\ \A w \in Worker :
           workers'[w] =
             IF w = LocalWorker /\ AuthoredBy(w, h) = {} THEN LocalView(e)
             ELSE IF AuthoredBy(w, h) = {} THEN None
             ELSE Historical(w, h)
  BY CoordinatorAssumption DEF Restore
<1>2. ASSUME NEW w \in Worker, AuthoredBy(w, h) # {}
      PROVE  /\ workers'[w] # None
             /\ BootFits(w, workers'[w].boot, workers'[w].epoch)
             /\ workers'[w].committed_records = Cardinality(AuthoredBy(w, h))
             /\ workers'[w].live = FALSE
  <2>1. workers'[w] = Historical(w, h)
    BY <1>1, <1>2
  <2>2. PICK last :
           /\ last \in AuthoredBy(w, h)
           /\ h[last] \in HistoryRecord
           /\ Historical(w, h) =
                [ boot |-> h[last].author.boot,
                  epoch |-> h[last].author.epoch, live |-> FALSE,
                  committed_records |-> Cardinality(AuthoredBy(w, h)) ]
    BY <1>2, LastAuthored
  <2>3. /\ h[last].author.worker = w
        /\ h[last].author \in Authority
        /\ BootFits(w, h[last].author.boot, h[last].author.epoch)
    BY <2>2 DEF AuthoredBy, SoundHistory, HistoryRecord
  <2>4. Cardinality(AuthoredBy(w, h)) \in Nat
    BY AuthoredIsFinite
  <2>5. /\ h[last].author.boot \in Boot
        /\ h[last].author.epoch \in Nat \ { 0 }
    BY <2>3 DEF Authority
  <2>6. Historical(w, h) \in WorkerView
    BY <2>2, <2>4, <2>5 DEF WorkerView
  <2>7. Historical(w, h) # None
    BY <2>6, NoneAssumption
  <2>8. /\ Historical(w, h).boot = h[last].author.boot
        /\ Historical(w, h).epoch = h[last].author.epoch
        /\ Historical(w, h).committed_records = Cardinality(AuthoredBy(w, h))
        /\ Historical(w, h).live = FALSE
    BY <2>2
  <2> QED BY <2>1, <2>3, <2>7, <2>8
<1>3. LocalView(e).boot = LocalBoot /\ LocalView(e).committed_records = 0
  BY DEF LocalView
<1>4. ASSUME NEW w \in Worker, AuthoredBy(w, h) = {}, workers'[w] # None
      PROVE  w = LocalWorker /\ workers'[w] = LocalView(e)
  <2>1. workers'[w] =
          IF w = LocalWorker /\ AuthoredBy(w, h) = {} THEN LocalView(e)
          ELSE IF AuthoredBy(w, h) = {} THEN None
          ELSE Historical(w, h)
    BY <1>1, <1>4
  <2>2. CASE w = LocalWorker
    BY <1>4, <2>1, <2>2
  <2>3. CASE w # LocalWorker
    BY <1>4, <2>1, <2>3
  <2> QED BY <2>2, <2>3
<1>5. ViewsInv'
  <2>1. ASSUME NEW w \in Worker, workers'[w] # None
        PROVE  BootFits(w, workers'[w].boot, workers'[w].epoch)
    <3>1. CASE AuthoredBy(w, h) = {}
      BY <1>3, <1>4, <2>1, <3>1 DEF BootFits
    <3>2. CASE AuthoredBy(w, h) # {}
      BY <1>2, <2>1, <3>2
    <3> QED BY <3>1, <3>2
  <2> QED BY <1>1, <2>1 DEF ViewsInv
<1>6. CountsInv'
  <2>1. ASSUME NEW w \in Worker
        PROVE  CommittedRecords(w)' = Cardinality(AuthoredBy(w, h))
    <3>1. CASE AuthoredBy(w, h) = {}
      BY <1>4, <3>1, FS_EmptySet DEF CommittedRecords, LocalView
    <3>2. CASE AuthoredBy(w, h) # {}
      BY <1>2, <3>2 DEF CommittedRecords
    <3> QED BY <3>1, <3>2
  <2> QED BY <1>1, <2>1 DEF CountsInv
<1>7. CurrentInv'
  <2>1. ASSUME NEW w \in Worker, workers'[w] # None,
               IsCurrent(w, workers[w].boot)'
        PROVE  AuthoredBy(w, h) = {}
    BY <1>2, <2>1 DEF IsCurrent
  <2>2. ASSUME NEW w \in Worker, AuthoredBy(w, h) = {},
               NEW j \in DOMAIN h
        PROVE  h[j].author.worker # w
    BY <2>2 DEF AuthoredBy
  <2> QED BY <1>1, <2>1, <2>2 DEF CurrentInv, LastRun
<1> QED BY <1>1, <1>5, <1>6, <1>7 DEF LedgerInv

LEMMA EmptyLedger ==
  ASSUME Create \/ /\ epoch' = 1 /\ local' = LocalAt(1)
                   /\ workers' = [ w \in Worker |-> None ]
                   /\ history' = << >>
  PROVE  LedgerInv' /\ BootsInUse' \subseteq { LocalBoot }
<1>1. /\ epoch' = 1 /\ local' = LocalAt(1) /\ history' = << >>
      /\ \A w \in Worker : workers'[w] # None =>
           w = LocalWorker /\ workers'[w] = LocalView(1)
  BY DEF Create
<1>2. ViewsInv'
  BY <1>1 DEF ViewsInv, LocalView, BootFits
<1>3. CountsInv'
  <2>1. \A w : AuthoredBy(w, << >>) = {}
    BY DEF AuthoredBy
  <2>2. \A w \in Worker : CommittedRecords(w)' = 0
    BY <1>1 DEF CommittedRecords, LocalView
  <2> QED BY <1>1, <2>1, <2>2, FS_EmptySet DEF CountsInv
<1>4. SoundHistory(history') /\ CurrentInv'
  BY <1>1 DEF SoundHistory, InRuns, CurrentInv, LastRun
<1>5. BootsInUse' \subseteq { LocalBoot }
  BY <1>1 DEF BootsInUse, LocalView
<1> QED BY <1>2, <1>3, <1>4, <1>5 DEF LedgerInv

(* No boot identity in use was minted in an epoch still to come. *)
LEMMA BootsAreOld ==
  ASSUME AuthorityTypeOK, LedgerInv, NEW boot \in BootsInUse
  PROVE  boot[1] \in Nat /\ boot[1] <= epoch
<1>1. epoch \in Nat
  BY DEF AuthorityTypeOK
<1>2. ASSUME NEW w \in Worker, workers[w] # None, boot = workers[w].boot
      PROVE  boot[1] \in Nat /\ boot[1] <= epoch
  <2>1. /\ BootFits(w, boot, workers[w].epoch)
        /\ workers[w] \in WorkerView /\ workers[w].epoch <= epoch
    BY <1>2, ViewsAreTyped DEF LedgerInv, ViewsInv
  <2>2. workers[w].epoch \in Nat
    BY <2>1 DEF WorkerView
  <2> QED BY <1>1, <2>1, <2>2 DEF BootFits, LocalBoot
<1>3. ASSUME NEW i \in DOMAIN history, boot = history[i].author.boot
      PROVE  boot[1] \in Nat /\ boot[1] <= epoch
  <2>1. /\ BootFits(history[i].author.worker, boot, history[i].author.epoch)
        /\ history[i].author.epoch <= epoch
        /\ history[i].author.epoch \in Nat
    BY <1>3, AuthorsAreTyped DEF LedgerInv, SoundHistory
  <2> QED BY <1>1, <2>1 DEF BootFits, LocalBoot
<1> QED BY <1>2, <1>3 DEF BootsInUse

LEMMA AdvanceKeepsLedger ==
  ASSUME AuthorityTypeOK, LedgerInv, AdvanceEpoch
  PROVE  LedgerInv' /\ \A boot \in BootsInUse' : boot[1] # epoch'
<1>1. /\ epoch \in Nat /\ epoch' = epoch + 1 /\ history' = history
      /\ local = LocalAt(epoch) /\ local.worker = LocalWorker
      /\ local.boot = LocalBoot
  BY DEF AdvanceEpoch, AuthorityTypeOK, LedgerInv, ViewsInv, LocalAt
<1>2. local' = LocalAt(epoch')
  BY <1>1 DEF AdvanceEpoch, RenewedLocal, LocalAt
<1>3. LocalWorker \in Worker =>
        /\ workers'[LocalWorker] # None
        /\ workers'[LocalWorker].boot = LocalBoot
        /\ workers'[LocalWorker].committed_records =
             CommittedRecords(LocalWorker)
  <2>1. SUFFICES ASSUME LocalWorker \in Worker
                 PROVE  <1>3!2
    OBVIOUS
  <2> DEFINE v == [ boot |-> LocalBoot, epoch |-> epoch + 1, live |-> TRUE,
                    committed_records |-> CommittedRecords(LocalWorker) ]
  <2>2. workers'[LocalWorker] = v
    BY <1>1, <2>1 DEF AdvanceEpoch
  <2>4. CommittedRecords(LocalWorker) \in Nat
    BY <2>1, ViewsAreTyped
  <2>5. LocalBoot \in Boot /\ epoch + 1 \in Nat \ { 0 }
    BY <1>1 DEF Boot
  <2>3. v \in WorkerView
    BY <2>4, <2>5 DEF WorkerView
  <2>6. /\ v.boot = LocalBoot
        /\ v.committed_records = CommittedRecords(LocalWorker)
    OBVIOUS
  <2> QED BY <2>2, <2>3, <2>6, NoneAssumption
<1>4. ASSUME NEW w \in Worker, w # LocalWorker
      PROVE  \/ workers[w] = None /\ workers'[w] = None
             \/ /\ workers[w] # None /\ workers'[w] # None
                /\ workers'[w].boot = workers[w].boot
                /\ workers'[w].epoch = workers[w].epoch
                /\ workers'[w].committed_records =
                     workers[w].committed_records
                /\ workers'[w].live = FALSE
  <2>1. workers'[w] = Fenced(workers[w])
    BY <1>1, <1>4 DEF AdvanceEpoch
  <2>2. CASE workers[w] # None
    <3>1. /\ workers[w] \in WorkerView
          /\ workers'[w] = [ workers[w] EXCEPT !.live = FALSE ]
      BY <2>1, <2>2, ViewsAreTyped DEF Fenced
    <3>2. workers'[w] \in WorkerView
      BY <3>1 DEF WorkerView
    <3> QED BY <2>2, <3>1, <3>2, NoneAssumption DEF WorkerView
  <2> QED BY <2>1, <2>2 DEF Fenced
<1>5. ViewsInv'
  BY <1>2, <1>3, <1>4 DEF ViewsInv, LedgerInv, BootFits
<1>6. CountsInv'
  <2>1. ASSUME NEW w \in Worker
        PROVE  CommittedRecords(w)' = CommittedRecords(w)
    BY <1>3, <1>4 DEF CommittedRecords
  <2> QED BY <1>1, <2>1 DEF CountsInv, LedgerInv
<1>7. CurrentInv'
  <2>1. ASSUME NEW i \in DOMAIN history
        PROVE  history[i].author.epoch # epoch + 1
    BY <1>1, AuthorsAreTyped
  <2>3. ASSUME NEW w \in Worker
        PROVE  LastRun([ epoch |-> epoch, worker |-> w,
                         boot |-> workers[w].boot ])'
    <3> DEFINE a == [ epoch |-> epoch', worker |-> w,
                      boot |-> workers'[w].boot ]
    <3>1. a.epoch = epoch + 1
      BY <1>1
    <3> HIDE DEF a
    <3>2. ASSUME NEW i \in DOMAIN history
          PROVE  history[i].author # a
      BY <2>1, <3>1
    <3>3. \A i, j \in DOMAIN history' :
            /\ i < j /\ history'[i].author = a
            /\ history'[j].author.worker = a.worker
            => history'[j].author = a
      BY <1>1, <3>2
    <3> QED BY <3>3 DEF LastRun, a
  <2> QED BY <2>3 DEF CurrentInv
<1>8. BootsInUse' \subseteq BootsInUse \cup { LocalBoot }
  <2>1. ASSUME NEW w \in Worker, workers'[w] # None
        PROVE  workers'[w].boot \in BootsInUse \cup { LocalBoot }
    <3>1. CASE w = LocalWorker
      BY <1>3, <3>1
    <3>2. CASE w # LocalWorker
      BY <1>4, <2>1, <3>2 DEF BootsInUse
    <3> QED BY <3>1, <3>2
  <2>2. ASSUME NEW i \in DOMAIN history'
        PROVE  history'[i].author.boot \in BootsInUse
    BY <1>1, <2>2 DEF BootsInUse
  <2> QED BY <2>1, <2>2 DEF BootsInUse
<1>9. ASSUME NEW boot \in BootsInUse'
      PROVE  boot[1] # epoch'
  <2>1. CASE boot \in BootsInUse
    BY <1>1, <2>1, BootsAreOld
  <2>2. CASE boot = LocalBoot
    BY <1>1, <2>2 DEF LocalBoot
  <2> QED BY <1>8, <1>9, <2>1, <2>2
<1> QED BY <1>1, <1>5, <1>6, <1>7, <1>9 DEF LedgerInv

-----------------------------------------------------------------------------
(* Counters taken and not used yet. *)

LEMMA FreshStays ==
  ASSUME TypeInv, FreshInv, Up, epoch' = epoch,
         BootsInUse' \subseteq BootsInUse \cup { LocalBoot },
         PendingStays \/ \E c \in Conn : TakeCounter(c)
  PROVE  FreshInv'
<1>1. /\ epoch \in Nat \ { 0 } /\ next_boot \in Nat \ { 0 }
      /\ conn \in [ Conn -> Connection ] /\ pc \in [ Conn -> Places ]
  BY DEF TypeInv, AuthorityTypeOK, HandlersInv
<1>2. /\ \A boot \in BootsInUse : boot[1] = epoch => boot[2] < next_boot
      /\ \A c \in Conn : Pending(c) =>
           /\ conn[c].counter < next_boot
           /\ MintedBoot(conn[c].counter) \notin BootsInUse
           /\ \A d \in Conn :
                Pending(d) /\ conn[d].counter = conn[c].counter => d = c
  BY DEF FreshInv, Up
<1>3. \A boot \in BootsInUse' : boot \in BootsInUse \/ boot[1] # epoch
  BY <1>1 DEF LocalBoot
<1>4. \A k : MintedBoot(k) \in BootsInUse' => MintedBoot(k) \in BootsInUse
  BY <1>1, <1>3 DEF MintedBoot
<1>5. CASE PendingStays
  BY <1>2, <1>3, <1>4, <1>5 DEF PendingStays, FreshInv, MintedBoot
<1>6. ASSUME NEW c \in Conn, TakeCounter(c)
      PROVE  FreshInv'
  <2>1. /\ next_boot' = next_boot + 1
        /\ conn' = [ conn EXCEPT ![c].counter = next_boot ]
        /\ pc' = [ pc EXCEPT ![c] = "admitting" ]
    BY <1>6 DEF TakeCounter, Goto
  <2>2. /\ conn'[c].counter = next_boot
        /\ \A d \in Conn : d # c => /\ conn'[d] = conn[d]
                                    /\ pc'[d] = pc[d]
    BY <1>1, <2>1 DEF Connection
  <2>3. \A d \in Conn : conn[d].counter \in Nat
    BY <1>1 DEF Connection
  <2>4. \A boot \in BootsInUse : boot[1] = epoch => boot[2] < next_boot + 1
    <3>1. ASSUME NEW boot \in BootsInUse, boot[1] = epoch
          PROVE  boot[2] \in Nat
      <4>1. boot \in Boot
        BY <3>1, ViewsAreTyped, AuthorsAreTyped DEF BootsInUse, TypeInv,
           Authority
      <4> QED BY <1>1, <3>1, <4>1 DEF Boot, LocalBoot
    <3> QED BY <1>1, <1>2, <3>1
  <2>5. MintedBoot(next_boot) \notin BootsInUse
    BY <1>1, <1>2 DEF MintedBoot
  <2>6. ASSUME NEW d \in Conn, Pending(d)'
        PROVE  /\ conn'[d].counter < next_boot + 1
               /\ MintedBoot(conn'[d].counter) \notin BootsInUse
               /\ \A f \in Conn :
                    Pending(f)' /\ conn'[f].counter = conn'[d].counter => f = d
    <3>1. CASE d = c
      BY <1>1, <1>2, <2>2, <2>3, <2>5, <3>1 DEF Pending
    <3>2. CASE d # c
      BY <1>1, <1>2, <2>2, <2>3, <2>6, <3>2 DEF Pending
    <3> QED BY <3>1, <3>2
  <2> QED BY <1>3, <1>4, <2>1, <2>4, <2>6 DEF FreshInv, MintedBoot
<1> QED BY <1>5, <1>6

LEMMA AdmitKeepsAuthority ==
  ASSUME TypeInv, LedgerInv, FreshInv, Up, NEW c \in Conn, Admit(c)
  PROVE  LedgerInv' /\ FreshInv'
<1> DEFINE w == conn[c].worker
           k == conn[c].counter
<1>1. /\ AuthorityTypeOK /\ HandlersInv
      /\ epoch \in Nat \ { 0 } /\ next_boot \in Nat \ { 0 }
      /\ conn \in [ Conn -> Connection ] /\ pc \in [ Conn -> Places ]
  BY DEF TypeInv, AuthorityTypeOK, HandlersInv
<1>2. /\ Pending(c) /\ pc' = [ pc EXCEPT ![c] = "ready" ]
      /\ w \in Client /\ k \in Nat \ { 0 }
      /\ AdmitIncarnation(w, conn[c].claims, k)
      /\ \A d \in Conn : d # c => conn'[d] = conn[d]
      /\ next_boot' = next_boot /\ epoch' = epoch
  BY <1>1, AdmitHandsOut DEF Pending, AdmitIncarnation
<1>3. /\ \A boot \in BootsInUse : boot[1] = epoch => boot[2] < next_boot
      /\ \A d \in Conn : Pending(d) =>
           /\ conn[d].counter < next_boot
           /\ MintedBoot(conn[d].counter) \notin BootsInUse
           /\ \A f \in Conn :
                Pending(f) /\ conn[f].counter = conn[d].counter => f = d
  BY DEF FreshInv, Up
<1>4. LedgerInv' /\ BootsInUse' \subseteq BootsInUse \cup { MintedBoot(k) }
  BY <1>1, <1>2, <1>3, AdmissionKeepsLedger
<1>5. \A d \in Conn : Pending(d)' => Pending(d) /\ d # c
  BY <1>1, <1>2 DEF Pending
<1>6. \A boot \in BootsInUse' : boot[1] = epoch => boot[2] < next_boot
  BY <1>2, <1>3, <1>4 DEF MintedBoot
<1>7. ASSUME NEW d \in Conn, Pending(d)'
      PROVE  /\ conn'[d].counter < next_boot
             /\ MintedBoot(conn'[d].counter) \notin BootsInUse'
             /\ \A f \in Conn :
                  Pending(f)' /\ conn'[f].counter = conn'[d].counter => f = d
  <2>1. Pending(d) /\ d # c /\ conn'[d] = conn[d] /\ conn[d].counter # k
    BY <1>2, <1>3, <1>5, <1>7
  <2>2. MintedBoot(conn[d].counter) # MintedBoot(k)
    BY <2>1 DEF MintedBoot
  <2> QED BY <1>2, <1>3, <1>4, <1>5, <2>1, <2>2
<1>8. FreshInv'
  BY <1>2, <1>6, <1>7 DEF FreshInv, MintedBoot
<1> QED BY <1>4, <1>8


-----------------------------------------------------------------------------
(* AuthorityInv, step by step. *)

LEMMA NoneIsPending ==
  ASSUME TypeInv, ~Up
  PROVE  \A c \in Conn : ~Pending(c)
BY DEF TypeInv, ProcessInv, Pending

SoundFile ==
  /\ disk # None => SoundHistory(disk.history)
  /\ \A t \in Thread : Copied(t) => SoundHistory(saving[t].history)

LEMMA FileMovesKeepSound ==
  ASSUME TypeInv, SoundFile, SoundHistory(history), FileMoves
  PROVE  SoundFile'
<1>1. saving \in [ Thread -> Snapshot \cup { None } ]
  BY DEF TypeInv, MutexInv
<1>2. CASE UNCHANGED << disk, saving >>
  BY <1>2 DEF SoundFile, Copied
<1>3. ASSUME NEW t \in Thread, CopyLedger(t), UNCHANGED disk
      PROVE  SoundFile'
  <2>1. /\ saving'[t].history = history
        /\ \A u \in Thread : u # t => saving'[u] = saving[u]
    BY <1>1, <1>3 DEF CopyLedger, Image
  <2> QED BY <1>3, <2>1 DEF SoundFile, Copied
<1>4. ASSUME NEW t \in Thread, Copied(t), WriteCopy(t)
      PROVE  SoundFile'
  <2>1. /\ disk' \in { disk, saving[t] } /\ saving'[t] = None
        /\ \A u \in Thread : u # t => saving'[u] = saving[u]
    BY <1>1, <1>4 DEF WriteCopy, Written
  <2> QED BY <1>4, <2>1 DEF SoundFile, Copied
<1> QED BY <1>2, <1>3, <1>4 DEF FileMoves

LEMMA RunsKeepAuthority ==
  ASSUME TypeInv, AuthorityInv, Runs
  PROVE  AuthorityInv'
<1>1. /\ AuthorityTypeOK /\ LedgerInv /\ FreshInv /\ SoundFile
      /\ SoundHistory(history) /\ Up
  BY DEF TypeInv, AuthorityInv, LedgerInv, SoundFile, Runs
<1>2. SoundFile'
  BY <1>1, FileMovesKeepSound DEF Runs
<1>3. LedgerInv' /\ FreshInv'
  <2>1. ASSUME NEW c \in Conn, Admit(c)
        PROVE  LedgerInv' /\ FreshInv'
    BY <1>1, <2>1, AdmitKeepsAuthority
  <2>2. CASE \A c \in Conn : ~Admit(c)
    <3>1. /\ LedgerInv' /\ BootsInUse' \subseteq BootsInUse \cup { LocalBoot }
      BY <1>1, <2>2, LedgerStays, FencesKeepLedger, CommitsKeepLedger,
         LocalReadmissionKeepsLedger DEF Runs, AuthorityMoves
    <3>2. epoch' = epoch
      BY AuthorityMovesKeepTypes DEF Runs
    <3>3. PendingStays \/ \E c \in Conn : TakeCounter(c)
      BY <2>2 DEF Runs, CounterMoves
    <3> QED BY <1>1, <3>1, <3>2, <3>3, FreshStays
  <2> QED BY <2>1, <2>2
<1> QED BY <1>2, <1>3 DEF AuthorityInv, SoundFile

LEMMA BoundaryKeepsAuthority ==
  ASSUME TypeInv, AuthorityInv, Boundary
  PROVE  AuthorityInv'
<1>1. /\ AuthorityTypeOK /\ LedgerInv /\ FreshInv /\ SoundFile
      /\ SoundHistory(history) /\ ImagesInv
  BY DEF TypeInv, AuthorityInv, LedgerInv, SoundFile
<1>2. CASE Start
  <2>1. /\ UNCHANGED << handlerVars, saving, disk >>
        /\ server = "down" /\ ~Up
    BY <1>2 DEF Start, Up
  <2>2. SoundFile'
    BY <1>1, <2>1 DEF SoundFile, Copied
  <2>3. CASE disk = None
    <3>1. Create /\ server' = "starting" /\ epoch' = 1
      BY <1>2, <2>3 DEF Start, Create
    <3>2. LedgerInv' /\ BootsInUse' \subseteq { LocalBoot }
      BY <3>1, EmptyLedger
    <3>3. FreshInv'
      BY <2>1, <3>1, <3>2, NoneIsPending DEF FreshInv, Pending, LocalBoot,
         handlerVars
    <3> QED BY <2>2, <3>2, <3>3 DEF AuthorityInv, SoundFile
  <2>4. CASE disk # None
    <3>1. /\ Restore(disk.history, disk.epoch) /\ server' = "loaded"
          /\ Loadable(disk) /\ SoundHistory(disk.history)
      BY <1>1, <1>2, <2>4 DEF Start, ImagesInv, SoundFile
    <3>2. /\ disk.history \in Seq(HistoryRecord)
          /\ disk.epoch \in Nat \ { 0 }
          /\ WrittenBy(disk.history, disk.epoch)
      BY <3>1 DEF Loadable, Snapshot
    <3>3. LedgerInv'
      BY <3>1, <3>2, RestoreMakesLedger
    <3>4. FreshInv'
      BY <3>1 DEF FreshInv
    <3> QED BY <2>2, <3>3, <3>4 DEF AuthorityInv, SoundFile
  <2> QED BY <2>3, <2>4
<1>3. CASE StartAdvance
  <2>1. /\ UNCHANGED << handlerVars, saving, disk >>
        /\ AdvanceEpoch /\ ~Up
    BY <1>3 DEF StartAdvance, Up
  <2>2. SoundFile'
    BY <1>1, <2>1 DEF SoundFile, Copied
  <2>3. LedgerInv' /\ \A boot \in BootsInUse' : boot[1] # epoch'
    BY <1>1, <2>1, AdvanceKeepsLedger
  <2>4. FreshInv'
    BY <2>1, <2>3, NoneIsPending DEF FreshInv, Pending, handlerVars
  <2> QED BY <2>2, <2>3, <2>4 DEF AuthorityInv, SoundFile
<1>4. CASE StartPersist
  <2>1. /\ UNCHANGED << handlerVars, saving, authorityVars >>
        /\ server = "starting" /\ disk' \in { disk, Image }
    BY <1>4 DEF StartPersist, Written
  <2>2. SoundFile'
    BY <1>1, <2>1 DEF SoundFile, Copied, Image
  <2>3. LedgerInv' /\ BootsInUse' = BootsInUse
    BY <1>1, <2>1, LedgerStays
  <2>4. FreshInv'
    BY <1>1, <2>1, <2>3 DEF FreshInv, Pending, MintedBoot, handlerVars,
       authorityVars
  <2> QED BY <2>2, <2>3, <2>4 DEF AuthorityInv, SoundFile
<1>5. CASE Crash
  <2>1. /\ server' = "down" /\ NoProcess /\ UNCHANGED disk
        /\ epoch' = 1 /\ local' = LocalAt(1)
        /\ workers' = [ w \in Worker |-> None ] /\ history' = << >>
    BY <1>5 DEF Crash
  <2>2. \A t \in Thread : ~Copied(t)'
    BY <2>1 DEF NoProcess, Copied
  <2>3. LedgerInv'
    BY <2>1, EmptyLedger
  <2> QED BY <1>1, <2>1, <2>2, <2>3 DEF AuthorityInv, SoundFile, FreshInv
<1> QED BY <1>2, <1>3, <1>4, <1>5 DEF Boundary

LEMMA AuthorityStep ==
  ASSUME TypeInv, AuthorityInv, [Next]_vars
  PROVE  AuthorityInv'
<1>1. CASE Next
  BY <1>1, StepsRun, RunsKeepAuthority, BoundaryKeepsAuthority
<1>2. CASE UNCHANGED vars
  <2>1. /\ UNCHANGED << authorityVars, handlerVars, server, saving, disk >>
    BY <1>2 DEF vars, serverVars
  <2>2. LedgerInv' /\ BootsInUse' = BootsInUse
    BY <2>1, LedgerStays DEF AuthorityInv
  <2> QED BY <2>1, <2>2 DEF AuthorityInv, FreshInv, Pending, MintedBoot,
          Copied, handlerVars, authorityVars
<1> QED BY <1>1, <1>2

LEMMA AuthorityInit == Init => AuthorityInv
<1> SUFFICES ASSUME Init PROVE AuthorityInv
  OBVIOUS
<1>1. /\ epoch = 1 /\ local = LocalAt(1) /\ history = << >>
      /\ \A w \in Worker : workers[w] = None
      /\ server = "down" /\ disk = None
      /\ \A t \in Thread : ~Copied(t)
  BY DEF Init, Copied
<1>2. ViewsInv /\ CurrentInv
  BY <1>1 DEF ViewsInv, CurrentInv
<1>3. CountsInv
  <2>1. \A w : AuthoredBy(w, << >>) = {}
    BY DEF AuthoredBy
  <2> QED BY <1>1, <2>1, FS_EmptySet DEF CountsInv, CommittedRecords
<1>4. SoundHistory(history)
  BY <1>1 DEF SoundHistory, InRuns
<1> QED BY <1>1, <1>2, <1>3, <1>4 DEF AuthorityInv, LedgerInv, FreshInv

LEMMA AuthorityHolds == Spec => [](TypeInv /\ AuthorityInv)
BY TypeInit, TypeStep, AuthorityInit, AuthorityStep, PTL DEF Spec

(* The count a ledger keeps for a worker is the number of its records,      *)
(* however many incarnations wrote them and however often the coordinator   *)
(* was killed, restored and advanced (append_batch_with_authority, restore  *)
(* and admit_worker_incarnation, ledger.cpp).                               *)
THEOREM CountsMatch == Spec => []CountsMatchHistory
<1>1. AuthorityInv => CountsMatchHistory
  BY DEF AuthorityInv, LedgerInv, CountsInv, CommittedRecords,
     CountsMatchHistory
<1> QED BY <1>1, AuthorityHolds, PTL

(* Once another incarnation of a worker has appended, one that the ledger   *)
(* minted before never does again: whichever worker connects (the local one *)
(* too, though nothing is said of the local boot), whatever its handlers    *)
(* do, the counters they take without a lock, crashes and restarts, and     *)
(* also when no write of the file ever succeeds (admit_worker_incarnation   *)
(* and the serve() of cluster.cpp).                                         *)
THEOREM IncarnationsStayApart == Spec => []IncarnationsNeverInterleave
<1>1. AuthorityInv => IncarnationsNeverInterleave
  BY DEF AuthorityInv, LedgerInv, SoundHistory, InRuns,
     IncarnationsNeverInterleave
<1> QED BY <1>1, AuthorityHolds, PTL


-----------------------------------------------------------------------------
(* The file, step by step. *)

(* Prefixes, for the histories of this system. *)
Histories == Seq(HistoryRecord)

LEMMA PrefixFacts ==
  ASSUME NEW r \in Histories, NEW s \in Histories, NEW t \in Histories
  PROVE  /\ IsPrefix(s, s)
         /\ IsPrefix(r, s) /\ IsPrefix(s, t) => IsPrefix(r, t)
<1>1. /\ IsPrefix(s, s) <=>
           Len(s) <= Len(s) /\ \A i \in 1 .. Len(s) : s[i] = s[i]
      /\ IsPrefix(r, s) <=>
           Len(r) <= Len(s) /\ \A i \in 1 .. Len(r) : r[i] = s[i]
      /\ IsPrefix(s, t) <=>
           Len(s) <= Len(t) /\ \A i \in 1 .. Len(s) : s[i] = t[i]
      /\ IsPrefix(r, t) <=>
           Len(r) <= Len(t) /\ \A i \in 1 .. Len(r) : r[i] = t[i]
  BY PrefixIs DEF Histories
<1>2. Len(r) \in Nat /\ Len(s) \in Nat /\ Len(t) \in Nat
  BY DEF Histories
<1>3. IsPrefix(s, s)
  BY <1>1, <1>2
<1>4. ASSUME IsPrefix(r, s), IsPrefix(s, t) PROVE IsPrefix(r, t)
  <2>1. /\ Len(r) <= Len(s) /\ Len(s) <= Len(t)
        /\ \A i \in 1 .. Len(r) : r[i] = s[i]
        /\ \A i \in 1 .. Len(s) : s[i] = t[i]
    BY <1>1, <1>4
  <2>2. ASSUME NEW i \in 1 .. Len(r) PROVE r[i] = t[i]
    BY <1>2, <2>1
  <2>3. Len(r) <= Len(t)
    BY <1>2, <2>1
  <2> QED BY <1>1, <2>2, <2>3
<1> QED BY <1>3, <1>4

LEMMA EarlierStays ==
  ASSUME NEW s \in Snapshot, NEW h \in Histories, NEW g \in Histories,
         NEW e \in Nat, NEW f \in Nat,
         Earlier(s, h, e), IsPrefix(h, g), e <= f
  PROVE  Earlier(s, g, f)
<1>1. s.history \in Histories /\ s.epoch \in Nat
  BY DEF Snapshot, Histories
<1>2. IsPrefix(s.history, g)
  BY <1>1, PrefixFacts DEF Earlier
<1> QED BY <1>1, <1>2 DEF Earlier

(* A ledger in service only grows. *)
LEMMA LedgerGrows ==
  ASSUME TypeInv, AuthorityMoves
  PROVE  /\ epoch' = epoch /\ IsPrefix(history, history')
         /\ history \in Histories /\ history' \in Histories
<1>1. AuthorityTypeOK /\ AuthorityTypeOK' /\ epoch' = epoch
  BY AuthorityMovesKeepTypes DEF TypeInv
<1>2. history \in Histories /\ history' \in Histories
  BY <1>1 DEF AuthorityTypeOK, Histories
<1>3. \/ history' = history
      \/ /\ Len(history') = Len(history) + 1
         /\ \A i \in 1 .. Len(history) : history'[i] = history[i]
  <2>1. CASE Commits
    <3>1. PICK a \in Authority, id \in RecordId :
            a.epoch = epoch /\ CommitRecord(a, id)
      BY <2>1 DEF Commits
    <3> QED BY <1>1, <3>1, CommitTypes
  <2>2. ASSUME NEW c \in Conn, Admit(c) PROVE history' = history
    BY <2>2 DEF Admit, AdmitIncarnation
  <2>3. CASE UNCHANGED authorityVars \/ AdmitWorker(LocalWorker, LocalBoot)
    BY <2>3 DEF authorityVars, AdmitWorker
  <2>4. CASE Fences
    BY <2>4 DEF Fences, FenceAllWorkers, FenceWorker, FenceWorkerBoot
  <2> QED BY <2>1, <2>2, <2>3, <2>4 DEF AuthorityMoves
<1>4. CASE history' = history
  BY <1>1, <1>2, <1>4, PrefixFacts
<1>5. CASE /\ Len(history') = Len(history) + 1
           /\ \A i \in 1 .. Len(history) : history'[i] = history[i]
  <2>1. Len(history) \in Nat /\ Len(history) <= Len(history')
    BY <1>2, <1>5 DEF Histories
  <2>2. IsPrefix(history, history')
    BY <1>2, <1>5, <2>1, PrefixIs DEF Histories
  <2> QED BY <1>1, <1>2, <2>2
<1> QED BY <1>3, <1>4, <1>5

Follows == disk # None => Earlier(disk, disk'.history, disk'.epoch)

LEMMA RunsKeepFile ==
  ASSUME TypeInv, TypeInv', FileInv, Runs
  PROVE  FileInv' /\ Follows /\ (disk # None => disk' # None)
<1>1. /\ MutexInv /\ ImagesInv /\ ImagesInv'
      /\ saving \in [ Thread -> Snapshot \cup { None } ]
      /\ Up /\ Up' /\ epoch \in Nat
      /\ disk # None => disk \in Snapshot
  BY DEF TypeInv, MutexInv, ImagesInv, Loadable, Runs, AuthorityTypeOK
<1>2. /\ epoch' = epoch /\ IsPrefix(history, history')
      /\ history \in Histories /\ history' \in Histories
  BY LedgerGrows DEF Runs
<1>3. \A s \in Snapshot : Earlier(s, history, epoch) =>
                            Earlier(s, history', epoch')
  BY <1>1, <1>2, EarlierStays
<1>4. \A s \in Snapshot : Earlier(s, s.history, s.epoch)
  <2>1. ASSUME NEW s \in Snapshot PROVE Earlier(s, s.history, s.epoch)
    BY PrefixFacts DEF Earlier, Snapshot, Histories
  <2> QED BY <2>1
<1>5. /\ disk # None => Earlier(disk, history, epoch)
      /\ \A t \in Thread : Copied(t) =>
           /\ Earlier(saving[t], history, epoch)
           /\ disk # None =>
                Earlier(disk, saving[t].history, saving[t].epoch)
      /\ server' # "loaded"
  BY <1>1 DEF FileInv, Up
<1>6. \A t \in Thread : Copied(t) => saving[t] \in Snapshot /\ saving[t] # None
  BY <1>1 DEF Copied
<1>7. CASE UNCHANGED << disk, saving >>
  BY <1>1, <1>3, <1>4, <1>5, <1>6, <1>7 DEF FileInv, Follows, Copied
<1>8. ASSUME NEW t \in Thread, CopyLedger(t), UNCHANGED << disk, authorityVars >>
      PROVE  FileInv' /\ Follows /\ (disk # None => disk' # None)
  <2>1. /\ saving'[t] = Image
        /\ \A u \in Thread : u # t => saving'[u] = None
        /\ Image \in Snapshot /\ Image.history = history
        /\ Image.epoch = epoch
    <3>1. Image \in Snapshot
      BY ImageIsLoadable DEF Loadable, TypeInv
    <3> QED BY <1>1, <1>8, <3>1 DEF CopyLedger, Image
  <2>2. Earlier(Image, history, epoch)
    BY <1>4, <2>1
  <2>3. ASSUME NEW u \in Thread, Copied(u)'
        PROVE  /\ Earlier(saving'[u], history', epoch')
               /\ disk' # None =>
                    Earlier(disk', saving'[u].history, saving'[u].epoch)
    <3>1. u = t
      BY <2>1, <2>3 DEF Copied
    <3> QED BY <1>3, <1>5, <1>8, <2>1, <2>2, <3>1
  <2>4. disk' = disk
    BY <1>8
  <2> QED BY <1>1, <1>3, <1>4, <1>5, <2>3, <2>4 DEF FileInv, Follows
<1>9. ASSUME NEW t \in Thread, Copied(t), WriteCopy(t)
      PROVE  FileInv' /\ Follows /\ (disk # None => disk' # None)
  <2>1. /\ disk' \in { disk, saving[t] } /\ saving'[t] = None
        /\ \A u \in Thread : u # t => saving'[u] = saving[u]
    BY <1>1, <1>9 DEF WriteCopy, Written
  <2>2. \A u \in Thread : ~Copied(u)'
    BY <1>1, <1>9, <2>1 DEF Copied, MutexInv
  <2>3. /\ disk' # None => disk' \in Snapshot /\ Earlier(disk', history, epoch)
        /\ disk # None => disk' # None
    BY <1>1, <1>5, <1>6, <1>9, <2>1
  <2>4. Follows
    BY <1>1, <1>4, <1>5, <1>9, <2>1 DEF Follows
  <2> QED BY <1>3, <1>5, <2>2, <2>3, <2>4 DEF FileInv
<1> QED BY <1>7, <1>8, <1>9 DEF Runs, FileMoves

LEMMA BoundaryKeepsFile ==
  ASSUME TypeInv, FileInv, Boundary
  PROVE  FileInv' /\ Follows /\ (disk # None => disk' # None)
<1>1. /\ MutexInv /\ ImagesInv /\ AuthorityTypeOK
      /\ disk # None => disk \in Snapshot
      /\ Image \in Snapshot /\ Image # None
      /\ Image.history = history /\ Image.epoch = epoch
  BY ImageIsLoadable DEF TypeInv, ImagesInv, Loadable, Image
<1>2. \A s \in Snapshot : Earlier(s, s.history, s.epoch)
  <2>1. ASSUME NEW s \in Snapshot PROVE Earlier(s, s.history, s.epoch)
    BY PrefixFacts DEF Earlier, Snapshot, Histories
  <2> QED BY <2>1
<1>3. ~Up => \A t \in Thread : ~Copied(t)
  BY DEF TypeInv, ProcessInv
<1>4. CASE Start
  <2>1. /\ UNCHANGED << saving, disk >> /\ ~Up
        /\ disk = None => server' = "starting"
        /\ disk # None => history' = disk.history /\ epoch' = disk.epoch
    BY <1>4 DEF Start, Up, Restore
  <2> QED BY <1>1, <1>2, <1>3, <2>1 DEF FileInv, Follows, Copied
<1>5. CASE StartAdvance
  <2>1. /\ UNCHANGED << saving, disk, history >> /\ ~Up
        /\ epoch' = epoch + 1 /\ server = "loaded" /\ server' = "starting"
    BY <1>5 DEF StartAdvance, AdvanceEpoch, Up
  <2>2. disk # None => Earlier(disk, history, epoch)
    BY <2>1 DEF FileInv
  <2>3. disk # None => Earlier(disk, history', epoch')
    BY <1>1, <2>1, <2>2 DEF Earlier, Snapshot, AuthorityTypeOK
  <2> QED BY <1>1, <1>2, <1>3, <2>1, <2>3 DEF FileInv, Follows, Copied
<1>6. CASE StartPersist
  <2>1. /\ UNCHANGED << saving, history, epoch >> /\ ~Up
        /\ server = "starting" /\ server' = "looping"
        /\ disk' \in { disk, Image }
    BY <1>6 DEF StartPersist, Written, Up, authorityVars
  <2>2. disk # None => Earlier(disk, history, epoch)
    BY <2>1 DEF FileInv
  <2>3. /\ disk' # None => Earlier(disk', history', epoch')
        /\ Follows /\ (disk # None => disk' # None)
    BY <1>1, <1>2, <2>1, <2>2 DEF Follows
  <2> QED BY <1>3, <2>1, <2>3 DEF FileInv, Copied
<1>7. CASE Crash
  <2>1. /\ server' = "down" /\ UNCHANGED disk
        /\ \A t \in Thread : ~Copied(t)'
    BY <1>7 DEF Crash, NoProcess, Copied
  <2> QED BY <1>1, <1>2, <2>1 DEF FileInv, Follows
<1> QED BY <1>4, <1>5, <1>6, <1>7 DEF Boundary

LEMMA FileStep ==
  ASSUME TypeInv, FileInv, [Next]_vars
  PROVE  FileInv' /\ Follows /\ (disk # None => disk' # None)
<1>1. CASE Next
  BY <1>1, TypeStep, StepsRun, RunsKeepFile, BoundaryKeepsFile
<1>2. CASE UNCHANGED vars
  <2>1. UNCHANGED << history, epoch, server, saving, disk >>
    BY <1>2 DEF vars, serverVars, authorityVars
  <2>2. disk # None => disk \in Snapshot
    BY DEF TypeInv, ImagesInv, Loadable
  <2>3. Follows
    BY <2>1, <2>2, PrefixFacts DEF Follows, Earlier, Snapshot, Histories
  <2> QED BY <2>1, <2>3 DEF FileInv, Copied
<1> QED BY <1>1, <1>2

LEMMA FileInit == Init => FileInv
BY DEF Init, FileInv, Copied

LEMMA FileHolds == Spec => [](TypeInv /\ FileInv)
BY TypeInit, TypeStep, FileInit, FileStep, PTL DEF Spec

(* The file never loses a record or goes back to an older epoch, whichever  *)
(* threads save, whether their writes succeed or not, and across restarts   *)
(* (persist, cluster.cpp).                                                  *)
THEOREM FileGrows == Spec => FileOnlyGrows
<1>1. ASSUME TypeInv, FileInv, [Next]_vars
      PROVE  [ disk # None =>
                 /\ IsPrefix(disk.history, disk'.history)
                 /\ disk.epoch <= disk'.epoch ]_vars
  BY <1>1, FileStep DEF Follows, Earlier
<1> QED BY <1>1, FileHolds, PTL DEF Spec, FileOnlyGrows


-----------------------------------------------------------------------------
(* When every write of the file succeeds: IssuedInv, and an incarnation a   *)
(* worker has lost never returns.                                           *)

LEMMA IssuedTyped ==
  ASSUME TypeInv, NEW a \in issued
  PROVE  /\ a \in Authority /\ a.worker \in Client /\ a.worker \in Worker
         /\ a.boot \in Boot /\ a.boot[1] \in Nat /\ a.boot[2] \in Nat
         /\ a.epoch \in Nat
<1>1. a \in Authority /\ a.worker \in Client
  BY DEF TypeInv, HandlersInv
<1>2. a.boot \in Boot /\ a.epoch \in Nat
  BY <1>1 DEF Authority
<1>3. a.boot[1] \in Nat /\ a.boot[2] \in Nat
  BY <1>2 DEF Boot, LocalBoot
<1> QED BY <1>1, <1>2, <1>3, ClientsAreWorkers

(* What Admit hands out is of this epoch, and, unless it is the local boot, *)
(* of no counter still pending.                                             *)
LEMMA NewlyIssued ==
  ASSUME TypeInv, LedgerInv, FreshInv, Up, NEW c \in Conn, Admit(c)
  PROVE  \A a \in issued' : a \notin issued =>
           /\ a.epoch = epoch
           /\ \/ a.boot = LocalBoot
              \/ /\ a.boot[1] = epoch /\ a.boot[2] < next_boot
                 /\ \A d \in Conn : Pending(d)' =>
                      /\ Pending(d) /\ conn'[d].counter = conn[d].counter
                      /\ conn[d].counter # a.boot[2]
<1> DEFINE w == conn[c].worker
           k == conn[c].counter
<1>1. /\ AuthorityTypeOK /\ HandlersInv /\ epoch \in Nat
      /\ conn \in [ Conn -> Connection ] /\ pc \in [ Conn -> Places ]
  BY DEF TypeInv, AuthorityTypeOK, HandlersInv
<1>2. /\ Pending(c) /\ pc' = [ pc EXCEPT ![c] = "ready" ]
      /\ w \in Worker /\ k \in Nat \ { 0 }
      /\ \A d \in Conn : d # c => conn'[d] = conn[d]
      /\ issued' = issued \cup { conn'[c].authority }
      /\ conn'[c].authority =
           [ epoch |-> epoch, worker |-> w,
             boot |-> AdmittedBoot(w, conn[c].claims, k) ]
  <2>1. /\ pc[c] = "admitting" /\ pc' = [ pc EXCEPT ![c] = "ready" ]
        /\ w \in Client /\ k \in Nat \ { 0 }
        /\ issued' = issued \cup { conn'[c].authority }
        /\ conn'[c].authority =
             [ epoch |-> epoch, worker |-> w,
               boot |-> AdmittedBoot(w, conn[c].claims, k) ]
    BY <1>1, AdmitHandsOut DEF AdmitIncarnation
  <2>2. \A d \in Conn : d # c => conn'[d] = conn[d]
    BY <1>1 DEF Admit
  <2> QED BY <2>1, <2>2, ClientsAreWorkers DEF Pending
<1> SUFFICES ASSUME NEW a \in issued', a \notin issued
             PROVE  /\ a.epoch = epoch
                    /\ \/ a.boot = LocalBoot
                       \/ /\ a.boot[1] = epoch /\ a.boot[2] < next_boot
                          /\ \A d \in Conn : Pending(d)' =>
                               /\ Pending(d)
                               /\ conn'[d].counter = conn[d].counter
                               /\ conn[d].counter # a.boot[2]
  OBVIOUS
<1>3. a.epoch = epoch /\ a.boot = AdmittedBoot(w, conn[c].claims, k)
  BY <1>2
<1>4. /\ \A boot \in BootsInUse : boot[1] = epoch => boot[2] < next_boot
      /\ \A d \in Conn : Pending(d) =>
           /\ conn[d].counter < next_boot
           /\ MintedBoot(conn[d].counter) \notin BootsInUse
           /\ \A f \in Conn :
                Pending(f) /\ conn[f].counter = conn[d].counter => f = d
  BY DEF FreshInv, Up
<1>5. ASSUME NEW d \in Conn, Pending(d)'
      PROVE  /\ Pending(d) /\ d # c /\ conn'[d] = conn[d]
             /\ conn[d].counter # k
             /\ MintedBoot(conn[d].counter) \notin BootsInUse
  BY <1>1, <1>2, <1>4, <1>5 DEF Pending
<1>6. CASE IsCurrent(w, conn[c].claims) /\ a.boot # LocalBoot
  <2>1. /\ a.boot = workers[w].boot /\ workers[w] # None
        /\ workers[w].epoch = epoch
        /\ a.boot \in Boot /\ a.boot \in BootsInUse
    BY <1>1, <1>2, <1>3, <1>6, ViewsAreTyped DEF AdmittedBoot, IsCurrent,
       BootsInUse
  <2>2. a.boot[1] = epoch
    BY <1>2, <1>6, <2>1 DEF LedgerInv, ViewsInv, BootFits
  <2>3. a.boot = MintedBoot(a.boot[2])
    BY <2>1, <2>2 DEF Boot, LocalBoot, MintedBoot
  <2>4. ASSUME NEW d \in Conn, Pending(d)'
        PROVE  conn[d].counter # a.boot[2]
    BY <1>5, <2>1, <2>3, <2>4
  <2> QED BY <1>3, <1>4, <1>5, <2>1, <2>2, <2>4
<1>7. CASE ~IsCurrent(w, conn[c].claims)
  <2>1. a.boot[1] = epoch /\ a.boot[2] = k
    BY <1>3, <1>7 DEF AdmittedBoot, MintedBoot
  <2> QED BY <1>2, <1>3, <1>4, <1>5, <2>1
<1> QED BY <1>3, <1>6, <1>7

IssuedOK(a) ==
  /\ a.boot = LocalBoot \/ a.boot[1] = a.epoch
  /\ a.epoch <= disk.epoch
  /\ a.boot[1] = epoch =>
       /\ a.boot[2] < next_boot
       /\ \A c \in Conn : Pending(c) => conn[c].counter # a.boot[2]

LEMMA RunsKeepIssued ==
  ASSUME TypeInv, AuthorityInv, FileInv, IssuedInv, TypeInv', FileInv',
         Follows, disk # None => disk' # None, Runs
  PROVE  IssuedInv'
<1>1. /\ LedgerInv /\ FreshInv /\ Up /\ Up' /\ epoch' = epoch
      /\ epoch \in Nat \ { 0 } /\ next_boot \in Nat
      /\ conn \in [ Conn -> Connection ] /\ pc \in [ Conn -> Places ]
  BY AuthorityMovesKeepTypes DEF AuthorityInv, Runs, TypeInv,
     AuthorityTypeOK, HandlersInv
<1>2. disk # None /\ disk.epoch = epoch
  BY <1>1 DEF IssuedInv
<1>3. disk' # None /\ disk'.epoch = epoch
  <2>1. /\ disk'.epoch \in Nat /\ disk.epoch <= disk'.epoch
        /\ disk'.epoch <= epoch'
    BY <1>1, <1>2 DEF Follows, FileInv, Earlier, TypeInv, ImagesInv, Loadable,
       Snapshot, Up
  <2> QED BY <1>1, <1>2, <2>1
<1>4. \A a \in issued : IssuedOK(a)
  BY <1>1 DEF IssuedInv, IssuedOK
<1>5. \A a \in issued' : IssuedOK(a)'
  <2>1. CASE PendingStays
    BY <1>1, <1>2, <1>3, <1>4, <2>1 DEF PendingStays, IssuedOK
  <2>2. ASSUME NEW c \in Conn, TakeCounter(c)
        PROVE  \A a \in issued' : IssuedOK(a)'
    <3>1. /\ next_boot' = next_boot + 1 /\ issued' = issued
          /\ conn' = [ conn EXCEPT ![c].counter = next_boot ]
          /\ pc' = [ pc EXCEPT ![c] = "admitting" ]
      BY <2>2 DEF TakeCounter, Goto, historyVars
    <3>2. /\ conn'[c].counter = next_boot
          /\ \A d \in Conn : d # c => /\ conn'[d] = conn[d]
                                      /\ pc'[d] = pc[d]
      BY <1>1, <3>1 DEF Connection
    <3>3. ASSUME NEW a \in issued, a.boot[1] = epoch
          PROVE  /\ a.boot[2] < next_boot + 1
                 /\ \A d \in Conn : Pending(d)' => conn'[d].counter # a.boot[2]
      <4>1. a.boot[2] \in Nat /\ a.boot[2] < next_boot
        BY <1>4, <3>3, IssuedTyped DEF IssuedOK
      <4>2. ASSUME NEW d \in Conn, Pending(d)'
            PROVE  conn'[d].counter # a.boot[2]
        BY <1>1, <1>4, <3>2, <3>3, <4>1, <4>2 DEF IssuedOK, Pending
      <4> QED BY <1>1, <4>1, <4>2
    <3> QED BY <1>1, <1>2, <1>3, <1>4, <3>1, <3>3 DEF IssuedOK
  <2>3. ASSUME NEW c \in Conn, Admit(c), NEW a \in issued'
        PROVE  IssuedOK(a)'
    <3>1. next_boot' = next_boot
      BY <2>3 DEF Admit
    <3>2. \A d \in Conn : Pending(d)' =>
            Pending(d) /\ conn'[d].counter = conn[d].counter
      <4>1. /\ pc' = [ pc EXCEPT ![c] = "ready" ]
            /\ \A d \in Conn : d # c => conn'[d] = conn[d]
        BY <1>1, <2>3 DEF Admit, Goto
      <4> QED BY <1>1, <4>1 DEF Pending
    <3>3. CASE a \in issued
      BY <1>1, <1>2, <1>3, <1>4, <3>1, <3>2, <3>3 DEF IssuedOK
    <3>4. CASE a \notin issued
      BY <1>1, <1>3, <2>3, <3>1, <3>4, NewlyIssued DEF IssuedOK, LocalBoot
    <3> QED BY <3>3, <3>4
  <2> QED BY <2>1, <2>2, <2>3 DEF Runs, CounterMoves
<1> QED BY <1>1, <1>3, <1>5 DEF IssuedInv, IssuedOK, Up

LEMMA BoundaryKeepsIssued ==
  ASSUME ~PersistMayFail, TypeInv, FileInv, IssuedInv, TypeInv', Boundary
  PROVE  IssuedInv'
<1>1. /\ epoch \in Nat \ { 0 } /\ \A a \in issued : a.epoch \in Nat
      /\ disk # None => disk.epoch \in Nat
      /\ Image # None /\ Image.epoch = epoch
  BY IssuedTyped, ImageIsLoadable DEF TypeInv, AuthorityTypeOK, ImagesInv,
     Loadable, Snapshot, Image
<1>2. CASE Start
  <2>1. /\ UNCHANGED << issued, disk >> /\ server' \in { "starting", "loaded" }
        /\ disk = None => server' = "starting"
        /\ disk # None => server' = "loaded" /\ epoch' = disk.epoch
    BY <1>2 DEF Start, Restore
  <2> QED BY <2>1 DEF IssuedInv, Up
<1>3. CASE StartAdvance
  <2>1. /\ UNCHANGED << issued, disk >> /\ server' = "starting"
        /\ epoch' = epoch + 1 /\ epoch = disk.epoch
    BY <1>3 DEF StartAdvance, AdvanceEpoch, historyVars, IssuedInv
  <2> QED BY <1>1, <2>1 DEF IssuedInv, Up
<1>4. CASE StartPersist
  <2>1. /\ UNCHANGED << issued, epoch >> /\ server' = "looping"
        /\ disk' = Image
        /\ disk # None => disk.epoch < epoch
    BY <1>4 DEF StartPersist, Written, authorityVars, IssuedInv
  <2>2. \A a \in issued : a.epoch < epoch
    BY <1>1, <2>1 DEF IssuedInv
  <2>3. \A a \in issued : a.boot = LocalBoot \/ a.boot[1] = a.epoch
    BY DEF IssuedInv
  <2>4. \A a \in issued : a.boot[1] # epoch
    BY <1>1, <2>2, <2>3 DEF LocalBoot
  <2> QED BY <1>1, <2>1, <2>2, <2>3, <2>4 DEF IssuedInv, Up
<1>5. CASE Crash
  <2>1. UNCHANGED << issued, disk >> /\ server' = "down"
    BY <1>5 DEF Crash, historyVars
  <2> QED BY <2>1 DEF IssuedInv, Up
<1> QED BY <1>2, <1>3, <1>4, <1>5 DEF Boundary

CoordinatorInv == TypeInv /\ AuthorityInv /\ FileInv /\ IssuedInv

LEMMA CoordinatorStep ==
  ASSUME ~PersistMayFail, CoordinatorInv, [Next]_vars
  PROVE  CoordinatorInv'
<1>1. /\ TypeInv' /\ AuthorityInv' /\ FileInv'
      /\ Follows /\ (disk # None => disk' # None)
  BY TypeStep, AuthorityStep, FileStep DEF CoordinatorInv
<1>2. CASE Next
  BY <1>1, <1>2, StepsRun, RunsKeepIssued, BoundaryKeepsIssued
     DEF CoordinatorInv
<1>3. CASE UNCHANGED vars
  <2>1. UNCHANGED << epoch, server, pc, conn, next_boot, disk, issued >>
    BY <1>3 DEF vars, serverVars, authorityVars, handlerVars, historyVars
  <2> QED BY <1>1, <2>1 DEF CoordinatorInv, IssuedInv, Up, Pending
<1> QED BY <1>1, <1>2, <1>3 DEF CoordinatorInv

LEMMA IssuedInit == Init => IssuedInv
BY DEF Init, IssuedInv, Up

LEMMA CoordinatorHolds ==
  ASSUME ~PersistMayFail
  PROVE  Spec => []CoordinatorInv
<1>1. Init => CoordinatorInv
  BY TypeInit, AuthorityInit, FileInit, IssuedInit DEF CoordinatorInv
<1>2. CoordinatorInv /\ [Next]_vars => CoordinatorInv'
  BY CoordinatorStep
<1> QED BY <1>1, <1>2, PTL DEF Spec

NoneReturns ==
  \A a \in issued :
    a.boot # LocalBoot /\ IsCurrent(a.worker, a.boot)' =>
      IsCurrent(a.worker, a.boot)

LEMMA RunsReturnNone ==
  ASSUME CoordinatorInv, Runs
  PROVE  NoneReturns
<1>1. /\ TypeInv /\ AuthorityTypeOK /\ HandlersInv /\ IssuedInv /\ Up
      /\ epoch' = epoch
  BY AuthorityMovesKeepTypes DEF CoordinatorInv, TypeInv, Runs
<1>9. ASSUME NEW c \in Conn, Admit(c)
      PROVE  /\ Pending(c) /\ conn[c].worker \in Worker
             /\ AdmitIncarnation(conn[c].worker, conn[c].claims,
                                 conn[c].counter)
  BY <1>1, <1>9, AdmitHandsOut DEF Pending, AdmitIncarnation
<1>2. SUFFICES ASSUME NEW a \in issued, a.boot # LocalBoot,
                      IsCurrent(a.worker, a.boot)'
               PROVE  IsCurrent(a.worker, a.boot)
  BY DEF NoneReturns
<1> DEFINE v == a.worker
<1>3. v \in Worker /\ a.boot[1] \in Nat
  BY <1>1, IssuedTyped
<1>4. CASE workers'[v] = workers[v]
  BY <1>1, <1>2, <1>4 DEF IsCurrent
<1>5. CASE UNCHANGED authorityVars \/ AdmitWorker(LocalWorker, LocalBoot)
  <2>1. workers'[v] = workers[v] \/ workers'[v].boot = LocalBoot
    BY <1>1, <1>3, <1>5 DEF authorityVars, AdmitWorker, Admitted,
       AuthorityTypeOK
  <2> QED BY <1>2, <1>4, <2>1 DEF IsCurrent
<1>6. ASSUME NEW c \in Conn, Admit(c)
      PROVE  IsCurrent(a.worker, a.boot)
  <2> DEFINE k == conn[c].counter
  <2>1. /\ Pending(c) /\ conn[c].worker \in Worker
        /\ AdmitIncarnation(conn[c].worker, conn[c].claims, k)
    BY <1>6, <1>9
  <2>2. \/ workers'[v] = workers[v]
        \/ workers'[v].boot = MintedBoot(k)
    BY <1>1, <1>3, <2>1 DEF AdmitIncarnation, Admitted, AuthorityTypeOK
  <2>3. ASSUME workers'[v].boot = MintedBoot(k)
        PROVE  FALSE
    <3>1. a.boot = << epoch, k >>
      BY <1>2, <2>3 DEF IsCurrent, MintedBoot
    <3>2. a.boot[1] = epoch /\ a.boot[2] = k
      BY <3>1
    <3> QED BY <1>1, <2>1, <3>2 DEF IssuedInv
  <2> QED BY <1>4, <2>2, <2>3
<1>7. CASE Fences
  <2>1. \/ workers'[v] = workers[v]
        \/ /\ workers[v] \in WorkerView
           /\ workers'[v] = [ workers[v] EXCEPT !.live = FALSE ]
    BY <1>1, <1>3, <1>7, FencingTypes, ViewsAreTyped DEF Fences
  <2>2. workers'[v].live
    BY <1>2 DEF IsCurrent
  <2> QED BY <1>4, <2>1, <2>2 DEF WorkerView
<1>8. CASE Commits
  <2>1. PICK b \in Authority, id \in RecordId : CommitRecord(b, id)
    BY <1>8 DEF Commits
  <2>2. \/ workers'[v] = workers[v]
        \/ /\ workers[v] # None
           /\ workers'[v] = [ workers[v] EXCEPT !.committed_records = @ + 1 ]
    BY <1>1, <1>3, <2>1 DEF CommitRecord, AuthorityTypeOK, Authority
  <2>3. ASSUME workers[v] # None,
               workers'[v] = [ workers[v] EXCEPT !.committed_records = @ + 1 ]
        PROVE  IsCurrent(a.worker, a.boot)
    <3>1. workers[v] \in WorkerView
      BY <1>1, <1>3, <2>3, ViewsAreTyped
    <3>2. /\ workers'[v].boot = workers[v].boot
          /\ workers'[v].live = workers[v].live
          /\ workers'[v].epoch = workers[v].epoch
      BY <2>3, <3>1 DEF WorkerView
    <3> QED BY <1>1, <1>2, <2>3, <3>2 DEF IsCurrent
  <2> QED BY <1>4, <2>2, <2>3
<1> QED BY <1>5, <1>6, <1>7, <1>8 DEF Runs, AuthorityMoves

LEMMA BoundaryReturnsNone ==
  ASSUME CoordinatorInv, Boundary
  PROVE  NoneReturns
<1>1. /\ TypeInv /\ AuthorityTypeOK
      /\ local.worker = LocalWorker /\ local.boot = LocalBoot
  BY DEF CoordinatorInv, TypeInv, AuthorityInv, LedgerInv, ViewsInv, LocalAt
<1>2. SUFFICES ASSUME NEW a \in issued, a.boot # LocalBoot,
                      IsCurrent(a.worker, a.boot)'
               PROVE  IsCurrent(a.worker, a.boot)
  BY DEF NoneReturns
<1> DEFINE v == a.worker
<1>3. v \in Worker
  BY <1>1, IssuedTyped
<1>4. workers'[v] # None /\ workers'[v].live /\ workers'[v].boot # LocalBoot
  BY <1>2 DEF IsCurrent
<1>5. CASE Start
  <2>1. ASSUME Create PROVE FALSE
    BY <1>3, <1>4, <2>1 DEF Create, LocalView
  <2>2. ASSUME Restore(disk.history, disk.epoch) PROVE FALSE
    <3>1. workers'[v] \in { None, LocalView(disk.epoch),
                             Historical(v, disk.history) }
      BY <1>3, <2>2 DEF Restore
    <3> QED BY <1>4, <3>1 DEF Historical, LocalView
  <2> QED BY <1>5, <2>1, <2>2 DEF Start
<1>6. CASE StartAdvance
  <2>0. v # LocalWorker
    BY <1>1, <1>3, <1>4, <1>6 DEF StartAdvance, AdvanceEpoch
  <2>1. workers'[v] = Fenced(workers[v])
    BY <1>1, <1>3, <1>6, <2>0 DEF StartAdvance, AdvanceEpoch
  <2>2. CASE workers[v] # None
    <3>1. /\ workers[v] \in WorkerView
          /\ workers'[v] = [ workers[v] EXCEPT !.live = FALSE ]
      BY <1>1, <1>3, <2>1, <2>2, ViewsAreTyped DEF Fenced
    <3> QED BY <1>4, <3>1 DEF WorkerView
  <2> QED BY <1>4, <2>1, <2>2 DEF Fenced
<1>7. CASE StartPersist
  BY <1>2, <1>7 DEF StartPersist, authorityVars, IsCurrent
<1>8. CASE Crash
  BY <1>3, <1>4, <1>8 DEF Crash
<1> QED BY <1>5, <1>6, <1>7, <1>8 DEF Boundary

(* When every write of the file succeeds, an identity minted for a worker,  *)
(* whichever it is, that the worker was given and has lost is never current *)
(* again, in this process or after any number of restarts: "an identity can *)
(* never be reused across coordinator generations"                          *)
(* (admit_worker_incarnation, ledger.cpp).  The local boot is not minted,   *)
(* and a worker that was given it finds it current again after a restart.   *)
(* A write that fails in start() is not looked at, and the next process may *)
(* then take the same epoch: hence the assumption.                          *)
THEOREM LostIncarnationsStayLost ==
  ASSUME ~PersistMayFail
  PROVE  Spec => IncarnationsNeverReturn
<1>1. ASSUME CoordinatorInv, [Next]_vars
      PROVE  [ NoneReturns ]_vars
  <2>1. CoordinatorInv /\ Next => NoneReturns
    BY StepsRun, RunsReturnNone, BoundaryReturnsNone DEF CoordinatorInv
  <2> QED BY <1>1, <2>1
<1> QED BY <1>1, CoordinatorHolds, PTL
        DEF Spec, IncarnationsNeverReturn, NoneReturns


-----------------------------------------------------------------------------
(* When moreover every append is followed by a save: what a worker appended *)
(* is on its way to the file.                                               *)

(* A handler that has a record to save still has, unless it just wrote it.  *)
LEMMA SaversGoOn ==
  ASSUME ~PersistMayFail, PersistOnAppend, TypeInv, Next, ~Boundary,
         NEW c \in Conn, NEW i \in DOMAIN history, WillSave(c, i)
  PROVE  WillSave(c, i)' \/ (disk' # None /\ i <= Len(disk'.history))
<1>1. /\ HoldersSave /\ pc \in [ Conn -> Places ]
      /\ saving \in [ Thread -> Snapshot \cup { None } ]
      /\ Serve \notin Conn /\ c \in Thread /\ Serve \in Thread
      /\ pc[c] \in { "replying", "saving" }
  BY DEF TypeInv, MutexInv, HandlersInv, Serve, Conn, Thread, WillSave
<1>2. CASE saving'[c] = saving[c] /\ pc'[c] = pc[c]
  BY <1>2 DEF WillSave, Copied
<1>3. CASE ServeCopies \/ ServeWrites
  <2>1. saving'[c] = saving[c] /\ pc'[c] = pc[c]
    BY <1>1, <1>3 DEF ServeCopies, CopyLedger, ServeWrites, WriteCopy,
       handlerVars
  <2> QED BY <1>2, <2>1
<1>4. CASE /\ ServeStep \/ AcceptFailed \/ OwnerStep
           /\ ~ServeCopies /\ ~ServeWrites
  <2>1. saving' = saving
    BY <1>4 DEF ServeStep, Loop, List, AcceptClosed, AcceptFailed,
       StopConnections, Join, OwnerStep, OwnerFences, OwnerReadmitsLocal,
       OwnerAppends, OwnerRequestsShutdown, OwnerCloses
  <2>2. pc'[c] = pc[c]
    BY <1>1, <1>4 DEF ServeStep, Loop, List, AcceptClosed, AcceptFailed,
       StopConnections, Join, OwnerStep, OwnerFences, OwnerReadmitsLocal,
       OwnerAppends, OwnerRequestsShutdown, OwnerCloses, handlerVars, Goto
  <2> QED BY <1>2, <2>1, <2>2
<1>5. ASSUME NEW w \in Client, NEW b \in BootsOf(w) \cup { None },
             Accept(w, b)
      PROVE  WillSave(c, i)'
  <2>1. /\ Min(Unused) \in Conn /\ pc[Min(Unused)] = "free"
        /\ saving' = saving
        /\ pc' = [ pc EXCEPT ![Min(Unused)] = "accepted" ]
    BY <1>5, FirstUnused DEF Accept, Goto
  <2> QED BY <1>1, <1>2, <2>1 DEF WillSave, Copied
<1>6. ASSUME NEW d \in Conn, Copies(d)
      PROVE  WillSave(c, i)'
  <2>1. /\ pc' = pc /\ saving' = [ saving EXCEPT ![d] = Image ]
    BY <1>6 DEF Copies, CopyLedger, handlerVars
  <2>2. CASE d # c
    BY <1>1, <2>1, <2>2 DEF WillSave, Copied
  <2>3. CASE d = c
    <3>1. pc'[c] = "saving" /\ saving'[c].history = history
      BY <1>1, <1>6, <2>1, <2>3 DEF Copies, Image
    <3>2. i <= Len(history)
      BY AuthorsAreTyped DEF TypeInv
    <3> QED BY <3>1, <3>2 DEF WillSave
  <2> QED BY <2>2, <2>3
<1>7. ASSUME NEW d \in Conn, Writes(d)
      PROVE  WillSave(c, i)' \/ (disk' # None /\ i <= Len(disk'.history))
  <2>1. /\ pc' = [ pc EXCEPT ![d] = IF pc[d] = "saving" THEN "ready"
                                    ELSE "requesting shutdown" ]
        /\ saving' = [ saving EXCEPT ![d] = None ]
        /\ disk' = saving[d] /\ Copied(d)
        /\ pc[d] \in { "saving", "saving for shutdown" }
    BY <1>7 DEF Writes, WriteCopy, Written, Goto
  <2>2. CASE d # c
    BY <1>1, <2>1, <2>2 DEF WillSave, Copied
  <2>3. CASE d = c
    BY <1>1, <2>1, <2>3 DEF WillSave, Copied
  <2> QED BY <2>2, <2>3
<1>8. ASSUME NEW d \in Conn, Reply(d)
      PROVE  WillSave(c, i)'
  <2>1. /\ pc[d] = "replying" /\ pc' = [ pc EXCEPT ![d] = "saving" ]
        /\ saving' = saving
    BY <1>8 DEF Reply, Goto, AfterReply
  <2>2. CASE d # c
    BY <1>1, <2>1, <2>2 DEF WillSave, Copied
  <2>3. CASE d = c
    <3>1. pc'[c] = "saving" /\ ~Copied(c)'
      BY <1>1, <2>1, <2>3 DEF HoldersSave, Copied
    <3> QED BY <3>1 DEF WillSave
  <2> QED BY <2>2, <2>3
<1>9. ASSUME NEW d \in Conn,
             \/ HandlerStep(d) /\ ~Copies(d) /\ ~Writes(d) /\ ~Reply(d)
             \/ GoesAway(d) \/ ReceiveShutdown(d)
             \/ \E id \in RecordId : ReceiveAppend(d, id)
             \/ \E a \in issued : RefuseFrame(d, a)
      PROVE  WillSave(c, i)'
  <2>1. saving' = saving
    BY <1>9 DEF HandlerStep, TakeCounter, Admit, AppendRefused, AppendTaken,
       HandlerRequestsShutdown, HandlerCloses, EndOfStream, End,
       GoesAway, ReceiveShutdown, ReceiveAppend, RefuseFrame
  <2>2. /\ pc[d] \in { "replying", "saving" } => pc' = pc
        /\ \A e \in Conn : e # d => pc'[e] = pc[e]
    BY <1>1, <1>9 DEF HandlerStep, TakeCounter, Admit, AppendRefused,
       AppendTaken, HandlerRequestsShutdown, HandlerCloses, EndOfStream, End,
       GoesAway, ReceiveShutdown, ReceiveAppend, RefuseFrame, Goto
  <2> QED BY <1>1, <1>2, <2>1, <2>2 DEF WillSave, Copied
<1> QED BY <1>3, <1>4, <1>5, <1>6, <1>7, <1>8, <1>9
        DEF Next, Boundary, HandlerStep, ServeStep

(* A record is new only where a handler is about to reply, or when it is    *)
(* the program's own.                                                       *)
LEMMA NewRecords ==
  ASSUME TypeInv, AuthorityInv, Next, ~Boundary
  PROVE  \/ history' = history
         \/ /\ Len(history') = Len(history) + 1
            /\ \A i \in 1 .. Len(history) : history'[i] = history[i]
            /\ \/ history'[Len(history) + 1].author.boot = LocalBoot
               \/ \E c \in Conn : pc'[c] = "replying"
<1>1. /\ AuthorityTypeOK /\ HandlersInv /\ pc \in [ Conn -> Places ]
      /\ local.boot = LocalBoot /\ local \in Authority
  BY DEF TypeInv, HandlersInv, AuthorityTypeOK, AuthorityInv, LedgerInv,
     ViewsInv, LocalAt
<1>2. ASSUME NEW c \in Conn, AppendTaken(c)
      PROVE  \/ history' = history
             \/ /\ Len(history') = Len(history) + 1
                /\ \A i \in 1 .. Len(history) : history'[i] = history[i]
                /\ pc'[c] = "replying"
  <2>1. /\ pc[c] = "appending" /\ pc'[c] = "replying"
        /\ AppendAllowed(conn[c].authority)
        /\ \/ UNCHANGED authorityVars
           \/ CommitRecord(conn[c].authority, request[c])
    BY <1>1, <1>2 DEF AppendTaken, Goto
  <2>2. request[c] \in RecordId /\ conn[c].authority \in Authority
    BY <1>1, <2>1 DEF HandlersInv, HandlerInv, Established
  <2>3. conn[c].authority.epoch = epoch
    BY <2>1 DEF AppendAllowed, Authorizes
  <2> QED BY <1>1, <2>1, <2>2, <2>3, CommitTypes DEF authorityVars
<1>3. ASSUME NEW id \in RecordId, OwnerAppends(id)
      PROVE  /\ Len(history') = Len(history) + 1
             /\ \A i \in 1 .. Len(history) : history'[i] = history[i]
             /\ history'[Len(history) + 1].author.boot = LocalBoot
  <2>1. CommitRecord(local, id) /\ local.epoch = epoch
    BY <1>3 DEF OwnerAppends, AppendAllowed, Authorizes
  <2>2. /\ Len(history') = Len(history) + 1
        /\ \A i \in 1 .. Len(history) : history'[i] = history[i]
        /\ history'[Len(history) + 1] = [ id |-> id, author |-> local ]
    BY <1>1, <2>1, CommitTypes
  <2> QED BY <1>1, <2>2
<1>4. ASSUME NEW c \in Conn, HandlerStep(c), ~AppendTaken(c)
      PROVE  history' = history
  BY <1>4 DEF HandlerStep, TakeCounter, Admit, AppendRefused, Reply, Copies,
     Writes, HandlerRequestsShutdown, HandlerCloses, EndOfStream, End,
     AdmitIncarnation, FenceWorkerBoot, authorityVars
<1>5. CASE OwnerStep /\ \A id \in RecordId : ~OwnerAppends(id)
  BY <1>5 DEF OwnerStep, OwnerFences, OwnerReadmitsLocal,
     OwnerRequestsShutdown, OwnerCloses, FenceAllWorkers, FenceWorker,
     AdmitWorker, authorityVars
<1>6. CASE \/ ServeStep \/ AcceptFailed
           \/ \E w \in Client : \E b \in BootsOf(w) \cup { None } :
                Accept(w, b)
           \/ \E c \in Conn : GoesAway(c)
           \/ \E c \in Conn :
                \/ \E id \in RecordId : ReceiveAppend(c, id)
                \/ \E a \in issued : RefuseFrame(c, a)
                \/ ReceiveShutdown(c)
  BY <1>6 DEF ServeStep, Loop, List, AcceptClosed, AcceptFailed, ServeCopies,
     ServeWrites, StopConnections, Join, Accept, GoesAway, ReceiveAppend,
     RefuseFrame, ReceiveShutdown, authorityVars
<1> QED BY <1>2, <1>3, <1>4, <1>5, <1>6 DEF Next, Boundary

OnItsWay(i) ==
  \/ history[i].author.boot = LocalBoot
  \/ disk # None /\ i <= Len(disk.history)
  \/ \E c \in Conn : WillSave(c, i)

LEMMA RecordsStep ==
  ASSUME ~PersistMayFail, PersistOnAppend, TypeInv, AuthorityInv, FileInv,
         WorkerRecordsReachTheFile, [Next]_vars
  PROVE  WorkerRecordsReachTheFile'
<1>1. /\ TypeInv' /\ Follows /\ (disk # None => disk' # None)
  BY TypeStep, FileStep
<1>2. CASE Start \/ StartAdvance \/ Crash
  BY <1>2 DEF Start, StartAdvance, Crash, WorkerRecordsReachTheFile, Up
<1>3. CASE StartPersist
  <2>1. /\ disk' = Image /\ history' = history
        /\ Image # None /\ Image.history = history
    BY <1>3, ImageIsLoadable DEF StartPersist, Written, authorityVars,
       TypeInv, Image
  <2>2. ASSUME NEW i \in DOMAIN history PROVE i <= Len(history)
    BY <2>2, AuthorsAreTyped DEF TypeInv
  <2> QED BY <2>1, <2>2 DEF WorkerRecordsReachTheFile
<1>4. CASE Next /\ ~Boundary
  <2>1. /\ Up /\ history \in Seq(HistoryRecord)
        /\ history' \in Seq(HistoryRecord) /\ Len(history) \in Nat
        /\ disk # None => disk \in Snapshot
        /\ disk' # None => disk' \in Snapshot
    BY <1>1, <1>4, StepsRun DEF Runs, TypeInv, AuthorityTypeOK, ImagesInv,
       Loadable
  <2>2. \A i \in DOMAIN history : OnItsWay(i)
    BY <2>1 DEF WorkerRecordsReachTheFile, OnItsWay
  <2>3. disk # None => Len(disk.history) <= Len(disk'.history)
                       /\ Len(disk.history) \in Nat
                       /\ Len(disk'.history) \in Nat
    BY <1>1, <2>1, PrefixIs DEF Follows, Earlier, Snapshot
  <2>4. ASSUME NEW i \in DOMAIN history, history'[i] = history[i]
        PROVE  OnItsWay(i)'
    <3>1. i \in Nat
      BY <2>1
    <3>2. CASE history[i].author.boot = LocalBoot
      BY <2>4, <3>2 DEF OnItsWay
    <3>3. CASE disk # None /\ i <= Len(disk.history)
      <4>1. i <= Len(disk'.history)
        BY <2>3, <3>1, <3>3
      <4> QED BY <1>1, <3>3, <4>1 DEF OnItsWay
    <3>4. ASSUME NEW c \in Conn, WillSave(c, i)
          PROVE  OnItsWay(i)'
      BY <1>4, <3>4, SaversGoOn DEF OnItsWay
    <3> QED BY <2>2, <3>2, <3>3, <3>4 DEF OnItsWay
  <2>5. ASSUME NEW i \in DOMAIN history'
        PROVE  OnItsWay(i)'
    <3>1. CASE history' = history
      BY <2>4, <2>5, <3>1
    <3>2. CASE /\ Len(history') = Len(history) + 1
               /\ \A j \in 1 .. Len(history) : history'[j] = history[j]
               /\ \/ history'[Len(history) + 1].author.boot = LocalBoot
                  \/ \E c \in Conn : pc'[c] = "replying"
      <4>1. i \in 1 .. Len(history) + 1
        BY <2>1, <2>5, <3>2
      <4>2. CASE i \in 1 .. Len(history)
        <5>1. i \in DOMAIN history /\ history'[i] = history[i]
          BY <2>1, <3>2, <4>2
        <5> QED BY <2>4, <5>1
      <4>3. CASE i = Len(history) + 1
        BY <3>2, <4>3 DEF OnItsWay, WillSave
      <4> QED BY <2>1, <4>1, <4>2, <4>3
    <3> QED BY <1>4, <3>1, <3>2, NewRecords
  <2> QED BY <2>5 DEF WorkerRecordsReachTheFile, OnItsWay
<1>5. CASE UNCHANGED vars
  <2>1. UNCHANGED << history, server, pc, saving, disk >>
    BY <1>5 DEF vars, serverVars, authorityVars, handlerVars
  <2> QED BY <2>1 DEF WorkerRecordsReachTheFile, WillSave, Copied, Up
<1> QED BY <1>2, <1>3, <1>4, <1>5 DEF Boundary

(* When every write succeeds and every append is followed by a save, a      *)
(* record a worker appended under a minted identity is in the file, or a    *)
(* handler has still to write a copy that holds it: in whatever order       *)
(* handlers copy and write, none goes back to its connection before the     *)
(* file holds what it appended (persist and the AppendRequest case of       *)
(* serve, cluster.cpp).  Records of the local boot may be the program's     *)
(* own, which saves when it likes.                                          *)
THEOREM WorkerRecordsAreSaved ==
  ASSUME ~PersistMayFail, PersistOnAppend
  PROVE  Spec => []WorkerRecordsReachTheFile
<1> DEFINE Inv == /\ TypeInv /\ AuthorityInv /\ FileInv
                  /\ WorkerRecordsReachTheFile
<1>1. Init => Inv
  <2>1. Init => WorkerRecordsReachTheFile
    BY DEF Init, WorkerRecordsReachTheFile, Up
  <2> QED BY <2>1, TypeInit, AuthorityInit, FileInit
<1>2. Inv /\ [Next]_vars => Inv'
  BY TypeStep, AuthorityStep, FileStep, RecordsStep
<1>3. Inv => WorkerRecordsReachTheFile
  OBVIOUS
<1> QED BY <1>1, <1>2, <1>3, PTL DEF Spec

=============================================================================

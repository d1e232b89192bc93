-------------------------- MODULE LedgerFileProofs --------------------------
(***************************************************************************)
(* For any number of processes and threads, any records and any codec: the  *)
(* lock of a process is held exactly while one of its threads saves, and    *)
(* the file at the path always loads.                                       *)
(*                                                                          *)
(* That the file loads is not inductive: the file that is renamed must have *)
(* been written whole, by the thread that renames it, from an image that    *)
(* decoded (IInv).  That no other thread of the process has written to the  *)
(* same temporary file in between follows from the lock.                    *)
(*                                                                          *)
(* For any codec that gives back each record it is given (GivesBack): the   *)
(* file holds exactly the records of the ledger that wrote it, and no       *)
(* process puts an older state of its own over a newer one (HeldInv: what a *)
(* process saved last comes before the copies it takes, and those before    *)
(* what it has in memory).  The bodies of images are built and read by      *)
(* recursion on the number of records; Induction is stated for a set of     *)
(* numbers, so that no operator has to be instantiated.                     *)
(***************************************************************************)
EXTENDS LedgerFile, SequenceTheorems, NaturalsInduction, WellFoundedInduction,
        TLAPS

(* An image past the check decodes. *)
ImagesChecked ==
  \A p \in Pid, t \in Thread :
    thread[p][t].at \in { "open", "write", "close", "rename" } => Loads(thread[p][t].image)

(* A temporary file that is about to be renamed is whole. *)
WholeAtRename ==
  \A p \in Pid, t \in Thread :
    thread[p][t].at = "rename" => temp[p] = thread[p][t].image

(* The threads of a process that does not run are idle. *)
OnlyRunning == \A p \in Pid, t \in Thread : thread[p][t].at # "idle" => p \in running

IInv == FileTypeOK /\ ImagesChecked /\ WholeAtRename /\ OnlyRunning /\ PathLoads

LEMMA FileInitially == FileInit => IInv
  BY NoneAssumption, BoundsAssumption
  DEF FileInit, IInv, FileTypeOK, ImagesChecked, WholeAtRename, OnlyRunning,
      PathLoads, Saving, Idle, Holding

(* A thread of a process becomes `new`, and nothing else does. *)
LEMMA OneThreadMoves ==
  ASSUME NEW p \in Pid, NEW t \in Thread, NEW new,
         FileTypeOK, thread' = [thread EXCEPT ![p][t] = new]
  PROVE  /\ DOMAIN thread' = Pid
         /\ \A q \in Pid : DOMAIN thread'[q] = Thread
         /\ thread'[p][t] = new
         /\ \A q \in Pid, u \in Thread :
              q # p \/ u # t => thread'[q][u] = thread[q][u]
  BY DEF FileTypeOK

(* Two threads of one process are never both inside a save.                 *)
LEMMA OneSaves ==
  ASSUME FileTypeOK, NEW p \in Pid, NEW t \in Thread, NEW u \in Thread,
         Saving(p, t), Saving(p, u)
  PROVE  t = u
  BY DEF FileTypeOK

(* A thread inside a save goes on to the next point of it.                  *)
LEMMA MovingKeepsLock ==
  ASSUME FileTypeOK, NEW p \in Pid, NEW t \in Thread, NEW at,
         Saving(p, t), at \in { "check", "open", "write", "close", "rename" },
         thread' = Moved(p, t, at), DOMAIN temp' = Pid,
         UNCHANGED << running, ledger, mutex, runs >>
  PROVE  /\ FileTypeOK'
         /\ thread'[p][t].at = at
         /\ thread'[p][t].image = thread[p][t].image
         /\ \A q \in Pid, u \in Thread :
              q # p \/ u # t => thread'[q][u] = thread[q][u]
<1> DEFINE new == [ at |-> at, image |-> thread[p][t].image, of |-> thread[p][t].of ]
<1>1. thread' = [thread EXCEPT ![p][t] = new]
  BY DEF Moved
<1>2. /\ DOMAIN thread' = Pid
      /\ \A q \in Pid : DOMAIN thread'[q] = Thread
      /\ thread'[p][t] = new
      /\ \A q \in Pid, u \in Thread :
           q # p \/ u # t => thread'[q][u] = thread[q][u]
  <2> HIDE DEF new
  <2> QED BY <1>1 DEF FileTypeOK
<1>3. thread'[p][t].at = at /\ thread'[p][t].image = thread[p][t].image
  BY <1>2
<1>4. \A q \in Pid, u \in Thread : Saving(q, u)' <=> Saving(q, u)
  <2> SUFFICES ASSUME NEW q \in Pid, NEW u \in Thread
               PROVE  Saving(q, u)' <=> Saving(q, u)
    OBVIOUS
  <2>1. CASE q = p /\ u = t
    BY <2>1, <1>3 DEF Saving
  <2>2. CASE q # p \/ u # t
    BY <2>2, <1>2 DEF Saving
  <2> QED BY <2>1, <2>2
<1> QED BY <1>2, <1>3, <1>4 DEF FileTypeOK

(* A thread inside a save returns: nobody of its process saves any more.    *)
LEMMA ReturningFreesLock ==
  ASSUME FileTypeOK, NEW p \in Pid, NEW t \in Thread,
         Saving(p, t), Return(p, t), DOMAIN temp' = Pid,
         UNCHANGED << running, ledger, runs >>
  PROVE  /\ FileTypeOK'
         /\ \A u \in Thread : ~Saving(p, u)'
         /\ \A q \in Pid, u \in Thread : q # p => thread'[q][u] = thread[q][u]
<1> DEFINE new == IF p \in Commands THEN Done ELSE Idle
<1>1. thread' = [thread EXCEPT ![p][t] = new] /\ mutex' = [mutex EXCEPT ![p] = None]
  BY DEF Return, Released
<1>2. /\ DOMAIN thread' = Pid
      /\ \A q \in Pid : DOMAIN thread'[q] = Thread
      /\ thread'[p][t] = new
      /\ \A q \in Pid, u \in Thread :
           q # p \/ u # t => thread'[q][u] = thread[q][u]
  <2> HIDE DEF new
  <2> QED BY <1>1, OneThreadMoves
<1>3. new.at \in { "done", "idle" }
  BY DEF Done, Idle, Holding
<1>4. ASSUME NEW u \in Thread PROVE ~Saving(p, u)'
  <2>1. CASE u = t
    BY <2>1, <1>2, <1>3 DEF Saving
  <2>2. CASE u # t
    <3>1. ~Saving(p, u)
      BY <2>2, OneSaves
    <3> QED BY <2>2, <3>1, <1>2 DEF Saving
  <2> QED BY <2>1, <2>2
<1>5. ASSUME NEW q \in Pid, NEW u \in Thread, q # p
      PROVE  Saving(q, u)' <=> Saving(q, u)
  BY <1>2, <1>5 DEF Saving
<1>6. /\ mutex' \in [Pid -> Thread \cup { None }]
      /\ mutex'[p] = None
      /\ \A q \in Pid : q # p => mutex'[q] = mutex[q]
  BY <1>1 DEF FileTypeOK
<1>7. \A q \in Pid, u \in Thread : Saving(q, u)' <=> mutex'[q] = u
  <2> SUFFICES ASSUME NEW q \in Pid, NEW u \in Thread
               PROVE  Saving(q, u)' <=> mutex'[q] = u
    OBVIOUS
  <2>1. CASE q = p
    BY <2>1, <1>4, <1>6, NoneAssumption
  <2>2. CASE q # p
    BY <2>2, <1>5, <1>6 DEF FileTypeOK
  <2> QED BY <2>1, <2>2
<1>8. FileTypeOK'
  BY <1>2, <1>6, <1>7 DEF FileTypeOK
<1> QED BY <1>2, <1>4, <1>8

-----------------------------------------------------------------------------
LEMMA StartKeeps ==
  ASSUME IInv, NEW p \in Pid, Start(p)
  PROVE  IInv'
<1>1. /\ DOMAIN ledger' = Pid
      /\ runs' \in 0..MaxRuns
      /\ running \subseteq running' /\ running' \subseteq Pid
      /\ UNCHANGED << path, temp, thread, mutex >>
  BY BoundsAssumption DEF Start, IInv, FileTypeOK
<1> QED
  BY <1>1 DEF IInv, FileTypeOK, ImagesChecked, WholeAtRename, OnlyRunning, PathLoads, Saving

LEMMA InitCommandKeeps ==
  ASSUME IInv, NEW p \in Pid, InitCommand(p)
  PROVE  IInv'
<1>1. /\ DOMAIN ledger' = Pid
      /\ runs' \in 0..MaxRuns
      /\ running \subseteq running' /\ running' \subseteq Pid
      /\ UNCHANGED << path, temp, mutex >>
  BY BoundsAssumption DEF InitCommand, IInv, FileTypeOK
<1>2. /\ DOMAIN thread' = Pid
      /\ \A q \in Pid : DOMAIN thread'[q] = Thread
      /\ \A q \in Pid, t \in Thread : q # p => thread'[q][t] = thread[q][t]
      /\ \A t \in Thread : thread'[p][t].at \in { "idle", "appended" }
  BY DEF InitCommand, IInv, FileTypeOK, Idle, ToSave, Holding
<1>3. ASSUME NEW q \in Pid, NEW t \in Thread PROVE Saving(q, t)' <=> Saving(q, t)
  <2>1. CASE q = p
    BY <2>1, <1>2 DEF Saving, InitCommand, IInv, OnlyRunning
  <2>2. CASE q # p
    BY <2>2, <1>2 DEF Saving
  <2> QED BY <2>1, <2>2
<1>4. FileTypeOK'
  BY <1>1, <1>2, <1>3 DEF IInv, FileTypeOK
<1>5. ImagesChecked' /\ WholeAtRename'
  <2> SUFFICES ASSUME NEW q \in Pid, NEW t \in Thread
               PROVE  /\ thread'[q][t].at \in { "open", "write", "close", "rename" }
                            => Loads(thread'[q][t].image)
                      /\ thread'[q][t].at = "rename" => temp[q] = thread'[q][t].image
    BY <1>1 DEF ImagesChecked, WholeAtRename
  <2>1. CASE q = p
    BY <2>1, <1>2
  <2>2. CASE q # p
    BY <2>2, <1>2 DEF IInv, ImagesChecked, WholeAtRename
  <2> QED BY <2>1, <2>2
<1>6. OnlyRunning'
  BY <1>1, <1>2 DEF InitCommand, IInv, OnlyRunning
<1> QED BY <1>1, <1>4, <1>5, <1>6 DEF IInv, PathLoads

LEMMA EndKeeps ==
  ASSUME IInv, NEW p \in Pid, End(p)
  PROVE  IInv'
<1>1. /\ DOMAIN ledger' = Pid
      /\ running' = running \ { p }
      /\ mutex' \in [Pid -> Thread \cup { None }]
      /\ mutex'[p] = None
      /\ \A q \in Pid : q # p => mutex'[q] = mutex[q]
      /\ UNCHANGED << path, temp, runs >>
  BY DEF End, IInv, FileTypeOK
<1>2. /\ DOMAIN thread' = Pid
      /\ \A q \in Pid : DOMAIN thread'[q] = Thread
      /\ \A q \in Pid, t \in Thread : q # p => thread'[q][t] = thread[q][t]
      /\ \A t \in Thread : thread'[p][t].at = "idle"
  BY DEF End, IInv, FileTypeOK, Idle, Holding
<1>3. /\ \A t \in Thread : ~Saving(p, t)'
      /\ \A q \in Pid, t \in Thread : q # p => (Saving(q, t)' <=> Saving(q, t))
  BY <1>2 DEF Saving
<1>4. \A q \in Pid, t \in Thread : Saving(q, t)' <=> mutex'[q] = t
  <2> SUFFICES ASSUME NEW q \in Pid, NEW t \in Thread PROVE Saving(q, t)' <=> mutex'[q] = t
    OBVIOUS
  <2>1. CASE q = p
    BY <2>1, <1>1, <1>3, NoneAssumption
  <2>2. CASE q # p
    BY <2>2, <1>1, <1>3 DEF IInv, FileTypeOK
  <2> QED BY <2>1, <2>2
<1>5. FileTypeOK'
  BY <1>1, <1>2, <1>4 DEF IInv, FileTypeOK
<1>6. ImagesChecked' /\ WholeAtRename'
  <2> SUFFICES ASSUME NEW q \in Pid, NEW t \in Thread
               PROVE  /\ thread'[q][t].at \in { "open", "write", "close", "rename" }
                            => Loads(thread'[q][t].image)
                      /\ thread'[q][t].at = "rename" => temp[q] = thread'[q][t].image
    BY <1>1 DEF ImagesChecked, WholeAtRename
  <2>1. CASE q = p
    BY <2>1, <1>2
  <2>2. CASE q # p
    BY <2>2, <1>2 DEF IInv, ImagesChecked, WholeAtRename
  <2> QED BY <2>1, <2>2
<1>7. OnlyRunning'
  BY <1>1, <1>2 DEF IInv, OnlyRunning
<1> QED BY <1>1, <1>5, <1>6, <1>7 DEF IInv, PathLoads

-----------------------------------------------------------------------------
(* The steps of a thread.  First those that leave the file at the path and  *)
(* the temporary files alone, or replace only the one of the process.       *)
LEMMA MovedKeeps ==
  ASSUME IInv, NEW p \in Pid, NEW t \in Thread, NEW at,
         Saving(p, t), at \in { "open", "write", "close", "rename" },
         thread' = Moved(p, t, at), DOMAIN temp' = Pid,
         \A q \in Pid : q # p => temp'[q] = temp[q],
         Loads(thread[p][t].image),
         at = "rename" => temp'[p] = thread[p][t].image,
         UNCHANGED << path, running, ledger, mutex, runs >>
  PROVE  IInv'
<1>1. /\ FileTypeOK'
      /\ thread'[p][t].at = at
      /\ thread'[p][t].image = thread[p][t].image
      /\ \A q \in Pid, u \in Thread :
           q # p \/ u # t => thread'[q][u] = thread[q][u]
  BY MovingKeepsLock DEF IInv
<1>2. \A u \in Thread : u # t => ~Saving(p, u)
  BY OneSaves DEF IInv
<1>3. ImagesChecked' /\ WholeAtRename' /\ OnlyRunning'
  <2> SUFFICES ASSUME NEW q \in Pid, NEW u \in Thread
               PROVE  /\ thread'[q][u].at \in { "open", "write", "close", "rename" }
                            => Loads(thread'[q][u].image)
                      /\ thread'[q][u].at = "rename" => temp'[q] = thread'[q][u].image
                      /\ thread'[q][u].at # "idle" => q \in running
    BY DEF ImagesChecked, WholeAtRename, OnlyRunning
  <2>1. CASE q = p /\ u = t
    BY <2>1, <1>1 DEF IInv, OnlyRunning, Saving
  <2>2. CASE q = p /\ u # t
    BY <2>2, <1>1, <1>2 DEF IInv, OnlyRunning, Saving
  <2>3. CASE q # p
    BY <2>3, <1>1 DEF IInv, ImagesChecked, WholeAtRename, OnlyRunning, Saving
  <2> QED BY <2>1, <2>2, <2>3
<1> QED BY <1>1, <1>3 DEF IInv, PathLoads

LEMMA ReturnKeeps ==
  ASSUME IInv, NEW p \in Pid, NEW t \in Thread,
         Saving(p, t), Return(p, t), DOMAIN temp' = Pid,
         \A q \in Pid : q # p => temp'[q] = temp[q],
         PathLoads',
         UNCHANGED << running, ledger, runs >>
  PROVE  IInv'
<1>1. /\ FileTypeOK'
      /\ \A u \in Thread : ~Saving(p, u)'
      /\ \A q \in Pid, u \in Thread : q # p => thread'[q][u] = thread[q][u]
  BY ReturningFreesLock DEF IInv
<1>2. ImagesChecked' /\ WholeAtRename' /\ OnlyRunning'
  <2> SUFFICES ASSUME NEW q \in Pid, NEW u \in Thread
               PROVE  /\ thread'[q][u].at \in { "open", "write", "close", "rename" }
                            => Loads(thread'[q][u].image)
                      /\ thread'[q][u].at = "rename" => temp'[q] = thread'[q][u].image
                      /\ thread'[q][u].at # "idle" => q \in running
    BY DEF ImagesChecked, WholeAtRename, OnlyRunning
  <2>1. CASE q = p
    BY <2>1, <1>1 DEF IInv, OnlyRunning, Saving
  <2>2. CASE q # p
    BY <2>2, <1>1 DEF IInv, ImagesChecked, WholeAtRename, OnlyRunning, Saving
  <2> QED BY <2>1, <2>2
<1> QED BY <1>1, <1>2 DEF IInv

(* A thread that is not inside a save before nor after the step.            *)
LEMMA OutsideKeeps ==
  ASSUME IInv, NEW p \in Pid, NEW t \in Thread,
         p \in running,
         thread[p][t].at = "idle", thread' = [thread EXCEPT ![p][t] = ToSave],
         DOMAIN ledger' = Pid,
         UNCHANGED << path, temp, running, mutex, runs >>
  PROVE  IInv'
<1>1. /\ DOMAIN thread' = Pid
      /\ \A q \in Pid : DOMAIN thread'[q] = Thread
      /\ thread'[p][t].at = "appended"
      /\ \A q \in Pid, u \in Thread :
           q # p \/ u # t => thread'[q][u] = thread[q][u]
  BY DEF IInv, FileTypeOK, ToSave, Holding
<1>2. ASSUME NEW q \in Pid, NEW u \in Thread
      PROVE  /\ Saving(q, u)' <=> Saving(q, u)
             /\ Saving(q, u)' => thread'[q][u] = thread[q][u]
  <2>1. CASE q = p /\ u = t
    BY <2>1, <1>1 DEF Saving
  <2>2. CASE q # p \/ u # t
    BY <2>2, <1>1 DEF Saving
  <2> QED BY <2>1, <2>2
<1>3. FileTypeOK'
  BY <1>1, <1>2 DEF IInv, FileTypeOK
<1>4. ImagesChecked' /\ WholeAtRename'
  <2> SUFFICES ASSUME NEW q \in Pid, NEW u \in Thread, Saving(q, u)'
               PROVE  /\ thread'[q][u].at \in { "open", "write", "close", "rename" }
                            => Loads(thread'[q][u].image)
                      /\ thread'[q][u].at = "rename" => temp[q] = thread'[q][u].image
    BY DEF ImagesChecked, WholeAtRename, Saving
  <2> QED BY <1>2 DEF IInv, ImagesChecked, WholeAtRename
<1>5. OnlyRunning'
  BY <1>1 DEF IInv, OnlyRunning
<1> QED BY <1>3, <1>4, <1>5 DEF IInv, PathLoads

LEMMA BeginSaveKeeps ==
  ASSUME IInv, NEW p \in Pid, NEW t \in Thread, BeginSave(p, t)
  PROVE  IInv'
<1> DEFINE new == [ at |-> "check", image |-> Serialized(ledger[p]), of |-> ledger[p] ]
<1>1. /\ thread' = [thread EXCEPT ![p][t] = new]
      /\ UNCHANGED << path, temp, running, ledger, runs >>
      /\ p \in running
  BY DEF BeginSave, IInv, OnlyRunning
<1>2. /\ DOMAIN thread' = Pid
      /\ \A q \in Pid : DOMAIN thread'[q] = Thread
      /\ thread'[p][t] = new
      /\ \A q \in Pid, u \in Thread :
           q # p \/ u # t => thread'[q][u] = thread[q][u]
  <2> HIDE DEF new
  <2> QED BY <1>1 DEF IInv, FileTypeOK
<1>3. thread'[p][t].at = "check"
  BY <1>2
<1>4. /\ mutex' \in [Pid -> Thread \cup { None }]
      /\ mutex'[p] = t
      /\ mutex[p] = None
      /\ \A q \in Pid : q # p => mutex'[q] = mutex[q]
  BY DEF BeginSave, Unlocked, IInv, FileTypeOK
<1>5. \A u \in Thread : ~Saving(p, u)
  BY <1>4, NoneAssumption DEF IInv, FileTypeOK
<1>6. ASSUME NEW q \in Pid, NEW u \in Thread
      PROVE  /\ Saving(q, u)' <=> mutex'[q] = u
             /\ thread'[q][u].at # "idle" => q \in running
             /\ thread'[q][u].at \in { "open", "write", "close", "rename" }
                   => Loads(thread'[q][u].image)
             /\ thread'[q][u].at = "rename" => temp[q] = thread'[q][u].image
  <2>1. CASE q = p /\ u = t
    BY <2>1, <1>1, <1>3, <1>4 DEF Saving
  <2>2. CASE q = p /\ u # t
    BY <2>2, <1>1, <1>2, <1>4, <1>5 DEF Saving
  <2>3. CASE q # p
    BY <2>3, <1>2, <1>4
    DEF IInv, FileTypeOK, ImagesChecked, WholeAtRename, OnlyRunning, Saving
  <2> QED BY <2>1, <2>2, <2>3
<1>7. FileTypeOK'
  BY <1>1, <1>2, <1>4, <1>6 DEF IInv, FileTypeOK
<1>8. ImagesChecked' /\ WholeAtRename' /\ OnlyRunning'
  BY <1>1, <1>6 DEF ImagesChecked, WholeAtRename, OnlyRunning
<1> QED BY <1>1, <1>7, <1>8 DEF IInv, PathLoads

(* A save, from the copy to the rename. *)
LEMMA SaveStepKeeps ==
  ASSUME IInv, NEW p \in Pid, NEW t \in Thread, SaveStep(p, t)
  PROVE  IInv'
<1>1. CASE Persist(p, t)
  <2>1. DOMAIN ledger' = Pid
    BY <1>1 DEF Persist, IInv, FileTypeOK
  <2> QED BY <1>1, <2>1, OutsideKeeps DEF Persist
<1>2. CASE BeginSave(p, t)
  BY <1>2, BeginSaveKeeps
<1>3. CASE Check(p, t)
  <2>1. Saving(p, t) /\ UNCHANGED << path, temp, running, ledger, runs >>
    BY <1>3 DEF Check, Saving
  <2>2. DOMAIN temp' = Pid /\ PathLoads'
    BY <2>1 DEF IInv, FileTypeOK, PathLoads
  <2>3. CASE Loads(thread[p][t].image) /\ thread' = Moved(p, t, "open") /\ UNCHANGED mutex
    BY <2>1, <2>2, <2>3, MovedKeeps
  <2>4. CASE Return(p, t)
    BY <2>1, <2>2, <2>4, ReturnKeeps
  <2> QED BY <1>3, <2>3, <2>4 DEF Check
<1>4. CASE Open(p, t)
  <2>1. /\ Saving(p, t) /\ Loads(thread[p][t].image)
        /\ thread' = Moved(p, t, "write")
        /\ DOMAIN temp' = Pid
        /\ \A q \in Pid : q # p => temp'[q] = temp[q]
        /\ UNCHANGED << path, running, ledger, mutex, runs >>
    BY <1>4 DEF Open, Saving, IInv, FileTypeOK, ImagesChecked
  <2> QED BY <2>1, MovedKeeps
<1>5. CASE CannotOpen(p, t)
  <2>1. /\ Saving(p, t) /\ Return(p, t)
        /\ DOMAIN temp' = Pid /\ PathLoads'
        /\ UNCHANGED << temp, running, ledger, runs >>
    BY <1>5 DEF CannotOpen, Saving, IInv, FileTypeOK, PathLoads
  <2> QED BY <2>1, ReturnKeeps
<1>6. CASE WriteSome(p, t)
  <2>1. /\ Saving(p, t) /\ Loads(thread[p][t].image)
        /\ thread' = Moved(p, t, "close")
        /\ DOMAIN temp' = Pid
        /\ \A q \in Pid : q # p => temp'[q] = temp[q]
        /\ UNCHANGED << path, running, ledger, mutex, runs >>
    BY <1>6 DEF WriteSome, Saving, IInv, FileTypeOK, ImagesChecked
  <2> QED BY <2>1, MovedKeeps
<1>7. CASE WriteRest(p, t)
  <2>1. /\ Saving(p, t) /\ Loads(thread[p][t].image)
        /\ thread' = Moved(p, t, "rename")
        /\ DOMAIN temp' = Pid
        /\ temp'[p] = thread[p][t].image
        /\ \A q \in Pid : q # p => temp'[q] = temp[q]
        /\ UNCHANGED << path, running, ledger, mutex, runs >>
    BY <1>7 DEF WriteRest, Saving, IInv, FileTypeOK, ImagesChecked
  <2> QED BY <2>1, MovedKeeps
<1>8. CASE CannotReplace(p, t)
  <2>1. /\ Saving(p, t) /\ Return(p, t)
        /\ DOMAIN temp' = Pid /\ PathLoads'
        /\ \A q \in Pid : q # p => temp'[q] = temp[q]
        /\ UNCHANGED << running, ledger, runs >>
    BY <1>8 DEF CannotReplace, Saving, IInv, FileTypeOK, PathLoads
  <2> QED BY <2>1, ReturnKeeps
<1>9. CASE Rename(p, t)
  <2>1. /\ Saving(p, t) /\ Return(p, t)
        /\ DOMAIN temp' = Pid
        /\ \A q \in Pid : q # p => temp'[q] = temp[q]
        /\ UNCHANGED << running, ledger, runs >>
    BY <1>9 DEF Rename, Saving, IInv, FileTypeOK
  <2>2. Loads(thread[p][t].image) /\ temp[p] = thread[p][t].image /\ path' = temp[p]
    BY <1>9 DEF Rename, IInv, ImagesChecked, WholeAtRename
  <2> QED BY <2>1, <2>2, ReturnKeeps DEF PathLoads
<1> QED BY <1>1, <1>2, <1>3, <1>4, <1>5, <1>6, <1>7, <1>8, <1>9 DEF SaveStep

LEMMA StepKeeps == IInv /\ [FileNext]_fileVars => IInv'
<1> SUFFICES ASSUME IInv, [FileNext]_fileVars PROVE IInv'
  OBVIOUS
<1>1. CASE UNCHANGED fileVars
  BY <1>1
  DEF fileVars, IInv, FileTypeOK, ImagesChecked, WholeAtRename, OnlyRunning, PathLoads, Saving
<1>2. CASE FileNext
  <2>1. PICK p \in Pid :
          \/ Start(p) \/ InitCommand(p) \/ End(p)
          \/ \E t \in Threads(p) :
               \/ SaveStep(p, t)
               \/ \E n \in Offered(p, ledger[p]) : AppendBody(p, t, Catalogue[n])
    BY <1>2 DEF FileNext
  <2>2. CASE \E t \in Threads(p), n \in Offered(p, ledger[p]) : AppendBody(p, t, Catalogue[n])
    <3>1. PICK t \in Thread : \E n \in Offered(p, ledger[p]) : AppendBody(p, t, Catalogue[n])
      BY <2>2, ThreadsAssumption
    <3>2. /\ p \in running /\ thread[p][t].at = "idle"
          /\ thread' = [thread EXCEPT ![p][t] = ToSave]
          /\ DOMAIN ledger' = Pid
          /\ UNCHANGED << path, temp, running, mutex, runs >>
      BY <3>1 DEF AppendBody, IInv, FileTypeOK
    <3> QED BY <3>2, OutsideKeeps
  <2>3. CASE \E t \in Threads(p) : SaveStep(p, t)
    BY <2>3, ThreadsAssumption, SaveStepKeeps
  <2> QED BY <2>1, <2>2, <2>3, StartKeeps, InitCommandKeeps, EndKeeps
<1> QED BY <1>1, <1>2

(* The inductive invariant of saves and of the processes that share a path. *)
THEOREM FileInvariant == FileSpec => []IInv
  BY FileInitially, StepKeeps, PTL DEF FileSpec

(* The lock of a process is held exactly while one of its threads is inside  *)
(* save_snapshot_file (Impl::persist).                                      *)
THEOREM LockFollowsSaver == FileSpec => []FileTypeOK
<1>1. IInv => FileTypeOK
  BY DEF IInv
<1> QED BY <1>1, FileInvariant, PTL

(* A crash, a failed operation or another process never leaves a file that  *)
(* does not load at the path: "a snapshot that does not decode is never     *)
(* written over the last known-good file".                                  *)
THEOREM FileAlwaysLoads == FileSpec => []PathLoads
<1>1. IInv => PathLoads
  BY DEF IInv
<1> QED BY <1>1, FileInvariant, PTL


-----------------------------------------------------------------------------
(* What a file holds.  The image of the records is parsed back into those   *)
(* records if the codec gives back each of them: the lengths the body is    *)
(* framed with let the reader find every encoding where the writer put it.  *)
(*                                                                          *)
(* What is asked of the codec: there is a set of records, closed under what *)
(* is committed, whose encodings are sequences and decode to nothing else;  *)
(* and no image is taken for the absence of a file.                         *)
(* That the codec of record_codec.cpp does is proved in RecordCodecProofs.  *)

GivesBack(Kept, Token) ==
  /\ \A p \in Pid, rs \in Seq(Kept) : \A n \in Offered(p, rs) :
       Len(rs) < MaxRecords /\ Fitting(Catalogue[n]) =>
         Committed(rs, Catalogue[n]) \in Kept
  /\ \A r \in Kept :
       /\ Encoded(r) \in Seq(Token)
       /\ Decoded(Encoded(r)).ok => Decoded(Encoded(r)).record = r
  /\ \A rs \in Seq(Kept) : Serialized(rs) # None

LEMMA Induction ==
  ASSUME NEW T, 0 \in T, \A n \in Nat : n \in T => n + 1 \in T
  PROVE  Nat \subseteq T
<1> DEFINE less == { ss \in Nat \X Nat : ss[1] < ss[2] }
           Missing == { n \in Nat : n \notin T }
<1>1. IsWellFoundedOn(less, Nat)
  BY NatLessThanWellFounded DEF OpToRel
<1> HIDE DEF less
<1>2. SUFFICES ASSUME Missing # {} PROVE FALSE
  OBVIOUS
<1>3. \E x \in Missing : \A y \in Missing : ~(<< y, x >> \in less)
  <2>1. \A R, S : IsWellFoundedOn(R, S) =>
          \A V : V \subseteq S /\ V # {} =>
            \E x \in V : \A y \in V : ~(<< y, x >> \in R)
    BY WFMin
  <2> QED BY <1>1, <1>2, <2>1
<1>4. PICK x : x \in Missing /\ \A y \in Missing : ~(<< y, x >> \in less)
  BY <1>3
<1>5. x \in Nat /\ x # 0 /\ x - 1 \in Nat /\ (x - 1) + 1 = x
  BY <1>4
<1>6. << x - 1, x >> \in less
  BY <1>5 DEF less
<1>7. x - 1 \in T
  BY <1>4, <1>5, <1>6
<1> QED BY <1>4, <1>5, <1>7

LEMMA Joining ==
  ASSUME NEW S, NEW s \in Seq(S), NEW t \in Seq(S)
  PROVE  /\ s \o t \in Seq(S) /\ Len(s \o t) = Len(s) + Len(t)
         /\ \A i \in 1 .. Len(s) + Len(t) :
              (s \o t)[i] = IF i <= Len(s) THEN s[i] ELSE t[i - Len(s)]
  OBVIOUS

LEMMA SameSequence ==
  ASSUME NEW S, NEW s \in Seq(S), NEW t \in Seq(S), Len(s) = Len(t),
         \A i \in 1 .. Len(s) : s[i] = t[i]
  PROVE  s = t
  OBVIOUS

-----------------------------------------------------------------------------
(* Sequences joined to one: where each of them is. *)

(* e stands in wire after the first `at`. *)
Stands(e, wire, at) ==
  /\ at + Len(e) <= Len(wire)
  /\ \A k \in 1 .. Len(e) : wire[at + k] = e[k]

LEMMA StandsInside ==
  ASSUME NEW S, NEW e \in Seq(S), NEW f \in Seq(S), NEW wire \in Seq(S),
         NEW a \in Nat, NEW b \in Nat, Stands(e, f, b), Stands(f, wire, a)
  PROVE  Stands(e, wire, a + b)
<1>1. Len(e) \in Nat /\ Len(f) \in Nat /\ Len(wire) \in Nat
  OBVIOUS
<1>2. (a + b) + Len(e) <= Len(wire)
  BY <1>1 DEF Stands
<1>3. ASSUME NEW k \in 1 .. Len(e)
      PROVE  wire[(a + b) + k] = e[k]
  <2>1. b + k \in 1 .. Len(f) /\ a + (b + k) = (a + b) + k
    BY <1>1 DEF Stands
  <2>2. wire[a + (b + k)] = f[b + k] /\ f[b + k] = e[k]
    BY <2>1 DEF Stands
  <2> QED BY <2>1, <2>2
<1> QED BY <1>2, <1>3 DEF Stands

(* What stands in wire is the part of it there. *)
LEMMA StandingPart ==
  ASSUME NEW S, NEW e \in Seq(S), NEW wire \in Seq(S), NEW at \in Nat,
         Stands(e, wire, at)
  PROVE  SubSeq(wire, at + 1, at + Len(e)) = e
<1> DEFINE f == at + 1
           l == at + Len(e)
           part == SubSeq(wire, f, l)
<1>1. /\ f \in Int /\ l \in Int /\ f >= 1 /\ l <= Len(wire)
      /\ Len(e) \in Nat /\ l - f + 1 = Len(e) /\ (f <= l <=> Len(e) # 0)
      /\ \A k \in 1 .. Len(e) : f + k - 1 = at + k
  BY DEF Stands
<1> HIDE DEF f, l
<1>2. \A k \in f .. l : wire[k] \in S
  BY <1>1
<1>3. /\ part \in Seq(S)
      /\ Len(part) = IF f <= l THEN l - f + 1 ELSE 0
      /\ \A k \in 1 .. l - f + 1 : part[k] = wire[f + k - 1]
  BY <1>1, <1>2, SubSeqProperties
<1> HIDE DEF part
<1>4. Len(part) = Len(e)
  BY <1>1, <1>3
<1>5. \A k \in 1 .. Len(part) : part[k] = e[k]
  BY <1>1, <1>3, <1>4 DEF Stands
<1>6. part = e
  BY <1>3, <1>4, <1>5, SameSequence
<1> QED BY <1>6 DEF part, f, l

LEMMA JoinedStand ==
  ASSUME NEW S, NEW s \in Seq(S), NEW t \in Seq(S)
  PROVE  /\ s \o t \in Seq(S) /\ Len(s \o t) = Len(s) + Len(t)
         /\ Stands(s, s \o t, 0) /\ Stands(t, s \o t, Len(s))
<1> DEFINE r == s \o t
<1>1. Len(s) \in Nat /\ Len(t) \in Nat
  OBVIOUS
<1>2. /\ r \in Seq(S) /\ Len(r) = Len(s) + Len(t)
      /\ \A i \in 1 .. Len(s) + Len(t) :
           r[i] = IF i <= Len(s) THEN s[i] ELSE t[i - Len(s)]
  BY Joining
<1> HIDE DEF r
<1>3. \A k \in 1 .. Len(s) : r[0 + k] = s[k]
  BY <1>1, <1>2
<1>4. ASSUME NEW k \in 1 .. Len(t) PROVE r[Len(s) + k] = t[k]
  <2>1. /\ Len(s) + k \in 1 .. Len(s) + Len(t)
        /\ ~(Len(s) + k <= Len(s)) /\ (Len(s) + k) - Len(s) = k
    BY <1>1
  <2> QED BY <1>2, <2>1
<1>5. Stands(s, r, 0) /\ Stands(t, r, Len(s))
  BY <1>1, <1>2, <1>3, <1>4 DEF Stands
<1> QED BY <1>2, <1>5 DEF r

Flattens(pieces, m, g) ==
  g = [ i \in 1 .. m |-> IF i = 1 THEN pieces[i] ELSE g[i - 1] \o pieces[i] ]

LEMMA FlatCanBeBuilt ==
  ASSUME NEW pieces, NEW n \in Nat
  PROVE  \E g : Flattens(pieces, n, g)
<1> DEFINE T == { m \in Nat : \E g : Flattens(pieces, m, g) }
<1>1. 0 \in T
  <2>1. Flattens(pieces, 0, [ i \in 1 .. 0 |-> pieces[i] ])
    BY DEF Flattens
  <2> QED BY <2>1
<1>2. ASSUME NEW m \in Nat, m \in T
      PROVE  m + 1 \in T
  <2>1. PICK g : Flattens(pieces, m, g)
    BY <1>2
  <2> DEFINE last == IF m = 0 THEN pieces[1] ELSE g[m] \o pieces[m + 1]
             h == [ i \in 1 .. m + 1 |-> IF i <= m THEN g[i] ELSE last ]
  <2>2. \A i \in 1 .. m :
          g[i] = IF i = 1 THEN pieces[i] ELSE g[i - 1] \o pieces[i]
    <3> HIDE DEF h, last
    <3> QED BY <2>1 DEF Flattens
  <2>3. \A i \in 1 .. m + 1 :
          h[i] = IF i = 1 THEN pieces[i] ELSE h[i - 1] \o pieces[i]
    <3> SUFFICES ASSUME NEW i \in 1 .. m + 1
                 PROVE  h[i] = IF i = 1 THEN pieces[i] ELSE h[i - 1] \o pieces[i]
      OBVIOUS
    <3>1. CASE i = 1 /\ i <= m
      BY <2>2, <3>1
    <3>2. CASE i # 1 /\ i <= m
      <4>1. h[i] = g[i] /\ h[i - 1] = g[i - 1] /\ i \in 1 .. m
        BY <3>2
      <4> QED BY <2>2, <3>2, <4>1
    <3>3. CASE i = m + 1 /\ m = 0
      BY <3>3
    <3>4. CASE i = m + 1 /\ m # 0
      <4>1. last = g[m] \o pieces[i]
        BY <3>4
      <4> HIDE DEF last
      <4>2. i # 1 /\ ~(i <= m) /\ i - 1 = m /\ m \in 1 .. m + 1 /\ m <= m
        BY <3>4
      <4>3. h[i] = last /\ h[i - 1] = g[m]
        BY <4>2
      <4> HIDE DEF h
      <4> QED BY <4>1, <4>2, <4>3
    <3> QED BY <3>1, <3>2, <3>3, <3>4
  <2>4. h = [ i \in 1 .. m + 1 |-> h[i] ]
    OBVIOUS
  <2> HIDE DEF h
  <2>5. Flattens(pieces, m + 1, h)
    BY <2>3, <2>4 DEF Flattens
  <2> QED BY <2>5
<1> HIDE DEF T
<1>3. Nat \subseteq T
  BY <1>1, <1>2, Induction
<1> QED BY <1>3 DEF T

LEMMA FlatIsBuilt ==
  ASSUME NEW pieces, Len(pieces) \in Nat \ { 0 }
  PROVE  \E g : Flattens(pieces, Len(pieces), g) /\ FlattenSeq(pieces) = g[Len(pieces)]
<1> DEFINE flatten[i \in 1 .. Len(pieces)] ==
             IF i = 1 THEN pieces[i] ELSE flatten[i - 1] \o pieces[i]
<1>1. FlattenSeq(pieces) = flatten[Len(pieces)]
  BY DEF FlattenSeq
<1>2. flatten = CHOOSE g : Flattens(pieces, Len(pieces), g)
  BY DEF Flattens
<1> HIDE DEF flatten
<1>3. \E g : Flattens(pieces, Len(pieces), g)
  BY FlatCanBeBuilt
<1> QED BY <1>1, <1>2, <1>3

Located(pieces, flat, b) ==
  /\ b \in [ 0 .. Len(pieces) -> Nat ] /\ b[0] = 0 /\ b[Len(pieces)] = Len(flat)
  /\ \A i \in 1 .. Len(pieces) :
       b[i] = b[i - 1] + Len(pieces[i]) /\ Stands(pieces[i], flat, b[i - 1])

LEMMA PiecesAreLocated ==
  ASSUME NEW S, NEW pieces \in Seq(Seq(S))
  PROVE  /\ FlattenSeq(pieces) \in Seq(S)
         /\ \E b : Located(pieces, FlattenSeq(pieces), b)
<1> DEFINE n == Len(pieces)
<1>1. n \in Nat /\ \A i \in 1 .. n : pieces[i] \in Seq(S) /\ Len(pieces[i]) \in Nat
  OBVIOUS
<1>2. CASE n = 0
  <2>1. FlattenSeq(pieces) = pieces /\ pieces = << >>
    BY <1>2 DEF FlattenSeq
  <2>2. Len(<< >>) = 0 /\ << >> \in Seq(S)
    OBVIOUS
  <2>3. Located(pieces, FlattenSeq(pieces), [ i \in 0 .. 0 |-> 0 ])
    BY <2>1, <2>2 DEF Located
  <2> QED BY <2>1, <2>2, <2>3
<1>3. CASE n # 0
  <2>1. PICK g : Flattens(pieces, n, g) /\ FlattenSeq(pieces) = g[n]
    BY <1>1, <1>3, FlatIsBuilt
  <2>2. \A i \in 1 .. n : g[i] = IF i = 1 THEN pieces[i] ELSE g[i - 1] \o pieces[i]
    BY <2>1 DEF Flattens
  <2> DEFINE f == [ i \in 0 .. n |-> IF i = 0 THEN << >> ELSE g[i] ]
             b == [ i \in 0 .. n |-> Len(f[i]) ]
  <2>3. /\ f[0] = << >> /\ f[n] = g[n]
        /\ \A i \in 1 .. n : i # 1 => f[i] = f[i - 1] \o pieces[i]
        /\ f[1] = pieces[1]
    <3>1. \A i \in 1 .. n : f[i] = g[i] /\ (i # 1 => f[i - 1] = g[i - 1])
      OBVIOUS
    <3>2. f[0] = << >> /\ 1 \in 1 .. n /\ n \in 1 .. n
      BY <1>1, <1>3
    <3> HIDE DEF f, n
    <3> QED BY <2>2, <3>1, <3>2
  <2> HIDE DEF f, n
  <2>4. \A s \in Seq(S) : << >> \o s = s
    OBVIOUS
  <2>5. \A i \in 1 .. n : f[i] = f[i - 1] \o pieces[i]
    <3>1. f[1] = f[0] \o pieces[1] /\ 1 - 1 = 0
      <4>1. pieces[1] \in Seq(S)
        BY <1>1, <1>3
      <4> QED BY <2>3, <2>4, <4>1
    <3> QED BY <2>3, <3>1
  <2>6. \A m \in Nat : m <= n => f[m] \in Seq(S)
    <3> DEFINE T == { m \in Nat : m <= n => f[m] \in Seq(S) }
    <3>1. 0 \in T
      <4>1. << >> \in Seq(S)
        OBVIOUS
      <4>2. f[0] \in Seq(S)
        BY <2>3, <4>1
      <4> QED BY <4>2
    <3>2. ASSUME NEW m \in Nat, m \in T PROVE m + 1 \in T
      <4>1. SUFFICES ASSUME m + 1 <= n PROVE f[m + 1] \in Seq(S)
        OBVIOUS
      <4>2. m + 1 \in 1 .. n /\ (m + 1) - 1 = m /\ f[m] \in Seq(S)
        BY <1>1, <3>2, <4>1
      <4>3. f[m + 1] = f[m] \o pieces[m + 1] /\ pieces[m + 1] \in Seq(S)
        BY <1>1, <2>5, <4>2
      <4> QED BY <4>2, <4>3, Joining
    <3> HIDE DEF T
    <3>3. Nat \subseteq T
      BY <3>1, <3>2, Induction
    <3> QED BY <3>3 DEF T
  <2>7. \A i \in 0 .. n : f[i] \in Seq(S) /\ Len(f[i]) \in Nat
    <3>1. \A i \in 0 .. n : f[i] \in Seq(S)
      BY <1>1, <2>6
    <3> QED BY <3>1
  <2>8. ASSUME NEW i \in 1 .. n
        PROVE  /\ Len(f[i]) = Len(f[i - 1]) + Len(pieces[i])
               /\ Stands(f[i - 1], f[i], 0) /\ Stands(pieces[i], f[i], Len(f[i - 1]))
    <3> DEFINE s == f[i - 1]
               t == pieces[i]
    <3>1. s \in Seq(S) /\ t \in Seq(S) /\ f[i] = s \o t
      <4>1. i - 1 \in 0 .. n
        BY <1>1
      <4>2. f[i - 1] \in Seq(S)
        BY <2>7, <4>1
      <4> QED BY <1>1, <2>5, <4>2
    <3> HIDE DEF s, t
    <3>2. /\ Len(f[i]) = Len(s) + Len(t)
          /\ Stands(s, f[i], 0) /\ Stands(t, f[i], Len(s))
      BY <3>1, JoinedStand
    <3> QED BY <3>2 DEF s, t
(* Every prefix of the pieces stands at the beginning of all of them. *)
  <2>9. \A m \in Nat : m <= n => Stands(f[n - m], f[n], 0)
    <3> DEFINE T == { m \in Nat : m <= n => Stands(f[n - m], f[n], 0) }
    <3>1. 0 \in T
      <4>1. Len(f[n]) \in Nat /\ n - 0 = n
        BY <1>1, <2>7
      <4>2. Stands(f[n], f[n], 0)
        BY <4>1 DEF Stands
      <4> QED BY <4>1, <4>2
    <3>2. ASSUME NEW m \in Nat, m \in T PROVE m + 1 \in T
      <4>1. SUFFICES ASSUME m + 1 <= n PROVE Stands(f[n - (m + 1)], f[n], 0)
        OBVIOUS
      <4> DEFINE i == n - m
      <4>2. /\ i \in 1 .. n /\ i - 1 = n - (m + 1) /\ Stands(f[i], f[n], 0)
            /\ i \in 0 .. n /\ i - 1 \in 0 .. n /\ n \in 0 .. n
        BY <1>1, <3>2, <4>1
      <4> HIDE DEF i
      <4>3. /\ Stands(f[i - 1], f[i], 0)
            /\ f[i - 1] \in Seq(S) /\ f[i] \in Seq(S) /\ f[n] \in Seq(S)
        BY <2>7, <2>8, <4>2
      <4>4. Stands(f[i - 1], f[n], 0 + 0)
        BY <4>2, <4>3, StandsInside
      <4> QED BY <4>2, <4>4
    <3> HIDE DEF T
    <3>3. Nat \subseteq T
      BY <3>1, <3>2, Induction
    <3> QED BY <3>3 DEF T
  <2>10. ASSUME NEW i \in 1 .. n
         PROVE  Stands(pieces[i], f[n], Len(f[i - 1]))
    <3>1. /\ f[i] \in Seq(S) /\ f[n] \in Seq(S) /\ pieces[i] \in Seq(S)
          /\ Len(f[i - 1]) \in Nat
      <4>1. i \in 0 .. n /\ n \in 0 .. n /\ i - 1 \in 0 .. n
        BY <1>1
      <4> QED BY <1>1, <2>7, <4>1
    <3>2. Stands(f[i], f[n], 0)
      <4>1. n - i \in Nat /\ n - i <= n /\ n - (n - i) = i
        BY <1>1
      <4> QED BY <2>9, <4>1
    <3>3. Stands(pieces[i], f[n], 0 + Len(f[i - 1]))
      BY <2>8, <3>1, <3>2, StandsInside
    <3> QED BY <3>1, <3>3
  <2>11. b \in [ 0 .. n -> Nat ] /\ b[0] = 0 /\ b[n] = Len(f[n])
    <3>1. Len(f[0]) = 0 /\ 0 \in 0 .. n /\ n \in 0 .. n
      BY <1>1, <2>3
    <3> QED BY <2>7, <3>1
  <2>12. \A i \in 1 .. n : b[i] = Len(f[i]) /\ b[i - 1] = Len(f[i - 1])
    BY <1>1
  <2> HIDE DEF b
  <2>13. Located(pieces, f[n], b)
    BY <2>8, <2>10, <2>11, <2>12 DEF Located, n
  <2>14. f[n] \in Seq(S)
    BY <1>1, <2>6
  <2> QED BY <2>1, <2>3, <2>13, <2>14
<1> QED BY <1>2, <1>3

(* In the body of an image: the length of each encoding, then the encoding. *)
RecordsAt(rs, body, b) ==
  /\ b \in [ 0 .. Len(rs) -> Nat ] /\ b[0] = 0 /\ b[Len(rs)] = Len(body)
  /\ \A i \in 1 .. Len(rs) :
       LET e == Encoded(rs[i]) IN
       /\ b[i] = b[i - 1] + 1 + Len(e)
       /\ body[b[i - 1] + 1] = Len(e)
       /\ Stands(e, body, b[i - 1] + 1)

LEMMA EncodingsAreLocated ==
  ASSUME NEW Kept, NEW Token, \A r \in Kept : Encoded(r) \in Seq(Token),
         NEW rs \in Seq(Kept)
  PROVE  /\ Body(rs) \in Seq(Token \cup Nat)
         /\ \E b : RecordsAt(rs, Body(rs), b)
<1> DEFINE n == Len(rs)
           S == Token \cup Nat
           Piece(e) == << Len(e) >> \o e
           pieces == [ i \in 1 .. n |-> Piece(Encoded(rs[i])) ]
<1>1. n \in Nat /\ \A i \in 1 .. n : rs[i] \in Kept
  OBVIOUS
<1>2. ASSUME NEW i \in 1 .. n
      PROVE  Encoded(rs[i]) \in Seq(S)
  <2> DEFINE e == Encoded(rs[i])
  <2>1. e \in Seq(Token)
    BY <1>1
  <2> HIDE DEF e
  <2>2. e \in Seq(S)
    BY <2>1
  <2> QED BY <2>2 DEF e
<1> HIDE DEF S
<1>3. \A e \in Seq(S) : Len(e) \in Nat
  OBVIOUS
<1>4. Nat \subseteq S
  BY DEF S
<1>5. ASSUME NEW e \in Seq(S)
      PROVE  /\ Piece(e) \in Seq(S) /\ Len(Piece(e)) = 1 + Len(e)
             /\ Piece(e)[1] = Len(e) /\ Stands(e, Piece(e), 1)
  <2> DEFINE length == Len(e)
             one == << length >>
  <2>1. length \in S
    BY <1>3, <1>4
  <2> HIDE DEF length
  <2>2. one \in Seq(S) /\ Len(one) = 1 /\ one[1] = length
    BY <2>1
  <2> HIDE DEF one
  <2>3. /\ one \o e \in Seq(S) /\ Len(one \o e) = Len(one) + Len(e)
        /\ Stands(one, one \o e, 0) /\ Stands(e, one \o e, Len(one))
    BY <2>2, JoinedStand
  <2>4. (one \o e)[0 + 1] = one[1] /\ 0 + 1 = 1
    BY <2>2, <2>3 DEF Stands
  <2> QED BY <2>2, <2>3, <2>4 DEF one, length
<1> HIDE DEF Piece
<1>6. /\ Len(pieces) = n
      /\ \A i \in 1 .. n : pieces[i] = Piece(Encoded(rs[i]))
      /\ pieces \in Seq(Seq(S))
  BY <1>1, <1>2, <1>5
<1>7. Body(rs) = FlattenSeq(pieces)
  BY DEF Body, Piece
<1> HIDE DEF pieces
<1> DEFINE body == FlattenSeq(pieces)
<1>8. body \in Seq(S)
  BY <1>6, PiecesAreLocated
<1>9. PICK b : Located(pieces, body, b)
  BY <1>6, PiecesAreLocated
<1> HIDE DEF body, n
<1>10. b \in [ 0 .. n -> Nat ] /\ b[0] = 0 /\ b[n] = Len(body)
  BY <1>6, <1>9 DEF Located
<1>11. ASSUME NEW i \in 1 .. n
       PROVE  LET e == Encoded(rs[i]) IN
              /\ b[i] = b[i - 1] + 1 + Len(e)
              /\ body[b[i - 1] + 1] = Len(e)
              /\ Stands(e, body, b[i - 1] + 1)
  <2> DEFINE e == Encoded(rs[i])
             at == b[i - 1]
             piece == pieces[i]
  <2>1. /\ e \in Seq(S) /\ Len(e) \in Nat /\ piece \in Seq(S)
        /\ Len(piece) = 1 + Len(e) /\ piece[1] = Len(e) /\ Stands(e, piece, 1)
    BY <1>2, <1>3, <1>5, <1>6
  <2>2. b[i] = at + Len(piece) /\ Stands(piece, body, at)
    BY <1>6, <1>9 DEF Located
  <2>3. at \in Nat
    <3>1. i - 1 \in 0 .. n
      BY <1>1 DEF n
    <3> QED BY <1>10, <3>1
  <2> HIDE DEF e, at, piece
  <2>4. Stands(e, body, at + 1)
    BY <1>8, <2>1, <2>2, <2>3, StandsInside
  <2>5. body[at + 1] = Len(e)
    BY <2>1, <2>2 DEF Stands
  <2>6. b[i] = at + 1 + Len(e)
    BY <2>1, <2>2, <2>3
  <2> QED BY <2>4, <2>5, <2>6 DEF e, at
<1>12. RecordsAt(rs, body, b)
  BY <1>10, <1>11 DEF RecordsAt, n
<1> QED BY <1>7, <1>8, <1>12 DEF body, S

LEMMA RecordsAreLocated ==
  ASSUME NEW Kept, NEW Token, GivesBack(Kept, Token), NEW rs \in Seq(Kept)
  PROVE  /\ Body(rs) \in Seq(Token \cup Nat)
         /\ \E b : RecordsAt(rs, Body(rs), b)
  BY EncodingsAreLocated DEF GivesBack

-----------------------------------------------------------------------------
(* The reader goes through the body record by record. *)

Unread == [ ok |-> TRUE, at |-> 0, chain |-> << >>, records |-> << >> ]

Reads(body, m, g) ==
  g = [ i \in 0 .. m |->
          IF i = 0 THEN Unread ELSE ReadRecord(body, i, g[i - 1]) ]

LEMMA BodyCanBeRead ==
  ASSUME NEW body, NEW n \in Nat
  PROVE  \E g : Reads(body, n, g)
<1> DEFINE T == { m \in Nat : \E g : Reads(body, m, g) }
<1>1. 0 \in T
  <2>1. Reads(body, 0, [ i \in 0 .. 0 |-> Unread ])
    BY DEF Reads
  <2> QED BY <2>1
<1>2. ASSUME NEW m \in Nat, m \in T
      PROVE  m + 1 \in T
  <2>1. PICK g : Reads(body, m, g)
    BY <1>2
  <2> DEFINE h == [ i \in 0 .. m + 1 |->
                      IF i <= m THEN g[i] ELSE ReadRecord(body, m + 1, g[m]) ]
  <2>2. \A i \in 0 .. m :
          g[i] = IF i = 0 THEN Unread ELSE ReadRecord(body, i, g[i - 1])
    <3> HIDE DEF h
    <3> QED BY <2>1 DEF Reads
  <2>3. \A i \in 0 .. m + 1 :
          h[i] = IF i = 0 THEN Unread ELSE ReadRecord(body, i, h[i - 1])
    <3> SUFFICES ASSUME NEW i \in 0 .. m + 1
                 PROVE  h[i] = IF i = 0 THEN Unread
                               ELSE ReadRecord(body, i, h[i - 1])
      OBVIOUS
    <3>1. CASE i = 0
      BY <2>2, <3>1
    <3>2. CASE i # 0 /\ i <= m
      <4>1. h[i] = g[i] /\ h[i - 1] = g[i - 1] /\ i \in 0 .. m
        BY <3>2
      <4> QED BY <2>2, <3>2, <4>1
    <3>3. CASE i = m + 1
      <4>1. h[i] = ReadRecord(body, m + 1, g[m]) /\ h[i - 1] = g[m]
        BY <3>3
      <4> QED BY <3>3, <4>1
    <3> QED BY <3>1, <3>2, <3>3
  <2>5. h = [ i \in 0 .. m + 1 |-> h[i] ]
    OBVIOUS
  <2> HIDE DEF h
  <2>6. Reads(body, m + 1, h)
    BY <2>3, <2>5 DEF Reads
  <2> QED BY <2>6
<1> HIDE DEF T
<1>3. Nat \subseteq T
  BY <1>1, <1>2, Induction
<1> QED BY <1>3 DEF T

LEMMA BodyIsRead ==
  ASSUME NEW body, NEW n \in Nat
  PROVE  \E g : Reads(body, n, g) /\ Parsed(body, n) = g[n]
<1> DEFINE p[i \in 0..n] ==
             IF i = 0 THEN [ ok |-> TRUE, at |-> 0, chain |-> << >>, records |-> << >> ]
             ELSE ReadRecord(body, i, p[i - 1])
<1>1. Parsed(body, n) = p[n]
  BY DEF Parsed
<1>2. p = CHOOSE g : Reads(body, n, g)
  BY DEF Reads, Unread
<1> HIDE DEF p
<1>3. \E g : Reads(body, n, g)
  BY BodyCanBeRead
<1> QED BY <1>1, <1>2, <1>3

IsReader(q) ==
  q = [ ok |-> q.ok, at |-> q.at, chain |-> q.chain, records |-> q.records ]

(* A reader that is not refused has joined the record it decoded. *)
LEMMA ReadingOne ==
  ASSUME NEW body, NEW i, NEW q, IsReader(q)
  PROVE  LET r == ReadRecord(body, i, q)
             length == body[q.at + 1]
             d == Decoded(SubSeq(body, q.at + 2, q.at + 1 + length)) IN
         /\ IsReader(r)
         /\ r.ok => /\ q.ok /\ d.ok
                    /\ r.at = q.at + 1 + length
                    /\ r.records = Append(q.records, d.record)
<1> DEFINE r == ReadRecord(body, i, q)
           length == body[q.at + 1]
           d == Decoded(SubSeq(body, q.at + 2, q.at + 1 + length))
           refused == [ q EXCEPT !.ok = FALSE ]
<1>1. refused = [ ok |-> FALSE, at |-> q.at, chain |-> q.chain,
                  records |-> q.records ]
  <2> DEFINE o == q.ok
             a == q.at
             c == q.chain
             rs == q.records
  <2>1. q = [ ok |-> o, at |-> a, chain |-> c, records |-> rs ]
    BY DEF IsReader
  <2> HIDE DEF o, a, c, rs
  <2>2. refused = [ ok |-> FALSE, at |-> a, chain |-> c, records |-> rs ]
    <3> DEFINE no == FALSE
    <3> HIDE DEF no
    <3>1. [ [ ok |-> o, at |-> a, chain |-> c, records |-> rs ]
              EXCEPT !.ok = no ]
            = [ ok |-> no, at |-> a, chain |-> c, records |-> rs ]
      OBVIOUS
    <3>2. refused = [ [ ok |-> o, at |-> a, chain |-> c, records |-> rs ]
                        EXCEPT !.ok = no ]
      BY <2>1, Zenon DEF no
    <3> QED BY <3>1, <3>2, Zenon DEF no
  <2> QED BY <2>2 DEF a, c, rs
<1>2. IsReader(refused) /\ ~refused.ok
  BY <1>1 DEF IsReader
<1>3. \/ r = refused
      \/ r = Joined(q, i, length, d) /\ q.ok
  BY DEF ReadRecord
<1> HIDE DEF r, d, length
<1>4. \/ Joined(q, i, length, d) = refused
      \/ /\ d.ok
         /\ Joined(q, i, length, d) =
              [ ok |-> TRUE, at |-> q.at + 1 + length,
                chain |-> d.record.header.chain_digest,
                records |-> Append(q.records, d.record) ]
  BY DEF Joined
<1> HIDE DEF refused
<1>5. CASE r = refused
  BY <1>2, <1>5 DEF r, d, length
<1>6. CASE q.ok /\ d.ok /\ r = [ ok |-> TRUE, at |-> q.at + 1 + length,
                chain |-> d.record.header.chain_digest,
                records |-> Append(q.records, d.record) ]
  <2>1. /\ IsReader(r) /\ r.at = q.at + 1 + length
        /\ r.records = Append(q.records, d.record)
    BY <1>6 DEF IsReader
  <2> QED BY <1>6, <2>1 DEF r, d, length
<1> QED BY <1>3, <1>4, <1>5, <1>6

LEMMA ReadsBack ==
  ASSUME NEW Kept, NEW Token, GivesBack(Kept, Token), NEW rs \in Seq(Kept),
         Parsed(Body(rs), Len(rs)).ok
  PROVE  Parsed(Body(rs), Len(rs)).records = rs
<1> DEFINE n == Len(rs)
           body == Body(rs)
<1>1. n \in Nat /\ \A i \in 1 .. n : rs[i] \in Kept
  OBVIOUS
<1>2. PICK g : Reads(body, n, g) /\ Parsed(body, n) = g[n]
  BY <1>1, BodyIsRead
<1>3. /\ g[0] = Unread
      /\ \A i \in 1 .. n : g[i] = ReadRecord(body, i, g[i - 1])
  BY <1>1, <1>2 DEF Reads
<1>4. PICK b : RecordsAt(rs, body, b)
  BY RecordsAreLocated
<1>5. body \in Seq(Token \cup Nat)
  BY RecordsAreLocated
<1> HIDE DEF n, body
<1>6. n \in Nat
  BY <1>1 DEF n
(* Every reader is one, and was not refused before. *)
<1>7. \A m \in Nat : m <= n => IsReader(g[m])
  <2> DEFINE T == { m \in Nat : m <= n => IsReader(g[m]) }
  <2>1. 0 \in T
    BY <1>3 DEF Unread, IsReader
  <2>2. ASSUME NEW m \in Nat, m \in T PROVE m + 1 \in T
    <3>1. SUFFICES ASSUME m + 1 <= n PROVE IsReader(g[m + 1])
      OBVIOUS
    <3>2. m + 1 \in 1 .. n /\ (m + 1) - 1 = m /\ IsReader(g[m])
      BY <1>6, <2>2, <3>1
    <3>3. g[m + 1] = ReadRecord(body, m + 1, g[m])
      BY <1>3, <3>2
    <3> QED BY <3>2, <3>3, ReadingOne
  <2> HIDE DEF T
  <2>3. Nat \subseteq T
    BY <2>1, <2>2, Induction
  <2> QED BY <2>3 DEF T
<1>8. \A m \in Nat : m <= n => g[n - m].ok
  <2> DEFINE T == { m \in Nat : m <= n => g[n - m].ok }
  <2>1. 0 \in T
    <3>1. g[n].ok
      BY <1>2 DEF n, body
    <3> QED BY <1>6, <3>1
  <2>2. ASSUME NEW m \in Nat, m \in T PROVE m + 1 \in T
    <3>1. SUFFICES ASSUME m + 1 <= n PROVE g[n - (m + 1)].ok
      OBVIOUS
    <3> DEFINE i == n - m
    <3>2. /\ i \in 1 .. n /\ i - 1 = n - (m + 1) /\ g[i].ok
          /\ i - 1 \in Nat /\ i - 1 <= n
      BY <1>6, <2>2, <3>1
    <3> HIDE DEF i
    <3>3. g[i] = ReadRecord(body, i, g[i - 1]) /\ IsReader(g[i - 1])
      BY <1>3, <1>7, <3>2
    <3>4. g[i - 1].ok
      BY <3>2, <3>3, ReadingOne
    <3> QED BY <3>2, <3>4
  <2> HIDE DEF T
  <2>3. Nat \subseteq T
    BY <2>1, <2>2, Induction
  <2> QED BY <2>3 DEF T
<1>9. \A m \in Nat : m <= n =>
        /\ g[m].at = b[m]
        /\ g[m].records \in Seq(Kept) /\ Len(g[m].records) = m
        /\ \A k \in 1 .. m : g[m].records[k] = rs[k]
  <2> DEFINE Good(m) == /\ g[m].at = b[m]
                        /\ g[m].records \in Seq(Kept) /\ Len(g[m].records) = m
                        /\ \A k \in 1 .. m : g[m].records[k] = rs[k]
             T == { m \in Nat : m <= n => Good(m) }
  <2>1. 0 \in T
    <3>1. b[0] = 0 /\ g[0].at = 0 /\ g[0].records = << >>
      <4>1. b[0] = 0
        BY <1>4 DEF RecordsAt
      <4>2. Unread.at = 0 /\ Unread.records = << >>
        BY DEF Unread
      <4> QED BY <1>3, <4>1, <4>2
    <3>2. << >> \in Seq(Kept) /\ Len(<< >>) = 0
      OBVIOUS
    <3>3. g[0].records \in Seq(Kept) /\ Len(g[0].records) = 0
      BY <3>1, <3>2, Zenon
    <3>4. 1 .. 0 = {}
      OBVIOUS
    <3>5. Good(0)
      BY <3>1, <3>3, <3>4
    <3> HIDE DEF Good
    <3> QED BY <3>5
  <2>2. ASSUME NEW m \in Nat, m \in T PROVE m + 1 \in T
    <3>1. SUFFICES ASSUME m + 1 <= n PROVE Good(m + 1)
      OBVIOUS
    <3> DEFINE i == m + 1
               e == Encoded(rs[i])
               q == g[m]
               d == Decoded(SubSeq(body, q.at + 2, q.at + 1 + body[q.at + 1]))
    <3>2. /\ i \in 1 .. n /\ i - 1 = m /\ i \in Nat /\ i <= n /\ m <= n
          /\ Good(m)
      BY <1>6, <2>2, <3>1
    <3>3. g[i] = ReadRecord(body, i, q) /\ IsReader(q)
      <4>1. g[i] = ReadRecord(body, i, g[i - 1])
        BY <1>3, <3>2
      <4>2. IsReader(q)
        BY <1>7, <3>2
      <4> QED BY <3>2, <4>1, <4>2
    <3>4. g[i].ok
      <4> DEFINE j == n - i
      <4>1. j \in Nat /\ j <= n /\ n - j = i
        BY <1>6, <3>2
      <4> HIDE DEF i, j
      <4>2. g[n - j].ok
        BY <1>8, <4>1
      <4> QED BY <4>1, <4>2
    <3>5. /\ d.ok /\ g[i].at = q.at + 1 + body[q.at + 1]
          /\ g[i].records = Append(q.records, d.record)
      <4> HIDE DEF i, q
      <4> QED BY <3>3, <3>4, ReadingOne
    <3>6. rs[i] \in Kept
      BY <1>1, <3>2 DEF n
    <3>7. /\ b[m] \in Nat
          /\ b[i] = b[m] + 1 + Len(e)
          /\ body[b[m] + 1] = Len(e)
          /\ Stands(e, body, b[m] + 1)
      <4> HIDE DEF e, i
      <4>1. /\ b[i] = b[i - 1] + 1 + Len(e)
            /\ body[b[i - 1] + 1] = Len(e)
            /\ Stands(e, body, b[i - 1] + 1)
        BY <1>4, <3>2 DEF RecordsAt, n, e
      <4>2. b[m] \in Nat
        BY <1>4, <1>6, <3>2 DEF RecordsAt, n
      <4> QED BY <3>2, <4>1, <4>2
    <3>8. e \in Seq(Token) /\ (Decoded(e).ok => Decoded(e).record = rs[i])
      BY <3>6 DEF GivesBack
    <3> HIDE DEF e, q, i
    <3>9. SubSeq(body, q.at + 2, q.at + 1 + body[q.at + 1]) = e
      <4> DEFINE at == b[m] + 1
      <4>1. /\ q.at + 2 = at + 1 /\ q.at + 1 + body[q.at + 1] = at + Len(e)
            /\ at \in Nat
        BY <3>2, <3>7 DEF q
      <4> HIDE DEF at
      <4>2. e \in Seq(Token \cup Nat) /\ Stands(e, body, at)
        BY <3>7, <3>8 DEF at
      <4>3. SubSeq(body, at + 1, at + Len(e)) = e
        BY <1>5, <4>1, <4>2, StandingPart
      <4> QED BY <4>1, <4>3
    <3>10. d.record = rs[i]
      BY <3>5, <3>8, <3>9
    <3>11. g[i].at = b[i]
      BY <3>2, <3>5, <3>7 DEF q
    <3> HIDE DEF d
    <3>12. /\ q.records \in Seq(Kept) /\ Len(q.records) = m
           /\ \A k \in 1 .. m : q.records[k] = rs[k]
      BY <3>2 DEF q
    <3>13. /\ g[i].records \in Seq(Kept) /\ Len(g[i].records) = m + 1
           /\ \A k \in 1 .. m : g[i].records[k] = q.records[k]
           /\ g[i].records[m + 1] = rs[i]
      BY <3>5, <3>6, <3>10, <3>12
    <3>14. \A k \in 1 .. m + 1 : g[i].records[k] = rs[k]
      BY <3>12, <3>13 DEF i
    <3> QED BY <3>11, <3>13, <3>14 DEF i
  <2> HIDE DEF T, Good
  <2>3. Nat \subseteq T
    BY <2>1, <2>2, Induction
  <2>4. \A m \in Nat : m <= n => Good(m)
    BY <2>3 DEF T
  <2> QED BY <2>4 DEF Good
<1>10. /\ g[n].records \in Seq(Kept) /\ Len(g[n].records) = n
       /\ \A k \in 1 .. n : g[n].records[k] = rs[k]
  BY <1>6, <1>9
<1>11. g[n].records = rs
  <2> DEFINE s == g[n].records
  <2>1. s \in Seq(Kept) /\ Len(s) = Len(rs) /\ \A k \in 1 .. Len(s) : s[k] = rs[k]
    BY <1>10 DEF n
  <2> HIDE DEF s
  <2>2. s = rs
    BY <2>1, SameSequence
  <2> QED BY <2>2 DEF s
<1> QED BY <1>2, <1>11 DEF n, body

LEMMA ImageHolds ==
  ASSUME NEW Kept, NEW Token, GivesBack(Kept, Token), NEW rs \in Seq(Kept)
  PROVE  /\ Serialized(rs)[5] = Len(rs)
         /\ BodyOf(Serialized(rs)) = Body(rs)
         /\ Len(Body(rs)) \in Nat /\ Len(Serialized(rs)) = HeaderSize + Len(Body(rs)) + 1
         /\ Len(rs) <= MaxRecords /\ Len(Serialized(rs)) <= MaxImage =>
              Framed(Serialized(rs))
<1> DEFINE body == Body(rs)
           header == << Magic, Format, 1, 1, Len(rs), Len(body) >>
           S == Token \cup Nat \cup { header, body }
           first == header \o << header >>
           second == first \o body
           image == second \o << body >>
<1>1. body \in Seq(Token \cup Nat) /\ Len(rs) \in Nat
  BY RecordsAreLocated
<1>2. Serialized(rs) = image
  BY DEF Serialized
<1> HIDE DEF body
<1>3. Len(body) \in Nat
  BY <1>1
<1>4. /\ header \in Seq(Nat) /\ Len(header) = 6
      /\ header[1] = Magic /\ header[2] = Format /\ header[3] = 1 /\ header[4] = 1
      /\ header[5] = Len(rs) /\ header[6] = Len(body)
  BY <1>1, <1>3 DEF Magic, Format
<1> HIDE DEF header
<1>5. header \in Seq(S) /\ body \in Seq(S)
  <2>1. header \in Seq(Nat) /\ body \in Seq(Token \cup Nat)
    BY <1>1, <1>4
  <2>2. Nat \subseteq S /\ (Token \cup Nat) \subseteq S
    OBVIOUS
  <2> HIDE DEF S, first
  <2>3. header \in Seq(S)
    BY <2>1, <2>2
  <2>4. body \in Seq(S)
    BY <2>1, <2>2
  <2> QED BY <2>3, <2>4
<1>6. /\ << header >> \in Seq(S) /\ Len(<< header >>) = 1
      /\ << body >> \in Seq(S) /\ Len(<< body >>) = 1
  OBVIOUS
<1> HIDE DEF S
<1>7. /\ first \in Seq(S) /\ Len(first) = HeaderSize /\ HeaderSize = 7
      /\ \A k \in 1 .. 6 : first[k] = header[k]
      /\ first[7] = header
  <2>1. /\ first \in Seq(S) /\ Len(first) = Len(header) + Len(<< header >>)
        /\ \A i \in 1 .. Len(header) + Len(<< header >>) :
             first[i] = IF i <= Len(header) THEN header[i]
                        ELSE << header >>[i - Len(header)]
    BY <1>5, <1>6, Joining
  <2>2. << header >>[7 - 6] = header
    OBVIOUS
  <2> HIDE DEF first
  <2> QED BY <1>4, <1>6, <2>1, <2>2 DEF HeaderSize
<1> HIDE DEF first
<1>8. /\ second \in Seq(S) /\ Len(second) = HeaderSize + Len(body)
      /\ \A k \in 1 .. 7 : second[k] = first[k]
      /\ \A k \in 1 .. Len(body) : second[HeaderSize + k] = body[k]
  <2>1. /\ second \in Seq(S) /\ Len(second) = Len(first) + Len(body)
        /\ \A i \in 1 .. Len(first) + Len(body) :
             second[i] = IF i <= Len(first) THEN first[i]
                         ELSE body[i - Len(first)]
    <3>1. first \in Seq(S) /\ body \in Seq(S)
      BY <1>5, <1>7
    <3> QED BY <3>1, Joining
  <2> HIDE DEF second
  <2>2. \A k \in 1 .. 7 : second[k] = first[k]
    BY <1>3, <1>7, <2>1
  <2>3. ASSUME NEW k \in 1 .. Len(body)
        PROVE  second[HeaderSize + k] = body[k]
    <3>1. /\ HeaderSize + k \in 1 .. Len(first) + Len(body)
          /\ ~(HeaderSize + k <= Len(first)) /\ (HeaderSize + k) - Len(first) = k
      BY <1>3, <1>7
    <3> QED BY <2>1, <3>1
  <2> QED BY <1>7, <2>1, <2>2, <2>3
<1> HIDE DEF second
<1>9. /\ image \in Seq(S) /\ Len(image) = HeaderSize + Len(body) + 1
      /\ \A k \in 1 .. 7 : image[k] = first[k]
      /\ image[Len(image)] = body
      /\ \A k \in 1 .. Len(body) : image[HeaderSize + k] = body[k]
  <2>1. /\ image \in Seq(S) /\ Len(image) = Len(second) + Len(<< body >>)
        /\ \A i \in 1 .. Len(second) + Len(<< body >>) :
             image[i] = IF i <= Len(second) THEN second[i]
                        ELSE << body >>[i - Len(second)]
    BY <1>6, <1>8, Joining
  <2> HIDE DEF image
  <2>2. \A k \in 1 .. 7 : image[k] = first[k]
    BY <1>3, <1>6, <1>7, <1>8, <2>1
  <2>3. ASSUME NEW k \in 1 .. Len(body)
        PROVE  image[HeaderSize + k] = body[k]
    <3>1. /\ HeaderSize + k \in 1 .. Len(second) + Len(<< body >>)
          /\ HeaderSize + k <= Len(second)
      BY <1>3, <1>6, <1>7, <1>8
    <3> QED BY <1>8, <2>1, <3>1
  <2>4. Len(image) = HeaderSize + Len(body) + 1
    BY <1>6, <1>8, <2>1
  <2>5. image[Len(image)] = body
    <3> DEFINE l == Len(image)
    <3>1. /\ l \in 1 .. Len(second) + Len(<< body >>) /\ ~(l <= Len(second))
          /\ l - Len(second) = 1
      BY <1>3, <1>6, <1>7, <1>8, <2>1
    <3>2. << body >>[1] = body
      OBVIOUS
    <3> HIDE DEF l
    <3>3. image[l] = << body >>[l - Len(second)]
      BY <2>1, <3>1
    <3>4. image[l] = body
      BY <3>1, <3>2, <3>3
    <3> QED BY <3>4 DEF l
  <2> QED BY <2>1, <2>2, <2>3, <2>4, <2>5
<1> HIDE DEF image
<1>10. SubSeq(image, HeaderSize + 1, Len(image) - 1) = body
  <2> DEFINE f == HeaderSize + 1
             l == Len(image) - 1
             part == SubSeq(image, f, l)
  <2>1. /\ f \in Int /\ l \in Int /\ f >= 1 /\ l <= Len(image)
        /\ l - f + 1 = Len(body) /\ (f <= l <=> Len(body) # 0)
    BY <1>3, <1>7, <1>9
  <2>2. \A k \in 1 .. Len(body) : f + k - 1 = HeaderSize + k
    BY <1>3, <1>7
  <2> HIDE DEF f, l
  <2>3. \A k \in f .. l : image[k] \in S
    BY <1>9, <2>1
  <2>4. /\ part \in Seq(S)
        /\ Len(part) = IF f <= l THEN l - f + 1 ELSE 0
        /\ \A k \in 1 .. l - f + 1 : part[k] = image[f + k - 1]
    BY <2>1, <2>3, SubSeqProperties
  <2> HIDE DEF part
  <2>5. Len(part) = Len(body)
    BY <1>3, <2>1, <2>4
  <2>6. \A k \in 1 .. Len(part) : part[k] = body[k]
    BY <1>9, <2>1, <2>2, <2>4, <2>5
  <2>7. part = body
    BY <1>5, <2>4, <2>5, <2>6, SameSequence
  <2> QED BY <2>7 DEF part, f, l
<1>11. SubSeq(image, 1, 6) = header
  <2> DEFINE part == SubSeq(image, 1, 6)
  <2>1. Len(image) >= 6 /\ \A k \in 1 .. 6 : image[k] \in S
    BY <1>3, <1>7, <1>9
  <2>2. /\ part \in Seq(S) /\ Len(part) = IF 1 <= 6 THEN 6 - 1 + 1 ELSE 0
        /\ \A k \in 1 .. 6 - 1 + 1 : part[k] = image[1 + k - 1]
    BY <2>1, SubSeqProperties
  <2> HIDE DEF part
  <2>3. Len(part) = Len(header) /\ \A k \in 1 .. Len(part) : part[k] = header[k]
    BY <1>4, <1>7, <1>9, <2>2
  <2>4. part = header
    BY <1>5, <2>2, <2>3, SameSequence
  <2> QED BY <2>4 DEF part
<1>12. /\ image[1] = Magic /\ image[2] = Format /\ image[3] = 1 /\ image[4] = 1
       /\ image[5] = Len(rs) /\ image[6] = Len(body) /\ image[7] = header
  BY <1>4, <1>7, <1>9
<1>13. ASSUME Len(rs) <= MaxRecords, Len(image) <= MaxImage PROVE Framed(image)
  <2>1. /\ Len(image) >= HeaderSize + 1 /\ Len(body) = Len(image) - HeaderSize - 1
        /\ HeaderSize = 7 /\ HeaderSize - 1 = 6
    BY <1>3, <1>7, <1>9
  <2>2. image[HeaderSize] = SubSeq(image, 1, HeaderSize - 1)
    BY <1>11, <1>12, <2>1
  <2>3. image[Len(image)] = SubSeq(image, HeaderSize + 1, Len(image) - 1)
    BY <1>9, <1>10
  <2> QED BY <1>12, <1>13, <2>1, <2>2, <2>3 DEF Framed
<1> QED BY <1>2, <1>3, <1>9, <1>10, <1>12, <1>13 DEF BodyOf, body

(* What is loaded from the image of records is those records. *)
LEMMA LoadsBack ==
  ASSUME NEW Kept, NEW Token, GivesBack(Kept, Token), NEW rs \in Seq(Kept),
         Loads(Serialized(rs))
  PROVE  Loaded(Serialized(rs)) = rs
<1>1. /\ Serialized(rs)[5] = Len(rs)
      /\ BodyOf(Serialized(rs)) = Body(rs)
  BY ImageHolds
<1>2. Parsed(Body(rs), Len(rs)).ok
  BY <1>1 DEF Loads, Whole
<1> QED BY <1>1, <1>2, ReadsBack DEF Loaded

-----------------------------------------------------------------------------
(* What the processes hold.  A save in progress holds the image of records  *)
(* it has copied; the file at the path holds the image of what was saved;   *)
(* a process goes on from its own last save.                                *)

Precedes(old, new) ==
  /\ Len(old) <= Len(new)
  /\ \A i \in 1 .. Len(old) : new[i] = old[i]

HoldsKept(Kept) ==
  /\ \A p \in Pid : ledger[p] \in Seq(Kept)
  /\ \A p \in Pid, t \in Thread : Saving(p, t) =>
       /\ thread[p][t].of \in Seq(Kept)
       /\ thread[p][t].image = Serialized(thread[p][t].of)
  /\ saved.records \in Seq(Kept)

GoesOn ==
  /\ path = None => saved.records = << >>
  /\ \A p \in Pid :
       /\ p \in running /\ saved.by = p => Precedes(saved.records, ledger[p])
       /\ \A t \in Thread : Saving(p, t) =>
            /\ Precedes(thread[p][t].of, ledger[p])
            /\ saved.by = p => Precedes(saved.records, thread[p][t].of)

HeldInv(Kept) == HoldsKept(Kept) /\ LoadsAsSaved /\ GoesOn

LEMMA PrecedesFacts ==
  ASSUME NEW S
  PROVE  /\ \A a \in Seq(S) : Precedes(a, a) /\ Precedes(<< >>, a)
         /\ \A a, b, c \in Seq(S) :
              Precedes(a, b) /\ Precedes(b, c) => Precedes(a, c)
         /\ \A a, b \in Seq(S) : \A r \in S :
              Precedes(a, b) => Precedes(a, Append(b, r))
<1>1. \A a \in Seq(S) : Precedes(a, a) /\ Precedes(<< >>, a)
  BY DEF Precedes
<1>2. ASSUME NEW a \in Seq(S), NEW b \in Seq(S), NEW c \in Seq(S),
             Precedes(a, b), Precedes(b, c)
      PROVE  Precedes(a, c)
  <2>1. Len(a) \in Nat /\ Len(b) \in Nat /\ Len(c) \in Nat
    OBVIOUS
  <2> QED BY <1>2, <2>1 DEF Precedes
<1>3. ASSUME NEW a \in Seq(S), NEW b \in Seq(S), NEW r \in S, Precedes(a, b)
      PROVE  Precedes(a, Append(b, r))
  <2>1. /\ Len(a) \in Nat /\ Len(b) \in Nat /\ Len(Append(b, r)) = Len(b) + 1
        /\ \A i \in 1 .. Len(b) : Append(b, r)[i] = b[i]
    OBVIOUS
  <2> QED BY <1>3, <2>1 DEF Precedes
<1> QED BY <1>1, <1>2, <1>3

LEMMA PrecedesIsPrefix ==
  ASSUME NEW S, NEW a \in Seq(S), NEW b \in Seq(S), Precedes(a, b)
  PROVE  Len(a) <= Len(b) /\ SubSeq(b, 1, Len(a)) = a
<1>1. Len(a) \in Nat /\ Len(b) \in Nat /\ Len(a) <= Len(b)
      /\ \A i \in 1 .. Len(a) : a[i] = b[i]
  BY DEF Precedes
<1> DEFINE n == Len(a)
           part == SubSeq(b, 1, n)
<1>2. \A i \in 1 .. n : b[i] \in S
  BY <1>1
<1> HIDE DEF n
<1>3. /\ part \in Seq(S) /\ Len(part) = IF 1 <= n THEN n - 1 + 1 ELSE 0
      /\ \A i \in 1 .. n - 1 + 1 : part[i] = b[1 + i - 1]
  BY <1>1, <1>2, SubSeqProperties DEF n
<1> HIDE DEF part
<1>4. Len(part) = n /\ \A i \in 1 .. n : part[i] = b[i]
  BY <1>1, <1>3 DEF n
<1>5. part = a
  BY <1>1, <1>3, <1>4, SameSequence DEF n
<1> QED BY <1>1, <1>5 DEF part, n

LEMMA HeldInitially ==
  ASSUME NEW Kept, FileInit
  PROVE  HeldInv(Kept)
<1>1. /\ path = None /\ saved.records = << >> /\ running = { }
      /\ \A p \in Pid : ledger[p] = << >>
      /\ \A p \in Pid, t \in Thread : ~Saving(p, t)
  BY DEF FileInit, Saving, Idle, Holding
<1>2. << >> \in Seq(Kept)
  OBVIOUS
<1> QED BY <1>1, <1>2 DEF HeldInv, HoldsKept, LoadsAsSaved, GoesOn

(* A step that copies nothing and leaves the file alone: the copies stay,   *)
(* and the records in memory are what is loaded, or go on from what they    *)
(* were.                                                                    *)
LEMMA HeldStays ==
  ASSUME NEW Kept, HeldInv(Kept), UNCHANGED << path, saved >>,
         \A q \in Pid : ledger'[q] \in Seq(Kept),
         \A q \in Pid, u \in Thread : Saving(q, u)' =>
           /\ Saving(q, u)
           /\ thread'[q][u].of = thread[q][u].of
           /\ thread'[q][u].image = thread[q][u].image
           /\ Precedes(ledger[q], ledger'[q]),
         \A q \in Pid : q \in running' /\ saved.by = q =>
           Precedes(saved.records, ledger'[q])
  PROVE  HeldInv(Kept)'
<1>1. HoldsKept(Kept)'
  BY DEF HeldInv, HoldsKept
<1>2. LoadsAsSaved'
  BY DEF HeldInv, LoadsAsSaved
<1>3. ASSUME NEW q \in Pid, NEW u \in Thread, Saving(q, u)'
      PROVE  /\ Precedes(thread'[q][u].of, ledger'[q])
             /\ saved.by = q => Precedes(saved.records, thread'[q][u].of)
  <2> DEFINE copy == thread[q][u].of
  <2>1. /\ copy \in Seq(Kept) /\ ledger[q] \in Seq(Kept) /\ ledger'[q] \in Seq(Kept)
        /\ Precedes(copy, ledger[q]) /\ Precedes(ledger[q], ledger'[q])
        /\ thread'[q][u].of = copy
        /\ saved.by = q => Precedes(saved.records, copy)
    BY <1>3 DEF HeldInv, HoldsKept, GoesOn
  <2> HIDE DEF copy
  <2>2. Precedes(copy, ledger'[q])
    BY <2>1, PrecedesFacts
  <2> QED BY <2>1, <2>2
<1>4. GoesOn'
  BY <1>3 DEF HeldInv, GoesOn
<1> QED BY <1>1, <1>2, <1>4 DEF HeldInv

(* Nothing has changed: a record list goes on from itself. *)
LEMMA GoesOnFromItself ==
  ASSUME NEW Kept, HeldInv(Kept), UNCHANGED << running, ledger >>
  PROVE  /\ \A q \in Pid : ledger'[q] \in Seq(Kept) /\ Precedes(ledger[q], ledger'[q])
         /\ \A q \in Pid : q \in running' /\ saved.by = q =>
              Precedes(saved.records, ledger'[q])
  BY PrecedesFacts DEF HeldInv, HoldsKept, GoesOn

LEMMA StartHolds ==
  ASSUME NEW Kept, IInv, HeldInv(Kept), NEW p \in Pid, Start(p)
  PROVE  HeldInv(Kept)'
<1> DEFINE new == IF path = None THEN << >> ELSE Loaded(path)
<1>1. /\ p \notin running /\ running' = running \cup { p }
      /\ ledger' = [ledger EXCEPT ![p] = new]
      /\ UNCHANGED << path, thread, saved >>
  BY DEF Start
<1>2. new = saved.records
  BY DEF HeldInv, LoadsAsSaved, GoesOn
<1> HIDE DEF new
<1>3. /\ ledger'[p] = saved.records
      /\ \A q \in Pid : q # p => ledger'[q] = ledger[q]
  BY <1>1, <1>2 DEF IInv, FileTypeOK
<1>4. /\ saved.records \in Seq(Kept)
      /\ \A q \in Pid : ledger[q] \in Seq(Kept)
  BY DEF HeldInv, HoldsKept
<1>5. /\ Precedes(saved.records, saved.records)
      /\ \A q \in Pid : Precedes(ledger[q], ledger[q])
  BY <1>4, PrecedesFacts
<1>6. \A u \in Thread : ~Saving(p, u)
  BY <1>1 DEF IInv, OnlyRunning, Saving
<1>7. \A q \in Pid, u \in Thread : Saving(q, u)' <=> Saving(q, u)
  BY <1>1 DEF Saving
<1>8. \A q \in Pid, u \in Thread : Saving(q, u)' =>
        /\ Saving(q, u)
        /\ thread'[q][u].of = thread[q][u].of
        /\ thread'[q][u].image = thread[q][u].image
        /\ Precedes(ledger[q], ledger'[q])
  BY <1>1, <1>3, <1>5, <1>6, <1>7
<1>9. \A q \in Pid : q \in running' /\ saved.by = q =>
        Precedes(saved.records, ledger'[q])
  BY <1>1, <1>3, <1>5 DEF HeldInv, GoesOn
<1>10. \A q \in Pid : ledger'[q] \in Seq(Kept)
  BY <1>3, <1>4
<1> QED BY <1>1, <1>8, <1>9, <1>10, HeldStays

LEMMA InitCommandHolds ==
  ASSUME NEW Kept, IInv, HeldInv(Kept), NEW p \in Pid, InitCommand(p)
  PROVE  HeldInv(Kept)'
<1>1. /\ p \notin running /\ running' = running \cup { p }
      /\ path = None
      /\ ledger' = [ledger EXCEPT ![p] = << >>]
      /\ UNCHANGED << path, saved >>
  BY DEF InitCommand
<1>2. /\ ledger'[p] = << >>
      /\ \A q \in Pid : q # p => ledger'[q] = ledger[q]
  BY <1>1 DEF IInv, FileTypeOK
<1>3. /\ \A q \in Pid, t \in Thread : q # p => thread'[q][t] = thread[q][t]
      /\ \A t \in Thread : thread'[p][t].at \in { "idle", "appended" }
  BY DEF InitCommand, IInv, FileTypeOK, Idle, ToSave, Holding
<1>4. /\ << >> \in Seq(Kept) /\ saved.records = << >>
      /\ \A q \in Pid : ledger[q] \in Seq(Kept)
  BY <1>1 DEF HeldInv, HoldsKept, GoesOn
<1>5. /\ Precedes(<< >>, << >>)
      /\ \A q \in Pid : Precedes(ledger[q], ledger[q])
  BY <1>4, PrecedesFacts
<1>6. \A q \in Pid, u \in Thread : Saving(q, u)' =>
        /\ Saving(q, u)
        /\ thread'[q][u].of = thread[q][u].of
        /\ thread'[q][u].image = thread[q][u].image
        /\ Precedes(ledger[q], ledger'[q])
  BY <1>2, <1>3, <1>5 DEF Saving
<1>7. \A q \in Pid : q \in running' /\ saved.by = q =>
        Precedes(saved.records, ledger'[q])
  BY <1>1, <1>2, <1>4, <1>5 DEF HeldInv, GoesOn
<1>8. \A q \in Pid : ledger'[q] \in Seq(Kept)
  BY <1>2, <1>4
<1> QED BY <1>1, <1>6, <1>7, <1>8, HeldStays

LEMMA EndHolds ==
  ASSUME NEW Kept, IInv, HeldInv(Kept), NEW p \in Pid, End(p)
  PROVE  HeldInv(Kept)'
<1>1. /\ running' = running \ { p }
      /\ ledger' = [ledger EXCEPT ![p] = << >>]
      /\ UNCHANGED << path, saved >>
  BY DEF End
<1>2. /\ ledger'[p] = << >>
      /\ \A q \in Pid : q # p => ledger'[q] = ledger[q]
  BY <1>1 DEF IInv, FileTypeOK
<1>3. /\ \A q \in Pid, t \in Thread : q # p => thread'[q][t] = thread[q][t]
      /\ \A t \in Thread : thread'[p][t].at = "idle"
  BY DEF End, IInv, FileTypeOK, Idle, Holding
<1>4. /\ << >> \in Seq(Kept)
      /\ \A q \in Pid : ledger[q] \in Seq(Kept)
  BY DEF HeldInv, HoldsKept
<1>5. \A q \in Pid : Precedes(ledger[q], ledger[q])
  BY <1>4, PrecedesFacts
<1>6. \A q \in Pid, u \in Thread : Saving(q, u)' =>
        /\ Saving(q, u)
        /\ thread'[q][u].of = thread[q][u].of
        /\ thread'[q][u].image = thread[q][u].image
        /\ Precedes(ledger[q], ledger'[q])
  BY <1>2, <1>3, <1>5 DEF Saving
<1>7. \A q \in Pid : q \in running' /\ saved.by = q =>
        Precedes(saved.records, ledger'[q])
  BY <1>1, <1>2 DEF HeldInv, GoesOn
<1>8. \A q \in Pid : ledger'[q] \in Seq(Kept)
  BY <1>2, <1>4
<1> QED BY <1>1, <1>6, <1>7, <1>8, HeldStays

(* A thread goes to save: it holds no image yet. *)
LEMMA OutsideHolds ==
  ASSUME FileTypeOK, NEW p \in Pid, NEW t \in Thread,
         thread' = [thread EXCEPT ![p][t] = ToSave]
  PROVE  \A q \in Pid, u \in Thread : Saving(q, u)' =>
           Saving(q, u) /\ thread'[q][u] = thread[q][u]
<1>1. thread'[p][t].at = "appended"
  BY DEF FileTypeOK, ToSave, Holding
<1>2. \A q \in Pid, u \in Thread :
        q # p \/ u # t => thread'[q][u] = thread[q][u]
  <2> HIDE DEF ToSave
  <2> QED BY OneThreadMoves
<1> QED BY <1>1, <1>2 DEF Saving

LEMMA AppendHolds ==
  ASSUME NEW Kept, NEW Token, GivesBack(Kept, Token), IInv, HeldInv(Kept),
         NEW p \in Pid, NEW t \in Thread, NEW n \in Offered(p, ledger[p]),
         AppendBody(p, t, Catalogue[n])
  PROVE  HeldInv(Kept)'
<1> DEFINE new == Committed(ledger[p], Catalogue[n])
           longer == Append(ledger[p], new)
<1>1. /\ Len(ledger[p]) < MaxRecords /\ Fitting(Catalogue[n])
      /\ ledger' = [ledger EXCEPT ![p] = longer]
      /\ thread' = [thread EXCEPT ![p][t] = ToSave]
      /\ UNCHANGED << path, running, saved >>
  BY DEF AppendBody
<1>2. \A q \in Pid : ledger[q] \in Seq(Kept)
  BY DEF HeldInv, HoldsKept
<1>3. new \in Kept
  BY <1>1, <1>2 DEF GivesBack
<1> HIDE DEF new
<1>4. longer \in Seq(Kept) /\ Precedes(ledger[p], longer)
  BY <1>2, <1>3, PrecedesFacts
<1> HIDE DEF longer
<1>5. /\ ledger'[p] = longer
      /\ \A q \in Pid : q # p => ledger'[q] = ledger[q]
  BY <1>1 DEF IInv, FileTypeOK
<1>6. \A q \in Pid : Precedes(ledger[q], ledger'[q]) /\ ledger'[q] \in Seq(Kept)
  BY <1>2, <1>4, <1>5, PrecedesFacts
<1>7. \A q \in Pid, u \in Thread : Saving(q, u)' =>
        Saving(q, u) /\ thread'[q][u] = thread[q][u]
  BY <1>1, OutsideHolds DEF IInv
<1>8. ASSUME NEW q \in Pid, q \in running', saved.by = q
      PROVE  Precedes(saved.records, ledger'[q])
  <2>1. /\ saved.records \in Seq(Kept)
        /\ Precedes(saved.records, ledger[q])
    BY <1>1, <1>8 DEF HeldInv, HoldsKept, GoesOn
  <2> QED BY <1>2, <1>6, <2>1, PrecedesFacts
<1> QED BY <1>1, <1>6, <1>7, <1>8, HeldStays

(* A copy is taken: of all the records in memory. *)
LEMMA BeginSaveHolds ==
  ASSUME NEW Kept, IInv, HeldInv(Kept), NEW p \in Pid, NEW t \in Thread,
         BeginSave(p, t)
  PROVE  HeldInv(Kept)'
<1> DEFINE new == [ at |-> "check", image |-> Serialized(ledger[p]), of |-> ledger[p] ]
<1>1. /\ thread' = [thread EXCEPT ![p][t] = new]
      /\ UNCHANGED << path, running, ledger, saved >>
      /\ p \in running
  BY DEF BeginSave, IInv, OnlyRunning
<1>2. new.of = ledger[p] /\ new.image = Serialized(ledger[p])
  OBVIOUS
<1> HIDE DEF new
<1>3. /\ thread'[p][t] = new
      /\ \A q \in Pid, u \in Thread :
           q # p \/ u # t => thread'[q][u] = thread[q][u]
  BY <1>1 DEF IInv, FileTypeOK
<1>4. \A q \in Pid : ledger[q] \in Seq(Kept) /\ Precedes(ledger[q], ledger[q])
  BY PrecedesFacts DEF HeldInv, HoldsKept
<1>5. ASSUME NEW q \in Pid, NEW u \in Thread, Saving(q, u)'
      PROVE  /\ thread'[q][u].of \in Seq(Kept)
             /\ thread'[q][u].image = Serialized(thread'[q][u].of)
             /\ Precedes(thread'[q][u].of, ledger[q])
             /\ saved.by = q => Precedes(saved.records, thread'[q][u].of)
  <2>1. CASE q = p /\ u = t
    BY <2>1, <1>1, <1>2, <1>3, <1>4 DEF HeldInv, GoesOn
  <2>2. CASE q # p \/ u # t
    <3>1. thread'[q][u] = thread[q][u] /\ Saving(q, u)
      BY <1>3, <1>5, <2>2 DEF Saving
    <3> QED BY <3>1 DEF HeldInv, HoldsKept, GoesOn
  <2> QED BY <2>1, <2>2
<1>6. HoldsKept(Kept)'
  BY <1>1, <1>5 DEF HeldInv, HoldsKept
<1>7. LoadsAsSaved' /\ GoesOn'
  BY <1>1, <1>5 DEF HeldInv, LoadsAsSaved, GoesOn
<1> QED BY <1>6, <1>7 DEF HeldInv

LEMMA MovedHolds ==
  ASSUME NEW Kept, IInv, HeldInv(Kept), NEW p \in Pid, NEW t \in Thread, NEW at,
         Saving(p, t), thread' = Moved(p, t, at),
         UNCHANGED << path, running, ledger, saved >>
  PROVE  HeldInv(Kept)'
<1> DEFINE new == [ at |-> at, image |-> thread[p][t].image, of |-> thread[p][t].of ]
<1>1. thread' = [thread EXCEPT ![p][t] = new]
  BY DEF Moved
<1>2. new.of = thread[p][t].of /\ new.image = thread[p][t].image
  OBVIOUS
<1> HIDE DEF new
<1>3. /\ thread'[p][t] = new
      /\ \A q \in Pid, u \in Thread :
           q # p \/ u # t => thread'[q][u] = thread[q][u]
  BY <1>1 DEF IInv, FileTypeOK
<1>4. \A q \in Pid, u \in Thread : Saving(q, u)' =>
        /\ Saving(q, u)
        /\ thread'[q][u].of = thread[q][u].of
        /\ thread'[q][u].image = thread[q][u].image
  BY <1>2, <1>3 DEF Saving
<1> QED BY <1>4, HeldStays, GoesOnFromItself

LEMMA ReturnHolds ==
  ASSUME NEW Kept, IInv, HeldInv(Kept), NEW p \in Pid, NEW t \in Thread,
         Saving(p, t), Return(p, t), DOMAIN temp' = Pid,
         UNCHANGED << path, running, ledger, runs, saved >>
  PROVE  HeldInv(Kept)'
<1>1. /\ \A u \in Thread : ~Saving(p, u)'
      /\ \A q \in Pid, u \in Thread : q # p => thread'[q][u] = thread[q][u]
  BY ReturningFreesLock DEF IInv
<1>2. \A q \in Pid, u \in Thread : Saving(q, u)' =>
        /\ Saving(q, u)
        /\ thread'[q][u].of = thread[q][u].of
        /\ thread'[q][u].image = thread[q][u].image
  BY <1>1 DEF Saving
<1> QED BY <1>2, HeldStays, GoesOnFromItself

(* What a rename puts at the path is the whole image of the copy its thread *)
(* took, and goes on from what the same process saved before.               *)
LEMMA RenameFacts ==
  ASSUME NEW Kept, IInv, HeldInv(Kept), NEW p \in Pid, NEW t \in Thread,
         Rename(p, t)
  PROVE  /\ Saving(p, t)
         /\ path' = Serialized(thread[p][t].of) /\ Loads(path')
         /\ saved' = [ by |-> p, records |-> thread[p][t].of ]
         /\ thread[p][t].of \in Seq(Kept) /\ saved.records \in Seq(Kept)
         /\ Precedes(thread[p][t].of, ledger[p])
         /\ saved.by = p => Precedes(saved.records, thread[p][t].of)
<1>1. Saving(p, t) /\ path' = thread[p][t].image /\ Loads(path')
  BY DEF Rename, Saving, IInv, ImagesChecked, WholeAtRename
<1> QED BY <1>1 DEF Rename, HeldInv, HoldsKept, GoesOn

LEMMA RenameHolds ==
  ASSUME NEW Kept, NEW Token, GivesBack(Kept, Token), IInv, HeldInv(Kept),
         NEW p \in Pid, NEW t \in Thread, Rename(p, t)
  PROVE  HeldInv(Kept)'
<1> DEFINE copy == thread[p][t].of
<1>1. /\ Saving(p, t) /\ path' = Serialized(copy) /\ Loads(path')
      /\ saved'.by = p /\ saved'.records = copy
      /\ copy \in Seq(Kept) /\ Precedes(copy, ledger[p])
  BY RenameFacts
<1>2. Return(p, t) /\ UNCHANGED << running, ledger, runs >> /\ DOMAIN temp' = Pid
  BY DEF Rename, IInv, FileTypeOK
<1>3. /\ \A u \in Thread : ~Saving(p, u)'
      /\ \A q \in Pid, u \in Thread : q # p => thread'[q][u] = thread[q][u]
  BY <1>1, <1>2, ReturningFreesLock DEF IInv
<1> HIDE DEF copy
<1>4. \A q \in Pid, u \in Thread : Saving(q, u)' =>
        q # p /\ Saving(q, u) /\ thread'[q][u] = thread[q][u]
  BY <1>3 DEF Saving
<1>5. HoldsKept(Kept)'
  BY <1>1, <1>2, <1>4 DEF HeldInv, HoldsKept
<1>6. LoadsAsSaved'
  <2>1. Loads(Serialized(copy))
    BY <1>1
  <2>2. Loaded(Serialized(copy)) = copy
    BY <1>1, <2>1, LoadsBack
  <2> QED BY <1>1, <2>2 DEF LoadsAsSaved
<1>7. GoesOn'
  <2>1. path' # None
    BY <1>1 DEF GivesBack
  <2> QED BY <1>1, <1>2, <1>4, <2>1 DEF HeldInv, GoesOn
<1> QED BY <1>5, <1>6, <1>7 DEF HeldInv

LEMMA SaveStepHolds ==
  ASSUME NEW Kept, NEW Token, GivesBack(Kept, Token), IInv, HeldInv(Kept),
         NEW p \in Pid, NEW t \in Thread, SaveStep(p, t)
  PROVE  HeldInv(Kept)'
<1>1. CASE Persist(p, t)
  <2>1. \A q \in Pid, u \in Thread : Saving(q, u)' =>
          Saving(q, u) /\ thread'[q][u] = thread[q][u]
    BY <1>1, OutsideHolds DEF Persist, IInv
  <2>2. UNCHANGED << path, running, ledger, saved >>
    BY <1>1 DEF Persist
  <2> QED BY <2>1, <2>2, HeldStays, GoesOnFromItself
<1>2. CASE BeginSave(p, t)
  BY <1>2, BeginSaveHolds
<1>3. CASE Check(p, t)
  <2>1. /\ Saving(p, t) /\ DOMAIN temp' = Pid
        /\ UNCHANGED << path, running, ledger, runs, saved >>
    BY <1>3 DEF Check, Saving, IInv, FileTypeOK
  <2>2. CASE thread' = Moved(p, t, "open")
    BY <2>1, <2>2, MovedHolds
  <2>3. CASE Return(p, t)
    BY <2>1, <2>3, ReturnHolds
  <2> QED BY <1>3, <2>2, <2>3 DEF Check
<1>4. CASE Open(p, t) \/ WriteSome(p, t) \/ WriteRest(p, t)
  <2>1. /\ Saving(p, t) /\ UNCHANGED << path, running, ledger, saved >>
        /\ \E at : thread' = Moved(p, t, at)
    BY <1>4 DEF Open, WriteSome, WriteRest, Saving
  <2> QED BY <2>1, MovedHolds
<1>5. CASE CannotOpen(p, t) \/ CannotReplace(p, t)
  <2>1. /\ Saving(p, t) /\ Return(p, t) /\ DOMAIN temp' = Pid
        /\ UNCHANGED << path, running, ledger, runs, saved >>
    BY <1>5 DEF CannotOpen, CannotReplace, Saving, IInv, FileTypeOK
  <2> QED BY <2>1, ReturnHolds
<1>6. CASE Rename(p, t)
  BY <1>6, RenameHolds
<1> QED BY <1>1, <1>2, <1>3, <1>4, <1>5, <1>6 DEF SaveStep

LEMMA FileStepHolds ==
  ASSUME NEW Kept, NEW Token, GivesBack(Kept, Token), IInv, HeldInv(Kept),
         [FileNext]_fileVars
  PROVE  HeldInv(Kept)'
<1>1. CASE UNCHANGED fileVars
  <2>1. /\ UNCHANGED << path, running, ledger, saved >>
        /\ \A q \in Pid, u \in Thread : Saving(q, u)' =>
             Saving(q, u) /\ thread'[q][u] = thread[q][u]
    BY <1>1 DEF fileVars, Saving
  <2> QED BY <2>1, HeldStays, GoesOnFromItself
<1>2. CASE FileNext
  <2>1. PICK p \in Pid :
          \/ Start(p) \/ InitCommand(p) \/ End(p)
          \/ \E t \in Threads(p) :
               \/ SaveStep(p, t)
               \/ \E n \in Offered(p, ledger[p]) : AppendBody(p, t, Catalogue[n])
    BY <1>2 DEF FileNext
  <2>2. CASE \E t \in Threads(p), n \in Offered(p, ledger[p]) : AppendBody(p, t, Catalogue[n])
    BY <2>2, ThreadsAssumption, AppendHolds
  <2>3. CASE \E t \in Threads(p) : SaveStep(p, t)
    BY <2>3, ThreadsAssumption, SaveStepHolds
  <2> QED BY <2>1, <2>2, <2>3, StartHolds, InitCommandHolds, EndHolds
<1> QED BY <1>1, <1>2

-----------------------------------------------------------------------------
(* With a codec that gives back what it is given, whoever loads the file at *)
(* the path gets exactly the records of the ledger that wrote it, whatever  *)
(* failed, died or saved to the same path in between.                       *)
THEOREM SavesReproduce ==
  ASSUME NEW Kept, NEW Token, GivesBack(Kept, Token)
  PROVE  FileSpec => []LoadsAsSaved
<1>1. FileInit => HeldInv(Kept)
  BY HeldInitially
<1>2. IInv /\ HeldInv(Kept) /\ [FileNext]_fileVars => HeldInv(Kept)'
  BY FileStepHolds
<1>3. HeldInv(Kept) => LoadsAsSaved
  BY DEF HeldInv
<1> QED BY <1>1, <1>2, <1>3, FileInvariant, PTL DEF FileSpec

(* A process never puts an older state of its ledger over a newer one it    *)
(* saved, even across a restart from its own file.                          *)
THEOREM OwnSavesOnlyGrow ==
  ASSUME NEW Kept, NEW Token, GivesBack(Kept, Token)
  PROVE  FileSpec => OwnSavesGrow
<1> DEFINE Grows == path' # path /\ saved'.by = saved.by =>
             /\ Len(saved.records) <= Len(saved'.records)
             /\ SubSeq(saved'.records, 1, Len(saved.records)) = saved.records
<1>1. FileInit => HeldInv(Kept)
  BY HeldInitially
<1>2. IInv /\ HeldInv(Kept) /\ [FileNext]_fileVars => HeldInv(Kept)'
  BY FileStepHolds
<1>3. IInv /\ HeldInv(Kept) /\ [FileNext]_fileVars => [Grows]_fileVars
  <2> SUFFICES ASSUME IInv, HeldInv(Kept), FileNext, path' # path, saved'.by = saved.by
               PROVE  /\ Len(saved.records) <= Len(saved'.records)
                      /\ SubSeq(saved'.records, 1, Len(saved.records)) = saved.records
    OBVIOUS
  <2>1. \E p \in Pid, t \in Thread : Rename(p, t)
    <3>1. PICK p \in Pid :
            \/ Start(p) \/ InitCommand(p) \/ End(p)
            \/ \E t \in Threads(p) :
                 \/ SaveStep(p, t)
                 \/ \E n \in Offered(p, ledger[p]) : AppendBody(p, t, Catalogue[n])
      BY DEF FileNext
    <3>2. ~(Start(p) \/ InitCommand(p) \/ End(p))
      BY DEF Start, InitCommand, End
    <3>3. \A t, body : ~AppendBody(p, t, body)
      BY DEF AppendBody
    <3>4. ASSUME NEW t, SaveStep(p, t) PROVE Rename(p, t)
      BY <3>4 DEF SaveStep, Persist, BeginSave, Check, Open, CannotOpen, WriteSome,
                  WriteRest, CannotReplace
    <3> QED BY <3>1, <3>2, <3>3, <3>4, ThreadsAssumption
  <2>2. PICK p \in Pid, t \in Thread : Rename(p, t)
    BY <2>1
  <2> DEFINE copy == thread[p][t].of
  <2>3. /\ saved'.by = p /\ saved'.records = copy
        /\ copy \in Seq(Kept) /\ saved.records \in Seq(Kept)
        /\ saved.by = p => Precedes(saved.records, copy)
    BY <2>2, RenameFacts
  <2> HIDE DEF copy
  <2>4. Precedes(saved.records, copy)
    BY <2>3
  <2> QED BY <2>3, <2>4, PrecedesIsPrefix
<1> QED BY <1>1, <1>2, <1>3, FileInvariant, PTL DEF FileSpec, OwnSavesGrow
-----------------------------------------------------------------------------
(* What a ledger is: its records are contiguous, of this generation, with   *)
(* the digests of their payloads and of the chain up to them.  This is what *)
(* a load checks of every record, and what every append keeps.              *)

ChainBefore(rs, i) == IF i = 1 THEN << >> ELSE rs[i - 1].header.chain_digest

Linked(rs) ==
  /\ Len(rs) <= MaxRecords
  /\ \A i \in 1 .. Len(rs) : Genuine(rs[i], i, ChainBefore(rs, i))

(* The chain over the headers of records. *)
Chains(rs, m, g) ==
  g = [ i \in 0 .. m |-> IF i = 0 THEN << >> ELSE NextChain(g[i - 1], rs[i].header) ]

LEMMA ChainCanBeBuilt ==
  ASSUME NEW rs, NEW n \in Nat
  PROVE  \E g : Chains(rs, n, g)
<1> DEFINE M == { m \in Nat : \E g : Chains(rs, m, g) }
<1>1. 0 \in M
  <2>1. Chains(rs, 0, [ i \in 0 .. 0 |-> << >> ])
    BY DEF Chains
  <2> QED BY <2>1
<1>2. ASSUME NEW m \in Nat, m \in M PROVE m + 1 \in M
  <2>1. PICK g : Chains(rs, m, g)
    BY <1>2
  <2> DEFINE h == [ i \in 0 .. m + 1 |->
                      IF i <= m THEN g[i] ELSE NextChain(g[m], rs[m + 1].header) ]
  <2>2. \A i \in 0 .. m :
          g[i] = IF i = 0 THEN << >> ELSE NextChain(g[i - 1], rs[i].header)
    <3> HIDE DEF h
    <3> QED BY <2>1 DEF Chains
  <2>3. \A i \in 0 .. m + 1 :
          h[i] = IF i = 0 THEN << >> ELSE NextChain(h[i - 1], rs[i].header)
    <3> SUFFICES ASSUME NEW i \in 0 .. m + 1
                 PROVE  h[i] = IF i = 0 THEN << >>
                               ELSE NextChain(h[i - 1], rs[i].header)
      OBVIOUS
    <3>1. CASE i = 0
      BY <2>2, <3>1
    <3>2. CASE i # 0 /\ i <= m
      <4>1. h[i] = g[i] /\ h[i - 1] = g[i - 1] /\ i \in 0 .. m
        BY <3>2
      <4> QED BY <2>2, <3>2, <4>1
    <3>3. CASE i = m + 1
      <4>1. h[i] = NextChain(g[m], rs[m + 1].header) /\ h[i - 1] = g[m]
        BY <3>3
      <4> QED BY <3>3, <4>1
    <3> QED BY <3>1, <3>2, <3>3
  <2>4. h = [ i \in 0 .. m + 1 |-> h[i] ]
    OBVIOUS
  <2> HIDE DEF h
  <2>5. Chains(rs, m + 1, h)
    BY <2>3, <2>4 DEF Chains
  <2> QED BY <2>5
<1> HIDE DEF M
<1>3. Nat \subseteq M
  BY <1>1, <1>2, Induction
<1> QED BY <1>3 DEF M

Unchained(rs, body) ==
  [ sequence |-> Len(rs) + 1, type |-> body.type, record_id |-> Len(rs) + 1,
    ledger |-> 1, epoch |-> 1, worker |-> 1, worker_boot |-> 1,
    committed_at |-> 0, provenance |-> 1, payload_digest |-> Payload(body),
    chain_digest |-> << >> ]

LEMMA CommittedChain ==
  ASSUME NEW rs, NEW body, Len(rs) \in Nat
  PROVE  \E g : /\ Chains(rs, Len(rs), g)
                /\ Committed(rs, body) =
                     [ header |-> [ Unchained(rs, body) EXCEPT !.chain_digest =
                                      NextChain(g[Len(rs)], Unchained(rs, body)) ],
                       body |-> body ]
<1> DEFINE n == Len(rs)
           chain[i \in 0 .. n] ==
             IF i = 0 THEN << >> ELSE NextChain(chain[i - 1], rs[i].header)
<1>1. Committed(rs, body) =
        [ header |-> [ Unchained(rs, body) EXCEPT !.chain_digest =
                         NextChain(chain[n], Unchained(rs, body)) ],
          body |-> body ]
  BY DEF Committed, Unchained
<1>2. chain = CHOOSE g : Chains(rs, n, g)
  BY DEF Chains
<1> HIDE DEF chain
<1>3. \E g : Chains(rs, n, g)
  BY ChainCanBeBuilt
<1>4. Chains(rs, n, chain)
  BY <1>2, <1>3
<1> QED BY <1>1, <1>4

(* The chain over linked records is in their last header. *)
LEMMA ChainOfLinked ==
  ASSUME NEW Kept, NEW rs \in Seq(Kept), Linked(rs), NEW g, Chains(rs, Len(rs), g)
  PROVE  g[Len(rs)] = ChainBefore(rs, Len(rs) + 1)
<1> DEFINE n == Len(rs)
           M == { m \in Nat : m <= n => g[m] = ChainBefore(rs, m + 1) }
<1>1. n \in Nat
  OBVIOUS
<1>2. g[0] = << >> /\ \A i \in 1 .. n : g[i] = NextChain(g[i - 1], rs[i].header)
  <2> HIDE DEF n
  <2>1. g = [ i \in 0 .. n |-> IF i = 0 THEN << >> ELSE NextChain(g[i - 1], rs[i].header) ]
    BY DEF Chains, n
  <2> QED BY <1>1, <2>1
<1>3. \A i \in 1 .. n : rs[i].header.chain_digest = NextChain(ChainBefore(rs, i), rs[i].header)
  BY DEF Linked, Genuine
<1> HIDE DEF n
<1>4. 0 \in M
  BY <1>2 DEF ChainBefore
<1>5. ASSUME NEW m \in Nat, m \in M PROVE m + 1 \in M
  <2>1. SUFFICES ASSUME m + 1 <= n PROVE g[m + 1] = ChainBefore(rs, (m + 1) + 1)
    OBVIOUS
  <2> DEFINE i == m + 1
  <2>2. i \in 1 .. n /\ i - 1 = m /\ g[m] = ChainBefore(rs, i) /\ i + 1 # 1 /\ (i + 1) - 1 = i
    BY <1>1, <1>5, <2>1
  <2> HIDE DEF i
  <2>3. g[i] = NextChain(ChainBefore(rs, i), rs[i].header)
    BY <1>2, <2>2
  <2>4. g[i] = ChainBefore(rs, i + 1)
    BY <1>3, <2>2, <2>3 DEF ChainBefore
  <2> QED BY <2>4 DEF i
<1> HIDE DEF M
<1>6. Nat \subseteq M
  BY <1>4, <1>5, Induction
<1> QED BY <1>1, <1>6 DEF M, n

(* What is committed links to what was. *)
LEMMA CommittedLinks ==
  ASSUME NEW Kept, NEW rs \in Seq(Kept), Linked(rs), Len(rs) < MaxRecords, NEW body,
         Committed(rs, body) \in Kept
  PROVE  Linked(Append(rs, Committed(rs, body)))
<1> DEFINE n == Len(rs)
           u == Unchained(rs, body)
           new == Committed(rs, body)
           longer == Append(rs, new)
<1>1. n \in Nat /\ n < MaxRecords /\ MaxRecords \in Nat
  BY BoundsAssumption
<1>2. PICK g : /\ Chains(rs, n, g)
               /\ new = [ header |-> [ u EXCEPT !.chain_digest = NextChain(g[n], u) ],
                          body |-> body ]
  BY <1>1, CommittedChain
<1>3. g[n] = ChainBefore(rs, n + 1)
  BY <1>2, ChainOfLinked
<1> DEFINE before == ChainBefore(rs, n + 1)
           link == NextChain(before, u)
<1>4. new = [ header |-> [ u EXCEPT !.chain_digest = link ], body |-> body ]
  BY <1>2, <1>3
<1> HIDE DEF link, before
<1>5. /\ new.header.sequence = n + 1 /\ new.header.ledger = 1
      /\ new.header.payload_digest = Payload(new.body)
      /\ new.header.chain_digest = link
      /\ NextChain(before, new.header) = NextChain(before, u)
  <2> HIDE DEF new, n
  <2> QED BY <1>4 DEF Unchained, NextChain, n
<1>6. Genuine(new, n + 1, before)
  BY <1>5 DEF Genuine, link
<1> HIDE DEF new, u
<1>7. /\ Len(longer) = n + 1 /\ longer[n + 1] = new
      /\ \A i \in 1 .. n : longer[i] = rs[i]
  BY DEF new
<1> HIDE DEF longer, n
<1>8. ASSUME NEW i \in 1 .. n + 1 PROVE Genuine(longer[i], i, ChainBefore(longer, i))
  <2>1. ChainBefore(longer, i) = ChainBefore(rs, i)
    <3>1. i = 1 \/ i - 1 \in 1 .. n
      BY <1>1
    <3> QED BY <1>7, <3>1 DEF ChainBefore
  <2>2. CASE i = n + 1
    BY <1>6, <1>7, <2>1, <2>2 DEF before
  <2>3. CASE i \in 1 .. n
    BY <1>7, <2>1, <2>3 DEF Linked, n
  <2> QED BY <1>1, <2>2, <2>3
<1>9. Len(longer) <= MaxRecords
  BY <1>1, <1>7
<1> QED BY <1>7, <1>8, <1>9 DEF Linked, longer, new

(* What is in memory, what is being saved and what was saved is linked.     *)
LinkedInv ==
  /\ \A p \in Pid : Linked(ledger[p])
  /\ \A p \in Pid, t \in Thread : Saving(p, t) => Linked(thread[p][t].of)
  /\ Linked(saved.records)

(* How a step moves records: memory is emptied, loaded, left alone or       *)
(* appended to; a copy is kept or taken from memory; a copy may become what *)
(* was saved.                                                               *)
MemoryMoves(q) ==
  \/ ledger'[q] \in { ledger[q], << >>, saved.records }
  \/ \E n \in Offered(q, ledger[q]) :
       /\ Len(ledger[q]) < MaxRecords /\ Fitting(Catalogue[n])
       /\ ledger'[q] = Append(ledger[q], Committed(ledger[q], Catalogue[n]))

CopyMoves(q, u) ==
  Saving(q, u)' =>
    \/ Saving(q, u) /\ thread'[q][u].of = thread[q][u].of
    \/ thread'[q][u].of = ledger[q]

SavedMoves ==
  \/ saved' = saved
  \/ \E q \in Pid, u \in Thread : Saving(q, u) /\ saved'.records = thread[q][u].of

RecordsMove ==
  /\ \A q \in Pid : MemoryMoves(q)
  /\ \A q \in Pid, u \in Thread : CopyMoves(q, u)
  /\ SavedMoves

LEMMA MoveKeepsLinks ==
  ASSUME NEW Kept, NEW Token, GivesBack(Kept, Token), HoldsKept(Kept), LinkedInv,
         RecordsMove
  PROVE  LinkedInv'
<1>1. Linked(<< >>)
  BY BoundsAssumption DEF Linked
<1>2. ASSUME NEW q \in Pid PROVE Linked(ledger'[q])
  <2>1. CASE ledger'[q] \in { ledger[q], << >>, saved.records }
    BY <1>1, <2>1 DEF LinkedInv
  <2>2. ASSUME NEW n \in Offered(q, ledger[q]),
               Len(ledger[q]) < MaxRecords, Fitting(Catalogue[n]),
               ledger'[q] = Append(ledger[q], Committed(ledger[q], Catalogue[n]))
        PROVE  Linked(ledger'[q])
    <3>1. ledger[q] \in Seq(Kept) /\ Linked(ledger[q])
      BY DEF HoldsKept, LinkedInv
    <3>2. Committed(ledger[q], Catalogue[n]) \in Kept
      BY <2>2, <3>1 DEF GivesBack
    <3> QED BY <2>2, <3>1, <3>2, CommittedLinks
  <2> QED BY <2>1, <2>2 DEF RecordsMove, MemoryMoves
<1>3. \A q \in Pid, u \in Thread : Saving(q, u)' => Linked(thread'[q][u].of)
  BY DEF RecordsMove, CopyMoves, LinkedInv
<1>4. Linked(saved'.records)
  BY DEF RecordsMove, SavedMoves, LinkedInv
<1> QED BY <1>2, <1>3, <1>4 DEF LinkedInv

(* A step of a save moves records so. *)
LEMMA SaveStepMoves ==
  ASSUME IInv, NEW p \in Pid, NEW t \in Thread, SaveStep(p, t)
  PROVE  RecordsMove
<1>1. ledger' = ledger
  BY DEF SaveStep, Persist, BeginSave, Check, Open, CannotOpen, WriteSome, WriteRest,
         CannotReplace, Rename
<1>2. \A q \in Pid : MemoryMoves(q)
  BY <1>1 DEF MemoryMoves
<1>3. SavedMoves
  <2>1. CASE Rename(p, t)
    <3>1. Saving(p, t) /\ saved'.records = thread[p][t].of
      BY <2>1 DEF Rename, Saving
    <3> QED BY <3>1 DEF SavedMoves
  <2>2. CASE ~Rename(p, t)
    BY <2>2 DEF SaveStep, Persist, BeginSave, Check, Open, CannotOpen, WriteSome,
                WriteRest, CannotReplace, SavedMoves
  <2> QED BY <2>1, <2>2
<1>4. FileTypeOK
  BY DEF IInv
<1>5. ASSUME NEW new, thread' = [thread EXCEPT ![p][t] = new],
             \/ new.at = "appended"
             \/ new.of = ledger[p]
             \/ Saving(p, t) /\ new.of = thread[p][t].of
      PROVE  \A q \in Pid, u \in Thread : CopyMoves(q, u)
  <2>1. /\ thread'[p][t] = new
        /\ \A q \in Pid, u \in Thread : q # p \/ u # t => thread'[q][u] = thread[q][u]
    BY <1>4, <1>5 DEF FileTypeOK
  <2> QED BY <1>5, <2>1 DEF CopyMoves, Saving
<1>6. ASSUME Saving(p, t), Return(p, t) PROVE \A q \in Pid, u \in Thread : CopyMoves(q, u)
  <2>1. DOMAIN temp' = Pid /\ runs' = runs
    BY <1>4 DEF SaveStep, Persist, BeginSave, Check, Open, CannotOpen, WriteSome,
                WriteRest, CannotReplace, Rename, FileTypeOK
  <2>2. UNCHANGED << running, ledger, runs >>
    BY DEF SaveStep, Persist, BeginSave, Check, Open, CannotOpen, WriteSome,
           WriteRest, CannotReplace, Rename
  <2>3. /\ \A u \in Thread : ~Saving(p, u)'
        /\ \A q \in Pid, u \in Thread : q # p => thread'[q][u] = thread[q][u]
    BY <1>4, <1>6, <2>1, <2>2, ReturningFreesLock
  <2> QED BY <2>3 DEF CopyMoves, Saving
<1>7. \A q \in Pid, u \in Thread : CopyMoves(q, u)
  <2>1. CASE Persist(p, t)
    <3>1. thread' = [thread EXCEPT ![p][t] = ToSave] /\ ToSave.at = "appended"
      BY <2>1 DEF Persist, ToSave, Holding
    <3> HIDE DEF ToSave
    <3> QED BY <1>5, <3>1
  <2>2. CASE BeginSave(p, t)
    <3> DEFINE new == [ at |-> "check", image |-> Serialized(ledger[p]), of |-> ledger[p] ]
    <3>1. thread' = [thread EXCEPT ![p][t] = new] /\ new.of = ledger[p]
      BY <2>2 DEF BeginSave
    <3> HIDE DEF new
    <3> QED BY <1>5, <3>1
  <2>3. ASSUME NEW at, Saving(p, t), thread' = Moved(p, t, at)
        PROVE  \A q \in Pid, u \in Thread : CopyMoves(q, u)
    <3> DEFINE new == [ at |-> at, image |-> thread[p][t].image, of |-> thread[p][t].of ]
    <3>1. thread' = [thread EXCEPT ![p][t] = new] /\ new.of = thread[p][t].of
      BY <2>3 DEF Moved
    <3> HIDE DEF new
    <3> QED BY <1>5, <2>3, <3>1
  <2>4. CASE Check(p, t)
    <3>1. Saving(p, t) /\ (thread' = Moved(p, t, "open") \/ Return(p, t))
      BY <2>4 DEF Check, Saving
    <3> QED BY <1>6, <2>3, <3>1
  <2>5. CASE Open(p, t) \/ WriteSome(p, t) \/ WriteRest(p, t)
    <3>1. Saving(p, t) /\ \E at : thread' = Moved(p, t, at)
      BY <2>5 DEF Open, WriteSome, WriteRest, Saving
    <3> QED BY <2>3, <3>1
  <2>6. CASE CannotOpen(p, t) \/ CannotReplace(p, t) \/ Rename(p, t)
    <3>1. Saving(p, t) /\ Return(p, t)
      BY <2>6 DEF CannotOpen, CannotReplace, Rename, Saving
    <3> QED BY <1>6, <3>1
  <2> QED BY <2>1, <2>2, <2>4, <2>5, <2>6 DEF SaveStep
<1> QED BY <1>2, <1>3, <1>7 DEF RecordsMove

LEMMA FileStepMoves ==
  ASSUME NEW Kept, IInv, HeldInv(Kept), [FileNext]_fileVars
  PROVE  RecordsMove
<1>1. FileTypeOK
  BY DEF IInv
<1>2. CASE UNCHANGED fileVars
  BY <1>2 DEF fileVars, RecordsMove, MemoryMoves, CopyMoves, SavedMoves, Saving
<1>3. ASSUME NEW p \in Pid, NEW new, ledger' = [ledger EXCEPT ![p] = new],
             new \in { << >>, saved.records }
      PROVE  \A q \in Pid : MemoryMoves(q)
  BY <1>1, <1>3 DEF FileTypeOK, MemoryMoves
<1>4. ASSUME NEW p \in Pid, Start(p) PROVE RecordsMove
  <2> DEFINE new == IF path = None THEN << >> ELSE Loaded(path)
  <2>1. ledger' = [ledger EXCEPT ![p] = new] /\ UNCHANGED << thread, saved >>
    BY <1>4 DEF Start
  <2>2. new = saved.records
    BY DEF HeldInv, LoadsAsSaved, GoesOn
  <2> HIDE DEF new
  <2>3. \A q \in Pid : MemoryMoves(q)
    BY <1>3, <2>1, <2>2
  <2> QED BY <2>1, <2>3 DEF RecordsMove, CopyMoves, SavedMoves, Saving
<1>5. ASSUME NEW p \in Pid, InitCommand(p) \/ End(p) PROVE RecordsMove
  <2>1. ledger' = [ledger EXCEPT ![p] = << >>] /\ saved' = saved
    BY <1>5 DEF InitCommand, End
  <2>2. \A q \in Pid : MemoryMoves(q)
    BY <1>3, <2>1
  <2>3. /\ \A q \in Pid, u \in Thread : q # p => thread'[q][u] = thread[q][u]
        /\ \A u \in Thread : thread'[p][u].at \in { "idle", "appended" }
    BY <1>1, <1>5 DEF InitCommand, End, FileTypeOK, Idle, ToSave, Holding
  <2> QED BY <2>1, <2>2, <2>3 DEF RecordsMove, CopyMoves, SavedMoves, Saving
<1>6. ASSUME NEW p \in Pid, NEW t \in Thread, NEW n \in Offered(p, ledger[p]),
             AppendBody(p, t, Catalogue[n])
      PROVE  RecordsMove
  <2> DEFINE longer == Append(ledger[p], Committed(ledger[p], Catalogue[n]))
  <2>1. /\ Len(ledger[p]) < MaxRecords /\ Fitting(Catalogue[n])
        /\ ledger' = [ledger EXCEPT ![p] = longer]
        /\ thread' = [thread EXCEPT ![p][t] = ToSave] /\ saved' = saved
    BY <1>6 DEF AppendBody
  <2>2. \A q \in Pid, u \in Thread : Saving(q, u)' =>
          Saving(q, u) /\ thread'[q][u] = thread[q][u]
    BY <1>1, <2>1, OutsideHolds
  <2>3. /\ ledger'[p] = longer
        /\ \A q \in Pid : q # p => ledger'[q] = ledger[q]
    BY <1>1, <2>1 DEF FileTypeOK
  <2>4. \A q \in Pid : MemoryMoves(q)
    BY <2>1, <2>3 DEF MemoryMoves
  <2> QED BY <2>1, <2>2, <2>4 DEF RecordsMove, CopyMoves, SavedMoves
<1>7. CASE FileNext
  <2>1. PICK p \in Pid :
          \/ Start(p) \/ InitCommand(p) \/ End(p)
          \/ \E t \in Threads(p) :
               \/ SaveStep(p, t)
               \/ \E n \in Offered(p, ledger[p]) : AppendBody(p, t, Catalogue[n])
    BY <1>7 DEF FileNext
  <2>2. CASE \E t \in Threads(p), n \in Offered(p, ledger[p]) : AppendBody(p, t, Catalogue[n])
    BY <1>6, <2>2, ThreadsAssumption
  <2>3. CASE \E t \in Threads(p) : SaveStep(p, t)
    BY <2>3, ThreadsAssumption, SaveStepMoves
  <2> QED BY <1>4, <1>5, <2>1, <2>2, <2>3
<1> QED BY <1>2, <1>7

LEMMA LinkedInitially == FileInit => LinkedInv
<1>1. SUFFICES ASSUME FileInit PROVE LinkedInv
  OBVIOUS
<1>2. /\ saved.records = << >> /\ \A p \in Pid : ledger[p] = << >>
      /\ \A p \in Pid, t \in Thread : ~Saving(p, t)
  BY <1>1 DEF FileInit, Saving, Idle, Holding
<1>3. Linked(<< >>)
  BY BoundsAssumption DEF Linked
<1> QED BY <1>2, <1>3 DEF LinkedInv

(* The image of linked records loads, if each of them can be decoded: the   *)
(* reader finds each encoding whole, and the record in it is genuine.       *)
Decodable(rs) == \A i \in 1 .. Len(rs) : Decoded(Encoded(rs[i])).ok

LEMMA LinkedIsParsed ==
  ASSUME NEW Kept, NEW Token, GivesBack(Kept, Token), NEW rs \in Seq(Kept),
         Linked(rs), Decodable(rs)
  PROVE  Whole(Body(rs), Parsed(Body(rs), Len(rs)))
<1> DEFINE n == Len(rs)
           body == Body(rs)
<1>1. n \in Nat /\ \A i \in 1 .. n : rs[i] \in Kept
  OBVIOUS
<1>2. PICK g : Reads(body, n, g) /\ Parsed(body, n) = g[n]
  BY <1>1, BodyIsRead
<1>3. /\ g[0] = Unread
      /\ \A i \in 1 .. n : g[i] = ReadRecord(body, i, g[i - 1])
  BY <1>1, <1>2 DEF Reads
<1>4. PICK b : RecordsAt(rs, body, b)
  BY RecordsAreLocated
<1>5. body \in Seq(Token \cup Nat) /\ Len(body) \in Nat
  BY RecordsAreLocated
<1>6. \A i \in 1 .. n : Genuine(rs[i], i, ChainBefore(rs, i)) /\ Decoded(Encoded(rs[i])).ok
  BY DEF Linked, Decodable
<1> HIDE DEF n, body
<1> DEFINE Good(m) == g[m].ok /\ g[m].at = b[m] /\ g[m].chain = ChainBefore(rs, m + 1)
           M == { m \in Nat : m <= n => Good(m) }
<1>7. 0 \in M
  <2>1. b[0] = 0 /\ Unread.ok /\ Unread.at = 0 /\ Unread.chain = << >>
    BY <1>4 DEF RecordsAt, Unread
  <2>2. Good(0)
    BY <1>3, <2>1 DEF ChainBefore
  <2> QED BY <2>2
<1>8. ASSUME NEW m \in Nat, m \in M PROVE m + 1 \in M
  <2>1. SUFFICES ASSUME m + 1 <= n PROVE Good(m + 1)
    OBVIOUS
  <2> DEFINE i == m + 1
             e == Encoded(rs[i])
             q == g[m]
             at == b[m] + 1
             d == Decoded(SubSeq(body, q.at + 2, q.at + 1 + body[q.at + 1]))
  <2>2. /\ i \in 1 .. n /\ i - 1 = m /\ m <= n /\ i + 1 # 1 /\ (i + 1) - 1 = i
        /\ q.ok /\ q.at = b[m] /\ q.chain = ChainBefore(rs, i)
    BY <1>1, <1>8, <2>1 DEF n
  <2>3. g[i] = ReadRecord(body, i, q)
    <3> HIDE DEF i
    <3> QED BY <1>3, <2>2
  <2>4. /\ rs[i] \in Kept /\ Genuine(rs[i], i, ChainBefore(rs, i)) /\ Decoded(e).ok
    <3> HIDE DEF i
    <3> QED BY <1>1, <1>6, <2>2 DEF n
  <2>5. /\ b[m] \in Nat /\ b[i] = b[m] + 1 + Len(e)
        /\ body[at] = Len(e) /\ Stands(e, body, at)
    <3> HIDE DEF e, i
    <3>1. /\ b[i] = b[i - 1] + 1 + Len(e)
          /\ body[b[i - 1] + 1] = Len(e)
          /\ Stands(e, body, b[i - 1] + 1)
      BY <1>4, <2>2 DEF RecordsAt, n, e
    <3>2. b[m] \in Nat
      BY <1>1, <1>4, <2>2 DEF RecordsAt, n
    <3> QED BY <2>2, <3>1, <3>2
  <2>6. e \in Seq(Token) /\ Decoded(e).record = rs[i]
    BY <2>4 DEF GivesBack
  <2> HIDE DEF e, q, i
  <2>7. Len(e) \in Nat /\ at \in Nat /\ at + Len(e) <= Len(body)
    BY <2>5, <2>6 DEF Stands
  <2>8. /\ q.at + 1 = at /\ q.at + 2 = at + 1
        /\ q.at + 1 + body[q.at + 1] = at + Len(e)
    BY <2>2, <2>5
  <2> HIDE DEF at
  <2>9. SubSeq(body, at + 1, at + Len(e)) = e
    <3>1. e \in Seq(Token \cup Nat)
      BY <2>6
    <3> QED BY <1>5, <2>5, <2>7, <3>1, StandingPart
  <2>10. d = Decoded(e) /\ d.ok /\ d.record = rs[i]
    BY <2>4, <2>6, <2>8, <2>9
  <2>11. g[i] = Joined(q, i, body[q.at + 1], d)
    <3>1. q.at + 1 <= Len(body) /\ q.at + 1 + body[q.at + 1] <= Len(body)
      BY <1>5, <2>7, <2>8
    <3> QED BY <2>2, <2>3, <3>1 DEF ReadRecord
  <2> HIDE DEF d
  <2>12. g[i] = [ ok |-> TRUE, at |-> q.at + 1 + body[q.at + 1],
                  chain |-> rs[i].header.chain_digest,
                  records |-> Append(q.records, rs[i]) ]
    BY <2>2, <2>4, <2>10, <2>11 DEF Joined
  <2>13. /\ g[i].ok /\ g[i].at = q.at + 1 + body[q.at + 1]
         /\ g[i].chain = rs[i].header.chain_digest
    BY <2>12
  <2>14. g[i].at = b[i]
    BY <2>2, <2>5, <2>7, <2>8, <2>13 DEF at
  <2>15. g[i].chain = ChainBefore(rs, i + 1)
    BY <2>2, <2>13 DEF ChainBefore
  <2> QED BY <2>13, <2>14, <2>15 DEF i
<1> HIDE DEF M, Good
<1>9. Nat \subseteq M
  BY <1>7, <1>8, Induction
<1>10. Good(n)
  BY <1>1, <1>9 DEF M, n
<1>11. g[n].ok /\ g[n].at = Len(body)
  BY <1>4, <1>10 DEF Good, RecordsAt, n
<1> QED BY <1>2, <1>11 DEF Whole, n, body

LEMMA LinkedLoads ==
  ASSUME NEW Kept, NEW Token, GivesBack(Kept, Token), NEW rs \in Seq(Kept),
         Linked(rs), Decodable(rs), Len(Serialized(rs)) <= MaxImage
  PROVE  Serializes(rs) /\ Loads(Serialized(rs))
<1>1. Len(rs) <= MaxRecords
  BY DEF Linked
<1>2. /\ Serialized(rs)[5] = Len(rs) /\ BodyOf(Serialized(rs)) = Body(rs)
      /\ Len(Body(rs)) \in Nat /\ Len(Serialized(rs)) = HeaderSize + Len(Body(rs)) + 1
      /\ Framed(Serialized(rs))
  BY <1>1, ImageHolds
<1>3. Len(Body(rs)) <= MaxImage
  BY <1>2, BoundsAssumption DEF HeaderSize
<1>4. Whole(Body(rs), Parsed(Body(rs), Len(rs)))
  BY LinkedIsParsed
<1> QED BY <1>1, <1>2, <1>3, <1>4 DEF Serializes, Loads

-----------------------------------------------------------------------------
(* Only a file operation, the limit on an image or a record that its own    *)
(* reader refuses can fail a save: what a ledger has committed is           *)
(* contiguous and chained, and whole in its image, so the check before the  *)
(* rename lets it through.                                                  *)
DecodableLedgerSaves ==
  \A p \in Pid, t \in Thread :
    /\ thread[p][t].at = "check"
    /\ Decodable(thread[p][t].of)
    /\ Len(thread[p][t].image) <= MaxImage
    => Serializes(thread[p][t].of) /\ Loads(thread[p][t].image)

THEOREM DecodableLedgersSave ==
  ASSUME NEW Kept, NEW Token, GivesBack(Kept, Token)
  PROVE  FileSpec => []DecodableLedgerSaves
<1>1. FileInit => HeldInv(Kept) /\ LinkedInv
  BY HeldInitially, LinkedInitially
<1>2. IInv /\ HeldInv(Kept) /\ [FileNext]_fileVars => HeldInv(Kept)'
  BY FileStepHolds
<1>3. IInv /\ HeldInv(Kept) /\ LinkedInv /\ [FileNext]_fileVars => LinkedInv'
  BY FileStepMoves, MoveKeepsLinks DEF HeldInv
<1>4. HeldInv(Kept) /\ LinkedInv => DecodableLedgerSaves
  <2>1. SUFFICES ASSUME HeldInv(Kept), LinkedInv,
                        NEW p \in Pid, NEW t \in Thread, thread[p][t].at = "check",
                        Decodable(thread[p][t].of), Len(thread[p][t].image) <= MaxImage
                 PROVE  Serializes(thread[p][t].of) /\ Loads(thread[p][t].image)
    BY DEF HeldInv, DecodableLedgerSaves
  <2> DEFINE copy == thread[p][t].of
  <2>2. /\ copy \in Seq(Kept) /\ Linked(copy) /\ thread[p][t].image = Serialized(copy)
    BY <2>1 DEF Saving, HeldInv, HoldsKept, LinkedInv
  <2> QED BY <2>1, <2>2, LinkedLoads
<1> QED BY <1>1, <1>2, <1>3, <1>4, FileInvariant, PTL DEF FileSpec
=============================================================================

--------------------------- MODULE MCCoordinator ----------------------------
(***************************************************************************)
(* Instances of the coordinator.                                            *)
(***************************************************************************)
EXTENDS CoordinatorSafety

CONSTANTS r1, r2, r3

Workers == { "local", "w1" }
Clients == { "local", "w1" }
OtherClients == { "w1" }
RecordIds == { r1, r2, r3 }
OneRecordId == { r1 }

(* Bound: one worker connects, the ledger's own or another.                 *)
Connecting ==
  { a.worker : a \in issued } \cup ({ conn[c].worker : c \in Conn } \ { None })

OneWorkerConnects == Cardinality(Connecting) <= 1

(* Whether a worker is still there to hear a reply tells acked, and nothing *)
(* else, from a worker that goes away after it: where acked is not read, it *)
(* stays for the reply.                                                     *)
HearsReplies == \A c \in Conn : pc[c] = "replying" => sock[c] = "open"

AllButAcked ==
  << authorityVars, serverVars, handlerVars, saving, owner, disk, starts,
     issued >>

SameIds == Permutations(RecordIds)
=============================================================================

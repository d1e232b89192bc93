---------------------------- MODULE EncodedFile ----------------------------
(***************************************************************************)
(* The snapshot file with the records in it encoded as the code encodes     *)
(* them.  Two enumerators may be unstated in a draft that validation        *)
(* accepts: the kind of a branch with a parent and the unit of an           *)
(* observation (ledger_validate.cpp:547-568 and 1057); their readers refuse *)
(* the zero their writers wrote.                                            *)
(***************************************************************************)
EXTENDS LedgerFile, RecordLayouts

Stated(body) ==
  /\ body.type = 7 => body.fields.kind # 0
  /\ body.type = 17 => body.fields.unit # 0

(* Every ledger whose enumerators are stated can be saved: for every record *)
(* type and at every limit, the reader lets through what the writer wrote.  *)
StatedLedgerSaves ==
  \A p \in Pid, t \in Thread :
    /\ thread[p][t].at = "check"
    /\ \A i \in 1..Len(thread[p][t].of) : Stated(thread[p][t].of[i].body)
    => Serializes(thread[p][t].of) /\ Loads(thread[p][t].image)

=============================================================================

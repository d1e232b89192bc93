------------------------- MODULE AppendOnlyHistory --------------------------
(***************************************************************************)
(* What a caller of the ledger may rely on (include/research_ledger/        *)
(* ledger.hpp, README "Append-only history"), with no word about staging,   *)
(* indexes, locks or files: a history that only grows, a whole batch at a   *)
(* time, and a reply that says truthfully which sequence each draft of the  *)
(* batch has.                                                               *)
(***************************************************************************)
EXTENDS Naturals, Sequences

CONSTANT Supplied   \* the record identities callers supply

VARIABLES
  history,   \* committed records, in sequence order
  reply      \* outcomes of the batch just committed; << >> when there is none

(* newer extends older, and repeats no record identity. *)
Extends(older, newer) ==
  /\ Len(older) <= Len(newer)
  /\ \A i \in 1 .. Len(older) : newer[i] = older[i]
  /\ \A i \in Len(older) + 1 .. Len(newer) : \A j \in 1 .. i - 1 :
       newer[i].record_id # newer[j].record_id

New(r) == { k \in DOMAIN r : r[k].state = "Validated" }

(* Reply r names exactly the records in which newer exceeds older, in       *)
(* order, and for every other draft a record of its supplied identity.      *)
Answers(r, older, newer) ==
  /\ { r[k].sequence : k \in New(r) } = Len(older) + 1 .. Len(newer)
  /\ \A k, l \in New(r) : k < l => r[k].sequence < r[l].sequence
  /\ \A k \in DOMAIN r \ New(r) :
       /\ r[k].sequence \in 1 .. Len(newer)
       /\ newer[r[k].sequence].record_id \in Supplied

Init == history = << >> /\ reply = << >>

AppendBatch ==
  /\ reply = << >>
  /\ reply' # << >>
  /\ Extends(history, history')
  /\ Answers(reply', history, history')

Reply == reply # << >> /\ reply' = << >> /\ UNCHANGED history

Next == AppendBatch \/ Reply

Spec == Init /\ [][Next]_<< history, reply >>
=============================================================================

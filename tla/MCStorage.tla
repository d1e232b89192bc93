----------------------------- MODULE MCStorage -----------------------------
(***************************************************************************)
(* A coordinator with two threads and a command on one path.  A command     *)
(* that finds no records appends any of the bodies below; every other       *)
(* append is of a plain one.                                                *)
(*                                                                          *)
(* The bodies of a type: the smallest (texts of one character, lists of one *)
(* element, options absent, the first enumerators) and the largest (every   *)
(* text and list at its limit, options present, the last enumerators).  The *)
(* value of a field is its position, so that two fields read in each        *)
(* other's place are told apart.                                            *)
(***************************************************************************)
EXTENDS EncodedFile, TLC

CONSTANT Main  \* the thread of a command

SomeThreads(p) == IF p \in Commands THEN { Main } ELSE Thread

SomeLimits ==
  [ string |-> 3, label |-> 2, explanation |-> 4, failure_message |-> 2, location |-> 2,
    metadata |-> 2, metadata_key |-> 1, metadata_value |-> 2,
    hypotheses_per_experiment |-> 2, inputs |-> 2, expected_outputs |-> 1,
    parents_per_artifact |-> 2, evidence_refs_per_decision |-> 2,
    artifacts_per_result |-> 2, observations_per_result |-> 3,
    experiments_per_result |-> 1, calls_per_attempt |-> 2 ]

NotFinite == 999

Characters(n, i) == [k \in 1..n |-> 30 * i + k]

SmallestSimple(f, i) ==
  CASE f.is = "text" -> Characters(1, i)
    [] f.is = "subject" -> << 1, i >>
    [] f.is \in { "boolean", "code", "word" } -> 0
    [] f.is = "enum" -> 1
    [] OTHER -> i

LargestSimple(f, i) ==
  CASE f.is = "text" -> Characters(f.n, i)
    [] f.is = "subject" -> << 12, i >>
    [] f.is = "boolean" -> 1
    [] f.is \in { "code", "enum" } -> f.n
    [] OTHER -> i

Parts(fields, i, Simple(_, _)) == [k \in DOMAIN fields |-> Simple(fields[k], 10 * i + k)]

SmallestField(f, i) ==
  CASE f.is = "option" -> << >>
    [] f.is = "group" -> Parts(f.of, i, SmallestSimple)
    [] f.is = "list" -> << Parts(f.of, i, SmallestSimple) >>
    [] f.is = "metric" -> << 0, << >> >>
    [] OTHER -> SmallestSimple(f, i)

LargestField(f, i) ==
  CASE f.is \in { "option", "group" } -> Parts(f.of, i, LargestSimple)
    [] f.is = "list" -> [k \in 1..f.n |-> Parts(f.of, 10 * i + k, LargestSimple)]
    [] f.is = "metric" -> << 11, << i >> >>
    [] OTHER -> LargestSimple(f, i)

(* A body of that type and size, but for the fields that `but` changes.     *)
ValueOf(layout, size, but, name) ==
  LET i == CHOOSE i \in DOMAIN layout : layout[i][1] = name IN
  CASE name \in DOMAIN but -> but[name]
    [] size = "small" -> SmallestField(layout[i][2], i)
    [] OTHER -> LargestField(layout[i][2], i)

FieldsOf(layout, size, but) ==
  [name \in { layout[i][1] : i \in DOMAIN layout } |-> ValueOf(layout, size, but, name)]

(* The status changes start and end in different states, and something is   *)
(* known in an accounting record.                                           *)
Small(type) ==
  << type, "small", CASE type \in {5, 21} -> "to" :> 2
                      [] type = 22 -> "attempts" :> << 1, 7, 1 >>
                      [] OTHER -> << >> >>

Large(type) == << type, "large", IF type \in {5, 21} THEN "from" :> 2 ELSE << >> >>

(* An observation without a metric, with one of these values. *)
Values == << << 1, << 61 >> >>, << 3, << 61 >> >>, << 9, << 1 >> >>, << 10, << << 61 >> >> >> >>
Observed(i) == << 17, "small", "unit" :> 13 @@ "value" :> Values[i] >>

(* Drafts that validation accepts although an enumerator of theirs is not   *)
(* stated: the unit of an observation, and the kind of a branch with a      *)
(* parent (ledger_validate.cpp:1057 and 547-568).                           *)
Unstated == << << 17, "small", "unit" :> 0 >>, << 7, "large", "kind" :> 0 >> >>

(* The smallest and the largest of the 22 types, one body for each other    *)
(* payload of a metric value, and the two unstated enumerators.             *)
SomeBodies ==
  LET some == [type \in 1..22 |-> Small(type)] \o [type \in 1..22 |-> Large(type)]
              \o [i \in DOMAIN Values |-> Observed(i)] \o Unstated
  IN [n \in DOMAIN some |->
        [ type |-> some[n][1], fields |-> FieldsOf(Readers[some[n][1]], some[n][2], some[n][3]) ]]

SomeOffered(p, records) ==
  IF p \in Commands /\ records = << >> THEN DOMAIN SomeBodies ELSE { 3 }

=============================================================================

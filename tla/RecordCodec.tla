---------------------------- MODULE RecordCodec ----------------------------
(***************************************************************************)
(* The canonical encoding of record bodies and records (src/codec.cpp and   *)
(* src/record_codec.cpp).                                                   *)
(*                                                                          *)
(* An encoding is a sequence of tokens, one for each integer the code       *)
(* writes; the characters of a text are tokens of their own and a digest is *)
(* one token.  A body maps the names of its fields to their values: an      *)
(* absent optional is << >>, a present one, a measure and a list element    *)
(* are the sequence of their parts, a subject is << kind, identity >>, a    *)
(* metric value << kind, payload >>.                                        *)
(*                                                                          *)
(* Every record type has two functions in the code, write_T and read_T, and *)
(* two layouts here: which field the writer writes next, and to which field *)
(* the reader gives what it reads next.  What the reader refuses is part of *)
(* its layout.                                                              *)
(***************************************************************************)
EXTENDS Naturals, Sequences, SequencesExt

CONSTANTS
  Limit,     \* the name of a limit of Limits -> its value
  NonFinite  \* the bits of a fractional value that is not finite

-----------------------------------------------------------------------------
(* What one field is on the wire: `is`, with a bound n for its value and    *)
(* the fields `of` that it holds.                                           *)
Field(is, n, of) == [ is |-> is, n |-> n, of |-> of ]

Word == Field("word", 0, << >>)          \* any integer, time stamp or digest
Finite == Field("finite", 0, << >>)      \* the bits of a fractional value
Boolean == Field("boolean", 0, << >>)
Byte == Field("byte", 0, << >>)          \* an enumerator, as the writer sees it
Enum(last) == Field("enum", last, << >>) \* 1..last, as the reader sees it
Code(last) == Field("code", last, << >>) \* 0..last, as the reader sees it
Text(limit) == Field("text", Limit[limit], << >>)
Tagged(domain) == Field("tagged", domain, << >>) \* an identity or a generation
Subject == Field("subject", 12, << >>)
Metric == Field("metric", 11, << >>)
Group(of) == Field("group", 0, of)
Option(of) == Field("option", 0, of)
List(limit, of) == Field("list", Limit[limit], of)

(* IdentityDomain: the tag that travels with every identity. *)
Domain ==
  [ Session |-> 1, Hypothesis |-> 2, HypothesisGeneration |-> 3, Experiment |-> 4,
    ExperimentGeneration |-> 5, Branch |-> 6, Attempt |-> 7, AttemptGeneration |-> 8,
    ModelCall |-> 9, ToolCall |-> 10, Input |-> 12, Artifact |-> 13,
    ArtifactGeneration |-> 14, Observation |-> 15, Metric |-> 16, Failure |-> 17,
    Decision |-> 18, Result |-> 19, ResultGeneration |-> 20, Worker |-> 21,
    WorkerBoot |-> 22, CoordinatorEpoch |-> 23, LedgerGeneration |-> 24,
    RecordSequence |-> 25, Record |-> 26, PolicyGeneration |-> 27 ]

(* domain_of: the tag of the subjects of kind 1, 2, ... *)
DomainOf ==
  << Domain.Session, Domain.Hypothesis, Domain.Experiment, Domain.Branch,
     Domain.Attempt, Domain.ModelCall, Domain.ToolCall, Domain.Artifact,
     Domain.Observation, Domain.Failure, Domain.Decision, Domain.Result >>

Id(domain) == Tagged(Domain[domain])

(* The payload of a metric value of each kind: integers of five kinds,      *)
(* three fractional kinds, a boolean, a category and a digest.              *)
MetricPayload(kind) ==
  CASE kind = 0 -> << >>
    [] kind \in {3, 7, 8} -> << Finite >>
    [] kind = 9 -> << Boolean >>
    [] kind = 10 -> << Text("string") >>
    [] OTHER -> << Word >>

-----------------------------------------------------------------------------
(* What ByteWriter writes for a simple field of value v.                    *)
WriteSimple(f, v) ==
  CASE f.is = "text" -> << Len(v) >> \o v
    [] f.is = "tagged" -> << f.n, v >>
    [] f.is = "subject" -> IF v[1] = 0 THEN << 0 >> ELSE << v[1], DomainOf[v[1]], v[2] >>
    [] OTHER -> << v >>

WriteAll(fields, values) ==
  FlattenSeq([i \in 1..Len(fields) |-> WriteSimple(fields[i], values[i])])

WriteElements(fields, elements) ==
  FlattenSeq([i \in 1..Len(elements) |-> WriteAll(fields, elements[i])])

WriteField(f, v) ==
  CASE f.is = "option" -> IF v = << >> THEN << 0 >> ELSE << 1 >> \o WriteAll(f.of, v)
    [] f.is = "group" -> WriteAll(f.of, v)
    [] f.is = "list" -> << Len(v) >> \o WriteElements(f.of, v)
    [] f.is = "metric" -> << v[1] >> \o WriteAll(MetricPayload(v[1]), v[2])
    [] OTHER -> WriteSimple(f, v)

WriteFields(layout, body) ==
  FlattenSeq([i \in 1..Len(layout) |-> WriteField(layout[i][2], body[layout[i][1]])])

(* The writer fails on a text or a list longer than its limit.              *)
Within(fields, values) ==
  \A j \in 1..Len(fields) : fields[j].is = "text" => Len(values[j]) <= fields[j].n

Fits(layout, body) ==
  \A i \in 1..Len(layout) :
    LET f == layout[i][2]
        v == body[layout[i][1]]
    IN /\ f.is \in {"text", "list"} => Len(v) <= f.n
       /\ f.is = "group" \/ (f.is = "option" /\ v # << >>) => Within(f.of, v)
       /\ f.is = "list" => \A e \in 1..Len(v) : Within(f.of, v[e])
       /\ f.is = "metric" => Within(MetricPayload(v[1]), v[2])

-----------------------------------------------------------------------------
(* A reader over the tokens of wire: how far it has come, what it has read  *)
(* and whether it failed.  After a failure nothing more is read.            *)
Reader(at) == [ ok |-> TRUE, at |-> at, value |-> << >> ]
Failed(r) == [ r EXCEPT !.ok = FALSE ]

(* ByteReader::take: n more tokens are there.                               *)
Has(r, wire, n) == r.at + n <= Len(wire)

Took(r, n, v) == [ ok |-> r.ok, at |-> r.at + n, value |-> Append(r.value, v) ]

(* One token that the field's reader lets through.                          *)
Admits(f, token) ==
  CASE f.is = "enum" -> token \in 1..f.n
    [] f.is = "code" -> token <= f.n
    [] f.is = "boolean" -> token <= 1
    [] f.is = "finite" -> token # NonFinite
    [] OTHER -> TRUE

ReadToken(f, wire, r) ==
  IF Has(r, wire, 1) /\ Admits(f, wire[r.at + 1]) THEN Took(r, 1, wire[r.at + 1])
  ELSE Failed(r)

ReadText(f, wire, r) ==
  IF /\ Has(r, wire, 1)
     /\ wire[r.at + 1] <= f.n
     /\ Has(r, wire, 1 + wire[r.at + 1])
  THEN Took(r, 1 + wire[r.at + 1], SubSeq(wire, r.at + 2, r.at + 1 + wire[r.at + 1]))
  ELSE Failed(r)

(* read_strong_id, read_generation: the tag of another domain and the value *)
(* zero are refused.                                                        *)
ReadTagged(f, wire, r) ==
  IF Has(r, wire, 2) /\ wire[r.at + 1] = f.n /\ wire[r.at + 2] # 0
  THEN Took(r, 2, wire[r.at + 2])
  ELSE Failed(r)

ReadSubject(f, wire, r) ==
  LET kind == wire[r.at + 1] IN
  IF ~Has(r, wire, 1) THEN Failed(r)
  ELSE IF kind = 0 THEN Took(r, 1, << 0, 0 >>)
  ELSE IF /\ kind <= f.n
          /\ Has(r, wire, 3)
          /\ wire[r.at + 2] = DomainOf[kind]
          /\ wire[r.at + 3] # 0
  THEN Took(r, 3, << kind, wire[r.at + 3] >>)
  ELSE Failed(r)

ReadSimple(f, wire, r) ==
  IF ~r.ok THEN r
  ELSE CASE f.is = "text" -> ReadText(f, wire, r)
         [] f.is = "tagged" -> ReadTagged(f, wire, r)
         [] f.is = "subject" -> ReadSubject(f, wire, r)
         [] OTHER -> ReadToken(f, wire, r)

ReadAll(fields, wire, at) ==
  LET r[i \in 0..Len(fields)] ==
        IF i = 0 THEN Reader(at) ELSE ReadSimple(fields[i], wire, r[i - 1])
  IN r[Len(fields)]

(* What inner has read is one value of r. *)
Nested(r, inner) ==
  IF r.ok THEN [ inner EXCEPT !.value = Append(r.value, @) ] ELSE r

(* The n elements of a list, each the sequence of its own parts.            *)
ReadElements(fields, wire, at, n) ==
  LET r[i \in 0..n] ==
        IF i = 0 THEN Reader(at)
        ELSE LET before == r[i - 1] IN Nested(before, ReadAll(fields, wire, before.at))
  IN r[n]

ReadGroup(f, wire, r) == Nested(r, ReadAll(f.of, wire, r.at))

ReadOption(f, wire, r) ==
  IF ~Has(r, wire, 1) \/ wire[r.at + 1] > 1 THEN Failed(r)
  ELSE IF wire[r.at + 1] = 0 THEN Took(r, 1, << >>)
  ELSE Nested(r, ReadAll(f.of, wire, r.at + 1))

ReadList(f, wire, r) ==
  IF Has(r, wire, 1) /\ wire[r.at + 1] <= f.n
  THEN Nested(r, ReadElements(f.of, wire, r.at + 1, wire[r.at + 1]))
  ELSE Failed(r)

OfKind(kind, payload) == [ payload EXCEPT !.value = << kind, @ >> ]

ReadMetric(f, wire, r) ==
  LET kind == wire[r.at + 1] IN
  IF Has(r, wire, 1) /\ kind <= f.n
  THEN Nested(r, OfKind(kind, ReadAll(MetricPayload(kind), wire, r.at + 1)))
  ELSE Failed(r)

ReadField(f, wire, r) ==
  CASE f.is = "group" -> ReadGroup(f, wire, r)
    [] f.is = "option" -> ReadOption(f, wire, r)
    [] f.is = "list" -> ReadList(f, wire, r)
    [] f.is = "metric" -> ReadMetric(f, wire, r)
    [] OTHER -> ReadSimple(f, wire, r)

(* The fields read so far, and one more. *)
WithField(fields, name, v) ==
  [x \in DOMAIN fields \cup { name } |-> IF x = name THEN v ELSE fields[x]]

(* What step has read is the field of that name. *)
Named(name, r, step) ==
  IF r.ok /\ step.ok
  THEN [ step EXCEPT !.value = WithField(r.value, name, @[1]) ]
  ELSE Failed(r)

ReadFields(layout, wire, at) ==
  LET r[i \in 0..Len(layout)] ==
        IF i = 0 THEN Reader(at)
        ELSE LET before == r[i - 1]
             IN Named(layout[i][1], before, ReadField(layout[i][2], wire, Reader(before.at)))
  IN r[Len(layout)]

=============================================================================

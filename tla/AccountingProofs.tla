-------------------------- MODULE AccountingProofs --------------------------
(***************************************************************************)
(* What the sums of Accounting promise, for every width, every set of       *)
(* measures and currencies and any number of contributions.                 *)
(***************************************************************************)
EXTENDS Accounting, TLAPS

USE DEF MinMicro

(* A quantity has the fields of a measure, and an unknown one no units. *)
LEMMA QuantityFields ==
  ASSUME NEW q \in Quantity
  PROVE  /\ q.known \in BOOLEAN
         /\ q.units \in 0 .. MaxUnits
         /\ q.provenance \in Provenance
         /\ ~q.known => q.units = 0
  BY UnitsAssumption DEF Quantity

(* The same of money, whose amount is signed. *)
LEMMA MonetaryFields ==
  ASSUME NEW a \in Monetary
  PROVE  /\ a.known \in BOOLEAN
         /\ a.units \in Int
         /\ a.units \in MinMicro .. MaxMicro
         /\ a.known => a.currency # NoCurrency
         /\ a.currency \in Currency \cup { NoCurrency }
         /\ a.provenance \in Provenance
  BY MicroAssumption DEF Monetary

(* weaker() returns one of the two, and none that is stronger. *)
LEMMA WeakerFacts ==
  ASSUME NEW p \in Provenance, NEW q \in Provenance
  PROVE  /\ Weaker(p, q) \in Provenance
         /\ Rank(p) \in Nat
         /\ Rank(Weaker(p, q)) >= Rank(p)
         /\ Rank(Weaker(p, q)) >= Rank(q)
<1>1. /\ Rank(p) \in Nat
      /\ Rank(q) \in Nat
  BY DEF Rank, Provenance
<1> QED BY <1>1 DEF Weaker

(* add_measure: what a sum that does not overflow is. *)
LEMMA SumOfFacts ==
  ASSUME NEW q \in Quantity, NEW r \in Quantity, ~Overflows(q, r)
  PROVE  /\ SumOf(q, r) \in Quantity
         /\ SumOf(q, r).known <=> q.known /\ r.known
         /\ SumOf(q, r).units = IF q.known /\ r.known
                                THEN q.units + r.units ELSE 0
         /\ Rank(SumOf(q, r).provenance) >= Rank(q.provenance)
         /\ Rank(SumOf(q, r).provenance) >= Rank(r.provenance)
<1> DEFINE w == Weaker(q.provenance, r.provenance)
<1>1. /\ q.known \in BOOLEAN /\ q.units \in 0 .. MaxUnits
      /\ r.known \in BOOLEAN /\ r.units \in 0 .. MaxUnits
      /\ q.provenance \in Provenance /\ r.provenance \in Provenance
  BY QuantityFields
<1>2. /\ w \in Provenance
      /\ Rank(w) \in Nat
      /\ Rank(w) >= Rank(q.provenance)
      /\ Rank(w) >= Rank(r.provenance)
      /\ Rank(q.provenance) \in Nat
      /\ Rank(r.provenance) \in Nat
  BY <1>1, WeakerFacts
<1> DEFINE d == Weaker("Derived", w)
<1>3. /\ d \in Provenance
      /\ Rank(d) \in Nat
      /\ Rank(d) >= Rank(w)
  <2>1. "Derived" \in Provenance
    BY DEF Provenance
  <2> QED BY <1>2, <2>1, WeakerFacts
<1>4. Rank(d) >= Rank(q.provenance) /\ Rank(d) >= Rank(r.provenance)
  BY <1>2, <1>3
<1>5. CASE q.known /\ r.known
  <2>1. SumOf(q, r) = Known(q.units + r.units, d)
    BY <1>5 DEF SumOf
  <2>2. q.units + r.units \in 0 .. MaxUnits
    BY <1>1, <1>5, UnitsAssumption DEF Overflows
  <2>3. Known(q.units + r.units, d) \in Quantity
    BY <2>2, <1>3 DEF Quantity, Known
  <2> HIDE DEF d, w
  <2> QED BY <1>5, <2>1, <2>3, <1>4 DEF Known
<1>6. CASE ~(q.known /\ r.known)
  <2>1. SumOf(q, r) = Unknown(w)
    BY <1>6 DEF SumOf
  <2>2. Unknown(w) \in Quantity
    BY <1>2, UnitsAssumption DEF Quantity, Unknown
  <2> HIDE DEF d, w
  <2> QED BY <1>6, <2>1, <2>2, <1>2 DEF Unknown
<1> QED BY <1>5, <1>6

(* The monetary part of accumulate: what a sum that does not fail is. *)
LEMMA SumOfMoneyFacts ==
  ASSUME NEW a \in Monetary, NEW b \in Monetary,
         ~Mixed(a, b), ~MicroOverflows(a, b)
  PROVE  /\ SumOfMoney(a, b) \in Monetary
         /\ SumOfMoney(a, b).known <=> a.known /\ b.known
         /\ a.known /\ b.known =>
              /\ SumOfMoney(a, b).units = a.units + b.units
              /\ SumOfMoney(a, b).currency = a.currency
              /\ a.currency = b.currency
         /\ Rank(SumOfMoney(a, b).provenance) >= Rank(a.provenance)
         /\ Rank(SumOfMoney(a, b).provenance) >= Rank(b.provenance)
<1> DEFINE w == Weaker(a.provenance, b.provenance)
           d == Weaker("Derived", w)
           c == IF a.currency # NoCurrency THEN a.currency ELSE b.currency
<1>1. /\ a.known \in BOOLEAN /\ a.units \in Int
      /\ b.known \in BOOLEAN /\ b.units \in Int
      /\ a.units \in MinMicro .. MaxMicro
      /\ b.units \in MinMicro .. MaxMicro
      /\ a.known => a.currency # NoCurrency
      /\ a.currency \in Currency \cup { NoCurrency }
      /\ b.currency \in Currency \cup { NoCurrency }
      /\ a.provenance \in Provenance /\ b.provenance \in Provenance
  BY MonetaryFields
<1>2. /\ w \in Provenance
      /\ Rank(w) \in Nat
      /\ Rank(w) >= Rank(a.provenance)
      /\ Rank(w) >= Rank(b.provenance)
      /\ Rank(a.provenance) \in Nat
      /\ Rank(b.provenance) \in Nat
  BY <1>1, WeakerFacts
<1>3. /\ d \in Provenance
      /\ Rank(d) \in Nat
      /\ Rank(d) >= Rank(w)
  <2>1. "Derived" \in Provenance
    BY DEF Provenance
  <2> QED BY <1>2, <2>1, WeakerFacts
<1>4. Rank(d) >= Rank(a.provenance) /\ Rank(d) >= Rank(b.provenance)
  BY <1>2, <1>3
<1>5. CASE a.known /\ b.known
  <2>1. SumOfMoney(a, b) = Amount(a.units + b.units, a.currency, d)
    BY <1>5 DEF SumOfMoney
  <2>2. a.units + b.units \in MinMicro .. MaxMicro
    <3>1. /\ a.units \in MinMicro .. MaxMicro
          /\ b.units \in MinMicro .. MaxMicro
      BY <1>1, <1>5
    <3>2. /\ ~(b.units > 0 /\ a.units > MaxMicro - b.units)
          /\ ~(b.units < 0 /\ a.units < MinMicro - b.units)
      BY <1>5 DEF MicroOverflows
    <3> QED BY <3>1, <3>2, MicroAssumption
  <2>3. Amount(a.units + b.units, a.currency, d) \in Monetary
    BY <2>2, <1>1, <1>3, <1>5 DEF Monetary, Amount
  <2>4. a.currency = b.currency
    BY <1>5 DEF Mixed
  <2> HIDE DEF d, w, c
  <2> QED BY <1>5, <2>1, <2>3, <2>4, <1>4 DEF Amount
<1>6. CASE ~(a.known /\ b.known)
  <2>1. SumOfMoney(a, b) = NoAmount(c, w)
    BY <1>6 DEF SumOfMoney
  <2>2. c \in Currency \cup { NoCurrency }
    BY <1>1
  <2> HIDE DEF c
  <2>3. NoAmount(c, w) \in Monetary
    BY <2>2, <1>2, MicroAssumption DEF Monetary, NoAmount
  <2> HIDE DEF d, w
  <2> QED BY <1>6, <2>1, <2>3, <1>2 DEF NoAmount
<1> QED BY <1>5, <1>6

-----------------------------------------------------------------------------
(* A vector that may be recorded has quantities and money. *)
LEMMA VectorFields ==
  ASSUME NEW v \in AccountingVector
  PROVE  /\ v.monetary \in Monetary
         /\ \A m \in Measure : v.measures[m] \in Quantity
  BY DEF AccountingVector

LEMMA VectorsTyped == Vectors \subseteq AccountingVector
  BY VectorsAssumption

(* Accumulating without failure gives a vector. *)
LEMMA AccumulatedTyped ==
  ASSUME NEW t \in AccountingVector, NEW v \in AccountingVector,
         AccumulateStatus(t, v) = "OK"
  PROVE  /\ Accumulated(t, v) \in AccountingVector
         /\ \A m \in Measure : ~Overflows(t.measures[m], v.measures[m])
         /\ ~Mixed(t.monetary, v.monetary)
         /\ ~MicroOverflows(t.monetary, v.monetary)
<1>1. /\ \A m \in Measure : ~Overflows(t.measures[m], v.measures[m])
      /\ ~Mixed(t.monetary, v.monetary)
      /\ ~MicroOverflows(t.monetary, v.monetary)
  BY DEF AccumulateStatus
<1>2. \A m \in Measure : SumOf(t.measures[m], v.measures[m]) \in Quantity
  BY <1>1, VectorFields, SumOfFacts
<1>3. SumOfMoney(t.monetary, v.monetary) \in Monetary
  BY <1>1, VectorFields, SumOfMoneyFacts
<1> QED BY <1>1, <1>2, <1>3 DEF Accumulated, AccountingVector

(* The sums that history adds up. *)
LEMMA ExactlyTyped ==
  ASSUME TypeOK, NEW v \in AccountingVector
  PROVE  Exactly(v) \in [ measures : [ Measure -> Nat ], monetary : Int ]
<1>1. \A m \in Measure : exact.measures[m] + v.measures[m].units \in Nat
  BY VectorFields, QuantityFields, UnitsAssumption DEF TypeOK
<1>2. exact.monetary + v.monetary.units \in Int
  BY VectorFields, MonetaryFields DEF TypeOK
<1> QED BY <1>1, <1>2 DEF Exactly

(* The sum holds at every step: types, and what a sum of nothing is. *)
Sound ==
  /\ Empty => /\ \A m \in Measure : exact.measures[m] = 0
              /\ exact.monetary = 0
              /\ unknowns = 0
              /\ status = "OK"
  /\ TotalsAreExact
  /\ NeverStronger
  /\ CompleteMeansKnown
  /\ FailsForCause

IInv == TypeOK /\ Sound

-----------------------------------------------------------------------------
(* Every variable keeps its type: a sum fits its width, signed or not.      *)
LEMMA TypeInit == Init => TypeOK
<1> SUFFICES ASSUME Init PROVE TypeOK
  OBVIOUS
<1>1. "Unknown" \in Provenance
  BY DEF Provenance
<1>2. Unknown("Unknown") \in Quantity
  BY <1>1, UnitsAssumption DEF Quantity, Unknown
<1>3. NoAmount(NoCurrency, "Unknown") \in Monetary
  BY <1>1, MicroAssumption DEF Monetary, NoAmount
<1>4. NoVector \in AccountingVector
  BY <1>2, <1>3 DEF NoVector, AccountingVector
<1> QED BY <1>4 DEF Init, TypeOK

LEMMA TypeNext ==
  ASSUME TypeOK, [Next]_vars
  PROVE  TypeOK'
<1>1. CASE UNCHANGED vars
  BY <1>1 DEF TypeOK, vars
<1>2. ASSUME NEW v \in Vectors, status = "OK", First(v)
      PROVE  TypeOK'
  <2>1. v \in AccountingVector
    BY VectorsTyped
  <2>2. exact' \in [ measures : [ Measure -> Nat ], monetary : Int ]
    BY <1>2, <2>1, ExactlyTyped DEF First
  <2>3. given' \in Seq(Vectors) /\ Len(given') = 1
    BY <1>2 DEF First
  <2>4. unknowns' \in 0 .. 1
    BY <1>2 DEF First, UnknownFields
  <2> QED BY <1>2, <2>1, <2>2, <2>3, <2>4 DEF First, TypeOK
<1>3. ASSUME NEW v \in Vectors, status = "OK", Further(v)
      PROVE  TypeOK'
  <2>1. v \in AccountingVector
    BY VectorsTyped
  <2>2. exact' \in [ measures : [ Measure -> Nat ], monetary : Int ]
    BY <1>3, <2>1, ExactlyTyped DEF Further
  <2>3. given' \in Seq(Vectors) /\ Len(given') = Len(given) + 1
    BY <1>3 DEF Further, TypeOK
  <2>4. unknowns' \in 0 .. Len(given) + 1
    BY <1>3 DEF Further, UnknownFields, TypeOK
  <2>5. total' \in AccountingVector
    BY <1>3, <2>1, AccumulatedTyped DEF Further, TypeOK
  <2> QED BY <1>3, <2>2, <2>3, <2>4, <2>5 DEF Further, TypeOK
<1>4. ASSUME NEW v \in Vectors, status = "OK", Fails(v)
      PROVE  TypeOK'
  <2>1. v \in AccountingVector
    BY VectorsTyped
  <2>2. exact' \in [ measures : [ Measure -> Nat ], monetary : Int ]
    BY <1>4, <2>1, ExactlyTyped DEF Fails
  <2>3. given' \in Seq(Vectors) /\ Len(given') = Len(given) + 1
    BY <1>4 DEF Fails, TypeOK
  <2>4. status' \in { "OK", "ACCOUNTING_OVERFLOW", "UNSUPPORTED" }
    BY <1>4 DEF Fails, AccumulateStatus
  <2> QED BY <1>4, <2>2, <2>3, <2>4 DEF Fails, TypeOK
<1> QED BY <1>1, <1>2, <1>3, <1>4 DEF Next

-----------------------------------------------------------------------------
(* The first contribution is a sound sum of itself. *)
LEMMA SoundFirst ==
  ASSUME IInv, NEW v \in Vectors, status = "OK", First(v)
  PROVE  Sound'
<1>1. /\ v \in AccountingVector
      /\ v.monetary \in Monetary
      /\ \A m \in Measure : v.measures[m] \in Quantity
  BY VectorsTyped, VectorFields
<1>2. /\ given = << >> /\ given' = << v >>
      /\ total' = v
      /\ unknowns' = UnknownFields(v)
      /\ status' = "OK"
      /\ exact' = Exactly(v)
  BY DEF First
<1>3. /\ DOMAIN given' = { 1 }
      /\ given'[1] = v
      /\ ~Empty'
  BY <1>2 DEF Empty
<1>4. /\ \A m \in Measure : exact'.measures[m] = v.measures[m].units
      /\ exact'.monetary = v.monetary.units
  <2>1. /\ \A m \in Measure : exact.measures[m] = 0
        /\ exact.monetary = 0
    BY <1>2 DEF IInv, Sound, Empty
  <2>2. \A m \in Measure : v.measures[m].units \in Int
    BY <1>1, QuantityFields, UnitsAssumption
  <2>3. v.monetary.units \in Int
    BY <1>1, MonetaryFields
  <2> QED BY <1>2, <2>1, <2>2, <2>3 DEF Exactly
<1>5. TotalsAreExact'
  <2>1. \A m \in Measure : KnownThroughout(m)' <=> v.measures[m].known
    BY <1>3 DEF KnownThroughout
  <2>2. MoneyKnownThroughout' <=> v.monetary.known
    BY <1>3 DEF MoneyKnownThroughout
  <2>3. \A m \in Measure : ~v.measures[m].known => v.measures[m].units = 0
    BY <1>1, QuantityFields
  <2> QED BY <1>2, <1>3, <1>4, <2>1, <2>2, <2>3 DEF TotalsAreExact
<1>6. NeverStronger'
  <2>1. \A m \in Measure : Rank(v.measures[m].provenance) \in Nat
    BY <1>1, QuantityFields, WeakerFacts
  <2>2. Rank(v.monetary.provenance) \in Nat
    BY <1>1, MonetaryFields, WeakerFacts
  <2> QED BY <1>2, <1>3, <2>1, <2>2 DEF NeverStronger
<1>7. CompleteMeansKnown'
  BY <1>2, <1>3 DEF CompleteMeansKnown, Complete, UnknownFields
<1>8. FailsForCause'
  BY <1>2 DEF FailsForCause
<1> QED BY <1>3, <1>5, <1>6, <1>7, <1>8 DEF Sound

(* What appending a contribution does to what is known throughout. *)
LEMMA AppendFacts ==
  ASSUME TypeOK, NEW v \in AccountingVector, given' = Append(given, v),
         given # << >>
  PROVE  /\ ~Empty'
         /\ \A m \in Measure :
              KnownThroughout(m)' <=> KnownThroughout(m) /\ v.measures[m].known
         /\ MoneyKnownThroughout' <=> MoneyKnownThroughout /\ v.monetary.known
         /\ \A i \in DOMAIN given' :
              given'[i] = v \/ (i \in DOMAIN given /\ given'[i] = given[i])
         /\ \A i \in DOMAIN given : i \in DOMAIN given' /\ given'[i] = given[i]
         /\ Len(given) + 1 \in DOMAIN given' /\ given'[Len(given) + 1] = v
         /\ 1 \in DOMAIN given
<1>1. /\ given \in Seq(Vectors)
      /\ Len(given) \in Nat
      /\ DOMAIN given = 1 .. Len(given)
      /\ Len(given) > 0
  BY DEF TypeOK
<1>2. /\ DOMAIN given' = 1 .. Len(given) + 1
      /\ \A i \in 1 .. Len(given) : given'[i] = given[i]
      /\ given'[Len(given) + 1] = v
      /\ given' # << >>
  BY <1>1
<1>3. \A i \in DOMAIN given' : i \in DOMAIN given \/ i = Len(given) + 1
  BY <1>1, <1>2
<1>4. \A i \in DOMAIN given : i \in DOMAIN given' /\ given'[i] = given[i]
  BY <1>1, <1>2
<1>5. Len(given) + 1 \in DOMAIN given'
  BY <1>1, <1>2
<1>6. 1 \in DOMAIN given
  BY <1>1
<1>7. \A m \in Measure :
        KnownThroughout(m)' <=> KnownThroughout(m) /\ v.measures[m].known
  BY <1>2, <1>3, <1>4, <1>5 DEF KnownThroughout
<1>8. MoneyKnownThroughout' <=> MoneyKnownThroughout /\ v.monetary.known
  BY <1>2, <1>3, <1>4, <1>5 DEF MoneyKnownThroughout
<1> QED BY <1>2, <1>3, <1>4, <1>5, <1>6, <1>7, <1>8 DEF Empty

(* A further contribution keeps the sum sound. *)
LEMMA SoundFurther ==
  ASSUME IInv, NEW v \in Vectors, status = "OK", Further(v)
  PROVE  Sound'
<1>1. /\ v \in AccountingVector /\ total \in AccountingVector
      /\ v.monetary \in Monetary /\ total.monetary \in Monetary
      /\ \A m \in Measure : /\ v.measures[m] \in Quantity
                            /\ total.measures[m] \in Quantity
  BY VectorsTyped, VectorFields DEF IInv, TypeOK
<1>2. /\ given # << >> /\ given' = Append(given, v)
      /\ AccumulateStatus(total, v) = "OK"
      /\ total' = Accumulated(total, v)
      /\ unknowns' = unknowns + UnknownFields(v)
      /\ status' = "OK"
      /\ exact' = Exactly(v)
      /\ Summed
  BY DEF Further, Summed, Empty
<1>3. /\ \A m \in Measure : ~Overflows(total.measures[m], v.measures[m])
      /\ ~Mixed(total.monetary, v.monetary)
      /\ ~MicroOverflows(total.monetary, v.monetary)
  BY <1>1, <1>2, AccumulatedTyped
<1>4. /\ \A m \in Measure :
           total'.measures[m] = SumOf(total.measures[m], v.measures[m])
      /\ total'.monetary = SumOfMoney(total.monetary, v.monetary)
      /\ \A m \in Measure :
           exact'.measures[m] = exact.measures[m] + v.measures[m].units
      /\ exact'.monetary = exact.monetary + v.monetary.units
  BY <1>2 DEF Accumulated, Exactly
<1>5. /\ ~Empty'
      /\ \A m \in Measure :
           KnownThroughout(m)' <=> KnownThroughout(m) /\ v.measures[m].known
      /\ MoneyKnownThroughout' <=> MoneyKnownThroughout /\ v.monetary.known
      /\ \A i \in DOMAIN given' :
           given'[i] = v \/ (i \in DOMAIN given /\ given'[i] = given[i])
  BY <1>1, <1>2, AppendFacts DEF IInv
<1>6. TotalsAreExact /\ NeverStronger /\ CompleteMeansKnown
  BY DEF IInv, Sound
<1>7. TotalsAreExact'
  <2>1. ASSUME NEW m \in Measure
        PROVE  IF KnownThroughout(m)'
               THEN total'.measures[m].known
                      /\ total'.measures[m].units = exact'.measures[m]
               ELSE total'.measures[m].units = 0 /\ ~total'.measures[m].known
    <3> DEFINE q == total.measures[m]
               r == v.measures[m]
    <3>1. /\ q \in Quantity /\ r \in Quantity /\ ~Overflows(q, r)
          /\ total'.measures[m] = SumOf(q, r)
          /\ exact'.measures[m] = exact.measures[m] + r.units
      BY <1>1, <1>3, <1>4
    <3>2. IF KnownThroughout(m)
          THEN q.known /\ q.units = exact.measures[m]
          ELSE q.units = 0 /\ ~q.known
      BY <1>2, <1>6 DEF TotalsAreExact
    <3>3. KnownThroughout(m)' <=> KnownThroughout(m) /\ r.known
      BY <1>5
    <3>4. /\ SumOf(q, r).known <=> q.known /\ r.known
          /\ SumOf(q, r).units = IF q.known /\ r.known
                                 THEN q.units + r.units ELSE 0
      BY <3>1, SumOfFacts
    <3> HIDE DEF q, r
    <3> QED BY <3>1, <3>2, <3>3, <3>4
  <2>2. IF MoneyKnownThroughout'
        THEN /\ total'.monetary.known
             /\ total'.monetary.units = exact'.monetary
             /\ \A i \in DOMAIN given' :
                  given'[i].monetary.currency = total'.monetary.currency
        ELSE ~total'.monetary.known
    <3> DEFINE a == total.monetary
               b == v.monetary
    <3>1. /\ a \in Monetary /\ b \in Monetary
          /\ ~Mixed(a, b) /\ ~MicroOverflows(a, b)
          /\ total'.monetary = SumOfMoney(a, b)
          /\ exact'.monetary = exact.monetary + b.units
      BY <1>1, <1>3, <1>4
    <3>2. IF MoneyKnownThroughout
          THEN /\ a.known
               /\ a.units = exact.monetary
               /\ \A i \in DOMAIN given :
                    given[i].monetary.currency = a.currency
          ELSE ~a.known
      BY <1>2, <1>6 DEF TotalsAreExact
    <3>3. MoneyKnownThroughout' <=> MoneyKnownThroughout /\ b.known
      BY <1>5
    <3>4. /\ SumOfMoney(a, b).known <=> a.known /\ b.known
          /\ a.known /\ b.known =>
               /\ SumOfMoney(a, b).units = a.units + b.units
               /\ SumOfMoney(a, b).currency = a.currency
               /\ a.currency = b.currency
      BY <3>1, SumOfMoneyFacts
    <3>5. \A i \in DOMAIN given' :
            \/ given'[i].monetary = b
            \/ i \in DOMAIN given /\ given'[i] = given[i]
      BY <1>5
    <3> HIDE DEF a, b
    <3>6. CASE MoneyKnownThroughout'
      <4>1. /\ a.known /\ b.known
            /\ a.units = exact.monetary
            /\ \A i \in DOMAIN given : given[i].monetary.currency = a.currency
        BY <3>2, <3>3, <3>6
      <4>2. /\ total'.monetary.known
            /\ total'.monetary.units = exact'.monetary
            /\ total'.monetary.currency = a.currency
            /\ a.currency = b.currency
        BY <3>1, <3>4, <4>1
      <4>3. \A i \in DOMAIN given' : given'[i].monetary.currency = a.currency
        BY <3>5, <4>1, <4>2
      <4> QED BY <3>6, <4>2, <4>3
    <3>7. CASE ~MoneyKnownThroughout'
      BY <3>1, <3>2, <3>3, <3>4, <3>7
    <3> QED BY <3>6, <3>7
  <2> QED BY <2>1, <2>2 DEF TotalsAreExact
<1>8. NeverStronger'
  <2>1. ASSUME NEW m \in Measure, NEW i \in DOMAIN given'
        PROVE  Rank(total'.measures[m].provenance)
                 >= Rank(given'[i].measures[m].provenance)
    <3> DEFINE q == total.measures[m]
               r == v.measures[m]
    <3>1. /\ q \in Quantity /\ r \in Quantity /\ ~Overflows(q, r)
          /\ total'.measures[m] = SumOf(q, r)
      BY <1>1, <1>3, <1>4
    <3>2. /\ Rank(SumOf(q, r).provenance) >= Rank(q.provenance)
          /\ Rank(SumOf(q, r).provenance) >= Rank(r.provenance)
          /\ SumOf(q, r) \in Quantity
      BY <3>1, SumOfFacts
    <3>3. /\ Rank(SumOf(q, r).provenance) \in Nat
          /\ Rank(q.provenance) \in Nat
      BY <3>1, <3>2, QuantityFields, WeakerFacts
    <3>4. CASE given'[i] = v
      BY <3>1, <3>2, <3>4
    <3>5. CASE i \in DOMAIN given /\ given'[i] = given[i]
      <4>1. Rank(q.provenance) >= Rank(given[i].measures[m].provenance)
        BY <1>2, <1>6, <3>5 DEF NeverStronger
      <4>2. Rank(given[i].measures[m].provenance) \in Nat
        <5>1. given[i] \in AccountingVector
          BY <3>5, VectorsTyped DEF IInv, TypeOK
        <5> QED BY <5>1, VectorFields, QuantityFields, WeakerFacts
      <4> HIDE DEF q, r
      <4> QED BY <3>1, <3>2, <3>3, <3>5, <4>1, <4>2
    <3> QED BY <1>5, <3>4, <3>5
  <2>2. ASSUME NEW i \in DOMAIN given'
        PROVE  Rank(total'.monetary.provenance)
                 >= Rank(given'[i].monetary.provenance)
    <3> DEFINE a == total.monetary
               b == v.monetary
    <3>1. /\ a \in Monetary /\ b \in Monetary
          /\ ~Mixed(a, b) /\ ~MicroOverflows(a, b)
          /\ total'.monetary = SumOfMoney(a, b)
      BY <1>1, <1>3, <1>4
    <3>2. /\ Rank(SumOfMoney(a, b).provenance) >= Rank(a.provenance)
          /\ Rank(SumOfMoney(a, b).provenance) >= Rank(b.provenance)
          /\ SumOfMoney(a, b) \in Monetary
      BY <3>1, SumOfMoneyFacts
    <3>3. /\ Rank(SumOfMoney(a, b).provenance) \in Nat
          /\ Rank(a.provenance) \in Nat
      BY <3>1, <3>2, MonetaryFields, WeakerFacts
    <3>4. CASE given'[i] = v
      BY <3>1, <3>2, <3>4
    <3>5. CASE i \in DOMAIN given /\ given'[i] = given[i]
      <4>1. Rank(a.provenance) >= Rank(given[i].monetary.provenance)
        BY <1>2, <1>6, <3>5 DEF NeverStronger
      <4>2. Rank(given[i].monetary.provenance) \in Nat
        <5>1. given[i] \in AccountingVector
          BY <3>5, VectorsTyped DEF IInv, TypeOK
        <5> QED BY <5>1, VectorFields, MonetaryFields, WeakerFacts
      <4> HIDE DEF a, b
      <4> QED BY <3>1, <3>2, <3>3, <3>5, <4>1, <4>2
    <3> QED BY <1>5, <3>4, <3>5
  <2> QED BY <2>1, <2>2 DEF NeverStronger
<1>9. CompleteMeansKnown'
  <2>1. unknowns = 0 <=> AllKnown(total)
    BY <1>2, <1>6 DEF CompleteMeansKnown, Complete, Summed
  <2>2. AllKnown(total)' <=> AllKnown(total) /\ AllKnown(v)
    <3>1. \A m \in Measure : total'.measures[m].known
                               <=> total.measures[m].known /\ v.measures[m].known
      BY <1>1, <1>3, <1>4, SumOfFacts
    <3>2. total'.monetary.known <=> total.monetary.known /\ v.monetary.known
      BY <1>1, <1>3, <1>4, SumOfMoneyFacts
    <3> QED BY <3>1, <3>2 DEF AllKnown
  <2>3. unknowns' = 0 <=> unknowns = 0 /\ AllKnown(v)
    <3>1. unknowns \in Nat
      BY DEF IInv, TypeOK
    <3> QED BY <1>2, <3>1 DEF UnknownFields
  <2> QED BY <1>5, <2>1, <2>2, <2>3 DEF CompleteMeansKnown, Complete
<1>10. FailsForCause'
  BY <1>2 DEF FailsForCause
<1> QED BY <1>5, <1>7, <1>8, <1>9, <1>10 DEF Sound

(* A contribution on which the sum fails gives it cause to. *)
LEMMA SoundFails ==
  ASSUME IInv, NEW v \in Vectors, status = "OK", Fails(v)
  PROVE  Sound'
<1>1. /\ v \in AccountingVector /\ total \in AccountingVector
      /\ v.monetary \in Monetary /\ total.monetary \in Monetary
      /\ \A m \in Measure : /\ v.measures[m] \in Quantity
                            /\ total.measures[m] \in Quantity
  BY VectorsTyped, VectorFields DEF IInv, TypeOK
<1>2. /\ given # << >> /\ given' = Append(given, v)
      /\ AccumulateStatus(total, v) # "OK"
      /\ status' = AccumulateStatus(total, v)
      /\ exact' = Exactly(v)
      /\ Summed
  BY DEF Fails, Summed, Empty
<1>3. /\ \A m \in Measure :
           exact'.measures[m] = exact.measures[m] + v.measures[m].units
      /\ exact'.monetary = exact.monetary + v.monetary.units
  BY <1>2 DEF Exactly
<1>4. /\ ~Empty'
      /\ \A m \in Measure :
           KnownThroughout(m)' <=> KnownThroughout(m) /\ v.measures[m].known
      /\ MoneyKnownThroughout' <=> MoneyKnownThroughout /\ v.monetary.known
      /\ \A i \in DOMAIN given' :
           given'[i] = v \/ (i \in DOMAIN given /\ given'[i] = given[i])
      /\ \A i \in DOMAIN given : i \in DOMAIN given' /\ given'[i] = given[i]
      /\ Len(given) + 1 \in DOMAIN given' /\ given'[Len(given) + 1] = v
      /\ 1 \in DOMAIN given
  BY <1>1, <1>2, AppendFacts DEF IInv
<1>5. TotalsAreExact
  BY DEF IInv, Sound
<1>6. ~Summed'
  BY <1>2 DEF Summed
<1>7. CASE \E m \in Measure : Overflows(total.measures[m], v.measures[m])
  <2>1. PICK m \in Measure : Overflows(total.measures[m], v.measures[m])
    BY <1>7
  <2>2. KnownThroughout(m)' /\ exact'.measures[m] > MaxUnits
    <3>1. /\ total.measures[m].known /\ v.measures[m].known
          /\ total.measures[m].units > MaxUnits - v.measures[m].units
      BY <2>1 DEF Overflows
    <3>2. KnownThroughout(m) /\ total.measures[m].units = exact.measures[m]
      BY <1>2, <1>5, <3>1 DEF TotalsAreExact
    <3>3. v.measures[m].units \in Int /\ total.measures[m].units \in Int
      BY <1>1, QuantityFields, UnitsAssumption
    <3> QED BY <1>3, <1>4, <3>1, <3>2, <3>3, UnitsAssumption
  <2>3. status' = "ACCOUNTING_OVERFLOW"
    BY <1>2, <1>7 DEF AccumulateStatus
  <2>4. FailsForCause'
    BY <2>2, <2>3 DEF FailsForCause
  <2> QED BY <1>4, <1>6, <2>4
        DEF Sound, TotalsAreExact, NeverStronger, CompleteMeansKnown
<1>8. CASE /\ ~\E m \in Measure : Overflows(total.measures[m], v.measures[m])
           /\ Mixed(total.monetary, v.monetary)
  <2>1. status' = "UNSUPPORTED"
    BY <1>2, <1>8 DEF AccumulateStatus
  <2>2. /\ total.monetary.known /\ v.monetary.known
        /\ total.monetary.currency # v.monetary.currency
    BY <1>8 DEF Mixed
  <2>3. /\ MoneyKnownThroughout
        /\ \A i \in DOMAIN given :
             given[i].monetary.currency = total.monetary.currency
    BY <1>2, <1>5, <2>2 DEF TotalsAreExact
  <2>4. MoneyKnownThroughout' /\ ~OneCurrency'
    <3>1. given'[1].monetary.currency # given'[Len(given) + 1].monetary.currency
      BY <1>4, <2>2, <2>3
    <3>2. 1 \in DOMAIN given' /\ Len(given) + 1 \in DOMAIN given'
      BY <1>4
    <3>3. ~OneCurrency'
      BY <3>1, <3>2 DEF OneCurrency
    <3> QED BY <1>4, <2>2, <2>3, <3>3
  <2>5. FailsForCause'
    BY <2>1, <2>4 DEF FailsForCause
  <2> QED BY <1>4, <1>6, <2>5
        DEF Sound, TotalsAreExact, NeverStronger, CompleteMeansKnown
<1>9. CASE /\ ~\E m \in Measure : Overflows(total.measures[m], v.measures[m])
           /\ ~Mixed(total.monetary, v.monetary)
           /\ MicroOverflows(total.monetary, v.monetary)
  <2> DEFINE a == total.monetary
             b == v.monetary
  <2>1. /\ a.known /\ b.known
        /\ \/ b.units > 0 /\ a.units > MaxMicro - b.units
           \/ b.units < 0 /\ a.units < MinMicro - b.units
        /\ a.currency = b.currency
    BY <1>9 DEF MicroOverflows, Mixed
  <2>2. /\ MoneyKnownThroughout
        /\ a.units = exact.monetary
        /\ \A i \in DOMAIN given : given[i].monetary.currency = a.currency
    BY <1>2, <1>5, <2>1 DEF TotalsAreExact
  <2>3. a.units \in Int /\ b.units \in Int
    BY <1>1, MonetaryFields
  <2>4. \A i \in DOMAIN given' : given'[i].monetary.currency = a.currency
    BY <1>4, <2>1, <2>2
  <2>5. status' = "ACCOUNTING_OVERFLOW"
    BY <1>2, <1>9 DEF AccumulateStatus
  <2>6. exact'.monetary = a.units + b.units
    BY <1>3, <2>2
  <2>7. MoneyKnownThroughout'
    BY <1>4, <2>1, <2>2
  <2> HIDE DEF a, b
  <2>8. exact'.monetary \notin MinMicro .. MaxMicro
    BY <2>1, <2>3, <2>6, MicroAssumption
  <2>9. OneCurrency'
    BY <2>4 DEF OneCurrency
  <2>10. FailsForCause'
    BY <2>5, <2>7, <2>8, <2>9 DEF FailsForCause
  <2> QED BY <1>4, <1>6, <2>10
        DEF Sound, TotalsAreExact, NeverStronger, CompleteMeansKnown
<1> QED BY <1>2, <1>7, <1>8, <1>9 DEF AccumulateStatus

-----------------------------------------------------------------------------
LEMMA IInvInit == Init => IInv
<1> SUFFICES ASSUME Init PROVE IInv
  OBVIOUS
<1>1. TypeOK
  BY TypeInit
<1>2. given = << >> /\ status = "OK" /\ Empty
  BY DEF Init, Empty
<1>3. Sound
  BY <1>2 DEF Init, Sound, TotalsAreExact, NeverStronger, CompleteMeansKnown,
              FailsForCause, Summed
<1> QED BY <1>1, <1>3 DEF IInv

LEMMA IInvNext ==
  ASSUME IInv, [Next]_vars
  PROVE  IInv'
<1>1. TypeOK'
  BY TypeNext DEF IInv
<1>2. CASE UNCHANGED vars
  <2>1. Sound'
    BY <1>2 DEF IInv, vars, Sound, Empty, Summed, Complete, TotalsAreExact,
                NeverStronger, CompleteMeansKnown, FailsForCause,
                KnownThroughout, MoneyKnownThroughout, OneCurrency, AllKnown
  <2> QED BY <1>1, <2>1 DEF IInv
<1>3. CASE Next
  BY <1>1, <1>3, SoundFirst, SoundFurther, SoundFails DEF Next, IInv
<1> QED BY <1>2, <1>3

LEMMA IInvAlways == Spec => []IInv
  BY IInvInit, IInvNext, PTL DEF Spec

(* Every total fits its width and every field is one the code can hold.     *)
THEOREM SumsTyped == Spec => []TypeOK
<1>1. IInv => TypeOK
  BY DEF IInv
<1> QED BY <1>1, IInvAlways, PTL

(* A total of accumulate is known exactly when every contribution is, and   *)
(* is then their exact sum, for every width and any number of them.         *)
THEOREM ExactTotals == Spec => []TotalsAreExact
<1>1. IInv => TotalsAreExact
  BY DEF IInv, Sound
<1> QED BY <1>1, IInvAlways, PTL

(* No total claims stronger evidence than its weakest contributor.          *)
THEOREM WeakestWins == Spec => []NeverStronger
<1>1. IInv => NeverStronger
  BY DEF IInv, Sound
<1> QED BY <1>1, IInvAlways, PTL

(* aggregate_accounting says complete exactly of totals known throughout.   *)
THEOREM CompleteTotals == Spec => []CompleteMeansKnown
<1>1. IInv => CompleteMeansKnown
  BY DEF IInv, Sound
<1> QED BY <1>1, IInvAlways, PTL

(* accumulate refuses a contribution only when the exact sum does not fit,  *)
(* or known amounts are in two currencies.                                  *)
THEOREM FailuresHaveCause == Spec => []FailsForCause
<1>1. IInv => FailsForCause
  BY DEF IInv, Sound
<1> QED BY <1>1, IInvAlways, PTL
=============================================================================

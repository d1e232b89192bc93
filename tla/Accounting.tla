----------------------------- MODULE Accounting -----------------------------
(***************************************************************************)
(* Sums of accounting vectors (src/quantity.cpp): accumulate, and the loop  *)
(* of aggregate_accounting with which LedgerSnapshot::accounting adds up    *)
(* the contributions of a scope in the order of their sequences.            *)
(*                                                                          *)
(* A quantity is either known, with units and the provenance of the figure, *)
(* or unknown; units have a fixed width.  The thirteen measures of a vector *)
(* are summed alike, in the order of the vector; money is signed and has a  *)
(* currency.                                                                *)
(***************************************************************************)
EXTENDS Integers, Sequences, FiniteSets

CONSTANTS
  Measure,          \* the measures of an accounting vector
  Currency,         \* the currencies that are named
  NoCurrency,       \* the empty string
  MaxUnits,         \* the largest std::uint64_t
  MaxMicro,         \* the largest std::int64_t
  Vectors,          \* the vectors that may be recorded
  MaxContributions  \* a bound on the contributions of one sum

ASSUME UnitsAssumption == MaxUnits \in Nat

ASSUME MicroAssumption == MaxMicro \in Nat

(* The least std::int64_t *)
MinMicro == -MaxMicro - 1

Provenance ==
  { "Measured", "Reported", "Derived", "Reconstructed", "Estimated",
    "Synthetic", "Unknown" }

(* provenance_rank: the higher, the weaker the evidence. *)
Rank(p) ==
  CASE p = "Measured" -> 0
    [] p = "Reported" -> 1
    [] p = "Derived" -> 2
    [] p = "Reconstructed" -> 3
    [] p = "Estimated" -> 4
    [] p = "Synthetic" -> 5
    [] OTHER -> 6

(* weaker.  (Mutant: the stronger of the two.) *)
Stronger(p, q) == IF Rank(p) >= Rank(q) THEN q ELSE p

Weaker(p, q) == IF Rank(p) >= Rank(q) THEN p ELSE q

(* Measure::known and Measure::unknown: an unknown measure has no units. *)
Unknown(p) == [ known |-> FALSE, units |-> 0, provenance |-> p ]
Known(u, p) == [ known |-> TRUE, units |-> u, provenance |-> p ]

Quantity ==
  { q \in [ known : BOOLEAN, units : 0 .. MaxUnits, provenance : Provenance ] :
      ~q.known => q.units = 0 }

(* MonetaryMeasure.  A known amount names its currency; the fields are      *)
(* public, and an unknown one may have any amount.                          *)
NoAmount(c, p) ==
  [ known |-> FALSE, units |-> 0, currency |-> c, provenance |-> p ]
Amount(n, c, p) ==
  [ known |-> TRUE, units |-> n, currency |-> c, provenance |-> p ]

Monetary ==
  { a \in [ known : BOOLEAN, units : MinMicro .. MaxMicro,
            currency : Currency \cup { NoCurrency }, provenance : Provenance ] :
      a.known => a.currency # NoCurrency }

AccountingVector == [ measures : [ Measure -> Quantity ], monetary : Monetary ]

AnyKnown(v) == v.monetary.known \/ \E m \in Measure : v.measures[m].known

AllKnown(v) == v.monetary.known /\ \A m \in Measure : v.measures[m].known

(* The vectors a ledger holds: AccountingRecorded takes none that is empty. *)
ASSUME VectorsAssumption ==
  Vectors \subseteq { v \in AccountingVector : AnyKnown(v) }

-----------------------------------------------------------------------------
(* add_measure, where it does not overflow.  (Mutant: an unknown measure    *)
(* counts as zero.)                                                         *)
UnknownAsZero(q, r) ==
  IF q.known \/ r.known
  THEN Known(q.units + r.units,
             Weaker("Derived", Weaker(q.provenance, r.provenance)))
  ELSE Unknown(Weaker(q.provenance, r.provenance))

SumOf(q, r) ==
  IF q.known /\ r.known
  THEN Known(q.units + r.units,
             Weaker("Derived", Weaker(q.provenance, r.provenance)))
  ELSE Unknown(Weaker(q.provenance, r.provenance))

Overflows(q, r) == q.known /\ r.known /\ q.units > MaxUnits - r.units

(* The monetary part of accumulate.  (Mutant: currencies are compared       *)
(* before it is looked whether the amounts are known.)                      *)
EverMixed(a, b) == a.currency # b.currency

Mixed(a, b) == a.known /\ b.known /\ a.currency # b.currency

(* (Mutant: an amount that is negative is not checked.) *)
MicroOverflowsAbove(a, b) ==
  a.known /\ b.known /\ b.units > 0 /\ a.units > MaxMicro - b.units

MicroOverflows(a, b) ==
  /\ a.known /\ b.known
  /\ \/ b.units > 0 /\ a.units > MaxMicro - b.units
     \/ b.units < 0 /\ a.units < MinMicro - b.units

SumOfMoney(a, b) ==
  IF a.known /\ b.known
  THEN Amount(a.units + b.units, a.currency,
              Weaker("Derived", Weaker(a.provenance, b.provenance)))
  ELSE NoAmount(IF a.currency # NoCurrency THEN a.currency ELSE b.currency,
                Weaker(a.provenance, b.provenance))

(* accumulate: every measure, then the currencies, then the amounts. *)
AccumulateStatus(t, v) ==
  IF \E m \in Measure : Overflows(t.measures[m], v.measures[m])
  THEN "ACCOUNTING_OVERFLOW"
  ELSE IF Mixed(t.monetary, v.monetary) THEN "UNSUPPORTED"
  ELSE IF MicroOverflows(t.monetary, v.monetary) THEN "ACCOUNTING_OVERFLOW"
  ELSE "OK"

Accumulated(t, v) ==
  [ measures |-> [ m \in Measure |-> SumOf(t.measures[m], v.measures[m]) ],
    monetary |-> SumOfMoney(t.monetary, v.monetary) ]

-----------------------------------------------------------------------------
(* The loop of aggregate_accounting, over contributions that are not known  *)
(* beforehand.                                                              *)
VARIABLES
  given,     \* the contributions the loop has reached
  total,     \* AccountingAggregate::total
  unknowns,  \* contributions_with_unknown_fields
  status,    \* what aggregate_accounting returns if it ends here
  exact      \* history variable: the sums of what was known, unbounded

vars == << given, total, unknowns, status, exact >>

NoVector ==
  [ measures |-> [ m \in Measure |-> Unknown("Unknown") ],
    monetary |-> NoAmount(NoCurrency, "Unknown") ]

Init ==
  /\ given = << >>
  /\ total = NoVector
  /\ unknowns = 0
  /\ status = "OK"
  /\ exact = [ measures |-> [ m \in Measure |-> 0 ], monetary |-> 0 ]

(* (Mutant: a contribution whose money is unknown counts as fully known.)   *)
UnknownMeasures(v) == IF \A m \in Measure : v.measures[m].known THEN 0 ELSE 1

UnknownFields(v) == IF AllKnown(v) THEN 0 ELSE 1

Exactly(v) ==
  [ measures |-> [ m \in Measure |->
                     exact.measures[m] + v.measures[m].units ],
    monetary |-> exact.monetary + v.monetary.units ]

(* The first contribution is the total as it stands. *)
First(v) ==
  /\ given = << >>
  /\ given' = << v >>
  /\ total' = v
  /\ unknowns' = UnknownFields(v)
  /\ exact' = Exactly(v)
  /\ UNCHANGED status

Further(v) ==
  /\ given # << >>
  /\ AccumulateStatus(total, v) = "OK"
  /\ given' = Append(given, v)
  /\ total' = Accumulated(total, v)
  /\ unknowns' = unknowns + UnknownFields(v)
  /\ exact' = Exactly(v)
  /\ UNCHANGED status

(* The sum fails, and there is no aggregate. *)
Fails(v) ==
  /\ given # << >>
  /\ AccumulateStatus(total, v) # "OK"
  /\ given' = Append(given, v)
  /\ status' = AccumulateStatus(total, v)
  /\ exact' = Exactly(v)
  /\ UNCHANGED << total, unknowns >>

Next ==
  /\ status = "OK"
  /\ Len(given) < MaxContributions
  /\ \E v \in Vectors : First(v) \/ Further(v) \/ Fails(v)

Spec == Init /\ [][Next]_vars

Empty == given = << >>
Complete == ~Empty /\ unknowns = 0

-----------------------------------------------------------------------------
TypeOK ==
  /\ given \in Seq(Vectors)
  /\ total \in AccountingVector
  /\ unknowns \in 0 .. Len(given)
  /\ status \in { "OK", "ACCOUNTING_OVERFLOW", "UNSUPPORTED" }
  /\ exact \in [ measures : [ Measure -> Nat ], monetary : Int ]

Summed == ~Empty /\ status = "OK"

KnownThroughout(m) == \A i \in DOMAIN given : given[i].measures[m].known
MoneyKnownThroughout == \A i \in DOMAIN given : given[i].monetary.known
OneCurrency ==
  \A i, j \in DOMAIN given :
    given[i].monetary.currency = given[j].monetary.currency

(* Unknown never becomes a figure and a figure never a wrong one: a total   *)
(* is known exactly when every contribution is, and then it is their exact  *)
(* sum, of amounts in one currency (accumulate, add_measure).               *)
TotalsAreExact ==
  Summed =>
    /\ \A m \in Measure :
         IF KnownThroughout(m)
         THEN total.measures[m].known
                /\ total.measures[m].units = exact.measures[m]
         ELSE total.measures[m].units = 0 /\ ~total.measures[m].known
    /\ IF MoneyKnownThroughout
       THEN /\ total.monetary.known
            /\ total.monetary.units = exact.monetary
            /\ \A i \in DOMAIN given :
                 given[i].monetary.currency = total.monetary.currency
       ELSE ~total.monetary.known

(* "The provenance of a total is never stronger than its weakest            *)
(* contributor" (README.md), in any order of any number of contributions.   *)
NeverStronger ==
  Summed =>
    \A i \in DOMAIN given :
      /\ \A m \in Measure : Rank(total.measures[m].provenance)
                              >= Rank(given[i].measures[m].provenance)
      /\ Rank(total.monetary.provenance) >= Rank(given[i].monetary.provenance)

(* An aggregate that calls itself complete has no unknown quantity, and one *)
(* that does not has one: the count of aggregate_accounting, which looks at *)
(* contributions, agrees with the total.                                    *)
CompleteMeansKnown == Summed => (Complete <=> AllKnown(total))

(* A sum fails for one of two reasons only: the exact sum of figures that   *)
(* are all known does not fit, or known amounts are in two currencies.      *)
FailsForCause ==
  /\ status = "ACCOUNTING_OVERFLOW" =>
       \/ \E m \in Measure :
            KnownThroughout(m) /\ exact.measures[m] > MaxUnits
       \/ /\ MoneyKnownThroughout
          /\ OneCurrency
          /\ exact.monetary \notin MinMicro .. MaxMicro
  /\ status = "UNSUPPORTED" => MoneyKnownThroughout /\ ~OneCurrency
=============================================================================

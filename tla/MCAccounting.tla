---------------------------- MODULE MCAccounting ----------------------------
(***************************************************************************)
(* Up to four contributions with two measures and money, in every order:    *)
(* figures at the ends of the width, unknown ones of weak and of strong     *)
(* provenance, amounts of either sign in two currencies.                    *)
(***************************************************************************)
EXTENDS Accounting

SomeQuantities ==
  { Known(0, "Measured"), Known(MaxUnits, "Estimated"), Unknown("Measured") }

SomeMoney ==
  { NoAmount(NoCurrency, "Unknown"), [ NoAmount("EUR", "Measured") EXCEPT !.units = 1 ],
    Amount(MinMicro, "EUR", "Measured"), Amount(MaxMicro, "EUR", "Reported"),
    Amount(1, "USD", "Synthetic") }

SomeVectors ==
  { v \in [ measures : [ Measure -> SomeQuantities ], monetary : SomeMoney ] :
      AnyKnown(v) }
=============================================================================

---------------------------- MODULE MCPromoUsage ----------------------------
(***************************************************************************)
(* PromoUsage for TLC: fares above, at and below the minimum of the total, *)
(* a code with a limit and one without.                                    *)
(***************************************************************************)
EXTENDS PromoUsage, TLC

CONSTANTS b1, b2, c1, c2

\* 1025 minor units, and 150 of which a fixed discount would take everything.
Fares ==
    b1 :> [base |-> 900, tax |-> 120, fee |-> 5, airline |-> "BG", passengers |-> 2]
    @@ b2 :> [base |-> 120, tax |-> 30, fee |-> 0, airline |-> "BS", passengers |-> 1]

\* 45.5 percent, cut to 30, and 2 units at most; 1.995 units.
CodeTerms ==
    c1 :> [type |-> "percentage", value |-> 455000, max |-> 200]
    @@ c2 :> [type |-> "fixed", value |-> 19950, max |-> 0]

Limits == c1 :> 1 @@ c2 :> 0

Percent == [calculation |-> "percentage", value |-> 75000, airline |-> "any"]
PerHead == [calculation |-> "per_passenger_fixed", value |-> 5050, airline |-> "BG"]
Rebate == [calculation |-> "fixed", value |-> -10000, airline |-> "any"]

Rules == {{}, {Percent, PerHead}, {Rebate}}
=============================================================================

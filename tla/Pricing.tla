------------------------------ MODULE Pricing ------------------------------
(***************************************************************************)
(* PriceCalculationService::quote in integer minor units, and how the      *)
(* pages show an amount (money.ts).                                        *)
(*                                                                         *)
(* The value of a rule or of a promo code is decimal(12,4) and is given    *)
(* here in units of 1/10000.  PHP computes with floats: what they add to   *)
(* the rounding of exact fractions is left out.                            *)
(***************************************************************************)
EXTENDS Integers, Sequences, Functions

CONSTANTS
    MinimumTotal,   \* pricing.minimum_total_minor
    MaxPercentage   \* pricing.max_percentage_discount, in units of 1/10000

ASSUME PricingAssumption == MinimumTotal \in Nat /\ MaxPercentage \in Nat

Least(a, b) == IF a <= b THEN a ELSE b
Greatest(a, b) == IF a >= b THEN a ELSE b

\* round(): halves away from zero; d is positive.
RoundDiv(n, d) ==
    IF n >= 0 THEN (2 * n + d) \div (2 * d) ELSE -((2 * d - 2 * n - d) \div (2 * d))

-----------------------------------------------------------------------------
Calculations == {"fixed", "percentage", "per_passenger_fixed"}

FixedAmount(value) == RoundDiv(value, 100)
PercentageOf(amount, value) == RoundDiv(amount * value, 1000000)

\* A fare: what the provider asks, its airline and its passengers.
Subtotal(fare) == Greatest(0, fare.base + fare.tax + fare.fee)

\* matchesRule, by the airline alone.
Matches(rule, fare) == rule.airline \in {"any", fare.airline}

\* calculateRuleAmount; a rule that gives nothing positive is not applied.
RuleAmount(rule, fare) ==
    LET amount ==
          CASE rule.calculation = "fixed" -> FixedAmount(rule.value)
            [] rule.calculation = "percentage" -> PercentageOf(Subtotal(fare), rule.value)
            [] rule.calculation = "per_passenger_fixed" ->
                 FixedAmount(rule.value) * Greatest(1, fare.passengers)
    IN  IF Matches(rule, fare) THEN Greatest(0, amount) ELSE 0

Markup(rules, fare) ==
    FoldFunction(LAMBDA a, b : a + b, 0, [rule \in rules |-> RuleAmount(rule, fare)])

\* calculatePromoDiscount before its bounds.  max = 0: no maximum.
PromoAmount(terms, amount) ==
    LET discount == IF terms.type = "fixed" THEN FixedAmount(terms.value)
                    ELSE PercentageOf(amount, Least(terms.value, MaxPercentage))
    IN  IF terms.max # 0 THEN Least(discount, terms.max) ELSE discount

\* Bug: the discount is bounded by the amount and not by what is left of it.
BugDiscount(discount, amount) == Greatest(0, Least(discount, amount))

\* What the discount may take from an amount: the minimum is left.
Discount(discount, amount) == Greatest(0, Least(discount, amount - MinimumTotal))

TotalOf(amount, discount) == Greatest(MinimumTotal, amount - discount)

\* PriceQuoteData, of a fare with its markup and the discount a promo code promises.
QuoteOf(fare, markup, promised) ==
    LET amount == Subtotal(fare) + markup
        discount == Discount(promised, amount)
    IN  [base |-> fare.base, tax |-> fare.tax, fee |-> fare.fee, markup |-> markup,
         discount |-> discount, total |-> TotalOf(amount, discount)]

Quote(fare, rules, terms) ==
    LET markup == Markup(rules, fare)
    IN  QuoteOf(fare, markup, PromoAmount(terms, Subtotal(fare) + markup))

NoTerms == [type |-> "fixed", value |-> 0, max |-> 0]

\* breakdown
RowsOf(quote) ==
    << [type |-> "base", amount |-> quote.base],
       [type |-> "tax", amount |-> quote.tax],
       [type |-> "fee", amount |-> quote.fee],
       [type |-> "markup", amount |-> quote.markup],
       [type |-> "discount", amount |-> -quote.discount],
       [type |-> "total", amount |-> quote.total] >>

-----------------------------------------------------------------------------
(* What the customer sees. *)

\* formatMoney: whole units.
Displayed(minor) == RoundDiv(minor, 100)

\* The rows of PriceBreakdown and of the checkout page, above the total.
DisplayedRows(quote) == [i \in 1 .. 5 |-> Displayed(RowsOf(quote)[i].amount)]
=============================================================================

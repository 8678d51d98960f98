----------------------------- MODULE PromoUsage -----------------------------
(***************************************************************************)
(* Promo codes, their usage limit and the stored price of a booking:       *)
(* ApplyPromoCodeToBookingAction with PromoCodeService.                    *)
(*                                                                         *)
(* A request first looks for a code without any lock, then runs the        *)
(* transaction that locks the booking and the code and decides again.      *)
(* Meanwhile other requests use the code up, the booking is paid, its      *)
(* offer expires, and an administrator switches codes and markup rules.    *)
(***************************************************************************)
EXTENDS Pricing, FiniteSets

CONSTANTS
    Bookings,
    Fare,        \* Fare[b]: the provider's fare of booking b
    Codes,
    Terms,       \* Terms[c]: type, value and max of code c
    UsageLimit,  \* UsageLimit[c]: 0 is no limit
    RuleSets,    \* the sets of active markup rules
    Requests

ASSUME PromoAssumption ==
    /\ IsFiniteSet(Bookings)
    /\ UsageLimit \in [Codes -> Nat]
    /\ "none" \notin Codes

\* The columns of an offer and of max_discount_minor are unsigned; a rule or a code may
\* have any value.
ASSUME PriceAssumption ==
    /\ Fare \in [Bookings -> [base : Nat, tax : Nat, fee : Nat, airline : STRING,
                             passengers : Nat]]
    /\ Terms \in [Codes -> [type : {"fixed", "percentage"}, value : Int, max : Nat]]
    /\ \A active \in RuleSets :
          /\ IsFiniteSet(active)
          /\ active \subseteq [calculation : Calculations, value : Int, airline : STRING]

VARIABLES
    bookings,  \* status, applied code, stored quote, price rows, expired offer
    codes,     \* promo_codes: active, used_count
    rules,     \* the active markup rules
    requests   \* "idle", or the booking and the code that was found

vars == <<bookings, codes, rules, requests>>

Idle == [booking |-> "none", code |-> "none"]

TermsOf(c) == IF c = "none" THEN NoTerms ELSE Terms[c]

\* CreateBookingFromOfferAction: quoted without a code.
NewBooking(b, active) ==
    [status |-> "passenger_details_added", code |-> "none", expired |-> FALSE,
     quote |-> Quote(Fare[b], active, NoTerms),
     rows |-> RowsOf(Quote(Fare[b], active, NoTerms))]

Init ==
    /\ rules \in RuleSets
    /\ bookings = [b \in Bookings |-> NewBooking(b, rules)]
    /\ codes = [c \in Codes |-> [active |-> TRUE, used |-> 0]]
    /\ requests = [r \in Requests |-> Idle]

-----------------------------------------------------------------------------
LimitReached(c) == UsageLimit[c] # 0 /\ codes[c].used >= UsageLimit[c]

IsCurrentlyActive(c) == codes[c].active /\ ~LimitReached(c)

\* findUsable: no lock is held when it answers.
FindUsable(r, b, c) ==
    /\ requests[r] = Idle
    /\ IsCurrentlyActive(c)
    /\ requests' = [requests EXCEPT ![r] = [booking |-> b, code |-> c]]
    /\ UNCHANGED <<bookings, codes, rules>>

\* Bug: the status is not read again under the lock.
BugStillUnpaid(b) == TRUE

StillUnpaid(b) == bookings[b].status \in {"passenger_details_added", "payment_pending"}

\* Bug: what findUsable saw is not checked again.
BugStillUsable(b, c) == TRUE

\* isCurrentlyActive of the locked row, and the limit when the code is new to the booking.
StillUsable(b, c) ==
    /\ IsCurrentlyActive(c)
    /\ bookings[b].code # c => ~LimitReached(c)

Refused(b, c) == ~StillUnpaid(b) \/ bookings[b].expired \/ ~StillUsable(b, c)

\* Bug: only the first code of a booking is counted.
BugCounts(b, c) == bookings[b].code = "none"

Counts(b, c) == bookings[b].code # c

\* priceBreakdowns()->delete() and create().
StoredRows(b, quote) == RowsOf(quote)

\* The transaction.
Apply(r) ==
    LET b == requests[r].booking
        c == requests[r].code
        quote == Quote(Fare[b], rules, Terms[c])
    IN
    /\ requests[r] # Idle
    /\ requests' = [requests EXCEPT ![r] = Idle]
    /\ IF Refused(b, c) THEN UNCHANGED <<bookings, codes>>
       ELSE /\ codes' = [codes EXCEPT ![c].used = @ + (IF Counts(b, c) THEN 1 ELSE 0)]
            /\ bookings' = [bookings EXCEPT ![b].code = c, ![b].quote = quote,
                                            ![b].rows = StoredRows(b, quote)]
    /\ UNCHANGED rules

\* CreateStripePaymentIntentAction and MarkPaymentSucceededAction; see PaymentCheckout.
SetStatus(b, from, to) ==
    /\ bookings[b].status = from
    /\ bookings' = [bookings EXCEPT ![b].status = to]
    /\ UNCHANGED <<codes, rules, requests>>

Prepare(b) ==
    /\ ~bookings[b].expired
    /\ SetStatus(b, "passenger_details_added", "payment_pending")

Pay(b) == SetStatus(b, "payment_pending", "payment_succeeded")

OfferExpires(b) ==
    /\ ~bookings[b].expired
    /\ bookings' = [bookings EXCEPT ![b].expired = TRUE]
    /\ UNCHANGED <<codes, rules, requests>>

\* PromoCodeResource and MarkupRuleResource.  Bound: the limit and the terms are not edited.
SwitchCode(c) ==
    /\ codes' = [codes EXCEPT ![c].active = ~@]
    /\ UNCHANGED <<bookings, rules, requests>>

ChangeRules ==
    /\ rules' \in RuleSets \ {rules}
    /\ UNCHANGED <<bookings, codes, requests>>

Next ==
    \/ \E r \in Requests, b \in Bookings, c \in Codes : FindUsable(r, b, c)
    \/ \E r \in Requests : Apply(r)
    \/ \E b \in Bookings : Prepare(b) \/ Pay(b) \/ OfferExpires(b)
    \/ \E c \in Codes : SwitchCode(c)
    \/ ChangeRules

Spec == Init /\ [][Next]_vars

-----------------------------------------------------------------------------
(* Properties. *)

\* A code is not used more often than its limit allows, although it is looked up before
\* the lock and two bookings may have found it with one use left.
UsedWithinLimit == \A c \in Codes : UsageLimit[c] # 0 => codes[c].used <= UsageLimit[c]

Holders(c) == {b \in Bookings : bookings[b].code = c}

\* Every booking that holds a code was counted for it, whatever codes it held before.
HoldersAreCounted == \A c \in Codes : Cardinality(Holders(c)) <= codes[c].used

RowsTotal(rows) ==
    FoldFunction(LAMBDA row, sum : IF row.type = "total" THEN sum ELSE sum + row.amount,
                 0, rows)

\* The price rows a customer sees on the checkout page add up to the total he is charged:
\* the rows of an earlier quote are gone, and neither a percentage nor the minimum of the
\* total opens a gap, unless the fare itself is below the minimum.
PriceRowsAddUp ==
    \A b \in Bookings :
        Subtotal(Fare[b]) >= MinimumTotal => RowsTotal(bookings[b].rows) = bookings[b].quote.total

\* A price that was paid does not change any more, although the code was looked up while
\* the booking was unpaid.
PaidPriceIsFixed ==
    [][\A b \in Bookings :
          bookings[b].status = "payment_succeeded" => bookings'[b].quote = bookings[b].quote]_vars
=============================================================================

-------------------------- MODULE PaymentCheckout --------------------------
(***************************************************************************)
(* The checkout of one booking: passenger details, promo code, payment     *)
(* intents at Stripe, Stripe's webhook events and the scheduled job that   *)
(* cancels abandoned payments, until the payment is recorded and           *)
(* ConfirmBookingJob is queued (Finalization goes on from there).          *)
(*                                                                         *)
(* Handlers that lock the rows they write are one step per transaction.    *)
(* Three do not: the webhook for events other than succeeded, the clean-up *)
(* job and the storing of passenger details check a status they loaded     *)
(* before and write without reading it again.  For those the load and the  *)
(* write are two steps; Overlap says whether others may come in between.   *)
(***************************************************************************)
EXTENDS BookingStatus, PaymentStatus, Integers, Sequences

CONSTANTS
    MaxPayments,      \* bound: payment rows of the booking
    MaxEvents,        \* bound: webhook events of one intent
    Unheard,          \* bound: the statuses whose events do not arrive
    IntentRequests,   \* requests for a payment intent in flight
    Deliveries,       \* webhook deliveries in flight
    DetailsRequests,  \* requests that store passenger details in flight
    Overlap           \* may steps come between an unlocked load and its write?

ASSUME CheckoutAssumption ==
    /\ MaxPayments \in Nat \ {0}
    /\ MaxEvents \in Nat
    /\ Unheard \subseteq IntentStatuses \ {"succeeded"}
    /\ Overlap \in BOOLEAN

PaymentIds == 1 .. MaxPayments

VARIABLES
    booking,   \* the row of table bookings; confirm: ConfirmBookingJob was queued
    payments,  \* rows of table payments; linked: provider_payment_id is set
    recorded,  \* events in table payment_events (provider_event_id is unique)
    intents,   \* at Stripe: the intent made for a payment (its idempotency key)
    events,    \* at Stripe: per intent, the statuses its events carry, in order
    requests,  \* per intent request: where it is and what it holds
    webhooks,  \* per delivery: the event and the payment status it loaded
    details,   \* per details request: the booking status it loaded, or "none"
    cleanup,   \* payments the clean-up job has selected and not cancelled yet
    aged       \* payments older than abandoned_payment_minutes

database == <<booking, payments, recorded>>
stripe   == <<intents, events>>
vars == <<booking, payments, recorded, intents, events, requests, webhooks,
          details, cleanup, aged>>

-----------------------------------------------------------------------------
(* Data.                                                                    *)

CheckoutStatuses == { "offer_selected", "passenger_details_added",
                      "payment_pending", "payment_succeeded" }

Totals == {"full", "reduced"}      \* total_amount_minor, before and after repricing

NoPayment == [status |-> "none", amount |-> "full", linked |-> FALSE]
NoIntent  == [status |-> "absent", amount |-> "full"]

Answers == {MapStripeStatus(s) : s \in IntentStatuses}

NoRequest == [stage |-> "idle", payment |-> 0, retrieve |-> FALSE,
              total |-> "full", answer |-> "processing"]

NoDelivery == [stage |-> "idle", payment |-> 0, event |-> 0, seen |-> "created"]

BookingRows == [status : CheckoutStatuses, total : Totals,
                expired : BOOLEAN, confirm : BOOLEAN]

PaymentRows == [status : PaymentStatuses \union {"none"}, amount : Totals,
                linked : BOOLEAN]

Intents == [status : IntentStatuses \union {"absent"}, amount : Totals]

RequestStates == [stage : {"idle", "call", "link"}, payment : 0 .. MaxPayments,
                  retrieve : BOOLEAN, total : Totals, answer : Answers]

DeliveryStates == [stage : {"idle", "loaded"}, payment : 0 .. MaxPayments,
                   event : 0 .. MaxEvents, seen : PaymentStatuses]

TypeOK ==
    /\ booking \in BookingRows
    /\ payments \in [PaymentIds -> PaymentRows]
    /\ recorded \subseteq PaymentIds \X (1 .. MaxEvents)
    /\ intents \in [PaymentIds -> Intents]
    /\ events \in [PaymentIds -> Seq(IntentStatuses)]
    /\ \A p \in PaymentIds : Len(events[p]) <= MaxEvents
    /\ requests \in [IntentRequests -> RequestStates]
    /\ webhooks \in [Deliveries -> DeliveryStates]
    /\ details \in [DetailsRequests -> CheckoutStatuses \union {"none"}]
    /\ cleanup \subseteq PaymentIds
    /\ aged \subseteq PaymentIds

Init ==
    /\ booking = [status |-> "offer_selected", total |-> "full",
                  expired |-> FALSE, confirm |-> FALSE]
    /\ payments = [p \in PaymentIds |-> NoPayment]
    /\ recorded = {}
    /\ intents = [p \in PaymentIds |-> NoIntent]
    /\ events = [p \in PaymentIds |-> <<>>]
    /\ requests = [r \in IntentRequests |-> NoRequest]
    /\ webhooks = [d \in Deliveries |-> NoDelivery]
    /\ details = [q \in DetailsRequests |-> "none"]
    /\ cleanup = {}
    /\ aged = {}

Open(p) == payments[p].status \in OpenStatuses

-----------------------------------------------------------------------------
(* CreateStripePaymentIntentAction: a transaction under the booking's row   *)
(* lock, the call of Stripe outside of it, a transaction under the          *)
(* payment's row lock.                                                      *)

\* Bug: the price may be paid before the passengers are known.
BugPayAnyTime(s) == s \in {"offer_selected", "passenger_details_added", "payment_pending"}

Payable(s) == s \in {"passenger_details_added", "payment_pending"}

\* Bug: a payment that Stripe is processing is not found again.
BugForgetsProcessing(p) ==
    payments[p].status \in {"created", "requires_payment_method",
                            "requires_action", "succeeded"}

Reusable(p) == Open(p) \/ payments[p].status = "succeeded"

Latest(p)  == Reusable(p) /\ \A q \in PaymentIds : Reusable(q) => q <= p
NextId(p)  == /\ payments[p].status = "none"
              /\ \A q \in 1 .. (p - 1) : payments[q].status # "none"

\* The latest reusable payment, otherwise a new row.  A payment that is succeeded
\* already needs no intent.
StartIntent(r) ==
    LET Prepare(p, row) ==
          /\ payments' = [payments EXCEPT ![p] = row]
          /\ requests' =
                IF row.status = "succeeded" THEN requests
                ELSE [requests EXCEPT ![r] =
                        [stage |-> "call", payment |-> p, retrieve |-> row.linked,
                         total |-> booking.total, answer |-> "processing"]]
    IN
    /\ requests[r] = NoRequest
    /\ Payable(booking.status) /\ ~booking.expired
    /\ booking' = [booking EXCEPT !.status = "payment_pending"]
    /\ \/ \E p \in PaymentIds : Latest(p) /\ Prepare(p, payments[p])
       \/ /\ \A p \in PaymentIds : ~Reusable(p)
          /\ \E p \in PaymentIds :
               /\ NextId(p)
               /\ Prepare(p, [status |-> "created", amount |-> booking.total,
                              linked |-> FALSE])
    /\ UNCHANGED <<recorded, stripe, webhooks, details, cleanup, aged>>

\* Bug: the total is read again when Stripe is called.
BugChargesTotalOfNow(r) == booking.total

ChargedAmount(r) == requests[r].total

\* A first call creates the intent; a repeated one with the same idempotency key
\* gets the first answer again.
CallStripe(r) ==
    LET p == requests[r].payment
        Answered(s) == requests' = [requests EXCEPT ![r].stage = "link", ![r].answer = s]
    IN
    /\ requests[r].stage = "call"
    /\ \/ /\ requests[r].retrieve
          /\ Answered(MapStripeStatus(intents[p].status))
          /\ UNCHANGED intents
       \/ /\ ~requests[r].retrieve
          /\ Answered("requires_payment_method")
          /\ intents' = IF intents[p] = NoIntent
                        THEN [intents EXCEPT ![p] = [status |-> "requires_payment_method",
                                                     amount |-> ChargedAmount(r)]]
                        ELSE intents
    /\ UNCHANGED <<database, events, webhooks, details, cleanup, aged>>

\* The row is read again under its lock; the customer gets the client secret
\* whatever the row's status is by then.
LinkIntent(r) ==
    LET p == requests[r].payment
        answer == requests[r].answer
        current == payments[p].status
    IN
    /\ requests[r].stage = "link"
    /\ payments' = [payments EXCEPT
            ![p].linked = TRUE,
            ![p].status = IF CanTransitionPayment(current, answer) THEN answer ELSE current]
    /\ requests' = [requests EXCEPT ![r] = NoRequest]
    /\ UNCHANGED <<booking, recorded, stripe, webhooks, details, cleanup, aged>>

\* Stripe is unreachable, or the process dies before the second transaction.
RequestFails(r) ==
    /\ requests[r].stage \in {"call", "link"}
    /\ requests' = [requests EXCEPT ![r] = NoRequest]
    /\ UNCHANGED <<database, stripe, webhooks, details, cleanup, aged>>

-----------------------------------------------------------------------------
(* Stripe and the customer.                                                 *)

\* Where an intent can go by itself, by what the customer does with the client
\* secret, or by hand in Stripe's dashboard.
IntentMoves(s) ==
    CASE s = "requires_payment_method" -> IntentStatuses
      [] s = "requires_confirmation"   -> {"requires_action", "processing", "succeeded", "canceled"}
      [] s = "requires_action"         -> {"requires_payment_method", "processing", "succeeded", "canceled"}
      [] s = "processing"              -> {"requires_payment_method", "succeeded"}
      [] OTHER                         -> {}

\* Every move but the one to requires_confirmation sends an event.  Bound: those of Unheard
\* do not arrive and are not listed.
StripeMoves(p) ==
    /\ payments[p].linked
    /\ \E s \in IntentMoves(intents[p].status) :
         /\ intents' = [intents EXCEPT ![p].status = s]
         /\ IF s \in {"requires_confirmation"} \union Unheard
            THEN UNCHANGED events
            ELSE /\ Len(events[p]) < MaxEvents
                 /\ events' = [events EXCEPT ![p] = Append(@, s)]
    /\ UNCHANGED <<database, requests, webhooks, details, cleanup, aged>>

-----------------------------------------------------------------------------
(* StripeWebhookController.  Events arrive in any order, more than once.    *)

\* The event is not recorded yet; its payment is found and loaded, unlocked.
LoadWebhook(d, p, i) ==
    /\ webhooks[d] = NoDelivery
    /\ i \in DOMAIN events[p]
    /\ <<p, i>> \notin recorded
    /\ payments[p].linked
    /\ webhooks' = [webhooks EXCEPT ![d] = [stage |-> "loaded", payment |-> p, event |-> i,
                                            seen |-> payments[p].status]]
    /\ UNCHANGED <<database, stripe, requests, details, cleanup, aged>>

EventStatus(d) == events[webhooks[d].payment][webhooks[d].event]
EventId(d)     == <<webhooks[d].payment, webhooks[d].event>>

Loaded(d, succeeded) ==
    webhooks[d].stage = "loaded" /\ ((EventStatus(d) = "succeeded") <=> succeeded)

Answered200(d) == webhooks' = [webhooks EXCEPT ![d] = NoDelivery]

\* Bug: the payment takes the booking straight into finalization.
BugGoesStraightOn(s) == IF s = "payment_pending" THEN "booking_confirming" ELSE s

StatusAfterPayment(s) == IF s = "payment_pending" THEN "payment_succeeded" ELSE s

\* Bug: a payment that is already succeeded needs nothing more.
BugSucceededIsDone(p) ==
    /\ payments[p].status # "succeeded"
    /\ CanTransitionPayment(payments[p].status, "succeeded")

MaySucceed(p) ==
    \/ payments[p].status = "succeeded"
    \/ CanTransitionPayment(payments[p].status, "succeeded")

\* MarkPaymentSucceededAction.  It checks for a duplicate once more, before it
\* takes the locks: that check may see the event recorded or just miss it.  A
\* second record of an event violates the unique index.
WebhookSucceeded(d) ==
    LET p == webhooks[d].payment IN
    /\ Loaded(d, TRUE)
    /\ MaySucceed(p)
    /\ \/ /\ payments[p].status = "succeeded"
          /\ UNCHANGED <<payments, recorded>>
       \/ /\ payments[p].status # "succeeded" /\ EventId(d) \notin recorded
          /\ payments' = [payments EXCEPT ![p].status = "succeeded"]
          /\ recorded' = recorded \union {EventId(d)}
    /\ booking' = [booking EXCEPT !.status = StatusAfterPayment(@), !.confirm = TRUE]
    /\ Answered200(d)
    /\ UNCHANGED <<stripe, requests, details, cleanup, aged>>

\* The event is a duplicate after all, or the transaction throws because the
\* payment cannot succeed any more: the answer is 500 and Stripe tries again.
WebhookSucceededIgnored(d) ==
    /\ Loaded(d, TRUE)
    /\ EventId(d) \in recorded \/ ~MaySucceed(webhooks[d].payment)
    /\ Answered200(d)
    /\ UNCHANGED <<database, stripe, requests, details, cleanup, aged>>

\* Bug: any other status is written.
BugWritesAnyStatus(seen, next) == seen # next

StatusApplies(seen, next) == seen # next /\ CanTransitionPayment(seen, next)

\* The other events: the check looks at the loaded status, the write does not
\* look again.  A second record of the event fails and undoes the write.
WebhookStatus(d) ==
    LET p == webhooks[d].payment
        next == MapStripeStatus(EventStatus(d))
    IN
    /\ Loaded(d, FALSE)
    /\ IF StatusApplies(webhooks[d].seen, next) /\ EventId(d) \notin recorded
       THEN /\ payments' = [payments EXCEPT ![p].status = next]
            /\ recorded' = recorded \union {EventId(d)}
       ELSE UNCHANGED <<payments, recorded>>
    /\ Answered200(d)
    /\ UNCHANGED <<booking, stripe, requests, details, cleanup, aged>>

-----------------------------------------------------------------------------
(* ApplyPromoCodeToBookingAction: one transaction under the booking's lock. *)

\* Bug: a payment that Stripe is processing is left open.
BugSparesProcessing(p) == Open(p) /\ payments[p].status # "processing"

CancelledByPromo(p) == Open(p)

ApplyPromo ==
    /\ Payable(booking.status) /\ ~booking.expired
    /\ \A p \in PaymentIds : payments[p].status # "succeeded"
    /\ \E total \in Totals : booking' = [booking EXCEPT !.total = total]
    /\ payments' = [p \in PaymentIds |->
            IF CancelledByPromo(p) THEN [payments[p] EXCEPT !.status = "cancelled"]
            ELSE payments[p]]
    /\ UNCHANGED <<recorded, stripe, requests, webhooks, details, cleanup, aged>>

-----------------------------------------------------------------------------
(* StorePassengerDetailsAction, with the booking the router has loaded.     *)

LoadDetails(q) ==
    /\ details[q] = "none"
    /\ booking.status \in {"offer_selected", "passenger_details_added"}
    /\ ~booking.expired
    /\ details' = [details EXCEPT ![q] = booking.status]
    /\ UNCHANGED <<database, stripe, requests, webhooks, cleanup, aged>>

StoreDetails(q) ==
    /\ details[q] # "none"
    /\ booking' = IF details[q] = "offer_selected"
                  THEN [booking EXCEPT !.status = "passenger_details_added"]
                  ELSE booking
    /\ details' = [details EXCEPT ![q] = "none"]
    /\ UNCHANGED <<payments, recorded, stripe, requests, webhooks, cleanup, aged>>

-----------------------------------------------------------------------------
(* DeleteAbandonedPaymentSessionsJob, and time.                             *)

SelectAbandoned ==
    /\ cleanup = {}
    /\ Payable(booking.status)
    /\ cleanup' = {p \in aged : Open(p)}
    /\ UNCHANGED <<database, stripe, requests, webhooks, details, aged>>

CancelAbandoned(p) ==
    /\ p \in cleanup
    /\ payments' = [payments EXCEPT ![p].status = "cancelled"]
    /\ cleanup' = cleanup \ {p}
    /\ UNCHANGED <<booking, recorded, stripe, requests, webhooks, details, aged>>

\* Nothing the program does takes as long as the two hours after which a payment
\* counts as abandoned.
NothingInFlight ==
    /\ \A r \in IntentRequests : requests[r] = NoRequest
    /\ \A d \in Deliveries : webhooks[d] = NoDelivery
    /\ \A q \in DetailsRequests : details[q] = "none"
    /\ cleanup = {}

PaymentsAge ==
    /\ NothingInFlight
    /\ aged' = {p \in PaymentIds : payments[p] # NoPayment}
    /\ UNCHANGED <<database, stripe, requests, webhooks, details, cleanup>>

OfferExpires ==
    /\ booking' = [booking EXCEPT !.expired = TRUE]
    /\ UNCHANGED <<payments, recorded, stripe, requests, webhooks, details, cleanup, aged>>

-----------------------------------------------------------------------------
(* The unlocked writes come after an unlocked load.                         *)
UnlockedLoad ==
    \/ \E d \in Deliveries : webhooks[d] # NoDelivery
    \/ \E q \in DetailsRequests : details[q] # "none"
    \/ cleanup # {}

WriteAfterLoad ==
    \/ \E d \in Deliveries :
         WebhookSucceeded(d) \/ WebhookSucceededIgnored(d) \/ WebhookStatus(d)
    \/ \E q \in DetailsRequests : StoreDetails(q)
    \/ \E p \in PaymentIds : CancelAbandoned(p)

OtherStep ==
    \/ \E r \in IntentRequests :
         StartIntent(r) \/ CallStripe(r) \/ LinkIntent(r) \/ RequestFails(r)
    \/ \E d \in Deliveries, p \in PaymentIds, i \in 1 .. MaxEvents : LoadWebhook(d, p, i)
    \/ \E p \in PaymentIds : StripeMoves(p)
    \/ ApplyPromo
    \/ \E q \in DetailsRequests : LoadDetails(q)
    \/ SelectAbandoned \/ PaymentsAge \/ OfferExpires

Next ==
    \/ WriteAfterLoad
    \/ (Overlap \/ ~UnlockedLoad) /\ OtherStep

Spec == Init /\ [][Next]_vars

\* A process that has loaded goes on to its write, and Stripe repeats the delivery
\* of a succeeded event until it is answered.
Fairness ==
    /\ WF_vars(WriteAfterLoad)
    /\ \A p \in PaymentIds, i \in 1 .. MaxEvents :
         SF_vars(\E d \in Deliveries :
                    /\ Overlap \/ ~UnlockedLoad
                    /\ LoadWebhook(d, p, i) /\ events[p][i] = "succeeded")

FairSpec == Spec /\ Fairness

-----------------------------------------------------------------------------
(* Properties that hold however the handlers overlap.                       *)

Charged(p) == intents[p].status = "succeeded"

\* A payment counts as succeeded only if Stripe has the customer's money, and a
\* booking counts as paid, or is handed to finalization, only if some payment of
\* it does: late, repeated and reordered events cannot make it so.
NothingForFree ==
    /\ \A p \in PaymentIds : payments[p].status = "succeeded" => Charged(p)
    /\ booking.status = "payment_succeeded" \/ booking.confirm
          => \E p \in PaymentIds : Charged(p)

\* The customer is asked for the amount of the payment row, although the total may
\* change between the transaction that reads it and the call of Stripe.
IntentAmountIsPaymentAmount ==
    \A p \in PaymentIds : intents[p] # NoIntent => intents[p].amount = payments[p].amount

-----------------------------------------------------------------------------
(* Properties that need the unlocked handlers not to overlap.               *)

\* The customer cannot be sent to two payments of one booking.
OneLivePayment == \A p, q \in PaymentIds : Reusable(p) /\ Reusable(q) => p = q

\* A paid booking was paid by a succeeded payment of its present total.
PaidTheTotal ==
    booking.status = "payment_succeeded" =>
        \E p \in PaymentIds : /\ payments[p].status = "succeeded"
                              /\ payments[p].amount = booking.total

\* The status column of every payment follows the transition table.
Life == INSTANCE PaymentLife WITH status <- [p \in PaymentIds |-> payments[p].status]
PaymentLifeSpec == Life!Spec

\* The status column of the booking follows its transition table.
Lifecycle == INSTANCE BookingLifecycle
                 WITH status <- booking.status, Entry <- "offer_selected"
LifecycleSpec == Lifecycle!Spec

\* A charge for a payment that is not cancelled takes the booking on, although an
\* intent request may find out about the charge before the webhook does.
ChargeIsTakenUp ==
    \A p \in PaymentIds :
        (Charged(p) /\ Reusable(p))
            ~> (booking.status = "payment_succeeded" \/ payments[p].status = "cancelled")
=============================================================================

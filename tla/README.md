# Verification of the flight-ticket reservation service

TLA+ models of this repository (a Laravel application with a React front end that
searches flights, takes a payment through Stripe and orders the ticket at Duffel
or Amadeus), from the search form to the ticket, with the support chat beside it;
the TLC runs that check them and the theorems TLAPS proves.

    tlc -config fin_one_worker.cfg MCFinalization     # one of the runs below
    tlapm FinalizationProofs.tla                      # the proofs
    tlapm PaymentCheckoutProofs.tla                   # likewise OneWorkerProofs,
                                                      # CheckoutPageProofs, SupportChatProofs,
                                                      # PromoUsageProofs, BookingJourneyProofs

## The system

| Part | State | Operations | Talks to |
|---|---|---|---|
| Search and offers (`Actions/Flight`, `Services/Flight`) | `flight_searches`, `flight_offers` with an expiry | store a search, revalidate an offer | providers |
| Booking creation, passenger details (`Actions/Booking`) | `bookings`, `booking_passengers` | create from an offer, store passengers | session, offers |
| Pricing, promo codes (`Services/Pricing`, `Actions/Pricing`) | price columns, `booking_price_breakdowns`, `promo_codes.used_count` | price an offer, apply a code | open payments |
| Payments (`Actions/Payment`, `Services/Payment`, the webhook controller) | `payments`, `payment_events` | create an intent, webhook events, succeed | Stripe, queue |
| Finalization and ticketing (`Jobs/ConfirmBookingJob`, `RetryTicketingJob`, `SyncProviderBookingStatusJob`, their actions) | order, ticket, reason and status columns of `bookings`; the queue | confirm, poll, mark failed | provider, queue |
| Admin panel (`Filament`, `Actions/Admin`) | - | retry, record a ticket, mark for refund | bookings, queue |
| Scheduler (`routes/console.php`) | - | sync, expire, clear, cancel abandoned payments, alert, purge PII | all of the above |
| Support chat (`Actions/Chat`, `ChatWidget.tsx`) | conversations, messages; the widget's list | start, send, receive a broadcast, reply | Reverb |
| Search, passenger and account pages (`Pages`, `Components/Flights`) | the form's fields, the passenger draft; the session | search, select, store, look up, log in and out | their controllers, session |
| Checkout page (`Checkout.tsx`, `StripePaymentPanel.tsx`) | the payment it was given or has prepared | prepare, pay, simulate, apply a code | payments, Stripe |
| Manage-booking page (`Show.tsx`) | - | show the status as a timeline | bookings |
| Booking state machine (`BookingStatus`, `BookingStateMachine`) | `bookings.status` | `transition` | everything that moves a booking |

What is hard in it:

* **Concurrency.** Webhook requests, up to five queue workers
  (`config/horizon.php`), the scheduler's jobs and admin requests all write the
  same booking row. Some do it in a transaction under a row lock and read again,
  others check a status they read earlier without a lock.
* **Ordering.** `ConfirmBookingJob` is queued inside the transaction that marks
  the payment, and the queue connections have `after_commit=false`.
* **Failure.** The provider rejects, is unreachable or answers too late; the
  queue can be down; a worker can die between two steps; jobs are tried three
  times with a backoff, then `failed()` runs.
* **Delivery.** Stripe delivers webhooks at least once, in any order. The chat widget
  hears of one message twice, as an answer and as a broadcast.
* **Old data.** A page holds what it was loaded with while other tabs, webhooks and
  jobs go on; a session is read when a request starts and written whole when it ends.

What makes it right: no order without a payment; one order per booking; a failed
booking has no order and says why; a ticketed one has a ticketed order and a
number; the status follows the transition table; a paid booking does not get
stuck; what the operator decided is kept. A price adds up, does not change once it is
paid, and a code is not used beyond its limit. A page does not ask for money twice,
does not refuse what its own form has made, and shows every message once.

## Modules

| Module | What it is |
|---|---|
| `BookingStatus` | statuses and the transition table |
| `BookingLifecycle` | abstract specification: the status column follows the table |
| `Finalization` | from the webhook to the ticket, one booking |
| `CustomerPages` | extends it: the timeline the customer sees meanwhile |
| `MCFinalization` | extends `CustomerPages`: symmetry sets for TLC |
| `FinalizationProofs` | inductive invariant, theorems |
| `OneWorkerProofs` | what holds of `Finalization` and the timeline while one worker serves the queue |
| `PaymentStatus` | payment statuses, their transition table, the mapping of Stripe's statuses |
| `PaymentLife` | abstract specification: payment rows follow the table |
| `PaymentCheckout` | from the selected offer to the paid booking, one booking |
| `MCPaymentCheckout` | symmetry sets for TLC |
| `PaymentCheckoutProofs` | inductive invariants, theorems |
| `CheckoutPage` | the checkout page, composed with `PaymentCheckout` |
| `MCCheckoutPage`, `CheckoutPageProofs` | for TLC; invariants of the tabs and of the server in either mode, theorems |
| `BookingJourney` | from the search form to the stored passengers, one browser |
| `MCBookingJourney`, `BookingJourneyProofs` | parties and symmetry for TLC; inductive invariants, theorems |
| `Pricing` | operators: quotes, markup rules, discounts, displayed amounts |
| `PromoUsage` | codes with a limit and the stored price of several bookings |
| `MCPromoUsage`, `PromoUsageProofs` | fares, codes and rules for TLC; theorems about sums, prices and the limit |
| `SupportChat` | widget, conversations, messages and broadcasts |
| `MCSupportChat`, `SupportChatProofs` | for TLC; inductive invariant, theorems |

`BookingJourney` ends where `PaymentCheckout` begins, with the passengers stored, and
`PaymentCheckout` where `Finalization` begins, with the payment recorded and
`ConfirmBookingJob` queued. The last two implement `BookingLifecycle` for their part.
`PromoUsage` looks at what `PaymentCheckout` leaves out of a repricing, across bookings.

### Finalization

One booking, from `payment_pending` on. A step is one database transaction or one
call of the provider. What the code reads before such a step and uses after it is
kept in the actor's local state: `work[w]` for a queue worker (stage of
`FinalizeProviderBookingAction` or `RetryTicketingJob`, the job, the order and the
answer it holds) and `operator[a]` for an admin request (the status it loaded).

| State | Code |
|---|---|
| `booking.status/order/ticket/reason` | `bookings.status`, `provider_order_id`, where `ticket_number` came from, `failure_reason` is set |
| `paid` | a committed payment with status `succeeded` |
| `webhook[d]` | a request of `StripeWebhookController` that ends in `MarkPaymentSucceededAction` |
| `orders[o]` | the provider's side |
| `queue`, `attempts` | the jobs table or Redis queue |

| Action | Code |
|---|---|
| `CheckDuplicate`, `OpenWebhook`, `CommitWebhook`, `RollbackWebhook` | duplicate check; the transaction, whose dispatch is visible before its commit |
| `Pop`, `Throw`, `Crash`, `CrashInHook` | the worker loop: tries, backoff, redelivery after a death, `failed()` |
| `StartFinalization` | the read of the booking, early return, `assertPaidBooking`, the status check |
| `MoveIntoConfirming` | `BookingStateMachine::transition` with the status read before |
| `HoldForManualReview` | the safety gate |
| `CreateMockOrder`, `CreateOrder`, `CreateOrderAnswerLost`, `CreateOrderTransientError`, `CreateOrderRejected` | `createOrder` and its outcomes |
| `RecordProviderOrder`, `DispatchFollowUps`, `FollowUpDispatchFails` | `RecordProviderOrderAction`, then the mail and `RetryTicketingJob` |
| `MarkFinalizationFailed`, `FailedHook`, `FailedHookMarks` | `MarkBookingFinalizationFailedAction` from `handle()` and from `failed()` |
| `StartTicketing`, `RetrieveOrder`, `RetrieveOrderError`, `RecordTicketing` | `RetryTicketingJob::handle` |
| `SyncTick` | `SyncProviderBookingStatusJob` |
| `AdminLoad`, `AdminRetry`, `AdminRecordTicket`, `AdminMarkRefund` | record actions of `BookingResource` |
| `ProviderProgress` | the provider moves an order on (external) |

Abstractions: provider statuses fall into four classes (those the mapper tells
apart, and "cancelled" for those it does not know); payloads, PNRs, audit rows,
log lines and `ticketing_last_checked_at` are left out; the mail job changes no
state; `RefundFailedBookingJob` does nothing in the code. The refund side ends at
`refund_pending`: nothing in the code moves a booking to `refunded`.

Deadlock is not checked: a booking that is ticketed or failed is left alone, and
the model rightly stops.

### PaymentCheckout

One booking, its payment rows and their intents at Stripe. Handlers that lock what
they write are one step per transaction. Three check a status they loaded earlier
and write without reading it again: the webhook for all events but "succeeded"
(`StripeWebhookController.php:59-75`), `DeleteAbandonedPaymentSessionsJob` and
`StorePassengerDetailsAction`. They are two steps, and the constant `Overlap` says
whether anything may come in between. `Overlap = TRUE` is the program;
`Overlap = FALSE` is the program on a quiet day, and what holds only then is what
the missing locks put at risk.

| State | Code |
|---|---|
| `booking` | `bookings.status`, `total_amount_minor`, `offer_expires_at` is past, `ConfirmBookingJob` was queued |
| `payments[p]` | `payments.status`, `amount_minor`, `provider_payment_id` is set; `p` is the id |
| `recorded` | `payment_events.provider_event_id` (unique) |
| `intents[p]`, `events[p]` | Stripe: the intent made under the payment's idempotency key, the events sent about it |
| `requests[r]`, `webhooks[d]`, `details[q]`, `cleanup` | what a request, a delivery or the job has read |
| `aged` | rows older than `abandoned_payment_minutes` |

| Action | Code |
|---|---|
| `StartIntent`, `CallStripe`, `LinkIntent`, `RequestFails` | `CreateStripePaymentIntentAction`: transaction, call of Stripe, transaction; a failure between them |
| `LoadWebhook` | duplicate check and payment lookup of `StripeWebhookController` |
| `WebhookSucceeded`, `WebhookSucceededIgnored` | `MarkPaymentSucceededAction`; a duplicate, or a payment that cannot succeed any more |
| `WebhookStatus` | the other events |
| `ApplyPromo` | `ApplyPromoCodeToBookingAction`: the total, the cancelled payments |
| `LoadDetails`, `StoreDetails` | route binding and checks, then the transaction of `StorePassengerDetailsAction` |
| `SelectAbandoned`, `CancelAbandoned` | the query and the loop of `DeleteAbandonedPaymentSessionsJob` |
| `StripeMoves`, `PaymentsAge`, `OfferExpires` | Stripe (external), time |

Abstractions: amounts are two totals, any of which a promo code may lead to; the
status of a booking in another stage does not occur; a failed attempt leaves the
intent in `requires_payment_method`, as Stripe does; the customer can pay only
once the client secret was returned, that is after `LinkIntent`. A status change at Stripe is
announced by an event; the bound `Unheard` names the statuses whose events do not arrive. In
`page` one event is then enough for an intent that asks the customer for something, is processed
and succeeds, and the server learns the rest from a repeated intent request; the `chk_` runs have
every event. A handler that
dies between its load and its write is one that never writes, which `Spec` without
fairness includes. Left out: passengers and audit rows; the mock mode is in
`CheckoutPage`, the usage limit of codes in `PromoUsage`. Deadlock is not checked: an
expired or paid booking is at rest.

### CheckoutPage

Tabs with the checkout page, on top of `PaymentCheckout`: the requests of a tab are the
handlers there, conjoined with what the tab knows and shows. `mock` is
`STRIPE_MOCK_MODE`, chosen in the initial state.

| State | Code |
|---|---|
| `page[t].at` | checkout, confirmation, the page of a bank, or another |
| `page[t].prop`, `.intent`, `.loading` | the page's `booking.payment`; `intent` and `loading` of `StripePaymentPanel` |
| `net[t]` | the panel's request to the server or to Stripe, a challenge that is open, or the answer on its way |
| `promo[t]` | the post of the promo form |

| Action | Code |
|---|---|
| `LoadCheckout`, `Leave` | `CheckoutController`, the first render of the panel |
| `Prepare`, `ServePrepare`, `ServeStripe`, `ServeLink`, `ServeFails` | `preparePayment` and the intent endpoint (`StartIntent`, `CallStripe`, `LinkIntent`, `RequestFails`) |
| `Refuse`, `AnswerArrives`, `RefusalArrives` | `postJson`: answers that are ok, are not, or are lost |
| `Simulate`, `ServeSimulate`, `PaidArrives` | `simulateSuccess`, `MockStripePaymentSuccessController` |
| `Pay`, `ConfirmPayment`, `StripeDeclines` | `RealStripeForm`: `stripe.confirmPayment` succeeds, is being processed, asks the customer for something, or fails |
| `ChallengeEnds` | an authentication in the page is passed, failed or closed; until then the promise is open and the button says "Processing" |
| `ReturnFromBank` | a bank sends the browser to `return_url`, the confirmation page, whatever became of the payment; `BookingConfirmationController` looks at no status |
| `StripeSettles` | Stripe settles or cancels an intent (external) |
| `Continue` | the link to the confirmation |
| `SubmitPromo`, `ServePromo`, `RefusePromo`, `PromoShown` | `applyPromo`: fresh props, the panel keeps its intent |

Bounds: a page is not left while a request of it is on the way, every code leads to the
same reduced total, nothing is on its way for two hours, and the offer expires only as
one of the reasons of `Refuse`. The publishable key is configured.

### BookingJourney

One browser and its session. A request reads the session when it starts
(`LoadSession`) and writes it whole when it ends (`Answer`, `Redirect`); `Overlap` says
whether another request of the browser may be served in between.

| State | Code |
|---|---|
| `form`, `page` | `useForm` of `FlightSearchForm`; the page shown, its passenger draft and error |
| `page.base`, `requests[r].base` | ghost: the names that were stored when an untouched draft was rendered |
| `past` | the browser's history: passenger pages with the props they were served (`history.state` of Inertia) |
| `waiting`, `requests` | the visit Inertia waits for; requests on the way |
| `searches`, `bookings` | the rows with their parties, passengers and expiry |
| `session`, `mine` | login and `manage_booking_access`; what was selected in this session (history) |

| Action | Code |
|---|---|
| `EditSearch`, `SubmitSearch`, `ServeSearch` | `FlightSearchForm`, `FlightSearchController`, `StoreFlightSearchAction` |
| `SelectFare`, `ServeSelect` | `FlightResultCard`, `FareDetails`, `OfferSelectionController`, revalidation |
| `EditPassenger`, `SubmitPassengers`, `ServeEdit`, `ServeStore` | `PassengerForm`, `PassengerDetailsController`, `StorePassengerDetailsRequest` |
| `SubmitLookup`, `ServeLookup`, `ServeShow`, `Follow` | lookup, manage-booking page, the links of the account's list of bookings |
| `OpenAddress`, `ServeCheckout` | an address that is typed, kept or loaded again; the checkout |
| `Back` | the back and forward buttons: Inertia shows an old page with its old props and asks the server nothing, and `useForm`, which has no key to be remembered by, starts from them |
| `Login`, `Logout`, `ServeLogin`, `ServeLogout` | `AuthenticatedSessionController` |
| `OpenPage`, `Expire` | visits that change nothing; time |

A passenger is a type and a name; the other fields, contact details and prices are left
out. Offer ids are unique to a search, so an offer stands for its search. Bounds: links
and login start from a page without a form, a page is left only when its clicks are
served (`Free`, except that a fare can be selected again at once), an earlier search
expires first and the last that can be made does not. `FarBack = FALSE` in the run: the
customer goes back from the page that follows the form, not from a later one; the theorem
covers both. `back()` with errors goes through the access check of `edit`, so a request whose
session has no access to the booking ends on the 403 page.

### Pricing and PromoUsage

`Pricing` has the arithmetic of `PriceCalculationService` in integers: rule and code
values are `decimal(12,4)`, given in ten-thousandths; rounding is half away from zero. What
binary floating point adds to that is left out. `max = 0` is no maximum, as in the code
(`if ($promoCode->max_discount_minor)`).

`PromoUsage` has bookings, codes, the active markup rules and requests that have found a
code (`FindUsable`, without a lock) and then run the transaction (`Apply`). `Prepare` and
`Pay` move the booking on meanwhile, `OfferExpires`, `SwitchCode` and `ChangeRules` are
time and the admin panel. Bound: limit and terms of a code are not edited. The code has
some effects no property contradicts: a code at its limit cannot be applied again by the
booking that holds it, going from a code to another and back counts twice, and a use is
never given back.

### SupportChat

The widget of a page, its requests, the two tables and the operator's side. A transaction
that writes a message is open from `WriteMessage` (insert, broadcast) to `CommitMessage`.

| State | Code |
|---|---|
| `widget`, `shown` | `open`, `conversationId`, subscription, `loading`, `error`, `body`; how often each message is in `messages` |
| `wire` | broadcasts on their way to this browser |
| `visitor`, `signedIn` | the visitor cookie, the user guard |
| `starts`, `sends` | requests to `/support/chat/start`; posts and the operator's replies |

| Action | Code |
|---|---|
| `ToggleOpen`, `PageVisit` | the button; another page mounts another widget |
| `FindConversation`, `CreateConversation`, `StartAnswered`, `StartFailed` | `StartConversationAction`, whose search and insert are two steps; the widget's `then`, `catch`, `finally` |
| `Subscribe`, `Deliver` | `Echo.private`, `listen` |
| `Type`, `Send`, `LoadPost`, `PostAnswered`, `PostRefused`, `PostLost` | `sendMessage`, `SendMessageController` |
| `WriteMessage`, `BroadcastFails`, `CommitMessage` | `SendChatMessageAction` |
| `AdminReply`, `ReplyEnds`, `AdminSetsStatus` | the Filament inbox |

Left out: the order and times of messages, a commit that fails after the broadcast, a
login while the chat is open, the booking of a conversation, `MergeGuestConversationAction`
and the list endpoint, which no other code uses.

### CustomerPages

`StatusStep` is `statusStep` of `Show.tsx`, over the variables of `Finalization`. The
confirmation page shows a constant step and is left out.

## Runs

The `fin_` runs use `MCFinalization`. `Tries` is 3 in the code; where exhausted tries matter
the runs use fewer, so that the whole graph fits.

| Run | Setting | Shows |
|---|---|---|
| `fin_one_worker` | 1 worker, 2 jobs, 2 deliveries, 2 tries, provider errors and rejections | `TypeOK`, `AtMostOneOrder`, `FailedBookingHasNoOrder`, `TicketedIsBacked`, `LifecycleSpec` (implements `BookingLifecycle`), `TimelineNeverShrinks`, `IssuedTicketArrives` |
| `fin_one_worker_faults` | the same, an operator, every fault | `FailedBookingHasReason`, `RetryNeverRevives` |
| `fin_confirming` | 2 workers, 2 jobs, a webhook that is rolled back and delivered again, deaths, provider errors | `OrdersOnlyForPaidBookings`, `ConfirmingIsLeft` |
| `fin_gate` | 2 workers, 2 jobs, 2 deliveries, 2 tries, real finalization off, both kinds of offers | `MockBookingIsTicketed`, `GatedBookingIsHeld` |
| `fin_v_duplicate_event` | 2 workers, 2 jobs, 2 deliveries, no fault | a disagreement, below |
| `chk_overlap` | 1 payment, 2 events, 2 intent requests, 2 deliveries, 1 details request, overlap | `TypeOK`, `NothingForFree`, `IntentAmountIsPaymentAmount` |
| `chk_serial` | 2 payments, 1 event each, one of each request, no overlap | `OneLivePayment`, `PaidTheTotal`, `PaymentLifeSpec` (implements `PaymentLife`), `LifecycleSpec`, `ChargeIsTakenUp` |
| `page` | 1 tab, 2 payments, 1 event each, 1 delivery, `Unheard` = {`requires_action`, `processing`}, both modes, no overlap of the unlocked handlers | `SimulateNeverLacksUrl`, `PaidIsNotAskedAgain`, `CheckoutSendsOnPaid`, `PanelAnswers` |
| `page_v_cancelled` | 1 tab, 1 payment | a disagreement, below |
| `journey` | 2 searches, 2 bookings, 2 requests, parties of one adult, with and without an infant, 2 names, no overlap, `FarBack = FALSE` | `JourneyTypeOK`, `NeverRefusedForCounts`, `SelectedIsReachable`, `UntouchedFormSavesItsNames` |
| `promo` | 2 bookings (a fare well above and one near the minimum), a code with limit 1 and one without, 2 requests, 3 rule sets | `UsedWithinLimit`, `HoldersAreCounted`, `PriceRowsAddUp`, `PaidPriceIsFixed` |
| `chat` | 2 starts, 1 text, 1 reply, 2 conversations, guest or signed in, an operator who closes | `TypeOK`, `NoMessageTwice`, `StoredOnce`, `OneConversationShown`, `ShownStaysShown`, `LoadingEnds`, `ReplyReachesSubscriber` |

In `chk_overlap` two events on one payment and two deliveries give every order and
repetition of an old and a new event, two intent requests repeat the idempotency
key. In `chk_serial` the second payment is the one made after a promo code or the
clean-up cancelled the first; statuses that no event announces
(`requires_confirmation`) let one event per intent arrive late all the same. The
theorems lift both bounds.

Two jobs and two deliveries are the least with which one finalization can overtake
another, two workers the least with which they can overlap, two orders the least
that can be one too many. One worker is a deployment of its own
(`docs/CPANEL_DEPLOY_NO_REDIS.md`: one short cron worker); the properties checked
there and not with two workers are the ones that fail with two.

In `page` a second payment is what follows a promo code or the clean-up; a second tab
acts on the first only through the payments, as the webhook, Stripe and the job do. In
`journey` two searches are the least with which the wrong one can be taken, an infant the
type whose name differs between search and passenger; in `promo` the percentage is above
its cap, a discount meets the minimum, and rounding meets a half. In `chat` two starts and
two conversations give every mix of answers; one text and one reply are the two messages
that can cross. The theorems lift these bounds for most of the properties.

### Fairness

`FairSpec` assumes that a webhook transaction that has started commits, that
worker processes go on with the job they run (Supervisor restarts them), that
the queue is served in order, so a job that is ready again and again is reserved
in the end, and that the scheduler keeps ticking. Strong fairness of the steps of
`RetryTicketingJob` says that, of the polls that are queued again and again, one is
not interrupted at each of its steps. Nothing is assumed of the provider, the
operator or the deliveries that have not begun.

For the checkout, `FairSpec` assumes that a handler that has loaded goes on to its
write, and that Stripe repeats the delivery of a success event until the event is
recorded (it retries on every answer but 2xx). `ChargeIsTakenUp` leaves out cancelled
payments, whose late success event is answered with an error each time
(see below), and is checked without overlap: two overlapping details requests can
put a booking with an open payment back to `passenger_details_added`, where the
success event does not move it.

`ConfirmingIsLeft` is checked without the fault `crash_in_hook`: a worker that
dies inside `failed()`, whose job is already deleted, leaves the booking in
`booking_confirming` until an operator looks for it (the filter "Paid but not
confirmed" of the panel). `fin_gate` is checked without `crash`: every try can be
used up by deaths before the first write. `IssuedTicketArrives` speaks of one
order: with two workers another one can take its place (`fin_v_duplicate_event`).

For the page, the requests of the panel go on at the server, at Stripe and on the way back
(`PanelAnswers`): `confirmPayment` ends, leaves the page or opens a challenge. Nothing makes the
customer end a challenge, and `RealStripeForm` has no `finally`, so an open one is excepted.
The fairness is strong because a handler that loads and writes later
keeps the panel's requests out while it does, in the run without overlap. For the chat, the
server and the browser go on with what was asked, broadcasts arrive and the subscription
is made; no click and no operator is assumed. `journey` and `promo` state no fairness.

## Where the code and its documents disagree

| Run | The code | The text |
|---|---|---|
| `fin_v_duplicate_event` | two deliveries pass the duplicate check, two jobs, two workers, two orders | `docs/PHASE_6_STRIPE_PAYMENTINTENT.md:110` "Duplicate events are ignored" |
| `page_v_cancelled` | a promo code cancels the local payment only; the intent at Stripe stays open, the panel keeps its secret and the old amount can be paid for a cancelled payment | `resources/js/Pages/Flights/Checkout.tsx:91` "cancels any unpaid old PaymentIntent", likewise `CheckoutController.php:68` |

Others are visible in the models and have no run of their own:

* *The operator's decisions.* The unlocked move into `booking_confirming`
  (`FinalizeProviderBookingAction.php:108`) overwrites a `refund_pending` set meanwhile,
  which the table does not allow (`docs/PHASE_8_FILAMENT_ADMIN.md:28`): `LifecycleSpec`
  fails with an operator, and with a second worker. `RecordProviderOrderAction.php:32` writes
  the provider's ticket number whatever it is, so an answer requested before the operator
  recorded a ticket erases his number (`:94` of the same document).
* *Payments that are charged but not yet known to be.* Promo codes
  (`ApplyPromoCodeToBookingAction.php:82`) and the clean-up job
  (`DeleteAbandonedPaymentSessionsJob.php:27`) decide by the local status, which lags behind
  Stripe (`docs/PHASE_9_MARKUP_PROMO_PRICING.md:55`, `ScheduledCleanupPhase12Test.php:18`). When a
  row was cancelled after Stripe had charged its intent, the late success event is answered with
  an error each time and the booking does not go on; `ChargeIsTakenUp` excludes such rows. The
  job also cancels with the status it loaded: with `Overlap = TRUE` it takes back a payment that
  succeeded in between.
* *Old events.* A webhook writes a status over one that was written after it loaded the
  payment (`StripeWebhookController.php:74`); `PaymentLifeSpec` fails with `Overlap = TRUE`
  (`PaymentStateMachine.php:27`, `PaymentStatus.php:35`).
* *Jobs that can only throw.* `failed()` of `ConfirmBookingJob` does not only meet bookings
  "still in a confirming/ticketing state" (`ConfirmBookingJob.php:42`): the job that a retry
  queues for a `booking_failed` booking throws, three times (`RetryNeverRevives`). The panel
  offers "Retry finalization" for such bookings (`BookingResource.php:114`) all the same.
* *A booking failed with its order.* A dispatch that throws after the order was recorded is
  caught by the block that handles a failed order (`FinalizeProviderBookingAction.php:50`). And an
  answer that a second worker records on a booking that has failed meanwhile clears
  `failure_reason` and leaves the status (`RecordProviderOrderAction.php:36`).
* *Chat.* Guests receive no live replies: `/broadcasting/auth` turns them away before the rule
  of `routes/channels.php:52`, which would let their cookie in, is asked
  (`scripts/phase9_10_checklist.md:22`, `qa/UAT_TEST_PLAN.md:74`). The channel is
  `support.conversation.{id}`, not `chat.conversation.{id}` (`docs/PHASE_10_REVERB_CHAT.md:29`).
  A reply stored between the list of the start and the subscription is not shown until the
  page is loaded again. Opening the panel again while the first start is on its way
  starts a second one, and with no conversation yet makes two (`OneConversationShown`,
  `ShownStaysShown` exclude this). A post whose answer is lost loses its text without an
  error; a start's error stays after a later success; a status read before the operator closed the
  conversation leaves it closed with an unanswered message.
* *Checkout page.* The shown total is the new one while the panel still charges the old
  intent. "Simulate" on a payment cancelled meanwhile answers 500 until the page is loaded again; a
  payment that succeeded while the panel holds its secret leaves form and "Continue" side by
  side. Methods that redirect (`StripePaymentService.php:31`) come back to the confirmation page
  after a failed or abandoned payment as well, and it does not tell: `CheckoutSendsOnPaid` is
  about the checkout page only.
* *Passenger page.* The back button brings the form back as it was first rendered: saving it
  untouched stores its names over newer ones (`PassengerForm.tsx:58`). It stores what it shows,
  which is what `UntouchedFormSavesItsNames` says. The stored passport number is not sent to
  the page, so saving again erases it. Errors of single passengers (`passengers.0.first_name`) and of the expired offer
  have no place on the page (`qa/UAT_TEST_PLAN.md`, PX-02). The return date of a search that was
  switched to one-way is still sent.
* *Session.* With `Overlap = TRUE` a grant can be lost to another request of the browser, and the
  booking just selected answers 403. Two clicks on a fare make two bookings.
* *Prices.* Results and fare page show the provider's total without markup.
* *Timeline.* With two workers or an operator it can lose steps; a failed booking is shown with all five,
  and so is every booking on the confirmation page (`Confirmation.tsx:43`).

## Proofs

### FinalizationProofs

It holds for any finite or infinite sets of workers, jobs,
deliveries, operators and orders, any `Tries` and every set of faults, under
`FinalizationAssumption` (which TLC evaluates in every run).

* `IInv` strengthens `TypeOK` and `OrdersOnlyForPaidBookings` with
  `KnownOrdersExist` (an order id in the row or in a worker's hands is one the
  provider created) and `WorkIsPaid` (a worker that is about to move the booking or
  to call the provider saw a committed payment). Without the latter a worker in
  stage `gate` of an unpaid booking would be a state the invariant admits.
* There is one lemma per action, or per group of actions that leave the same
  variables alone; workers' steps share `EndInv`, `GotoInv` and `ReceiveInv`, for the
  three ways in which a step can leave its stage.
* `InductiveInvariant`, `TypeCorrect`, `PaidBeforeOrdered` follow.
* `StrictWithOneWorker`: with one worker and no operator, `Finalization` implements
  `BookingLifecycle`. The invariant it needs is `MoveIsFresh`: at stage `move` the
  row still holds the `payment_succeeded` the worker read, because the only other
  writers are webhooks, and they do not write a booking that is past
  `payment_pending`. `fin_one_worker` with an operator, or with a second worker,
  shows that neither restriction can be dropped.

### OneWorkerProofs

It assumes that one worker serves the jobs (`OneWorker`), for any number of jobs, deliveries
and orders. `Leaves` says in which stage each way of ending a step leaves the worker; the
invariants speak of that stage.

| Theorem | Faults it bears | Operators | Invariant |
|---|---|---|---|
| `FailedTellsWhy`, `WorkerNeverRevives` | all | any | `LivingInv`: a worker on its way to or from the provider has no failed booking |
| `OneOrderWithOneWorker` | all but crashes and lost answers | any | `OrderInv`: who is about to order finds nothing ordered; what is ordered is in the worker's hands or in the row, and the row's status then passes `HasOrderAlready` or stops the job |
| `TicketedIsTicketed` | the same | none | `TicketInv`: an answer that says ticketed is still true when it is recorded |
| `NothingOrderedForFailed` | the same without a failing queue | any | `GivenUpInv`: a job that is about to mark the booking failed finds nothing ordered; `JobInv`: a ready job has a try left |
| `TimelineOnlyGrows` | all | none | `MoveIsFresh`, of `StrictWithOneWorker` |

The assumptions are the gaps of the code: a second worker, a worker that dies with the
answer in hand, or an answer that is lost, leads to a second order (`fin_v_duplicate_event`
shows the first); a dispatch that fails after the order was recorded marks a booking with an
order as failed; an operator may record a ticket by hand.

### PaymentCheckoutProofs

It holds for any `MaxPayments`, `MaxEvents` and any sets of requests and deliveries,
under `CheckoutAssumption`.

* `IInv`, for any overlap, adds to `NothingForFree` what carries a charge from Stripe
  to the row: `EventsAreTrue` (a success event was sent only after a charge),
  `RequestHolds` (a success held by an intent request is one), `DeliveryHolds` (a
  delivery holds an event that was sent). It adds to `IntentAmountIsPaymentAmount` the
  reason why the total read before the call of Stripe is the row's:
  `UnlinkedIsCurrent` (an open row without an intent has the present total, because a
  promo code closes every open row).
  `CheckoutTypeCorrect`, `NeverForFree`, `RightAmount` follow.
* `SerialInv`, for `Overlap = FALSE`, adds `LoadsStand` (what was loaded is still what
  the row says), `OneLivePayment`, `ReusableIsCurrent` and `PaidTheTotal`.
  `OrderlyStep` sums up what a step does to payments, booking and total; one lemma
  proves it of the steps that write after a load, one of the others.
  `OneLivePaymentWhenSerial`, `PaidTheTotalWhenSerial`, `PaymentLifeWhenSerial` and
  `LifecycleWhenSerial` follow. `PaymentLifeSpec` fails without the
  assumption (old events, above).
* Those lemmas need no more of `IInv` than what is held in requests, deliveries and loads
  (`HeldInv`): that is true in mock mode as well, so `CheckoutPageProofs` uses them there.

### CheckoutPageProofs

It holds for any number of tabs, and for the same constants as `PaymentCheckoutProofs`.

* `TabsOK` says that a secret the panel holds, or is about to get, comes with the address of
  the mock success, and that the props of the page never hold a secret. A step changes what one
  tab holds (`OnlyTab`). `SimulateHasUrl` follows, in either mode.
* `TabsKnow`, in either mode, says that what a tab, an answer or a request believes to have
  succeeded is in `Money`: what Stripe has charged or is settling, or, in mock mode, the rows
  that succeeded. Knowledge is only passed on (`KnowledgeStep`), so it stays true while `Money`
  only grows, however stale a tab is.
* `LiveInv`, for `mock = FALSE` and any overlap, adds `IInv` of `PaymentCheckout`: a step of
  the page is a step of the checkout or stores the passengers, and a charge is final.
  `SendsOnPaid` follows: from `PaysIntent` (while the panel pays or simulates, its view is the
  payment it pays) and the ways there are from the checkout to the confirmation
  (`WaysToConfirmation`). A challenge that ends well does so for a charged or processed intent
  (`SettledPaid`); the bank's page is not the checkout.
* `PageInv`, for `Overlap = FALSE` and either mode, adds what `SerialInv` says of the server.
  In mock mode the rest of `IInv` is false, because a simulated success has no charge behind it;
  `MockForm` (types, no events, no deliveries at work) takes its place. It also keeps the rows in
  order (`RowsInOrder`) and says that only the latest can be completed or has succeeded
  (`LatestLives`): the page shows the latest payment, so this is why the customer of a paid
  booking is shown the one that paid. `PaidGoesOn`, `SendsOnPaidInEitherMode`,
  `PageKeepsCheckout` and the refinement `PageFollowsPaymentLife` follow. All of them need the
  assumption, because the clean-up job and the webhooks of other events write over a status
  they read before: with `Overlap = TRUE` and `Unheard = {}` in `page.cfg`, TLC finds each of
  their properties violated.
* `PageFollowsLifecycle`, in either mode and for any overlap: `RowIsFresh` says that no details
  request of the page writes a status it loaded before, and the other writers look at the status
  they replace. (`LifecycleWhenSerial` needs its assumption: of two details requests that both
  load a new booking, the slower one takes it back from `payment_pending`.)

### SupportChatProofs

It holds for any sets of starts, texts and replies (the last two finite) and any bound on
conversations, under `ChatAssumption`.

* `Inv` adds to the types where things belong: an answered start lists messages of its
  conversation, a post knows the row it wrote, a broadcast on its way is of the channel
  subscribed to, what is listed is of the widget's conversation, and, while no two starts
  overlapped, at most one start of the mounted widget is on its way and none once there is a
  conversation (`OneLiveStart`). The last is why a start's list never replaces
  messages that came later.
* Most actions move one request and change flags of the widget only; they are instances of the
  lemma `Frame`. The others have a lemma each.
* `ChatTypes`, `ListedOnce`, `OneConversation`, `ListOnlyGrows` follow.
* `SentOnce` adds to `StoredOnce` why a text is not stored again: the post of a stored text got
  past the insert, the box, from which alone a post starts, does not hold a stored text, and no
  text in the box has a post on its way. `TextStoredOnce` follows.

### PromoUsageProofs

* `TotalIsCharged`, `PromoNeverRaisesThePrice`, `QuoteAddsUp`: the discount that a code
  promises and the markup are any integers there, so the results do not depend on rounding or
  on how they are computed. `DisplayedRowsAddUp` bounds what rounding each row by itself does to
  the sum a customer can make.
* `UsageInv` (the limit, the holders counted, the types both need) is inductive because `Apply`
  decides again under the lock; `LimitIsKept` and `HoldersCounted` follow, under
  `PromoAssumption`, for any number of bookings, codes and requests. So does `PaidPrice`, because
  the status is read again there too.
* `PriceInv` says that what is stored for a booking is a quote that adds up and the rows of that
  very quote. `RowsAddUp` and `DisplayedPrice` follow. Both the markup and the sum of the rows
  are folds, which take elements in an order that `CHOOSE` picks. `SumExists` and `SumIsUnique`
  (by a least counterexample, which needs no induction theorem) say that a finite sum exists and
  that any order computes it; so the fold over the rules is a natural number and the fold over
  the rows is the sum of the five parts. `PriceAssumption` has the fares natural, as the columns
  are unsigned: the minimum of the total may be 0, and a negative fare would then leave a gap. A
  rule or a code may have any value.

### BookingJourneyProofs

* `JourneyInv` follows a party from the search to the booking, the form and the request that
  stores it: `GoodPage` and `GoodRequest` say that a draft fits the party of its booking (`Fits`),
  and `FitsCounts` that what fits is counted as `StorePassengerDetailsRequest` counts.
  Tables only grow and keep their parties (`Extended`), so what was good stays good. It
  holds for any overlap; `JourneyTypes` and `NeverRefused` follow.
* `AccessInv`, for `Overlap = FALSE`, says that at most one request has read the session and
  that the session it read is the present one; `SelectedReachable` follows.
* The names are in `JourneyInv` too: `NamesFollow` says that a draft nobody has typed into shows
  the names it was rendered with, on the screen, in the history (`GoodPages`) and on its way, or
  empty fields if there were none. It needs that stored passengers are as many as the party
  (`TablesOK`), because the form merges them by position (`ServedFormIsGood`).
  `UntouchedSavesItsNames` follows with `OnlyStoreSaves`: nothing but the handler of the form
  stores names, and it refuses empty ones.

Every invariant and every safety property of a step that a passing run checks is stated by a
theorem. Only model-checked is liveness: `IssuedTicketArrives`, `ConfirmingIsLeft`,
`MockBookingIsTicketed`, `GatedBookingIsHeld`, `ChargeIsTakenUp`, `LoadingEnds`,
`ReplyReachesSubscriber` and `PanelAnswers` follow from fairness, and the prover has no rule for
`ENABLED`. Theorems that assume `Overlap = FALSE`, one worker or fewer faults say so above.

## Not modelled

* PII retention and the batches of the scheduled jobs (25, 100, 200 and 500 rows): each is a
  query with a limit and a loop of single updates or dispatches. What could go wrong is
  that rows which fail every time, or are always due, keep others out of the
  batch; that is listed as a hazard without a property.
* The normalisation of provider answers: a mapping of data without state.
* Mail, logging, masking, audit rows and the receipt: output only.
* `RefundFailedBookingJob`: it logs and changes nothing.
* Filament's listings and forms beyond the actions named above; an edit of a code's limit
  is one of them.
* Registration, throttling of requests beyond "may be refused", the health check and the
  deployment files.

## Plan

Done: `Finalization`, `PaymentCheckout`, `CheckoutPage`, `BookingJourney`, `Pricing` and
`PromoUsage`, `SupportChat`, with their runs and theorems. Left:

1. `Cleanup`: several bookings and the batches of the scheduled jobs; PII retention with
   bookings whose redaction fails.
2. Theorems: the safety parts of the liveness properties, such as what a worker that has left
   `confirming` has recorded.

----------------------------- MODULE CheckoutPage -----------------------------
(***************************************************************************)
(* The checkout page in the customer's browser (Checkout.tsx with          *)
(* StripePaymentPanel.tsx), composed with the server side of it and with   *)
(* Stripe (PaymentCheckout).                                               *)
(*                                                                         *)
(* A page holds what it was given when it was loaded and what its own      *)
(* requests have brought since: it learns nothing of a webhook, of the     *)
(* clean-up job or of another tab.  A tab is an element of IntentRequests. *)
(* Its panel has one request on its way at a time, the promo form beside   *)
(* it another.  Wording, layout, messages and errors are left out; what    *)
(* the panel shows is the set of controls it offers.                       *)
(***************************************************************************)
EXTENDS PaymentCheckout, FiniteSets

VARIABLES
    mock,    \* STRIPE_MOCK_MODE: nothing is charged, success is simulated
    page,    \* per tab: what the components hold
    net,     \* per tab: the panel's request, and the payment it is about or answers with
    promo    \* per tab: the promo form's request

Tabs == IntentRequests
pageVars == <<mock, page, net, promo>>
allVars == <<vars, pageVars>>

\* A payment as the page knows it.  secret: client_secret; url: mock_success_url.
Payload == [id : 0 .. MaxPayments, status : PaymentStatuses \union {"none"},
            secret : BOOLEAN, url : BOOLEAN]
NoPayload == [id |-> 0, status |-> "none", secret |-> FALSE, url |-> FALSE]

\* The component's intent, and, while it has none, the payment of the page's props.
ClosedPage == [at |-> "away", prop |-> NoPayload, intent |-> NoPayload, loading |-> FALSE]
Confirmation == [ClosedPage EXCEPT !.at = "confirmation"]
Bank == [ClosedPage EXCEPT !.at = "bank"]
NoNet == [stage |-> "idle", payload |-> NoPayload]

PageInit ==
    /\ Init
    /\ mock \in BOOLEAN
    /\ page = [t \in Tabs |-> ClosedPage]
    /\ net = [t \in Tabs |-> NoNet]
    /\ promo = [t \in Tabs |-> "idle"]

-----------------------------------------------------------------------------
(* What the panel offers. *)

\* intent?.payment ?? initialPayment
ActivePayment(view) == IF view.intent # NoPayload THEN view.intent ELSE view.prop

OffersPrepare(view) ==
    ~ActivePayment(view).secret /\ ActivePayment(view).status # "succeeded"
OffersSimulate(view) ==
    mock /\ ActivePayment(view).secret /\ ActivePayment(view).status # "succeeded"
OffersForm(view) == ~mock /\ ActivePayment(view).secret
OffersContinue(view) == ActivePayment(view).status = "succeeded"

OffersToPay(view) == OffersPrepare(view) \/ OffersSimulate(view) \/ OffersForm(view)

-----------------------------------------------------------------------------
(* The page is loaded and left. *)

Rows == {p \in PaymentIds : payments[p].status # "none"}

\* Bug: the client secret is sent along with the page.
BugSecretInProps ==
    IF Rows = {} THEN NoPayload
    ELSE LET p == CHOOSE p \in Rows : \A q \in Rows : q <= p
         IN  [id |-> p, status |-> payments[p].status, secret |-> payments[p].linked,
              url |-> FALSE]

\* The payment of the page's props: the latest row whatever its status, never a secret.
PaymentProp ==
    IF Rows = {} THEN NoPayload
    ELSE LET p == CHOOSE p \in Rows : \A q \in Rows : q <= p
         IN  [id |-> p, status |-> payments[p].status, secret |-> FALSE, url |-> FALSE]

\* useState(initialPayment ? {..., mock_success_url: ''} : null)
FirstView ==
    [ClosedPage EXCEPT !.at = "checkout", !.intent = PaymentProp]

ShowsCheckout == booking.status \in {"passenger_details_added", "payment_pending",
                                     "payment_succeeded"}

LoadCheckout(t) ==
    /\ page[t].at = "away" /\ ShowsCheckout
    /\ page' = [page EXCEPT ![t] = FirstView]
    /\ UNCHANGED <<vars, mock, net, promo>>

\* Bound: a page is not left while one of its requests is on the way.
Leave(t) ==
    /\ page[t].at # "away" /\ net[t] = NoNet /\ promo[t] = "idle"
    /\ page' = [page EXCEPT ![t] = ClosedPage]
    /\ UNCHANGED <<vars, mock, net, promo>>

\* The panel's buttons, disabled while loading.
Idle(t) == page[t].at = "checkout" /\ ~page[t].loading /\ net[t] = NoNet

Goes(t, stage, payload) ==
    /\ net' = [net EXCEPT ![t] = [stage |-> stage, payload |-> payload]]
    /\ page' = [page EXCEPT ![t].loading = TRUE]

-----------------------------------------------------------------------------
(* preparePayment *)

Prepare(t) ==
    /\ Idle(t) /\ OffersPrepare(page[t])
    /\ Goes(t, "prepare", NoPayload)
    /\ UNCHANGED <<vars, mock, promo>>

Answers200(t, stage, p, status, secret) ==
    net' = [net EXCEPT ![t] = [stage |-> stage,
                               payload |-> [id |-> p, status |-> status, secret |-> secret,
                                            url |-> TRUE]]]

Refused(t) == net' = [net EXCEPT ![t].stage = "refused"]

\* The first transaction; it is all there is for a payment that is succeeded.
ServePrepare(t) ==
    /\ net[t].stage = "prepare"
    /\ StartIntent(t)
    /\ IF requests'[t] = NoRequest
       THEN \E p \in PaymentIds : Latest(p) /\ Answers200(t, "answer", p, "succeeded", FALSE)
       ELSE net' = [net EXCEPT ![t].stage = "serving"]
    /\ UNCHANGED <<mock, page, promo>>

\* 422 for a booking that may not be paid or whose offer has expired, 403, 419 or 429, or
\* no connection.  (Time is left to this: the offer of the model does not expire.)
Refuse(t) ==
    /\ net[t].stage \in {"prepare", "simulate"}
    /\ Refused(t)
    /\ UNCHANGED <<vars, mock, page, promo>>

ServeStripe(t) ==
    /\ net[t].stage = "serving"
    /\ CallStripe(t)
    /\ UNCHANGED pageVars

ServeLink(t) ==
    LET p == requests[t].payment IN
    /\ net[t].stage = "serving"
    /\ LinkIntent(t)
    /\ Answers200(t, "answer", p, payments'[p].status, TRUE)
    /\ UNCHANGED <<mock, page, promo>>

ServeFails(t) ==
    /\ net[t].stage = "serving"
    /\ RequestFails(t)
    /\ Refused(t)
    /\ UNCHANGED <<mock, page, promo>>

AnswerArrives(t) ==
    /\ net[t].stage = "answer"
    /\ page' = [page EXCEPT ![t].intent = net[t].payload, ![t].loading = FALSE]
    /\ net' = [net EXCEPT ![t] = NoNet]
    /\ UNCHANGED <<vars, mock, promo>>

\* Bug: no finally.
BugLoadingStays(t) == page[t].loading

LoadingAfterRefusal(t) == FALSE

\* Bug: postJson does not look at response.ok.
BugIgnoresStatus(t) ==
    IF net[t].stage = "refused" /\ net[t].payload.url THEN Confirmation
    ELSE [page[t] EXCEPT !.loading = LoadingAfterRefusal(t)]

ViewAfterRefusal(t) == [page[t] EXCEPT !.loading = LoadingAfterRefusal(t)]

\* An answer that is not ok, or is lost on the way: catch and finally.
RefusalArrives(t) ==
    /\ net[t].stage \in {"refused", "answer", "paid"}
    /\ page' = [page EXCEPT ![t] = ViewAfterRefusal(t)]
    /\ net' = [net EXCEPT ![t] = NoNet]
    /\ UNCHANGED <<vars, mock, promo>>

-----------------------------------------------------------------------------
(* simulateSuccess.  Without an address it only says so. *)

Simulate(t) ==
    /\ Idle(t) /\ OffersSimulate(page[t])
    /\ ActivePayment(page[t]).url
    /\ Goes(t, "simulate", ActivePayment(page[t]))
    /\ UNCHANGED <<vars, mock, promo>>

\* The event's name is made from the payment's id: a second one is a duplicate.
ServeSimulate(t) ==
    LET p == net[t].payload.id IN
    /\ net[t].stage = "simulate"
    /\ IF MaySucceed(p)
       THEN /\ IF payments[p].status = "succeeded"
               THEN UNCHANGED <<payments, booking>>
               ELSE /\ payments' = [payments EXCEPT ![p].status = "succeeded"]
                    /\ booking' = [booking EXCEPT !.status = StatusAfterPayment(@),
                                                  !.confirm = TRUE]
            /\ net' = [net EXCEPT ![t].stage = "paid"]
       ELSE UNCHANGED <<payments, booking>> /\ Refused(t)
    /\ UNCHANGED <<recorded, stripe, requests, webhooks, details, cleanup, aged,
                   mock, page, promo>>

PaidArrives(t) ==
    /\ net[t].stage = "paid"
    /\ page' = [page EXCEPT ![t] = Confirmation]
    /\ net' = [net EXCEPT ![t] = NoNet]
    /\ UNCHANGED <<vars, mock, promo>>

-----------------------------------------------------------------------------
(* RealStripeForm, and the link to the confirmation. *)

Pay(t) ==
    /\ Idle(t) /\ OffersForm(page[t])
    /\ Goes(t, "pay", ActivePayment(page[t]))
    /\ UNCHANGED <<vars, mock, promo>>

\* confirmPayment has ended with this status of the intent.  The page goes to return_url,
\* which is the confirmation, unless Stripe answers with an error.
Settles(t, status) ==
    /\ page' = IF status \in {"succeeded", "processing"}
               THEN [page EXCEPT ![t] = Confirmation]
               ELSE [page EXCEPT ![t].loading = FALSE]
    /\ net' = [net EXCEPT ![t] = NoNet]

\* The customer must authenticate: in the page, where the promise stays open, or at his
\* bank (automatic_payment_methods allows methods that redirect).
AsksForAction(t) ==
    \/ /\ net' = [net EXCEPT ![t].stage = "challenge"]
       /\ UNCHANGED page
    \/ /\ net' = [net EXCEPT ![t] = NoNet]
       /\ page' = [page EXCEPT ![t] = Bank]

\* confirmPayment confirms the intent of the secret the form was made with: it neither
\* cancels it nor leaves it to be confirmed by the server.  An intent that waits for the
\* customer already may only ask him again.
ConfirmPayment(t) ==
    LET p == net[t].payload.id IN
    /\ net[t].stage = "pay" /\ intents[p].status # "processing"
    /\ StripeMoves(p) \/ (intents[p].status = "requires_action" /\ UNCHANGED vars)
    /\ intents'[p].status \notin {"requires_confirmation", "canceled"}
    /\ \/ intents'[p].status = "requires_action" /\ AsksForAction(t)
       \/ intents'[p].status # "requires_action" /\ Settles(t, intents'[p].status)
    /\ UNCHANGED <<mock, promo>>

\* The challenge in the page is passed (StripeSettles moves the intent), failed or closed.
ChallengeEnds(t) ==
    /\ net[t].stage = "challenge"
    /\ Settles(t, intents[net[t].payload.id].status)
    /\ UNCHANGED <<vars, mock, promo>>

\* The bank sends the browser to return_url whatever became of the payment, and
\* BookingConfirmationController looks at neither payment nor booking status.
ReturnFromBank(t) ==
    /\ page[t].at = "bank"
    /\ page' = [page EXCEPT ![t] = Confirmation]
    /\ UNCHANGED <<vars, mock, net, promo>>

StripeDeclines(t) ==
    /\ net[t].stage = "pay"
    /\ page' = [page EXCEPT ![t].loading = FALSE]
    /\ net' = [net EXCEPT ![t] = NoNet]
    /\ UNCHANGED <<vars, mock, promo>>

Continue(t) ==
    /\ Idle(t) /\ OffersContinue(page[t])
    /\ page' = [page EXCEPT ![t] = Confirmation]
    /\ UNCHANGED <<vars, mock, net, promo>>

-----------------------------------------------------------------------------
(* applyPromo.  The form is beside the panel and does not wait for it. *)

SubmitPromo(t) ==
    /\ page[t].at = "checkout" /\ promo[t] = "idle"
    /\ promo' = [promo EXCEPT ![t] = "posted"]
    /\ UNCHANGED <<vars, mock, page, net>>

\* Bound: every code brings the same reduced total.
ServePromo(t) ==
    /\ promo[t] = "posted"
    /\ ApplyPromo /\ booking'.total = "reduced"
    /\ promo' = [promo EXCEPT ![t] = "served"]
    /\ UNCHANGED <<mock, page, net>>

\* An unknown code, a booking that may not be repriced, or a failed request.
RefusePromo(t) ==
    /\ promo[t] = "posted"
    /\ promo' = [promo EXCEPT ![t] = "served"]
    /\ UNCHANGED <<vars, mock, page, net>>

\* back(): the page gets fresh props and keeps its components, so the panel keeps its
\* intent.  A page that has gone on meanwhile is not brought back.
PromoShown(t) ==
    /\ promo[t] = "served"
    /\ promo' = [promo EXCEPT ![t] = "idle"]
    /\ page' = IF page[t].at = "checkout" /\ page[t].intent = NoPayload
               THEN [page EXCEPT ![t].prop = PaymentProp]
               ELSE page
    /\ UNCHANGED <<vars, mock, net>>

-----------------------------------------------------------------------------
(* Everything that happens without the page. *)

\* Stripe settles what was confirmed, or an operator cancels in the dashboard.
StripeSettles(p) ==
    /\ ~mock
    /\ StripeMoves(p)
    /\ \/ intents[p].status \in {"processing", "requires_action"}
       \/ intents'[p].status = "canceled"
    /\ UNCHANGED pageVars

\* Webhooks and the clean-up job.  In mock mode there are no events.
Load ==
    \/ \E d \in Deliveries, p \in PaymentIds, i \in 1 .. MaxEvents : LoadWebhook(d, p, i)
    \/ SelectAbandoned

\* Two hours pass: nothing is on its way that long, but a challenge may stay open.
TwoHoursPass ==
    /\ \A t \in Tabs : net[t].stage \in {"idle", "challenge"} /\ promo[t] = "idle"
    /\ PaymentsAge

\* Passenger details are stored before: the checkout shows nothing earlier.
StoreDetailsFirst ==
    /\ booking.status = "offer_selected"
    /\ booking' = [booking EXCEPT !.status = "passenger_details_added"]
    /\ UNCHANGED <<payments, recorded, stripe, requests, webhooks, details, cleanup, aged,
                   pageVars>>

PanelStep(t) ==
    \/ ServePrepare(t) \/ Refuse(t) \/ ServeStripe(t) \/ ServeLink(t) \/ ServeFails(t)
    \/ AnswerArrives(t) \/ RefusalArrives(t)
    \/ ServeSimulate(t) \/ PaidArrives(t)
    \/ ConfirmPayment(t) \/ StripeDeclines(t)

PromoStep(t) == ServePromo(t) \/ RefusePromo(t) \/ PromoShown(t)

CustomerStep(t) ==
    \/ LoadCheckout(t) \/ Leave(t)
    \/ Prepare(t) \/ Simulate(t) \/ Pay(t) \/ Continue(t) \/ SubmitPromo(t)
    \/ ChallengeEnds(t) \/ ReturnFromBank(t)

Alone == (Load \/ TwoHoursPass) /\ UNCHANGED pageVars

PageNext ==
    \/ WriteAfterLoad /\ UNCHANGED pageVars
    \/ /\ Overlap \/ ~UnlockedLoad
       /\ \/ \E t \in Tabs : PanelStep(t) \/ PromoStep(t) \/ CustomerStep(t)
          \/ \E p \in PaymentIds : StripeSettles(p)
          \/ Alone \/ StoreDetailsFirst

\* Requests are answered and answers arrive; nobody must click.  Strong, because a
\* webhook that comes in between, although it is one step, keeps the others out.
PageFairness ==
    /\ WF_allVars(WriteAfterLoad /\ UNCHANGED pageVars)
    /\ \A t \in Tabs : SF_allVars((Overlap \/ ~UnlockedLoad) /\ PanelStep(t))

PageSpec == PageInit /\ [][PageNext]_allVars /\ PageFairness

-----------------------------------------------------------------------------
\* The mock panel is never left without the address that Simulate posts to, although the
\* page starts with an empty one: the form that needs it comes with the answer that
\* brings it, and a repricing in between does not part them.
SimulateNeverLacksUrl ==
    \A t \in Tabs :
        page[t].at = "checkout" /\ OffersSimulate(page[t]) => ActivePayment(page[t]).url

\* A customer who comes back to the checkout of a paid booking, after any number of
\* payments that were cancelled, replaced or found again, is sent on to the confirmation
\* and is not asked to pay once more.
PaidIsNotAskedAgain ==
    booking.status = "payment_succeeded"
        => OffersContinue(FirstView) /\ ~OffersToPay(FirstView)

MoneyIsOnItsWay(p) ==
    IF mock THEN payments[p].status = "succeeded"
    ELSE intents[p].status \in {"succeeded", "processing"}

\* The checkout itself sends a customer on only for the payment its panel is about, and
\* only when the money of that payment is there or on its way: not after a request that was
\* refused, repeated, answered late or made for a payment that was cancelled meanwhile, and
\* not after a challenge that failed.  (A bank sends him on in any case.)
CheckoutSendsOnPaid ==
    [][\A t \in Tabs :
          page[t].at = "checkout" /\ page'[t].at = "confirmation"
              => \E p \in PaymentIds :
                    p = ActivePayment(page[t]).id /\ MoneyIsOnItsWay(p)']_allVars

\* A button that says Preparing, Simulating or Processing is given back, whatever becomes
\* of the request, unless the customer leaves a challenge of his bank open.
PanelAnswers ==
    \A t \in Tabs : page[t].loading ~> ~page[t].loading \/ net[t].stage = "challenge"

-----------------------------------------------------------------------------
(* A property the code does not have. *)

\* "Applying a promo reprices the booking and cancels any unpaid old PaymentIntent"
\* (Checkout.tsx): what is cancelled is not charged afterwards.
CancelledIsNeverPaid ==
    [][\A p \in PaymentIds :
          payments[p].status = "cancelled" /\ ~Charged(p) => ~Charged(p)']_allVars
=============================================================================

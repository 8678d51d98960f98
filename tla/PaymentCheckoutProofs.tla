----------------------- MODULE PaymentCheckoutProofs -----------------------
(***************************************************************************)
(* Proofs about PaymentCheckout, for any numbers of payments, events,      *)
(* requests and deliveries.  First what holds however the handlers         *)
(* overlap, then what holds when nothing comes between an unlocked load    *)
(* and its write.                                                          *)
(***************************************************************************)
EXTENDS PaymentCheckout, TLAPS

-----------------------------------------------------------------------------
(* The inductive invariant for any overlap.                                 *)

\* A payment without a row has no intent, and is not aged into one.
RowsAreWhole ==
    \A p \in PaymentIds :
        payments[p].status = "none" => payments[p] = NoPayment /\ intents[p] = NoIntent

\* As long as an open payment has no intent, its amount is the booking's total.
UnlinkedIsCurrent ==
    \A p \in PaymentIds :
        Open(p) /\ ~payments[p].linked => payments[p].amount = booking.total

\* What a request for an intent holds.
RequestHolds(r) ==
    LET p == requests[r].payment IN
    requests[r].stage # "idle" =>
        /\ p \in PaymentIds
        /\ payments[p].status # "none"
        /\ requests[r].stage = "call" /\ ~requests[r].retrieve
              => requests[r].total = payments[p].amount
        /\ requests[r].stage = "link" /\ requests[r].answer = "succeeded" => Charged(p)

\* What a delivery holds.
DeliveryHolds(d) ==
    LET p == webhooks[d].payment IN
    webhooks[d].stage = "loaded" =>
        /\ p \in PaymentIds
        /\ payments[p].linked
        /\ webhooks[d].event \in 1 .. Len(events[p])

\* Stripe announces a success only when there is one.
EventsAreTrue ==
    \A p \in PaymentIds : \A i \in 1 .. Len(events[p]) :
        events[p][i] = "succeeded" => Charged(p)

IInv ==
    /\ TypeOK
    /\ RowsAreWhole
    /\ UnlinkedIsCurrent
    /\ \A r \in IntentRequests : RequestHolds(r)
    /\ \A d \in Deliveries : DeliveryHolds(d)
    /\ EventsAreTrue
    /\ \A p \in cleanup : payments[p].status # "none"
    /\ NothingForFree
    /\ IntentAmountIsPaymentAmount

-----------------------------------------------------------------------------
(* The additional invariant without overlap.                                *)

\* What was loaded still stands, and only one handler has loaded anything.
LoadsStand ==
    /\ \A d \in Deliveries : webhooks[d].stage = "loaded" =>
         /\ webhooks[d].seen = payments[webhooks[d].payment].status
         /\ cleanup = {}
         /\ \A q \in DetailsRequests : details[q] = "none"
         /\ \A e \in Deliveries : webhooks[e].stage = "loaded" => e = d
    /\ \A p \in cleanup : Open(p)
    /\ \A q \in DetailsRequests : details[q] # "none" =>
         /\ details[q] = booking.status
         /\ cleanup = {}
         /\ \A k \in DetailsRequests : details[k] # "none" => k = q

\* A delivery that is not idle has loaded.
IdleIsIdle == \A d \in Deliveries : webhooks[d].stage = "idle" => webhooks[d] = NoDelivery

\* A payment that can be completed or is succeeded has the booking's present total.
ReusableIsCurrent ==
    \A p \in PaymentIds : Reusable(p) => payments[p].amount = booking.total

\* What is held, of the invariants above and of the loads: enough to know what a step does.
HeldInv ==
    /\ TypeOK
    /\ \A r \in IntentRequests :
         requests[r].stage # "idle" => requests[r].payment \in PaymentIds
    /\ \A d \in Deliveries : webhooks[d].stage = "loaded" =>
         /\ webhooks[d].payment \in PaymentIds
         /\ webhooks[d].event \in 1 .. Len(events[webhooks[d].payment])
    /\ LoadsStand /\ IdleIsIdle

SerialInv ==
    IInv /\ LoadsStand /\ IdleIsIdle /\ OneLivePayment /\ ReusableIsCurrent /\ PaidTheTotal

-----------------------------------------------------------------------------
(* Lemmas about the operators.                                              *)

\* The counters' ranges contain the payments' ids.
LEMMA IdRange == PaymentIds \subseteq 0 .. MaxPayments
BY CheckoutAssumption DEF PaymentIds

\* Stripe's statuses are mapped to payment statuses, and only success to success.
LEMMA Mapping ==
    ASSUME NEW s \in IntentStatuses
    PROVE  /\ MapStripeStatus(s) \in Answers
           /\ MapStripeStatus(s) \in PaymentStatuses
           /\ MapStripeStatus(s) = "succeeded" <=> s = "succeeded"
           /\ ~CanTransitionPayment("succeeded", MapStripeStatus(s))
<1>1. MapStripeStatus(s) \in Answers
  BY DEF Answers
<1>2. QED
  BY <1>1 DEF MapStripeStatus, PaymentStatuses, IntentStatuses, CanTransitionPayment,
              NextPaymentStatuses

\* An answer is a status of a payment, and no refund.
LEMMA AnswerRange ==
    ASSUME NEW t \in Answers
    PROVE  t \in PaymentStatuses /\ ~CanTransitionPayment("succeeded", t)
BY Mapping DEF Answers

\* What may follow a status is a status, and nothing leads back to "created".
LEMMA NextRange ==
    ASSUME NEW s, NEW t, CanTransitionPayment(s, t)
    PROVE  s # "none" /\ t \in PaymentStatuses /\ t # "none"
BY DEF CanTransitionPayment, NextPaymentStatuses, PaymentStatuses

\* Both invariants hold of a booking whose offer was just selected.
LEMMA InitInv == Init => SerialInv
<1> SUFFICES ASSUME Init PROVE SerialInv
  OBVIOUS
<1>1. "processing" \in Answers
  BY Mapping DEF IntentStatuses, MapStripeStatus, Answers
<1>2. TypeOK
  BY <1>1, CheckoutAssumption, IdRange
     DEF Init, TypeOK, BookingRows, PaymentRows, Intents, RequestStates, DeliveryStates,
         NoPayment, NoIntent, NoRequest, NoDelivery, CheckoutStatuses,
         Totals, PaymentStatuses
<1>3. IInv
  BY <1>2 DEF Init, IInv, RowsAreWhole, UnlinkedIsCurrent, RequestHolds, DeliveryHolds,
         EventsAreTrue, NothingForFree, IntentAmountIsPaymentAmount, NoPayment, NoIntent,
         NoRequest, NoDelivery, Open, OpenStatuses, Charged
<1>4. QED
  BY <1>3 DEF Init, SerialInv, LoadsStand, IdleIsIdle, OneLivePayment, Reusable, Open,
         OpenStatuses, NoDelivery, NoPayment, ReusableIsCurrent, PaidTheTotal

-----------------------------------------------------------------------------
(* Requests for a payment intent.                                           *)

\* A new row carries the present total; a reused one without intent does as well.
LEMMA StartIntentInv ==
    ASSUME IInv, NEW r \in IntentRequests, StartIntent(r)
    PROVE  IInv'
<1> DEFINE new == [status |-> "created", amount |-> booking.total, linked |-> FALSE]
<1>1. /\ booking \in BookingRows /\ booking.total \in Totals
      /\ payments \in [PaymentIds -> PaymentRows]
      /\ requests \in [IntentRequests -> RequestStates]
      /\ new \in PaymentRows
  BY DEF IInv, TypeOK, BookingRows, PaymentRows, PaymentStatuses
<1>2. PICK p \in PaymentIds, row \in PaymentRows :
        /\ payments' = [payments EXCEPT ![p] = row]
        /\ \/ row = payments[p] /\ Reusable(p)
           \/ row = new /\ payments[p].status = "none"
        /\ requests' = IF row.status = "succeeded" THEN requests
                       ELSE [requests EXCEPT ![r] =
                               [stage |-> "call", payment |-> p, retrieve |-> row.linked,
                                total |-> booking.total, answer |-> "processing"]]
  BY <1>1 DEF StartIntent, Latest, NextId
<1>3. /\ booking' = [booking EXCEPT !.status = "payment_pending"]
      /\ UNCHANGED <<recorded, intents, events, webhooks, details, cleanup, aged>>
  BY DEF StartIntent, stripe
<1>4. row.status \in OpenStatuses \union {"succeeded"}
  BY <1>2 DEF Reusable, Open, OpenStatuses
<1>5. /\ booking'.total = booking.total /\ booking' \in BookingRows
      /\ booking'.status = "payment_pending" /\ booking'.confirm = booking.confirm
  BY <1>3, <1>1 DEF BookingRows, CheckoutStatuses
<1>6. /\ payments' \in [PaymentIds -> PaymentRows]
      /\ \A q \in PaymentIds : payments'[q] = IF q = p THEN row ELSE payments[q]
      /\ \A q \in PaymentIds : payments[q].status # "none" => payments'[q] = payments[q]
  <2>1. payments[p].status # "none" => row = payments[p]
    BY <1>2
  <2>2. QED
    BY <1>2, <1>1, <1>4, <2>1
<1>7. TypeOK'
  <2>1. "processing" \in Answers
    BY Mapping DEF IntentStatuses, MapStripeStatus, Answers
  <2>2. [stage |-> "call", payment |-> p, retrieve |-> row.linked,
         total |-> booking.total, answer |-> "processing"] \in RequestStates
    BY <1>1, <1>4, <2>1, IdRange DEF RequestStates, PaymentRows
  <2>3. requests' \in [IntentRequests -> RequestStates]
    BY <1>2, <1>1, <2>2
  <2>4. QED
    BY <1>3, <1>5, <1>6, <2>3 DEF IInv, TypeOK
<1>8. RowsAreWhole' /\ UnlinkedIsCurrent'
  <2>1. Open(p)' /\ ~row.linked => row.amount = booking.total
    <3>1. CASE row = payments[p]
      BY <1>6, <3>1 DEF IInv, UnlinkedIsCurrent, Open
    <3>2. CASE row = new
      BY <3>2
    <3>3. QED
      BY <1>2, <3>1, <3>2
  <2>2. row.status # "none"
    BY <1>4 DEF OpenStatuses
  <2>3. QED
    BY <1>3, <1>5, <1>6, <2>1, <2>2 DEF IInv, RowsAreWhole, UnlinkedIsCurrent, Open
<1>9. IntentAmountIsPaymentAmount'
  BY <1>3, <1>6 DEF IInv, RowsAreWhole, IntentAmountIsPaymentAmount
<1>10. ASSUME NEW k \in IntentRequests
       PROVE  RequestHolds(k)'
  <2>1. CASE k = r /\ row.status # "succeeded"
    <3>1. row.status # "none" /\ (~row.linked => row.amount = booking.total)
      BY <1>2, <1>4, <2>1 DEF IInv, UnlinkedIsCurrent, Reusable, Open, OpenStatuses
    <3>2. requests'[k] = [stage |-> "call", payment |-> p, retrieve |-> row.linked,
                          total |-> booking.total, answer |-> "processing"]
      BY <1>2, <1>1, <2>1
    <3>3. QED
      BY <1>6, <3>1, <3>2 DEF RequestHolds
  <2>2. CASE requests'[k] = requests[k]
    BY <1>3, <1>6, <2>2 DEF IInv, RequestHolds, Charged
  <2>3. QED
    BY <1>2, <1>1, <2>1, <2>2
<1>11. \A d \in Deliveries : DeliveryHolds(d)'
  BY <1>3, <1>6 DEF IInv, DeliveryHolds, RowsAreWhole, NoPayment
<1>12. EventsAreTrue' /\ (\A q \in cleanup' : payments'[q].status # "none")
  BY <1>3, <1>6 DEF IInv, TypeOK, EventsAreTrue, Charged
<1>13. NothingForFree'
  BY <1>2, <1>3, <1>5, <1>6 DEF IInv, NothingForFree, Charged
<1>14. QED
  BY <1>7, <1>8, <1>9, <1>10, <1>11, <1>12, <1>13 DEF IInv

\* The intent gets the amount of the row, because the request carries it.
LEMMA CallStripeInv ==
    ASSUME IInv, NEW r \in IntentRequests, CallStripe(r)
    PROVE  IInv'
<1> DEFINE p == requests[r].payment
<1>1. /\ requests[r].stage = "call"
      /\ p \in PaymentIds
      /\ ~requests[r].retrieve => requests[r].total = payments[p].amount
      /\ UNCHANGED <<booking, payments, recorded, events, webhooks, details, cleanup, aged>>
  BY DEF CallStripe, database, IInv, RequestHolds
<1>2. /\ requests \in [IntentRequests -> RequestStates]
      /\ intents \in [PaymentIds -> Intents]
      /\ intents[p].status \in IntentStatuses \union {"absent"}
      /\ requests[r] \in RequestStates /\ requests[r].total \in Totals
  BY <1>1 DEF IInv, TypeOK, Intents, RequestStates
<1>3. PICK s :
        /\ requests' = [requests EXCEPT ![r].stage = "link", ![r].answer = s]
        /\ s = "succeeded" => Charged(p)
        /\ s \in Answers
  <2>1. CASE requests[r].retrieve
    <3>1. MapStripeStatus("absent") = MapStripeStatus("processing")
      BY DEF MapStripeStatus
    <3>2. QED
      BY <1>2, <2>1, <3>1, Mapping DEF CallStripe, Charged, IntentStatuses
  <2>2. CASE ~requests[r].retrieve
    <3>1. MapStripeStatus("requires_payment_method") = "requires_payment_method"
      BY DEF MapStripeStatus
    <3>2. "requires_payment_method" \in Answers
      BY <3>1, Mapping DEF IntentStatuses
    <3>3. QED
      BY <2>2, <3>2 DEF CallStripe
  <2>3. QED
    BY <2>1, <2>2
<1>4. \/ intents' = intents
      \/ /\ intents[p] = NoIntent
         /\ intents' = [intents EXCEPT ![p] =
                [status |-> "requires_payment_method", amount |-> payments[p].amount]]
  BY <1>1 DEF CallStripe, ChargedAmount
<1>5. /\ intents' \in [PaymentIds -> Intents]
      /\ \A q \in PaymentIds : Charged(q) => Charged(q)'
      /\ \A q \in PaymentIds :
           intents'[q] = intents[q] \/ intents'[q].amount = payments[q].amount
  <2>1. payments[p].amount \in Totals
    BY <1>1 DEF IInv, TypeOK, PaymentRows
  <2>2. [status |-> "requires_payment_method", amount |-> payments[p].amount] \in Intents
    BY <2>1 DEF Intents, IntentStatuses
  <2>3. QED
    BY <1>2, <1>4, <2>2 DEF Charged, NoIntent
<1>6. /\ requests' \in [IntentRequests -> RequestStates]
      /\ requests'[r].payment = p
      /\ requests'[r].stage = "link" /\ requests'[r].answer = s
      /\ \A k \in IntentRequests : k # r => requests'[k] = requests[k]
  BY <1>2, <1>3 DEF RequestStates
<1>7. TypeOK'
  BY <1>1, <1>5, <1>6 DEF IInv, TypeOK
<1>8. payments[p].status # "none"
  BY <1>1 DEF IInv, RequestHolds
<1>9. RowsAreWhole' /\ UnlinkedIsCurrent' /\ IntentAmountIsPaymentAmount'
  BY <1>1, <1>2, <1>4, <1>5, <1>8
     DEF IInv, RowsAreWhole, UnlinkedIsCurrent, Open, IntentAmountIsPaymentAmount
<1>10. ASSUME NEW k \in IntentRequests
       PROVE  RequestHolds(k)'
  <2>1. CASE k = r
    BY <1>1, <1>3, <1>5, <1>6, <1>8, <2>1 DEF RequestHolds
  <2>2. CASE k # r
    BY <1>1, <1>5, <1>6, <2>2 DEF IInv, RequestHolds
  <2>3. QED
    BY <2>1, <2>2
<1>11. (\A d \in Deliveries : DeliveryHolds(d)') /\ EventsAreTrue'
  BY <1>1, <1>5 DEF IInv, DeliveryHolds, EventsAreTrue
<1>12. NothingForFree' /\ (\A q \in cleanup' : payments'[q].status # "none")
  BY <1>1, <1>5 DEF IInv, NothingForFree
<1>13. QED
  BY <1>7, <1>9, <1>10, <1>11, <1>12 DEF IInv

\* Stripe's answer "succeeded" is written only for a charge.
LEMMA LinkIntentInv ==
    ASSUME IInv, NEW r \in IntentRequests, LinkIntent(r)
    PROVE  IInv'
<1> DEFINE p == requests[r].payment
           answer == requests[r].answer
<1>1. /\ requests[r].stage = "link"
      /\ p \in PaymentIds
      /\ payments[p].status # "none"
      /\ answer = "succeeded" => Charged(p)
      /\ requests' = [requests EXCEPT ![r] = NoRequest]
      /\ UNCHANGED <<booking, recorded, intents, events, webhooks, details, cleanup, aged>>
  BY DEF LinkIntent, stripe, IInv, RequestHolds
<1>2. /\ payments \in [PaymentIds -> PaymentRows]
      /\ payments[p] \in PaymentRows
      /\ requests \in [IntentRequests -> RequestStates]
  BY <1>1 DEF IInv, TypeOK
<1>3. PICK t :
        /\ payments' = [payments EXCEPT ![p].linked = TRUE, ![p].status = t]
        /\ \/ t = payments[p].status
           \/ t = answer /\ CanTransitionPayment(payments[p].status, t)
  BY DEF LinkIntent
<1>4. t \in PaymentStatuses /\ t # "none"
  BY <1>1, <1>2, <1>3, NextRange DEF PaymentRows
<1>5. /\ payments' \in [PaymentIds -> PaymentRows]
      /\ payments'[p].linked /\ payments'[p].status = t
      /\ payments'[p].amount = payments[p].amount
      /\ \A q \in PaymentIds : q # p => payments'[q] = payments[q]
  BY <1>1, <1>2, <1>3, <1>4 DEF PaymentRows
<1>6. requests' \in [IntentRequests -> RequestStates]
  <2>1. NoRequest \in RequestStates
    BY CheckoutAssumption, Mapping
       DEF NoRequest, RequestStates, Totals, Answers, IntentStatuses, MapStripeStatus
  <2>2. QED
    BY <1>1, <1>2, <2>1
<1>7. TypeOK'
  BY <1>1, <1>5, <1>6 DEF IInv, TypeOK
<1>8. RowsAreWhole' /\ UnlinkedIsCurrent' /\ IntentAmountIsPaymentAmount'
  BY <1>1, <1>4, <1>5
     DEF IInv, RowsAreWhole, UnlinkedIsCurrent, Open, IntentAmountIsPaymentAmount
<1>9. ASSUME NEW k \in IntentRequests
      PROVE  RequestHolds(k)'
  <2>1. CASE k = r
    BY <1>1, <1>2, <2>1 DEF RequestHolds, NoRequest
  <2>2. CASE k # r
    BY <1>1, <1>2, <1>4, <1>5, <2>2 DEF IInv, RequestHolds, Charged
  <2>3. QED
    BY <2>1, <2>2
<1>10. (\A d \in Deliveries : DeliveryHolds(d)') /\ EventsAreTrue'
  BY <1>1, <1>5 DEF IInv, DeliveryHolds, EventsAreTrue, Charged
<1>11. NothingForFree'
  BY <1>1, <1>3, <1>5 DEF IInv, NothingForFree, Charged
<1>12. \A q \in cleanup' : payments'[q].status # "none"
  BY <1>1, <1>4, <1>5 DEF IInv, TypeOK
<1>13. QED
  BY <1>7, <1>8, <1>9, <1>10, <1>11, <1>12 DEF IInv

\* A request that fails leaves no promise behind.
LEMMA RequestFailsInv ==
    ASSUME IInv, NEW r \in IntentRequests, RequestFails(r)
    PROVE  IInv'
<1>1. /\ requests' = [requests EXCEPT ![r] = NoRequest]
      /\ UNCHANGED <<booking, payments, recorded, intents, events, webhooks, details,
                     cleanup, aged>>
  BY DEF RequestFails, database, stripe
<1>2. NoRequest \in RequestStates
  BY CheckoutAssumption, Mapping
     DEF NoRequest, RequestStates, Totals, Answers, IntentStatuses, MapStripeStatus
<1>3. TypeOK'
  BY <1>1, <1>2 DEF IInv, TypeOK
<1>4. \A k \in IntentRequests : RequestHolds(k)'
  BY <1>1 DEF IInv, TypeOK, RequestHolds, NoRequest, Charged
<1>5. QED
  BY <1>1, <1>3, <1>4
     DEF IInv, RowsAreWhole, UnlinkedIsCurrent, DeliveryHolds, EventsAreTrue, Open,
         NothingForFree, IntentAmountIsPaymentAmount, Charged

-----------------------------------------------------------------------------
(* Stripe.                                                                  *)

\* A charge is final.
LEMMA MovesRange ==
    ASSUME NEW s, NEW t \in IntentMoves(s)
    PROVE  t \in IntentStatuses /\ s # "succeeded" /\ s # "absent"
BY DEF IntentMoves, IntentStatuses

\* Stripe moves an intent on and says so truthfully.
LEMMA StripeMovesInv ==
    ASSUME IInv, NEW p \in PaymentIds, StripeMoves(p)
    PROVE  IInv'
<1>1. PICK s \in IntentMoves(intents[p].status) :
        /\ intents' = [intents EXCEPT ![p].status = s]
        /\ \/ UNCHANGED events
           \/ Len(events[p]) < MaxEvents /\ events' = [events EXCEPT ![p] = Append(@, s)]
  BY DEF StripeMoves
<1>2. UNCHANGED <<booking, payments, recorded, requests, webhooks, details, cleanup, aged>>
  BY DEF StripeMoves, database
<1>3. /\ s \in IntentStatuses
      /\ intents[p].status # "succeeded" /\ intents[p].status # "absent"
  BY <1>1, MovesRange
<1>4. /\ intents \in [PaymentIds -> Intents]
      /\ events \in [PaymentIds -> Seq(IntentStatuses)]
      /\ \A q \in PaymentIds : Len(events[q]) <= MaxEvents
  BY DEF IInv, TypeOK
<1>5. /\ intents' \in [PaymentIds -> Intents]
      /\ intents'[p].status = s /\ intents'[p].amount = intents[p].amount
      /\ \A q \in PaymentIds : q # p => intents'[q] = intents[q]
  BY <1>1, <1>3, <1>4 DEF Intents
<1>6. \A q \in PaymentIds : Charged(q) => Charged(q)'
  BY <1>3, <1>5 DEF Charged
<1>7. /\ events' \in [PaymentIds -> Seq(IntentStatuses)]
      /\ \A q \in PaymentIds : Len(events'[q]) <= MaxEvents
      /\ \A q \in PaymentIds : Len(events[q]) <= Len(events'[q])
      /\ \A q \in PaymentIds : \A i \in 1 .. Len(events'[q]) :
           \/ i \in 1 .. Len(events[q]) /\ events'[q][i] = events[q][i]
           \/ q = p /\ events'[q][i] = s
  <2>1. CASE UNCHANGED events
    BY <1>4, <2>1
  <2>2. CASE /\ Len(events[p]) < MaxEvents
             /\ events' = [events EXCEPT ![p] = Append(@, s)]
    <3>1. /\ Append(events[p], s) \in Seq(IntentStatuses)
          /\ Len(Append(events[p], s)) = Len(events[p]) + 1
          /\ \A i \in 1 .. Len(events[p]) : Append(events[p], s)[i] = events[p][i]
          /\ Append(events[p], s)[Len(events[p]) + 1] = s
      BY <1>3, <1>4
    <3>2. events'[p] = Append(events[p], s)
      BY <1>4, <2>2
    <3>3. \A q \in PaymentIds : q # p => events'[q] = events[q]
      BY <1>4, <2>2
    <3>4. \A q \in PaymentIds : Len(events[q]) \in Nat
      BY <1>4
    <3>5. QED
      BY <1>4, <2>2, <3>1, <3>2, <3>3, <3>4, CheckoutAssumption
  <2>3. QED
    BY <1>1, <2>1, <2>2
<1>8. EventsAreTrue'
  BY <1>5, <1>6, <1>7 DEF IInv, EventsAreTrue, Charged
<1>9. \A d \in Deliveries : DeliveryHolds(d)'
  <2>1. \A q \in PaymentIds : \A i \in 1 .. Len(events[q]) : i \in 1 .. Len(events'[q])
    <3>1. \A q \in PaymentIds : Len(events[q]) \in Nat /\ Len(events'[q]) \in Nat
      BY <1>4, <1>7
    <3>2. QED
      BY <1>7, <3>1
  <2>2. QED
    BY <1>2, <2>1 DEF IInv, DeliveryHolds
<1>10. TypeOK'
  BY <1>2, <1>5, <1>7 DEF IInv, TypeOK
<1>11. payments[p].status # "none"
  BY <1>3 DEF IInv, RowsAreWhole, NoIntent
<1>12. RowsAreWhole' /\ UnlinkedIsCurrent' /\ IntentAmountIsPaymentAmount'
  BY <1>2, <1>3, <1>5, <1>11
     DEF IInv, RowsAreWhole, UnlinkedIsCurrent, Open, IntentAmountIsPaymentAmount, NoIntent
<1>13. NothingForFree' /\ \A r \in IntentRequests : RequestHolds(r)'
  BY <1>2, <1>6 DEF IInv, NothingForFree, RequestHolds
<1>14. QED
  BY <1>2, <1>8, <1>9, <1>10, <1>12, <1>13 DEF IInv

-----------------------------------------------------------------------------
(* Webhooks.                                                                *)

\* A delivery is loaded for a linked payment.
LEMMA LoadWebhookInv ==
    ASSUME IInv, NEW d \in Deliveries, NEW p \in PaymentIds, NEW i \in 1 .. MaxEvents,
           LoadWebhook(d, p, i)
    PROVE  IInv'
<1> DEFINE held == [stage |-> "loaded", payment |-> p, event |-> i,
                    seen |-> payments[p].status]
<1>1. /\ webhooks' = [webhooks EXCEPT ![d] = held]
      /\ payments[p].linked
      /\ UNCHANGED <<booking, payments, recorded, intents, events, requests, details,
                     cleanup, aged>>
  BY DEF LoadWebhook, database, stripe
<1>2. i \in 1 .. Len(events[p])
  BY DEF LoadWebhook, IInv, TypeOK
<1>3. payments[p].status \in PaymentStatuses
  BY <1>1 DEF IInv, TypeOK, PaymentRows, RowsAreWhole, NoPayment
<1>4. held \in DeliveryStates
  BY <1>3, IdRange, CheckoutAssumption DEF DeliveryStates
<1>5. TypeOK'
  BY <1>1, <1>4 DEF IInv, TypeOK
<1>6. \A e \in Deliveries : DeliveryHolds(e)'
  BY <1>1, <1>2 DEF IInv, TypeOK, DeliveryHolds
<1>7. QED
  BY <1>1, <1>5, <1>6
     DEF IInv, RowsAreWhole, UnlinkedIsCurrent, RequestHolds, EventsAreTrue, Open,
         NothingForFree, IntentAmountIsPaymentAmount, Charged

\* A handler that writes a status to a linked row, or to one it leaves cancelled,
\* keeps what the invariant says of payments, if success is written only over a
\* charge.
LEMMA StatusWritten ==
    ASSUME IInv, NEW p \in PaymentIds, NEW s \in PaymentStatuses,
           payments[p].status # "none",
           payments[p].linked \/ s = "cancelled",
           s = "succeeded" => Charged(p),
           payments' = [payments EXCEPT ![p].status = s],
           booking'.total = booking.total,
           UNCHANGED <<intents, events, requests>>,
           cleanup' \subseteq cleanup
    PROVE  /\ payments' \in [PaymentIds -> PaymentRows]
           /\ RowsAreWhole' /\ UnlinkedIsCurrent' /\ IntentAmountIsPaymentAmount'
           /\ \A r \in IntentRequests : RequestHolds(r)'
           /\ EventsAreTrue'
           /\ \A q \in cleanup' : payments'[q].status # "none"
           /\ \A q \in PaymentIds : payments'[q].linked = payments[q].linked
           /\ \A q \in PaymentIds : payments'[q].status = "succeeded" => Charged(q)'
<1>1. payments \in [PaymentIds -> PaymentRows] /\ cleanup \subseteq PaymentIds
  BY DEF IInv, TypeOK
<1>2. s # "none"
  BY DEF PaymentStatuses
<1>3. /\ payments' \in [PaymentIds -> PaymentRows]
      /\ payments'[p].status = s /\ payments'[p].amount = payments[p].amount
      /\ payments'[p].linked = payments[p].linked
      /\ \A q \in PaymentIds : q # p => payments'[q] = payments[q]
  BY <1>1 DEF PaymentRows
<1>4. RowsAreWhole' /\ UnlinkedIsCurrent' /\ IntentAmountIsPaymentAmount'
  BY <1>2, <1>3 DEF IInv, RowsAreWhole, UnlinkedIsCurrent, Open, OpenStatuses,
                   IntentAmountIsPaymentAmount
<1>5. \A r \in IntentRequests : RequestHolds(r)'
  BY <1>2, <1>3 DEF IInv, RequestHolds, Charged
<1>6. EventsAreTrue'
  BY DEF IInv, EventsAreTrue, Charged
<1>7. \A q \in PaymentIds : payments'[q].status = "succeeded" => Charged(q)'
  BY <1>3 DEF IInv, NothingForFree, Charged
<1>8. QED
  BY <1>1, <1>2, <1>3, <1>4, <1>5, <1>6, <1>7 DEF IInv

\* A delivery that is answered holds nothing any more.
LEMMA Answering ==
    ASSUME IInv, NEW d \in Deliveries, Answered200(d), UNCHANGED events,
           \A q \in PaymentIds : payments'[q].linked = payments[q].linked
    PROVE  /\ webhooks' \in [Deliveries -> DeliveryStates]
           /\ \A e \in Deliveries : DeliveryHolds(e)'
<1>1. NoDelivery \in DeliveryStates
  BY CheckoutAssumption DEF NoDelivery, DeliveryStates, PaymentStatuses
<1>2. webhooks \in [Deliveries -> DeliveryStates]
  BY DEF IInv, TypeOK
<1>3. QED
  BY <1>1, <1>2 DEF Answered200, IInv, DeliveryHolds, NoDelivery

\* A recorded event is one that Stripe may have sent.
LEMMA Recording ==
    ASSUME IInv, NEW d \in Deliveries, webhooks[d].stage = "loaded",
           recorded' \in {recorded, recorded \union {EventId(d)}}
    PROVE  recorded' \subseteq PaymentIds \X (1 .. MaxEvents)
<1>1. /\ webhooks[d].payment \in PaymentIds
      /\ webhooks[d].event \in 1 .. Len(events[webhooks[d].payment])
      /\ Len(events[webhooks[d].payment]) <= MaxEvents
      /\ Len(events[webhooks[d].payment]) \in Nat
  BY DEF IInv, TypeOK, DeliveryHolds
<1>2. EventId(d) \in PaymentIds \X (1 .. MaxEvents)
  BY <1>1, CheckoutAssumption DEF EventId
<1>3. QED
  BY <1>2 DEF IInv, TypeOK

\* A success event stands for a charge.
LEMMA WebhookSucceededInv ==
    ASSUME IInv, NEW d \in Deliveries, WebhookSucceeded(d)
    PROVE  IInv'
<1> DEFINE p == webhooks[d].payment
<1>1. /\ p \in PaymentIds
      /\ webhooks[d].event \in 1 .. Len(events[p])
      /\ events[p][webhooks[d].event] = "succeeded"
      /\ payments[p].linked
  BY DEF WebhookSucceeded, Loaded, EventStatus, IInv, DeliveryHolds
<1>2. Charged(p)
  BY <1>1 DEF IInv, EventsAreTrue
<1>3. /\ booking' = [booking EXCEPT !.status = StatusAfterPayment(@), !.confirm = TRUE]
      /\ Answered200(d)
      /\ UNCHANGED <<intents, events, requests, details, cleanup, aged>>
  BY DEF WebhookSucceeded, stripe
<1>4. booking' \in BookingRows /\ booking'.total = booking.total
  BY <1>3 DEF IInv, TypeOK, BookingRows, StatusAfterPayment, CheckoutStatuses
<1>5. payments \in [PaymentIds -> PaymentRows] /\ payments[p].status # "none"
  BY <1>1 DEF IInv, TypeOK, RowsAreWhole, NoPayment
<1>6. recorded' \subseteq PaymentIds \X (1 .. MaxEvents)
  <2>1. webhooks[d].stage = "loaded" /\ recorded' \in {recorded, recorded \union {EventId(d)}}
    BY DEF WebhookSucceeded, Loaded
  <2>2. QED
    BY <2>1, Recording
<1>7. payments' = [payments EXCEPT ![p].status = "succeeded"]
  BY <1>1, <1>5 DEF WebhookSucceeded, PaymentRows
<1>8. /\ payments' \in [PaymentIds -> PaymentRows]
      /\ RowsAreWhole' /\ UnlinkedIsCurrent' /\ IntentAmountIsPaymentAmount'
      /\ \A r \in IntentRequests : RequestHolds(r)'
      /\ EventsAreTrue'
      /\ \A q \in cleanup' : payments'[q].status # "none"
      /\ \A q \in PaymentIds : payments'[q].linked = payments[q].linked
      /\ \A q \in PaymentIds : payments'[q].status = "succeeded" => Charged(q)'
  BY <1>1, <1>2, <1>3, <1>4, <1>5, <1>7, StatusWritten DEF PaymentStatuses
<1>9. /\ webhooks' \in [Deliveries -> DeliveryStates]
      /\ \A e \in Deliveries : DeliveryHolds(e)'
  BY <1>3, <1>8, Answering
<1>10. NothingForFree'
  BY <1>1, <1>2, <1>3, <1>8 DEF NothingForFree, Charged
<1>11. TypeOK'
  BY <1>3, <1>4, <1>6, <1>8, <1>9 DEF IInv, TypeOK
<1>12. QED
  BY <1>8, <1>9, <1>10, <1>11 DEF IInv

\* An ignored delivery changes nothing else.
LEMMA WebhookSucceededIgnoredInv ==
    ASSUME IInv, NEW d \in Deliveries, WebhookSucceededIgnored(d)
    PROVE  IInv'
<1>1. /\ Answered200(d)
      /\ UNCHANGED <<booking, payments, recorded, intents, events, requests, details,
                     cleanup, aged>>
  BY DEF WebhookSucceededIgnored, database, stripe
<1>2. /\ webhooks' \in [Deliveries -> DeliveryStates]
      /\ \A e \in Deliveries : DeliveryHolds(e)'
  BY <1>1, Answering
<1>3. TypeOK'
  BY <1>1, <1>2 DEF IInv, TypeOK
<1>4. QED
  BY <1>1, <1>2, <1>3
     DEF IInv, RowsAreWhole, UnlinkedIsCurrent, RequestHolds, EventsAreTrue, Open,
         NothingForFree, IntentAmountIsPaymentAmount, Charged

\* Whatever the other events write over, it is not success.
LEMMA WebhookStatusInv ==
    ASSUME IInv, NEW d \in Deliveries, WebhookStatus(d)
    PROVE  IInv'
<1> DEFINE p == webhooks[d].payment
           next == MapStripeStatus(EventStatus(d))
<1>1. /\ webhooks[d].stage = "loaded"
      /\ p \in PaymentIds
      /\ webhooks[d].event \in 1 .. Len(events[p])
      /\ EventStatus(d) # "succeeded"
      /\ payments[p].linked
  BY DEF WebhookStatus, Loaded, IInv, DeliveryHolds
<1>2. next \in PaymentStatuses /\ next # "succeeded"
  <2>1. EventStatus(d) \in IntentStatuses
    BY <1>1 DEF EventStatus, IInv, TypeOK
  <2>2. QED
    BY <1>1, <2>1, Mapping
<1>3. /\ Answered200(d)
      /\ UNCHANGED <<booking, intents, events, requests, details, cleanup, aged>>
  BY DEF WebhookStatus, stripe
<1>4. payments[p].status # "none" /\ payments \in [PaymentIds -> PaymentRows]
  BY <1>1 DEF IInv, TypeOK, RowsAreWhole, NoPayment
<1>5. PICK s \in PaymentStatuses :
        /\ payments' = [payments EXCEPT ![p].status = s]
        /\ s = "succeeded" => Charged(p)
  <2>1. CASE payments' = [payments EXCEPT ![p].status = next]
    BY <1>2, <2>1
  <2>2. CASE UNCHANGED payments
    <3>1. /\ payments[p].status \in PaymentStatuses
          /\ payments' = [payments EXCEPT ![p].status = payments[p].status]
      BY <1>1, <1>4, <2>2 DEF PaymentRows
    <3>2. QED
      BY <1>1, <3>1 DEF IInv, NothingForFree
  <2>3. QED
    BY <2>1, <2>2 DEF WebhookStatus
<1>6. /\ payments' \in [PaymentIds -> PaymentRows]
      /\ RowsAreWhole' /\ UnlinkedIsCurrent' /\ IntentAmountIsPaymentAmount'
      /\ \A r \in IntentRequests : RequestHolds(r)'
      /\ EventsAreTrue'
      /\ \A q \in cleanup' : payments'[q].status # "none"
      /\ \A q \in PaymentIds : payments'[q].linked = payments[q].linked
      /\ \A q \in PaymentIds : payments'[q].status = "succeeded" => Charged(q)'
  BY <1>1, <1>3, <1>4, <1>5, StatusWritten
<1>7. /\ webhooks' \in [Deliveries -> DeliveryStates]
      /\ \A e \in Deliveries : DeliveryHolds(e)'
  BY <1>3, <1>6, Answering
<1>8. recorded' \subseteq PaymentIds \X (1 .. MaxEvents)
  <2>1. recorded' \in {recorded, recorded \union {EventId(d)}}
    BY DEF WebhookStatus
  <2>2. QED
    BY <1>1, <2>1, Recording
<1>9. TypeOK'
  BY <1>3, <1>6, <1>7, <1>8 DEF IInv, TypeOK
<1>10. NothingForFree'
  BY <1>3, <1>6 DEF IInv, NothingForFree, Charged
<1>11. QED
  BY <1>6, <1>7, <1>9, <1>10 DEF IInv

-----------------------------------------------------------------------------
(* Promo code, passenger details, clean-up, time.                           *)

\* Repricing closes every open payment, so none is left with the old total.
LEMMA ApplyPromoInv ==
    ASSUME IInv, ApplyPromo
    PROVE  IInv'
<1>1. PICK total \in Totals : booking' = [booking EXCEPT !.total = total]
  BY DEF ApplyPromo
<1>2. /\ payments' = [p \in PaymentIds |->
            IF Open(p) THEN [payments[p] EXCEPT !.status = "cancelled"] ELSE payments[p]]
      /\ UNCHANGED <<recorded, intents, events, requests, webhooks, details, cleanup, aged>>
  BY DEF ApplyPromo, CancelledByPromo, stripe
<1>3. /\ booking \in BookingRows
      /\ payments \in [PaymentIds -> PaymentRows]
      /\ cleanup \subseteq PaymentIds
  BY DEF IInv, TypeOK
<1>4. /\ booking' \in BookingRows
      /\ booking'.status = booking.status /\ booking'.confirm = booking.confirm
  BY <1>1, <1>3 DEF BookingRows
<1>5. /\ payments' \in [PaymentIds -> PaymentRows]
      /\ \A p \in PaymentIds :
           /\ payments'[p].amount = payments[p].amount
           /\ payments'[p].linked = payments[p].linked
           /\ ~Open(p)'
           /\ \/ payments'[p] = payments[p]
              \/ payments[p].status # "none" /\ payments'[p].status = "cancelled"
  BY <1>2, <1>3 DEF PaymentRows, PaymentStatuses, Open, OpenStatuses
<1>6. TypeOK'
  BY <1>2, <1>4, <1>5 DEF IInv, TypeOK
<1>7. RowsAreWhole' /\ UnlinkedIsCurrent' /\ IntentAmountIsPaymentAmount'
  BY <1>2, <1>5 DEF IInv, RowsAreWhole, UnlinkedIsCurrent, IntentAmountIsPaymentAmount
<1>8. \A r \in IntentRequests : RequestHolds(r)'
  BY <1>2, <1>5 DEF IInv, RequestHolds, Charged
<1>9. (\A d \in Deliveries : DeliveryHolds(d)') /\ EventsAreTrue'
  BY <1>2, <1>5 DEF IInv, DeliveryHolds, EventsAreTrue, Charged
<1>10. NothingForFree' /\ \A p \in cleanup' : payments'[p].status # "none"
  BY <1>2, <1>3, <1>4, <1>5 DEF IInv, NothingForFree, Charged
<1>11. QED
  BY <1>6, <1>7, <1>8, <1>9, <1>10 DEF IInv

\* The clean-up cancels rows that exist.
LEMMA CancelAbandonedInv ==
    ASSUME IInv, NEW p \in PaymentIds, CancelAbandoned(p)
    PROVE  IInv'
<1>1. /\ p \in cleanup /\ payments[p].status # "none"
      /\ payments' = [payments EXCEPT ![p].status = "cancelled"]
      /\ cleanup' = cleanup \ {p}
      /\ UNCHANGED <<booking, recorded, intents, events, requests, webhooks, details, aged>>
  BY DEF CancelAbandoned, stripe, IInv
<1>2. /\ payments' \in [PaymentIds -> PaymentRows]
      /\ RowsAreWhole' /\ UnlinkedIsCurrent' /\ IntentAmountIsPaymentAmount'
      /\ \A r \in IntentRequests : RequestHolds(r)'
      /\ EventsAreTrue'
      /\ \A q \in cleanup' : payments'[q].status # "none"
      /\ \A q \in PaymentIds : payments'[q].linked = payments[q].linked
      /\ \A q \in PaymentIds : payments'[q].status = "succeeded" => Charged(q)'
  BY <1>1, StatusWritten DEF PaymentStatuses
<1>3. TypeOK' /\ \A d \in Deliveries : DeliveryHolds(d)'
  BY <1>1, <1>2 DEF IInv, TypeOK, DeliveryHolds
<1>4. NothingForFree'
  BY <1>1, <1>2 DEF IInv, NothingForFree, Charged
<1>5. QED
  BY <1>2, <1>3, <1>4 DEF IInv

\* The steps that touch neither payments nor what is held about them.
OtherRequests ==
    \/ \E q \in DetailsRequests : LoadDetails(q) \/ StoreDetails(q)
    \/ SelectAbandoned \/ PaymentsAge \/ OfferExpires

\* They keep the invariant.
LEMMA OtherRequestsInv ==
    ASSUME IInv, OtherRequests
    PROVE  IInv'
<1>1. UNCHANGED <<payments, recorded, intents, events, requests, webhooks>>
  BY DEF OtherRequests, LoadDetails, StoreDetails, SelectAbandoned, PaymentsAge,
         OfferExpires, database, stripe
<1>2. booking \in BookingRows
  BY DEF IInv, TypeOK
<1>3. /\ booking' \in BookingRows
      /\ booking'.total = booking.total /\ booking'.confirm = booking.confirm
      /\ booking'.status \in {booking.status, "passenger_details_added"}
  BY <1>2 DEF OtherRequests, LoadDetails, StoreDetails, SelectAbandoned, PaymentsAge,
              OfferExpires, database, BookingRows, CheckoutStatuses
<1>4. details' \in [DetailsRequests -> CheckoutStatuses \union {"none"}]
  BY <1>2 DEF IInv, TypeOK, OtherRequests, LoadDetails, StoreDetails, SelectAbandoned,
              PaymentsAge, OfferExpires, BookingRows
<1>5. /\ cleanup' \subseteq PaymentIds /\ aged' \subseteq PaymentIds
      /\ \A p \in cleanup' : payments[p].status # "none"
  BY DEF IInv, TypeOK, OtherRequests, LoadDetails, StoreDetails, SelectAbandoned,
         PaymentsAge, OfferExpires, Open, OpenStatuses
<1>6. TypeOK'
  BY <1>1, <1>3, <1>4, <1>5 DEF IInv, TypeOK
<1>7. NothingForFree'
  BY <1>1, <1>3 DEF IInv, NothingForFree, Charged
<1>8. QED
  BY <1>1, <1>3, <1>5, <1>6, <1>7
     DEF IInv, RowsAreWhole, UnlinkedIsCurrent, RequestHolds, DeliveryHolds, EventsAreTrue,
         Open, IntentAmountIsPaymentAmount, Charged

-----------------------------------------------------------------------------
(* However the handlers overlap.                                            *)

\* Every step keeps it.
LEMMA StepInv == IInv /\ [Next]_vars => IInv'
<1> SUFFICES ASSUME IInv, [Next]_vars PROVE IInv'
  OBVIOUS
<1>1. CASE UNCHANGED vars
  BY <1>1 DEF vars, IInv, TypeOK, RowsAreWhole, UnlinkedIsCurrent, RequestHolds,
              DeliveryHolds, EventsAreTrue, Open, NothingForFree,
              IntentAmountIsPaymentAmount, Charged
<1>2. CASE WriteAfterLoad
  <2>1. ASSUME NEW q \in DetailsRequests, StoreDetails(q) PROVE IInv'
    BY <2>1, OtherRequestsInv DEF OtherRequests
  <2>2. QED
    BY <1>2, <2>1, WebhookSucceededInv, WebhookSucceededIgnoredInv, WebhookStatusInv,
       CancelAbandonedInv DEF WriteAfterLoad
<1>3. CASE OtherStep
  <2>1. ASSUME NEW q \in DetailsRequests, LoadDetails(q) PROVE IInv'
    BY <2>1, OtherRequestsInv DEF OtherRequests
  <2>2. CASE SelectAbandoned \/ PaymentsAge \/ OfferExpires
    BY <2>2, OtherRequestsInv DEF OtherRequests
  <2>3. QED
    BY <1>3, <2>1, <2>2, StartIntentInv, CallStripeInv, LinkIntentInv, RequestFailsInv,
       LoadWebhookInv, StripeMovesInv, ApplyPromoInv DEF OtherStep
<1>4. QED
  BY <1>1, <1>2, <1>3 DEF Next

\* What holds of every reachable state however the handlers overlap.
THEOREM CheckoutInvariant == Spec => []IInv
<1>1. Init => IInv
  BY InitInv DEF SerialInv
<1>2. QED
  BY <1>1, StepInv, PTL DEF Spec

\* Every variable of the checkout keeps its type.
THEOREM CheckoutTypeCorrect == Spec => []TypeOK
<1>1. IInv => TypeOK
  BY DEF IInv
<1>2. QED
  BY <1>1, CheckoutInvariant, PTL

\* Whatever overlaps and in whatever order events arrive, a payment or a booking
\* counts as paid only if Stripe was paid.
THEOREM NeverForFree == Spec => []NothingForFree
<1>1. IInv => NothingForFree
  BY DEF IInv
<1>2. QED
  BY <1>1, CheckoutInvariant, PTL

\* Although Stripe is called outside of the transaction that reads the total, the
\* customer is asked for the amount of the payment row.
THEOREM RightAmount == Spec => []IntentAmountIsPaymentAmount
<1>1. IInv => IntentAmountIsPaymentAmount
  BY DEF IInv
<1>2. QED
  BY <1>1, CheckoutInvariant, PTL

-----------------------------------------------------------------------------
(* Without overlap: what a step does to the payments and to the booking.    *)

\* Every payment keeps its amount, and its status or takes an allowed transition; a
\* succeeded one stays.
PaymentsMove ==
    \A p \in PaymentIds :
        /\ payments'[p].amount = payments[p].amount
        /\ \/ payments'[p].status = payments[p].status
           \/ /\ CanTransitionPayment(payments[p].status, payments'[p].status)
              /\ payments[p].status # "succeeded"

\* The next payment is created, of the present total, when none could be reused.
PaymentCreated ==
    \E p \in PaymentIds :
        /\ payments[p].status = "none" /\ payments'[p].status = "created"
        /\ payments'[p].amount = booking'.total
        /\ \A q \in 1 .. (p - 1) : payments[q].status # "none"
        /\ \A q \in PaymentIds :
             ~Reusable(q) /\ (q # p => payments'[q].status = payments[q].status)

\* The booking takes a transition of the checkout, and is paid only with a succeeded
\* payment.
BookingMoves ==
    \/ booking'.status = booking.status
    \/ /\ booking.status = "offer_selected"
       /\ booking'.status = "passenger_details_added"
    \/ /\ booking.status = "passenger_details_added"
       /\ booking'.status = "payment_pending"
    \/ /\ booking.status = "payment_pending"
       /\ booking'.status = "payment_succeeded"
       /\ \E p \in PaymentIds : payments'[p].status = "succeeded"

\* The total changes only when no payment could be completed or reused afterwards.
TotalMoves ==
    \/ booking'.total = booking.total
    \/ (\A p \in PaymentIds : ~Reusable(p)') /\ booking'.status # "payment_succeeded"

OrderlyStep ==
    /\ LoadsStand' /\ IdleIsIdle'
    /\ PaymentsMove \/ PaymentCreated
    /\ BookingMoves
    /\ TotalMoves

\* No transition leads back to a payment that could be completed or reused.
LEMMA NoRevival ==
    ASSUME NEW s, NEW t \in OpenStatuses \union {"succeeded"}, CanTransitionPayment(s, t)
    PROVE  s \in OpenStatuses
BY DEF CanTransitionPayment, NextPaymentStatuses, OpenStatuses

\* Every open payment may be cancelled.
LEMMA OpenMayClose ==
    ASSUME NEW s \in OpenStatuses
    PROVE  CanTransitionPayment(s, "cancelled")
BY DEF CanTransitionPayment, NextPaymentStatuses, OpenStatuses

\* So no step makes a second live payment.
LEMMA OneLiveStep ==
    ASSUME OneLivePayment, PaymentsMove \/ PaymentCreated
    PROVE  OneLivePayment'
<1>1. CASE PaymentsMove
  <2>1. \A p \in PaymentIds : Reusable(p)' => Reusable(p)
    BY <1>1, NoRevival DEF PaymentsMove, Reusable, Open
  <2>2. QED
    BY <2>1 DEF OneLivePayment
<1>2. CASE PaymentCreated
  BY <1>2 DEF PaymentCreated, OneLivePayment, Reusable, Open
<1>3. QED
  BY <1>1, <1>2

\* Nor does one leave a live payment with another total than the booking's.
LEMMA TotalStep ==
    ASSUME ReusableIsCurrent, PaidTheTotal,
           PaymentsMove \/ PaymentCreated, BookingMoves, TotalMoves
    PROVE  ReusableIsCurrent' /\ PaidTheTotal'
<1>1. ReusableIsCurrent'
  <2>1. CASE PaymentsMove
    <3>1. \A p \in PaymentIds : Reusable(p)' => Reusable(p)
      BY <2>1, NoRevival DEF PaymentsMove, Reusable, Open
    <3>2. QED
      BY <2>1, <3>1 DEF PaymentsMove, TotalMoves, ReusableIsCurrent
  <2>2. CASE PaymentCreated
    BY <2>2 DEF PaymentCreated, ReusableIsCurrent, Reusable, Open
  <2>3. QED
    BY <2>1, <2>2
<1>2. PaidTheTotal'
  <2>1. SUFFICES ASSUME booking'.status = "payment_succeeded"
                 PROVE  \E p \in PaymentIds : payments'[p].status = "succeeded"
    BY <1>1 DEF PaidTheTotal, ReusableIsCurrent, Reusable
  <2>2. CASE booking.status = "payment_succeeded"
    <3>1. PICK p \in PaymentIds : payments[p].status = "succeeded"
      BY <2>2 DEF PaidTheTotal
    <3>2. payments'[p].status = "succeeded"
      BY <3>1 DEF PaymentsMove, PaymentCreated, Reusable
    <3>3. QED
      BY <3>2
  <2>3. CASE booking.status # "payment_succeeded"
    BY <2>1, <2>3 DEF BookingMoves
  <2>4. QED
    BY <2>2, <2>3
<1>3. QED
  BY <1>1, <1>2

\* When nothing is loaded, a step that loads nothing has nothing to keep fresh.
NothingLoaded ==
    /\ \A d \in Deliveries : webhooks[d] = NoDelivery
    /\ \A q \in DetailsRequests : details[q] = "none"
    /\ cleanup = {}

LEMMA NothingToKeep ==
    ASSUME NothingLoaded, UNCHANGED <<webhooks, details, cleanup>>
    PROVE  LoadsStand' /\ IdleIsIdle'
BY DEF NothingLoaded, LoadsStand, IdleIsIdle, NoDelivery

\* What is held follows from the invariant.
LEMMA SerialHolds == SerialInv => HeldInv
BY DEF SerialInv, HeldInv, IInv, RequestHolds, DeliveryHolds

\* Steps that need nothing loaded are orderly.
LEMMA OrderlyOtherStep ==
    ASSUME HeldInv, ~UnlockedLoad, OtherStep
    PROVE  OrderlyStep
<1>1. /\ NothingLoaded
      /\ booking \in BookingRows
      /\ payments \in [PaymentIds -> PaymentRows]
  BY DEF UnlockedLoad, NothingLoaded, HeldInv, TypeOK
<1>2. ASSUME NEW r \in IntentRequests, StartIntent(r)
      PROVE  OrderlyStep
  <2>1. LoadsStand' /\ IdleIsIdle'
    BY <1>1, <1>2, NothingToKeep DEF StartIntent
  <2>2. BookingMoves /\ TotalMoves
    BY <1>1, <1>2 DEF StartIntent, BookingMoves, TotalMoves, BookingRows, Payable
  <2>3. PaymentsMove \/ PaymentCreated
    <3>1. CASE \E p \in PaymentIds : payments' = [payments EXCEPT ![p] = payments[p]]
      BY <1>1, <3>1 DEF PaymentsMove
    <3>2. CASE /\ \A p \in PaymentIds : ~Reusable(p)
               /\ \E p \in PaymentIds :
                    /\ NextId(p)
                    /\ payments' = [payments EXCEPT ![p] =
                          [status |-> "created", amount |-> booking.total, linked |-> FALSE]]
      <4>1. booking'.total = booking.total
        BY <1>1, <1>2 DEF StartIntent, BookingRows
      <4>2. QED
        BY <1>1, <3>2, <4>1 DEF PaymentCreated, NextId
    <3>3. QED
      BY <1>2, <3>1, <3>2 DEF StartIntent
  <2>4. QED
    BY <2>1, <2>2, <2>3 DEF OrderlyStep
<1>3. ASSUME NEW r \in IntentRequests, LinkIntent(r)
      PROVE  OrderlyStep
  <2>1. LoadsStand' /\ IdleIsIdle' /\ BookingMoves /\ TotalMoves
    BY <1>1, <1>3, NothingToKeep DEF LinkIntent, BookingMoves, TotalMoves
  <2>2. PICK t :
          /\ payments' = [payments EXCEPT ![requests[r].payment].linked = TRUE,
                                          ![requests[r].payment].status = t]
          /\ \/ t = payments[requests[r].payment].status
             \/ /\ t = requests[r].answer
                /\ CanTransitionPayment(payments[requests[r].payment].status, t)
    BY <1>3 DEF LinkIntent
  <2>3. requests[r].payment \in PaymentIds /\ requests[r].answer \in Answers
    BY <1>3 DEF LinkIntent, HeldInv, TypeOK, RequestStates
  <2>4. PaymentsMove
    BY <1>1, <2>2, <2>3, AnswerRange DEF PaymentsMove, PaymentRows
  <2>5. QED
    BY <2>1, <2>4 DEF OrderlyStep
<1>4. CASE ApplyPromo
  <2>1. LoadsStand' /\ IdleIsIdle'
    BY <1>1, <1>4, NothingToKeep DEF ApplyPromo
  <2>2. BookingMoves /\ booking'.status # "payment_succeeded"
    BY <1>1, <1>4 DEF ApplyPromo, BookingMoves, BookingRows, Payable
  <2>3. PaymentsMove
    BY <1>1, <1>4, OpenMayClose
       DEF ApplyPromo, CancelledByPromo, Open, OpenStatuses, PaymentsMove, PaymentRows
  <2>4. \A p \in PaymentIds : ~Reusable(p)'
    BY <1>1, <1>4 DEF ApplyPromo, CancelledByPromo, Reusable, Open, OpenStatuses, PaymentRows
  <2>5. QED
    BY <2>1, <2>2, <2>3, <2>4 DEF OrderlyStep, TotalMoves
<1>5. ASSUME NEW d \in Deliveries, NEW p \in PaymentIds, NEW i \in 1 .. MaxEvents,
             LoadWebhook(d, p, i)
      PROVE  OrderlyStep
  <2>1. /\ webhooks' = [webhooks EXCEPT ![d] = [stage |-> "loaded", payment |-> p,
                             event |-> i, seen |-> payments[p].status]]
        /\ UNCHANGED <<booking, payments, details, cleanup>>
        /\ webhooks \in [Deliveries -> DeliveryStates]
    BY <1>5 DEF LoadWebhook, database, HeldInv, TypeOK
  <2>2. /\ webhooks'[d].stage = "loaded" /\ webhooks'[d].payment = p
        /\ webhooks'[d].seen = payments[p].status
        /\ \A e \in Deliveries : e # d => webhooks'[e] = NoDelivery
    BY <1>1, <2>1 DEF NothingLoaded
  <2>3. LoadsStand' /\ IdleIsIdle'
    BY <1>1, <2>1, <2>2 DEF LoadsStand, IdleIsIdle, NothingLoaded, NoDelivery
  <2>4. QED
    BY <2>1, <2>3 DEF OrderlyStep, PaymentsMove, BookingMoves, TotalMoves
<1>6. ASSUME NEW q \in DetailsRequests, LoadDetails(q)
      PROVE  OrderlyStep
  <2>1. /\ details' = [details EXCEPT ![q] = booking.status]
        /\ UNCHANGED <<booking, payments, webhooks, cleanup>>
        /\ details \in [DetailsRequests -> CheckoutStatuses \union {"none"}]
    BY <1>6 DEF LoadDetails, database, HeldInv, TypeOK
  <2>2. LoadsStand' /\ IdleIsIdle'
    BY <1>1, <2>1 DEF LoadsStand, IdleIsIdle, NothingLoaded, NoDelivery
  <2>3. QED
    BY <2>1, <2>2 DEF OrderlyStep, PaymentsMove, BookingMoves, TotalMoves
<1>7. CASE SelectAbandoned
  <2>1. /\ \A p \in cleanup' : Open(p)
        /\ UNCHANGED <<booking, payments, webhooks, details>>
    BY <1>7 DEF SelectAbandoned, database
  <2>2. LoadsStand' /\ IdleIsIdle'
    BY <1>1, <2>1 DEF LoadsStand, IdleIsIdle, NothingLoaded, NoDelivery, Open
  <2>3. QED
    BY <2>1, <2>2 DEF OrderlyStep, PaymentsMove, BookingMoves, TotalMoves
<1>8. ASSUME \/ \E r \in IntentRequests : CallStripe(r) \/ RequestFails(r)
             \/ \E p \in PaymentIds : StripeMoves(p)
             \/ PaymentsAge \/ OfferExpires
      PROVE  OrderlyStep
  <2>1. UNCHANGED <<payments, webhooks, details, cleanup>>
    BY <1>8 DEF CallStripe, RequestFails, StripeMoves, PaymentsAge, OfferExpires, database
  <2>2. booking'.status = booking.status /\ booking'.total = booking.total
    BY <1>1, <1>8 DEF CallStripe, RequestFails, StripeMoves, PaymentsAge, OfferExpires,
                      database, BookingRows
  <2>3. QED
    BY <1>1, <2>1, <2>2, NothingToKeep DEF OrderlyStep, PaymentsMove, BookingMoves, TotalMoves
<1>9. QED
  BY <1>2, <1>3, <1>4, <1>5, <1>6, <1>7, <1>8 DEF OtherStep

\* The write of a delivery, the only one that has loaded.
LEMMA DeliveryAnswered ==
    ASSUME HeldInv, NEW d \in Deliveries, webhooks[d].stage = "loaded", Answered200(d),
           UNCHANGED <<details, cleanup>>
    PROVE  LoadsStand' /\ IdleIsIdle'
<1>1. webhooks \in [Deliveries -> DeliveryStates]
  BY DEF HeldInv, TypeOK
<1>2. \A e \in Deliveries : webhooks'[e] = NoDelivery
  <2>1. \A e \in Deliveries : e # d => webhooks[e] = NoDelivery
    <3>1. \A e \in Deliveries : e # d => webhooks[e].stage = "idle"
      BY <1>1 DEF HeldInv, LoadsStand, DeliveryStates
    <3>2. QED
      BY <3>1 DEF HeldInv, IdleIsIdle
  <2>2. QED
    BY <1>1, <2>1 DEF Answered200
<1>3. cleanup' = {} /\ \A q \in DetailsRequests : details'[q] = "none"
  BY DEF HeldInv, LoadsStand
<1>4. QED
  BY <1>2, <1>3 DEF LoadsStand, IdleIsIdle, NoDelivery

\* Writes after a load that still stands are orderly.
LEMMA OrderlyWriteAfterLoad ==
    ASSUME HeldInv, WriteAfterLoad
    PROVE  OrderlyStep
<1>1. /\ booking \in BookingRows
      /\ payments \in [PaymentIds -> PaymentRows]
      /\ \A d \in Deliveries : webhooks[d].stage = "loaded" => webhooks[d].payment \in PaymentIds
  BY DEF HeldInv, TypeOK
<1>2. ASSUME NEW d \in Deliveries, WebhookSucceeded(d)
      PROVE  OrderlyStep
  <2>1. LoadsStand' /\ IdleIsIdle'
    BY <1>2, DeliveryAnswered DEF WebhookSucceeded, Loaded
  <2>2. webhooks[d].payment \in PaymentIds /\ payments'[webhooks[d].payment].status = "succeeded"
    BY <1>1, <1>2 DEF WebhookSucceeded, Loaded, PaymentRows
  <2>3. BookingMoves /\ TotalMoves
    BY <1>1, <1>2, <2>2
       DEF WebhookSucceeded, StatusAfterPayment, BookingMoves, TotalMoves, BookingRows
  <2>4. PaymentsMove
    BY <1>1, <1>2 DEF WebhookSucceeded, Loaded, MaySucceed, PaymentsMove, PaymentRows
  <2>5. QED
    BY <2>1, <2>3, <2>4 DEF OrderlyStep
<1>3. ASSUME NEW d \in Deliveries, WebhookSucceededIgnored(d)
      PROVE  OrderlyStep
  <2>1. LoadsStand' /\ IdleIsIdle'
    BY <1>3, DeliveryAnswered DEF WebhookSucceededIgnored, Loaded
  <2>2. QED
    BY <1>3, <2>1 DEF WebhookSucceededIgnored, database, OrderlyStep, PaymentsMove,
                     BookingMoves, TotalMoves
<1>4. ASSUME NEW d \in Deliveries, WebhookStatus(d)
      PROVE  OrderlyStep
  <2>1. LoadsStand' /\ IdleIsIdle'
    BY <1>4, DeliveryAnswered DEF WebhookStatus, Loaded
  <2>2. BookingMoves /\ TotalMoves
    BY <1>4 DEF WebhookStatus, BookingMoves, TotalMoves
  <2>3. /\ webhooks[d].seen = payments[webhooks[d].payment].status
        /\ EventStatus(d) \in IntentStatuses
    BY <1>4 DEF WebhookStatus, Loaded, EventStatus, HeldInv, LoadsStand, TypeOK
  <2>4. PaymentsMove
    BY <1>1, <1>4, <2>3, Mapping DEF WebhookStatus, Loaded, StatusApplies, PaymentsMove, PaymentRows
  <2>5. QED
    BY <2>1, <2>2, <2>4 DEF OrderlyStep
<1>5. ASSUME NEW q \in DetailsRequests, StoreDetails(q)
      PROVE  OrderlyStep
  <2>1. /\ details[q] = booking.status /\ cleanup = {}
        /\ \A k \in DetailsRequests : k # q => details[k] = "none"
        /\ \A d \in Deliveries : webhooks[d].stage # "loaded"
    BY <1>5 DEF StoreDetails, HeldInv, LoadsStand
  <2>2. /\ \A k \in DetailsRequests : details'[k] = "none"
        /\ UNCHANGED <<payments, webhooks, cleanup>>
    BY <1>5, <2>1 DEF StoreDetails, HeldInv, TypeOK
  <2>3. LoadsStand' /\ IdleIsIdle'
    BY <2>1, <2>2 DEF LoadsStand, HeldInv, IdleIsIdle
  <2>4. BookingMoves /\ TotalMoves
    BY <1>1, <1>5, <2>1 DEF StoreDetails, BookingMoves, TotalMoves, BookingRows
  <2>5. QED
    BY <2>2, <2>3, <2>4 DEF OrderlyStep, PaymentsMove
<1>6. ASSUME NEW p \in PaymentIds, CancelAbandoned(p)
      PROVE  OrderlyStep
  <2>1. /\ p \in cleanup /\ Open(p)
        /\ \A d \in Deliveries : webhooks[d].stage # "loaded"
        /\ \A q \in DetailsRequests : details[q] = "none"
    BY <1>6 DEF CancelAbandoned, HeldInv, LoadsStand
  <2>2. /\ payments'[p].status = "cancelled" /\ payments'[p].amount = payments[p].amount
        /\ \A q \in PaymentIds : q # p => payments'[q] = payments[q]
        /\ cleanup' = cleanup \ {p} /\ cleanup \subseteq PaymentIds
        /\ UNCHANGED <<booking, webhooks, details>>
    BY <1>1, <1>6 DEF CancelAbandoned, PaymentRows, HeldInv, TypeOK
  <2>3. LoadsStand' /\ IdleIsIdle'
    BY <2>1, <2>2 DEF LoadsStand, HeldInv, IdleIsIdle, Open
  <2>4. PaymentsMove
    BY <2>1, <2>2, OpenMayClose DEF PaymentsMove, Open, OpenStatuses
  <2>5. QED
    BY <2>2, <2>3, <2>4 DEF OrderlyStep, BookingMoves, TotalMoves
<1>7. QED
  BY <1>2, <1>3, <1>4, <1>5, <1>6 DEF WriteAfterLoad

\* The payments' moves are transitions of their table.
LEMMA LifeStep ==
    ASSUME TypeOK, TypeOK', PaymentsMove \/ PaymentCreated
    PROVE  Life!Next
<1>1. /\ payments \in [PaymentIds -> PaymentRows]
      /\ payments' \in [PaymentIds -> PaymentRows]
  BY DEF TypeOK
<1>2. Life!PaymentStatuses = PaymentStatuses
  BY DEF Life!PaymentStatuses, PaymentStatuses
<1>3. ASSUME NEW a, NEW b, CanTransitionPayment(a, b)
      PROVE  Life!CanTransitionPayment(a, b)
  BY <1>3 DEF CanTransitionPayment, NextPaymentStatuses, Life!CanTransitionPayment,
              Life!NextPaymentStatuses
<1>4. \A p \in PaymentIds :
        \/ payments'[p].status = payments[p].status
        \/ payments[p].status = "none" /\ payments'[p].status = "created"
        \/ CanTransitionPayment(payments[p].status, payments'[p].status)
  BY DEF PaymentsMove, PaymentCreated
<1>5. \A p \in PaymentIds : Life!Follows(payments[p].status, payments'[p].status)
  BY <1>3, <1>4 DEF Life!Follows
<1>6. [p \in PaymentIds |-> payments'[p].status] \in [PaymentIds -> PaymentStatuses \union {"none"}]
  BY <1>1 DEF PaymentRows
<1>7. QED
  BY <1>2, <1>5, <1>6 DEF Life!Next

\* The checkout's moves are transitions of the booking's table.
LEMMA LifecycleStep ==
    ASSUME BookingMoves
    PROVE  [Lifecycle!Next]_(booking.status)
BY DEF BookingMoves, Lifecycle!Next, Lifecycle!Transition, Lifecycle!CanTransitionBooking,
       Lifecycle!BookingTransitions, Lifecycle!BookingStatuses

\* What every step does without overlap.
LEMMA SerialStep ==
    ASSUME Overlap = FALSE, SerialInv, [Next]_vars
    PROVE  /\ SerialInv'
           /\ [Life!Next]_([p \in PaymentIds |-> payments[p].status])
           /\ [Lifecycle!Next]_(booking.status)
<1>1. CASE UNCHANGED vars
  <2>1. SerialInv'
    BY <1>1, StepInv DEF SerialInv, vars, LoadsStand, IdleIsIdle, OneLivePayment, Reusable, Open,
       ReusableIsCurrent, PaidTheTotal
  <2>2. QED
    BY <1>1, <2>1 DEF vars
<1>2. CASE Next
  <2>1. OrderlyStep
    BY <1>2, SerialHolds, OrderlyOtherStep, OrderlyWriteAfterLoad DEF Next
  <2>2. IInv'
    BY <1>2, StepInv DEF SerialInv
  <2>3. SerialInv'
    BY <2>1, <2>2, OneLiveStep, TotalStep DEF OrderlyStep, SerialInv
  <2>4. QED
    BY <2>1, <2>2, <2>3, LifeStep, LifecycleStep DEF OrderlyStep, SerialInv, IInv
<1>3. QED
  BY <1>1, <1>2

-----------------------------------------------------------------------------
(* Without overlap.                                                         *)

\* What holds of every reachable state when they do not.
THEOREM SerialInvariant ==
    ASSUME Overlap = FALSE
    PROVE  Spec => []SerialInv
<1>1. SerialInv /\ [Next]_vars => SerialInv'
  BY SerialStep
<1>2. QED
  BY <1>1, InitInv, PTL DEF Spec

\* When nothing comes between an unlocked load and its write, the customer cannot be
\* sent to two payments of one booking.
THEOREM OneLivePaymentWhenSerial ==
    ASSUME Overlap = FALSE
    PROVE  Spec => []OneLivePayment
<1>1. SerialInv => OneLivePayment
  BY DEF SerialInv
<1>2. QED
  BY <1>1, SerialInvariant, PTL

\* Then a paid booking was paid by a payment of its present total, although promo codes
\* change the total while payments are open.
THEOREM PaidTheTotalWhenSerial ==
    ASSUME Overlap = FALSE
    PROVE  Spec => []PaidTheTotal
<1>1. SerialInv => PaidTheTotal
  BY DEF SerialInv
<1>2. QED
  BY <1>1, SerialInvariant, PTL

\* Then the status columns of the payments implement PaymentLife ...
THEOREM PaymentLifeWhenSerial ==
    ASSUME Overlap = FALSE
    PROVE  Spec => PaymentLifeSpec
<1>1. Init => Life!Init
  BY DEF Init, Life!Init, NoPayment
<1>2. SerialInv /\ [Next]_vars => [Life!Next]_([p \in PaymentIds |-> payments[p].status])
  BY SerialStep
<1>3. QED
  BY <1>1, <1>2, SerialInvariant, PTL DEF Spec, PaymentLifeSpec, Life!Spec

\* ... and that of the booking implements BookingLifecycle.
THEOREM LifecycleWhenSerial ==
    ASSUME Overlap = FALSE
    PROVE  Spec => LifecycleSpec
<1>1. Init => Lifecycle!Init
  BY DEF Init, Lifecycle!Init
<1>2. SerialInv /\ [Next]_vars => [Lifecycle!Next]_(booking.status)
  BY SerialStep
<1>3. QED
  BY <1>1, <1>2, SerialInvariant, PTL DEF Spec, LifecycleSpec, Lifecycle!Spec
=============================================================================

------------------------- MODULE CheckoutPageProofs -------------------------
(***************************************************************************)
(* Proofs about CheckoutPage, for any number of tabs, payments, events and *)
(* deliveries.  However the handlers of the server overlap, the mock panel *)
(* always has the address it posts to and, with Stripe, the checkout sends *)
(* nobody on whose payment has not gone through; the booking follows its   *)
(* lifecycle.  When the unlocked handlers do not overlap, the checkout     *)
(* sends nobody on too early in mock mode either, the page keeps what the  *)
(* checkout promises, and a paid booking is not paid again.                *)
(*                                                                         *)
(* A step changes what one tab holds, or no tab.  With Stripe every step   *)
(* of the page is a step of the checkout, or stores the passengers, so the *)
(* invariant of PaymentCheckout holds on; in mock mode a simulated success *)
(* takes the place of Stripe's, and only the types and the order of the    *)
(* steps are left of that invariant.                                       *)
(***************************************************************************)
EXTENDS CheckoutPage, PaymentCheckoutProofs, WellFoundedInduction

-----------------------------------------------------------------------------
(* What the tabs hold, in either mode. *)

\* A payment that brings its secret brings the address of the mock success as well.
SecretHasUrl(payload) == payload.secret => payload.url

ViewOK(view) ==
    /\ {"at", "prop", "intent", "loading"} \subseteq DOMAIN view
    /\ ~view.prop.secret
    /\ SecretHasUrl(view.intent)

NetOK(request) ==
    /\ {"stage", "payload"} \subseteq DOMAIN request
    /\ request.stage = "answer" => SecretHasUrl(request.payload)

\* While the panel pays or simulates, it is the checkout that shows the intent it pays.
PaysIntent(view, request) ==
    request.stage \in {"pay", "challenge", "simulate", "paid"}
        => /\ view.at = "checkout"
           /\ view.intent # NoPayload /\ request.payload = view.intent

TabOK(view, request) == ViewOK(view) /\ NetOK(request) /\ PaysIntent(view, request)

TabsOK ==
    /\ DOMAIN page = Tabs /\ DOMAIN net = Tabs
    /\ \A t \in Tabs : TabOK(page[t], net[t])

\* All other tabs are as they were.
OnlyTab(t) ==
    /\ DOMAIN page' = Tabs /\ DOMAIN net' = Tabs
    /\ \A u \in Tabs \ {t} : page'[u] = page[u] /\ net'[u] = net[u]

\* What one tab does.
TabStep(t) == PanelStep(t) \/ PromoStep(t) \/ CustomerStep(t)

\* The payload of the page's props has no secret.
LEMMA PropHasNoSecret == ~PaymentProp.secret
BY DEF PaymentProp, NoPayload

\* The action of a tab leaves the others alone.
LEMMA StepOfOneTab ==
    ASSUME TabsOK, NEW t \in Tabs, TabStep(t)
    PROVE  OnlyTab(t)
<1>1. CASE PanelStep(t)
  BY <1>1 DEF PanelStep, ServePrepare, Refuse, ServeStripe, ServeLink, ServeFails,
              AnswerArrives, RefusalArrives, ServeSimulate, PaidArrives, ConfirmPayment,
              Settles, AsksForAction, StripeDeclines, Answers200, Refused, TabsOK, OnlyTab,
              pageVars
<1>2. CASE PromoStep(t)
  BY <1>2 DEF PromoStep, ServePromo, RefusePromo, PromoShown, TabsOK, OnlyTab
<1>3. CASE CustomerStep(t)
  BY <1>3 DEF CustomerStep, LoadCheckout, Leave, Prepare, Simulate, Pay, Continue,
              SubmitPromo, ChallengeEnds, ReturnFromBank, Settles, Goes, TabsOK, OnlyTab
<1> QED BY <1>1, <1>2, <1>3 DEF TabStep

\* What the panel is told of the end of a payment keeps the tab's form.
LEMMA SettledTab ==
    ASSUME TabsOK, NEW t \in Tabs, NEW status, Settles(t, status)
    PROVE  TabOK(page'[t], net'[t])
<1>1. TabOK(page[t], net[t]) /\ t \in DOMAIN page /\ t \in DOMAIN net
  BY DEF TabsOK
<1>2. net'[t] = NoNet /\ (page'[t] = Confirmation \/ page'[t] = [page[t] EXCEPT !.loading = FALSE])
  BY <1>1 DEF Settles
<1> QED BY <1>1, <1>2 DEF Confirmation, ClosedPage, NoPayload, NoNet, TabOK, ViewOK, NetOK,
                          SecretHasUrl, PaysIntent

\* What the panel receives keeps its form.
LEMMA PanelKeepsTab ==
    ASSUME TabsOK, NEW t \in Tabs, PanelStep(t)
    PROVE  TabOK(page'[t], net'[t])
<1>1. TabOK(page[t], net[t]) /\ t \in DOMAIN page /\ t \in DOMAIN net
  BY DEF TabsOK
<1>2. CASE ServePrepare(t) \/ ServeLink(t) \/ ServeSimulate(t)
  BY <1>1, <1>2 DEF ServePrepare, ServeLink, ServeSimulate, Answers200, Refused, TabOK, ViewOK,
                    NetOK, SecretHasUrl, PaysIntent
<1>3. CASE Refuse(t) \/ ServeStripe(t) \/ ServeFails(t)
  BY <1>1, <1>3 DEF Refuse, ServeStripe, ServeFails, Refused, pageVars, TabOK, ViewOK, NetOK,
                    PaysIntent
<1>4. CASE AnswerArrives(t)
  BY <1>1, <1>4 DEF AnswerArrives, NoNet, TabOK, ViewOK, NetOK, SecretHasUrl, PaysIntent
<1>5. CASE RefusalArrives(t) \/ StripeDeclines(t)
  BY <1>1, <1>5 DEF RefusalArrives, ViewAfterRefusal, StripeDeclines, NoNet, TabOK, ViewOK,
                    NetOK, SecretHasUrl, PaysIntent
<1>6. CASE PaidArrives(t)
  BY <1>1, <1>6 DEF PaidArrives, Confirmation, ClosedPage, NoPayload, NoNet, TabOK, ViewOK,
                    NetOK, SecretHasUrl, PaysIntent
<1>7. CASE ConfirmPayment(t)
  <2>1. net[t].stage = "pay" /\ (AsksForAction(t) \/ \E s : Settles(t, s))
    BY <1>7 DEF ConfirmPayment
  <2>2. CASE AsksForAction(t)
    BY <1>1, <2>1, <2>2 DEF AsksForAction, Bank, ClosedPage, NoPayload, NoNet, TabOK, ViewOK,
                            NetOK, SecretHasUrl, PaysIntent
  <2> QED BY <2>1, <2>2, SettledTab
<1> QED BY <1>2, <1>3, <1>4, <1>5, <1>6, <1>7 DEF PanelStep

\* What the customer and the promo form do keeps the tab's form.
LEMMA CustomerKeepsTab ==
    ASSUME TabsOK, NEW t \in Tabs, PromoStep(t) \/ CustomerStep(t)
    PROVE  TabOK(page'[t], net'[t])
<1>1. TabOK(page[t], net[t]) /\ t \in DOMAIN page /\ t \in DOMAIN net
  BY DEF TabsOK
<1>2. CASE PromoStep(t)
  BY <1>1, <1>2, PropHasNoSecret DEF PromoStep, ServePromo, RefusePromo, PromoShown, TabOK,
                                     ViewOK, PaysIntent
<1>3. CASE LoadCheckout(t)
  BY <1>1, <1>3, PropHasNoSecret DEF LoadCheckout, FirstView, ClosedPage, NoPayload, TabOK,
                                     ViewOK, SecretHasUrl, PaysIntent
<1>4. CASE Leave(t) \/ Continue(t) \/ SubmitPromo(t)
  BY <1>1, <1>4 DEF Leave, Continue, Idle, SubmitPromo, Confirmation, ClosedPage, NoPayload,
                    NoNet, TabOK, ViewOK, NetOK, SecretHasUrl, PaysIntent
<1>5. CASE Prepare(t) \/ Simulate(t) \/ Pay(t)
  BY <1>1, <1>5 DEF Prepare, Simulate, Pay, Idle, OffersSimulate, OffersForm, ActivePayment,
                    Goes, TabOK, ViewOK, NetOK, PaysIntent
<1>6. CASE ChallengeEnds(t)
  BY <1>6, SettledTab DEF ChallengeEnds
<1>7. CASE ReturnFromBank(t)
  BY <1>1, <1>7 DEF ReturnFromBank, Confirmation, ClosedPage, NoPayload, TabOK, ViewOK,
                    SecretHasUrl, PaysIntent
<1> QED BY <1>2, <1>3, <1>4, <1>5, <1>6, <1>7 DEF CustomerStep

\* Whatever else happens changes no tab.
LEMMA TabsOnlyByTabs ==
    ASSUME PageNext PROVE (\E t \in Tabs : TabStep(t)) \/ UNCHANGED pageVars
BY DEF PageNext, TabStep, StripeSettles, Alone, StoreDetailsFirst

\* What the tabs hold keeps its form.
LEMMA TabsInvariant == PageSpec => []TabsOK
<1>1. PageInit => TabsOK
  BY DEF PageInit, TabsOK, TabOK, ViewOK, NetOK, SecretHasUrl, PaysIntent, ClosedPage,
         NoPayload, NoNet
<1>2. TabsOK /\ [PageNext]_allVars => TabsOK'
  <2> SUFFICES ASSUME TabsOK, [PageNext]_allVars PROVE TabsOK'
    OBVIOUS
  <2>1. CASE UNCHANGED pageVars
    BY <2>1 DEF pageVars, TabsOK
  <2>2. ASSUME NEW t \in Tabs, TabStep(t) PROVE TabsOK'
    <3>1. OnlyTab(t)
      BY <2>2, StepOfOneTab
    <3>2. TabOK(page'[t], net'[t])
      BY <2>2, PanelKeepsTab, CustomerKeepsTab DEF TabStep
    <3> QED BY <3>1, <3>2 DEF OnlyTab, TabsOK
  <2> QED BY <2>1, <2>2, TabsOnlyByTabs DEF allVars
<1> QED BY <1>1, <1>2, PTL DEF PageSpec

\* "Mock success URL is missing" is never shown: no order of answers, repricings and visits
\* leaves the panel with a secret and without the address that came with it.
THEOREM SimulateHasUrl == PageSpec => []SimulateNeverLacksUrl
<1>1. TabsOK => SimulateNeverLacksUrl
  BY DEF TabsOK, TabOK, ViewOK, SecretHasUrl, SimulateNeverLacksUrl, OffersSimulate,
         ActivePayment
<1> QED BY <1>1, TabsInvariant, PTL

-----------------------------------------------------------------------------
(* What the tabs know, in either mode. *)

\* The payments with the customer's money; in mock mode those that are said to be paid.
Money == {p \in PaymentIds : IF mock THEN payments[p].status = "succeeded" ELSE Charged(p)}

\* A secret is of a payment that exists, and who says "succeeded" names one with money.
Knows(payload, paid) ==
    /\ payload.secret => payload.id \in PaymentIds
    /\ payload.status = "succeeded" => payload.id \in paid

ViewKnows(view, paid) == Knows(view.prop, paid) /\ Knows(view.intent, paid)

\* An answer knows as much as a page; the form pays for a payment that exists, and so does
\* the simulation, of the mock mode only; its answer comes after that payment.
NetKnows(request, paid) ==
    /\ request.stage = "answer" => Knows(request.payload, paid)
    /\ request.stage \in {"pay", "challenge"} => ~mock /\ request.payload.id \in PaymentIds
    /\ request.stage = "simulate" => mock /\ request.payload.id \in PaymentIds
    /\ request.stage = "paid" => mock /\ request.payload.id \in paid

TabsKnow == \A t \in Tabs : ViewKnows(page[t], Money) /\ NetKnows(net[t], Money)

\* What the server must keep for that.
SucceededHasMoney == \A p \in PaymentIds : payments[p].status = "succeeded" => p \in Money

RequestsNameRows ==
    /\ DOMAIN requests = IntentRequests
    /\ \A r \in IntentRequests :
         requests[r].stage # "idle" => requests[r].payment \in PaymentIds

ServerKnows == SucceededHasMoney /\ RequestsNameRows

\* The mode is a setting.
LEMMA ModeStays == [PageNext]_allVars => mock' = mock
BY DEF PageNext, PanelStep, ServePrepare, Refuse, ServeStripe, ServeLink,
       ServeFails, AnswerArrives, RefusalArrives, ServeSimulate, PaidArrives,
       ConfirmPayment, StripeDeclines, PromoStep, ServePromo, RefusePromo, PromoShown,
       CustomerStep, LoadCheckout, Leave, Prepare, Simulate, Pay, Continue, SubmitPromo,
       ChallengeEnds, ReturnFromBank, StripeSettles, Alone, StoreDetailsFirst, pageVars, allVars

\* What is known stays true.
LEMMA KnownStays ==
    ASSUME NEW payload, NEW paid, NEW more, paid \subseteq more, Knows(payload, paid)
    PROVE  Knows(payload, more)
BY DEF Knows

\* There is a latest row if there is one.
LEMMA LatestRow ==
    ASSUME Rows # {}
    PROVE  \E p \in Rows : \A q \in Rows : q <= p
<1> DEFINE Ages == {MaxPayments - p : p \in Rows}
           Less == OpToRel(<, Nat)
<1>1. Ages # {} /\ Ages \subseteq Nat
  BY CheckoutAssumption DEF Rows, PaymentIds
<1>2. PICK m \in Ages : \A n \in Ages : <<n, m>> \notin Less
  <2> HIDE DEF Ages, Less
  <2>1. IsWellFoundedOn(Less, Nat)
    BY NatLessThanWellFounded DEF Less
  <2> QED BY <1>1, <2>1, WFMin
<1>3. \A n \in Ages : ~(n < m)
  BY <1>1, <1>2 DEF OpToRel
<1>4. PICK p \in Rows : m = MaxPayments - p
  OBVIOUS
<1>5. \A q \in Rows : ~(MaxPayments - q < MaxPayments - p)
  BY <1>3, <1>4
<1>6. MaxPayments \in Nat /\ \A q \in Rows : q \in Nat
  BY CheckoutAssumption DEF Rows, PaymentIds
<1>7. \A q \in Rows : q <= p
  <2> HIDE DEF Ages, Less
  <2> QED BY <1>5, <1>6
<1> QED BY <1>7

\* The props of the page tell of the latest row.
LEMMA PropOfLatest ==
    ASSUME Rows # {}
    PROVE  \E p \in Rows :
             /\ \A q \in Rows : q <= p
             /\ PaymentProp = [id |-> p, status |-> payments[p].status, secret |-> FALSE,
                               url |-> FALSE]
<1> DEFINE p == CHOOSE p \in Rows : \A q \in Rows : q <= p
<1>1. PaymentProp = [id |-> p, status |-> payments[p].status, secret |-> FALSE, url |-> FALSE]
  BY DEF PaymentProp
<1>2. p \in Rows /\ \A q \in Rows : q <= p
  BY LatestRow
<1> QED BY <1>1, <1>2

\* So they tell the truth.
LEMMA PropIsTrue == SucceededHasMoney => Knows(PaymentProp, Money)
<1>1. CASE Rows = {}
  BY <1>1 DEF PaymentProp, Knows, NoPayload
<1>2. CASE Rows # {}
  BY <1>2, PropOfLatest DEF SucceededHasMoney, Knows, Rows
<1> QED BY <1>1, <1>2

\* An answer of the server knows what it says.
LEMMA AnswersAreTrue ==
    ASSUME TabsOK, ServerKnows, SucceededHasMoney', Money \subseteq Money',
           NEW t \in Tabs, ServePrepare(t) \/ ServeLink(t)
    PROVE  NetKnows(net'[t], Money')
<1>1. t \in DOMAIN net /\ t \in IntentRequests /\ t \in DOMAIN requests
  BY DEF TabsOK, Tabs, ServerKnows, RequestsNameRows
<1>2. CASE ServePrepare(t) /\ requests'[t] = NoRequest
  <2>1. PICK p \in PaymentIds :
          Latest(p) /\ Answers200(t, "answer", p, "succeeded", FALSE)
    BY <1>2 DEF ServePrepare
  <2>2. payments[p].status = "succeeded"
    <3>1. ~\A q \in PaymentIds : ~Reusable(q)
      BY <2>1 DEF Latest
    <3>2. PICK q \in PaymentIds :
            /\ Latest(q)
            /\ requests' = IF payments[q].status = "succeeded" THEN requests
                           ELSE [requests EXCEPT ![t] =
                                   [stage |-> "call", payment |-> q,
                                    retrieve |-> payments[q].linked,
                                    total |-> booking.total, answer |-> "processing"]]
      BY <1>2, <3>1 DEF ServePrepare, StartIntent
    <3>3. requests'[t].stage = "idle"
      BY <1>2 DEF NoRequest
    <3>4. payments[q].status = "succeeded"
      BY <1>1, <3>2, <3>3
    <3>5. q <= p /\ p <= q
      BY <2>1, <3>2 DEF Latest
    <3>6. q = p
      BY <3>5, CheckoutAssumption DEF PaymentIds
    <3> QED BY <3>4, <3>6
  <2>3. p \in Money
    BY <2>2 DEF ServerKnows, SucceededHasMoney
  <2> QED BY <1>1, <2>1, <2>3 DEF Answers200, NetKnows, Knows
<1>3. CASE ServePrepare(t) /\ requests'[t] # NoRequest
  <2>1. {"stage", "payload"} \subseteq DOMAIN net[t]
    BY DEF TabsOK, TabOK, NetOK
  <2>2. net' = [net EXCEPT ![t].stage = "serving"]
    BY <1>3 DEF ServePrepare
  <2>3. net'[t].stage = "serving"
    BY <1>1, <2>1, <2>2
  <2> QED BY <2>3 DEF NetKnows
<1>4. CASE ServeLink(t)
  <2>1. requests[t].payment \in PaymentIds
    BY <1>1, <1>4 DEF ServeLink, LinkIntent, ServerKnows, RequestsNameRows
  <2>2. payments'[requests[t].payment].status = "succeeded" => requests[t].payment \in Money'
    BY <2>1 DEF SucceededHasMoney
  <2> QED BY <1>1, <1>4, <2>1, <2>2 DEF ServeLink, Answers200, NetKnows, Knows
<1> QED BY <1>2, <1>3, <1>4

\* A simulated success is one.
LEMMA SimulationPays ==
    ASSUME TabsOK, TabsKnow, Money \subseteq Money', mock' = mock,
           DOMAIN payments = PaymentIds, \A p \in PaymentIds : "status" \in DOMAIN payments[p],
           NEW t \in Tabs, ServeSimulate(t)
    PROVE  NetKnows(net'[t], Money')
<1> DEFINE p == net[t].payload.id
<1>1. /\ t \in DOMAIN net /\ {"stage", "payload"} \subseteq DOMAIN net[t]
      /\ mock /\ p \in PaymentIds
  BY DEF ServeSimulate, TabsOK, TabOK, NetOK, TabsKnow, NetKnows
<1>2. CASE MaySucceed(p)
  <2>1. payments'[p].status = "succeeded"
    BY <1>1, <1>2 DEF ServeSimulate
  <2>2. p \in Money'
    BY <1>1, <2>1 DEF Money
  <2>3. net'[t].stage = "paid" /\ net'[t].payload = net[t].payload
    BY <1>1, <1>2 DEF ServeSimulate
  <2> QED BY <1>1, <2>2, <2>3 DEF NetKnows
<1>3. CASE ~MaySucceed(p)
  <2>1. net'[t].stage = "refused"
    BY <1>1, <1>3 DEF ServeSimulate, Refused
  <2> QED BY <2>1 DEF NetKnows
<1> QED BY <1>2, <1>3

\* The end of a payment teaches the page nothing new.
LEMMA SettledKnows ==
    ASSUME TabsOK, NEW t \in Tabs, NEW status, Settles(t, status), NEW paid,
           ViewKnows(page[t], paid)
    PROVE  ViewKnows(page'[t], paid) /\ NetKnows(net'[t], paid)
<1>1. /\ t \in DOMAIN page /\ t \in DOMAIN net
      /\ {"at", "prop", "intent", "loading"} \subseteq DOMAIN page[t]
  BY DEF TabsOK, TabOK, ViewOK
<1>2. net'[t] = NoNet /\ (page'[t] = Confirmation \/ page'[t] = [page[t] EXCEPT !.loading = FALSE])
  BY <1>1 DEF Settles
<1> QED BY <1>1, <1>2 DEF Confirmation, ClosedPage, NoPayload, NoNet, ViewKnows, NetKnows, Knows

\* The panel learns nothing but what is so.
LEMMA PanelKnows ==
    ASSUME TabsOK, TabsKnow, ServerKnows, SucceededHasMoney', Money \subseteq Money',
           mock' = mock, DOMAIN payments = PaymentIds,
           \A p \in PaymentIds : "status" \in DOMAIN payments[p],
           NEW t \in Tabs, PanelStep(t)
    PROVE  ViewKnows(page'[t], Money') /\ NetKnows(net'[t], Money')
<1>1. t \in DOMAIN page /\ t \in DOMAIN net
  BY DEF TabsOK
<1>2. /\ ViewKnows(page[t], Money') /\ NetKnows(net[t], Money')
      /\ {"at", "prop", "intent", "loading"} \subseteq DOMAIN page[t]
      /\ {"stage", "payload"} \subseteq DOMAIN net[t]
  BY DEF TabsKnow, ViewKnows, NetKnows, Knows, TabsOK, TabOK, ViewOK, NetOK
<1>3. CASE ServePrepare(t) \/ ServeLink(t)
  BY <1>2, <1>3, AnswersAreTrue DEF ServePrepare, ServeLink
<1>4. CASE Refuse(t) \/ ServeStripe(t) \/ ServeFails(t)
  BY <1>1, <1>2, <1>4 DEF Refuse, ServeStripe, ServeFails, Refused, pageVars, NetKnows
<1>5. CASE AnswerArrives(t)
  BY <1>1, <1>2, <1>5 DEF AnswerArrives, NoNet, ViewKnows, NetKnows
<1>6. CASE RefusalArrives(t) \/ StripeDeclines(t)
  BY <1>1, <1>2, <1>6 DEF RefusalArrives, ViewAfterRefusal, StripeDeclines, NoNet, ViewKnows,
                          NetKnows
<1>7. CASE PaidArrives(t)
  BY <1>1, <1>2, <1>7 DEF PaidArrives, Confirmation, ClosedPage, NoPayload, NoNet, ViewKnows,
                          NetKnows, Knows
<1>8. CASE ServeSimulate(t)
  BY <1>2, <1>8, SimulationPays DEF ServeSimulate
<1>9. CASE ConfirmPayment(t)
  <2>1. net[t].stage = "pay" /\ (AsksForAction(t) \/ \E s : Settles(t, s))
    BY <1>9 DEF ConfirmPayment
  <2>2. CASE AsksForAction(t)
    BY <1>1, <1>2, <2>1, <2>2 DEF AsksForAction, Bank, ClosedPage, NoPayload, NoNet, ViewKnows,
                                  NetKnows, Knows
  <2> QED BY <1>2, <2>1, <2>2, SettledKnows
<1> QED BY <1>3, <1>4, <1>5, <1>6, <1>7, <1>8, <1>9 DEF PanelStep

\* Nor does the page.
LEMMA CustomerKnows ==
    ASSUME TabsOK, TabsKnow, ServerKnows, Money \subseteq Money', mock' = mock,
           NEW t \in Tabs, PromoStep(t) \/ CustomerStep(t)
    PROVE  ViewKnows(page'[t], Money') /\ NetKnows(net'[t], Money')
<1>1. t \in DOMAIN page /\ t \in DOMAIN net
  BY DEF TabsOK
<1>2. /\ ViewKnows(page[t], Money') /\ NetKnows(net[t], Money')
      /\ {"at", "prop", "intent", "loading"} \subseteq DOMAIN page[t]
      /\ {"stage", "payload"} \subseteq DOMAIN net[t]
  BY DEF TabsKnow, ViewKnows, NetKnows, Knows, TabsOK, TabOK, ViewOK, NetOK
<1>3. Knows(PaymentProp, Money')
  BY PropIsTrue, KnownStays DEF ServerKnows
<1>4. CASE PromoStep(t)
  BY <1>1, <1>2, <1>3, <1>4 DEF PromoStep, ServePromo, RefusePromo, PromoShown, ViewKnows
<1>5. CASE LoadCheckout(t)
  BY <1>1, <1>2, <1>3, <1>5 DEF LoadCheckout, FirstView, ClosedPage, NoPayload, ViewKnows,
                                Knows
<1>6. CASE Leave(t) \/ Continue(t) \/ SubmitPromo(t)
  BY <1>1, <1>2, <1>6 DEF Leave, Continue, SubmitPromo, Confirmation, ClosedPage, NoPayload,
                          ViewKnows, Knows
<1>7. CASE Prepare(t)
  BY <1>1, <1>2, <1>7 DEF Prepare, Goes, ViewKnows, NetKnows
<1>8. CASE Pay(t)
  BY <1>1, <1>2, <1>8 DEF Pay, Goes, OffersForm, ActivePayment, ViewKnows, NetKnows, Knows
<1>9. CASE Simulate(t)
  BY <1>1, <1>2, <1>9 DEF Simulate, Goes, OffersSimulate, ActivePayment, ViewKnows, NetKnows,
                          Knows
<1>10. CASE ChallengeEnds(t)
  BY <1>2, <1>10, SettledKnows DEF ChallengeEnds
<1>11. CASE ReturnFromBank(t)
  BY <1>1, <1>2, <1>11 DEF ReturnFromBank, Confirmation, ClosedPage, NoPayload, ViewKnows, Knows
<1> QED BY <1>4, <1>5, <1>6, <1>7, <1>8, <1>9, <1>10, <1>11 DEF CustomerStep

\* If the server keeps its part and no money goes, all tabs stay right.
LEMMA KnowledgeStep ==
    ASSUME TabsOK, TabsKnow, ServerKnows, SucceededHasMoney', Money \subseteq Money',
           DOMAIN payments = PaymentIds, \A p \in PaymentIds : "status" \in DOMAIN payments[p],
           [PageNext]_allVars
    PROVE  TabsKnow'
<1>1. mock' = mock
  BY ModeStays
<1>2. \A t \in Tabs : ViewKnows(page[t], Money') /\ NetKnows(net[t], Money')
  BY DEF TabsKnow, ViewKnows, NetKnows, Knows
<1>3. SUFFICES \A t \in Tabs : ViewKnows(page'[t], Money') /\ NetKnows(net'[t], Money')
  BY <1>1 DEF TabsKnow, ViewKnows, NetKnows, Knows
<1>4. CASE UNCHANGED pageVars
  BY <1>2, <1>4 DEF pageVars
<1>5. ASSUME NEW t \in Tabs, TabStep(t)
      PROVE  \A u \in Tabs : ViewKnows(page'[u], Money') /\ NetKnows(net'[u], Money')
  <2>1. OnlyTab(t)
    BY <1>5, StepOfOneTab
  <2>2. ViewKnows(page'[t], Money') /\ NetKnows(net'[t], Money')
    BY <1>1, <1>5, PanelKnows, CustomerKnows DEF TabStep
  <2> QED BY <1>2, <2>1, <2>2 DEF OnlyTab
<1> QED BY <1>4, <1>5, TabsOnlyByTabs DEF allVars

\* Where a payment ends on the confirmation, its money has moved.
LEMMA SettledPaid ==
    ASSUME TabsOK, TabsKnow, mock' = mock, NEW t \in Tabs,
           net[t].stage \in {"pay", "challenge"},
           Settles(t, intents'[net[t].payload.id].status),
           page[t].at = "checkout", page'[t].at = "confirmation"
    PROVE  \E p \in PaymentIds : p = net[t].payload.id /\ MoneyIsOnItsWay(p)'
<1>1. /\ t \in DOMAIN page /\ {"at", "prop", "intent", "loading"} \subseteq DOMAIN page[t]
      /\ net[t].payload.id \in PaymentIds /\ ~mock
  BY DEF TabsOK, TabOK, ViewOK, TabsKnow, NetKnows
<1>2. intents'[net[t].payload.id].status \in {"succeeded", "processing"}
  BY <1>1 DEF Settles
<1> QED BY <1>1, <1>2 DEF MoneyIsOnItsWay

\* What takes a page from the checkout to the confirmation.
LEMMA WaysToConfirmation ==
    ASSUME TabsOK, [PageNext]_allVars, NEW t \in Tabs,
           page[t].at = "checkout", page'[t].at = "confirmation"
    PROVE  Continue(t) \/ PaidArrives(t) \/ ConfirmPayment(t) \/ ChallengeEnds(t)
<1>1. t \in DOMAIN page /\ {"at", "prop", "intent", "loading"} \subseteq DOMAIN page[t]
  BY DEF TabsOK, TabOK, ViewOK
<1>2. \/ TabStep(t)
      \/ UNCHANGED pageVars
  BY TabsOnlyByTabs, StepOfOneTab DEF allVars, OnlyTab
<1>3. ~UNCHANGED pageVars
  BY DEF pageVars
<1>4. CASE PanelStep(t)
  BY <1>1, <1>4
     DEF PanelStep, ServePrepare, Refuse, ServeStripe, ServeLink, ServeFails, AnswerArrives,
         RefusalArrives, ViewAfterRefusal, ServeSimulate, StripeDeclines, pageVars
<1>5. CASE PromoStep(t)
  BY <1>1, <1>5 DEF PromoStep, ServePromo, RefusePromo, PromoShown
<1>6. CASE CustomerStep(t)
  <2>1. FirstView.at = "checkout" /\ ClosedPage.at = "away"
    BY DEF FirstView, ClosedPage
  <2>2. CASE LoadCheckout(t) \/ Leave(t)
    <3>1. page'[t] = FirstView \/ page'[t] = ClosedPage
      BY <1>1, <2>2 DEF LoadCheckout, Leave
    <3> QED BY <2>1, <3>1
  <2>3. CASE Prepare(t) \/ Simulate(t) \/ Pay(t) \/ SubmitPromo(t)
    BY <1>1, <2>3 DEF Prepare, Simulate, Pay, SubmitPromo, Goes
  <2>4. ~ReturnFromBank(t)
    BY DEF ReturnFromBank
  <2> QED BY <1>6, <2>2, <2>3, <2>4 DEF CustomerStep
<1> QED BY <1>2, <1>3, <1>4, <1>5, <1>6 DEF TabStep

\* Where the checkout sends a customer on, the money of its payment has moved.
LEMMA ConfirmationStep ==
    ASSUME TabsOK, TabsKnow, [PageNext]_allVars, Money \subseteq Money', NEW t \in Tabs,
           page[t].at = "checkout", page'[t].at = "confirmation"
    PROVE  \E p \in PaymentIds : p = ActivePayment(page[t]).id /\ MoneyIsOnItsWay(p)'
<1>1. mock' = mock
  BY ModeStays
<1>2. ASSUME net[t].stage \in {"pay", "challenge", "paid"}
      PROVE  ActivePayment(page[t]) = net[t].payload
  BY <1>2 DEF TabsOK, TabOK, PaysIntent, ActivePayment
<1>3. ASSUME ActivePayment(page[t]).id \in Money
      PROVE  \E p \in PaymentIds : p = ActivePayment(page[t]).id /\ MoneyIsOnItsWay(p)'
  <2>1. PICK p \in PaymentIds : p = ActivePayment(page[t]).id /\ p \in Money'
    BY <1>3 DEF Money
  <2>2. MoneyIsOnItsWay(p)'
    BY <1>1, <2>1 DEF Money, Charged, MoneyIsOnItsWay
  <2> QED BY <2>1, <2>2
<1>4. CASE Continue(t)
  <2>1. ActivePayment(page[t]).id \in Money
    BY <1>4 DEF Continue, OffersContinue, ActivePayment, TabsKnow, ViewKnows, Knows
  <2> QED BY <1>3, <2>1
<1>5. CASE PaidArrives(t)
  <2>1. net[t].stage = "paid" /\ net[t].payload.id \in Money
    BY <1>5 DEF PaidArrives, TabsKnow, NetKnows
  <2> QED BY <1>2, <1>3, <2>1
<1>6. CASE ConfirmPayment(t)
  <2>1. net[t].stage = "pay"
    BY <1>6 DEF ConfirmPayment
  <2>2. CASE AsksForAction(t)
    <3>1. page'[t] = page[t] \/ page'[t] = Bank
      BY <2>2 DEF AsksForAction, TabsOK
    <3> QED BY <3>1 DEF Bank, ClosedPage
  <2>3. CASE Settles(t, intents'[net[t].payload.id].status)
    BY <1>1, <1>2, <2>1, <2>3, SettledPaid
  <2> QED BY <1>6, <2>2, <2>3 DEF ConfirmPayment
<1>7. CASE ChallengeEnds(t)
  <2>1. /\ net[t].stage = "challenge"
        /\ Settles(t, intents'[net[t].payload.id].status)
    BY <1>7 DEF ChallengeEnds, vars
  <2> QED BY <1>1, <1>2, <2>1, SettledPaid
<1> QED BY <1>4, <1>5, <1>6, <1>7, WaysToConfirmation

\* What a step of the page is for the server: one of the checkout (in mock mode one that
\* sends no event), none, the storing of the passengers, or a simulated success.
ServerSteps ==
    \/ WriteAfterLoad
    \/ (Overlap \/ ~UnlockedLoad) /\ OtherStep /\ (mock => UNCHANGED events)
    \/ UNCHANGED vars
    \/ (Overlap \/ ~UnlockedLoad) /\ StoreDetailsFirst
    \/ (Overlap \/ ~UnlockedLoad) /\ mock
         /\ \E t \in Tabs : net[t].payload.id \in PaymentIds /\ ServeSimulate(t)

\* Every step of the page is one of these.
LEMMA PageStepIsServerStep ==
    ASSUME TabsKnow, [PageNext]_allVars
    PROVE  ServerSteps
<1>1. CASE WriteAfterLoad \/ UNCHANGED allVars
  BY <1>1 DEF ServerSteps, allVars
<1>2. ASSUME Overlap \/ ~UnlockedLoad, NEW t \in Tabs, PanelStep(t) PROVE ServerSteps
  <2>1. CASE ServePrepare(t)
    <3>1. StartIntent(t) /\ UNCHANGED events
      BY <2>1 DEF ServePrepare, StartIntent, stripe
    <3> QED BY <1>2, <3>1 DEF ServerSteps, OtherStep, Tabs
  <2>2. CASE ServeStripe(t)
    <3>1. CallStripe(t) /\ UNCHANGED events
      BY <2>2 DEF ServeStripe, CallStripe
    <3> QED BY <1>2, <3>1 DEF ServerSteps, OtherStep, Tabs
  <2>3. CASE ServeLink(t)
    <3>1. LinkIntent(t) /\ UNCHANGED events
      BY <2>3 DEF ServeLink, LinkIntent, stripe
    <3> QED BY <1>2, <3>1 DEF ServerSteps, OtherStep, Tabs
  <2>4. CASE ServeFails(t)
    <3>1. RequestFails(t) /\ UNCHANGED events
      BY <2>4 DEF ServeFails, RequestFails, stripe
    <3> QED BY <1>2, <3>1 DEF ServerSteps, OtherStep, Tabs
  <2>5. CASE ConfirmPayment(t)
    <3>1. net[t].payload.id \in PaymentIds /\ ~mock
      BY <2>5 DEF TabsKnow, NetKnows, ConfirmPayment
    <3>2. StripeMoves(net[t].payload.id) \/ UNCHANGED vars
      BY <2>5 DEF ConfirmPayment
    <3> QED BY <1>2, <3>1, <3>2 DEF ServerSteps, OtherStep
  <2>6. CASE ServeSimulate(t)
    BY <1>2, <2>6 DEF TabsKnow, NetKnows, ServeSimulate, ServerSteps
  <2>7. CASE \/ Refuse(t) \/ AnswerArrives(t) \/ RefusalArrives(t) \/ PaidArrives(t)
             \/ StripeDeclines(t)
    BY <2>7 DEF Refuse, AnswerArrives, RefusalArrives, PaidArrives, StripeDeclines, ServerSteps
  <2> QED BY <1>2, <2>1, <2>2, <2>3, <2>4, <2>5, <2>6, <2>7 DEF PanelStep
<1>3. ASSUME Overlap \/ ~UnlockedLoad, NEW t \in Tabs, PromoStep(t) \/ CustomerStep(t)
      PROVE  ServerSteps
  <2>1. CASE ServePromo(t)
    <3>1. ApplyPromo /\ UNCHANGED events
      BY <2>1 DEF ServePromo, ApplyPromo, stripe
    <3> QED BY <1>3, <3>1 DEF ServerSteps, OtherStep
  <2> QED
    BY <1>3, <2>1 DEF PromoStep, RefusePromo, PromoShown, CustomerStep, LoadCheckout, Leave,
                      Prepare, Simulate, Pay, Continue, SubmitPromo, ChallengeEnds,
                      ReturnFromBank, ServerSteps
<1>4. ASSUME Overlap \/ ~UnlockedLoad, NEW p \in PaymentIds, StripeSettles(p)
      PROVE  ServerSteps
  BY <1>4 DEF StripeSettles, ServerSteps, OtherStep
<1>5. ASSUME Overlap \/ ~UnlockedLoad, Alone PROVE ServerSteps
  <2>1. OtherStep /\ UNCHANGED events
    BY <1>5 DEF Alone, Load, TwoHoursPass, OtherStep, LoadWebhook, SelectAbandoned, PaymentsAge,
                stripe
  <2> QED BY <1>5, <2>1 DEF ServerSteps
<1>6. ASSUME Overlap \/ ~UnlockedLoad, StoreDetailsFirst PROVE ServerSteps
  BY <1>6 DEF ServerSteps
<1> QED BY <1>1, <1>2, <1>3, <1>4, <1>5, <1>6 DEF PageNext

-----------------------------------------------------------------------------
(* With Stripe, however the handlers overlap. *)

LiveInv == ~mock /\ IInv /\ TabsOK /\ TabsKnow

\* A charge is final, in every step of the checkout.
LEMMA ChargesStay ==
    ASSUME IInv, [Next]_vars \/ StoreDetailsFirst
    PROVE  \A p \in PaymentIds : Charged(p) => Charged(p)'
<1> SUFFICES ASSUME NEW p \in PaymentIds, intents[p].status = "succeeded"
             PROVE  intents'[p].status = "succeeded"
  BY DEF Charged
<1>1. intents \in [PaymentIds -> Intents]
  BY DEF IInv, TypeOK
<1>2. ASSUME NEW r \in IntentRequests, CallStripe(r) PROVE intents'[p].status = "succeeded"
  <2>1. intents[p] # NoIntent
    BY DEF NoIntent
  <2> QED BY <1>1, <1>2, <2>1 DEF CallStripe
<1>3. ASSUME NEW q \in PaymentIds, StripeMoves(q) PROVE intents'[p].status = "succeeded"
  <2>1. PICK s \in IntentMoves(intents[q].status) : intents' = [intents EXCEPT ![q].status = s]
    BY <1>3 DEF StripeMoves
  <2>2. q # p
    BY <2>1, MovesRange
  <2> QED BY <1>1, <2>1, <2>2
<1>4. CASE WriteAfterLoad
  BY <1>4 DEF WriteAfterLoad, WebhookSucceeded, WebhookSucceededIgnored, WebhookStatus,
              StoreDetails, CancelAbandoned, stripe
<1>5. CASE OtherStep
  BY <1>2, <1>3, <1>5
     DEF OtherStep, StartIntent, LinkIntent, RequestFails, LoadWebhook, ApplyPromo,
         LoadDetails, SelectAbandoned, PaymentsAge, OfferExpires, stripe
<1>6. CASE StoreDetailsFirst \/ UNCHANGED vars
  BY <1>6 DEF StoreDetailsFirst, stripe, vars
<1> QED BY <1>4, <1>5, <1>6 DEF Next

\* The checkout's invariant holds on.
LEMMA CheckoutKeepsInv ==
    ASSUME IInv, [Next]_vars \/ StoreDetailsFirst
    PROVE  IInv'
<1>1. CASE StoreDetailsFirst
  <2>1. /\ booking' = [booking EXCEPT !.status = "passenger_details_added"]
        /\ UNCHANGED <<payments, recorded, intents, events, requests, webhooks, details,
                       cleanup, aged>>
    BY <1>1 DEF StoreDetailsFirst, stripe
  <2>2. /\ booking' \in BookingRows
        /\ booking'.total = booking.total /\ booking'.confirm = booking.confirm
        /\ booking'.status = "passenger_details_added"
    BY <2>1 DEF IInv, TypeOK, BookingRows, CheckoutStatuses
  <2> QED
    BY <2>1, <2>2
       DEF IInv, TypeOK, RowsAreWhole, UnlinkedIsCurrent, RequestHolds, DeliveryHolds,
           EventsAreTrue, Open, NothingForFree, IntentAmountIsPaymentAmount, Charged
<1> QED BY <1>1, StepInv

\* With Stripe every step keeps the invariant, and the money.
LEMMA LiveStep ==
    ASSUME LiveInv, TabsOK', [PageNext]_allVars
    PROVE  LiveInv' /\ Money \subseteq Money'
<1>1. ~mock'
  BY ModeStays DEF LiveInv
<1>2. [Next]_vars \/ StoreDetailsFirst
  BY PageStepIsServerStep DEF LiveInv, ServerSteps, Next
<1>3. IInv' /\ Money \subseteq Money'
  BY <1>1, <1>2, ChargesStay, CheckoutKeepsInv DEF LiveInv, Money
<1>4. ServerKnows
  BY DEF LiveInv, IInv, TypeOK, NothingForFree, ServerKnows, SucceededHasMoney, Money,
         RequestsNameRows, RequestHolds
<1>5. SucceededHasMoney'
  BY <1>1, <1>3 DEF IInv, NothingForFree, SucceededHasMoney, Money
<1>6. DOMAIN payments = PaymentIds /\ \A p \in PaymentIds : "status" \in DOMAIN payments[p]
  BY DEF LiveInv, IInv, TypeOK, PaymentRows
<1>7. TabsKnow'
  BY <1>3, <1>4, <1>5, <1>6, KnowledgeStep DEF LiveInv
<1> QED BY <1>1, <1>3, <1>7 DEF LiveInv

\* A page that is not loaded knows nothing wrong.
LEMMA FirstTabsKnow == PageInit => TabsKnow
BY DEF PageInit, TabsKnow, ViewKnows, NetKnows, Knows, ClosedPage, NoPayload, NoNet

\* With Stripe, the checkout sends nobody on before the money of the payment its panel is
\* about is there or on its way, whatever the tabs hold, and however webhooks, the clean-up
\* job and promo codes overlap with them.
THEOREM SendsOnPaid == PageSpec /\ ~mock => CheckoutSendsOnPaid
<1> DEFINE A == \A t \in Tabs :
                  page[t].at = "checkout" /\ page'[t].at = "confirmation"
                      => \E p \in PaymentIds :
                            p = ActivePayment(page[t]).id /\ MoneyIsOnItsWay(p)'
<1>1. PageInit /\ TabsOK /\ ~mock => LiveInv
  BY InitInv, FirstTabsKnow DEF PageInit, SerialInv, LiveInv
<1>2. LiveInv /\ TabsOK' /\ [PageNext]_allVars => LiveInv'
  BY LiveStep
<1>3. LiveInv /\ TabsOK' /\ [PageNext]_allVars => [A]_allVars
  BY LiveStep, ConfirmationStep DEF LiveInv
<1> QED BY <1>1, <1>2, <1>3, TabsInvariant, PTL DEF PageSpec, CheckoutSendsOnPaid

-----------------------------------------------------------------------------
(* In either mode, when the unlocked handlers do not overlap. *)

\* In mock mode nothing comes from Stripe; a request still names a payment.
MockForm ==
    /\ TypeOK
    /\ \A r \in IntentRequests :
         requests[r].stage # "idle" => requests[r].payment \in PaymentIds
    /\ \A d \in Deliveries : webhooks[d] = NoDelivery
    /\ \A p \in PaymentIds : events[p] = <<>>

\* The rows are 1, 2, ... and only the last may be completed or is succeeded.
RowsInOrder == \A p \in Rows : \A q \in 1 .. p : q \in Rows
LatestLives == \A p \in PaymentIds : Reusable(p) => \A q \in Rows : q <= p

PageInv ==
    /\ TabsOK /\ TabsKnow
    /\ IF mock THEN MockForm ELSE IInv
    /\ LoadsStand /\ IdleIsIdle
    /\ OneLivePayment /\ ReusableIsCurrent /\ PaidTheTotal
    /\ RowsInOrder /\ LatestLives

\* Enough is known of what is held, in either mode.
LEMMA PageHolds == PageInv => HeldInv
BY DEF PageInv, MockForm, HeldInv, IInv, RequestHolds, DeliveryHolds, NoDelivery

\* A payment row whose status changes to one of a payment keeps its form.
LEMMA RowStatusWritten ==
    ASSUME payments \in [PaymentIds -> PaymentRows], NEW p \in PaymentIds,
           NEW s \in PaymentStatuses, payments' = [payments EXCEPT ![p].status = s]
    PROVE  payments' \in [PaymentIds -> PaymentRows]
BY DEF PaymentRows

\* What a request does keeps the types, when Stripe only answers.
LEMMA MockRequestForm ==
    ASSUME MockForm, UNCHANGED events,
           \E r \in IntentRequests :
             StartIntent(r) \/ CallStripe(r) \/ LinkIntent(r) \/ RequestFails(r)
    PROVE  MockForm'
<1>1. /\ booking \in BookingRows /\ booking.total \in Totals
      /\ payments \in [PaymentIds -> PaymentRows]
      /\ requests \in [IntentRequests -> RequestStates]
      /\ intents \in [PaymentIds -> Intents]
      /\ \A r \in IntentRequests :
           requests[r].stage # "idle" => requests[r].payment \in PaymentIds
  BY DEF MockForm, TypeOK, BookingRows
<1> DEFINE Formed ==
             /\ booking' \in BookingRows
             /\ payments' \in [PaymentIds -> PaymentRows]
             /\ requests' \in [IntentRequests -> RequestStates]
             /\ intents' \in [PaymentIds -> Intents]
             /\ \A r \in IntentRequests :
                  requests'[r].stage # "idle" => requests'[r].payment \in PaymentIds
<1>2. SUFFICES Formed
  BY DEF MockForm, TypeOK, StartIntent, CallStripe, LinkIntent, RequestFails, database
<1>3. NoRequest \in RequestStates
  BY CheckoutAssumption, Mapping
     DEF NoRequest, RequestStates, Totals, Answers, IntentStatuses, MapStripeStatus
<1>4. ASSUME NEW r \in IntentRequests, StartIntent(r) PROVE Formed
  <2> DEFINE new == [status |-> "created", amount |-> booking.total, linked |-> FALSE]
  <2>1. PICK p \in PaymentIds, row \in PaymentRows :
          /\ payments' = [payments EXCEPT ![p] = row]
          /\ requests' = IF row.status = "succeeded" THEN requests
                         ELSE [requests EXCEPT ![r] =
                                 [stage |-> "call", payment |-> p, retrieve |-> row.linked,
                                  total |-> booking.total, answer |-> "processing"]]
    <3>1. new \in PaymentRows
      BY <1>1 DEF PaymentRows, PaymentStatuses
    <3> QED BY <1>1, <1>4, <3>1 DEF StartIntent
  <2>2. [stage |-> "call", payment |-> p, retrieve |-> row.linked,
         total |-> booking.total, answer |-> "processing"] \in RequestStates
    BY <1>1, IdRange, Mapping
       DEF RequestStates, PaymentRows, Answers, IntentStatuses, MapStripeStatus
  <2>3. booking' \in BookingRows /\ UNCHANGED intents
    BY <1>1, <1>4 DEF StartIntent, stripe, BookingRows, CheckoutStatuses
  <2> QED BY <1>1, <2>1, <2>2, <2>3
<1>5. ASSUME NEW r \in IntentRequests, CallStripe(r) PROVE Formed
  <2>1. PICK s \in Answers : requests' = [requests EXCEPT ![r].stage = "link", ![r].answer = s]
    <3>1. requests[r].payment \in PaymentIds
      BY <1>1, <1>5 DEF CallStripe
    <3>2. /\ MapStripeStatus("absent") = MapStripeStatus("processing")
          /\ MapStripeStatus("requires_payment_method") = "requires_payment_method"
      BY DEF MapStripeStatus
    <3>3. \A s \in IntentStatuses \union {"absent"} : MapStripeStatus(s) \in Answers
      BY <3>2, Mapping DEF IntentStatuses
    <3> QED BY <1>1, <1>5, <3>1, <3>2, <3>3 DEF CallStripe, Intents, IntentStatuses
  <2>2. requests[r].stage = "call" /\ requests[r].total \in Totals
    BY <1>1, <1>5 DEF CallStripe, RequestStates
  <2>3. [status |-> "requires_payment_method", amount |-> requests[r].total] \in Intents
    BY <2>2 DEF Intents, IntentStatuses
  <2>4. intents' \in [PaymentIds -> Intents]
    BY <1>1, <1>5, <2>3 DEF CallStripe, ChargedAmount
  <2>5. requests' \in [IntentRequests -> RequestStates]
    BY <1>1, <2>1 DEF RequestStates
  <2>6. \A k \in IntentRequests : requests'[k].payment = requests[k].payment
    BY <1>1, <2>1 DEF RequestStates
  <2>7. \A k \in IntentRequests : requests'[k].stage # "idle" => requests[k].stage # "idle"
    BY <1>1, <2>1, <2>2
  <2>8. UNCHANGED <<booking, payments>>
    BY <1>5 DEF CallStripe, database
  <2> QED BY <1>1, <2>4, <2>5, <2>6, <2>7, <2>8
<1>6. ASSUME NEW r \in IntentRequests, LinkIntent(r) PROVE Formed
  <2>1. requests[r].payment \in PaymentIds /\ requests[r].answer \in Answers
    BY <1>1, <1>6 DEF LinkIntent, RequestStates
  <2>2. PICK t \in PaymentStatuses \union {"none"} :
          payments' = [payments EXCEPT ![requests[r].payment].linked = TRUE,
                                       ![requests[r].payment].status = t]
    BY <1>1, <1>6, <2>1, AnswerRange DEF LinkIntent, PaymentRows
  <2>3. payments' \in [PaymentIds -> PaymentRows]
    BY <1>1, <2>1, <2>2 DEF PaymentRows
  <2>4. requests' = [requests EXCEPT ![r] = NoRequest] /\ UNCHANGED <<booking, intents>>
    BY <1>6 DEF LinkIntent, stripe
  <2> QED BY <1>1, <1>3, <2>3, <2>4 DEF NoRequest
<1>7. ASSUME NEW r \in IntentRequests, RequestFails(r) PROVE Formed
  <2>1. requests' = [requests EXCEPT ![r] = NoRequest] /\ UNCHANGED <<booking, payments, intents>>
    BY <1>7 DEF RequestFails, database, stripe
  <2> QED BY <1>1, <1>3, <2>1 DEF NoRequest
<1> QED BY <1>4, <1>5, <1>6, <1>7

\* So does everything else that may happen in mock mode.
LEMMA MockFormStep ==
    ASSUME mock, MockForm, ServerSteps
    PROVE  MockForm'
<1>1. /\ booking \in BookingRows
      /\ payments \in [PaymentIds -> PaymentRows]
      /\ intents \in [PaymentIds -> Intents]
      /\ cleanup \subseteq PaymentIds
      /\ \A d \in Deliveries : webhooks[d].stage = "idle"
  BY DEF MockForm, TypeOK, NoDelivery
<1>2. CASE WriteAfterLoad
  <2>1. \A d \in Deliveries :
          ~(WebhookSucceeded(d) \/ WebhookSucceededIgnored(d) \/ WebhookStatus(d))
    BY <1>1 DEF WebhookSucceeded, WebhookSucceededIgnored, WebhookStatus, Loaded
  <2>2. ASSUME NEW q \in DetailsRequests, StoreDetails(q) PROVE MockForm'
    BY <1>1, <2>2 DEF StoreDetails, stripe, MockForm, TypeOK, BookingRows, CheckoutStatuses
  <2>3. ASSUME NEW p \in PaymentIds, CancelAbandoned(p) PROVE MockForm'
    <3>1. payments' \in [PaymentIds -> PaymentRows]
      BY <1>1, <2>3, RowStatusWritten DEF CancelAbandoned, PaymentStatuses
    <3>2. cleanup' \subseteq PaymentIds
      BY <1>1, <2>3 DEF CancelAbandoned
    <3> QED BY <2>3, <3>1, <3>2 DEF CancelAbandoned, stripe, MockForm, TypeOK
  <2> QED BY <1>2, <2>1, <2>2, <2>3 DEF WriteAfterLoad
<1>3. CASE OtherStep /\ UNCHANGED events
  <2>1. CASE \E r \in IntentRequests :
               StartIntent(r) \/ CallStripe(r) \/ LinkIntent(r) \/ RequestFails(r)
    BY <1>3, <2>1, MockRequestForm
  <2>2. ASSUME NEW d \in Deliveries, NEW p \in PaymentIds, NEW i, LoadWebhook(d, p, i)
        PROVE  FALSE
    BY <2>2 DEF LoadWebhook, MockForm
  <2>3. ASSUME NEW p \in PaymentIds, StripeMoves(p) PROVE MockForm'
    <3>1. PICK s \in IntentMoves(intents[p].status) : intents' = [intents EXCEPT ![p].status = s]
      BY <2>3 DEF StripeMoves
    <3>2. s \in IntentStatuses
      BY <3>1, MovesRange
    <3>3. intents' \in [PaymentIds -> Intents]
      BY <1>1, <3>1, <3>2 DEF Intents
    <3> QED BY <1>3, <2>3, <3>3 DEF StripeMoves, database, MockForm, TypeOK
  <2>4. CASE ApplyPromo
    <3>1. booking' \in BookingRows
      BY <1>1, <2>4 DEF ApplyPromo, BookingRows
    <3>2. payments' \in [PaymentIds -> PaymentRows]
      BY <1>1, <2>4 DEF ApplyPromo, PaymentRows, PaymentStatuses
    <3> QED BY <2>4, <3>1, <3>2 DEF ApplyPromo, stripe, MockForm, TypeOK
  <2>5. ASSUME NEW q \in DetailsRequests, LoadDetails(q) PROVE MockForm'
    BY <1>1, <2>5 DEF LoadDetails, database, stripe, MockForm, TypeOK, BookingRows
  <2>6. CASE SelectAbandoned \/ PaymentsAge
    BY <1>1, <2>6 DEF SelectAbandoned, PaymentsAge, database, stripe, MockForm, TypeOK
  <2>7. CASE OfferExpires
    BY <1>1, <2>7 DEF OfferExpires, stripe, MockForm, TypeOK, BookingRows
  <2> QED BY <1>3, <2>1, <2>2, <2>3, <2>4, <2>5, <2>6, <2>7 DEF OtherStep
<1>4. CASE UNCHANGED vars
  BY <1>4 DEF vars, MockForm, TypeOK
<1>5. CASE StoreDetailsFirst
  BY <1>1, <1>5 DEF StoreDetailsFirst, stripe, MockForm, TypeOK, BookingRows, CheckoutStatuses
<1>6. ASSUME NEW t \in Tabs, net[t].payload.id \in PaymentIds, ServeSimulate(t)
      PROVE  MockForm'
  <2>1. payments' \in [PaymentIds -> PaymentRows]
    BY <1>1, <1>6, RowStatusWritten DEF ServeSimulate, PaymentStatuses
  <2>2. booking' \in BookingRows
    BY <1>1, <1>6 DEF ServeSimulate, StatusAfterPayment, BookingRows, CheckoutStatuses
  <2> QED BY <1>6, <2>1, <2>2 DEF ServeSimulate, stripe, MockForm, TypeOK
<1> QED BY <1>2, <1>3, <1>4, <1>5, <1>6 DEF ServerSteps

\* What the server does, for the page as well, moves payments and booking in order.
LEMMA ServerStepIsOrderly ==
    ASSUME Overlap = FALSE, HeldInv, ServerSteps
    PROVE  OrderlyStep
<1>1. booking \in BookingRows /\ payments \in [PaymentIds -> PaymentRows]
  BY DEF HeldInv, TypeOK
<1>2. CASE WriteAfterLoad \/ (~UnlockedLoad /\ OtherStep)
  BY <1>2, OrderlyOtherStep, OrderlyWriteAfterLoad
<1>3. CASE UNCHANGED vars
  BY <1>3 DEF vars, HeldInv, LoadsStand, IdleIsIdle, Open, OrderlyStep, PaymentsMove,
              BookingMoves, TotalMoves
<1>4. CASE ~UnlockedLoad /\ StoreDetailsFirst
  <2>1. NothingLoaded
    BY <1>4 DEF UnlockedLoad, NothingLoaded, HeldInv, TypeOK
  <2>2. LoadsStand' /\ IdleIsIdle'
    BY <1>4, <2>1, NothingToKeep DEF StoreDetailsFirst
  <2>3. BookingMoves /\ TotalMoves
    BY <1>1, <1>4 DEF StoreDetailsFirst, BookingMoves, TotalMoves, BookingRows
  <2>4. PaymentsMove
    BY <1>4 DEF StoreDetailsFirst, PaymentsMove
  <2> QED BY <2>2, <2>3, <2>4 DEF OrderlyStep
<1>5. ASSUME ~UnlockedLoad, NEW t \in Tabs, net[t].payload.id \in PaymentIds, ServeSimulate(t)
      PROVE  OrderlyStep
  <2> DEFINE p == net[t].payload.id
  <2>1. NothingLoaded
    BY <1>5 DEF UnlockedLoad, NothingLoaded, HeldInv, TypeOK
  <2>2. LoadsStand' /\ IdleIsIdle'
    BY <1>5, <2>1, NothingToKeep DEF ServeSimulate
  <2>3. CASE UNCHANGED <<payments, booking>>
    BY <2>2, <2>3 DEF OrderlyStep, PaymentsMove, BookingMoves, TotalMoves
  <2>4. CASE /\ payments[p].status # "succeeded"
             /\ CanTransitionPayment(payments[p].status, "succeeded")
             /\ payments' = [payments EXCEPT ![p].status = "succeeded"]
             /\ booking' = [booking EXCEPT !.status = StatusAfterPayment(@), !.confirm = TRUE]
    <3>1. PaymentsMove /\ payments'[p].status = "succeeded"
      BY <1>1, <1>5, <2>4 DEF PaymentsMove, PaymentRows
    <3>2. BookingMoves /\ TotalMoves
      BY <1>1, <1>5, <2>4, <3>1 DEF StatusAfterPayment, BookingMoves, TotalMoves, BookingRows
    <3> QED BY <2>2, <3>1, <3>2 DEF OrderlyStep
  <2> QED BY <1>5, <2>3, <2>4 DEF ServeSimulate, MaySucceed
<1> QED BY <1>2, <1>3, <1>4, <1>5 DEF ServerSteps

\* The rows stay in order, and only the last may live: a payment that is over does not come
\* back, and a new one comes after all others.
LEMMA LatestStep ==
    ASSUME RowsInOrder, LatestLives, PaymentsMove \/ PaymentCreated
    PROVE  RowsInOrder' /\ LatestLives'
<1>1. CASE PaymentsMove
  <2>1. \A p \in PaymentIds : payments'[p].status = "none" <=> payments[p].status = "none"
    BY <1>1, NextRange DEF PaymentsMove
  <2>2. Rows' = Rows
    BY <2>1 DEF Rows
  <2>3. \A p \in PaymentIds : Reusable(p)' => Reusable(p)
    BY <1>1, NoRevival DEF PaymentsMove, Reusable, Open
  <2> QED BY <2>2, <2>3 DEF RowsInOrder, LatestLives
<1>2. CASE PaymentCreated
  <2>1. PICK p \in PaymentIds :
          /\ payments[p].status = "none" /\ payments'[p].status = "created"
          /\ \A q \in 1 .. (p - 1) : payments[q].status # "none"
          /\ \A q \in PaymentIds :
               ~Reusable(q) /\ (q # p => payments'[q].status = payments[q].status)
    BY <1>2 DEF PaymentCreated
  <2>2. PaymentIds \subseteq Nat \ {0} /\ (\A q \in PaymentIds : 1 .. q \subseteq PaymentIds)
    BY CheckoutAssumption DEF PaymentIds
  <2>3. Rows' = Rows \union {p} /\ p \notin Rows
    BY <2>1 DEF Rows
  <2>4. \A q \in Rows : q < p
    <3>1. \A q \in Rows : ~(p <= q)
      BY <2>2, <2>3 DEF RowsInOrder, Rows
    <3> QED BY <2>2, <3>1 DEF Rows
  <2>5. \A q \in PaymentIds : Reusable(q)' => q = p
    BY <2>1 DEF Reusable, Open
  <2>6. LatestLives'
    <3>1. \A q \in Rows : q \in Nat /\ p \in Nat
      BY <2>2 DEF Rows
    <3>2. \A q \in Rows' : q <= p
      BY <2>2, <2>3, <2>4, <3>1
    <3> QED BY <2>5, <3>2 DEF LatestLives
  <2>7. RowsInOrder'
    <3>1. \A q \in 1 .. (p - 1) : q \in Rows
      BY <2>1, <2>2 DEF Rows
    <3>2. \A q \in 1 .. p : q \in Rows \union {p}
      BY <2>2, <3>1
    <3> QED BY <2>3, <3>2 DEF RowsInOrder
  <2> QED BY <2>6, <2>7
<1> QED BY <1>1, <1>2

\* What is said to be paid in mock mode is not taken back.
LEMMA MockMoneyStays ==
    ASSUME mock, mock' = mock, PaymentsMove \/ PaymentCreated
    PROVE  Money \subseteq Money'
BY DEF Money, PaymentsMove, PaymentCreated, Reusable

\* Every step of the page is orderly and keeps the invariant, and the money.
LEMMA PageInvStep ==
    ASSUME Overlap = FALSE, PageInv, TabsOK', [PageNext]_allVars
    PROVE  OrderlyStep /\ PageInv' /\ Money \subseteq Money'
<1>1. HeldInv /\ mock' = mock
  BY PageHolds, ModeStays
<1>2. ServerSteps
  BY PageStepIsServerStep DEF PageInv
<1>3. OrderlyStep
  BY <1>1, <1>2, ServerStepIsOrderly
<1>4. /\ LoadsStand' /\ IdleIsIdle'
      /\ OneLivePayment' /\ ReusableIsCurrent' /\ PaidTheTotal'
      /\ RowsInOrder' /\ LatestLives'
  BY <1>3, OneLiveStep, TotalStep, LatestStep DEF OrderlyStep, PageInv
<1>5. CASE ~mock
  <2>1. LiveInv' /\ Money \subseteq Money'
    BY <1>5, LiveStep DEF LiveInv, PageInv
  <2> QED BY <1>1, <1>3, <1>4, <1>5, <2>1 DEF LiveInv, PageInv
<1>6. CASE mock
  <2>1. MockForm'
    BY <1>2, <1>6, MockFormStep DEF PageInv
  <2>2. Money \subseteq Money'
    BY <1>1, <1>3, <1>6, MockMoneyStays DEF OrderlyStep
  <2>3. ServerKnows /\ SucceededHasMoney'
    BY <1>1, <1>6 DEF ServerKnows, SucceededHasMoney, Money, RequestsNameRows, HeldInv, TypeOK
  <2>4. DOMAIN payments = PaymentIds /\ \A p \in PaymentIds : "status" \in DOMAIN payments[p]
    BY <1>1 DEF HeldInv, TypeOK, PaymentRows
  <2>5. TabsKnow'
    BY <2>2, <2>3, <2>4, KnowledgeStep DEF PageInv
  <2> QED BY <1>1, <1>3, <1>4, <1>6, <2>1, <2>2, <2>5 DEF PageInv
<1> QED BY <1>5, <1>6

\* It holds when no page is loaded yet.
LEMMA PageInvInit == PageInit /\ TabsOK => PageInv
<1> SUFFICES ASSUME PageInit, TabsOK PROVE PageInv
  OBVIOUS
<1>1. SerialInv /\ TabsKnow
  BY InitInv, FirstTabsKnow DEF PageInit
<1>2. MockForm
  BY <1>1 DEF SerialInv, IInv, MockForm, PageInit, Init, NoRequest
<1>3. Rows = {} /\ \A p \in PaymentIds : ~Reusable(p)
  BY DEF PageInit, Init, Rows, Reusable, Open, OpenStatuses, NoPayment
<1> QED BY <1>1, <1>2, <1>3 DEF PageInv, SerialInv, RowsInOrder, LatestLives

\* What holds of the page and its server in either mode when the unlocked handlers do not
\* overlap.
THEOREM PageInvariant ==
    ASSUME Overlap = FALSE
    PROVE  PageSpec => []PageInv
<1>1. PageInv /\ TabsOK' /\ [PageNext]_allVars => PageInv'
  BY PageInvStep
<1> QED BY <1>1, PageInvInit, TabsInvariant, PTL DEF PageSpec

\* So the page keeps what the checkout promises, in mock mode as well: no booking has two
\* payments that the customer could be sent to, and one that is paid was paid by a succeeded
\* payment of its present total.
THEOREM PageKeepsCheckout ==
    ASSUME Overlap = FALSE
    PROVE  PageSpec => [](OneLivePayment /\ PaidTheTotal)
<1>1. PageInv => OneLivePayment /\ PaidTheTotal
  BY DEF PageInv
<1> QED BY <1>1, PageInvariant, PTL

\* The page and its server implement the life of every payment.
THEOREM PageFollowsPaymentLife ==
    ASSUME Overlap = FALSE
    PROVE  PageSpec => PaymentLifeSpec
<1>1. PageInit => Life!Init
  BY DEF PageInit, Init, Life!Init, NoPayment
<1>2. PageInv /\ TabsOK' /\ [PageNext]_allVars
        => [Life!Next]_([p \in PaymentIds |-> payments[p].status])
  <2> SUFFICES ASSUME PageInv, TabsOK', [PageNext]_allVars PROVE Life!Next
    OBVIOUS
  <2>1. OrderlyStep /\ PageInv'
    BY PageInvStep
  <2>2. TypeOK /\ TypeOK'
    BY <2>1 DEF PageInv, MockForm, IInv
  <2> QED BY <2>1, <2>2, LifeStep DEF OrderlyStep
<1> QED BY <1>1, <1>2, PageInvariant, TabsInvariant, PTL
        DEF PageSpec, PaymentLifeSpec, Life!Spec

\* What moves the booking: no request of the page has loaded the row before it writes the
\* passengers, and the other writers look at the status they replace.
RowIsFresh ==
    /\ "status" \in DOMAIN booking
    /\ \A q \in DetailsRequests : details[q] = "none"

StatusMoves ==
    \/ booking'.status = booking.status
    \/ booking.status = "offer_selected" /\ booking'.status = "passenger_details_added"
    \/ booking.status = "passenger_details_added" /\ booking'.status = "payment_pending"
    \/ booking.status = "payment_pending" /\ booking'.status = "payment_succeeded"

LEMMA StatusMovesInLife == StatusMoves => [Lifecycle!Next]_(booking.status)
BY DEF StatusMoves, Lifecycle!Next, Lifecycle!Transition, Lifecycle!CanTransitionBooking,
       Lifecycle!BookingTransitions, Lifecycle!BookingStatuses

\* Every step of the page moves the booking so, whatever overlaps.
LEMMA PageMovesStatus ==
    ASSUME RowIsFresh, [PageNext]_allVars
    PROVE  RowIsFresh' /\ StatusMoves
<1>1. ASSUME UNCHANGED <<booking, details>> PROVE RowIsFresh' /\ StatusMoves
  BY <1>1 DEF RowIsFresh, StatusMoves
<1>2. ASSUME NEW d, WebhookSucceeded(d) PROVE RowIsFresh' /\ StatusMoves
  BY <1>2 DEF WebhookSucceeded, StatusAfterPayment, RowIsFresh, StatusMoves
<1>3. CASE WriteAfterLoad
  <2>1. ASSUME NEW q \in DetailsRequests, StoreDetails(q) PROVE FALSE
    BY <2>1 DEF StoreDetails, RowIsFresh
  <2>2. ASSUME NEW d \in Deliveries, WebhookSucceededIgnored(d) \/ WebhookStatus(d)
        PROVE  UNCHANGED <<booking, details>>
    BY <2>2 DEF WebhookSucceededIgnored, WebhookStatus, database
  <2>3. ASSUME NEW p \in PaymentIds, CancelAbandoned(p) PROVE UNCHANGED <<booking, details>>
    BY <2>3 DEF CancelAbandoned
  <2> QED BY <1>1, <1>2, <1>3, <2>1, <2>2, <2>3 DEF WriteAfterLoad
<1>4. ASSUME NEW t \in Tabs, PanelStep(t) PROVE RowIsFresh' /\ StatusMoves
  <2>1. CASE ServePrepare(t)
    BY <2>1 DEF ServePrepare, StartIntent, Payable, RowIsFresh, StatusMoves
  <2>2. CASE ServeSimulate(t)
    <3>1. CASE UNCHANGED booking
      BY <1>1, <2>2, <3>1 DEF ServeSimulate
    <3>2. CASE booking' = [booking EXCEPT !.status = StatusAfterPayment(@), !.confirm = TRUE]
      BY <2>2, <3>2 DEF ServeSimulate, StatusAfterPayment, RowIsFresh, StatusMoves
    <3> QED BY <2>2, <3>1, <3>2 DEF ServeSimulate
  <2>3. CASE \/ ServeStripe(t) \/ ServeLink(t) \/ ServeFails(t) \/ ConfirmPayment(t)
    BY <1>1, <2>3 DEF ServeStripe, CallStripe, ServeLink, LinkIntent, ServeFails, RequestFails,
                      ConfirmPayment, StripeMoves, database, vars
  <2>4. CASE \/ Refuse(t) \/ AnswerArrives(t) \/ RefusalArrives(t) \/ PaidArrives(t)
             \/ StripeDeclines(t)
    BY <1>1, <2>4 DEF Refuse, AnswerArrives, RefusalArrives, PaidArrives, StripeDeclines, vars
  <2> QED BY <1>4, <2>1, <2>2, <2>3, <2>4 DEF PanelStep
<1>5. ASSUME NEW t \in Tabs, PromoStep(t) PROVE RowIsFresh' /\ StatusMoves
  <2>1. CASE ServePromo(t)
    BY <2>1 DEF ServePromo, ApplyPromo, RowIsFresh, StatusMoves
  <2>2. CASE RefusePromo(t) \/ PromoShown(t)
    BY <1>1, <2>2 DEF RefusePromo, PromoShown, vars
  <2> QED BY <1>5, <2>1, <2>2 DEF PromoStep
<1>6. ASSUME NEW t \in Tabs, CustomerStep(t) PROVE RowIsFresh' /\ StatusMoves
  BY <1>1, <1>6 DEF CustomerStep, LoadCheckout, Leave, Prepare, Simulate, Pay, Continue,
                    SubmitPromo, ChallengeEnds, ReturnFromBank, vars
<1>7. CASE (\E p \in PaymentIds : StripeSettles(p)) \/ Alone
  BY <1>1, <1>7 DEF StripeSettles, StripeMoves, Alone, Load, TwoHoursPass, LoadWebhook,
                    SelectAbandoned, PaymentsAge, database
<1>8. CASE StoreDetailsFirst
  BY <1>8 DEF StoreDetailsFirst, RowIsFresh, StatusMoves
<1>9. CASE UNCHANGED allVars
  BY <1>1, <1>9 DEF allVars, vars
<1> QED BY <1>3, <1>4, <1>5, <1>6, <1>7, <1>8, <1>9 DEF PageNext

\* The booking follows its part of the lifecycle, whether payments are made or simulated, and
\* however webhooks, the clean-up job, promo codes and the requests of the tabs overlap.
THEOREM PageFollowsLifecycle == PageSpec => LifecycleSpec
<1>1. PageInit => Lifecycle!Init /\ RowIsFresh
  BY DEF PageInit, Init, Lifecycle!Init, RowIsFresh
<1>2. RowIsFresh /\ [PageNext]_allVars => RowIsFresh' /\ [Lifecycle!Next]_(booking.status)
  BY PageMovesStatus, StatusMovesInLife
<1> QED BY <1>1, <1>2, PTL DEF PageSpec, LifecycleSpec, Lifecycle!Spec

\* The booking's succeeded payment is its latest row, so whoever comes back to the checkout
\* of a paid booking is sent on and not asked to pay again, with Stripe or in mock mode, after
\* any number of payments that were cancelled, replaced or found again.
THEOREM PaidGoesOn ==
    ASSUME Overlap = FALSE
    PROVE  PageSpec => []PaidIsNotAskedAgain
<1>1. PageInv => PaidIsNotAskedAgain
  <2> SUFFICES ASSUME PageInv, booking.status = "payment_succeeded"
               PROVE  OffersContinue(FirstView) /\ ~OffersToPay(FirstView)
    BY DEF PaidIsNotAskedAgain
  <2>1. PICK p \in PaymentIds : payments[p].status = "succeeded"
    BY DEF PageInv, PaidTheTotal
  <2>2. p \in Rows /\ \A q \in Rows : q <= p
    BY <2>1 DEF Rows, PageInv, LatestLives, Reusable
  <2>3. PICK q \in Rows : /\ \A r \in Rows : r <= q
                          /\ PaymentProp = [id |-> q, status |-> payments[q].status,
                                            secret |-> FALSE, url |-> FALSE]
    BY <2>2, PropOfLatest
  <2>4. q = p
    <3>1. q <= p /\ p <= q
      BY <2>2, <2>3
    <3> QED BY <3>1, CheckoutAssumption DEF Rows, PaymentIds
  <2>5. FirstView.intent = PaymentProp /\ FirstView.intent # NoPayload
    BY <2>1, <2>3, <2>4 DEF FirstView, ClosedPage, NoPayload
  <2>6. ActivePayment(FirstView).status = "succeeded" /\ ~ActivePayment(FirstView).secret
    BY <2>1, <2>3, <2>4, <2>5 DEF ActivePayment
  <2> QED BY <2>6 DEF OffersContinue, OffersToPay, OffersPrepare, OffersSimulate, OffersForm
<1> QED BY <1>1, PageInvariant, PTL

\* In mock mode too, the checkout sends nobody on before the payment its panel is about has
\* succeeded: not one whose simulated success was refused, repeated or answered late.  The
\* clean-up job could take a success back, if it overlapped.
THEOREM SendsOnPaidInEitherMode ==
    ASSUME Overlap = FALSE
    PROVE  PageSpec => CheckoutSendsOnPaid
<1> DEFINE A == \A t \in Tabs :
                  page[t].at = "checkout" /\ page'[t].at = "confirmation"
                      => \E p \in PaymentIds :
                            p = ActivePayment(page[t]).id /\ MoneyIsOnItsWay(p)'
<1>1. PageInv /\ TabsOK' /\ [PageNext]_allVars => [A]_allVars
  BY PageInvStep, ConfirmationStep DEF PageInv
<1> QED BY <1>1, PageInvariant, TabsInvariant, PTL DEF PageSpec, CheckoutSendsOnPaid
=============================================================================

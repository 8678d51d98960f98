---------------------------- MODULE Finalization ----------------------------
(***************************************************************************)
(* Provider-order finalization of one paid booking: the webhook            *)
(* transaction that marks the payment succeeded and queues                 *)
(* ConfirmBookingJob, the queue workers that run ConfirmBookingJob and     *)
(* RetryTicketingJob, the scheduler that queues more of the latter, the    *)
(* operator's actions in the admin panel, and the airline provider.        *)
(*                                                                         *)
(* A step of this module is one database transaction, or one call to the   *)
(* provider, of the code: what the code reads before such a step and uses  *)
(* after it is kept in the worker's (or the operator's) local state.       *)
(***************************************************************************)
EXTENDS BookingStatus, Naturals, FiniteSets

CONSTANTS
    Workers,      \* queue worker processes (config/horizon.php maxProcesses)
    ConfirmJobs,  \* the ConfirmBookingJobs that may ever be dispatched
    TicketJobs,   \* RetryTicketingJobs that can be on the queue at once
    Deliveries,   \* deliveries of the payment_intent.succeeded webhook
    Operators,    \* admin requests being served at once
    OrderIds,     \* ids the provider can give to orders
    NoOrder,      \* provider_order_id IS NULL
    NoJob,        \* the worker runs no job
    Tries,        \* $tries of both jobs
    Offers,       \* the kinds of offers bookings are made of
    RealFinalization,  \* flight.orders.real_finalization_enabled
    SyncEnabled,  \* flight.orders.ticketing_sync_enabled
    Faults        \* the faults the environment may produce

Jobs == ConfirmJobs \union TicketJobs

ASSUME FinalizationAssumption ==
    /\ ConfirmJobs \intersect TicketJobs = {}
    /\ NoOrder \notin OrderIds /\ OrderIds # {}
    /\ NoJob \notin Jobs
    /\ Tries \in Nat \ {0}
    /\ Offers \subseteq {"mock_offer", "real_offer"}
    /\ RealFinalization \in BOOLEAN /\ SyncEnabled \in BOOLEAN
    /\ Faults \subseteq {"provider_error", "rejected", "lost_response",
                         "queue_down", "crash", "crash_in_hook", "rollback"}

VARIABLES
    booking,   \* the row of table bookings
    paid,      \* a committed payment row has status succeeded
    webhook,   \* per delivery: "idle", "checked" (event not recorded yet),
               \* "open" (in its transaction), "done"
    orders,    \* the provider's side: the status of every order it created
    queue,     \* per job: "absent", "ready", "reserved" or "gone"
    attempts,  \* per job: how often a worker has reserved it
    work,      \* per worker: the job it runs, where it is in it, its locals
    operator   \* per admin request: the status the request loaded, or "none"

vars == <<booking, paid, webhook, orders, queue, attempts, work, operator>>

-----------------------------------------------------------------------------
(* Data.                                                                    *)

\* What the provider can answer as the status of an order.  "cancelled"
\* stands for every value ProviderOrderStatusMapper does not list.
OrderStatuses == {"pending", "confirmed", "ticketed", "cancelled"}

\* The statuses after payment that this part of the system can write.
FinalizationStatuses ==
    { "payment_pending", "payment_succeeded", "booking_confirming",
      "booking_confirmed", "ticketing_pending", "ticketed",
      "booking_failed", "refund_pending" }

Stages == { "idle", "start", "move", "gate", "record", "follow_up",
            "follow_up_sync", "mark", "hook", "hook_mark",
            "start_ticketing", "retrieve", "record_ticketing" }

\* A worker that enters a stage of job j with no provider answer yet.
At(stage, j) == [stage |-> stage, job |-> j, order |-> NoOrder, answer |-> "pending"]

Idle == At("idle", NoJob)

BookingRows == [ offer  : Offers,              \* provider_offer_id
                 status : FinalizationStatuses,
                 order  : OrderIds \union {NoOrder},
                 ticket : {"none", "provider", "manual"},
                 reason : BOOLEAN ]           \* failure_reason is set

JobStates == {"absent", "ready", "reserved", "gone"}

WorkerStates == [ stage  : Stages,
                  job    : Jobs \union {NoJob},
                  order  : OrderIds \union {NoOrder},
                  answer : OrderStatuses ]

\* One type invariant for the module: a worker that is not idle has a job, and
\* one that has an answer of the provider has the order it is about.
TypeOK ==
    /\ booking \in BookingRows
    /\ paid \in BOOLEAN
    /\ webhook \in [Deliveries -> {"idle", "checked", "open", "done"}]
    /\ orders \in [OrderIds -> OrderStatuses \union {"absent"}]
    /\ queue \in [Jobs -> JobStates]
    /\ attempts \in [Jobs -> Nat]
    /\ work \in [Workers -> WorkerStates]
    /\ \A w \in Workers : /\ work[w].stage # "idle" => work[w].job \in Jobs
                          /\ work[w].stage \in {"record", "retrieve", "record_ticketing"}
                                 => work[w].order \in OrderIds
    /\ operator \in [Operators -> FinalizationStatuses \union {"none"}]

Init ==
    /\ booking \in [offer : Offers, status : {"payment_pending"}, order : {NoOrder},
                    ticket : {"none"}, reason : {FALSE}]
    /\ paid = FALSE
    /\ webhook = [d \in Deliveries |-> "idle"]
    /\ orders = [o \in OrderIds |-> "absent"]
    /\ queue = [j \in Jobs |-> "absent"]
    /\ attempts = [j \in Jobs |-> 0]
    /\ work = [w \in Workers |-> Idle]
    /\ operator = [a \in Operators |-> "none"]

-----------------------------------------------------------------------------
(* The queue.                                                               *)

\* A ConfirmBookingJob id is used once; a RetryTicketingJob id again when its
\* job has left the queue.
Free(j) ==
    \/ queue[j] = "absent"
    \/ j \in TicketJobs /\ queue[j] = "gone"

\* SomeJob::dispatch($booking->id)
Dispatch(j) ==
    /\ queue' = [queue EXCEPT ![j] = "ready"]
    /\ attempts' = [attempts EXCEPT ![j] = 0]

FreeTicketJobs == {j \in TicketJobs : Free(j)}

\* The worker's job ends: it is deleted from the queue and the worker is free.
Finish(w) ==
    /\ queue' = [queue EXCEPT ![work[w].job] = "gone"]
    /\ work' = [work EXCEPT ![w] = Idle]
    /\ UNCHANGED attempts

Goto(w, stage) ==
    /\ work' = [work EXCEPT ![w].stage = stage]
    /\ UNCHANGED <<queue, attempts>>

\* Bug: a throwing job is not put back on the queue.
BugThrowNoRetry(w) == Finish(w)

\* handle() threw: back to the queue while tries are left, otherwise the job is
\* deleted and its failed() method runs (only ConfirmBookingJob has one).
Throw(w) ==
    LET j == work[w].job IN
    IF attempts[j] < Tries
    THEN /\ queue' = [queue EXCEPT ![j] = "ready"]
         /\ work' = [work EXCEPT ![w] = Idle]
         /\ UNCHANGED attempts
    ELSE /\ queue' = [queue EXCEPT ![j] = "gone"]
         /\ work' = [work EXCEPT ![w] =
                        IF j \in ConfirmJobs THEN At("hook", j) ELSE Idle]
         /\ UNCHANGED attempts

\* A worker reserves a job.  A job that has been tried already waits out its
\* backoff of at least 30 s, longer than a webhook transaction stays open.  A
\* job whose worker died on its last attempt is failed without being handled.
Pop(w, j) ==
    /\ work[w].stage = "idle"
    /\ queue[j] = "ready"
    /\ attempts[j] > 0 => \A d \in Deliveries : webhook[d] # "open"
    /\ attempts' = [attempts EXCEPT ![j] = @ + 1]
    /\ IF attempts[j] < Tries
       THEN /\ queue' = [queue EXCEPT ![j] = "reserved"]
            /\ work' = [work EXCEPT ![w] =
                 At(IF j \in ConfirmJobs THEN "start" ELSE "start_ticketing", j)]
       ELSE /\ queue' = [queue EXCEPT ![j] = "gone"]
            /\ work' = [work EXCEPT ![w] =
                 IF j \in ConfirmJobs THEN At("hook", j) ELSE Idle]
    /\ UNCHANGED <<booking, paid, webhook, orders, operator>>

\* A worker dies inside handle(); after retry_after its job is ready again.
Crash(w) ==
    /\ "crash" \in Faults
    /\ work[w].stage \notin {"idle", "hook", "hook_mark"}
    /\ queue' = [queue EXCEPT ![work[w].job] = "ready"]
    /\ work' = [work EXCEPT ![w] = Idle]
    /\ UNCHANGED <<booking, paid, webhook, orders, attempts, operator>>

\* A worker dies inside failed(): the job was deleted before, so it is lost.
CrashInHook(w) ==
    /\ "crash_in_hook" \in Faults
    /\ work[w].stage \in {"hook", "hook_mark"}
    /\ work' = [work EXCEPT ![w] = Idle]
    /\ UNCHANGED <<booking, paid, webhook, orders, queue, attempts, operator>>

-----------------------------------------------------------------------------
(* The webhook transaction of MarkPaymentSucceededAction, as far as the     *)
(* booking is concerned.                                                    *)

\* Outside the transaction: is the event in payment_events already?  It is once
\* a delivery has committed.
CheckDuplicate(d) ==
    /\ webhook[d] = "idle"
    /\ webhook' = [webhook EXCEPT ![d] = IF paid THEN "done" ELSE "checked"]
    /\ UNCHANGED <<booking, paid, orders, queue, attempts, work, operator>>

\* The job is dispatched inside the transaction and the queue connections have
\* after_commit=false: a worker may reserve it before the commit.  Deliveries
\* serialize on the row lock of the booking.
OpenWebhook(d, j) ==
    /\ webhook[d] = "checked"
    /\ \A e \in Deliveries : webhook[e] # "open"
    /\ j \in ConfirmJobs /\ Free(j)
    /\ Dispatch(j)
    /\ webhook' = [webhook EXCEPT ![d] = "open"]
    /\ UNCHANGED <<booking, paid, orders, work, operator>>

StatusAfterPayment(s) == IF s = "payment_pending" THEN "payment_succeeded" ELSE s

CommitWebhook(d) ==
    /\ webhook[d] = "open"
    /\ webhook' = [webhook EXCEPT ![d] = "done"]
    /\ paid' = TRUE
    /\ booking' = [booking EXCEPT !.status = StatusAfterPayment(@)]
    /\ UNCHANGED <<orders, queue, attempts, work, operator>>

\* The transaction fails after the dispatch: the job stays on the queue and
\* Stripe delivers the event again.
RollbackWebhook(d) ==
    /\ "rollback" \in Faults
    /\ webhook[d] = "open"
    /\ webhook' = [webhook EXCEPT ![d] = "idle"]
    /\ UNCHANGED <<booking, paid, orders, queue, attempts, work, operator>>

-----------------------------------------------------------------------------
(* ConfirmBookingJob::handle, FinalizeProviderBookingAction.                *)

\* Bug: an order that is waiting for its ticket does not count.
BugForgetsPendingOrder ==
    /\ booking.order # NoOrder
    /\ booking.status \in {"booking_confirmed", "ticketed"}

HasOrderAlready ==
    /\ booking.order # NoOrder
    /\ booking.status \in {"booking_confirmed", "ticketing_pending", "ticketed"}

HasSucceededPayment == paid

\* Bug: failed bookings are taken up again.
BugRevivesFailed(s) == s \in {"payment_succeeded", "booking_failed"}

MustMove(s)   == s = "payment_succeeded"
MayProceed(s) == s \in {"booking_confirming", "ticketing_pending"}

\* Bug: neither the payment nor the status of the booking is checked.
BugUncheckedStart(w) ==
    /\ work[w].stage = "start"
    /\ IF HasOrderAlready THEN Finish(w) ELSE Goto(w, "gate")
    /\ UNCHANGED <<booking, paid, webhook, orders, operator>>

\* The booking is read; the checks that need no write follow.
StartFinalization(w) ==
    /\ work[w].stage = "start"
    /\ \/ HasOrderAlready /\ Finish(w)
       \/ /\ ~HasOrderAlready /\ HasSucceededPayment
          /\ MustMove(booking.status)
          /\ Goto(w, "move")
       \/ /\ ~HasOrderAlready /\ HasSucceededPayment
          /\ MayProceed(booking.status)
          /\ Goto(w, "gate")
       \/ /\ ~HasOrderAlready
          /\ \/ ~HasSucceededPayment
             \/ ~(MustMove(booking.status) \/ MayProceed(booking.status))
          /\ Throw(w)
    /\ UNCHANGED <<booking, paid, webhook, orders, operator>>

\* BookingStateMachine::transition checks the status the worker read, which was
\* payment_succeeded, and writes without a lock or a second look at the row.
MoveIntoConfirming(w) ==
    /\ work[w].stage = "move"
    /\ booking' = [booking EXCEPT !.status = "booking_confirming"]
    /\ Goto(w, "gate")
    /\ UNCHANGED <<paid, webhook, orders, operator>>

\* Bug: a held booking stays in booking_confirming.
BugHoldKeepsStatus(s) == s

StatusAfterHold(s) == IF s = "booking_confirming" THEN "ticketing_pending" ELSE s

\* A mock order costs nothing: mock bookings pass the gate.  Under
\* FLIGHT_MOCK_MODE every booking is one.
Mock == booking.offer = "mock_offer"

RealFinalizationIsDisabled == ~Mock /\ ~RealFinalization

HoldForManualReview(w) ==
    /\ work[w].stage = "gate"
    /\ RealFinalizationIsDisabled
    /\ booking' = [booking EXCEPT !.status = StatusAfterHold(@), !.reason = TRUE]
    /\ Finish(w)
    /\ UNCHANGED <<paid, webhook, orders, operator>>

-----------------------------------------------------------------------------
(* createOrder.  No idempotency key is sent: every call that reaches the    *)
(* provider makes a new order.  The mock provider derives the id from the   *)
(* booking reference: it always answers with the same, ticketed, order.     *)

Receive(w, o, s) ==
    /\ work' = [work EXCEPT ![w] = [stage |-> "record", job |-> work[w].job,
                                    order |-> o, answer |-> s]]
    /\ UNCHANGED <<queue, attempts>>

CreateMockOrder(w) ==
    /\ work[w].stage = "gate"
    /\ Mock
    /\ LET o == CHOOSE o \in OrderIds : TRUE IN
       /\ orders' = [orders EXCEPT ![o] = "ticketed"]
       /\ Receive(w, o, "ticketed")
    /\ UNCHANGED <<booking, paid, webhook, operator>>

CreateOrder(w) ==
    /\ work[w].stage = "gate"
    /\ ~Mock /\ RealFinalization
    /\ \E o \in OrderIds, s \in OrderStatuses \ {"cancelled"} :
         /\ orders[o] = "absent"
         /\ orders' = [orders EXCEPT ![o] = s]
         /\ Receive(w, o, s)
    /\ UNCHANGED <<booking, paid, webhook, operator>>

\* The answer is lost (timeout): the order exists, the worker sees a transient
\* error and the job is tried again.
CreateOrderAnswerLost(w) ==
    /\ "lost_response" \in Faults
    /\ work[w].stage = "gate"
    /\ ~Mock /\ RealFinalization
    /\ \E o \in OrderIds, s \in OrderStatuses \ {"cancelled"} :
         /\ orders[o] = "absent"
         /\ orders' = [orders EXCEPT ![o] = s]
    /\ Throw(w)
    /\ UNCHANGED <<booking, paid, webhook, operator>>

\* ProviderException::transient (no connection, 5xx): rethrown to the queue.
CreateOrderTransientError(w) ==
    /\ "provider_error" \in Faults
    /\ work[w].stage = "gate"
    /\ ~Mock /\ RealFinalization
    /\ Throw(w)
    /\ UNCHANGED <<booking, paid, webhook, orders, operator>>

\* ProviderException::permanent (4xx): caught, the booking is marked failed.
CreateOrderRejected(w) ==
    /\ "rejected" \in Faults
    /\ work[w].stage = "gate"
    /\ ~Mock /\ RealFinalization
    /\ Goto(w, "mark")
    /\ UNCHANGED <<booking, paid, webhook, orders, operator>>

-----------------------------------------------------------------------------
(* RecordProviderOrderAction: one transaction under the row lock.           *)

\* Bug: a confirmed order is taken for a ticketed one.
BugConfirmedIsTicketed(answer) ==
    CASE answer \in {"ticketed", "confirmed"} -> "ticketed"
      [] OTHER                               -> "ticketing_pending"

\* ProviderOrderStatusMapper::targetBookingStatus
TargetBookingStatus(answer) ==
    CASE answer = "ticketed"  -> "ticketed"
      [] answer = "confirmed" -> "booking_confirmed"
      [] OTHER                -> "ticketing_pending"

\* Bug: the provider's status is written whatever the booking's status is.
BugRecordUnguarded(s, answer) == TargetBookingStatus(answer)

\* Bug: a confirmed booking does not become ticketed.
BugConfirmedNeverTicketed(s, answer) ==
    IF s \in {"booking_confirming", "ticketing_pending"}
    THEN TargetBookingStatus(answer)
    ELSE s

StatusAfterRecord(s, answer) ==
    LET target == TargetBookingStatus(answer) IN
    IF \/ /\ target = "ticketed"
          /\ s \in {"booking_confirming", "booking_confirmed", "ticketing_pending"}
       \/ /\ target = "booking_confirmed"
          /\ s = "booking_confirming"
       \/ /\ target = "ticketing_pending"
          /\ s \in {"booking_confirming", "booking_confirmed"}
    THEN target
    ELSE s

\* The provider's answer replaces what the row held, its ticket number too.
RecordedBooking(o, answer) ==
    [ offer  |-> booking.offer,
      status |-> StatusAfterRecord(booking.status, answer),
      order  |-> o,
      ticket |-> IF answer = "ticketed" THEN "provider" ELSE "none",
      reason |-> FALSE ]

RecordProviderOrder(w) ==
    /\ work[w].stage = "record"
    /\ booking' = RecordedBooking(work[w].order, work[w].answer)
    /\ Goto(w, IF booking'.status = "ticketing_pending" /\ SyncEnabled
               THEN "follow_up_sync" ELSE "follow_up")
    /\ UNCHANGED <<paid, webhook, orders, operator>>

\* The confirmation mail is queued and, for a booking left in ticketing_pending,
\* a RetryTicketingJob.  With all of TicketJobs queued another one adds nothing.
DispatchFollowUps(w) ==
    /\ \/ work[w].stage = "follow_up" /\ Finish(w)
       \/ /\ work[w].stage = "follow_up_sync"
          /\ FreeTicketJobs = {}
          /\ Finish(w)
       \/ /\ work[w].stage = "follow_up_sync"
          /\ \E j \in FreeTicketJobs :
               /\ queue' = [queue EXCEPT ![work[w].job] = "gone", ![j] = "ready"]
               /\ attempts' = [attempts EXCEPT ![j] = 0]
          /\ work' = [work EXCEPT ![w] = Idle]
    /\ UNCHANGED <<booking, paid, webhook, orders, operator>>

\* A dispatch throws inside the try block that created the order: the handler
\* takes it for a failed finalization.
FollowUpDispatchFails(w) ==
    /\ "queue_down" \in Faults
    /\ work[w].stage \in {"follow_up", "follow_up_sync"}
    /\ Goto(w, "mark")
    /\ UNCHANGED <<booking, paid, webhook, orders, operator>>

-----------------------------------------------------------------------------
(* MarkBookingFinalizationFailedAction, from handle() or from failed().     *)

\* Bug: the provider's word for a failure is written into the status column.
BugFailureWord(s) ==
    IF CanTransitionBooking(s, "booking_failed") THEN "failed" ELSE s

StatusAfterFailure(s) ==
    IF CanTransitionBooking(s, "booking_failed") THEN "booking_failed" ELSE s

MarkFailed(w) ==
    /\ booking' = [booking EXCEPT !.status = StatusAfterFailure(@), !.reason = TRUE]
    /\ UNCHANGED <<paid, webhook, orders, operator>>

MarkFinalizationFailed(w) ==
    /\ work[w].stage = "mark"
    /\ MarkFailed(w)
    /\ Finish(w)

\* Bug: the hook only looks for bookings that wait for a ticket.
BugHookTicketingOnly(s) == s = "ticketing_pending"

FailedHookApplies(s) == s \in {"booking_confirming", "ticketing_pending"}

\* ConfirmBookingJob::failed reads the booking without a lock ...
FailedHook(w) ==
    /\ work[w].stage = "hook"
    /\ \/ FailedHookApplies(booking.status) /\ Goto(w, "hook_mark")
       \/ ~FailedHookApplies(booking.status) /\ Finish(w)
    /\ UNCHANGED <<booking, paid, webhook, orders, operator>>

\* ... and marks it failed in a transaction of its own.
FailedHookMarks(w) ==
    /\ work[w].stage = "hook_mark"
    /\ MarkFailed(w)
    /\ Finish(w)

-----------------------------------------------------------------------------
(* RetryTicketingJob::handle.                                               *)

\* Bug: the status of the booking is not looked at.
BugAnyOrderAwaits(b) == b.order # NoOrder

AwaitsTicket(b) ==
    /\ b.order # NoOrder
    /\ b.status \in {"booking_confirmed", "ticketing_pending"}

StartTicketing(w) ==
    /\ work[w].stage = "start_ticketing"
    /\ \/ /\ SyncEnabled /\ AwaitsTicket(booking)
          /\ work' = [work EXCEPT ![w].stage = "retrieve", ![w].order = booking.order]
          /\ UNCHANGED <<queue, attempts>>
       \/ /\ ~(SyncEnabled /\ AwaitsTicket(booking))
          /\ Finish(w)
    /\ UNCHANGED <<booking, paid, webhook, orders, operator>>

\* The mock provider reports every order as ticketed.
RetrieveOrder(w) ==
    /\ work[w].stage = "retrieve"
    /\ work' = [work EXCEPT ![w].stage = "record_ticketing",
                            ![w].answer = IF Mock THEN "ticketed"
                                          ELSE orders[work[w].order]]
    /\ UNCHANGED <<booking, paid, webhook, orders, queue, attempts, operator>>

RetrieveOrderError(w) ==
    /\ "provider_error" \in Faults
    /\ ~Mock
    /\ work[w].stage = "retrieve"
    /\ Throw(w)
    /\ UNCHANGED <<booking, paid, webhook, orders, operator>>

RecordTicketing(w) ==
    /\ work[w].stage = "record_ticketing"
    /\ booking' = RecordedBooking(work[w].order, work[w].answer)
    /\ Finish(w)
    /\ UNCHANGED <<paid, webhook, orders, operator>>

\* SyncProviderBookingStatusJob, every 15 minutes.
SyncTick ==
    /\ AwaitsTicket(booking)
    /\ \E j \in FreeTicketJobs : Dispatch(j)
    /\ UNCHANGED <<booking, paid, webhook, orders, work, operator>>

-----------------------------------------------------------------------------
(* The admin panel.  A request loads the booking, checks the loaded status  *)
(* and acts on it; nothing locks the row in between.                        *)

Retryable(s)    == s \in {"payment_succeeded", "booking_failed", "ticketing_pending"}
Ticketable(s)   == s \in {"booking_confirmed", "ticketing_pending"}
Refundable(s)   == s \in {"payment_succeeded", "booking_failed",
                          "ticketing_pending", "ticketed"}

AdminLoad(a) ==
    /\ operator[a] = "none"
    /\ Retryable(booking.status) \/ Ticketable(booking.status) \/ Refundable(booking.status)
    /\ operator' = [operator EXCEPT ![a] = booking.status]
    /\ UNCHANGED <<booking, paid, webhook, orders, queue, attempts, work>>

AdminDone(a) == operator' = [operator EXCEPT ![a] = "none"]

AdminRetry(a) ==
    /\ Retryable(operator[a])
    /\ \E j \in IF operator[a] = "ticketing_pending" THEN TicketJobs ELSE ConfirmJobs :
         Free(j) /\ Dispatch(j)
    /\ AdminDone(a)
    /\ UNCHANGED <<booking, paid, webhook, orders, work>>

AdminRecordTicket(a) ==
    /\ Ticketable(operator[a])
    /\ booking' = [booking EXCEPT !.status = "ticketed", !.ticket = "manual"]
    /\ AdminDone(a)
    /\ UNCHANGED <<paid, webhook, orders, queue, attempts, work>>

AdminMarkRefund(a) ==
    /\ Refundable(operator[a])
    /\ CanTransitionBooking(operator[a], "refund_pending")
    /\ booking' = [booking EXCEPT !.status = "refund_pending"]
    /\ AdminDone(a)
    /\ UNCHANGED <<paid, webhook, orders, queue, attempts, work>>

-----------------------------------------------------------------------------
(* The provider moves an order forward on its own.                          *)

ProviderProgress(o) ==
    /\ \/ orders[o] = "pending"   /\ orders' = [orders EXCEPT ![o] = "confirmed"]
       \/ orders[o] = "confirmed" /\ orders' = [orders EXCEPT ![o] = "ticketed"]
       \/ orders[o] \in {"pending", "confirmed"}
          /\ orders' = [orders EXCEPT ![o] = "cancelled"]
    /\ UNCHANGED <<booking, paid, webhook, queue, attempts, work, operator>>

-----------------------------------------------------------------------------
ConfirmStep(w) ==
    \/ StartFinalization(w) \/ MoveIntoConfirming(w) \/ HoldForManualReview(w)
    \/ CreateMockOrder(w) \/ CreateOrder(w) \/ CreateOrderAnswerLost(w)
    \/ CreateOrderTransientError(w) \/ CreateOrderRejected(w)
    \/ RecordProviderOrder(w) \/ DispatchFollowUps(w) \/ FollowUpDispatchFails(w)
    \/ MarkFinalizationFailed(w) \/ FailedHook(w) \/ FailedHookMarks(w)

TicketingStep(w) ==
    \/ StartTicketing(w) \/ RetrieveOrder(w) \/ RetrieveOrderError(w)
    \/ RecordTicketing(w)

WebhookStep(d) ==
    \/ CheckDuplicate(d)
    \/ \E j \in ConfirmJobs : OpenWebhook(d, j)
    \/ CommitWebhook(d)
    \/ RollbackWebhook(d)

AdminStep(a) ==
    AdminLoad(a) \/ AdminRetry(a) \/ AdminRecordTicket(a) \/ AdminMarkRefund(a)

Next ==
    \/ \E d \in Deliveries : WebhookStep(d)
    \/ \E w \in Workers : \/ \E j \in Jobs : Pop(w, j)
                          \/ ConfirmStep(w) \/ TicketingStep(w)
                          \/ Crash(w) \/ CrashInHook(w)
    \/ SyncTick
    \/ \E a \in Operators : AdminStep(a)
    \/ \E o \in OrderIds : ProviderProgress(o)

Spec == Init /\ [][Next]_vars

\* Worker processes run on (Supervisor restarts them), the queue is served in
\* order so a ready job is reserved in the end, the scheduler keeps ticking and,
\* of the RetryTicketingJobs that are queued again and again, one is not
\* interrupted at each of its steps.
Fairness ==
    /\ \A d \in Deliveries : WF_vars(CommitWebhook(d))
    /\ \A w \in Workers : WF_vars(ConfirmStep(w)) /\ WF_vars(TicketingStep(w))
    /\ \A w \in Workers :
         SF_vars(StartTicketing(w)) /\ SF_vars(RetrieveOrder(w)) /\ SF_vars(RecordTicketing(w))
    /\ \A j \in Jobs : SF_vars(\E w \in Workers : Pop(w, j))
    /\ WF_vars(SyncTick)

FairSpec == Spec /\ Fairness

-----------------------------------------------------------------------------
(* Safety.                                                                  *)

CreatedOrders == {o \in OrderIds : orders[o] # "absent"}

\* An order costs money at the provider: none exists before the payment of the
\* booking is committed, although ConfirmBookingJob is queued before that commit
\* and a worker may run it at once (FinalizeProviderBookingAction::
\* assertPaidBooking against MarkPaymentSucceededAction).
OrdersOnlyForPaidBookings == CreatedOrders # {} => paid

\* The provider holds at most one order for the booking, however often the
\* finalization of the booking is queued, tried and retried.
AtMostOneOrder == Cardinality(CreatedOrders) <= 1

\* A booking the system gave up on has no order left at the provider: the refund
\* review that follows booking_failed may pay the customer back.
FailedBookingHasNoOrder == booking.status = "booking_failed" => CreatedOrders = {}

\* A booking shown as ticketed points to an order the provider has ticketed.
TicketedIsBacked ==
    booking.status = "ticketed" =>
        /\ booking.order # NoOrder
        /\ orders[booking.order] = "ticketed"

\* A booking_failed row tells the operator why (failure_reason): the write of a
\* late provider answer, which clears it, never meets a failed booking.
FailedBookingHasReason == booking.status = "booking_failed" => booking.reason

-----------------------------------------------------------------------------
(* Action properties and refinement.                                        *)

\* The status column follows the transition table, one transition per
\* transaction: Finalization implements BookingLifecycle.
Lifecycle == INSTANCE BookingLifecycle
                 WITH status <- booking.status, Entry <- "payment_pending"
LifecycleSpec == Lifecycle!Spec

\* No queue worker moves a booking out of booking_failed: the job that the
\* operator's "Retry finalization" queues for a failed booking cannot revive it,
\* and neither can a late answer of the provider.
RetryNeverRevives ==
    [][booking.status = "booking_failed" /\ work' # work =>
           booking'.status = "booking_failed"]_vars

-----------------------------------------------------------------------------
(* Liveness.                                                                *)

\* booking_confirming is a state in passing: a booking never stays there,
\* whatever the provider, the queue and dying workers do.
ConfirmingIsLeft ==
    booking.status = "booking_confirming" ~> booking.status # "booking_confirming"

\* A ticket the provider has issued for the recorded order reaches the booking
\* (unless another order takes the place of that one).
IssuedTicketArrives ==
    \A o \in OrderIds :
        (AwaitsTicket(booking) /\ booking.order = o /\ orders[o] = "ticketed")
            ~> ~(AwaitsTicket(booking) /\ booking.order = o)

\* Every paid mock booking ends up ticketed, although its job may run, and fail,
\* before the payment is committed, and two workers may finalize it at once.
MockBookingIsTicketed == paid /\ Mock ~> booking.status = "ticketed"

\* With real finalization off every other paid booking ends up waiting for the
\* operator in ticketing_pending, with a reason: no job that was overtaken or
\* tried again moves it on.
GatedBookingIsHeld ==
    paid /\ RealFinalizationIsDisabled
        ~> [](booking.status = "ticketing_pending" /\ booking.reason)
=============================================================================

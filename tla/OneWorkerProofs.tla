--------------------------- MODULE OneWorkerProofs ---------------------------
(***************************************************************************)
(* What finalization guarantees while one queue worker serves its jobs,    *)
(* for any number of jobs, webhook deliveries and admin requests.  Each    *)
(* section names the faults it can bear.                                   *)
(***************************************************************************)
EXTENDS CustomerPages, FinalizationProofs, FiniteSetTheorems

-----------------------------------------------------------------------------
(* How a step leaves the worker.                                            *)

\* Its job is over or thrown out of, or it goes on to the next stage.
LEMMA Leaves ==
    ASSUME TypeOK, NEW w \in Workers
    PROVE  /\ Finish(w) => work'[w].stage = "idle"
           /\ Throw(w) => work'[w].stage \in {"idle", "hook"}
           /\ Throw(w) /\ work[w].job \notin ConfirmJobs => work'[w].stage = "idle"
           /\ \A s : Goto(w, s) => /\ work'[w].stage = s
                                   /\ work'[w].order = work[w].order
                                   /\ work'[w].answer = work[w].answer
                                   /\ work'[w].job = work[w].job
           /\ \A o, s : Receive(w, o, s) => /\ work'[w].stage = "record"
                                            /\ work'[w].order = o
                                            /\ work'[w].answer = s
                                            /\ work'[w].job = work[w].job
           /\ \A j : Pop(w, j) =>
                 /\ work'[w].stage \in {"idle", "start", "start_ticketing", "hook"}
                 /\ work'[w].stage \in {"start", "hook"} => j \in ConfirmJobs
                 /\ work'[w].stage = "start_ticketing" => j \notin ConfirmJobs
                 /\ work'[w].stage # "idle" => work'[w].job = j
                 /\ work'[w].stage = "hook" => ~(attempts[j] < Tries)
           /\ Crash(w) \/ CrashInHook(w) => work'[w].stage = "idle"
<1>1. work \in [Workers -> WorkerStates] /\ work[w] \in WorkerStates
  BY DEF TypeOK
<1>2. /\ Finish(w) => work'[w].stage = "idle"
      /\ Throw(w) => work'[w].stage \in {"idle", "hook"}
      /\ Throw(w) /\ work[w].job \notin ConfirmJobs => work'[w].stage = "idle"
  BY <1>1 DEF Finish, Throw, Idle, At
<1>3. ASSUME NEW s, Goto(w, s)
      PROVE  /\ work'[w].stage = s
             /\ work'[w].order = work[w].order
             /\ work'[w].answer = work[w].answer
             /\ work'[w].job = work[w].job
  BY <1>1, <1>3 DEF Goto, WorkerStates
<1>4. ASSUME NEW o, NEW s, Receive(w, o, s)
      PROVE  /\ work'[w].stage = "record"
             /\ work'[w].order = o
             /\ work'[w].answer = s
             /\ work'[w].job = work[w].job
  BY <1>1, <1>4 DEF Receive
<1>5. ASSUME NEW j, Pop(w, j)
      PROVE  /\ work'[w].stage \in {"idle", "start", "start_ticketing", "hook"}
             /\ work'[w].stage \in {"start", "hook"} => j \in ConfirmJobs
             /\ work'[w].stage = "start_ticketing" => j \notin ConfirmJobs
             /\ work'[w].stage # "idle" => work'[w].job = j
             /\ work'[w].stage = "hook" => ~(attempts[j] < Tries)
  BY <1>1, <1>5 DEF Pop, Idle, At
<1>6. Crash(w) \/ CrashInHook(w) => work'[w].stage = "idle"
  BY <1>1 DEF Crash, CrashInHook, Idle, At
<1> QED BY <1>2, <1>3, <1>4, <1>5, <1>6

-----------------------------------------------------------------------------
(* With every fault and with operators: nothing happens to a booking that   *)
(* has failed.                                                              *)

AtWork == {"move", "gate", "record", "retrieve", "record_ticketing"}

\* The worker on its way to or back from the provider has no failed booking.
WorksOnLiving ==
    \A w \in Workers : work[w].stage \in AtWork => booking.status # "booking_failed"

LivingInv == WorksOnLiving /\ FailedBookingHasReason

\* What others than the worker do makes no booking fail and no failed one another.
LEMMA OthersLeaveFailed ==
    ASSUME IInv,
           \/ \E d \in Deliveries : WebhookStep(d)
           \/ SyncTick
           \/ \E a \in Operators : AdminStep(a)
           \/ \E o \in OrderIds : ProviderProgress(o)
    PROVE  /\ UNCHANGED work
           /\ booking'.reason = booking.reason
           /\ booking'.status = "booking_failed" => booking.status = "booking_failed"
<1>1. booking \in BookingRows
  BY DEF IInv, TypeOK
<1>2. ASSUME NEW d \in Deliveries, WebhookStep(d)
      PROVE  /\ UNCHANGED work
             /\ booking'.reason = booking.reason
             /\ booking'.status = "booking_failed" => booking.status = "booking_failed"
  BY <1>1, <1>2 DEF WebhookStep, CheckDuplicate, OpenWebhook, CommitWebhook, RollbackWebhook,
                    StatusAfterPayment, BookingRows
<1>3. ASSUME NEW a \in Operators, AdminStep(a)
      PROVE  /\ UNCHANGED work
             /\ booking'.reason = booking.reason
             /\ booking'.status = "booking_failed" => booking.status = "booking_failed"
  BY <1>1, <1>3 DEF AdminStep, AdminLoad, AdminRetry, AdminRecordTicket, AdminMarkRefund,
                    BookingRows
<1> QED BY <1>2, <1>3 DEF SyncTick, ProviderProgress

\* Every step keeps both.
LEMMA LivingStep ==
    ASSUME OneWorker, IInv, LivingInv, [Next]_vars
    PROVE  LivingInv'
<1>1. booking \in BookingRows /\ TypeOK
  BY DEF IInv, TypeOK
<1>2. CASE UNCHANGED vars
  BY <1>2 DEF vars, LivingInv, WorksOnLiving, FailedBookingHasReason
<1>3. CASE \/ \E d \in Deliveries : WebhookStep(d)
           \/ SyncTick
           \/ \E a \in Operators : AdminStep(a)
           \/ \E o \in OrderIds : ProviderProgress(o)
  BY <1>3, OthersLeaveFailed DEF LivingInv, WorksOnLiving, FailedBookingHasReason
<1>4. ASSUME NEW w \in Workers,
             work'[w].stage \in AtWork => booking'.status # "booking_failed",
             booking'.status = "booking_failed" => booking'.reason
      PROVE  LivingInv'
  BY <1>4 DEF OneWorker, LivingInv, WorksOnLiving, FailedBookingHasReason
<1>5. ASSUME NEW w \in Workers, UNCHANGED booking,
             work'[w].stage \in AtWork => booking.status # "booking_failed"
      PROVE  LivingInv'
  BY <1>4, <1>5 DEF LivingInv, FailedBookingHasReason
<1>6. ASSUME NEW w \in Workers, (\E j \in Jobs : Pop(w, j)) \/ Crash(w) \/ CrashInHook(w)
      PROVE  LivingInv'
  <2>1. UNCHANGED booking
    BY <1>6 DEF Pop, Crash, CrashInHook
  <2>2. work'[w].stage \notin AtWork
    BY <1>1, <1>6, Leaves DEF AtWork
  <2> QED BY <1>5, <2>1, <2>2
<1>7. ASSUME NEW w \in Workers, ConfirmStep(w)
      PROVE  LivingInv'
  <2>1. CASE StartFinalization(w)
    BY <1>1, <1>5, <2>1, Leaves DEF StartFinalization, MustMove, MayProceed, AtWork
  <2>2. CASE MoveIntoConfirming(w)
    BY <1>1, <1>4, <2>2 DEF MoveIntoConfirming, BookingRows
  <2>3. CASE HoldForManualReview(w) \/ MarkFinalizationFailed(w) \/ FailedHookMarks(w)
    <3>1. booking'.reason /\ work'[w].stage \notin AtWork
      BY <1>1, <2>3, Leaves DEF HoldForManualReview, MarkFinalizationFailed, FailedHookMarks,
                                MarkFailed, BookingRows, AtWork
    <3> QED BY <1>4, <3>1
  <2>4. CASE \/ CreateOrderAnswerLost(w) \/ CreateOrderTransientError(w)
             \/ CreateOrderRejected(w) \/ FollowUpDispatchFails(w) \/ FailedHook(w)
    <3>1. UNCHANGED booking /\ work'[w].stage \notin AtWork
      BY <1>1, <2>4, Leaves DEF CreateOrderAnswerLost, CreateOrderTransientError,
                                CreateOrderRejected, FollowUpDispatchFails, FailedHook, AtWork
    <3> QED BY <1>5, <3>1
  <2>5. CASE CreateMockOrder(w) \/ CreateOrder(w)
    <3>1. work[w].stage = "gate" /\ UNCHANGED booking
      BY <2>5 DEF CreateMockOrder, CreateOrder
    <3> QED BY <1>5, <3>1 DEF LivingInv, WorksOnLiving, AtWork
  <2>6. CASE RecordProviderOrder(w)
    <3>1. booking.status # "booking_failed"
      BY <2>6 DEF RecordProviderOrder, LivingInv, WorksOnLiving, AtWork
    <3>2. booking'.status # "booking_failed"
      BY <2>6, <3>1 DEF RecordProviderOrder, RecordedBooking, StatusAfterRecord,
                        TargetBookingStatus
    <3> QED BY <1>4, <3>2
  <2>7. CASE DispatchFollowUps(w)
    <3>1. work'[w].stage = "idle" /\ UNCHANGED booking
      BY <1>1, <2>7, Leaves DEF DispatchFollowUps, Idle, At, TypeOK
    <3> QED BY <1>5, <3>1 DEF AtWork
  <2> QED BY <1>7, <2>1, <2>2, <2>3, <2>4, <2>5, <2>6, <2>7 DEF ConfirmStep
<1>8. ASSUME NEW w \in Workers, TicketingStep(w)
      PROVE  LivingInv'
  <2>1. CASE StartTicketing(w)
    BY <1>1, <1>5, <2>1, Leaves DEF StartTicketing, AwaitsTicket, AtWork
  <2>2. CASE RetrieveOrder(w) \/ RetrieveOrderError(w)
    <3>1. work[w].stage = "retrieve" /\ UNCHANGED booking
      BY <2>2 DEF RetrieveOrder, RetrieveOrderError
    <3> QED BY <1>5, <3>1 DEF LivingInv, WorksOnLiving, AtWork
  <2>3. CASE RecordTicketing(w)
    <3>1. booking.status # "booking_failed"
      BY <2>3 DEF RecordTicketing, LivingInv, WorksOnLiving, AtWork
    <3>2. booking'.status # "booking_failed"
      BY <2>3, <3>1 DEF RecordTicketing, RecordedBooking, StatusAfterRecord,
                        TargetBookingStatus
    <3> QED BY <1>4, <3>2
  <2> QED BY <1>8, <2>1, <2>2, <2>3 DEF TicketingStep
<1> QED BY <1>2, <1>3, <1>6, <1>7, <1>8 DEF Next

\* A booking that has failed tells the operator why, although every recorded answer of the
\* provider clears failure_reason and jobs may be tried again after crashes at any point.
THEOREM FailedTellsWhy ==
    ASSUME OneWorker
    PROVE  Spec => []FailedBookingHasReason
<1>1. Init => LivingInv
  BY DEF Init, LivingInv, WorksOnLiving, FailedBookingHasReason
<1>2. IInv /\ LivingInv /\ [Next]_vars => LivingInv'
  BY LivingStep
<1>3. LivingInv => FailedBookingHasReason
  BY DEF LivingInv
<1> QED BY <1>1, <1>2, <1>3, InductiveInvariant, PTL DEF Spec

\* No step of the worker takes a booking out of booking_failed: neither the job of "Retry
\* finalization" nor a late answer of the provider.
THEOREM WorkerNeverRevives ==
    ASSUME OneWorker
    PROVE  Spec => RetryNeverRevives
<1> DEFINE A == booking.status = "booking_failed" /\ work' # work
                    => booking'.status = "booking_failed"
<1>1. Init => LivingInv
  BY DEF Init, LivingInv, WorksOnLiving, FailedBookingHasReason
<1>2. IInv /\ LivingInv /\ [Next]_vars => LivingInv'
  BY LivingStep
<1>3. IInv /\ LivingInv /\ [Next]_vars => [A]_vars
  <2> SUFFICES ASSUME IInv, LivingInv, Next, booking.status = "booking_failed", work' # work
               PROVE  booking'.status = "booking_failed"
    OBVIOUS
  <2>1. booking \in BookingRows /\ TypeOK
    BY DEF IInv, TypeOK
  <2>2. PICK w \in Workers : \/ \E j \in Jobs : Pop(w, j)
                             \/ ConfirmStep(w) \/ TicketingStep(w)
                             \/ Crash(w) \/ CrashInHook(w)
    BY OthersLeaveFailed DEF Next
  <2>3. work[w].stage \notin AtWork
    BY DEF LivingInv, WorksOnLiving
  <2>4. CASE (\E j \in Jobs : Pop(w, j)) \/ Crash(w) \/ CrashInHook(w) \/ TicketingStep(w)
    BY <2>3, <2>4 DEF Pop, Crash, CrashInHook, TicketingStep, StartTicketing, RetrieveOrder,
                      RetrieveOrderError, RecordTicketing, AtWork
  <2>5. CASE MarkFinalizationFailed(w) \/ FailedHookMarks(w)
    BY <2>1, <2>5 DEF MarkFinalizationFailed, FailedHookMarks, MarkFailed, StatusAfterFailure,
                      CanTransitionBooking, BookingTransitions, BookingRows
  <2>6. CASE ConfirmStep(w) /\ ~MarkFinalizationFailed(w) /\ ~FailedHookMarks(w)
    BY <2>3, <2>6 DEF ConfirmStep, StartFinalization, MoveIntoConfirming, HoldForManualReview,
                      CreateMockOrder, CreateOrder, CreateOrderAnswerLost,
                      CreateOrderTransientError, CreateOrderRejected, RecordProviderOrder,
                      DispatchFollowUps, FollowUpDispatchFails, FailedHook, AtWork
  <2> QED BY <2>2, <2>4, <2>5, <2>6
<1> QED BY <1>1, <1>2, <1>3, InductiveInvariant, PTL DEF Spec, RetryNeverRevives

-----------------------------------------------------------------------------
(* While no worker dies and no answer of the provider is lost: one order.   *)

NoOrderIsLost == Faults \intersect {"crash", "lost_response"} = {}

BeforeConfirming == {"payment_pending", "payment_succeeded"}

\* What the stage of the worker, the row and the provider's orders say of each other: who
\* is about to order finds nothing ordered, and an order is recorded before another step
\* of the worker looks at the row.
OrderOK(stage) ==
    /\ stage \in {"move", "gate"} => CreatedOrders = {}
    /\ stage = "gate" => booking.status \notin BeforeConfirming
    /\ CreatedOrders # {} => booking.status \notin BeforeConfirming
    /\ CreatedOrders # {} /\ stage # "record"
           => booking.order # NoOrder /\ booking.status # "booking_confirming"

OneOrder == \A o, p \in CreatedOrders : o = p

OrderInv == OneOrder /\ \A w \in Workers : OrderOK(work[w].stage)

\* What others than the worker do creates no order and touches the status alone.
LEMMA OthersKeepOrders ==
    ASSUME IInv,
           \/ \E d \in Deliveries : WebhookStep(d)
           \/ SyncTick
           \/ \E a \in Operators : AdminStep(a)
           \/ \E o \in OrderIds : ProviderProgress(o)
    PROVE  /\ UNCHANGED work
           /\ CreatedOrders' = CreatedOrders
           /\ booking'.order = booking.order
           /\ \/ booking'.status \in {booking.status, "ticketed", "refund_pending"}
              \/ booking.status = "payment_pending" /\ booking'.status = "payment_succeeded"
<1>1. booking \in BookingRows /\ orders \in [OrderIds -> OrderStatuses \union {"absent"}]
  BY DEF IInv, TypeOK
<1>2. ASSUME NEW d \in Deliveries, WebhookStep(d)
      PROVE  /\ UNCHANGED <<work, orders>>
             /\ booking'.order = booking.order
             /\ \/ booking'.status = booking.status
                \/ /\ booking.status = "payment_pending"
                   /\ booking'.status = "payment_succeeded"
  BY <1>1, <1>2 DEF WebhookStep, CheckDuplicate, OpenWebhook, CommitWebhook, RollbackWebhook,
                    StatusAfterPayment, BookingRows
<1>3. ASSUME NEW a \in Operators, AdminStep(a)
      PROVE  /\ UNCHANGED <<work, orders>>
             /\ booking'.order = booking.order
             /\ booking'.status \in {booking.status, "ticketed", "refund_pending"}
  BY <1>1, <1>3 DEF AdminStep, AdminLoad, AdminRetry, AdminRecordTicket, AdminMarkRefund,
                    BookingRows
<1>4. ASSUME NEW o \in OrderIds, ProviderProgress(o)
      PROVE  UNCHANGED <<work, booking>> /\ CreatedOrders' = CreatedOrders
  BY <1>1, <1>4 DEF ProviderProgress, CreatedOrders
<1> QED BY <1>2, <1>3, <1>4 DEF SyncTick, CreatedOrders

\* Every step keeps the orders and the row in agreement: one case per action.
LEMMA OrderStep ==
    ASSUME OneWorker, NoOrderIsLost, IInv, OrderInv, [Next]_vars
    PROVE  OrderInv'
<1>1. /\ booking \in BookingRows /\ TypeOK
      /\ orders \in [OrderIds -> OrderStatuses \union {"absent"}]
  BY DEF IInv, TypeOK
<1>2. CASE UNCHANGED vars
  BY <1>2 DEF vars, OrderInv, OneOrder, OrderOK, CreatedOrders
<1>3. CASE \/ \E d \in Deliveries : WebhookStep(d)
           \/ SyncTick
           \/ \E a \in Operators : AdminStep(a)
           \/ \E o \in OrderIds : ProviderProgress(o)
  BY <1>3, OthersKeepOrders DEF OrderInv, OneOrder, OrderOK, BeforeConfirming
<1>4. ASSUME NEW w \in Workers, UNCHANGED orders, OrderOK(work[w].stage)'
      PROVE  OrderInv'
  BY <1>4 DEF OneWorker, OrderInv, OneOrder, CreatedOrders
<1>5. UNCHANGED orders => CreatedOrders' = CreatedOrders
  BY DEF CreatedOrders
<1>6. ASSUME NEW w \in Workers, UNCHANGED <<orders, booking>>, work[w].stage # "record",
             work'[w].stage \notin {"move", "gate"}
      PROVE  OrderInv'
  BY <1>4, <1>5, <1>6 DEF OrderInv, OrderOK
<1>7. ASSUME NEW w \in Workers, (\E j \in Jobs : Pop(w, j)) \/ Crash(w) \/ CrashInHook(w)
      PROVE  OrderInv'
  <2>1. UNCHANGED <<orders, booking>>
    BY <1>7 DEF Pop, Crash, CrashInHook
  <2>2. work'[w].stage \notin {"move", "gate"}
    BY <1>1, <1>7, Leaves
  <2>3. work[w].stage # "record"
    BY <1>7 DEF Pop, Crash, CrashInHook, NoOrderIsLost
  <2> QED BY <1>6, <2>1, <2>2, <2>3
<1>8. ASSUME NEW w \in Workers, ConfirmStep(w)
      PROVE  OrderInv'
  <2>1. CASE StartFinalization(w)
    <3>1. UNCHANGED <<orders, booking>> /\ work[w].stage = "start"
      BY <2>1 DEF StartFinalization
    <3>2. OrderOK("start")
      BY <3>1 DEF OrderInv
    <3>3. CASE Finish(w) \/ Throw(w)
      BY <1>1, <1>6, <3>1, <3>3, Leaves
    <3>4. CASE ~HasOrderAlready /\ MustMove(booking.status) /\ Goto(w, "move")
      <4>1. CreatedOrders = {}
        BY <3>2, <3>4 DEF OrderOK, MustMove, BeforeConfirming
      <4>2. work'[w].stage = "move"
        BY <1>1, <3>4, Leaves
      <4> QED BY <1>4, <1>5, <3>1, <4>1, <4>2 DEF OrderOK
    <3>5. CASE ~HasOrderAlready /\ MayProceed(booking.status) /\ Goto(w, "gate")
      <4>1. CreatedOrders = {}
        BY <3>2, <3>5 DEF OrderOK, MayProceed, HasOrderAlready
      <4>2. booking.status \notin BeforeConfirming
        BY <3>5 DEF MayProceed, BeforeConfirming
      <4>3. work'[w].stage = "gate"
        BY <1>1, <3>5, Leaves
      <4> QED BY <1>4, <1>5, <3>1, <4>1, <4>2, <4>3 DEF OrderOK
    <3> QED BY <2>1, <3>3, <3>4, <3>5 DEF StartFinalization
  <2>2. CASE MoveIntoConfirming(w)
    <3>1. UNCHANGED orders /\ CreatedOrders = {}
      BY <2>2 DEF MoveIntoConfirming, OrderInv, OrderOK
    <3>2. work'[w].stage = "gate" /\ booking'.status = "booking_confirming"
      BY <1>1, <2>2, Leaves DEF MoveIntoConfirming, BookingRows
    <3> QED BY <1>4, <1>5, <3>1, <3>2 DEF OrderOK, BeforeConfirming
  <2>3. CASE HoldForManualReview(w)
    <3>1. UNCHANGED orders /\ CreatedOrders = {}
      BY <2>3 DEF HoldForManualReview, OrderInv, OrderOK
    <3>2. work'[w].stage = "idle"
      BY <1>1, <2>3, Leaves DEF HoldForManualReview
    <3> QED BY <1>4, <1>5, <3>1, <3>2 DEF OrderOK
  <2>4. CASE CreateMockOrder(w) \/ CreateOrder(w)
    <3>1. PICK o \in OrderIds, s \in OrderStatuses \ {"cancelled"} :
             orders' = [orders EXCEPT ![o] = s] /\ Receive(w, o, s)
      BY <2>4, FinalizationAssumption DEF CreateMockOrder, CreateOrder, OrderStatuses,
                                          FinalizationAssumption
    <3>2. /\ CreatedOrders = {} /\ booking.status \notin BeforeConfirming
          /\ UNCHANGED booking
      BY <2>4 DEF CreateMockOrder, CreateOrder, OrderInv, OrderOK
    <3>3. \A p \in CreatedOrders' : p = o
      BY <1>1, <3>1, <3>2 DEF CreatedOrders
    <3>4. work'[w].stage = "record"
      BY <1>1, <3>1, Leaves
    <3> QED BY <3>2, <3>3, <3>4 DEF OrderInv, OneOrder, OrderOK, OneWorker
  <2>5. CASE CreateOrderAnswerLost(w)
    BY <2>5 DEF CreateOrderAnswerLost, NoOrderIsLost
  <2>6. CASE CreateOrderTransientError(w) \/ CreateOrderRejected(w) \/ FailedHook(w)
    <3>1. UNCHANGED <<orders, booking>> /\ work[w].stage # "record"
      BY <2>6 DEF CreateOrderTransientError, CreateOrderRejected, FailedHook
    <3>2. work'[w].stage \notin {"move", "gate"}
      BY <1>1, <2>6, Leaves DEF CreateOrderTransientError, CreateOrderRejected, FailedHook
    <3> QED BY <1>6, <3>1, <3>2
  <2>7. CASE RecordProviderOrder(w)
    <3>1. UNCHANGED orders /\ work[w].stage = "record" /\ OrderOK(work[w].stage)
      BY <2>7 DEF RecordProviderOrder, OrderInv
    <3>2. /\ booking'.order = work[w].order
          /\ booking'.status = StatusAfterRecord(booking.status, work[w].answer)
      BY <2>7 DEF RecordProviderOrder, RecordedBooking
    <3>3. booking'.order # NoOrder
      BY <1>1, <3>1, <3>2, FinalizationAssumption DEF TypeOK, FinalizationAssumption
    <3>4. /\ booking'.status # "booking_confirming"
          /\ booking.status \notin BeforeConfirming => booking'.status \notin BeforeConfirming
      BY <3>2 DEF StatusAfterRecord, TargetBookingStatus, BeforeConfirming
    <3>5. work'[w].stage \notin {"move", "gate"}
      BY <1>1, <2>7, Leaves DEF RecordProviderOrder
    <3> QED BY <1>4, <1>5, <3>1, <3>3, <3>4, <3>5 DEF OrderOK
  <2>8. CASE DispatchFollowUps(w) \/ FollowUpDispatchFails(w)
    <3>1. UNCHANGED <<orders, booking>> /\ work[w].stage # "record"
      BY <2>8 DEF DispatchFollowUps, FollowUpDispatchFails
    <3>2. work'[w].stage \in {"idle", "mark"}
      BY <1>1, <2>8, Leaves DEF DispatchFollowUps, FollowUpDispatchFails, Idle, At, TypeOK
    <3> QED BY <1>6, <3>1, <3>2
  <2>9. CASE MarkFinalizationFailed(w) \/ FailedHookMarks(w)
    <3>1. UNCHANGED orders /\ OrderOK(work[w].stage) /\ work[w].stage # "record"
      BY <2>9 DEF MarkFinalizationFailed, FailedHookMarks, MarkFailed, OrderInv
    <3>2. /\ booking'.order = booking.order
          /\ booking'.status \in {booking.status, "booking_failed"}
      BY <1>1, <2>9 DEF MarkFinalizationFailed, FailedHookMarks, MarkFailed,
                        StatusAfterFailure, BookingRows
    <3>3. work'[w].stage = "idle"
      BY <1>1, <2>9, Leaves DEF MarkFinalizationFailed, FailedHookMarks
    <3> QED BY <1>4, <1>5, <3>1, <3>2, <3>3 DEF OrderOK, BeforeConfirming
  <2> QED BY <1>8, <2>1, <2>2, <2>3, <2>4, <2>5, <2>6, <2>7, <2>8, <2>9 DEF ConfirmStep
<1>9. ASSUME NEW w \in Workers, TicketingStep(w)
      PROVE  OrderInv'
  <2>1. CASE StartTicketing(w) \/ RetrieveOrder(w) \/ RetrieveOrderError(w)
    <3>1. UNCHANGED <<orders, booking>> /\ work[w].stage # "record"
      BY <2>1 DEF StartTicketing, RetrieveOrder, RetrieveOrderError
    <3>2. work'[w].stage \notin {"move", "gate"}
      BY <1>1, <2>1, Leaves DEF StartTicketing, RetrieveOrder, RetrieveOrderError, TypeOK,
                                WorkerStates
    <3> QED BY <1>6, <3>1, <3>2
  <2>2. CASE RecordTicketing(w)
    <3>1. UNCHANGED orders /\ work[w].stage = "record_ticketing" /\ OrderOK(work[w].stage)
      BY <2>2 DEF RecordTicketing, OrderInv
    <3>2. /\ booking'.order = work[w].order
          /\ booking'.status = StatusAfterRecord(booking.status, work[w].answer)
      BY <2>2 DEF RecordTicketing, RecordedBooking
    <3>3. booking'.order # NoOrder
      BY <1>1, <3>1, <3>2, FinalizationAssumption DEF TypeOK, FinalizationAssumption
    <3>4. /\ booking'.status # "booking_confirming"
          /\ booking.status \notin BeforeConfirming => booking'.status \notin BeforeConfirming
      BY <3>2 DEF StatusAfterRecord, TargetBookingStatus, BeforeConfirming
    <3>5. work'[w].stage = "idle"
      BY <1>1, <2>2, Leaves DEF RecordTicketing
    <3> QED BY <1>4, <1>5, <3>1, <3>3, <3>4, <3>5 DEF OrderOK
  <2> QED BY <1>9, <2>1, <2>2 DEF TicketingStep
<1> QED BY <1>2, <1>3, <1>7, <1>8, <1>9 DEF Next

\* So they agree throughout.
LEMMA OrderInvariant ==
    ASSUME OneWorker, NoOrderIsLost
    PROVE  Spec => []OrderInv
<1>1. Init => OrderInv
  BY DEF Init, OrderInv, OneOrder, OrderOK, CreatedOrders, Idle, At
<1>2. IInv /\ OrderInv /\ [Next]_vars => OrderInv'
  BY OrderStep
<1> QED BY <1>1, <1>2, InductiveInvariant, PTL DEF Spec

\* Finalizing the booking again and again, by repeated webhooks, retries of the queue and
\* the operator's "Retry finalization", makes one order at most: what createOrder lacks, an
\* idempotency key, the check of the row makes up for while one worker reads it and lives.
THEOREM OneOrderWithOneWorker ==
    ASSUME OneWorker, NoOrderIsLost
    PROVE  Spec => []AtMostOneOrder
<1>1. OrderInv => AtMostOneOrder
  <2>1. CASE CreatedOrders = {}
    BY <2>1, FS_EmptySet DEF AtMostOneOrder
  <2>2. ASSUME OrderInv, NEW o \in CreatedOrders PROVE AtMostOneOrder
    <3>1. CreatedOrders = {o}
      BY <2>2 DEF OrderInv, OneOrder
    <3> QED BY <3>1, FS_Singleton DEF AtMostOneOrder
  <2> QED BY <2>1, <2>2
<1> QED BY <1>1, OrderInvariant, PTL
-----------------------------------------------------------------------------
(* While, moreover, no operator is at work: a ticketed booking has a ticket. *)

\* An answer that says ticketed is still true when it is recorded, and a mock order is
\* ticketed from the start.
TicketInv ==
    /\ TicketedIsBacked
    /\ Mock => \A o \in CreatedOrders : orders[o] = "ticketed"
    /\ \A w \in Workers :
          work[w].stage \in {"record", "record_ticketing"} /\ work[w].answer = "ticketed"
              => orders[work[w].order] = "ticketed"

\* A ticketed order stays ticketed, and a booking keeps its offer.
LEMMA TicketsStay ==
    ASSUME IInv, Next
    PROVE  /\ \A o \in OrderIds : orders[o] = "ticketed" => orders'[o] = "ticketed"
           /\ booking'.offer = booking.offer
<1>1. booking \in BookingRows /\ orders \in [OrderIds -> OrderStatuses \union {"absent"}]
  BY DEF IInv, TypeOK
<1>2. ASSUME NEW d \in Deliveries, WebhookStep(d)
      PROVE  UNCHANGED orders /\ booking'.offer = booking.offer
  BY <1>1, <1>2 DEF WebhookStep, CheckDuplicate, OpenWebhook, CommitWebhook, RollbackWebhook,
                    BookingRows
<1>3. ASSUME NEW a \in Operators, AdminStep(a)
      PROVE  UNCHANGED orders /\ booking'.offer = booking.offer
  BY <1>1, <1>3 DEF AdminStep, AdminLoad, AdminRetry, AdminRecordTicket, AdminMarkRefund,
                    BookingRows
<1>4. ASSUME NEW o \in OrderIds, ProviderProgress(o)
      PROVE  /\ \A p \in OrderIds : orders[p] = "ticketed" => orders'[p] = "ticketed"
             /\ UNCHANGED booking
  BY <1>1, <1>4 DEF ProviderProgress
<1>5. ASSUME NEW w \in Workers, (\E j \in Jobs : Pop(w, j)) \/ Crash(w) \/ CrashInHook(w)
      PROVE  UNCHANGED <<orders, booking>>
  BY <1>5 DEF Pop, Crash, CrashInHook
<1>6. ASSUME NEW w \in Workers, CreateMockOrder(w) \/ CreateOrder(w) \/ CreateOrderAnswerLost(w)
      PROVE  /\ \A p \in OrderIds : orders[p] = "ticketed" => orders'[p] = "ticketed"
             /\ UNCHANGED booking
  BY <1>1, <1>6 DEF CreateMockOrder, CreateOrder, CreateOrderAnswerLost
<1>7. ASSUME NEW w \in Workers, ConfirmStep(w),
             ~CreateMockOrder(w), ~CreateOrder(w), ~CreateOrderAnswerLost(w)
      PROVE  UNCHANGED orders /\ booking'.offer = booking.offer
  <2>1. CASE \/ MoveIntoConfirming(w) \/ HoldForManualReview(w)
             \/ MarkFinalizationFailed(w) \/ FailedHookMarks(w)
    BY <1>1, <2>1 DEF MoveIntoConfirming, HoldForManualReview, MarkFinalizationFailed,
                      FailedHookMarks, MarkFailed, BookingRows
  <2>2. CASE RecordProviderOrder(w)
    BY <2>2 DEF RecordProviderOrder, RecordedBooking
  <2>3. CASE \/ StartFinalization(w) \/ CreateOrderTransientError(w)
             \/ CreateOrderRejected(w) \/ DispatchFollowUps(w)
             \/ FollowUpDispatchFails(w) \/ FailedHook(w)
    BY <2>3 DEF StartFinalization, CreateOrderTransientError, CreateOrderRejected,
                DispatchFollowUps, FollowUpDispatchFails, FailedHook
  <2> QED BY <1>7, <2>1, <2>2, <2>3 DEF ConfirmStep
<1>8. ASSUME NEW w \in Workers, TicketingStep(w)
      PROVE  UNCHANGED orders /\ booking'.offer = booking.offer
  BY <1>1, <1>8 DEF TicketingStep, StartTicketing, RetrieveOrder, RetrieveOrderError,
                    RecordTicketing, RecordedBooking
<1> QED BY <1>2, <1>3, <1>4, <1>5, <1>6, <1>7, <1>8 DEF Next, SyncTick

\* Every step keeps what is said of tickets.
LEMMA TicketStep ==
    ASSUME OneWorker, NoOrderIsLost, NoOperator, IInv, IInv', OrderInv, TicketInv, [Next]_vars
    PROVE  TicketInv'
<1>1. /\ booking \in BookingRows /\ TypeOK /\ OneOrder
      /\ orders \in [OrderIds -> OrderStatuses \union {"absent"}]
      /\ booking.order # NoOrder => booking.order \in OrderIds
  BY DEF IInv, TypeOK, OrderInv, BookingRows
<1>2. CASE UNCHANGED vars
  BY <1>2 DEF vars, TicketInv, TicketedIsBacked, Mock, CreatedOrders
<1> SUFFICES ASSUME Next PROVE TicketInv'
  BY <1>2
<1>3. /\ \A o \in OrderIds : orders[o] = "ticketed" => orders'[o] = "ticketed"
      /\ booking'.offer = booking.offer
  BY TicketsStay
<1>4. ASSUME booking'.status = "ticketed" => booking.status = "ticketed",
             booking'.order = booking.order
      PROVE  TicketedIsBacked'
  BY <1>1, <1>3, <1>4 DEF TicketInv, TicketedIsBacked
<1>5. ASSUME CreatedOrders' = CreatedOrders
      PROVE  (Mock => \A o \in CreatedOrders : orders[o] = "ticketed")'
  BY <1>3, <1>5 DEF TicketInv, Mock, CreatedOrders
<1>6. ASSUME NEW w \in Workers, TicketedIsBacked', CreatedOrders' = CreatedOrders,
             work'[w].stage \notin {"record", "record_ticketing"}
      PROVE  TicketInv'
  BY <1>5, <1>6 DEF TicketInv, OneWorker
<1>7. UNCHANGED orders => CreatedOrders' = CreatedOrders
  BY DEF CreatedOrders
<1>8. CASE \/ \E d \in Deliveries : WebhookStep(d)
           \/ SyncTick
           \/ \E o \in OrderIds : ProviderProgress(o)
  <2>1. /\ UNCHANGED work /\ CreatedOrders' = CreatedOrders
        /\ booking'.order = booking.order
    BY <1>8, OthersKeepOrders
  <2>2. booking'.status = "ticketed" => booking.status = "ticketed"
    BY <1>1, <1>8 DEF WebhookStep, CheckDuplicate, OpenWebhook, CommitWebhook,
                      RollbackWebhook, StatusAfterPayment, BookingRows, SyncTick,
                      ProviderProgress
  <2>3. \A w \in Workers : work[w].stage \in {"record", "record_ticketing"}
                               => work[w].order \in OrderIds
    BY <1>1 DEF TypeOK
  <2> QED BY <1>3, <1>4, <1>5, <2>1, <2>2, <2>3 DEF TicketInv
<1>9. ASSUME NEW w \in Workers, (\E j \in Jobs : Pop(w, j)) \/ Crash(w) \/ CrashInHook(w)
      PROVE  TicketInv'
  <2>1. UNCHANGED <<orders, booking>>
    BY <1>9 DEF Pop, Crash, CrashInHook
  <2>2. work'[w].stage \notin {"record", "record_ticketing"}
    BY <1>1, <1>9, Leaves
  <2> QED BY <1>4, <1>6, <1>7, <2>1, <2>2
<1>10. ASSUME NEW w \in Workers, booking' = RecordedBooking(work[w].order, work[w].answer),
              work[w].stage \in {"record", "record_ticketing"}, UNCHANGED orders
       PROVE  TicketedIsBacked'
  <2>1. work[w].order \in OrderIds /\ work[w].order \in CreatedOrders
    BY <1>1, <1>10 DEF IInv, TypeOK, KnownOrdersExist, CreatedOrders
  <2>2. booking'.order = work[w].order /\ booking'.order # NoOrder
    BY <1>10, <2>1, FinalizationAssumption DEF RecordedBooking, FinalizationAssumption
  <2>3. booking'.status = "ticketed"
            => work[w].answer = "ticketed" \/ booking.status = "ticketed"
    BY <1>10 DEF RecordedBooking, StatusAfterRecord, TargetBookingStatus
  <2>4. CASE work[w].answer = "ticketed"
    BY <1>10, <2>2, <2>4 DEF TicketInv, TicketedIsBacked
  <2>5. CASE booking.status = "ticketed"
    <3>1. /\ booking.order \in OrderIds /\ booking.order \in CreatedOrders
          /\ orders[booking.order] = "ticketed"
      BY <1>1, <2>5 DEF TicketInv, TicketedIsBacked, CreatedOrders
    <3>2. booking.order = work[w].order
      BY <1>1, <2>1, <3>1 DEF OneOrder
    <3> QED BY <1>10, <2>2, <3>1, <3>2 DEF TicketedIsBacked
  <2> QED BY <2>3, <2>4, <2>5 DEF TicketedIsBacked
<1>11. ASSUME NEW w \in Workers, ConfirmStep(w)
       PROVE  TicketInv'
  <2>1. CASE CreateMockOrder(w) \/ CreateOrder(w)
    <3>1. PICK o \in OrderIds, s \in OrderStatuses \ {"cancelled"} :
             /\ orders' = [orders EXCEPT ![o] = s] /\ Receive(w, o, s)
             /\ Mock => s = "ticketed"
      BY <2>1, FinalizationAssumption DEF CreateMockOrder, CreateOrder, OrderStatuses,
                                          FinalizationAssumption
    <3>2. UNCHANGED booking /\ CreatedOrders = {}
      BY <2>1 DEF CreateMockOrder, CreateOrder, OrderInv, OrderOK
    <3>3. orders'[o] = s /\ \A p \in CreatedOrders' : p = o
      BY <1>1, <3>1, <3>2 DEF CreatedOrders
    <3>4. work'[w].order = o /\ work'[w].answer = s
      BY <1>1, <3>1, Leaves
    <3>5. TicketedIsBacked'
      BY <1>4, <3>2
    <3> QED BY <3>1, <3>2, <3>3, <3>4, <3>5 DEF TicketInv, Mock, OneWorker
  <2>2. CASE CreateOrderAnswerLost(w)
    BY <2>2 DEF CreateOrderAnswerLost, NoOrderIsLost
  <2>3. CASE RecordProviderOrder(w)
    <3>1. TicketedIsBacked' /\ UNCHANGED orders
      BY <1>10, <2>3 DEF RecordProviderOrder
    <3>2. work'[w].stage \notin {"record", "record_ticketing"}
      BY <1>1, <2>3, Leaves DEF RecordProviderOrder
    <3> QED BY <1>6, <1>7, <3>1, <3>2
  <2>4. CASE \/ StartFinalization(w) \/ CreateOrderTransientError(w)
             \/ CreateOrderRejected(w) \/ FollowUpDispatchFails(w) \/ FailedHook(w)
             \/ DispatchFollowUps(w)
    <3>1. UNCHANGED <<orders, booking>>
      BY <2>4 DEF StartFinalization, CreateOrderTransientError, CreateOrderRejected,
                  FollowUpDispatchFails, FailedHook, DispatchFollowUps
    <3>2. work'[w].stage \notin {"record", "record_ticketing"}
      BY <1>1, <2>4, Leaves
         DEF StartFinalization, CreateOrderTransientError, CreateOrderRejected,
             FollowUpDispatchFails, FailedHook, DispatchFollowUps, Idle, At, TypeOK
    <3> QED BY <1>4, <1>6, <1>7, <3>1, <3>2
  <2>5. CASE \/ MoveIntoConfirming(w) \/ HoldForManualReview(w)
             \/ MarkFinalizationFailed(w) \/ FailedHookMarks(w)
    <3>1. /\ UNCHANGED orders /\ booking'.order = booking.order
          /\ booking'.status = "ticketed" => booking.status = "ticketed"
      BY <1>1, <2>5 DEF MoveIntoConfirming, HoldForManualReview, StatusAfterHold,
                        MarkFinalizationFailed, FailedHookMarks, MarkFailed,
                        StatusAfterFailure, BookingRows
    <3>2. work'[w].stage \notin {"record", "record_ticketing"}
      BY <1>1, <2>5, Leaves DEF MoveIntoConfirming, HoldForManualReview,
                                MarkFinalizationFailed, FailedHookMarks
    <3> QED BY <1>4, <1>6, <1>7, <3>1, <3>2
  <2> QED BY <1>11, <2>1, <2>2, <2>3, <2>4, <2>5 DEF ConfirmStep
<1>12. ASSUME NEW w \in Workers, TicketingStep(w)
       PROVE  TicketInv'
  <2>1. CASE StartTicketing(w) \/ RetrieveOrderError(w)
    <3>1. UNCHANGED <<orders, booking>>
      BY <2>1 DEF StartTicketing, RetrieveOrderError
    <3>2. work'[w].stage \notin {"record", "record_ticketing"}
      BY <1>1, <2>1, Leaves DEF StartTicketing, RetrieveOrderError, TypeOK, WorkerStates
    <3> QED BY <1>4, <1>6, <1>7, <3>1, <3>2
  <2>2. CASE RetrieveOrder(w)
    <3>1. /\ UNCHANGED <<orders, booking>>
          /\ work[w].order \in OrderIds /\ work[w].order \in CreatedOrders
      BY <1>1, <2>2 DEF RetrieveOrder, IInv, TypeOK, KnownOrdersExist, CreatedOrders
    <3>2. /\ work'[w].order = work[w].order
          /\ work'[w].answer = IF Mock THEN "ticketed" ELSE orders[work[w].order]
      BY <1>1, <2>2 DEF RetrieveOrder, TypeOK, WorkerStates
    <3>3. work'[w].answer = "ticketed" => orders[work[w].order] = "ticketed"
      BY <3>1, <3>2 DEF TicketInv
    <3> QED BY <1>4, <1>5, <1>7, <3>1, <3>2, <3>3 DEF TicketInv, OneWorker
  <2>3. CASE RecordTicketing(w)
    <3>1. TicketedIsBacked' /\ UNCHANGED orders
      BY <1>10, <2>3 DEF RecordTicketing
    <3>2. work'[w].stage \notin {"record", "record_ticketing"}
      BY <1>1, <2>3, Leaves DEF RecordTicketing
    <3> QED BY <1>6, <1>7, <3>1, <3>2
  <2> QED BY <1>12, <2>1, <2>2, <2>3 DEF TicketingStep
<1> QED BY <1>8, <1>9, <1>11, <1>12 DEF Next, NoOperator

\* A booking is shown as ticketed only if the provider has ticketed the order that the row
\* names, although answers are recorded some time after they were given.
THEOREM TicketedIsTicketed ==
    ASSUME OneWorker, NoOrderIsLost, NoOperator
    PROVE  Spec => []TicketedIsBacked
<1>1. Init => TicketInv
  BY DEF Init, TicketInv, TicketedIsBacked, CreatedOrders, Idle, At
<1>2. IInv /\ IInv' /\ OrderInv /\ TicketInv /\ [Next]_vars => TicketInv'
  BY TicketStep
<1>3. TicketInv => TicketedIsBacked
  BY DEF TicketInv
<1> QED BY <1>1, <1>2, <1>3, InductiveInvariant, OrderInvariant, PTL DEF Spec
-----------------------------------------------------------------------------
(* While, instead, the queue accepts every dispatch: a failed booking has   *)
(* no order.                                                                *)

QueueStaysUp == "queue_down" \notin Faults

\* A job that is ready has a try left, and RetryTicketingJobs alone poll orders.
JobInv ==
    /\ \A j \in Jobs : queue[j] = "ready" => attempts[j] < Tries
    /\ \A w \in Workers :
          work[w].stage \in {"start_ticketing", "retrieve", "record_ticketing"}
              => work[w].job \notin ConfirmJobs

\* Neither depends on what the jobs do to the booking.
LEMMA JobStep ==
    ASSUME NoOrderIsLost, IInv, JobInv, [Next]_vars
    PROVE  JobInv'
<1> DEFINE Ready == \A j \in Jobs : queue[j] = "ready" => attempts[j] < Tries
           Polls == \A w \in Workers :
                      work[w].stage \in {"start_ticketing", "retrieve", "record_ticketing"}
                          => work[w].job \notin ConfirmJobs
<1>1. /\ TypeOK
      /\ queue \in [Jobs -> JobStates] /\ attempts \in [Jobs -> Nat]
      /\ work \in [Workers -> WorkerStates] /\ Tries \in Nat \ {0}
  BY FinalizationAssumption DEF IInv, TypeOK, FinalizationAssumption
<1>2. UNCHANGED <<queue, attempts>> => Ready'
  BY DEF JobInv
<1>3. ASSUME NEW j, Dispatch(j) PROVE Ready'
  BY <1>1, <1>3 DEF JobInv, Dispatch
<1>4. ASSUME NEW w \in Workers, work[w].stage # "idle", Finish(w) \/ Throw(w) PROVE Ready'
  <2>1. work[w].job \in Jobs
    BY <1>1, <1>4 DEF TypeOK
  <2> QED BY <1>1, <1>4, <2>1 DEF JobInv, Finish, Throw
<1>5. UNCHANGED work => Polls'
  BY DEF JobInv
<1>6. ASSUME NEW w \in Workers, \A v \in Workers \ {w} : work'[v] = work[v],
             work'[w].stage \in {"start_ticketing", "retrieve", "record_ticketing"}
                 => work'[w].job \notin ConfirmJobs
      PROVE  Polls'
  BY <1>6 DEF JobInv
<1>7. CASE UNCHANGED vars
  BY <1>2, <1>5, <1>7 DEF vars, JobInv
<1>8. ASSUME NEW d \in Deliveries, WebhookStep(d) PROVE JobInv'
  <2>1. UNCHANGED work
    BY <1>8 DEF WebhookStep, CheckDuplicate, OpenWebhook, CommitWebhook, RollbackWebhook
  <2>2. UNCHANGED <<queue, attempts>> \/ \E j \in ConfirmJobs : Dispatch(j)
    BY <1>8 DEF WebhookStep, CheckDuplicate, OpenWebhook, CommitWebhook, RollbackWebhook
  <2> QED BY <1>2, <1>3, <1>5, <2>1, <2>2 DEF JobInv
<1>9. ASSUME NEW a \in Operators, AdminStep(a) PROVE JobInv'
  <2>1. UNCHANGED work
    BY <1>9 DEF AdminStep, AdminLoad, AdminRetry, AdminRecordTicket, AdminMarkRefund
  <2>2. UNCHANGED <<queue, attempts>> \/ \E j : Dispatch(j)
    BY <1>9 DEF AdminStep, AdminLoad, AdminRetry, AdminRecordTicket, AdminMarkRefund
  <2> QED BY <1>2, <1>3, <1>5, <2>1, <2>2 DEF JobInv
<1>10. ASSUME SyncTick \/ \E o \in OrderIds : ProviderProgress(o) PROVE JobInv'
  BY <1>2, <1>3, <1>5, <1>10 DEF SyncTick, ProviderProgress, JobInv
<1>11. ASSUME NEW w \in Workers, NEW j \in Jobs, Pop(w, j) PROVE JobInv'
  <2>1. Ready'
    BY <1>1, <1>11 DEF Pop, JobInv
  <2>2. Polls'
    BY <1>1, <1>6, <1>11, Leaves DEF Pop
  <2> QED BY <2>1, <2>2 DEF JobInv
<1>12. ASSUME NEW w \in Workers, Crash(w) \/ CrashInHook(w) PROVE JobInv'
  <2>1. CrashInHook(w)
    BY <1>12 DEF Crash, NoOrderIsLost
  <2> QED BY <1>1, <1>2, <1>6, <2>1 DEF CrashInHook, JobInv, Idle, At
<1>13. ASSUME NEW w \in Workers, ConfirmStep(w) PROVE JobInv'
  <2>1. CASE Finish(w) \/ Throw(w)
    <3>1. Polls'
      BY <1>1, <1>6, <2>1, Leaves DEF Finish, Throw
    <3>2. work[w].stage # "idle"
      BY <1>13 DEF ConfirmStep, StartFinalization, MoveIntoConfirming, HoldForManualReview,
                   CreateMockOrder, CreateOrder, CreateOrderAnswerLost,
                   CreateOrderTransientError, CreateOrderRejected, RecordProviderOrder,
                   DispatchFollowUps, FollowUpDispatchFails, MarkFinalizationFailed,
                   FailedHook, FailedHookMarks
    <3> QED BY <1>4, <2>1, <3>1, <3>2 DEF JobInv
  <2>2. ASSUME NEW s \in {"move", "gate", "mark", "hook_mark", "follow_up", "follow_up_sync"},
               Goto(w, s)
        PROVE  JobInv'
    <3>1. Polls'
      BY <1>1, <1>6, <2>2, Leaves DEF Goto
    <3> QED BY <1>2, <2>2, <3>1 DEF JobInv, Goto
  <2>3. ASSUME NEW o, NEW s, Receive(w, o, s) PROVE JobInv'
    <3>1. Polls'
      BY <1>1, <1>6, <2>3, Leaves DEF Receive
    <3> QED BY <1>2, <2>3, <3>1 DEF JobInv, Receive
  <2>4. CASE DispatchFollowUps(w) /\ ~Finish(w)
    <3>1. PICK j \in FreeTicketJobs :
             /\ queue' = [queue EXCEPT ![work[w].job] = "gone", ![j] = "ready"]
             /\ attempts' = [attempts EXCEPT ![j] = 0]
             /\ work' = [work EXCEPT ![w] = Idle]
      BY <2>4 DEF DispatchFollowUps
    <3>2. Ready'
      BY <1>1, <3>1 DEF JobInv
    <3>3. Polls'
      BY <1>1, <1>6, <3>1 DEF Idle, At
    <3> QED BY <3>2, <3>3 DEF JobInv
  <2> QED BY <1>13, <2>1, <2>2, <2>3, <2>4
          DEF ConfirmStep, StartFinalization, MoveIntoConfirming, HoldForManualReview,
              CreateMockOrder, CreateOrder, CreateOrderAnswerLost,
              CreateOrderTransientError, CreateOrderRejected, RecordProviderOrder,
              FollowUpDispatchFails, MarkFinalizationFailed, FailedHook, FailedHookMarks
<1>14. ASSUME NEW w \in Workers, TicketingStep(w) PROVE JobInv'
  <2>1. CASE Finish(w) \/ Throw(w)
    <3>1. Polls'
      BY <1>1, <1>6, <2>1, Leaves DEF Finish, Throw
    <3>2. work[w].stage # "idle"
      BY <1>14 DEF TicketingStep, StartTicketing, RetrieveOrder, RetrieveOrderError,
                   RecordTicketing
    <3> QED BY <1>4, <2>1, <3>1, <3>2 DEF JobInv
  <2>2. CASE ~Finish(w) /\ ~Throw(w)
    <3>1. /\ UNCHANGED <<queue, attempts>>
          /\ \A v \in Workers \ {w} : work'[v] = work[v]
          /\ work'[w].job = work[w].job
          /\ work[w].stage \in {"start_ticketing", "retrieve", "record_ticketing"}
      BY <1>1, <1>14, <2>2 DEF TicketingStep, StartTicketing, RetrieveOrder,
                               RetrieveOrderError, RecordTicketing, WorkerStates
    <3>2. Polls'
      BY <1>6, <3>1 DEF JobInv
    <3> QED BY <1>2, <3>1, <3>2 DEF JobInv
  <2> QED BY <2>1, <2>2
<1> QED BY <1>7, <1>8, <1>9, <1>10, <1>11, <1>12, <1>13, <1>14 DEF Next
\* The worker does not come to give up a booking that has an order.
GivesUpOK(stage) ==
    /\ stage \in {"mark", "hook_mark"} => CreatedOrders = {}
    /\ stage = "hook" /\ CreatedOrders # {} => ~FailedHookApplies(booking.status)

GivenUpInv ==
    FailedBookingHasNoOrder /\ \A w \in Workers : GivesUpOK(work[w].stage)

\* Every step keeps given-up bookings without an order.
LEMMA GivenUpStep ==
    ASSUME OneWorker, NoOrderIsLost, QueueStaysUp, IInv, LivingInv, OrderInv, JobInv,
           GivenUpInv, [Next]_vars
    PROVE  GivenUpInv'
<1>1. /\ booking \in BookingRows /\ TypeOK
      /\ orders \in [OrderIds -> OrderStatuses \union {"absent"}]
  BY DEF IInv, TypeOK
<1>2. CASE UNCHANGED vars
  BY <1>2 DEF vars, GivenUpInv, FailedBookingHasNoOrder, GivesUpOK, CreatedOrders
<1>3. UNCHANGED orders => CreatedOrders' = CreatedOrders
  BY DEF CreatedOrders
<1>4. CASE \/ \E d \in Deliveries : WebhookStep(d)
           \/ SyncTick
           \/ \E a \in Operators : AdminStep(a)
           \/ \E o \in OrderIds : ProviderProgress(o)
  <2>1. /\ UNCHANGED work /\ CreatedOrders' = CreatedOrders
        /\ \/ booking'.status \in {booking.status, "ticketed", "refund_pending"}
           \/ booking.status = "payment_pending" /\ booking'.status = "payment_succeeded"
    BY <1>4, OthersKeepOrders
  <2> QED BY <2>1 DEF GivenUpInv, FailedBookingHasNoOrder, GivesUpOK, FailedHookApplies
<1>5. ASSUME NEW w \in Workers, UNCHANGED orders,
             CreatedOrders # {} /\ booking'.status = "booking_failed"
                 => booking.status = "booking_failed",
             \/ CreatedOrders = {}
             \/ work'[w].stage \notin {"mark", "hook", "hook_mark"}
      PROVE  GivenUpInv'
  BY <1>3, <1>5 DEF GivenUpInv, FailedBookingHasNoOrder, GivesUpOK, OneWorker
<1>6. ASSUME NEW w \in Workers, (\E j \in Jobs : Pop(w, j)) \/ Crash(w) \/ CrashInHook(w)
      PROVE  GivenUpInv'
  <2>1. UNCHANGED <<orders, booking>>
    BY <1>6 DEF Pop, Crash, CrashInHook
  <2>2. work'[w].stage \notin {"mark", "hook", "hook_mark"}
    <3>1. ASSUME NEW j \in Jobs, Pop(w, j) PROVE work'[w].stage # "hook"
      BY <1>1, <3>1, Leaves DEF Pop, JobInv
    <3> QED BY <1>1, <1>6, <3>1, Leaves
  <2> QED BY <1>5, <2>1, <2>2
<1>7. ASSUME NEW w \in Workers, ConfirmStep(w)
      PROVE  GivenUpInv'
  <2>1. CASE StartFinalization(w)
    <3>1. UNCHANGED <<orders, booking>> /\ OrderOK("start")
      BY <2>1 DEF StartFinalization, OrderInv
    <3>2. CASE Finish(w) \/ Goto(w, "move") \/ Goto(w, "gate")
      BY <1>1, <1>5, <3>1, <3>2, Leaves
    <3>3. CASE ~HasOrderAlready /\ Throw(w)
      <4>1. CreatedOrders # {} => ~FailedHookApplies(booking.status)
        BY <3>1, <3>3 DEF OrderOK, HasOrderAlready, FailedHookApplies
      <4>2. work'[w].stage \in {"idle", "hook"}
        BY <1>1, <3>3, Leaves
      <4> QED BY <1>3, <3>1, <4>1, <4>2
              DEF GivenUpInv, FailedBookingHasNoOrder, GivesUpOK, OneWorker
    <3> QED BY <2>1, <3>2, <3>3 DEF StartFinalization
  <2>2. CASE \/ MoveIntoConfirming(w) \/ HoldForManualReview(w)
             \/ CreateOrderTransientError(w) \/ CreateOrderRejected(w)
    <3>1. UNCHANGED orders /\ CreatedOrders = {}
      BY <2>2 DEF MoveIntoConfirming, HoldForManualReview, CreateOrderTransientError,
                  CreateOrderRejected, OrderInv, OrderOK
    <3> QED BY <1>5, <3>1
  <2>3. CASE CreateMockOrder(w) \/ CreateOrder(w)
    <3>1. UNCHANGED booking /\ booking.status # "booking_failed"
      BY <2>3 DEF CreateMockOrder, CreateOrder, LivingInv, WorksOnLiving, AtWork
    <3>2. work'[w].stage = "record"
      BY <1>1, <2>3, Leaves DEF CreateMockOrder, CreateOrder
    <3> QED BY <3>1, <3>2 DEF GivenUpInv, FailedBookingHasNoOrder, GivesUpOK, OneWorker
  <2>4. CASE CreateOrderAnswerLost(w) \/ FollowUpDispatchFails(w)
    BY <2>4 DEF CreateOrderAnswerLost, NoOrderIsLost, FollowUpDispatchFails, QueueStaysUp
  <2>5. CASE RecordProviderOrder(w)
    <3>1. /\ UNCHANGED orders
          /\ booking'.status = StatusAfterRecord(booking.status, work[w].answer)
      BY <2>5 DEF RecordProviderOrder, RecordedBooking
    <3>2. booking'.status = "booking_failed" => booking.status = "booking_failed"
      BY <3>1 DEF StatusAfterRecord, TargetBookingStatus
    <3>3. work'[w].stage \in {"follow_up", "follow_up_sync"}
      BY <1>1, <2>5, Leaves DEF RecordProviderOrder
    <3> QED BY <1>5, <3>1, <3>2, <3>3
  <2>6. CASE DispatchFollowUps(w)
    <3>1. UNCHANGED <<orders, booking>> /\ work'[w].stage = "idle"
      BY <1>1, <2>6, Leaves DEF DispatchFollowUps, Idle, At, TypeOK
    <3> QED BY <1>5, <3>1
  <2>7. CASE MarkFinalizationFailed(w) \/ FailedHookMarks(w)
    <3>1. UNCHANGED orders /\ CreatedOrders = {}
      BY <2>7 DEF MarkFinalizationFailed, FailedHookMarks, MarkFailed, GivenUpInv, GivesUpOK
    <3> QED BY <1>5, <3>1
  <2>8. CASE FailedHook(w)
    <3>1. UNCHANGED <<orders, booking>> /\ GivesUpOK("hook")
      BY <2>8 DEF FailedHook, GivenUpInv
    <3>2. CASE FailedHookApplies(booking.status)
      BY <1>5, <3>1, <3>2 DEF GivesUpOK
    <3>3. CASE Finish(w)
      BY <1>1, <1>5, <3>1, <3>3, Leaves
    <3> QED BY <2>8, <3>2, <3>3 DEF FailedHook
  <2> QED BY <1>7, <2>1, <2>2, <2>3, <2>4, <2>5, <2>6, <2>7, <2>8 DEF ConfirmStep
<1>8. ASSUME NEW w \in Workers, TicketingStep(w)
      PROVE  GivenUpInv'
  <2>1. CASE StartTicketing(w) \/ RetrieveOrder(w) \/ RetrieveOrderError(w)
    <3>1. /\ UNCHANGED <<orders, booking>>
          /\ work[w].stage \in {"start_ticketing", "retrieve"}
      BY <2>1 DEF StartTicketing, RetrieveOrder, RetrieveOrderError
    <3>2. work[w].job \notin ConfirmJobs
      BY <3>1 DEF JobInv
    <3>3. work'[w].stage \notin {"mark", "hook", "hook_mark"}
      BY <1>1, <2>1, <3>2, Leaves DEF StartTicketing, RetrieveOrder, RetrieveOrderError,
                                      TypeOK, WorkerStates
    <3> QED BY <1>5, <3>1, <3>3
  <2>2. CASE RecordTicketing(w)
    <3>1. /\ UNCHANGED orders
          /\ booking'.status = StatusAfterRecord(booking.status, work[w].answer)
      BY <2>2 DEF RecordTicketing, RecordedBooking
    <3>2. booking'.status = "booking_failed" => booking.status = "booking_failed"
      BY <3>1 DEF StatusAfterRecord, TargetBookingStatus
    <3>3. work'[w].stage = "idle"
      BY <1>1, <2>2, Leaves DEF RecordTicketing
    <3> QED BY <1>5, <3>1, <3>2, <3>3
  <2> QED BY <1>8, <2>1, <2>2 DEF TicketingStep
<1> QED BY <1>2, <1>4, <1>6, <1>7, <1>8 DEF Next

\* A booking the system gives up on has no order at the provider, so that it may be
\* refunded: a failed attempt of a job finds either nothing ordered or an order recorded.
THEOREM NothingOrderedForFailed ==
    ASSUME OneWorker, NoOrderIsLost, QueueStaysUp
    PROVE  Spec => []FailedBookingHasNoOrder
<1>1. Init => LivingInv /\ JobInv /\ GivenUpInv
  BY DEF Init, LivingInv, WorksOnLiving, FailedBookingHasReason, JobInv, GivenUpInv,
         FailedBookingHasNoOrder, GivesUpOK, Idle, At
<1>2. IInv /\ LivingInv /\ [Next]_vars => LivingInv'
  BY LivingStep
<1>3. IInv /\ JobInv /\ [Next]_vars => JobInv'
  BY JobStep
<1>4. IInv /\ LivingInv /\ OrderInv /\ JobInv /\ GivenUpInv /\ [Next]_vars => GivenUpInv'
  BY GivenUpStep
<1>5. GivenUpInv => FailedBookingHasNoOrder
  BY DEF GivenUpInv
<1> QED BY <1>1, <1>2, <1>3, <1>4, <1>5, InductiveInvariant, OrderInvariant, PTL DEF Spec

-----------------------------------------------------------------------------
(* With every fault, and no operator at work: the customer's timeline.      *)

\* The timeline never loses a step, whatever jobs, retries, crashes and webhooks do: the
\* order of its steps agrees with the transition table, and the worker keeps to the table.
THEOREM TimelineOnlyGrows ==
    ASSUME OneWorker, NoOperator
    PROVE  Spec => TimelineNeverShrinks
<1> DEFINE A == Marked(StatusStep(booking.status)) \subseteq Marked(StatusStep(booking'.status))
<1>1. Init => MoveIsFresh
  BY DEF Init, MoveIsFresh, Idle, At
<1>2. IInv /\ MoveIsFresh /\ [Next]_vars => MoveIsFresh'
  BY FreshStep
<1>3. IInv /\ MoveIsFresh /\ [Next]_vars => [A]_vars
  <2> SUFFICES ASSUME IInv, MoveIsFresh, [Next]_vars PROVE A
    OBVIOUS
  <2>1. [Lifecycle!Next]_(booking.status)
    BY StrictStep
  <2>2. CASE UNCHANGED booking.status
    BY <2>2
  <2>3. CASE Lifecycle!Next
    <3>1. StatusStep(booking.status) <= StatusStep(booking'.status)
      BY <2>3 DEF Lifecycle!Next, Lifecycle!Transition, Lifecycle!ConfirmAndTicket,
                  Lifecycle!CanTransitionBooking, Lifecycle!BookingTransitions, StatusStep
    <3>2. StatusStep(booking.status) \in Nat /\ StatusStep(booking'.status) \in Nat
      BY DEF StatusStep
    <3> QED BY <3>1, <3>2 DEF Marked, Steps
  <2> QED BY <2>1, <2>2, <2>3
<1> QED BY <1>1, <1>2, <1>3, InductiveInvariant, PTL DEF Spec, TimelineNeverShrinks
=============================================================================

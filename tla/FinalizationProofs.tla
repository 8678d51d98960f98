------------------------- MODULE FinalizationProofs -------------------------
(***************************************************************************)
(* Proofs about Finalization, for any number of workers, jobs, deliveries, *)
(* operators and orders, any Tries and every combination of faults.        *)
(***************************************************************************)
EXTENDS Finalization, TLAPS

-----------------------------------------------------------------------------
(* The inductive invariant.                                                 *)

\* An order id that the booking row or a worker's answer holds is the id of an
\* order the provider has created.
KnownOrdersExist ==
    /\ booking.order # NoOrder => orders[booking.order] # "absent"
    /\ \A w \in Workers :
         work[w].stage \in {"record", "retrieve", "record_ticketing"}
             => orders[work[w].order] # "absent"

\* A worker gets as far as the provider only with a paid booking.
WorkIsPaid == \A w \in Workers : work[w].stage \in {"move", "gate"} => paid

IInv == TypeOK /\ KnownOrdersExist /\ WorkIsPaid /\ OrdersOnlyForPaidBookings

LEMMA InitInv == Init => IInv
<1> SUFFICES ASSUME Init PROVE IInv
  OBVIOUS
<1>1. TypeOK
  BY DEF Init, TypeOK, Idle, At, BookingRows, WorkerStates, JobStates,
         FinalizationStatuses, Stages, OrderStatuses
<1>2. KnownOrdersExist /\ WorkIsPaid /\ OrdersOnlyForPaidBookings
  BY DEF Init, KnownOrdersExist, WorkIsPaid, OrdersOnlyForPaidBookings,
         CreatedOrders, Idle, At
<1>3. QED
  BY <1>1, <1>2 DEF IInv

-----------------------------------------------------------------------------
(* One lemma per action, first those that leave the worker's locals alone.  *)

LEMMA WebhookInv ==
    ASSUME IInv, NEW d \in Deliveries, WebhookStep(d)
    PROVE  IInv'
<1> USE DEF IInv, TypeOK, KnownOrdersExist, WorkIsPaid, OrdersOnlyForPaidBookings,
            CreatedOrders
<1>1. CASE CheckDuplicate(d)
  BY <1>1 DEF CheckDuplicate
<1>2. ASSUME NEW j \in ConfirmJobs, OpenWebhook(d, j)
      PROVE  IInv'
  BY <1>2 DEF OpenWebhook, Dispatch, Jobs, JobStates
<1>3. CASE CommitWebhook(d)
  BY <1>3 DEF CommitWebhook, StatusAfterPayment, BookingRows, FinalizationStatuses
<1>4. CASE RollbackWebhook(d)
  BY <1>4 DEF RollbackWebhook
<1>5. QED
  BY <1>1, <1>2, <1>3, <1>4 DEF WebhookStep

LEMMA OperatorInv ==
    ASSUME IInv, NEW a \in Operators, AdminStep(a)
    PROVE  IInv'
<1> USE DEF IInv, TypeOK, KnownOrdersExist, WorkIsPaid, OrdersOnlyForPaidBookings,
            CreatedOrders
<1>1. CASE AdminLoad(a)
  BY <1>1 DEF AdminLoad, BookingRows
<1>2. CASE AdminRetry(a)
  BY <1>2 DEF AdminRetry, AdminDone, Dispatch, Jobs, JobStates
<1>3. CASE AdminRecordTicket(a)
  BY <1>3 DEF AdminRecordTicket, AdminDone, BookingRows, FinalizationStatuses
<1>4. CASE AdminMarkRefund(a)
  BY <1>4 DEF AdminMarkRefund, AdminDone, BookingRows, FinalizationStatuses
<1>5. QED
  BY <1>1, <1>2, <1>3, <1>4 DEF AdminStep

LEMMA SyncInv ==
    ASSUME IInv, SyncTick
    PROVE  IInv'
BY DEF IInv, TypeOK, KnownOrdersExist, WorkIsPaid, OrdersOnlyForPaidBookings,
       CreatedOrders, SyncTick, FreeTicketJobs, Dispatch, Jobs, JobStates

LEMMA ProviderInv ==
    ASSUME IInv, NEW o \in OrderIds, ProviderProgress(o)
    PROVE  IInv'
<1>1. orders' \in [OrderIds -> OrderStatuses \union {"absent"}]
  BY DEF IInv, TypeOK, ProviderProgress, OrderStatuses
<1>2. \A p \in OrderIds : orders'[p] # "absent" <=> orders[p] # "absent"
  BY DEF IInv, TypeOK, ProviderProgress
<1>3. QED
  BY <1>1, <1>2 DEF IInv, TypeOK, KnownOrdersExist, WorkIsPaid, BookingRows,
     OrdersOnlyForPaidBookings, CreatedOrders, ProviderProgress

LEMMA PopInv ==
    ASSUME IInv, NEW w \in Workers, NEW j \in Jobs, Pop(w, j)
    PROVE  IInv'
<1> USE DEF IInv, TypeOK, Pop
<1>1. /\ queue' \in [Jobs -> JobStates]
      /\ attempts' \in [Jobs -> Nat]
  BY DEF JobStates
<1>2. /\ work' \in [Workers -> WorkerStates]
      /\ \A v \in Workers : v # w => work'[v] = work[v]
      /\ work'[w].stage \in {"idle", "start", "start_ticketing", "hook"}
      /\ work'[w].stage # "idle" => work'[w].job = j
  <2>1. CASE attempts[j] < Tries /\ j \in ConfirmJobs
    BY <2>1 DEF WorkerStates, Stages, OrderStatuses, Idle, At
  <2>2. CASE attempts[j] < Tries /\ j \notin ConfirmJobs
    BY <2>2 DEF WorkerStates, Stages, OrderStatuses, Idle, At
  <2>3. CASE ~(attempts[j] < Tries) /\ j \in ConfirmJobs
    BY <2>3 DEF WorkerStates, Stages, OrderStatuses, Idle, At
  <2>4. CASE ~(attempts[j] < Tries) /\ j \notin ConfirmJobs
    BY <2>4 DEF WorkerStates, Stages, OrderStatuses, Idle, At
  <2>5. QED
    BY <2>1, <2>2, <2>3, <2>4
<1>3. UNCHANGED <<booking, paid, webhook, orders, operator>>
  OBVIOUS
<1> HIDE DEF Pop
<1>4. QED
  BY <1>1, <1>2, <1>3 DEF KnownOrdersExist, WorkIsPaid, OrdersOnlyForPaidBookings,
     CreatedOrders

LEMMA CrashInv ==
    ASSUME IInv, NEW w \in Workers, Crash(w) \/ CrashInHook(w)
    PROVE  IInv'
<1> USE DEF IInv, TypeOK, Crash, CrashInHook
<1>1. queue' \in [Jobs -> JobStates]
  BY DEF JobStates
<1>2. work' = [work EXCEPT ![w] = Idle]
  OBVIOUS
<1>3. work' \in [Workers -> WorkerStates]
  BY <1>2 DEF WorkerStates, Stages, Idle, At, OrderStatuses
<1>4. QED
  BY <1>1, <1>2, <1>3 DEF Idle, At, KnownOrdersExist, WorkIsPaid,
     OrdersOnlyForPaidBookings, CreatedOrders

-----------------------------------------------------------------------------
(* A step of a worker inside a job.  What the step leaves behind in the     *)
(* queue and in the worker is well typed whichever helper ends the step.    *)

WorkMoves(w) ==
    /\ queue' \in [Jobs -> JobStates]
    /\ attempts' \in [Jobs -> Nat]
    /\ work' \in [Workers -> WorkerStates]
    /\ \A v \in Workers : v # w => work'[v] = work[v]

LEMMA FinishMoves ==
    ASSUME TypeOK, NEW w \in Workers, work[w].stage # "idle", Finish(w)
    PROVE  WorkMoves(w) /\ work'[w] = Idle
BY DEF TypeOK, Finish, Idle, At, WorkMoves, JobStates, WorkerStates, Stages,
       OrderStatuses

LEMMA GotoMoves ==
    ASSUME TypeOK, NEW w \in Workers, work[w].stage # "idle",
           NEW s \in Stages \ {"idle"}, Goto(w, s)
    PROVE  /\ WorkMoves(w)
           /\ work'[w] = [work[w] EXCEPT !.stage = s]
BY DEF TypeOK, Goto, WorkMoves, WorkerStates

LEMMA ThrowMoves ==
    ASSUME TypeOK, NEW w \in Workers, work[w].stage # "idle", Throw(w)
    PROVE  WorkMoves(w) /\ work'[w] \in {Idle, At("hook", work[w].job)}
<1>1. work[w].job \in Jobs
  BY DEF TypeOK
<1>2. QED
  BY <1>1 DEF TypeOK, Throw, Idle, At, WorkMoves, JobStates, WorkerStates, Stages,
     OrderStatuses

\* What a step of worker w has to establish, when it neither creates orders nor
\* writes the payment.
LEMMA WorkerFrame ==
    ASSUME IInv, NEW w \in Workers, WorkMoves(w),
           UNCHANGED <<paid, webhook, orders, operator>>,
           booking' \in BookingRows,
           booking'.order # NoOrder => orders[booking'.order] # "absent",
           work'[w].stage # "idle" => work'[w].job \in Jobs,
           work'[w].stage \in {"record", "retrieve", "record_ticketing"}
               => /\ work'[w].order \in OrderIds
                  /\ orders[work'[w].order] # "absent",
           work'[w].stage \in {"move", "gate"} => paid
    PROVE  IInv'
<1>1. TypeOK'
  BY DEF IInv, TypeOK, WorkMoves
<1>2. (KnownOrdersExist /\ WorkIsPaid /\ OrdersOnlyForPaidBookings)'
  BY DEF IInv, KnownOrdersExist, WorkIsPaid, OrdersOnlyForPaidBookings, CreatedOrders,
     WorkMoves
<1>3. QED
  BY <1>1, <1>2 DEF IInv

LEMMA RecordedType ==
    ASSUME TypeOK, NEW o \in OrderIds, NEW s \in OrderStatuses
    PROVE  RecordedBooking(o, s) \in BookingRows
BY DEF TypeOK, RecordedBooking, StatusAfterRecord, TargetBookingStatus,
       BookingRows, FinalizationStatuses, OrderStatuses

\* Ending the job or throwing out of it, with a booking row that is still good.
LEMMA EndInv ==
    ASSUME IInv, NEW w \in Workers, work[w].stage # "idle", Finish(w) \/ Throw(w),
           UNCHANGED <<paid, webhook, orders, operator>>,
           booking' \in BookingRows,
           booking'.order # NoOrder => orders[booking'.order] # "absent"
    PROVE  IInv'
<1>1. work[w].job \in Jobs /\ TypeOK
  BY DEF IInv, TypeOK
<1>2. /\ WorkMoves(w)
      /\ work'[w] \in {Idle, At("hook", work[w].job)}
  BY <1>1, FinishMoves, ThrowMoves
<1>3. /\ work'[w].stage \in {"idle", "hook"}
      /\ work'[w].stage = "hook" => work'[w].job = work[w].job
  BY <1>2 DEF Idle, At
<1>4. QED
  BY <1>1, <1>2, <1>3, WorkerFrame

\* Going on to a stage that holds no answer of the provider.
LEMMA GotoInv ==
    ASSUME IInv, NEW w \in Workers, work[w].stage # "idle",
           NEW s \in Stages \ {"idle", "record", "retrieve", "record_ticketing"},
           Goto(w, s), s \in {"move", "gate"} => paid,
           UNCHANGED <<paid, webhook, orders, operator>>,
           booking' \in BookingRows,
           booking'.order # NoOrder => orders[booking'.order] # "absent"
    PROVE  IInv'
<1>1. work[w].job \in Jobs /\ TypeOK /\ work[w] \in WorkerStates
  BY DEF IInv, TypeOK
<1>2. /\ WorkMoves(w)
      /\ work'[w] = [work[w] EXCEPT !.stage = s]
  BY <1>1, GotoMoves
<1>3. work'[w].stage = s /\ work'[w].job = work[w].job
  BY <1>1, <1>2 DEF WorkerStates
<1>4. QED
  BY <1>1, <1>2, <1>3, WorkerFrame

\* A provider answer is stored in the worker: order o exists by then.
LEMMA ReceiveInv ==
    ASSUME IInv, NEW w \in Workers, work[w].stage = "gate",
           NEW o \in OrderIds, NEW s \in OrderStatuses,
           orders' = [orders EXCEPT ![o] = s], Receive(w, o, s),
           UNCHANGED <<booking, paid, webhook, operator>>
    PROVE  IInv'
<1>1. paid
  BY DEF IInv, WorkIsPaid
<1>2. /\ orders' \in [OrderIds -> OrderStatuses \union {"absent"}]
      /\ \A p \in OrderIds : orders[p] # "absent" => orders'[p] # "absent"
      /\ orders'[o] # "absent"
  BY DEF IInv, TypeOK, OrderStatuses
<1>3. /\ work' \in [Workers -> WorkerStates]
      /\ \A v \in Workers : v # w => work'[v] = work[v]
      /\ work'[w].stage = "record" /\ work'[w].order = o
      /\ work'[w].job = work[w].job
  <2>1. work \in [Workers -> WorkerStates] /\ work[w] \in WorkerStates
    BY DEF IInv, TypeOK
  <2>2. work' = [work EXCEPT ![w] = [stage |-> "record", job |-> work[w].job,
                                     order |-> o, answer |-> s]]
    BY DEF Receive
  <2>3. QED
    BY <2>1, <2>2 DEF WorkerStates, Stages
<1>4. TypeOK'
  BY <1>2, <1>3 DEF IInv, TypeOK, Receive
<1>5. KnownOrdersExist'
  <2>1. booking.order # NoOrder => booking.order \in OrderIds
    BY DEF IInv, TypeOK, BookingRows
  <2>2. QED
    BY <1>2, <1>3, <2>1 DEF IInv, TypeOK, KnownOrdersExist
<1>6. QED
  BY <1>1, <1>3, <1>4, <1>5 DEF IInv, WorkIsPaid, OrdersOnlyForPaidBookings

LEMMA ConfirmStepInv ==
    ASSUME IInv, NEW w \in Workers, ConfirmStep(w)
    PROVE  IInv'
<1>1. /\ TypeOK /\ booking \in BookingRows
      /\ booking.order # NoOrder => orders[booking.order] # "absent"
      /\ work[w] \in WorkerStates
  BY DEF IInv, TypeOK, KnownOrdersExist
<1>2. CASE StartFinalization(w)
  <2>1. UNCHANGED <<booking, paid, webhook, orders, operator>> /\ work[w].stage # "idle"
    BY <1>2 DEF StartFinalization
  <2>2. CASE Finish(w) \/ Throw(w)
    BY <1>1, <2>1, <2>2, EndInv
  <2>3. CASE HasSucceededPayment /\ (Goto(w, "move") \/ Goto(w, "gate"))
    <3>1. "move" \in Stages \ {"idle", "record", "retrieve", "record_ticketing"}
      BY DEF Stages
    <3>2. "gate" \in Stages \ {"idle", "record", "retrieve", "record_ticketing"}
      BY DEF Stages
    <3>3. paid
      BY <2>3 DEF HasSucceededPayment
    <3>4. QED
      BY <1>1, <2>1, <2>3, <3>1, <3>2, <3>3, GotoInv
  <2>4. QED
    BY <1>2, <2>2, <2>3 DEF StartFinalization
<1>3. CASE MoveIntoConfirming(w)
  <2>1. paid /\ work[w].stage # "idle"
    BY <1>3 DEF MoveIntoConfirming, IInv, WorkIsPaid
  <2>2. "gate" \in Stages \ {"idle", "record", "retrieve", "record_ticketing"}
    BY DEF Stages
  <2>3. booking' \in BookingRows /\ booking'.order = booking.order
    BY <1>1, <1>3 DEF MoveIntoConfirming, BookingRows, FinalizationStatuses
  <2>4. QED
    BY <1>1, <1>3, <2>1, <2>2, <2>3, GotoInv DEF MoveIntoConfirming
<1>4. CASE HoldForManualReview(w)
  <2>1. booking' \in BookingRows /\ booking'.order = booking.order
    BY <1>1, <1>4 DEF HoldForManualReview, StatusAfterHold, BookingRows,
       FinalizationStatuses
  <2>2. QED
    BY <1>1, <1>4, <2>1, EndInv DEF HoldForManualReview
<1>5. CASE CreateMockOrder(w)
  <2>1. PICK o \in OrderIds : /\ orders' = [orders EXCEPT ![o] = "ticketed"]
                              /\ Receive(w, o, "ticketed")
    BY <1>5, FinalizationAssumption DEF CreateMockOrder, FinalizationAssumption
  <2>2. QED
    BY <1>5, <2>1, ReceiveInv DEF CreateMockOrder, OrderStatuses
<1>6. CASE CreateOrder(w)
  BY <1>6, ReceiveInv DEF CreateOrder
<1>7. CASE CreateOrderAnswerLost(w)
  \* the order exists at the provider, but the worker keeps nothing of it
  <2>1. paid /\ work[w].stage # "idle" /\ work[w].job \in Jobs
    BY <1>7 DEF CreateOrderAnswerLost, IInv, WorkIsPaid, TypeOK
  <2>2. /\ orders' \in [OrderIds -> OrderStatuses \union {"absent"}]
        /\ \A p \in OrderIds : orders[p] # "absent" => orders'[p] # "absent"
    BY <1>1, <1>7 DEF CreateOrderAnswerLost, TypeOK, OrderStatuses
  <2>3. /\ WorkMoves(w)
        /\ work'[w] \in {Idle, At("hook", work[w].job)}
    BY <1>1, <1>7, <2>1, ThrowMoves DEF CreateOrderAnswerLost
  <2>4. /\ work'[w].stage \in {"idle", "hook"}
        /\ work'[w].stage = "hook" => work'[w].job = work[w].job
    BY <2>3 DEF Idle, At
  <2>5. TypeOK'
    BY <1>1, <1>7, <2>1, <2>2, <2>3, <2>4 DEF CreateOrderAnswerLost, TypeOK, WorkMoves
  <2>6. KnownOrdersExist'
    <3>1. booking.order # NoOrder => booking.order \in OrderIds
      BY <1>1 DEF BookingRows
    <3>2. QED
      BY <1>1, <1>7, <2>2, <2>3, <2>4, <3>1
      DEF CreateOrderAnswerLost, IInv, TypeOK, KnownOrdersExist, WorkMoves
  <2>7. QED
    BY <1>7, <2>1, <2>3, <2>4, <2>5, <2>6
    DEF CreateOrderAnswerLost, IInv, WorkIsPaid, OrdersOnlyForPaidBookings, WorkMoves
<1>8. CASE CreateOrderTransientError(w)
  BY <1>1, <1>8, EndInv DEF CreateOrderTransientError
<1>9. CASE CreateOrderRejected(w) \/ FollowUpDispatchFails(w)
  <2>1. "mark" \in Stages \ {"idle", "record", "retrieve", "record_ticketing"}
    BY DEF Stages
  <2>2. QED
    BY <1>1, <1>9, <2>1, GotoInv DEF CreateOrderRejected, FollowUpDispatchFails
<1>10. CASE RecordProviderOrder(w)
  <2>1. /\ work[w].order \in OrderIds /\ work[w].answer \in OrderStatuses
        /\ orders[work[w].order] # "absent"
    BY <1>1, <1>10 DEF RecordProviderOrder, IInv, TypeOK, KnownOrdersExist, WorkerStates
  <2>2. booking' \in BookingRows /\ booking'.order = work[w].order
    BY <1>1, <1>10, <2>1, RecordedType DEF RecordProviderOrder, RecordedBooking
  <2>3. \A s \in {"follow_up", "follow_up_sync"} :
          s \in Stages \ {"idle", "record", "retrieve", "record_ticketing", "move", "gate"}
    BY DEF Stages
  <2>4. PICK s \in {"follow_up", "follow_up_sync"} : Goto(w, s)
    BY <1>10 DEF RecordProviderOrder
  <2>5. QED
    BY <1>10, <2>1, <2>2, <2>3, <2>4, GotoInv DEF RecordProviderOrder
<1>11. CASE DispatchFollowUps(w)
  <2>1. UNCHANGED <<booking, paid, webhook, orders, operator>> /\ work[w].stage # "idle"
    BY <1>11 DEF DispatchFollowUps
  <2>2. CASE Finish(w)
    BY <1>1, <2>1, <2>2, EndInv
  <2>3. ASSUME NEW j \in FreeTicketJobs,
               queue' = [queue EXCEPT ![work[w].job] = "gone", ![j] = "ready"],
               attempts' = [attempts EXCEPT ![j] = 0],
               work' = [work EXCEPT ![w] = Idle]
        PROVE  IInv'
    <3>1. WorkMoves(w) /\ work'[w] = Idle
      BY <1>1, <2>3 DEF WorkMoves, TypeOK, JobStates, WorkerStates, Idle, At, Stages,
         OrderStatuses, FreeTicketJobs, Jobs
    <3>2. work'[w].stage = "idle"
      BY <3>1 DEF Idle, At
    <3>3. QED
      BY <1>1, <2>1, <3>1, <3>2, WorkerFrame
  <2>4. QED
    BY <1>11, <2>2, <2>3 DEF DispatchFollowUps
<1>12. CASE MarkFinalizationFailed(w) \/ FailedHookMarks(w)
  <2>1. booking' \in BookingRows /\ booking'.order = booking.order
    BY <1>1, <1>12 DEF MarkFinalizationFailed, FailedHookMarks, MarkFailed,
       StatusAfterFailure, BookingRows, FinalizationStatuses
  <2>2. QED
    BY <1>1, <1>12, <2>1, EndInv DEF MarkFinalizationFailed, FailedHookMarks, MarkFailed
<1>13. CASE FailedHook(w)
  <2>1. "hook_mark" \in Stages \ {"idle", "record", "retrieve", "record_ticketing"}
    BY DEF Stages
  <2>2. CASE Finish(w)
    BY <1>1, <1>13, <2>2, EndInv DEF FailedHook
  <2>3. CASE Goto(w, "hook_mark")
    BY <1>1, <1>13, <2>1, <2>3, GotoInv DEF FailedHook
  <2>4. QED
    BY <1>13, <2>2, <2>3 DEF FailedHook
<1>14. QED
  BY <1>2, <1>3, <1>4, <1>5, <1>6, <1>7, <1>8, <1>9, <1>10, <1>11, <1>12, <1>13
  DEF ConfirmStep

LEMMA TicketingStepInv ==
    ASSUME IInv, NEW w \in Workers, TicketingStep(w)
    PROVE  IInv'
<1>1. /\ TypeOK /\ booking \in BookingRows
      /\ booking.order # NoOrder
            => booking.order \in OrderIds /\ orders[booking.order] # "absent"
      /\ work[w] \in WorkerStates
      /\ work[w].stage # "idle" => work[w].job \in Jobs
  BY DEF IInv, TypeOK, KnownOrdersExist, BookingRows
<1>2. CASE StartTicketing(w)
  <2>1. CASE Finish(w)
    BY <1>1, <1>2, <2>1, EndInv DEF StartTicketing
  <2>2. ASSUME AwaitsTicket(booking),
               work' = [work EXCEPT ![w].stage = "retrieve", ![w].order = booking.order],
               UNCHANGED <<queue, attempts>>
        PROVE  IInv'
    <3>1. booking.order \in OrderIds /\ orders[booking.order] # "absent"
      BY <1>1, <2>2 DEF AwaitsTicket
    <3>2. /\ WorkMoves(w)
          /\ work'[w].stage = "retrieve" /\ work'[w].order = booking.order
          /\ work'[w].job = work[w].job
      BY <1>1, <2>2, <3>1 DEF WorkMoves, TypeOK, WorkerStates, Stages
    <3>3. QED
      BY <1>1, <1>2, <3>1, <3>2, WorkerFrame DEF StartTicketing
  <2>3. QED
    BY <1>2, <2>1, <2>2 DEF StartTicketing
<1>3. CASE RetrieveOrder(w)
  <2>1. work[w].order \in OrderIds /\ orders[work[w].order] # "absent"
    BY <1>3 DEF RetrieveOrder, IInv, TypeOK, KnownOrdersExist
  <2>2. orders[work[w].order] \in OrderStatuses
    BY <1>1, <2>1 DEF TypeOK
  <2>3. /\ WorkMoves(w)
        /\ work'[w].stage = "record_ticketing" /\ work'[w].order = work[w].order
        /\ work'[w].job = work[w].job
    BY <1>1, <1>3, <2>1, <2>2
    DEF RetrieveOrder, WorkMoves, TypeOK, WorkerStates, Stages, OrderStatuses
  <2>4. QED
    BY <1>1, <1>3, <2>1, <2>3, WorkerFrame DEF RetrieveOrder
<1>4. CASE RetrieveOrderError(w)
  BY <1>1, <1>4, EndInv DEF RetrieveOrderError
<1>5. CASE RecordTicketing(w)
  <2>1. /\ work[w].order \in OrderIds /\ work[w].answer \in OrderStatuses
        /\ orders[work[w].order] # "absent"
    BY <1>1, <1>5 DEF RecordTicketing, IInv, TypeOK, KnownOrdersExist, WorkerStates
  <2>2. booking' \in BookingRows /\ booking'.order = work[w].order
    BY <1>1, <1>5, <2>1, RecordedType DEF RecordTicketing, RecordedBooking
  <2>3. QED
    BY <1>1, <1>5, <2>1, <2>2, EndInv DEF RecordTicketing
<1>6. QED
  BY <1>2, <1>3, <1>4, <1>5 DEF TicketingStep

LEMMA StepInv == IInv /\ [Next]_vars => IInv'
<1> SUFFICES ASSUME IInv, [Next]_vars PROVE IInv'
  OBVIOUS
<1>1. CASE Next
  BY <1>1, WebhookInv, PopInv, ConfirmStepInv, TicketingStepInv, CrashInv, SyncInv,
     OperatorInv, ProviderInv
  DEF Next
<1>2. CASE UNCHANGED vars
  BY <1>2 DEF vars, IInv, TypeOK, KnownOrdersExist, WorkIsPaid,
     OrdersOnlyForPaidBookings, CreatedOrders
<1>3. QED
  BY <1>1, <1>2

\* The inductive invariant holds throughout.
THEOREM InductiveInvariant == Spec => []IInv
<1>1. Init => IInv
  BY InitInv
<1>2. IInv /\ [Next]_vars => IInv'
  BY StepInv
<1>3. QED
  BY <1>1, <1>2, PTL DEF Spec

\* Every variable keeps its type: in particular no status outside the ones this
\* part of the code may write ever reaches bookings.status.
THEOREM TypeCorrect == Spec => []TypeOK
<1>1. IInv => TypeOK
  BY DEF IInv
<1>2. QED
  BY <1>1, InductiveInvariant, PTL

\* No provider order exists before the payment of the booking is committed, for
\* any number of concurrent workers and webhook deliveries and under every
\* combination of faults (FinalizeProviderBookingAction::assertPaidBooking).
THEOREM PaidBeforeOrdered == Spec => []OrdersOnlyForPaidBookings
<1>1. IInv => OrdersOnlyForPaidBookings
  BY DEF IInv
<1>2. QED
  BY <1>1, InductiveInvariant, PTL

-----------------------------------------------------------------------------
(* With one queue worker and no operator at work, Finalization implements   *)
(* BookingLifecycle: the status column follows the transition table.  The   *)
(* move into booking_confirming, checked against an unlocked read, breaks   *)
(* it when another worker or the operator writes in between.                *)

OneWorker == \A v, w \in Workers : v = w
NoOperator == Operators = {}

\* What the transition check of moveIntoConfirmingIfNeeded looked at is still
\* what the row holds when the transition is written.
MoveIsFresh ==
    \A w \in Workers : work[w].stage = "move" => booking.status = "payment_succeeded"

LEMMA FreshStep ==
    ASSUME OneWorker, NoOperator, IInv, MoveIsFresh, [Next]_vars
    PROVE  MoveIsFresh'
<1>1. work \in [Workers -> WorkerStates] /\ booking \in BookingRows
  BY DEF IInv, TypeOK
<1>2. CASE UNCHANGED vars
  BY <1>2 DEF vars, MoveIsFresh
<1>3. CASE UNCHANGED <<booking, work>>
  BY <1>3 DEF MoveIsFresh
<1>4. ASSUME NEW d \in Deliveries, WebhookStep(d)
      PROVE  MoveIsFresh'
  BY <1>1, <1>4 DEF MoveIsFresh, WebhookStep, CheckDuplicate, OpenWebhook,
     CommitWebhook, RollbackWebhook, StatusAfterPayment, BookingRows
<1>5. ASSUME NEW w \in Workers,
             \/ work'[w].stage # "move"
             \/ booking.status = "payment_succeeded" /\ UNCHANGED booking
      PROVE  MoveIsFresh'
  BY <1>5 DEF MoveIsFresh, OneWorker
<1>6. ASSUME NEW w \in Workers, NEW s \in Stages \ {"move"}, Goto(w, s)
      PROVE  work'[w].stage # "move"
  BY <1>1, <1>6 DEF Goto, WorkerStates
<1>7. ASSUME NEW w \in Workers, Finish(w) \/ Throw(w)
      PROVE  work'[w].stage # "move"
  BY <1>1, <1>7 DEF Finish, Throw, Idle, At
<1>8. ASSUME NEW w \in Workers, NEW j \in Jobs, Pop(w, j)
      PROVE  MoveIsFresh'
  <2>1. work'[w].stage # "move"
    BY <1>1, <1>8 DEF Pop, Idle, At
  <2>2. QED
    BY <2>1, <1>5
<1>9. ASSUME NEW w \in Workers, ConfirmStep(w)
      PROVE  MoveIsFresh'
  <2>1. {"gate", "mark", "hook_mark", "follow_up", "follow_up_sync"} \subseteq Stages \ {"move"}
    BY DEF Stages
  <2>2. CASE StartFinalization(w)
    BY <1>1, <1>5, <1>6, <1>7, <2>1, <2>2 DEF StartFinalization, MustMove
  <2>3. CASE MoveIntoConfirming(w) \/ CreateOrderRejected(w) \/ FollowUpDispatchFails(w)
    BY <1>5, <1>6, <2>1, <2>3
    DEF MoveIntoConfirming, CreateOrderRejected, FollowUpDispatchFails
  <2>4. CASE \/ HoldForManualReview(w) \/ CreateOrderAnswerLost(w)
             \/ CreateOrderTransientError(w) \/ MarkFinalizationFailed(w)
             \/ FailedHookMarks(w)
    BY <1>5, <1>7, <2>4
    DEF HoldForManualReview, CreateOrderAnswerLost, CreateOrderTransientError,
        MarkFinalizationFailed, FailedHookMarks
  <2>5. CASE CreateMockOrder(w) \/ CreateOrder(w)
    <3>1. work'[w].stage = "record"
      BY <1>1, <2>5 DEF CreateMockOrder, CreateOrder, Receive
    <3>2. QED
      BY <3>1, <1>5
  <2>6. CASE RecordProviderOrder(w)
    BY <1>5, <1>6, <2>1, <2>6 DEF RecordProviderOrder
  <2>7. CASE DispatchFollowUps(w)
    <3>1. work'[w] = Idle
      BY <1>1, <2>7 DEF DispatchFollowUps, Finish
    <3>2. QED
      BY <3>1, <1>5 DEF Idle, At
  <2>8. CASE FailedHook(w)
    BY <1>5, <1>6, <1>7, <2>1, <2>8 DEF FailedHook
  <2>9. QED
    BY <1>9, <2>2, <2>3, <2>4, <2>5, <2>6, <2>7, <2>8 DEF ConfirmStep
<1>10. ASSUME NEW w \in Workers, TicketingStep(w)
       PROVE  MoveIsFresh'
  <2>1. CASE StartTicketing(w) \/ RetrieveOrder(w)
    <3>1. work'[w].stage # "move"
      BY <1>1, <2>1 DEF StartTicketing, RetrieveOrder, Finish, Idle, At, WorkerStates
    <3>2. QED
      BY <3>1, <1>5
  <2>2. CASE RetrieveOrderError(w) \/ RecordTicketing(w)
    BY <1>5, <1>7, <2>2 DEF RetrieveOrderError, RecordTicketing
  <2>3. QED
    BY <1>10, <2>1, <2>2 DEF TicketingStep
<1>11. ASSUME NEW w \in Workers, Crash(w) \/ CrashInHook(w)
       PROVE  MoveIsFresh'
  BY <1>1, <1>5, <1>11 DEF Crash, CrashInHook, Idle, At
<1>12. SyncTick \/ (\E o \in OrderIds : ProviderProgress(o)) => UNCHANGED <<booking, work>>
  BY DEF SyncTick, ProviderProgress
<1>13. QED
  BY <1>2, <1>3, <1>4, <1>8, <1>9, <1>10, <1>11, <1>12 DEF Next, NoOperator

\* The transitions finalization relies on are in the table of BookingLifecycle.
LEMMA Moves ==
    ASSUME \/ <<booking.status, booking'.status>> \in
                 { <<"payment_pending", "payment_succeeded">>,
                   <<"payment_succeeded", "booking_confirming">>,
                   <<"booking_confirming", "booking_confirmed">>,
                   <<"booking_confirming", "ticketing_pending">>,
                   <<"booking_confirming", "ticketed">>,
                   <<"booking_confirmed", "ticketed">>,
                   <<"booking_confirmed", "ticketing_pending">>,
                   <<"ticketing_pending", "ticketed">> }
           \/ /\ CanTransitionBooking(booking.status, "booking_failed")
              /\ booking'.status = "booking_failed"
    PROVE  Lifecycle!Next
<1> USE DEF Lifecycle!CanTransitionBooking, Lifecycle!BookingTransitions
<1>1. CASE booking.status = "booking_confirming" /\ booking'.status = "ticketed"
  BY <1>1 DEF Lifecycle!Next, Lifecycle!ConfirmAndTicket
<1>2. CASE ~(booking.status = "booking_confirming" /\ booking'.status = "ticketed")
  <2>1. Lifecycle!CanTransitionBooking(booking.status, booking'.status)
    BY <1>2 DEF CanTransitionBooking, BookingTransitions
  <2>2. booking'.status \in Lifecycle!BookingStatuses
    BY <1>2 DEF Lifecycle!BookingStatuses
  <2>3. QED
    BY <2>1, <2>2 DEF Lifecycle!Next, Lifecycle!Transition
<1>3. QED
  BY <1>1, <1>2

LEMMA StrictStep ==
    ASSUME NoOperator, IInv, MoveIsFresh, [Next]_vars
    PROVE  [Lifecycle!Next]_(booking.status)
<1>1. booking \in BookingRows
  BY DEF IInv, TypeOK
<1>2. CASE UNCHANGED booking
  BY <1>2
<1>3. ASSUME NEW d \in Deliveries, CommitWebhook(d)
      PROVE  Lifecycle!Next \/ UNCHANGED booking.status
  BY <1>1, <1>3, Moves DEF CommitWebhook, StatusAfterPayment, BookingRows
<1>4. ASSUME NEW w \in Workers, MoveIntoConfirming(w)
      PROVE  Lifecycle!Next
  BY <1>1, <1>4, Moves DEF MoveIntoConfirming, MoveIsFresh, BookingRows
<1>5. ASSUME NEW w \in Workers, HoldForManualReview(w)
      PROVE  Lifecycle!Next \/ UNCHANGED booking.status
  BY <1>1, <1>5, Moves DEF HoldForManualReview, StatusAfterHold, BookingRows
<1>6. ASSUME NEW o, NEW answer, booking' = RecordedBooking(o, answer)
      PROVE  Lifecycle!Next \/ UNCHANGED booking.status
  <2>1. booking'.status = StatusAfterRecord(booking.status, answer)
    BY <1>6 DEF RecordedBooking
  <2>2. QED
    BY <2>1, Moves DEF StatusAfterRecord
<1>7. ASSUME NEW w \in Workers, MarkFailed(w)
      PROVE  Lifecycle!Next \/ UNCHANGED booking.status
  BY <1>1, <1>7, Moves DEF MarkFailed, StatusAfterFailure, BookingRows
<1>8. ASSUME NEW d \in Deliveries, WebhookStep(d)
      PROVE  Lifecycle!Next \/ UNCHANGED booking.status
  BY <1>3, <1>8 DEF WebhookStep, CheckDuplicate, OpenWebhook, RollbackWebhook
<1>9. ASSUME NEW w \in Workers, ConfirmStep(w)
      PROVE  Lifecycle!Next \/ UNCHANGED booking.status
  BY <1>4, <1>5, <1>6, <1>7, <1>9
  DEF ConfirmStep, StartFinalization, CreateMockOrder, CreateOrder,
      CreateOrderAnswerLost, CreateOrderTransientError, CreateOrderRejected,
      RecordProviderOrder, DispatchFollowUps, FollowUpDispatchFails,
      MarkFinalizationFailed, FailedHook, FailedHookMarks
<1>10. ASSUME NEW w \in Workers, TicketingStep(w)
       PROVE  Lifecycle!Next \/ UNCHANGED booking.status
  BY <1>6, <1>10 DEF TicketingStep, StartTicketing, RetrieveOrder,
     RetrieveOrderError, RecordTicketing
<1>11. ASSUME NEW w \in Workers,
              (\E j \in Jobs : Pop(w, j)) \/ Crash(w) \/ CrashInHook(w)
       PROVE  UNCHANGED booking
  BY <1>11 DEF Pop, Crash, CrashInHook
<1>12. SyncTick \/ (\E o \in OrderIds : ProviderProgress(o)) => UNCHANGED booking
  BY DEF SyncTick, ProviderProgress
<1>13. UNCHANGED vars => UNCHANGED booking
  BY DEF vars
<1>14. QED
  BY <1>2, <1>8, <1>9, <1>10, <1>11, <1>12, <1>13 DEF Next, NoOperator

\* With one queue worker and no admin request between its read and its write,
\* every database transaction moves the status column along one transition of
\* BookingStatus (two in RecordProviderOrderAction), whatever webhooks, provider
\* answers, retries and crashes do.
THEOREM StrictWithOneWorker ==
    ASSUME OneWorker, NoOperator
    PROVE  Spec => LifecycleSpec
<1>1. Init => Lifecycle!Init /\ MoveIsFresh
  BY DEF Init, Lifecycle!Init, MoveIsFresh, Idle, At
<1>2. IInv /\ MoveIsFresh /\ [Next]_vars => MoveIsFresh'
  BY FreshStep
<1>3. IInv /\ MoveIsFresh /\ [Next]_vars => [Lifecycle!Next]_(booking.status)
  BY StrictStep
<1>4. QED
  BY <1>1, <1>2, <1>3, InductiveInvariant, PTL DEF Spec, LifecycleSpec, Lifecycle!Spec
=============================================================================

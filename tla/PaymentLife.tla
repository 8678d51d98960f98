----------------------------- MODULE PaymentLife -----------------------------
(***************************************************************************)
(* What the payment state machine promises about the payments of a         *)
(* booking: a payment is created once and its status column only follows   *)
(* the transitions of PaymentStatus.  A step may move several payments:    *)
(* applying a promo code cancels all that are open.                        *)
(***************************************************************************)
EXTENDS PaymentStatus

CONSTANT PaymentIds

VARIABLE status     \* per payment: its status column, or "none"

Init == status = [p \in PaymentIds |-> "none"]

Follows(current, next) ==
    \/ next = current
    \/ current = "none" /\ next = "created"
    \/ CanTransitionPayment(current, next)

Next ==
    /\ status' \in [PaymentIds -> PaymentStatuses \union {"none"}]
    /\ \A p \in PaymentIds : Follows(status[p], status'[p])

Spec == Init /\ [][Next]_status
=============================================================================

---------------------------- MODULE PaymentStatus ----------------------------
(***************************************************************************)
(* The status of a payment, the transitions the enum                       *)
(* App\Enums\PaymentStatus allows, and how the status of a Stripe          *)
(* PaymentIntent is mapped to it.                                          *)
(***************************************************************************)

PaymentStatuses ==
    { "created", "requires_payment_method", "requires_action", "processing",
      "succeeded", "failed", "cancelled", "refunded", "partially_refunded" }

\* A payment the customer may still complete.
OpenStatuses == {"created", "requires_payment_method", "requires_action", "processing"}

\* PaymentStatus::allowedTransitions(): the statuses that may follow s.  No
\* transition leads back to an earlier stage of the checkout.
NextPaymentStatuses(s) ==
    CASE s = "created"                 -> {"requires_payment_method", "requires_action",
                                           "processing", "succeeded", "failed", "cancelled"}
      [] s = "requires_payment_method" -> {"requires_action", "processing", "succeeded",
                                           "failed", "cancelled"}
      [] s = "requires_action"         -> {"processing", "succeeded", "failed", "cancelled"}
      [] s = "processing"              -> {"succeeded", "failed", "cancelled"}
      [] s = "succeeded"               -> {"refunded", "partially_refunded"}
      [] s = "partially_refunded"      -> {"refunded"}
      [] OTHER                         -> {}

CanTransitionPayment(current, next) == next \in NextPaymentStatuses(current)

\* The statuses of a PaymentIntent at Stripe; "requires_confirmation" is one that
\* the service does not list.
IntentStatuses ==
    { "requires_payment_method", "requires_confirmation", "requires_action",
      "processing", "succeeded", "canceled" }

\* Bug: an intent that Stripe is processing counts as paid.
BugProcessingIsPaid(s) ==
    CASE s \in {"requires_payment_method", "requires_action"} -> s
      [] s = "canceled" -> "cancelled"
      [] OTHER          -> "succeeded"

\* StripePaymentService::mapStripeStatus.  Stripe has no failed intents: a failed
\* attempt leaves the intent in requires_payment_method.
MapStripeStatus(s) ==
    CASE s \in {"requires_payment_method", "requires_action", "succeeded"} -> s
      [] s = "canceled" -> "cancelled"
      [] OTHER          -> "processing"
=============================================================================

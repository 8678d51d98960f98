---------------------------- MODULE BookingStatus ----------------------------
(***************************************************************************)
(* The status of a booking and the transitions the enum                    *)
(* App\Enums\BookingStatus allows.  Every module that moves a booking uses *)
(* CanTransitionBooking, exactly as every action class goes through        *)
(* BookingStatus::canTransitionTo.                                         *)
(***************************************************************************)

BookingStatuses ==
    { "search_created", "offer_selected", "passenger_details_added",
      "payment_pending", "payment_succeeded", "booking_confirming",
      "booking_confirmed", "ticketing_pending", "ticketed",
      "booking_failed", "refund_pending", "refunded", "cancelled" }

\* BookingStatus::allowedTransitions(), as the set of its pairs.
BookingTransitions ==
    { <<"search_created", "offer_selected">>,
      <<"search_created", "cancelled">>,
      <<"offer_selected", "passenger_details_added">>,
      <<"offer_selected", "cancelled">>,
      <<"passenger_details_added", "payment_pending">>,
      <<"passenger_details_added", "cancelled">>,
      <<"payment_pending", "payment_succeeded">>,
      <<"payment_pending", "cancelled">>,
      <<"payment_pending", "booking_failed">>,
      <<"payment_succeeded", "booking_confirming">>,
      <<"payment_succeeded", "refund_pending">>,
      <<"booking_confirming", "booking_confirmed">>,
      <<"booking_confirming", "ticketing_pending">>,
      <<"booking_confirming", "booking_failed">>,
      <<"booking_confirmed", "ticketed">>,
      <<"booking_confirmed", "ticketing_pending">>,
      <<"booking_confirmed", "refund_pending">>,
      <<"booking_confirmed", "cancelled">>,
      <<"ticketing_pending", "ticketed">>,
      <<"ticketing_pending", "booking_failed">>,
      <<"ticketing_pending", "refund_pending">>,
      <<"ticketed", "refund_pending">>,
      <<"ticketed", "cancelled">>,
      <<"booking_failed", "refund_pending">>,
      <<"booking_failed", "cancelled">>,
      <<"refund_pending", "refunded">> }

CanTransitionBooking(current, next) == <<current, next>> \in BookingTransitions
=============================================================================

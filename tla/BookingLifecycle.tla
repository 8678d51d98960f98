-------------------------- MODULE BookingLifecycle --------------------------
(***************************************************************************)
(* What the booking state machine promises about one booking row: its      *)
(* status column only ever follows the transition table, one transition    *)
(* per database transaction.  The single exception is the transaction of   *)
(* RecordProviderOrderAction, which takes booking_confirming ->            *)
(* booking_confirmed -> ticketed before it commits.                        *)
(*                                                                         *)
(* Detailed modules implement this specification with the row's status     *)
(* column for the variable status.                                         *)
(***************************************************************************)
EXTENDS BookingStatus

CONSTANT Entry      \* the status at which the modelled part of the life starts

VARIABLE status

Init == status = Entry

Transition ==
    \E next \in BookingStatuses :
        /\ CanTransitionBooking(status, next)
        /\ status' = next

ConfirmAndTicket ==
    /\ status = "booking_confirming"
    /\ CanTransitionBooking(status, "booking_confirmed")
    /\ CanTransitionBooking("booking_confirmed", "ticketed")
    /\ status' = "ticketed"

Next == Transition \/ ConfirmAndTicket

Spec == Init /\ [][Next]_status
=============================================================================

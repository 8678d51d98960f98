--------------------------- MODULE CustomerPages ---------------------------
(***************************************************************************)
(* What the customer's pages show of a paid booking while Finalization     *)
(* goes on behind them: the timeline of the manage-booking page.           *)
(***************************************************************************)
EXTENDS Finalization

\* BookingTimeline has five steps and marks those up to the current one.
Steps == 0 .. 4
Marked(current) == {step \in Steps : step <= current}

\* Bug: a payment that has succeeded is not listed.
BugStatusStep(s) ==
    CASE s \in {"search_created", "offer_selected"} -> 0
      [] s = "passenger_details_added" -> 1
      [] s = "payment_pending" -> 2
      [] s \in {"booking_confirming", "booking_confirmed", "ticketing_pending"} -> 3
      [] OTHER -> 4

\* Show.tsx: a status that is not listed counts as the last step.
StatusStep(s) ==
    CASE s \in {"search_created", "offer_selected"} -> 0
      [] s = "passenger_details_added" -> 1
      [] s \in {"payment_pending", "payment_succeeded"} -> 2
      [] s \in {"booking_confirming", "booking_confirmed", "ticketing_pending"} -> 3
      [] OTHER -> 4

\* The page is read again and again: the timeline it shows never loses a step, whatever
\* the provider answers and however often the jobs are tried.
TimelineNeverShrinks ==
    [][Marked(StatusStep(booking.status)) \subseteq Marked(StatusStep(booking'.status))]_vars
=============================================================================

------------------------- MODULE MCPaymentCheckout -------------------------
(***************************************************************************)
(* PaymentCheckout for TLC.  Requests and deliveries are model values and  *)
(* interchangeable; payments are not, their ids are ordered.               *)
(***************************************************************************)
EXTENDS PaymentCheckout, TLC

Symmetry ==
    Permutations(IntentRequests) \union Permutations(Deliveries)
        \union Permutations(DetailsRequests)
=============================================================================

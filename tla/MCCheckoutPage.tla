--------------------------- MODULE MCCheckoutPage ---------------------------
(***************************************************************************)
(* CheckoutPage for TLC.  No symmetry: the run checks liveness.            *)
(***************************************************************************)
EXTENDS CheckoutPage, TLC
=============================================================================

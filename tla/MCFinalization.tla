--------------------------- MODULE MCFinalization ---------------------------
(***************************************************************************)
(* Finalization for TLC.  The sets are sets of model values given in the   *)
(* .cfg files; jobs, workers, deliveries and order ids are                 *)
(* interchangeable, which runs that check no liveness make use of.  (The   *)
(* mock provider's CHOOSE is the exception: mock runs use no symmetry.)    *)
(***************************************************************************)
EXTENDS CustomerPages, TLC

Symmetry ==
    Permutations(Workers) \union Permutations(ConfirmJobs)
        \union Permutations(TicketJobs) \union Permutations(Deliveries)
        \union Permutations(OrderIds)
=============================================================================

-------------------------- MODULE MCBookingJourney --------------------------
(***************************************************************************)
(* BookingJourney for TLC.  The default party and one of two types;        *)
(* requests and names are interchangeable.                                 *)
(***************************************************************************)
EXTENDS BookingJourney, TLC

CONSTANTS r1, r2, n1, n2

WithInfant == [adult |-> 1, child |-> 0, infant |-> 1]
SmallParties == {DefaultParty, WithInfant}

Symmetry == Permutations(Requests) \union Permutations(Names)
=============================================================================

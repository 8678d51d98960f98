---------------------------- MODULE MCSupportChat ----------------------------
(***************************************************************************)
(* SupportChat for TLC.  No symmetry: the run checks liveness.             *)
(***************************************************************************)
EXTENDS SupportChat, TLC
=============================================================================

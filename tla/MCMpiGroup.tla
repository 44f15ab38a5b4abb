----------------------------- MODULE MCMpiGroup -----------------------------
(***************************************************************************)
(* MpiGroup for TLC.                                                       *)
(***************************************************************************)
EXTENDS MpiGroup
=============================================================================

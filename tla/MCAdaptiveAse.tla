--------------------------- MODULE MCAdaptiveAse ---------------------------
(***************************************************************************)
(* AdaptiveAse for TLC: two workers share three batches, so that they own  *)
(* different numbers of them, and the ray limits are small enough for      *)
(* batches, and whole launches, without rays.                              *)
(***************************************************************************)
EXTENDS AdaptiveAse
=============================================================================

------------------------------ MODULE MCSrmLoop ------------------------------
(***************************************************************************)
(* SrmLoop for TLC: weights small enough for every pattern of growing and  *)
(* falling over four passes, and a tolerance of 1/4 so that a pass can be  *)
(* below it, unchanged within it, or neither.                              *)
(***************************************************************************)
EXTENDS SrmLoop
=============================================================================

-------------------------- MODULE MCStreamSession ---------------------------
(* Instances of StreamSession for TLC: two backends, the second is selected. *)
EXTENDS StreamSession

TwoBackends == <<1, 2>>
=============================================================================

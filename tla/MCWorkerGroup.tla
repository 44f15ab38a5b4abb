--------------------------- MODULE MCWorkerGroup ---------------------------
(***************************************************************************)
(* WorkerGroup for TLC: three workers, the root and two others, which is   *)
(* what a phase of the barrier needs to hold one worker that is early, one *)
(* that is late and the root.                                              *)
(***************************************************************************)
EXTENDS WorkerGroup
=============================================================================

-------------------------- MODULE MCSnapshotWriter --------------------------
(***************************************************************************)
(* SnapshotWriter for TLC: the queue of the code, which holds one pending  *)
(* snapshot, and five snapshots, enough for the caller to find the queue   *)
(* full while one is being written and others are already in the file.     *)
(***************************************************************************)
EXTENDS SnapshotWriter
=============================================================================

--------------------------- MODULE SnapshotStream ---------------------------
(***************************************************************************)
(* What a consumer of the openPMD output may rely on, without threads,     *)
(* locks or queues.  The simulation hands over snapshots 1, 2, 3, ... ;    *)
(* they reach the output series in that order, at most Window of them are  *)
(* held back at any time, and the run ends with a verdict that never hides *)
(* a lost snapshot.                                                        *)
(*                                                                         *)
(* Implemented by SnapshotWriter.                                          *)
(***************************************************************************)
EXTENDS Naturals, Sequences

CONSTANT Window   \* snapshots that may be accepted and not yet stored

VARIABLES
    accepted,     \* number of snapshots the writer took over
    stored,       \* the snapshots in the output series, in file order
    broken,       \* a write to the series has failed
    verdict       \* "running" until the run returns; then what it reports

streamVars == <<accepted, stored, broken, verdict>>

Verdicts == {"running", "ok", "simulation", "write"}

Init ==
    /\ accepted = 0
    /\ stored = <<>>
    /\ broken = FALSE
    /\ verdict = "running"

\* A writer that broke may still accept snapshots until it has noticed.
Accept ==
    /\ verdict = "running"
    /\ accepted - Len(stored) < Window
    /\ accepted' = accepted + 1
    /\ UNCHANGED <<stored, broken, verdict>>

Store ==
    /\ verdict = "running"
    /\ ~broken
    /\ Len(stored) < accepted
    /\ stored' = Append(stored, Len(stored) + 1)
    /\ UNCHANGED <<accepted, broken, verdict>>

Break ==
    /\ verdict = "running"
    /\ ~broken
    /\ Len(stored) < accepted
    /\ broken' = TRUE
    /\ UNCHANGED <<accepted, stored, verdict>>

\* A run that lost a snapshot reports the failed write and nothing else.
Report ==
    /\ verdict = "running"
    /\ verdict' \in IF broken THEN {"write"} ELSE {"ok", "simulation"}
    /\ ~broken => Len(stored) = accepted
    /\ UNCHANGED <<accepted, stored, broken>>

Next == Accept \/ Store \/ Break \/ Report

SafeSpec == Init /\ [][Next]_streamVars
Spec == SafeSpec /\ WF_streamVars(Store \/ Break) /\ WF_streamVars(Report)
=============================================================================

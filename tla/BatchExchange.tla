--------------------------- MODULE BatchExchange ---------------------------
(***************************************************************************)
(* What the MPI ranks may rely on when they trace the batches of a launch  *)
(* together: every rank offers the results of its own batches, all of them *)
(* computed from one seed, and every rank then holds the result of every   *)
(* batch exactly as its owner computed it for this launch.                 *)
(*                                                                         *)
(* Implemented by MpiGroup.                                                *)
(***************************************************************************)
EXTENDS Naturals, Sequences

CONSTANTS
    Ranks,
    Batches,
    Owner(_),      \* the rank that traces a batch
    LaunchSeeds    \* what a launch may be traced from

VARIABLES
    offered,     \* offered[r][n]: rank r's results of the n-th launch
    received     \* received[r][n]: the results rank r has of the n-th launch

exchangeVars == <<offered, received>>

Own(r) == {b \in Batches : Owner(b) = r}

\* The result of batch b, as far as its identity goes.
ResultOf(seed, b) == <<seed, b>>

Init ==
    /\ offered = [r \in Ranks |-> <<>>]
    /\ received = [r \in Ranks |-> <<>>]

\* A rank offers its next results when it has those of the launch before; the
\* ranks that were faster chose the seed.
Offer(r) ==
    LET n == Len(offered[r]) + 1
    IN  /\ Len(received[r]) = n - 1
        /\ \E seed \in LaunchSeeds :
              /\ \A v \in Ranks : Len(offered[v]) >= n =>
                    \A b \in Own(v) : offered[v][n][b] = ResultOf(seed, b)
              /\ offered' = [offered EXCEPT ![r] =
                    Append(@, [b \in Own(r) |-> ResultOf(seed, b)])]
        /\ UNCHANGED received

Receive(r) ==
    LET n == Len(offered[r])
    IN  /\ Len(received[r]) < n
        /\ \A v \in Ranks : Len(offered[v]) >= n
        /\ received' = [received EXCEPT ![r] =
              Append(@, [b \in Batches |-> offered[Owner(b)][n][b]])]
        /\ UNCHANGED offered

Next == \E r \in Ranks : Offer(r) \/ Receive(r)

Spec == Init /\ [][Next]_exchangeVars
=============================================================================

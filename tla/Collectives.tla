---------------------------- MODULE Collectives ----------------------------
(***************************************************************************)
(* What the workers of a group may rely on when they call scatter, gather  *)
(* and reduce, without barriers or shared memory: the n-th collective is a *)
(* rendezvous.  A worker leaves it only when every worker has entered it,  *)
(* and leaves it with the contribution each of them made to that very      *)
(* collective.                                                             *)
(*                                                                         *)
(* Implemented by WorkerGroup.                                             *)
(***************************************************************************)
EXTENDS Naturals

CONSTANT Workers

VARIABLES
    entered,    \* entered[w]: collectives worker w has entered
    left,       \* left[w]: collectives worker w has the result of
    received    \* received[w]: that result, as the collective each
                \* worker's contribution to it was made for

collectiveVars == <<entered, left, received>>

Init ==
    /\ entered = [w \in Workers |-> 0]
    /\ left = [w \in Workers |-> 0]
    /\ received = [w \in Workers |-> [v \in Workers |-> 0]]

Enter(w) ==
    /\ left[w] = entered[w]
    /\ entered' = [entered EXCEPT ![w] = @ + 1]
    /\ UNCHANGED <<left, received>>

Leave(w) ==
    /\ left[w] < entered[w]
    /\ \A v \in Workers : entered[v] >= entered[w]
    /\ left' = [left EXCEPT ![w] = entered[w]]
    /\ received' = [received EXCEPT ![w] = [v \in Workers |-> entered[w]]]
    /\ UNCHANGED entered

Next == \E w \in Workers : Enter(w) \/ Leave(w)

Spec == Init /\ [][Next]_collectiveVars
=============================================================================

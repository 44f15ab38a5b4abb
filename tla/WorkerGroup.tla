---------------------------- MODULE WorkerGroup ----------------------------
(***************************************************************************)
(* detail::ThreadWorkerGroup (include/core/calcPhiAseThreaded.hpp), the    *)
(* worker threads that call it from runForwardSimulation, and the thread   *)
(* that starts and joins them in DeviceResidentForwardPhiAse::evaluate     *)
(* (include/core/forwardPhiAseEvaluator.hpp).                              *)
(*                                                                         *)
(* Every worker performs the same sequence of collectives: scatter of the  *)
(* seed, then per adaptive launch a gather and a scatter (together the     *)
(* reduce of the runtimes) and the gather of the batch results.  They      *)
(* exchange data through m_values and m_collectiveValue, which no lock     *)
(* protects: only the phases of one reusable barrier order the accesses.   *)
(* A step is one access to that memory or one arrival at the barrier.      *)
(*                                                                         *)
(* Collectives are numbered from 1 in the order of the calls.  A value is  *)
(* represented by the number of the collective it was made for.            *)
(***************************************************************************)
EXTENDS Naturals

CONSTANTS
    Workers,       \* the worker threads, one per device
    Root,          \* worker 0
    MaxLaunches    \* bound on the adaptive launches of one evaluation

ASSUME RootAssumption == Root \in Workers
ASSUME MaxLaunchesAssumption == MaxLaunches \in Nat \ {0}

VARIABLES
    pc,          \* pc[w]: what worker w does next
    op,          \* op[w]: collectives worker w has completed
    arrived,     \* workers blocked in m_barrier
    slots,       \* m_values
    shared,      \* m_collectiveValue: whose contributions, made when
    got,         \* got[w]: the result of the last collective worker w read
    lastLaunch,  \* the launch whose gathered result meets the stop condition
    outcome      \* of evaluate: "running", "returned" or "thrown"

vars == <<pc, op, arrived, slots, shared, got, lastLaunch, outcome>>

\* A gather is store, arrive1, combine (root only), arrive2, read, arrive3; a
\* scatter is the same without its first two stages.
Arrivals == {"arrive1", "arrive2", "arrive3"}
Pcs == {"work", "store", "combine", "read", "done", "failed"} \union Arrivals

\* The kind of the n-th collective, n > 0.
IsGather(n) == n > 1 /\ n % 3 # 0

\* The collective that ends the k-th launch.
LastOfLaunch(k) == 3 * k + 1

\* Contributions of all workers to collective n.
AllOf(n) == [v \in Workers |-> n]

Init ==
    /\ pc = [w \in Workers |-> "work"]
    /\ op = [w \in Workers |-> 0]
    /\ arrived = {}
    /\ slots = AllOf(0)
    /\ shared = AllOf(0)
    /\ got = [w \in Workers |-> AllOf(0)]
    /\ lastLaunch \in 1..MaxLaunches
    /\ outcome = "running"
-----------------------------------------------------------------------------
\* A launch has just been evaluated, or none was started yet: the worker is
\* about to trace its batches, or to leave the loop.
BetweenLaunches(w) == pc[w] = "work" /\ op[w] % 3 = 1

\* Slips in the code that the checked properties must catch; none is part of Next.
StopDecided_OffByOne(w) ==          \* a launch too many
    /\ BetweenLaunches(w)
    /\ \A v \in Workers : got[w][v] > LastOfLaunch(lastLaunch)
StopDecided_RootOnly(w) ==          \* the others are not told
    /\ BetweenLaunches(w)
    /\ w = Root
    /\ \A v \in Workers : got[w][v] >= LastOfLaunch(lastLaunch)
AfterFirstBarrier_Slip(w) ==        \* no second barrier for the others
    IF w = Root THEN "combine" ELSE "read"
AfterStore_Slip(w) ==               \* gather without its first barrier
    IF w = Root THEN "combine" ELSE "arrive2"
Read_Slip(w) ==                     \* no third barrier
    /\ pc[w] = "read"
    /\ got' = [got EXCEPT ![w] = shared]
    /\ op' = [op EXCEPT ![w] = @ + 1]
    /\ pc' = [pc EXCEPT ![w] = "work"]
    /\ UNCHANGED <<arrived, slots, shared, lastLaunch, outcome>>

\* Every worker takes the decision on its own device from the batches it
\* gathered; equal batches give equal decisions.
StopDecided(w) ==
    /\ BetweenLaunches(w)
    /\ \A v \in Workers : got[w][v] >= LastOfLaunch(lastLaunch)

Go(w, stage) == pc' = [pc EXCEPT ![w] = stage]

\* scatter goes straight to m_collectiveValue on the root, and to the barrier
\* on the others.
AfterFirstBarrier(w) == IF w = Root THEN "combine" ELSE "arrive2"

EnterCollective(w) ==
    /\ pc[w] = "work"
    /\ ~StopDecided(w)
    /\ Go(w, IF IsGather(op[w] + 1) THEN "store" ELSE AfterFirstBarrier(w))
    /\ UNCHANGED <<op, arrived, slots, shared, got, lastLaunch, outcome>>

\* All slots are filled before the root reads them.
AfterStore(w) == "arrive1"

\* m_values.at(workerIndex) = std::move(value)
Store(w) ==
    /\ pc[w] = "store"
    /\ slots' = [slots EXCEPT ![w] = op[w] + 1]
    /\ Go(w, AfterStore(w))
    /\ UNCHANGED <<op, arrived, shared, got, lastLaunch, outcome>>

\* The root moves m_values into m_collectiveValue, or stores its own value.
Combine(w) ==
    /\ pc[w] = "combine"
    /\ shared' = IF IsGather(op[w] + 1) THEN slots ELSE AllOf(op[w] + 1)
    /\ Go(w, "arrive2")
    /\ UNCHANGED <<op, arrived, slots, got, lastLaunch, outcome>>

\* std::any_cast of m_collectiveValue
Read(w) ==
    /\ pc[w] = "read"
    /\ got' = [got EXCEPT ![w] = shared]
    /\ Go(w, "arrive3")
    /\ UNCHANGED <<op, arrived, slots, shared, lastLaunch, outcome>>

\* arrive_and_wait blocks until the last worker of the group arrives; each
\* worker then goes on from where it is.
AfterArrival(w) ==
    IF pc[w] = "arrive1" THEN AfterFirstBarrier(w)
    ELSE IF pc[w] = "arrive2" THEN "read" ELSE "work"

Completes(w) == pc[w] = "arrive3"

Wait(w) ==
    /\ pc[w] \in Arrivals
    /\ w \notin arrived
    /\ arrived \union {w} # Workers
    /\ arrived' = arrived \union {w}
    /\ UNCHANGED <<pc, op, slots, shared, got, lastLaunch, outcome>>

Release(w) ==
    /\ pc[w] \in Arrivals
    /\ w \notin arrived
    /\ arrived \union {w} = Workers
    /\ arrived' = {}
    /\ pc' = [v \in Workers |-> AfterArrival(v)]
    /\ op' = [v \in Workers |-> IF Completes(v) THEN op[v] + 1 ELSE op[v]]
    /\ UNCHANGED <<slots, shared, got, lastLaunch, outcome>>

Finish(w) ==
    /\ StopDecided(w)
    /\ Go(w, "done")
    /\ UNCHANGED <<op, arrived, slots, shared, got, lastLaunch, outcome>>

\* Tracing a batch or finalizing the gathered ones throws; the thread stores the
\* exception and ends.
Fail(w) ==
    /\ BetweenLaunches(w)
    /\ Go(w, "failed")
    /\ UNCHANGED <<op, arrived, slots, shared, got, lastLaunch, outcome>>

\* evaluate joins every worker and rethrows the first exception.
Join ==
    /\ outcome = "running"
    /\ \A w \in Workers : pc[w] \in {"done", "failed"}
    /\ outcome' = IF \E w \in Workers : pc[w] = "failed" THEN "thrown"
                                                         ELSE "returned"
    /\ UNCHANGED <<pc, op, arrived, slots, shared, got, lastLaunch>>

WorkerStep(w) ==
    \/ EnterCollective(w) \/ Store(w) \/ Combine(w) \/ Read(w)
    \/ Wait(w) \/ Release(w) \/ Finish(w)

Next == Join \/ \E w \in Workers : WorkerStep(w) \/ Fail(w)

Spec == Init /\ [][Next]_vars

\* The operating system schedules every thread; nothing obliges one to throw.
FairSpec ==
    Spec /\ WF_vars(Join) /\ \A w \in Workers : WF_vars(WorkerStep(w))
-----------------------------------------------------------------------------
(* Properties.                                                             *)

TypeOK ==
    /\ pc \in [Workers -> Pcs]
    /\ op \in [Workers -> 0..LastOfLaunch(MaxLaunches)]
    /\ arrived \in SUBSET Workers
    /\ slots \in [Workers -> Nat]
    /\ shared \in [Workers -> Nat]
    /\ got \in [Workers -> [Workers -> Nat]]
    /\ lastLaunch \in 1..MaxLaunches
    /\ outcome \in {"running", "returned", "thrown"}

\* No two workers access m_values or m_collectiveValue at the same time if one
\* of them writes: the three barriers of gather and the two of scatter order the
\* accesses of one collective, and those of the next one.
NoDataRace ==
    \A w \in Workers : pc[w] = "combine" =>
        /\ \A v \in Workers : pc[v] # "read"
        /\ \A v \in Workers \ {w} : pc[v] # "combine"
        /\ IsGather(op[w] + 1) => \A v \in Workers : pc[v] # "store"

\* A worker returns from a collective with what every worker contributed to
\* this collective: no value is torn, or left from an earlier call.
ResultIsOfThisCall ==
    \A w \in Workers : pc[w] = "arrive3" => got[w] = AllOf(op[w] + 1)

\* Inside gather or scatter.
InCollective(w) == pc[w] \notin {"work", "done", "failed"}

\* All workers leave the adaptive loop after the same launch: once one has left,
\* no other is in a collective, where it would wait for it.  evaluate returns
\* only after the launch that met the stop condition.
WorkersAgree ==
    /\ \A w, v \in Workers : pc[w] = "done" => op[v] = op[w] /\ ~InCollective(v)
    /\ outcome = "returned" =>
           \A w \in Workers : op[w] = LastOfLaunch(lastLaunch)

\* Unless a worker throws, evaluate returns: the barriers never leave part of
\* the group waiting.
SomeoneFailed == \E w \in Workers : pc[w] = "failed"
EvaluationEnds == <>(outcome = "returned" \/ SomeoneFailed)

\* Workers use the group as a sequence of rendezvous, whatever the interleaving
\* of their accesses and arrivals.
Rendezvous == INSTANCE Collectives WITH
    entered <- [w \in Workers |-> IF InCollective(w) THEN op[w] + 1 ELSE op[w]],
    left <- [w \in Workers |-> IF Completes(w) THEN op[w] + 1 ELSE op[w]],
    received <- got

CollectivesSpec == Rendezvous!Spec

\* What HaseWorker's contract asks of the workers of a group: all of them make
\* the same collective calls.  A worker blocked in a collective that another
\* one has left the loop without calling shows it broken.
SameCollectives ==
    \A w, v \in Workers :
        w \in arrived => ~(pc[v] \in {"done", "failed"} /\ op[v] <= op[w])

\* The inductive invariant.  The barrier keeps all workers in the same stretch
\* of the same collective: before its first barrier, between the first and the
\* second, or between the second and the third.
Stretch(w) ==
    IF pc[w] \in {"read", "arrive3"} THEN 3
    ELSE IF IsGather(op[w] + 1) /\ pc[w] \in {"combine", "arrive2"} THEN 2 ELSE 1

Lockstep ==
    /\ \A w, v \in Workers : op[w] = op[v] /\ Stretch(w) = Stretch(v)
    /\ \A w \in Workers :
        /\ w \in arrived => pc[w] \in Arrivals
        /\ pc[w] = "combine" => w = Root
        /\ pc[w] \in {"store", "arrive1"} => IsGather(op[w] + 1)
        /\ pc[w] \in {"done", "failed"} => op[w] % 3 = 1

Contents ==
    \A w \in Workers :
        /\ IsGather(op[w] + 1) /\ (pc[w] = "arrive1" \/ Stretch(w) > 1) =>
             slots[w] = op[w] + 1
        /\ pc[Root] = "arrive2" \/ Stretch(Root) = 3 => shared = AllOf(op[w] + 1)
        /\ got[w] = AllOf(IF pc[w] = "arrive3" THEN op[w] + 1 ELSE op[w])

Progress ==
    \A w \in Workers :
        /\ op[w] <= LastOfLaunch(lastLaunch)
        /\ InCollective(w) => op[w] < LastOfLaunch(lastLaunch)
        /\ pc[w] = "done" => op[w] = LastOfLaunch(lastLaunch)
        /\ outcome # "running" => pc[w] \in {"done", "failed"}
        /\ outcome = "returned" => pc[w] = "done"

GroupInv == TypeOK /\ Lockstep /\ Contents /\ Progress
=============================================================================

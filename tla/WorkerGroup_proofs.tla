------------------------- MODULE WorkerGroup_proofs -------------------------
(***************************************************************************)
(* Proofs about WorkerGroup, for any set of workers and any number of      *)
(* adaptive launches.  They rest on GroupInv: the barrier keeps the        *)
(* workers in the same stretch of the same collective.                     *)
(***************************************************************************)
EXTENDS WorkerGroup, TLAPS

\* The counters are natural numbers.
LEMMA Counters ==
    TypeOK => /\ op \in [Workers -> Nat]
              /\ lastLaunch \in Nat
              /\ \A k \in Nat : LastOfLaunch(k) = 3 * k + 1
  <1>1. LastOfLaunch(MaxLaunches) \in Nat
    BY MaxLaunchesAssumption DEF LastOfLaunch
  <1> QED
    BY <1>1, MaxLaunchesAssumption DEF TypeOK, LastOfLaunch

\* Init establishes the inductive invariant.
LEMMA GroupInit == Init => GroupInv
  <1> SUFFICES ASSUME Init PROVE GroupInv
    OBVIOUS
  <1>0. /\ \A w \in Workers : pc[w] = "work" /\ op[w] = 0 /\ got[w] = AllOf(0)
        /\ arrived = {}
        /\ outcome = "running"
        /\ lastLaunch \in 1..MaxLaunches
    BY DEF Init
  <1>1. TypeOK
    BY MaxLaunchesAssumption DEF Init, TypeOK, Pcs, AllOf, LastOfLaunch
  <1>2. op \in [Workers -> Nat]
    BY <1>1, Counters
  <1>3. ASSUME NEW w \in Workers PROVE ~IsGather(op[w] + 1) /\ Stretch(w) = 1
    <2>1. op[w] + 1 = 1 /\ pc[w] = "work"
      BY <1>0, <1>2
    <2> QED
      BY <2>1 DEF IsGather, Stretch
  <1>4. Lockstep
    BY <1>0, <1>3 DEF Lockstep
  <1>5. Contents
    <2> SUFFICES ASSUME NEW w \in Workers
                 PROVE  Contents!(w)
      BY DEF Contents
    <2>1. got[w] = AllOf(IF pc[w] = "arrive3" THEN op[w] + 1 ELSE op[w])
      BY <1>0
    <2>2. ~IsGather(op[w] + 1)
      BY <1>3
    <2>3. pc[Root] # "arrive2" /\ Stretch(Root) # 3
      BY <1>0, <1>3, RootAssumption
    <2> QED
      BY <2>1, <2>2, <2>3
  <1>6. Progress
    <2>1. LastOfLaunch(lastLaunch) \in Nat
      BY <1>0, MaxLaunchesAssumption DEF LastOfLaunch
    <2>2. ASSUME NEW w \in Workers PROVE 0 <= LastOfLaunch(lastLaunch)
      BY <2>1
    <2> QED
      BY <1>0, <2>2 DEF Progress, InCollective
  <1> QED
    BY <1>1, <1>4, <1>5, <1>6 DEF GroupInv

\* When the last worker arrives at the barrier, all of them are at the same
\* arrival of the same collective.
LEMMA SameArrival ==
    ASSUME GroupInv, NEW w \in Workers, Release(w)
    PROVE  /\ pc[w] \in Arrivals
           /\ \A v \in Workers : pc[v] = pc[w] /\ op[v] = op[w]
           /\ pc[w] = "arrive1" => IsGather(op[w] + 1)
  <1>1. \A v \in Workers : v \in arrived \union {w}
    BY DEF Release
  <1>2. \A v \in Workers : pc[v] \in Arrivals
    BY <1>1 DEF GroupInv, Lockstep, Release
  <1>3. \A v \in Workers : /\ op[v] = op[w]
                           /\ Stretch(v) = Stretch(w)
                           /\ pc[v] = "arrive1" => IsGather(op[v] + 1)
    BY DEF GroupInv, Lockstep
  <1>4. ASSUME NEW v \in Workers PROVE pc[v] = pc[w]
    BY <1>2, <1>3 DEF Stretch, Arrivals
  <1> QED
    BY <1>2, <1>3, <1>4

\* Every step keeps the variables in their types; op is bounded because nobody
\* enters a collective after the last launch.
LEMMA StepType == ASSUME GroupInv, [Next]_vars PROVE TypeOK'
  <1> USE RootAssumption, MaxLaunchesAssumption
  <1> TypeOK
    BY DEF GroupInv
  <1>1. CASE UNCHANGED vars
    BY <1>1 DEF TypeOK, vars
  <1>2. CASE Join
    BY <1>2 DEF TypeOK, Join
  <1>3. ASSUME NEW w \in Workers, WorkerStep(w) \/ Fail(w)
        PROVE  TypeOK'
    <2>1. CASE EnterCollective(w)
      BY <2>1 DEF TypeOK, EnterCollective, Go, AfterFirstBarrier, Pcs, Arrivals
    <2>2. CASE Store(w)
      BY <2>2 DEF TypeOK, Store, AfterStore, Go, Pcs, Arrivals
    <2>3. CASE Combine(w)
      BY <2>3 DEF TypeOK, Combine, Go, Pcs, Arrivals, AllOf
    <2>4. CASE Read(w)
      BY <2>4 DEF TypeOK, Read, Go, Pcs, Arrivals
    <2>5. CASE Wait(w)
      BY <2>5 DEF TypeOK, Wait
    <2>6. CASE Release(w)
      <3>1. pc' \in [Workers -> Pcs]
        BY <2>6 DEF Release, AfterArrival, AfterFirstBarrier, Pcs, Arrivals
      <3>2. op' \in [Workers -> 0..LastOfLaunch(MaxLaunches)]
        <4>1. \A v \in Workers : Completes(v) => op[v] + 1 \in 0..LastOfLaunch(MaxLaunches)
          BY DEF GroupInv, Progress, InCollective, Completes, TypeOK, LastOfLaunch
        <4> QED
          BY <2>6, <4>1 DEF TypeOK, Release
      <3> QED
        BY <2>6, <3>1, <3>2 DEF TypeOK, Release
    <2>7. CASE Finish(w)
      BY <2>7 DEF TypeOK, Finish, Go, Pcs
    <2>8. CASE Fail(w)
      BY <2>8 DEF TypeOK, Fail, Go, Pcs
    <2> QED
      BY <1>3, <2>1, <2>2, <2>3, <2>4, <2>5, <2>6, <2>7, <2>8 DEF WorkerStep
  <1> QED
    BY <1>1, <1>2, <1>3 DEF Next

\* Every step keeps the workers in the same stretch of the same collective: only
\* the last arrival changes it, and it does so for all of them.
LEMMA StepLockstep == ASSUME GroupInv, [Next]_vars PROVE Lockstep'
  <1> USE RootAssumption
  <1> TypeOK /\ Lockstep
    BY DEF GroupInv
  <1>1. CASE UNCHANGED vars
    BY <1>1 DEF Lockstep, vars, Stretch
  <1>2. CASE Join
    BY <1>2 DEF Lockstep, Join, Stretch
  <1>3. ASSUME NEW w \in Workers, WorkerStep(w) \/ Fail(w)
        PROVE  Lockstep'
    <2>1. CASE EnterCollective(w)
      BY <2>1 DEF Lockstep, EnterCollective, Go, AfterFirstBarrier, Stretch, Arrivals
    <2>2. CASE Store(w)
      BY <2>2 DEF Lockstep, Store, AfterStore, Go, Stretch, Arrivals
    <2>3. CASE Combine(w)
      BY <2>3 DEF Lockstep, Combine, Go, Stretch, Arrivals
    <2>4. CASE Read(w)
      BY <2>4 DEF Lockstep, Read, Go, Stretch, Arrivals
    <2>5. CASE Wait(w)
      BY <2>5 DEF TypeOK, Lockstep, Wait, Stretch
    <2>6. CASE Release(w)
      <3>1. /\ pc[w] \in Arrivals
            /\ \A v \in Workers : pc[v] = pc[w] /\ op[v] = op[w]
            /\ pc[w] = "arrive1" => IsGather(op[w] + 1)
        BY <2>6, SameArrival
      <3>2. CASE pc[w] = "arrive1"
        BY <2>6, <3>1, <3>2
        DEF TypeOK, Lockstep, Release, AfterArrival, AfterFirstBarrier, Completes, Stretch,
           Arrivals
      <3>3. CASE pc[w] = "arrive2"
        BY <2>6, <3>1, <3>3
        DEF TypeOK, Lockstep, Release, AfterArrival, Completes, Stretch, Arrivals
      <3>4. CASE pc[w] = "arrive3"
        BY <2>6, <3>1, <3>4
        DEF TypeOK, Lockstep, Release, AfterArrival, Completes, Stretch, Arrivals
      <3> QED
        BY <3>1, <3>2, <3>3, <3>4 DEF Arrivals
    <2>7. CASE Finish(w)
      BY <2>7 DEF Lockstep, Finish, StopDecided, BetweenLaunches, Go, Stretch, Arrivals
    <2>8. CASE Fail(w)
      BY <2>8 DEF Lockstep, Fail, BetweenLaunches, Go, Stretch, Arrivals
    <2> QED
      BY <1>3, <2>1, <2>2, <2>3, <2>4, <2>5, <2>6, <2>7, <2>8 DEF WorkerStep
  <1> QED
    BY <1>1, <1>2, <1>3 DEF Next

\* Every step keeps the shared memory meaning what the stretch says: the slots
\* are filled before the first barrier, the collective value before the second.
LEMMA StepContents == ASSUME GroupInv, [Next]_vars PROVE Contents'
  <1> USE RootAssumption
  <1> TypeOK /\ Lockstep /\ Contents
    BY DEF GroupInv
  <1>1. CASE UNCHANGED vars
    BY <1>1 DEF Contents, vars, Stretch
  <1>2. CASE Join
    BY <1>2 DEF Contents, Join, Stretch
  <1>3. ASSUME NEW w \in Workers, WorkerStep(w) \/ Fail(w)
        PROVE  Contents'
    <2>1. CASE EnterCollective(w)
      BY <2>1 DEF Lockstep, Contents, EnterCollective, Go, AfterFirstBarrier, Stretch
    <2>2. CASE Store(w)
      BY <2>2 DEF TypeOK, Contents, Store, AfterStore, Go, Stretch
    <2>3. CASE Combine(w)
      BY <2>3 DEF TypeOK, Lockstep, Contents, Combine, Go, Stretch, AllOf
    <2>4. CASE Read(w)
      BY <2>4 DEF TypeOK, Lockstep, Contents, Read, Go, Stretch
    <2>5. CASE Wait(w)
      BY <2>5 DEF TypeOK, Contents, Wait, Stretch
    <2>6. CASE Release(w)
      <3>1. /\ pc[w] \in Arrivals
            /\ \A v \in Workers : pc[v] = pc[w] /\ op[v] = op[w]
            /\ pc[w] = "arrive1" => IsGather(op[w] + 1)
        BY <2>6, SameArrival
      <3>2. CASE pc[w] = "arrive1"
        BY <2>6, <3>1, <3>2
        DEF TypeOK, Contents, Release, AfterArrival, AfterFirstBarrier, Completes, Stretch,
           AllOf
      <3>3. CASE pc[w] = "arrive2"
        BY <2>6, <3>1, <3>3
        DEF TypeOK, Contents, Release, AfterArrival, Completes, Stretch, AllOf
      <3>4. CASE pc[w] = "arrive3"
        BY <2>6, <3>1, <3>4
        DEF TypeOK, Contents, Release, AfterArrival, Completes, Stretch, AllOf
      <3> QED
        BY <3>1, <3>2, <3>3, <3>4 DEF Arrivals
    <2>7. CASE Finish(w)
      BY <2>7 DEF Lockstep, Contents, Finish, StopDecided, BetweenLaunches, Go, Stretch
    <2>8. CASE Fail(w)
      BY <2>8 DEF Lockstep, Contents, Fail, BetweenLaunches, Go, Stretch
    <2> QED
      BY <1>3, <2>1, <2>2, <2>3, <2>4, <2>5, <2>6, <2>7, <2>8 DEF WorkerStep
  <1> QED
    BY <1>1, <1>2, <1>3 DEF Next

\* Every step keeps the workers within the launches: a worker that has read the
\* result of the last launch can only finish.
LEMMA StepProgress == ASSUME GroupInv, [Next]_vars PROVE Progress'
  <1> USE RootAssumption
  <1> TypeOK /\ Lockstep /\ Contents /\ Progress
    BY DEF GroupInv
  <1>0. op \in [Workers -> Nat] /\ LastOfLaunch(lastLaunch) \in Nat
    BY Counters
  <1>1. CASE UNCHANGED vars
    BY <1>1 DEF Progress, vars, InCollective
  <1>2. CASE Join
    BY <1>2 DEF TypeOK, Progress, Join, InCollective
  <1>3. ASSUME NEW w \in Workers, WorkerStep(w) \/ Fail(w)
        PROVE  Progress'
    <2>0. pc[w] # "done" /\ pc[w] # "failed" /\ outcome = "running"
      BY <1>3 DEF Progress, WorkerStep, Fail, EnterCollective, Store, Combine, Read, Wait,
         Release, Finish, StopDecided, BetweenLaunches, Arrivals
    <2>1. CASE EnterCollective(w)
      <3>1. op[w] = LastOfLaunch(lastLaunch) => op[w] % 3 = 1
        BY MaxLaunchesAssumption DEF TypeOK, LastOfLaunch
      <3>2. got[w] = AllOf(op[w])
        BY <2>1 DEF Contents, EnterCollective
      <3>3. op[w] # LastOfLaunch(lastLaunch)
        BY <1>0, <2>1, <3>1, <3>2 DEF EnterCollective, StopDecided, BetweenLaunches, AllOf
      <3>4. op[w] < LastOfLaunch(lastLaunch)
        BY <1>0, <3>3 DEF Progress
      <3>5. /\ pc' = [pc EXCEPT ![w] = pc'[w]]
            /\ pc'[w] \notin {"work", "done", "failed"}
            /\ UNCHANGED <<op, lastLaunch, outcome>>
        BY <2>1 DEF TypeOK, EnterCollective, Go, AfterFirstBarrier
      <3> QED
        BY <2>0, <3>4, <3>5 DEF TypeOK, Progress, InCollective, LastOfLaunch
    <2>2. CASE Store(w)
      BY <2>0, <2>2 DEF Progress, Store, AfterStore, Go, InCollective
    <2>3. CASE Combine(w)
      BY <2>0, <2>3 DEF TypeOK, Progress, Combine, Go, InCollective
    <2>4. CASE Read(w)
      BY <2>0, <2>4 DEF TypeOK, Progress, Read, Go, InCollective
    <2>5. CASE Wait(w)
      BY <2>0, <2>5 DEF TypeOK, Progress, Wait, InCollective
    <2>6. CASE Release(w)
      <3>1. \A v \in Workers : pc[v] \in Arrivals /\ pc[v] = pc[w] /\ op[v] = op[w]
        BY <2>6, SameArrival
      <3> QED
        BY <2>0, <2>6, <3>1
        DEF TypeOK, Progress, Release, AfterArrival, AfterFirstBarrier, Completes, InCollective,
            Arrivals, LastOfLaunch
    <2>7. CASE Finish(w)
      <3>1. got[w] = AllOf(op[w])
        BY <2>7 DEF Contents, Finish, StopDecided, BetweenLaunches
      <3>2. op[w] = LastOfLaunch(lastLaunch)
        BY <1>0, <2>7, <3>1 DEF Progress, Finish, StopDecided, AllOf
      <3> QED
        BY <2>0, <2>7, <3>2 DEF TypeOK, Progress, Finish, Go, InCollective
    <2>8. CASE Fail(w)
      BY <2>0, <2>8 DEF TypeOK, Progress, Fail, Go, InCollective
    <2> QED
      BY <1>3, <2>1, <2>2, <2>3, <2>4, <2>5, <2>6, <2>7, <2>8 DEF WorkerStep
  <1> QED
    BY <1>1, <1>2, <1>3 DEF Next

\* GroupInv is an invariant of the group.
LEMMA GroupInvariant == Spec => []GroupInv
  <1>1. GroupInv /\ [Next]_vars => GroupInv'
    BY StepType, StepLockstep, StepContents, StepProgress DEF GroupInv
  <1> QED
    BY GroupInit, <1>1, PTL DEF Spec

\* Every variable has its type in every reachable state.
THEOREM GroupTypeCorrect == Spec => []TypeOK
  BY GroupInvariant, PTL DEF GroupInv

\* The barriers order all accesses to m_values and m_collectiveValue: there is no
\* data race, for any number of workers.
THEOREM GroupHasNoDataRace == Spec => []NoDataRace
  <1>1. GroupInv => NoDataRace
    BY RootAssumption DEF GroupInv, Lockstep, NoDataRace, Stretch
  <1> QED
    BY <1>1, GroupInvariant, PTL

\* No worker ever leaves a collective with an old or a mixed value.
THEOREM ResultsAreOfTheirCall == Spec => []ResultIsOfThisCall
  <1>1. GroupInv => ResultIsOfThisCall
    BY DEF GroupInv, Contents, ResultIsOfThisCall
  <1> QED
    BY <1>1, GroupInvariant, PTL

\* The workers leave the adaptive loop after the same launch.
THEOREM WorkersStopTogether == Spec => []WorkersAgree
  <1>1. ASSUME GroupInv PROVE WorkersAgree
    BY <1>1, Counters DEF GroupInv, TypeOK, Lockstep, Progress, WorkersAgree
  <1> QED
    BY <1>1, GroupInvariant, PTL

\* A step of the group is a step of the rendezvous it implements, or none.
LEMMA RendezvousStep ==
    GroupInv /\ [Next]_vars => [Rendezvous!Next]_(Rendezvous!collectiveVars)
  <1> SUFFICES ASSUME GroupInv, [Next]_vars
               PROVE  Rendezvous!Next \/ UNCHANGED Rendezvous!collectiveVars
    OBVIOUS
  <1> TypeOK /\ Lockstep /\ Contents
    BY DEF GroupInv
  <1> DEFINE entered == [w \in Workers |-> IF InCollective(w) THEN op[w] + 1 ELSE op[w]]
             left == [w \in Workers |-> IF Completes(w) THEN op[w] + 1 ELSE op[w]]
  <1>1. CASE UNCHANGED vars
    BY <1>1 DEF vars, Rendezvous!collectiveVars, InCollective, Completes
  <1>2. CASE Join
    BY <1>2 DEF Join, Rendezvous!collectiveVars, InCollective, Completes
  <1>3. ASSUME NEW w \in Workers, WorkerStep(w) \/ Fail(w)
        PROVE  Rendezvous!Next \/ UNCHANGED Rendezvous!collectiveVars
    <2>1. CASE EnterCollective(w)
      <3>1. entered' = [entered EXCEPT ![w] = @ + 1] /\ left' = left /\ got' = got
        BY <2>1 DEF TypeOK, EnterCollective, Go, AfterFirstBarrier, InCollective, Completes
      <3>2. left[w] = entered[w]
        BY <2>1 DEF EnterCollective, InCollective, Completes
      <3> QED
        BY <3>1, <3>2 DEF Rendezvous!Next, Rendezvous!Enter
    <2>2. CASE Read(w)
      <3>1. entered' = entered /\ left' = [left EXCEPT ![w] = op[w] + 1]
        BY <2>2 DEF TypeOK, Read, Go, InCollective, Completes
      <3>2. \A v \in Workers : entered[v] = op[w] + 1
        BY <2>2 DEF TypeOK, Lockstep, Read, Stretch, InCollective
      <3>3. left[w] < entered[w]
        BY <2>2, <3>2 DEF TypeOK, Read, Completes
      <3>4. got' = [got EXCEPT ![w] = [v \in Workers |-> op[w] + 1]]
        <4>1. Stretch(Root) = 3
          BY <2>2, RootAssumption DEF Lockstep, Read, Stretch
        <4> QED
          BY <2>2, <4>1 DEF Contents, Read, AllOf
      <3>5. op \in [Workers -> Nat]
        BY Counters
      <3>6. \A v \in Workers : entered[v] >= entered[w]
        BY <3>2, <3>5
      <3>7. /\ left' = [left EXCEPT ![w] = entered[w]]
            /\ got' = [got EXCEPT ![w] = [v \in Workers |-> entered[w]]]
        BY <3>1, <3>2, <3>4
      <3> HIDE DEF entered, left
      <3>8. (left[w] < entered[w]) /\ entered' = entered
        BY <3>1, <3>3
      <3> USE DEF entered, left
      <3> QED
        BY <3>6, <3>7, <3>8 DEF Rendezvous!Next, Rendezvous!Leave
    <2>3. CASE Release(w)
      <3>1. \A v \in Workers : pc[v] \in Arrivals /\ pc[v] = pc[w]
        BY <2>3, SameArrival
      <3>2. entered' = entered /\ left' = left /\ got' = got
        BY <2>3, <3>1 DEF Release, AfterArrival, AfterFirstBarrier, InCollective, Completes,
           Arrivals
      <3> QED
        BY <3>2 DEF Rendezvous!collectiveVars
    <2>4. CASE Store(w) \/ Combine(w) \/ Wait(w) \/ Finish(w) \/ Fail(w)
      <3>1. entered' = entered /\ left' = left /\ got' = got
        BY <2>4 DEF TypeOK, Store, AfterStore, Combine, Wait, Finish, StopDecided, Fail,
           BetweenLaunches, Go, InCollective, Completes
      <3> QED
        BY <3>1 DEF Rendezvous!collectiveVars
    <2> QED
      BY <1>3, <2>1, <2>2, <2>3, <2>4 DEF WorkerStep
  <1> QED
    BY <1>1, <1>2, <1>3 DEF Next

\* The thread group implements its specification: every collective is a
\* rendezvous of all workers.
THEOREM GroupImplementsCollectives == Spec => CollectivesSpec
  <1>1. Init => Rendezvous!Init
    BY DEF Init, Rendezvous!Init, InCollective, Completes, AllOf
  <1> QED
    BY <1>1, GroupInvariant, RendezvousStep, PTL DEF Spec, CollectivesSpec, Rendezvous!Spec
=============================================================================

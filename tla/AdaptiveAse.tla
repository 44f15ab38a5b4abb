---------------------------- MODULE AdaptiveAse ----------------------------
(***************************************************************************)
(* runForwardSimulation (include/core/forwardPhiAseEvaluator.hpp) with     *)
(* what decides its control flow: adaptiveRayTarget and the stop condition *)
(* (include/core/types.hpp), the split of a launch into statistical        *)
(* batches (include/kernels/forward/accumulation.hpp), their mapping to    *)
(* workers (include/core/haseWorker.hpp) and the state a device context    *)
(* keeps between batches (include/core/calcForwardPhiAse.hpp).             *)
(*                                                                         *)
(* Every worker runs the whole adaptive loop and takes its decisions on    *)
(* its own copy of the gathered result; gather is one step of all workers, *)
(* which is what WorkerGroup shows the thread collectives to be.  Tracing  *)
(* and the error estimate are abstracted to what the loop can see of them: *)
(* the rays of each batch, the cells whose error is small enough and the   *)
(* cells with dropped rays.                                                *)
(***************************************************************************)
EXTENDS Integers, FiniteSets, FiniteSetsExt

CONSTANTS
    NumWorkers,        \* threads with a device each, or MPI ranks
    DefaultBatches,    \* defaultForwardRseBatchCount
    UnsignedRange,     \* unsigned arithmetic is modulo this number
    Cells,             \* the cells of the mesh
    RayLimits,         \* values of minRays and maxRays to consider
    FixedRayCounts,    \* values of forwardRayCount; 0 leaves it unset
    StepCounts         \* values of adaptiveSteps

ASSUME NumWorkersAssumption == NumWorkers \in Nat \ {0}
ASSUME DefaultBatchesAssumption == DefaultBatches \in Nat \ {0}
ASSUME RayLimitsAssumption ==
    /\ UnsignedRange \in Nat \ {0}
    /\ RayLimits \subseteq 1..(UnsignedRange - 1)
    /\ FixedRayCounts \subseteq 0..(UnsignedRange - 1)
ASSUME StepCountsAssumption ==
    StepCounts \subseteq Nat /\ StepCounts # {} /\ IsFiniteSet(StepCounts)

VARIABLES
    experiment,    \* minRays, maxRays, forwardRayCount and adaptiveSteps
    roundUp,       \* the increases at which pow lands just above an integer
    pc,            \* pc[w]: "tracing", "gathering", "merging", "done", "thrown"
    next,          \* next[w]: the next batch worker w traces
    local,         \* local[w]: localResults
    gathered,      \* the batches of the launch gathered last
    met,           \* cells whose estimated error meets the threshold
    dropped,       \* cells that have dropped a ray history
    deviceSrm,     \* deviceSrm[w]: the evaluation m_srmResult of w is from
    launches,      \* launches[w]: adaptiveLaunches, and completedIncreases
    raw,           \* raw[w]: rays per batch, their sum, and which evaluations
                   \* the SRM status is from
    convergence    \* convergence[w]: convergenceRayCounts

vars == <<experiment, roundUp, pc, next, local, gathered, met, dropped,
          deviceSrm, launches, raw, convergence>>

Workers == 0..(NumWorkers - 1)
BatchCount == IF NumWorkers > DefaultBatches THEN NumWorkers ELSE DefaultBatches
Batches == 0..(BatchCount - 1)

\* What the parser accepts; nothing else restricts adaptiveSteps.
Experiments ==
    {e \in [minRays : RayLimits, maxRays : RayLimits,
            forwardRayCount : FixedRayCounts, adaptiveSteps : StepCounts] :
        e.minRays <= e.maxRays}

MaxSteps == Max(StepCounts)
LaunchCap == MaxSteps + 1
-----------------------------------------------------------------------------
(* The schedule of ray targets.                                            *)

\* The k-th of s geometric steps from lo to hi is lo^(1-k/s) * hi^(k/s): t is not
\* below it, or is the step itself.
Reaches(t, lo, hi, s, k) == t^s >= lo^(s - k) * hi^k
IsStep(t, lo, hi, s, k) == t^s = lo^(s - k) * hi^k

\* Its ceiling; hi reaches every step.
GeometricSteps(lo, hi, s, k) == Min({hi} \union {t \in lo..hi : Reaches(t, lo, hi, s, k)})

\* pow may return a value just above an exact integer, which ceil then rounds
\* up.
Ceiling(lo, hi, s, k) ==
    LET t == GeometricSteps(lo, hi, s, k)
    IN  IF k > 0 /\ IsStep(t, lo, hi, s, k) /\ k \in roundUp THEN t + 1 ELSE t

Clamp(t, lo, hi) == Max({lo, Min({t, hi})})

IsFixed(e) ==
    e.forwardRayCount # 0 \/ e.maxRays <= e.minRays \/ e.adaptiveSteps = 0

AdaptiveRayTarget(e, completedIncreases) ==
    CASE IsFixed(e) ->
            IF e.forwardRayCount = 0 THEN e.minRays ELSE e.forwardRayCount
      [] ~IsFixed(e) /\ completedIncreases >= e.adaptiveSteps -> e.maxRays
      [] OTHER ->
            Clamp(Ceiling(e.minRays, e.maxRays, e.adaptiveSteps, completedIncreases),
                  e.minRays, e.maxRays)

Target(w) == AdaptiveRayTarget(experiment, launches[w])

\* unsigned arithmetic
LaunchRays(w) == (Target(w) - raw[w].rayCount) % UnsignedRange

\* Slips in the code, which are not part of Next: a worker starts one batch early,
\* or all of them start with the first.
FirstBatch_Early(w) == w - 1
FirstBatch_Same(w) == 0

\* rseBatchRayCount with a global ray offset of 0: every BatchCount-th ray
\* belongs to the same batch.
BatchRays(rays, batch) ==
    IF batch < rays THEN 1 + (rays - 1 - batch) \div BatchCount ELSE 0

\* mapIdx: worker w takes the batches w, w + NumWorkers, ...
FirstBatch(w) == Min({w, BatchCount})
-----------------------------------------------------------------------------
NoBatches == [b \in Batches |-> 0]

Init ==
    /\ experiment \in Experiments
    /\ roundUp \in SUBSET (1..(MaxSteps - 1))
    /\ pc = [w \in Workers |-> "tracing"]
    /\ next = [w \in Workers |-> FirstBatch(w)]
    /\ local = [w \in Workers |-> {}]
    /\ gathered = {}
    /\ met = {}
    /\ dropped = {}
    /\ deviceSrm = [w \in Workers |-> "earlier"]
    /\ launches = [w \in Workers |-> 0]
    /\ raw = [w \in Workers |-> [batches |-> NoBatches, rayCount |-> 0, srm |-> {}]]
    /\ convergence = [w \in Workers |-> [c \in Cells |-> 0]]

\* A slip: a single ray is not worth a launch.
BatchSrm_Slip(w, rays) == IF rays < 2 THEN deviceSrm[w] ELSE "current"

\* A batch without rays returns before it resets m_srmResult, and hands out what
\* the batch before it left there.
BatchSrm(w, rays) == IF rays = 0 THEN deviceSrm[w] ELSE "current"

\* The device traces one batch.
Trace(w) ==
    LET rays == BatchRays(LaunchRays(w), next[w])
        srm == BatchSrm(w, rays)
    IN  /\ pc[w] = "tracing"
        /\ next[w] < BatchCount
        /\ deviceSrm' = [deviceSrm EXCEPT ![w] = srm]
        /\ local' = [local EXCEPT ![w] =
                        @ \union {[index |-> next[w], rays |-> rays, srm |-> srm]}]
        /\ next' = [next EXCEPT ![w] = @ + NumWorkers]
        /\ UNCHANGED <<experiment, roundUp, pc, gathered, met, dropped, launches,
                       raw, convergence>>

\* reduce of the runtimes and gather of the batches.
OfferBatches(w) ==
    /\ pc[w] = "tracing"
    /\ next[w] >= BatchCount
    /\ pc' = [pc EXCEPT ![w] = "gathering"]
    /\ UNCHANGED <<experiment, roundUp, next, local, gathered, met, dropped,
                   deviceSrm, launches, raw, convergence>>

\* Batches that have at least one ray after the gathered ones are merged.
ActiveBatches(batches) ==
    {b \in Batches : raw[0].batches[b] > 0
                     \/ \E r \in batches : r.index = b /\ r.rays > 0}

\* The gathered rays decide which cells meet the threshold: none that dropped a
\* ray, and none at all while fewer than two batches have rays.  A launch without
\* rays changes nothing.
Gather ==
    /\ \A w \in Workers : pc[w] = "gathering"
    /\ gathered' = UNION {local[w] : w \in Workers}
    /\ IF \A r \in gathered' : r.rays = 0
       THEN UNCHANGED <<met, dropped>>
       ELSE \E lost \in SUBSET Cells :
              /\ dropped' = dropped \union lost
              /\ met' \in IF Cardinality(ActiveBatches(gathered')) < 2 THEN {{}}
                          ELSE SUBSET (Cells \ dropped')
    /\ pc' = [w \in Workers |-> "merging"]
    /\ UNCHANGED <<experiment, roundUp, next, local, deviceSrm, launches, raw,
                   convergence>>

\* flattenBatchResults: every batch once, by its index.
EveryBatchOnce ==
    /\ Cardinality(gathered) = BatchCount
    /\ {r.index : r \in gathered} = Batches

RaysOf(batches) == MapThenSumSet(LAMBDA g : g.rays, batches)

\* mergeForwardRawResult, for every gathered batch.
Merged(r) ==
    [batches |-> [b \in Batches |->
                    r.batches[b] + RaysOf({g \in gathered : g.index = b})],
     rayCount |-> (r.rayCount + RaysOf(gathered)) % UnsignedRange,
     srm |-> r.srm \union {g.srm : g \in gathered}]

\* Slips: only the root learns that every cell meets the threshold; one cell is
\* enough; nothing stops at maxRays.
StopCondition_RootOnly(w) ==
    \/ experiment.forwardRayCount # 0
    \/ Target(w) = experiment.maxRays
    \/ w = 0 /\ Cells # {} /\ met = Cells
StopCondition_Any(w) ==
    \/ experiment.forwardRayCount # 0
    \/ Target(w) = experiment.maxRays
    \/ met # {}
StopCondition_NoLimit(w) ==
    \/ experiment.forwardRayCount # 0
    \/ Cells # {} /\ met = Cells

StopCondition(w) ==
    \/ experiment.forwardRayCount # 0
    \/ Target(w) = experiment.maxRays
    \/ Cells # {} /\ met = Cells

\* A slip: a later launch is recorded as well.
NewlyConverged_Again(w, c) == c \in met

\* recordAdaptiveRayConvergence fills in counts that are still zero.
NewlyConverged(w, c) == convergence[w][c] = 0 /\ c \in met

\* The loop goes round again with the next target.  The counter is capped where
\* it has no effect any more.
NextLaunch(w) ==
    /\ pc' = [pc EXCEPT ![w] = "tracing"]
    /\ next' = [next EXCEPT ![w] = FirstBatch(w)]
    /\ local' = [local EXCEPT ![w] = {}]
    /\ launches' = [launches EXCEPT ![w] = Min({@ + 1, LaunchCap})]

Leave(w, how) ==
    /\ pc' = [pc EXCEPT ![w] = how]
    /\ UNCHANGED <<next, local, launches>>

\* Merging, the checks that throw, finalizing, recording convergence and the
\* decision of one worker.
MergeAndDecide(w) ==
    LET sum == Merged(raw[w])
        accounted == EveryBatchOnce /\ sum.rayCount = Target(w)
    IN  /\ pc[w] = "merging"
        /\ raw' = [raw EXCEPT ![w] = sum]
        /\ convergence' = [convergence EXCEPT ![w] = [c \in Cells |->
               IF accounted /\ NewlyConverged(w, c) THEN Target(w) ELSE @[c]]]
        /\ CASE ~accounted -> Leave(w, "thrown")
             [] accounted /\ StopCondition(w) -> Leave(w, "done")
             [] OTHER -> NextLaunch(w)
        /\ UNCHANGED <<experiment, roundUp, gathered, met, dropped, deviceSrm>>

Terminated == (\A w \in Workers : pc[w] = "done") /\ UNCHANGED vars

WorkerStep(w) == Trace(w) \/ OfferBatches(w) \/ MergeAndDecide(w)

Next == Gather \/ Terminated \/ \E w \in Workers : WorkerStep(w)

Spec == Init /\ [][Next]_vars
FairSpec ==
    Spec /\ WF_vars(Gather) /\ \A w \in Workers : WF_vars(WorkerStep(w))
-----------------------------------------------------------------------------
(* Properties.                                                             *)

AllDone == \A w \in Workers : pc[w] = "done"

TypeOK ==
    /\ experiment \in Experiments
    /\ roundUp \in SUBSET (1..(MaxSteps - 1))
    /\ pc \in [Workers -> {"tracing", "gathering", "merging", "done", "thrown"}]
    /\ next \in [Workers -> Nat]
    /\ \A w \in Workers : local[w] \subseteq
          [index : Batches, rays : 0..UnsignedRange, srm : {"earlier", "current"}]
    /\ met \subseteq Cells
    /\ dropped \subseteq Cells
    /\ deviceSrm \in [Workers -> {"earlier", "current"}]
    /\ launches \in [Workers -> 0..LaunchCap]
    /\ \A w \in Workers :
          /\ raw[w].batches \in [Batches -> Nat]
          /\ raw[w].rayCount \in 0..(UnsignedRange - 1)
          /\ raw[w].srm \subseteq {"earlier", "current"}
    /\ convergence \in [Workers -> [Cells -> Nat]]

\* The loop's own consistency checks never fire: mapIdx, rseBatchRayCount and
\* the gather together give every batch once and every ray to one batch.
NoAccountingError == \A w \in Workers : pc[w] # "thrown"

\* The workers decide on their own but alike: all of them end with the same
\* rays, batches and convergence counts after the same launch.
WorkersAgree ==
    \A w, v \in Workers : pc[w] = "done" =>
        /\ pc[v] \in {"merging", "done"}
        /\ launches[v] = launches[w]
        /\ pc[v] = "done" => raw[v] = raw[w] /\ convergence[v] = convergence[w]

\* What the user asked for: a fixed number of rays, or rays within the limits,
\* fewer than maxRays only if every cell meets the threshold.
StopsForAReason ==
    \A w \in Workers : pc[w] = "done" =>
        IF experiment.forwardRayCount # 0
        THEN raw[w].rayCount = experiment.forwardRayCount
        ELSE /\ raw[w].rayCount \in experiment.minRays..experiment.maxRays
             /\ raw[w].rayCount < experiment.maxRays => met = Cells

\* The launch a cell is reported to have converged in is the first one: a count
\* that is set never changes, whatever later launches find.
ConvergenceKept ==
    [][\A w \in Workers, c \in Cells :
          convergence[w][c] # 0 => convergence'[w][c] = convergence[w][c]]_vars

\* The SRM status of a result is from this evaluation, provided the first launch
\* has a ray for the first batch of every worker.
SrmStatusIsCurrent ==
    AdaptiveRayTarget(experiment, 0) >= NumWorkers =>
        \A w \in Workers : "earlier" \notin raw[w].srm

\* Adaptive sampling ends if it may increase the number of rays at all, or need
\* not.
SamplingEnds ==
    \/ experiment.forwardRayCount # 0
    \/ experiment.adaptiveSteps > 0
    \/ experiment.minRays = experiment.maxRays
    => <>AllDone

\* docs/source/forwardAseRse.rst promises it for every experiment: "The solver
\* adds ray histories until every cell reaches the target or maxRays is reached."
SamplingAlwaysEnds == <>AllDone
=============================================================================

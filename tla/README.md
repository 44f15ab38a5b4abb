# HASEonGPU in TLA+

HASEonGPU computes amplified spontaneous emission (ASE) in laser gain media by
tracing rays on one or several devices. The numerical kernels are data-parallel;
around them sits host code that starts threads, moves results through shared
memory or MPI, decides adaptively how many rays to trace, drives an asynchronous
device queue, and exchanges requests, results and snapshots with a Python front
end through openPMD. This directory models that host code, where what goes wrong
depends on the order of things, and the control of the ray kernels themselves,
where it depends on rays that meet a vertex, an edge or each other. Tests reach
only a few of these cases.

Paths below are relative to the repository (`include/…`, `src/…`, `pyInclude/…`).

## Inventory

| Component | State it keeps | Operations | Talks to | Hard behaviour | What makes it correct |
|---|---|---|---|---|---|
| **Asynchronous snapshot writer** `include/openpmd/SimulationSnapshotWriter.hpp` | queue of at most one snapshot, error, finish request, thread | constructor, `enqueue`, `finish`, `drain` | the simulation thread through a mutex and two condition variables; the output series | interleaving, failure of a write, backpressure, shutdown | written in order, nothing lost silently, bounded backlog, no late write, both threads end |
| **Simulation entry point** `Parser::runCoreSimulation` in `src/openpmd/OpenPmdParser.cpp` | input and output series, the exception it caught | read, simulate, finish, close, rethrow | writer, time loop, Python process | several failures at once, order of closing | reports the failure that happened |
| **Thread worker group** `include/core/calcPhiAseThreaded.hpp`, `haseWorker.hpp` | one barrier, one slot per worker, one collective value | `gather`, `scatter`, `reduce` | the worker threads, shared memory without locks | data races, reuse of the memory by the next collective, a worker that leaves | each call is a rendezvous of all workers |
| **ASE evaluation** `include/core/forwardPhiAseEvaluator.hpp` | device meshes and contexts, per-worker results and exceptions | `evaluate`, `refreshDynamicMeshes` | worker threads, time loop | joining failed workers | returns or rethrows |
| **Adaptive ray sampling** `runForwardSimulation`, `include/core/types.hpp` | accumulated rays per batch, convergence counts, launch counter | one launch: trace, gather, merge, decide | worker group, device context | unsigned arithmetic, rounding, each worker decides alone, termination | all rays accounted for, alike decisions, stops for a reason |
| **Device execution context** `include/core/calcForwardPhiAse.hpp` | device buffers, per-batch counts, last SRM result | `configureBatchCount`, `begin`, `finish`, `evaluate`, `finalize…` | device queue | state left by an earlier batch | a batch reports itself only |
| **Surface reservoir method** `include/core/forwardSrm.hpp`, `src/core/srm.cpp` | two reservoirs, sampling distribution, weights, streak | `runForwardSrm` | non-blocking device queue | host and device run concurrently, buffers change roles, overlapping stop tests | a pass samples exactly the pass before it; the status is true |
| **Forward ray traversal** `include/kernels/forward/rayWalk.hpp`, `rayTransition.hpp`, `policyRay.hpp` | a ray's position, direction, cell and forbidden face | `walk`, face search, recovery around edges and vertices, boundary policies | mesh, reservoirs, pump kernels | ties and coordinates that round to either side of 0, walk limits | every segment in the cell it is booked in, every ray comes out |
| **Reservoir kernels** `include/kernels/forward/accumulation.hpp` | per-face slots, counts and weights | `depositReflection`, start of reflected rays | device memory, atomics | concurrent deposits into one slot | a slot is one ray |
| **Pump kernels** `include/kernels/generalPump.hpp` | relay frames, cached entry of every relay and ray | start on the pump surface, relay, reflection, absorption | walk, time stepping | a cache that outlives one stage of the integrator | a cached entry is what a search would find |
| **MPI workers** `include/core/calcPhiAseMpi.hpp` | rank-private results, buffers of the group | `gather` by `MPI_Allreduce` per batch and field, `scatter` by `MPI_Bcast`, `reduce` by `MPI_Allgather` | other ranks | a rank that throws between collectives, ranks that run ahead | same calls on every rank, batches arrive unmixed |
| **Time stepping** `include/core/timeSteppedSimulation.hpp` | beta fields, stage buffers, step counter | `run`, `advanceTimeStep`, `evaluateStage`, integrators, `makeSnapshot` | evaluator, pump kernels, writer, control channel | buffer swaps, order of stages, frozen ASE, output selection, control exchange | each stage reads the state it is defined on |
| **openPMD request loop** `src/openpmd/OpenPmdParser.cpp` | the context of the first iteration, replaced in part by later ones | `processRequestIterations`, `readIteration`, `validateDynamicOnlyIteration`, `updateDynamicIteration`, `writeResultIteration` | Python process through the stream | protocol of complete and dynamic iterations, a context the simulation changes | results answer the request they belong to |
| **Python streaming session** `pyInclude/openpmd/transport.py` | process, sender, reader and watchdog threads, their queues, pending results | open, `run`, `close`, `_run_streaming_simulation` | calcPhiASE process | late results, process exit, join timeouts | every request is answered or fails, closing leaves nothing behind |
| RNG streams, Python configuration and geometry, file output | – | – | – | statistical or without state over time | – |

`PROJECT.json` lists the same components with what is modelled, and under
`hazards` the places where the code is hard to test, each with the properties
that watch it.

## Modules

| Module | Role |
|---|---|
| `SnapshotStream` | abstract: an ordered stream with a window of unacknowledged snapshots that may break once |
| `SnapshotWriter` | the writer and its caller; shown to implement `SnapshotStream` |
| `SnapshotWriter_proofs` | the proofs about it |
| `Collectives` | abstract: the n-th collective is a rendezvous of all workers |
| `WorkerGroup` | `ThreadWorkerGroup`, the worker threads and `evaluate`; shown to implement `Collectives` |
| `WorkerGroup_proofs` | the proofs about it |
| `AdaptiveAse` | `runForwardSimulation` on top of the collectives |
| `AdaptiveAse_proofs` | the proofs about it |
| `SrmLoop` | `runForwardSrm` with the device queue |
| `SrmLoop_proofs` | the proofs about it |
| `BetaKernels` | the cell-wise kernels of the time loop, in arithmetic modulo a prime |
| `BetaEvolution` | abstract: a run whose steps follow the textbook formula of its integrator |
| `TimeStepping` | the time loop over an asynchronous queue; shown to implement `BetaEvolution` |
| `TimeStepping_proofs` | the proofs about its queue, devices and buffers, and that it implements `BetaEvolution` |
| `BatchExchange` | abstract: every rank gets every batch as its owner computed it, from one seed |
| `MpiGroup` | the MPI ranks over the iterations of a stream; shown to implement `BatchExchange` |
| `MpiGroup_proofs` | the proofs about it |
| `RequestRecords` | what an iteration carries and what the parser accepts, in operators |
| `StreamSession` | the Python session and the process it drives, on top of `RequestRecords` |
| `StreamSession_proofs` | the proofs about it |
| `Tet4Mesh` | a ray in a tetrahedral mesh: face search, ties, recovery, in operators |
| `PumpRelay` | relay frames and the mapping of positions and directions, in operators |
| `RayTracing` | the walk with its boundary policies, on top of both |
| `RayTracing_proofs` | the proofs about all three |
| `MC…` | one per model, for TLC |

The models fit together at these seams. `SnapshotStream` is what
`runCoreSimulation` may rely on when it hands over snapshots. `Collectives` is
what `runForwardSimulation` may rely on in one process: `WorkerGroup` shows that
the barriers and the shared memory provide it, and `AdaptiveAse` therefore takes a
gather as one step of all workers. `BatchExchange` is the same promise among
processes, stated about the data: `MpiGroup` shows that sums over zeros and
broadcasts deliver every batch once. `SrmLoop` takes a pass as one kernel that
deposits some weight; `RayTracing` opens that kernel. `TimeStepping` takes the
pump as one kernel; `RayTracing` traces its rays once per stage. `StreamSession`
takes an evaluation as one step of the process, which returns or throws.

A definition whose name ends in `_Slip`, `_Early`, `_Same`, `_RootOnly`, `_Any`,
`_NoLimit`, `_Again`, `_OffByOne`, `_Never`, `_Once`, `_Stale`, `_Always`,
`_ByPosition`, `_DevicesOnly`, `_IterationZero`, `_NoRecovery`, `_OnFaceInside`,
`_RayOnly`, `_Skipped` or `_Twice` is a mistake somebody could make in the code. No specification uses it. Put in the place of the definition it is
named after, it makes TLC report one of the properties as violated (the pairs are
listed under `mutants` in `PROJECT.json`), which shows that the property depends
on the code and not on the shape of the model.

### SnapshotWriter

Two threads. `pc` is where the simulation thread is in `enqueue`, `finish` or
`runCoreSimulation`, `drainPc` where the writer thread is in `drain`; `pending`,
`error`, `finishRequested` and `finished` are the members of those names. One
step is what a thread does while it holds the mutex, one notification, one write
or one join, because other threads can run between any two of these. A thread
that waits on a condition variable is at `"waiting"`; a notification moves it
back to re-test its predicate, and so may a spurious wakeup. `mode` is the pair
of constructor arguments: disabled (not the head rank), synchronous (MPI) or
asynchronous. A write may throw at any call, and the simulation may throw instead
of emitting its next snapshot. The contents of snapshots are abstracted to their
ordinals. `finish` inside the destructor does nothing new: the caller has always
called `finish` before.

### WorkerGroup

`pc[w]` is where worker `w` is inside a collective, `op[w]` how many it has
completed, `slots` and `shared` are `m_values` and `m_collectiveValue`, `arrived`
is the state of the `std::barrier`. A step is one access to the memory or one
arrival. A value is represented by the number of the collective it was made for,
so that an old or mixed result is visible. The order of calls is that of
`runForwardSimulation`: scatter of the seed, then per launch gather, scatter (the
two halves of `reduce`) and gather. `lastLaunch` is chosen at the start: it is
the launch whose result meets the stop condition. A worker may throw while it
traces or finalizes (`Fail`); it then ends without another collective, as the
lambda in `evaluate` does.

### AdaptiveAse

Every worker has its own copy of the loop's state (`raw`, `launches`,
`convergence`) and the state its device keeps between batches (`deviceSrm`).
Ray counts are modulo `UnsignedRange`. `GeometricSteps` computes the exact ceiling
of the geometric schedule with integers; `roundUp` lets `pow` come out just above
an exact integer, in which case `ceil` gives one more. The opposite error, a
`pow` just below an inexact value that lies within a rounding error above an
integer, cannot occur for the small numbers TLC uses and is not modelled. The
Monte Carlo estimate is reduced to its effect on control: after every launch with
rays, an arbitrary set of cells meets the threshold (`met`), except that cells
that have dropped a ray never do and that none does while fewer than two batches
have rays, as in the finalize kernel. All workers see the same `met`: they
compute it from equal data, which assumes devices that round alike. On devices
that do not, the decision of one worker could differ from that of another, and
nothing in the code would notice; this is outside the model.

### SrmLoop

`queue` is the device work enqueued and not yet executed, `reservoir` and `cdf`
the device memory, `totalHost` the host copy of the total weight. A host step is
what happens between two waits; `Device` executes the head of the queue at any
time in between. A reservoir remembers which passes deposited into it
(`from`) and the total weight. The weight a pass deposits is arbitrary, zero if
its rays carry none. The buffers start with whatever the previous launch left.
`history`, the weights deposited so far, exists for `StatusIsTruthful` only,
which compares what the host reports with what happened on the device.

### TimeStepping

`AdvanceTimeStep` is the list of instructions the host goes through in one step
of the chosen integrator: waits, kernels and copies into `m_queue`, and the call
of the ASE evaluation. The names `beta`, `betaNext` and `phi` in it are roles that
become buffers when the host reaches the instruction (`BufferOf`), which is what
`std::swap` and `m_phiAseDeviceResident` do in the code. `DeviceRun` executes the
head of the queue at any time. The ASE evaluation (`AseBegin` to `AseEnd`) works
beside that queue and is synchronous for the host: it makes the sampling
distribution from the beta buffer it is given, copies that buffer through the host
to the meshes of the other devices, or of all devices in an MPI rank, and traces
through the buffer on the first device and through the copies on the others. Each
of these steps reads its source at that moment. The pump kernels of one evaluation are one entry of the
queue, since nothing else uses their scratch buffer.

Fields are two numbers modulo 7, one for the cells of the active medium and one
for the cladding; in this arithmetic 1/2 and 1/6 are exact, so the formulas of the
kernels are the real ones and a slope taken from the wrong buffer shows. The pump
rate and the ASE flux are arbitrary functions of the field.

`blocking` holds what the buffers would be if every operation were executed when
it is enqueued. `AsIfBlocking` compares it with the real buffers, and
`EvolutionSpec` compares it, and the snapshots taken from the real buffers, with
`BetaEvolution`. Received controls of the wrong size, a missing receiver and a
callback, receiver or evaluation that throws end the run, and so does a backend
that has no device. `StagedCopies` says which of two
things a copy from host memory does when it is enqueued: some backends have taken
the data when the call returns, on others the queue reads it later. The fallback
that uploads a flux which is not device-resident is left out: `evaluate` is called
with its default argument and always leaves the flux on the device.

### MpiGroup

`pc[r]` is where rank `r` is in `processRequestIterations`, `runForwardSimulation`
or one of the collectives between; `posted[r]` is the history of its MPI calls,
each with what it contributes, and MPI matches the n-th calls of all ranks. A call
is entered in one step (`Enter`) and left in another (one `Leave…` per kind), so
that a rank can be several calls behind. A broadcast lets its root go on at once,
which is the most MPI allows; an all-reduce, an all-gather or a split lets nobody
leave before all have entered. `gather` makes one `MPI_Allreduce` per batch and
field (`Fields`), where ranks that do not own the batch add zeros. A result is
named by the seed and launch it was traced from and its batch, so a sum of two
results, or a result of an earlier launch, is visible. A rank may throw wherever
it reads, traces, decides or writes (`Fail`); it then waits in `MPI_Finalize` and
the others may stay in a collective for ever. `RanksExit` therefore promises
nothing once a rank has thrown; `CallsMatch` still holds then.

### RequestRecords and StreamSession

`RequestRecords` writes an iteration as the set of records it has, the set of
those that are refused when read, and the settings split into those
`validateDynamicOnlyIteration` compares (`listed`, `maxGpus`) and those it does
not (`unlisted`). `ReadIteration` is the first, complete iteration,
`Updates`/`UpdateDynamicIteration` a later one. `StartSimulation` is the one thing
an evaluation does to the context that is kept.

`StreamSession` has five actors. `client` is the caller in `run`
(`_wait_for_result`) or `close`; `sender`, `reader` and `watchdog` are the threads
of the session, and `process` is calcPhiASE from opening its streams to its
return code. Queues and events carry the names of the members. One step is one
operation on a queue, a stream, an event or the process, since every thread can
run between two of them. A bounded wait may time out whenever what it waits for is
not there; the joins of `close` likewise. `Crash` ends the process at any point;
`EvaluateFails` is an exception in the simulation; the sender may or may not notice
that its reader is gone (`SendBreaks`); a request may be one the sender
cannot write, or one with a beta the parser refuses. The stream itself is
external: ADIOS SST delivers iterations in order, a writer waits for its reader,
and the reader learns whether the stream was closed or broke off.

### Tet4Mesh, PumpRelay and RayTracing

`RayTracing` follows rays through a given mesh. `ray[r]` is `TraversalState`,
`pc[r]` where the ray is in `walk` or in its boundary policy, `steps[r]` the
iterations of the loop. `CrossCell` is one iteration: the next face, the segment
that is booked, the transition. `RecoverFace` is the iteration that finds no face
ahead. `RecoverFaceTransition` (in `Tet4Mesh`) goes from cell to cell around an
edge or vertex, preferring cells not among the last three, until one contains the
ray or `MaxImmediateFaceTransitions` are spent. At the surface, `policy` decides:
the ray escapes, deposits its reflection (`Reflect`, `Count`, `Weigh`, and five
times `StoreField`, because nothing orders the stores of two rays), or is mapped by
a relay or mirror through the cache (`RelayRay`, `ReflectRay`). The next pass
starts from whatever the slots hold (`NextReflectedPass`), the next stage from
the same rays and the filled cache (`NextStage`). A ray that starts from a slot two
rays wrote at once is `torn`, and so is every ray that starts from what it deposits.

Geometry is exact: integer vectors, points with a common denominator, barycentric
coordinates up to a positive factor. Doubles differ from this near 0 only, where
`barycentricTraversalTolerance` decides, and there the model branches: the
coordinate of a face that a ray stands on may come out positive (the face is
crossed again, with a length of about 0) or not (it is passed over). A coordinate
that is not 0 is taken to be outside of the tolerance, and a direction parallel to
a face as having no component through it. Gain, power, the tilt of a relay and the
random choice of starts are left out; where power ends a ray, the ray may end.

## Runs

| Run | Shows |
|---|---|
| `snapshot_writer` | order and no write after the close, backpressure, no silent loss, failures are final and reported, both threads end, refinement of `SnapshotStream` with its liveness |
| `worker_group` | no data race, results belong to their call, workers stop together, the evaluation ends unless a worker throws, refinement of `Collectives` |
| `worker_group_failing` | finding: a worker that throws leaves the others in a collective |
| `adaptive_ase` | the schedule never asks for fewer rays than are traced, every batch is counted once, decisions are alike and justified, convergence counts are kept, SRM status is current, sampling ends |
| `adaptive_no_steps` | finding: without steps the loop need not end |
| `srm_loop` | every pass follows the pass before it, the status is true |
| `time_stepping` | the queues never work on the same buffer at once, asynchronous execution changes no result, every integrator computes its formula and every snapshot belongs to its step |
| `time_stepping_control` | finding: a control may be gone before it is copied |
| `mpi_group` | the ranks make the same calls even when one throws, all exit unless one throws, refinement of `BatchExchange` |
| `stream_session` | an answer belongs to its request, a run fails for a reason, closing leaves nothing behind, every call returns |
| `stream_session_devices` | finding: with more devices asked for than there are, a repeated request is refused |
| `ray_tracing` | segments lie in the cells they are booked in, no walk fails or passes over a face, the pump's cache is what a search would find |

### Bounds

* `snapshot_writer`: 5 snapshots, queue of 1 as in the code. The writer holds at
  most 2, so 5 let every position of the two threads occur with snapshots before
  and behind. The proofs remove both bounds.
* `worker_group`: 3 workers, so that besides the root one can be ahead of another,
  and 3 launches, so that each kind of collective is followed by each other kind
  and a first, a middle and a last launch differ. The proofs remove both.
  Deadlock is not checked: finished workers stop, and workers left behind by one
  that threw really are stuck.
* `adaptive_ase`: 2 workers and 3 batches own 2 and 1 batches; ray limits
  1, 2, 4, 5, 8 contain equal limits, powers with exact steps, steps without new
  rays and fewer rays than batches; 0 to 3 steps; 2 cells can converge apart;
  numbers modulo 16, so a negative difference would wrap to a large launch.
  `LaunchCap` stops counting launches where the schedule no longer changes.
* `srm_loop`: weights 0 to 6 with tolerance 1/4 separate growing, resting,
  exhausted and zero weights; up to 4 passes and streaks up to 3 let a streak be
  interrupted and start again.

* `time_stepping`: three steps, so that the pump stops and the first-step
  exception for ASE ends while more steps follow, and buffers are swapped back;
  every integrator, 0 and 2 implicit iterations; no schedule and schedules with
  and without a gap; snapshots that wait for the queue and snapshots of the flux
  alone, which do not. Without ASE nothing waits, so whole steps pile up in the
  queue. One device; two devices with a worker each; a rank of MPI on its only
  device and on either of two. `time_stepping_control`: the same with two integrators and controls.
* `mpi_group`: 3 ranks and 4 batches, so that one rank owns two batches and a rank
  can be behind another in the same collective; up to 2 requests of up to 2
  launches each, so that every stage follows every other; a request with and
  without a seed. Deadlock is not checked: a rank that threw leaves others blocked.
* `stream_session`: up to 3 runs, so that a request can follow a good and a bad
  one, and an index can be skipped or repeated; two backends with 1 and 2 devices,
  of which the second is used. `MaxGpus` is 1 here and 4 in
  `stream_session_devices`, which is what separates the finding from the rest.
* `ray_tracing`: eight cubes of six tetrahedra, less the part beyond the plane
  x − y = 1: 42 cells, an interior vertex where 24 of them meet, and a surface that
  is not parallel to an axis. Rays go from inside every cell at every vertex used
  and at the midpoints around the interior vertex, which gives exact hits on
  vertices, edges and faces; from points on faces; from the pump surface through
  two relays or mirrors; and two at once into one slot of the slanted surface,
  where two torn directions point outwards or vanish. `MaxImmediateFaceTransitions`
  is 32 as in the code, `MaxTraversalSteps` 40 instead of 10000: the longest walk
  must end far below it for `RaysComeOut`, so a smaller limit is the stricter
  check. Three passes or stages: the second is the first that reads what the first
  left, the third the first that reads what came of it.

### Fairness

Threads are scheduled by the operating system, so a thread that can move does so
eventually: weak fairness of the simulation thread, the writer thread, each
worker and the joining thread. Nothing is assumed of failures or spurious wakeups,
which happen or not. In `AdaptiveAse` nothing is assumed of the estimates. In
`MpiGroup` each rank is a scheduled process and MPI completes a call once it has
what it needs; in `StreamSession` the caller inside a call, each helper thread and
the process go on, and a bounded wait ends. The caller is not obliged to call
again or to close.

## Proofs

All proofs hold for every value of the constants, from the assumptions named in
the modules: a queue capacity of at least one, a root that is one of the workers,
at least one launch, ray limits and weights that are natural numbers, runs that
`validateRunParameters` accepts, at least one device per backend. The proofs about
rays assume of the mesh what a mesh is (`CellAssumption`: each vertex of a cell has
a face opposite to it; `NeighborAssumption`: two cells with a common face know each
other and have its vertices in common; `VolumeAssumption`: no cell is flat, and
neighbors lie on different sides of their face), of sources that rays start in their
cell and do not leave through the face they start on (`StartsAssumption`), of relays
that their numbers are rational (`RelaysAssumption`), and of pump surfaces that they
are plane with an integer frame (`FrameAssumption`), as `makeRelayFrame` demands but
for the integers. TLC evaluates all of these on the mesh of `MCRayTracing`.

Some theorems have a hypothesis of their own. Three leave out exactly what a finding
is about: `QueueIsInvisible` and what rests on it, `EvolutionInvariant` and
`TimeSteppingImplementsBetaEvolution` (controls are not copied late, finding 3), and
`RunsFailOnlyForAReason` (the devices asked for are there, finding 4). Four concern
a ray that stands exactly on a face it leaves through, where the code goes on past
that face or across it as rounding has it: `SegmentsStayInside`,
`RaysLeaveAtSurface` and `CacheStaysOnFaces` need that it does not pass over the face
with another one ahead (`NonePassedOver`), `CacheStaysFresh` that a pump ray has no
such choice (`NoneWavers`). `RaysComeOut` contains both conditions, so the run
`ray_tracing` checks that every state of it satisfies them. In the code, the
same computation in two stages rounds alike; the model does not say so, which is
why `CacheStaysFresh` needs its condition.

Hardly any of these properties is inductive. Each proofs module states the
invariant that is, has one lemma or step for each action that must keep it, and
takes the theorems from it. The parts of these invariants that TLC can evaluate were
checked on the small instances first; the others say that a sequence of buffers
(`Pending`, `Underway`) or a set of places (`RouteInv`) exists, of which there are too
many to enumerate.

`SnapshotWriter_proofs` proves the type invariant, `WrittenInOrder` (which
includes that nothing is written after the series is closed), `BoundedBacklog`,
`NothingLostSilently`, `FailureIsFinal`, and that the writer implements the safety part of
`SnapshotStream`. `IInv` adds what the threads know:
the accepted snapshots are, in order, the written ones, the one in hand and the
pending ones (`Backlog`), the counts add up in every mode and after a failure
(`Accounting`), and the program counters say which thread may still change this
(`Phases`, `NoThread`). `InductiveStep` has one step per action and below it one
per conjunct.

`WorkerGroup_proofs` proves the type invariant, `NoDataRace`,
`ResultIsOfThisCall`, `WorkersAgree` and the refinement of `Collectives`.
`GroupInv` says that the barrier keeps all workers in the same stretch of the same
collective (`Lockstep`), what the memory holds in each stretch (`Contents`), and
that nobody enters a collective after the last launch (`Progress`). The lemma
`SameArrival` is the heart of it: when the last worker arrives, all of them are at
the same arrival.

`AdaptiveAse_proofs` proves the type invariant, `NoAccountingError`,
`WorkersAgree`, `StopsForAReason`, `SrmStatusIsCurrent` and the action property
`ConvergenceKept`, for any number of workers, batches, cells and rays and for any
choice of the steps where `pow` rounds up. `TargetInRange` shows that the schedule
stays between the limits and never falls below what was traced, so the unsigned
difference does not wrap (`LaunchSize`). `RaysOfABatch` and `WholeLaunch` show that
the rays of all batches add up to the launch: ray number j goes to batch j mod B,
which is a bijection between rays and places in batches. `Behind` says
what one worker may have merged before another one has: both hold the same state,
or one holds what the other had before its last decision.

`SrmLoop_proofs` proves the type invariant, `PassFollowsPass` and
`StatusIsTruthful`. The invariant lists, for every point where the host can be, which
work the queue can still hold and what the two reservoirs, the sampling distribution
and the host's copy of the weight contain when so much of it is done; the weights
the host has compared are those of `history`.

`TimeStepping_proofs` proves the type invariant, `AsePrivate` and, unless a control
is copied late, `AsIfBlocking`. The queue is followed symbolically: applying what it
holds to the buffers as they are gives the buffers as they would be in `blocking`.
`QueueInvariant` says in addition which instructions can be queued at
every point of a step: when the host enters the evaluation, nothing that touches
the population or the flux is among them.

Its second part proves `EvolutionSpec`: the time loop implements
`BetaEvolution`, for every integrator, schedule, number of devices and iterations, and
whatever the kernels compute. It executes the instructions of a step symbolically.
`Leads(s, p, u)` says that the list p leads from the buffers s to the buffers u; a
list leads where its parts lead (`LeadsThrough`, `LeadsRepeated`), a kernel sets one
field and keeps the others (`SimpleKernel`), a stage leaves the terms and the slope
of the population it was given (`StageLeads`), and so each method ends with what its
formula says (`StepIntegrates`); the fixed-point iteration goes by the smallest
iteration that could fail, which takes the place of induction. The invariant
`EvolutionInv` joins this to the loop: from the start of the step the instructions
before `at` lead to the buffers as they are in `blocking` (`Underway`), a snapshot
without a flux of its own finds zeros (`Reported`), and the cursor divides the
schedule at the current step (`Schedule`), without which looking only at the next
entry would not be enough. `SnapshotIs` is where the two queues meet: what comes
through the step queue has waited for it, and the flux has arrived anyway because no
kernel writes it (`FluxArrived`).

`MpiGroup_proofs` proves the type invariant, `CallsMatch` and that the group
implements `BatchExchange`. The invariant `ScriptInv` says that the calls a rank has
posted are a function of how far it is: every rank follows the one script that
seed, requests and launches determine, and a rank that threw has stopped on it. A
sum over the ranks of a batch that all but one fill with zeros is then what the
owner traced.

`StreamSession_proofs` proves the type invariant, `AnswersMatch`,
`NothingLeftBehind` and `RunFailsForAReason`. `Flow` says what the ends of threads,
streams and process allow each other to be. While every run was answered, the
request asked last is at one of six places, in the queue, the input stream, the
process, the output stream, the queue of results or nowhere (`Whereabouts`), so what arrives is
its answer. Once a run has raised, no answer can arrive any more (`Over`),
because the process is broken, nothing is read, or nothing is on its way; each of
these stays, although the index of the failed request is used again. `Reasons` adds
that no thread and no process ends before a request that cannot be answered, a
crash, or `close`.

`RayTracing_proofs` proves the type invariant, `SegmentsInside`, the last part of
`RaysComeOut` and `CacheIsFresh`, for any mesh, sources, relays and mirrors.

The type invariant already needs some geometry: the face search finds a face with a
positive distance (`TypeInv`), so that the ray comes to a position with a denominator,
and a recovery ends in a cell of the mesh or fails.

`SegmentsInside` follows from `InsideInv`. A ray that walks is in its cell and does
not leave through the forbidden face, and one at the boundary stands on a face it
leaves through (`RaysInside`). Three things keep this. Going to the nearest face, no
coordinate of the ray falls below 0 (`AdvanceStaysInside`). Crossing a face, the ray is
in the next cell: the two sides of a face measure the same height with opposite signs,
up to a positive factor (`SharedFace`, from two linear functions that vanish on the
same plane, `Parallel`), so the face it came through is one it moves away from; and a
recovery around an edge or a vertex ends only in a cell that contains the ray and that
it enters (`TransitionArrives`). And starting anew at the surface, the ray goes
inwards: a mirror turns the component along the normal (`MirrorTurns`), a relay maps
directions out of the exit to directions into the entry, whose faces all lie in the
plane of the frame (`MappedComesIn`), and the point is a convex combination of the
corners of a face that the cache must name (`CacheInside`). A reflected pass starts
from a slot, so `StoreInv` says what slots hold: the rays of a face below the count have
slots of their own as long as there are any (`SlotsInTurn`, `FirstOnesCounted`), a
slot that is counted when the kernel has ended was filled (`SlotsHold`), and its bin
belongs to one ray (`Alone`). A slot that equals what a ray brought is therefore this
face's, and points into the mesh (`WholeSlotPointsInside`); any other makes the ray
that starts from it `torn`.

`CacheIsFresh` follows from `RouteInv`. A ray of the pump goes from place to place
by a function (`GoesTo`), so all the stages so far have gone along one route, each
as far as the power lasted. A route is a set of places in which every place but the
last reached has its successor, and only one place at the boundary has a given number
of relays behind it (`IsRoute`). What the cache holds for a relay was found at a
place of the route, and that can only be the place the ray is at (`CachedIsFound`).

Left to TLC: the liveness properties (`RunEnds`, `EvaluationEnds`,
`SamplingEnds`, `RanksExit`, `CallsReturn` and the liveness part of `StreamSpec`),
which the prover cannot handle under fairness; and, of `RaysComeOut`, that no walk
fails or passes over a face. The latter is a property of the starts, and the former
would need a measure that falls from cell to cell through a whole mesh.

## Findings

1. **A worker that throws blocks its group.** `evaluate` catches the exception in
   the worker's lambda, but the other workers wait in `std::barrier` for a worker
   that never arrives, and `evaluate` waits for them. `haseWorker.hpp` demands
   identical collective calls of all workers (run `worker_group_failing`).
2. **`adaptiveSteps = 0` may not end.** `forwardAseRse.rst` promises that rays are
   added until the threshold or `maxRays` is reached. Without steps the target
   stays at `minRays`, so launches of zero rays follow each other for ever unless
   the first one was good enough (run `adaptive_no_steps`).
3. **A control field is copied after it may be freed.** `run` enqueues the copy of
   the received `beta_volume` and destroys the vector at the end of the block.
   Nothing waits in between, although every other copy from a local vector does.
   Where the queue reads host memory only when the copy's turn comes, the step
   starts from whatever the memory holds by then (run `time_stepping_control`).
   With `StagedCopies` the run `time_stepping` finds nothing wrong.
4. **A repeated request may be refused.** `startSimulation` overwrites
   `compute.numDevices` of the context it is given, and `processRequestIterations`
   keeps that context. When `max_gpus` is 0 or more than there are devices, the
   second of two equal requests is refused as a change of `max_gpus`, although the
   warning says that all devices will be used instead and the documentation asks
   to keep one stream open for repeated calls (run `stream_session_devices`).

Limits the models made visible. Cladding cells keep their beta under all
integrators except exponential Euler, whose update lets it decay
(`ExponentialEulerUpdate`). And, stated in `SrmStatusIsCurrent`: the SRM status of
a result is certainly from this evaluation only if the first launch has a ray for
the first batch of every worker. With fewer rays than workers a device hands out
the status its previous evaluation left.

A setting or static array that `validateDynamicOnlyIteration` does not list is
ignored in later iterations without a word: in `AnswersMatch` an answer has the
`unlisted` values of the first request. A slot that two rays wrote at once can
hold a direction that points out of the mesh or is zero; such a ray strays or is
dropped, and `SegmentsInside` and `RaysComeOut` leave it out (`torn`).
`theoryAndModel.rst:203-207` counts dropped histories and leaves them out of the
estimate. And a ray that starts exactly on a boundary edge of its face can be
traced in the wrong cell (`PassesOver`); starts on edges have probability 0 and are
not used. `SegmentsStayInside` shows that nothing but these two takes a ray out of its
cell.

## Plan

What is built: the writer, the worker group, adaptive sampling, the reservoir
loop, the time loop, the MPI ranks, the request loop with the streaming session,
and the ray walk with reservoirs and relays. Their safety properties are proved but
for the rest of `RaysComeOut`, and so are all refinements but for their liveness.
What is left, in order of importance:

1. The threads of `_run_streaming_simulation`, which feed controls to
   `TimeStepping` and take its snapshots.
2. That a walk comes out of a mesh: which cells a recovery can try, and why it does
   not go in circles.

## Not modelled

Floating-point physics, statistics and the size of rounding errors; gain, power
and absorption along a ray; random numbers. Of the session: the file mode, the
artifact manifest, `_run_streaming_simulation`, and interrupts of the caller's
wait. Of the parser: the checks of a single record (type, extent, range), which
are one set of refused records, and the wording of errors. Configuration objects,
mesh import and file formats of the Python package; VTK and progress output; build
files, benchmarks and examples. The enumeration of backends beyond the number of
their devices. Thread creation failing after some threads run
(`forwardPhiAseEvaluator.hpp:332`) terminates the process and has no state left to
check.

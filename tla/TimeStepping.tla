---------------------------- MODULE TimeStepping ----------------------------
(***************************************************************************)
(* CompiledSimulationRunner (include/core/timeSteppedSimulation.hpp): the  *)
(* time loop as it runs.  The host enqueues kernels and copies into a      *)
(* non-blocking queue that a device works off in order, waits for it only  *)
(* where the code waits, and calls the ASE evaluation, which reads beta    *)
(* and writes its own flux buffer on another queue.  Beta and betaNext are *)
(* two buffers whose roles the host swaps after every step.                *)
(*                                                                         *)
(* The evaluation (ForwardPhiAseContext, forwardPhiAseEvaluator.hpp) runs  *)
(* on one device or on several.  The first one reads the population it is  *)
(* given in place; the others have copies in their meshes.                 *)
(***************************************************************************)
EXTENDS BetaKernels, Sequences, SequencesExt

CONSTANTS
    Runs,         \* the run parameters, after validateRunParameters
    StartFields,  \* the beta_volume of the input
    Controls,     \* the beta_volume Python may send
    Freed,        \* what a freed host vector may hold
    StagedCopies  \* a memcpy from pageable host memory has read its source when
                  \* it returns (TRUE), or reads it when the queue gets there

\* The integrators, and a name that no integrator has.
Methods == {"explicit-euler", "heun", "midpoint", "runge-kutta-4",
            "frozen-phi-ase-runge-kutta-4", "implicit-euler", "exponential-euler",
            "unsupported"}

\* The fields a snapshot may have; what is not kept here comes with phi.
OutputFields == {"beta", "phi", "dndtPump", "dndtAse"}

\* What validateRunParameters accepts.
ValidRun(r) ==
    /\ r.method \in Methods
    /\ r.numberOfSteps \in Nat \ {0}
    /\ r.outputSteps \in Seq(1 .. r.numberOfSteps)
    /\ \A i \in 2 .. Len(r.outputSteps) : r.outputSteps[i - 1] < r.outputSteps[i]
    /\ r.outputs # {} /\ r.outputs \subseteq OutputFields
    /\ r.control => r.sync
    /\ r.sync => r.outputSteps = <<>>
    /\ {r.iterations, r.numDevices, r.deviceCount, r.localRank} \subseteq Nat

ASSUME RunsAssumption == \A r \in Runs : ValidRun(r)
ASSUME StagedCopiesAssumption == StagedCopies \in BOOLEAN
ASSUME FieldsAssumption == StartFields \cup Controls \cup {Freed} \subseteq Field

VARIABLES
    run,       \* m_run
    pc,        \* where run() is
    step,      \* completed steps
    at,        \* the next host instruction of advanceTimeStep
    front,     \* the buffer that m_beta names; m_betaNext names the other
    queue,     \* m_queue: what was enqueued and not executed
    buf,       \* device buffers
    resident,  \* m_phiAseDeviceResident
    ase,       \* the ASE evaluation in progress: its beta buffer, what it does next
    hostBeta,  \* m_hostMesh.betaVolume
    meshes,    \* m_meshes: of every device betaVolume, and the field its
               \* betaVolumePrefix was made from
    cursor,    \* m_nextOutputStep, from 1
    vector,    \* the host vector of the last control
    sent,      \* the snapshots handed to the callback
    blocking   \* the device buffers if every operation were executed when it is
               \* enqueued; only the properties look at it

host == <<pc, step, at, front, resident, cursor>>
aseVars == <<ase, hostBeta, meshes>>
vars == <<run, host, queue, buf, aseVars, vector, sent, blocking>>

None == <<>>
Other(b) == IF b = "betaA" THEN "betaB" ELSE "betaA"
Buffers == {"betaA", "betaB", "stage", "phiAse", "volumePhi", "derivative",
            "dndtPump", "dndtAse", "k1", "k2", "k3", "k4"}
Pcs == {"advance", "output", "control", "leave", "done", "failed"}

PumpEnabled == step < run.pumpSteps
AseEnabled == run.enableAse /\ ~(run.prePump /\ step = 0)

\* startTimeSteppedSimulation: what numDevices asks for, as far as there are
\* devices of the backend.
Devices ==
    1 .. IF run.numDevices = 0 THEN run.deviceCount ELSE Min({run.numDevices, run.deviceCount})
Primary == 1

----------------------------------------------------------------------------
(* The host instructions of one step.                                      *)

Kernel(op, in, out) == [op |-> op, in |-> in, out |-> out]
When(condition, instructions) == IF condition THEN instructions ELSE <<>>

\* beta, betaNext and phi are roles, given a buffer when the host gets there.
BufferOf(name) ==
    CASE name = "beta" -> front
      [] name = "betaNext" -> Other(front)
      [] name = "phi" -> IF resident THEN "volumePhi" ELSE "phiAse"
      [] OTHER -> name

\* Mutants: no wait for the queue, and a wait in the first step only.
BeforeAse_Never(refreshAse) == <<>>
BeforeAse_Once(refreshAse) ==
    When(refreshAse /\ AseEnabled /\ step = 0, <<Kernel("wait", <<>>, None)>>)

BeforeAse(refreshAse) ==
    When(refreshAse /\ AseEnabled, <<Kernel("wait", <<>>, None)>>)

EvaluateStage(b, refreshAse) ==
    BeforeAse(refreshAse)
    \o When(PumpEnabled, <<Kernel("pump", <<b>>, "dndtPump")>>)
    \o When(refreshAse /\ AseEnabled, <<Kernel("ase", <<b>>, "volumePhi")>>)
    \o When(refreshAse /\ ~AseEnabled, <<Kernel("fill", <<>>, "phiAse")>>)
    \o <<Kernel(IF PumpEnabled THEN "composePumped" ELSE "compose",
               <<b, "phi", "dndtPump">>, "derivative")>>

IntegrateRungeKutta4(refreshLater) ==
    EvaluateStage("beta", TRUE)
    \o <<Kernel("copy", <<"derivative">>, "k1"), Kernel("addHalf", <<"beta", "k1">>, "stage")>>
    \o EvaluateStage("stage", refreshLater)
    \o <<Kernel("copy", <<"derivative">>, "k2"), Kernel("addHalf", <<"beta", "k2">>, "stage")>>
    \o EvaluateStage("stage", refreshLater)
    \o <<Kernel("copy", <<"derivative">>, "k3"), Kernel("add", <<"beta", "k3">>, "stage")>>
    \o EvaluateStage("stage", refreshLater)
    \o <<Kernel("copy", <<"derivative">>, "k4"),
         Kernel("rk4", <<"beta", "k1", "k2", "k3", "k4">>, "betaNext")>>

\* The instructions s, n times over.
Repeated(s, n) == [i \in 1 .. n * Len(s) |-> s[((i - 1) % Len(s)) + 1]]

IntegrateImplicitEuler ==
    LET iterations == IF run.iterations = 0 THEN 1 ELSE run.iterations
        iteration  == EvaluateStage("stage", TRUE)
                      \o <<Kernel("add", <<"beta", "derivative">>, "betaNext"),
                           Kernel("copy", <<"betaNext">>, "stage")>>
    IN  <<Kernel("copy", <<"beta">>, "stage")>>
        \o Repeated(iteration, iterations)

ExplicitEuler ==
    EvaluateStage("beta", TRUE) \o <<Kernel("add", <<"beta", "derivative">>, "betaNext")>>

Heun ==
    EvaluateStage("beta", TRUE)
    \o <<Kernel("copy", <<"derivative">>, "k1"), Kernel("add", <<"beta", "k1">>, "stage")>>
    \o EvaluateStage("stage", TRUE)
    \o <<Kernel("heun", <<"beta", "k1", "derivative">>, "betaNext")>>

Midpoint ==
    EvaluateStage("beta", TRUE)
    \o <<Kernel("addHalf", <<"beta", "derivative">>, "stage")>>
    \o EvaluateStage("stage", TRUE)
    \o <<Kernel("add", <<"beta", "derivative">>, "betaNext")>>

ExponentialEuler ==
    EvaluateStage("beta", TRUE)
    \o <<Kernel("exponential", <<"beta", "dndtPump", "dndtAse">>, "betaNext")>>

AdvanceTimeStep ==
    (CASE run.method = "explicit-euler" -> ExplicitEuler
       [] run.method = "heun" -> Heun
       [] run.method = "midpoint" -> Midpoint
       [] run.method = "runge-kutta-4" -> IntegrateRungeKutta4(TRUE)
       [] run.method = "frozen-phi-ase-runge-kutta-4" -> IntegrateRungeKutta4(FALSE)
       [] run.method = "implicit-euler" -> IntegrateImplicitEuler
       [] run.method = "exponential-euler" -> ExponentialEuler)
    \o <<Kernel("clip", <<"betaNext">>, "betaNext")>>

----------------------------------------------------------------------------
(* The device.                                                             *)

\* What a kernel with one output writes, from its inputs x.  A copy from a host
\* vector that is not staged reads the vector now.
Written(k, x) ==
    CASE k.op = "copy" -> x[1]
      [] k.op = "fill" -> Zero
      [] k.op = "pump" -> PumpRate(x[1])
      [] k.op = "add" -> AddScaled(x[1], x[2], DT)
      [] k.op = "addHalf" -> AddScaled(x[1], x[2], Half * DT)
      [] k.op = "heun" -> CombineHeun(x[1], x[2], x[3])
      [] k.op = "rk4" -> CombineRungeKutta4(x[1], x[2], x[3], x[4], x[5])
      [] k.op = "exponential" -> ExponentialEulerUpdate(x[1], x[2], x[3])
      [] k.op = "clip" -> ClipBeta(x[1])
      [] k.op = "load" -> k.value
      [] k.op = "read" -> vector

\* Mutant: the rate of the last pumped step stays behind.
Compose_Stale(b, x, pumpEnabled) ==
    LET term == AseTerm(x[1], x[2])
    IN  [b EXCEPT !.dndtPump = PumpTerm(x[3], TRUE), !.dndtAse = term,
                  !.derivative = Derivative(x[1], PumpTerm(x[3], pumpEnabled), term)]

\* ComposeDerivative clears a pump rate that no longer applies and keeps both
\* terms for the snapshot.
Compose(b, x, pumpEnabled) ==
    LET pump == PumpTerm(x[3], pumpEnabled)
        term == AseTerm(x[1], x[2])
    IN  [b EXCEPT !.dndtPump = pump, !.dndtAse = term,
                  !.derivative = Derivative(x[1], pump, term)]

Execute(b, k) ==
    LET x == [i \in DOMAIN k.in |-> b[k.in[i]]]
    IN  IF k.op \in {"compose", "composePumped"}
        THEN Compose(b, x, k.op = "composePumped")
        ELSE [b EXCEPT ![k.out] = Written(k, x)]

\* copyVectorToBuffer(m_queue, betaVolume, m_beta).
LoadControl(v) ==
    IF StagedCopies
    THEN [op |-> "load", in |-> <<>>, out |-> front, value |-> v]
    ELSE Kernel("read", <<>>, front)

DeviceRun ==
    /\ queue # <<>>
    /\ buf' = Execute(buf, Head(queue))
    /\ queue' = Tail(queue)
    /\ UNCHANGED <<run, host, aseVars, vector, sent, blocking>>

----------------------------------------------------------------------------
(* The host.                                                               *)

Init ==
    /\ run \in Runs
    /\ pc = "advance"
    /\ step = 0
    /\ at = 1
    /\ front = "betaA"
    /\ queue = <<>>
    /\ \E beta \in StartFields : buf = [b \in Buffers |-> IF b = "betaA" THEN beta ELSE Freed]
    /\ resident = FALSE
    /\ ase = None
    /\ hostBeta = buf.betaA
    /\ meshes = [d \in Devices |-> [beta |-> hostBeta, prefix |-> hostBeta]]
    /\ cursor = 1
    /\ vector = Freed
    /\ sent = <<>>
    /\ blocking = buf

\* No backend of that name has a device, or the method is unknown.
Runnable == run.deviceCount > 0 /\ run.method # "unsupported"

Instruction == AdvanceTimeStep[at]

\* The host is inside advanceTimeStep, at an instruction with this name.
AtInstruction(op) ==
    /\ pc = "advance"
    /\ Runnable
    /\ at <= Len(AdvanceTimeStep)
    /\ Instruction.op = op

InOrder(k) == Kernel(k.op, [i \in DOMAIN k.in |-> BufferOf(k.in[i])], BufferOf(k.out))

Enqueue ==
    /\ pc = "advance"
    /\ Runnable
    /\ at <= Len(AdvanceTimeStep)
    /\ Instruction.op \notin {"wait", "ase"}
    /\ queue' = Append(queue, InOrder(Instruction))
    /\ blocking' = Execute(blocking, InOrder(Instruction))
    /\ resident' = (resident /\ Instruction.op # "fill")
    /\ at' = at + 1
    /\ UNCHANGED <<run, pc, step, front, buf, aseVars, cursor, vector, sent>>

Wait ==
    /\ AtInstruction("wait")
    /\ queue = <<>>
    /\ at' = at + 1
    /\ UNCHANGED <<run, pc, step, front, queue, buf, resident, aseVars, cursor, vector, sent, blocking>>

----------------------------------------------------------------------------
(* The ASE evaluation.                                                     *)

\* evaluate asks for the host values in MPI mode, too.
RequireHostValues == Cardinality(Devices) > 1 \/ run.mpi

\* refreshDynamicMeshes makes the sampling distribution of the first device.
AseBegin ==
    /\ AtInstruction("ase")
    /\ ase = None
    /\ LET from == BufferOf(Instruction.in[1])
       IN  /\ ase' = [from |-> from, next |-> IF RequireHostValues THEN "download" ELSE "trace"]
           /\ meshes' = [meshes EXCEPT ![Primary].prefix = buf[from]]
    /\ UNCHANGED <<run, host, queue, buf, hostBeta, vector, sent, blocking>>

DownloadBeta ==
    /\ ase # None /\ ase.next = "download"
    /\ hostBeta' = buf[ase.from]
    /\ ase' = [ase EXCEPT !.next = "refresh"]
    /\ UNCHANGED <<run, host, queue, buf, meshes, vector, sent, blocking>>

\* Mutant: the other devices are refreshed in MPI mode only.
Refreshed_Slip == IF run.mpi THEN Devices ELSE {}

\* The first device is given its beta in place, but for MPI ranks.
Refreshed == IF run.mpi THEN Devices ELSE Devices \ {Primary}

\* Every copy is waited for, and the distribution is made from the copy.
RefreshMeshes ==
    /\ ase # None /\ ase.next = "refresh"
    /\ meshes' = [d \in Devices |->
          IF d \in Refreshed THEN [beta |-> hostBeta, prefix |-> hostBeta] ELSE meshes[d]]
    /\ ase' = [ase EXCEPT !.next = "trace"]
    /\ UNCHANGED <<run, host, queue, buf, hostBeta, vector, sent, blocking>>

\* One worker for every device, or a rank with a device of its own.
Workers == IF run.mpi THEN {1 + (run.localRank % Cardinality(Devices))} ELSE Devices

\* primaryMeshView, or the view of another mesh.
TracedThrough(d) == IF d = Primary THEN buf[ase.from] ELSE meshes[d].beta

\* The batches of all workers are merged: here, a mean.
Merged(first, second) ==
    LET Mean(c) == (Half * (first[c] + second[c])) % P IN Each(Mean)

Flux ==
    LET Of(d) == AseFlux(meshes[d].prefix, TracedThrough(d))
    IN  Merged(Of(Min(Workers)), Of(Max(Workers)))

\* The rays have been traced, the flux is on the first device and evaluate()
\* returns.
AseEnd ==
    /\ ase # None /\ ase.next = "trace"
    /\ buf' = [buf EXCEPT !.volumePhi = Flux]
    /\ blocking' = [blocking EXCEPT !.volumePhi =
                        AseFlux(blocking[ase.from], blocking[ase.from])]
    /\ resident' = TRUE
    /\ ase' = None
    /\ at' = at + 1
    /\ UNCHANGED <<run, pc, step, front, queue, cursor, hostBeta, meshes, vector, sent>>

\* A worker threw, and evaluate() rethrows.
AseFails ==
    /\ ase # None
    /\ ase' = None
    /\ pc' = "failed"
    /\ UNCHANGED <<run, step, at, front, queue, buf, resident, cursor, hostBeta, meshes,
                   vector, sent, blocking>>

----------------------------------------------------------------------------
(* The run.                                                                *)

NotRunnable ==
    /\ pc = "advance"
    /\ ~Runnable
    /\ pc' = "failed"
    /\ UNCHANGED <<run, step, at, front, queue, buf, resident, aseVars, cursor, vector, sent, blocking>>

\* The work of the step may still be queued: it holds on to its buffers.
CompleteStep ==
    /\ pc = "advance"
    /\ Runnable
    /\ at > Len(AdvanceTimeStep)
    /\ front' = Other(front)
    /\ step' = step + 1
    /\ pc' = "output"
    /\ UNCHANGED <<run, at, queue, buf, resident, aseVars, cursor, vector, sent, blocking>>

\* outputSteps is increasing, so that the next one is all there is to look at.
AtNextOutputStep == cursor <= Len(run.outputSteps) /\ run.outputSteps[cursor] = step
ShouldOutput == run.outputSteps = <<>> \/ AtNextOutputStep

\* Mutant: every output takes an entry of the schedule.
NextCursor_Always == IF run.sync THEN cursor ELSE cursor + 1

NextCursor == IF run.sync \/ ~AtNextOutputStep THEN cursor ELSE cursor + 1

\* What the downloads of makeSnapshot find.  Without a resident flux the result
\* on the host is the zeros of initializeResult.
Download ==
    [beta |-> buf[front], dndtPump |-> buf.dndtPump, dndtAse |-> buf.dndtAse,
     phi |-> IF resident THEN buf.volumePhi ELSE Zero]

AfterOutput ==
    CASE step = run.numberOfSteps -> "done"
      [] step # run.numberOfSteps /\ run.sync -> "control"
      [] OTHER -> "advance"

\* A download from m_queue waits for it; the flux is on the queue of the ASE.
Output ==
    /\ pc = "output"
    /\ run.sync \/ ShouldOutput
    /\ run.outputs \subseteq {"phi"} \/ queue = <<>>
    /\ cursor' = NextCursor
    /\ \/ /\ sent' = Append(sent, [step |-> step,
                                   fields |-> [f \in run.outputs |-> Download[f]]])
          /\ pc' = AfterOutput
       \/ /\ pc' = "failed"   \* the callback threw
          /\ UNCHANGED sent
    /\ at' = 1
    /\ UNCHANGED <<run, step, front, queue, buf, resident, aseVars, vector, blocking>>

SkipOutput ==
    /\ pc = "output"
    /\ ~run.sync
    /\ ~ShouldOutput
    /\ pc' = AfterOutput
    /\ at' = 1
    /\ UNCHANGED <<run, step, front, queue, buf, resident, aseVars, cursor, vector, sent, blocking>>

\* receiveControl returns, and a beta_volume that fits is copied into m_beta.
ReceiveControl ==
    /\ pc = "control"
    /\ run.receiver
    /\ \E v \in Controls :
          /\ vector' = v
          /\ IF run.control
             THEN /\ queue' = Append(queue, LoadControl(v))
                  /\ blocking' = [blocking EXCEPT ![front] = v]
             ELSE UNCHANGED <<queue, blocking>>
    /\ pc' = "leave"
    /\ UNCHANGED <<run, step, at, front, buf, resident, aseVars, cursor, sent>>

\* There is no receiver, the stream ended, or the size is wrong.
ControlFails ==
    /\ pc = "control"
    /\ pc' = "failed"
    /\ UNCHANGED <<run, step, at, front, queue, buf, resident, aseVars, cursor, vector, sent, blocking>>

\* The end of the block destroys the vector that was received.
LeaveBlock ==
    /\ pc = "leave"
    /\ vector' \in {vector, Freed}
    /\ pc' = "advance"
    /\ UNCHANGED <<run, step, at, front, queue, buf, resident, aseVars, cursor, sent, blocking>>

\* run() is over; what is still queued may or may not be executed.
Rest ==
    /\ pc \in {"done", "failed"}
    /\ queue = <<>>
    /\ UNCHANGED vars

Next ==
    \/ Enqueue \/ Wait \/ AseBegin \/ DownloadBeta \/ RefreshMeshes \/ AseEnd \/ AseFails
    \/ NotRunnable \/ CompleteStep
    \/ Output \/ SkipOutput \/ ReceiveControl \/ ControlFails \/ LeaveBlock
    \/ DeviceRun \/ Rest

Spec == Init /\ [][Next]_vars

----------------------------------------------------------------------------
(* Properties.                                                             *)

TypeOK ==
    /\ run \in Runs
    /\ pc \in Pcs
    /\ step \in 0 .. run.numberOfSteps
    /\ at \in Nat \ {0}
    /\ front \in {"betaA", "betaB"}
    /\ \A i \in DOMAIN queue : queue[i].out \in Buffers
    /\ buf \in [Buffers -> Field]
    /\ resident \in BOOLEAN
    /\ ase = None \/ ase \in [from : Buffers, next : {"download", "refresh", "trace"}]
    /\ hostBeta \in Field
    /\ meshes \in [Devices -> [beta : Field, prefix : Field]]
    /\ cursor \in 1 .. Len(run.outputSteps) + 1
    /\ vector \in Field
    /\ blocking \in [Buffers -> Field]

\* The ASE evaluation runs beside m_queue, so nothing that is queued meanwhile
\* may write the beta it reads or use the flux buffer it writes
\* (evaluateStage waits for the queue before the evaluation).
AsePrivate ==
    ase # None =>
        \A i \in DOMAIN queue :
            /\ queue[i].out \notin {ase.from, "volumePhi"}
            /\ "volumePhi" \notin Range(queue[i].in)

\* Neither the queue nor the ASE evaluation beside it changes a result: when
\* nothing is in flight the buffers hold what a blocking queue would have left
\* (the waits of evaluateStage and copyToVector are all there are).
AsIfBlocking == queue = <<>> /\ ase = None => buf = blocking

\* The run as BetaEvolution describes it: m_beta will hold the population its
\* integrator prescribes, and every snapshot that was handed out has the
\* fields of its step (run, advanceTimeStep and makeSnapshot).
Evolution == INSTANCE BetaEvolution WITH
    phase <- CASE pc = "output" -> "report"
               [] pc \in {"advance", "leave"} -> "step"
               [] OTHER -> pc,
    beta <- blocking[front],
    last <- IF pc = "output"
            THEN [phi |-> IF resident THEN blocking.volumePhi ELSE blocking.phiAse,
                  dndtPump |-> blocking.dndtPump, dndtAse |-> blocking.dndtAse,
                  slope |-> blocking.derivative]
            ELSE None

EvolutionSpec == Evolution!Spec

\* The step after a control starts from the field Python sent
\* (docs/source/python_interface/simulation.rst:80-86, openpmdTransport.rst:79-82).
ControlApplied ==
    queue = <<>> /\ pc = "advance" /\ at = 1 => buf[front] = blocking[front]
=============================================================================

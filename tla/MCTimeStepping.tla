--------------------------- MODULE MCTimeStepping ---------------------------
(***************************************************************************)
(* TimeStepping for TLC: one cell of the active medium and one of the      *)
(* cladding with numbers modulo 7, every integrator over two steps, and    *)
(* pump and ASE rates that tell any two fields of the gain cell apart.     *)
(***************************************************************************)
EXTENDS TimeStepping

MCField(gain, cladding) == [gain |-> gain, cladding |-> cladding]

MCPumpRate(b) == MCField((3 * b.gain + 2) % P, (b.gain + b.cladding) % P)
MCAseFlux(sampled, traced) ==
    MCField((5 * sampled.gain + traced.gain * traced.gain + 1) % P, 4)

MCStart == {MCField(1, 3), MCField(4, 0)}
MCControls == {MCField(2, 1)}
MCFreed == MCField(6, 6)

AllOutputs == {"beta", "phi", "dndtPump", "dndtAse"}

\* The parameters of one run, with the defaults for what is not listed.
Run(method, iterations, pumpSteps, enableAse, prePump) ==
    [method |-> method, iterations |-> iterations, numberOfSteps |-> 3,
     pumpSteps |-> pumpSteps, enableAse |-> enableAse, prePump |-> prePump]

Modes ==
    [sync : {FALSE}, control : {FALSE}, receiver : {FALSE},
     outputSteps : {<<>>, <<2>>, <<1, 3>>}, outputs : {AllOutputs, {"phi"}}]
    \cup
    [sync : {TRUE}, control : BOOLEAN, receiver : BOOLEAN,
     outputSteps : {<<>>}, outputs : {AllOutputs, {"phi"}}]

Placed(numDevices, deviceCount, mpi, localRank) ==
    [numDevices |-> numDevices, deviceCount |-> deviceCount, mpi |-> mpi, localRank |-> localRank]
OneDevice == Placed(1, 2, FALSE, 0)

\* A worker for each of two devices; a rank of MPI with its device or with one of
\* two; no device at all.
Shared == {Placed(0, 2, FALSE, 0), Placed(3, 1, TRUE, 1), Placed(2, 2, TRUE, 0),
           Placed(3, 2, TRUE, 1), Placed(0, 0, FALSE, 0)}

SingleRuns ==
    {Run(m, i, p, e[1], e[2]) @@ mode @@ OneDevice :
        <<m, i>> \in (Methods \X {1}) \cup {<<"implicit-euler", 0>>, <<"implicit-euler", 2>>},
        p \in {0, 2}, e \in {<<FALSE, FALSE>>, <<TRUE, FALSE>>, <<TRUE, TRUE>>},
        mode \in Modes}

\* Where several devices make a difference: with ASE, and as many steps as can be.
SharedRuns ==
    {Run(m, 2, 2, TRUE, FALSE) @@ mode @@ d :
        m \in Methods, d \in Shared,
        mode \in {x \in Modes : ~x.sync /\ x.outputSteps = <<>>}}

MCRuns == SingleRuns \cup SharedRuns

\* Runs in which Python sends fields: two methods, with and without ASE.
MCControlRuns ==
    {Run(m, 1, 2, e, FALSE) @@ mode @@ OneDevice :
        m \in {"explicit-euler", "frozen-phi-ase-runge-kutta-4"}, e \in BOOLEAN,
        mode \in {x \in Modes : x.control /\ x.receiver}}
=============================================================================

--------------------------- MODULE BetaEvolution ---------------------------
(***************************************************************************)
(* What a time-stepped run promises (docs/source/theoryAndModel.rst, "Pump *)
(* and Time Stepping", docs/source/python_interface/simulation.rst): the   *)
(* excitation beta follows the chosen integrator step by step, the         *)
(* scheduled steps are reported with the fields of that step, and in       *)
(* synchronized mode a step starts from the field Python sent.             *)
(*                                                                         *)
(* Here every step is one transition and there are no buffers, queues or   *)
(* stages in flight.  The formulas are those of the methods' textbooks.    *)
(***************************************************************************)
EXTENDS BetaKernels, Sequences

CONSTANTS Runs, StartFields

VARIABLES run, phase, step, beta, last, sent

vars == <<run, phase, step, beta, last, sent>>

None == <<>>

\* A stage: the three terms and the slope for the population b and the flux phi.
Stage(b, phi, pumping) ==
    LET pump == PumpTerm(PumpRate(b), pumping)
        ase  == AseTerm(b, phi)
    IN  [phi |-> phi, dndtPump |-> pump, dndtAse |-> ase,
         slope |-> Derivative(b, pump, ase)]

\* The four stages: First at the population b, Later(x) at the others.
RungeKutta4(b, First, Later(_)) ==
    LET k1 == First
        k2 == Later(AddScaled(b, k1.slope, Half * DT))
        k3 == Later(AddScaled(b, k2.slope, Half * DT))
        k4 == Later(AddScaled(b, k3.slope, DT))
    IN  [beta |-> CombineRungeKutta4(b, k1.slope, k2.slope, k3.slope, k4.slope),
         last |-> k4]

\* The fixed-point iteration for the slope at the end of the step.
Implicit(b, At(_), iterations) ==
    LET guess[n \in 0 .. iterations] ==
            IF n = 0 THEN [beta |-> b, last |-> None]
            ELSE LET k == At(guess[n - 1].beta)
                 IN  [beta |-> AddScaled(b, k.slope, DT), last |-> k]
    IN  guess[iterations]

Integrate(b, pumping, withAse) ==
    LET Flux(x) == IF withAse THEN AseFlux(x, x) ELSE Zero
        At(x) == Stage(x, Flux(x), pumping)
        Frozen(x) == Stage(x, Flux(b), pumping)
        k == At(b)
        End(x) == At(AddScaled(b, k.slope, x))
        From(new, stage) == [beta |-> new, last |-> stage]
        atEnd == End(DT)
        atMiddle == End(Half * DT)
    IN  CASE run.method = "explicit-euler" -> From(AddScaled(b, k.slope, DT), k)
          [] run.method = "heun" -> From(CombineHeun(b, k.slope, atEnd.slope), atEnd)
          [] run.method = "midpoint" -> From(AddScaled(b, atMiddle.slope, DT), atMiddle)
          [] run.method = "runge-kutta-4" -> RungeKutta4(b, k, At)
          [] run.method = "frozen-phi-ase-runge-kutta-4" -> RungeKutta4(b, k, Frozen)
          [] run.method = "implicit-euler" ->
                Implicit(b, At, IF run.iterations = 0 THEN 1 ELSE run.iterations)
          [] run.method = "exponential-euler" ->
                From(ExponentialEulerUpdate(b, k.dndtPump, k.dndtAse), k)

Scheduled ==
    \/ run.sync
    \/ run.outputSteps = <<>>
    \/ \E i \in DOMAIN run.outputSteps : run.outputSteps[i] = step

Snapshot ==
    [step |-> step,
     fields |-> [f \in run.outputs |-> IF f = "beta" THEN beta ELSE last[f]]]

Init ==
    /\ run \in Runs
    /\ phase = "step"
    /\ step = 0
    /\ beta \in StartFields
    /\ last = None
    /\ sent = <<>>

WithAse == run.enableAse /\ ~(run.prePump /\ step = 0)

Runnable == run.deviceCount > 0 /\ run.method # "unsupported"

Advance ==
    /\ phase = "step"
    /\ Runnable
    /\ LET new == Integrate(beta, step < run.pumpSteps, WithAse)
       IN  /\ beta' = ClipBeta(new.beta)
           /\ last' = new.last
    /\ step' = step + 1
    /\ phase' = "report"
    /\ UNCHANGED <<run, sent>>

Report ==
    /\ phase = "report"
    /\ sent' = IF Scheduled THEN Append(sent, Snapshot) ELSE sent
    /\ last' = None
    /\ phase' = CASE step = run.numberOfSteps -> "done"
                  [] step # run.numberOfSteps /\ run.sync -> "control"
                  [] OTHER -> "step"
    /\ UNCHANGED <<run, step, beta>>

Control ==
    /\ phase = "control"
    /\ IF run.control THEN beta' \in Field ELSE beta' = beta
    /\ phase' = "step"
    /\ UNCHANGED <<run, step, last, sent>>

\* There is no device or no such method, the ASE evaluation throws, the stream breaks or the
\* control does not fit.
Fail ==
    /\ \/ phase = "step" /\ (Runnable => WithAse)
       \/ phase = "report" /\ Scheduled
       \/ phase = "control"
    /\ phase' = "failed"
    /\ last' = None
    /\ UNCHANGED <<run, step, beta, sent>>

Next == Advance \/ Report \/ Control \/ Fail

Spec == Init /\ [][Next]_vars
=============================================================================

------------------------------ MODULE SrmLoop ------------------------------
(***************************************************************************)
(* runForwardSrm (include/core/forwardSrm.hpp): the surface-reservoir      *)
(* passes of one batch with reflections.                                   *)
(*                                                                         *)
(* The host enqueues device work into a non-blocking queue and waits for   *)
(* it where the code waits; the device executes the queue in order.  Two   *)
(* reservoirs are used in turn: a pass samples its rays from one, through  *)
(* a distribution computed from it, and fills the other.  The weight that  *)
(* a pass leaves in its reservoir decides whether another one follows.     *)
(*                                                                         *)
(* A reservoir is represented by the passes that deposited into it since   *)
(* it was cleared and by its total weight, a small number.                 *)
(***************************************************************************)
EXTENDS Integers, Sequences

CONSTANTS
    MaxWeight,     \* weights are 0..MaxWeight
    Iterations,    \* values of maxIterations to consider
    Streaks,       \* values of divergenceStreak to consider
    TolNum, TolDen \* reflectionTolerance is TolNum / TolDen

ASSUME WeightAssumption == MaxWeight \in Nat
ASSUME IterationsAssumption == Iterations \subseteq Nat
ASSUME StreaksAssumption == Streaks \subseteq Nat \ {0}
\* The parser accepts any tolerance that is not negative; above 1 the first pass
\* could be reported as converged although it grew.
ASSUME ToleranceAssumption == TolDen \in Nat \ {0} /\ TolNum \in 0..TolDen

VARIABLES
    controls,        \* maxIterations, divergenceStreak and whether the
                     \* persistent workspace matches the launch
    pc,              \* where the host is
    queue,           \* device work that was enqueued and not yet executed
    reservoir,       \* the reservoirs "A" and "B", in device memory
    cdf,             \* the sampling distribution, in device memory
    totalHost,       \* samplingTotalWeightHost
    input,           \* inputA, as the name of the reservoir
    pass,            \* the current pass, 0 for the direct rays
    initialWeight,
    previousWeight,
    growCount,
    result,          \* srmStatus, srmPasses, srmRemainingFraction * initialWeight
    history          \* the weight each pass deposited, the direct one first;
                     \* only the properties look at it

hostVars == <<input, pass, initialWeight, previousWeight, growCount, result>>
deviceVars == <<reservoir, cdf, totalHost, history>>
vars == <<controls, pc, queue, deviceVars, hostVars>>

Weights == 0..MaxWeight
Empty == [from |-> {}, weight |-> 0]
Leftover == [from |-> {-1}, weight |-> MaxWeight]
Other(r) == IF r = "A" THEN "B" ELSE "A"

Pcs == {"start", "direct", "scan", "capture", "first", "clear", "reflect",
        "switch", "decide", "returned", "thrown"}

Init ==
    /\ controls \in [maxIterations : Iterations, streak : Streaks, fits : BOOLEAN]
    /\ pc = "start"
    /\ queue = <<>>
    \* The workspace outlives the launch: its buffers hold what the last one left.
    /\ reservoir \in [{"A", "B"} -> {Empty, Leftover}]
    /\ cdf \in {Empty, Leftover}
    /\ totalHost = 0
    /\ input = "A"
    /\ pass = 0
    /\ initialWeight = 0
    /\ previousWeight = 0
    /\ growCount = 0
    /\ result = [status |-> "disabled", passes |-> 0, remaining |-> 0]
    /\ history = <<>>
-----------------------------------------------------------------------------
(* The device.                                                             *)

Clear(r) == [kind |-> "clear", to |-> r]
Direct == [kind |-> "direct", to |-> "A"]
Scan(r) == [kind |-> "scan", from |-> r]
Copy == [kind |-> "copy"]

\* Rays with sourceWeight each, sampled from one reservoir into another.
Reflect(from, to, p, weight) ==
    [kind |-> "reflect", from |-> from, to |-> to, pass |-> p, weight |-> weight]

\* Rays of pass p deposit any weight, if they carry one, on top of what the
\* reservoir holds.
Deposit(to, p, carried) ==
    \E w \in IF carried = 0 THEN {0} ELSE Weights :
        /\ reservoir' = [reservoir EXCEPT
              ![to] = [from |-> @.from \union {p}, weight |-> @.weight + w]]
        /\ history' = Append(history, w)

Device ==
    /\ queue # <<>>
    /\ queue' = Tail(queue)
    /\ LET work == Head(queue)
       IN  \/ /\ work.kind = "clear"
              /\ reservoir' = [reservoir EXCEPT ![work.to] = Empty]
              /\ UNCHANGED <<cdf, totalHost, history>>
           \/ /\ work.kind = "direct"
              /\ Deposit(work.to, 0, MaxWeight)
              /\ UNCHANGED <<cdf, totalHost>>
           \/ /\ work.kind = "scan"
              /\ cdf' = reservoir[work.from]
              /\ UNCHANGED <<reservoir, totalHost, history>>
           \/ /\ work.kind = "copy"
              /\ totalHost' = cdf.weight
              /\ UNCHANGED <<reservoir, cdf, history>>
           \/ /\ work.kind = "reflect"
              /\ Deposit(work.to, work.pass, work.weight)
              /\ UNCHANGED <<cdf, totalHost>>
    /\ UNCHANGED <<controls, pc, hostVars>>
-----------------------------------------------------------------------------
(* The host.                                                               *)

\* A slip in the code that TypeOK must catch; like every definition called a slip
\* here, it is not part of Next.
Waited_Slip == TRUE                                     \* no wait

\* alpaka::onHost::wait
Waited == queue = <<>>

Submit(work, then) ==
    /\ queue' = queue \o work
    /\ pc' = then
    /\ UNCHANGED <<controls, deviceVars>>

\* "persistent forward SRM workspace does not match this launch"
Reject ==
    /\ pc = "start"
    /\ ~controls.fits
    /\ pc' = "thrown"
    /\ UNCHANGED <<controls, queue, deviceVars, hostVars>>

Start ==
    /\ pc = "start"
    /\ controls.fits
    /\ Submit(<<Clear("A"), Clear("B")>>, "direct")
    /\ UNCHANGED hostVars

TraceDirect ==
    /\ pc = "direct"
    /\ Waited
    /\ Submit(<<Direct>>, "scan")
    /\ UNCHANGED hostVars

\* updateSamplingCdf computes the distribution from the reservoir that is to be
\* sampled next, and then copies its total weight to the host.
UpdateCdf ==
    /\ pc = "scan"
    /\ Waited
    /\ Submit(<<Scan(input)>>, "capture")
    /\ UNCHANGED hostVars

CopyTotal ==
    /\ pc = "capture"
    /\ Waited
    /\ Submit(<<Copy>>, IF pass = 0 THEN "first" ELSE "decide")
    /\ UNCHANGED hostVars

\* The loop head: another pass, or the status set before the loop stands.
LoopHead(done) ==
    pc' = IF done < controls.maxIterations THEN "clear" ELSE "returned"

AfterDirect ==
    /\ pc = "first"
    /\ Waited
    /\ IF totalHost = 0
       THEN /\ result' = [result EXCEPT !.status = "converged"]
            /\ pc' = "returned"
            /\ UNCHANGED <<initialWeight, previousWeight>>
       ELSE /\ result' = [result EXCEPT !.status = "max_iterations",
                                        !.remaining = totalHost]
            /\ LoopHead(0)
            /\ initialWeight' = totalHost
            /\ previousWeight' = totalHost
    /\ UNCHANGED <<controls, queue, deviceVars, input, pass, growCount>>

\* A slip: the reservoir to be sampled is cleared, not the one to be filled.
ClearOutput_Slip ==
    /\ pc = "clear"
    /\ pass' = pass + 1
    /\ Submit(<<Clear(input)>>, "reflect")
    /\ UNCHANGED <<input, initialWeight, previousWeight, growCount, result>>

ClearOutput ==
    /\ pc = "clear"
    /\ pass' = pass + 1
    /\ Submit(<<Clear(Other(input))>>, "reflect")
    /\ UNCHANGED <<input, initialWeight, previousWeight, growCount, result>>

TraceReflected ==
    /\ pc = "reflect"
    /\ Waited
    /\ Submit(<<Reflect(input, Other(input), pass, previousWeight)>>, "switch")
    /\ UNCHANGED hostVars

SwitchBuffers ==
    /\ pc = "switch"
    /\ Waited
    /\ input' = Other(input)
    /\ pc' = "scan"
    /\ UNCHANGED <<controls, queue, deviceVars, pass, initialWeight,
                   previousWeight, growCount, result>>

\* |current - previous| / max(current, 1e-30) < reflectionTolerance
Unchanging(current, previous) ==
    IF current = 0 THEN previous = 0 /\ TolNum > 0
    ELSE (IF current > previous THEN current - previous ELSE previous - current)
             * TolDen < TolNum * current

\* current / initial < reflectionTolerance
Exhausted(current) == current * TolDen < TolNum * initialWeight

Grew(current) == current > previousWeight

\* What the pass that left this weight is reported as, in the order of the
\* tests; "max_iterations" is what the loop goes on with.
StatusAfter(current, grown) ==
    IF Grew(current) /\ grown >= controls.streak THEN "diverged"
    ELSE IF ~Grew(current) /\ Unchanging(current, previousWeight) THEN "stable"
    ELSE IF Exhausted(current) THEN "converged"
    ELSE "max_iterations"

\* A slip: a pass that does not grow leaves the streak as it is.
Streak_Slip(current) == IF Grew(current) THEN growCount + 1 ELSE growCount

\* growCount after a pass that left this weight.
Streak(current) == IF Grew(current) THEN growCount + 1 ELSE 0

Decide ==
    /\ pc = "decide"
    /\ Waited
    /\ growCount' = Streak(totalHost)
    /\ LET status == StatusAfter(totalHost, growCount')
       IN  /\ result' = [status |-> status, passes |-> pass, remaining |-> totalHost]
           /\ IF status = "max_iterations"
              THEN LoopHead(pass) /\ previousWeight' = totalHost
              ELSE pc' = "returned" /\ UNCHANGED previousWeight
    /\ UNCHANGED <<controls, queue, deviceVars, input, pass, initialWeight>>

Host ==
    \/ Reject \/ Start \/ TraceDirect \/ UpdateCdf \/ CopyTotal \/ AfterDirect
    \/ ClearOutput \/ TraceReflected \/ SwitchBuffers \/ Decide

Terminated == pc \in {"returned", "thrown"} /\ UNCHANGED vars

Next == Host \/ Device \/ Terminated

Spec == Init /\ [][Next]_vars
-----------------------------------------------------------------------------
(* Properties.                                                             *)

Statuses == {"disabled", "converged", "stable", "diverged", "max_iterations"}

TypeOK ==
    /\ controls \in [maxIterations : Iterations, streak : Streaks, fits : BOOLEAN]
    /\ pc \in Pcs
    /\ Len(queue) <= 2
    /\ \A r \in {"A", "B"} : reservoir[r].weight \in Nat
    /\ cdf.weight \in Nat
    /\ totalHost \in Nat
    /\ input \in {"A", "B"}
    /\ pass \in Nat
    /\ initialWeight \in Nat
    /\ previousWeight \in Nat
    /\ growCount \in Nat
    /\ result.status \in Statuses
    /\ history \in Seq(Weights)

\* When the device starts a reflected pass, the reservoir it samples holds the
\* deposits of the pass before and nothing else, the distribution was computed
\* from exactly these, the host scaled the rays by exactly their weight, and the
\* reservoir it fills is the other one and empty.
PassFollowsPass ==
    queue # <<>> /\ Head(queue).kind = "reflect" =>
        LET work == Head(queue)
            source == reservoir[work.from]
        IN  /\ source.from = {work.pass - 1}
            /\ cdf = source
            /\ work.weight = source.weight
            /\ reservoir[work.to] = Empty

\* The passes after the direct one, what they left, and how it compares.
Passes == Len(history) - 1
LeftBy(p) == history[p + 1]
GrewIn(p) == LeftBy(p) > LeftBy(p - 1)
GrewFor(n, p) == n <= p /\ \A q \in (p - n + 1)..p : GrewIn(q)
SpentAfter(p) == LeftBy(p) * TolDen < TolNum * LeftBy(0)
Resting(p) == ~GrewIn(p) /\ Unchanging(LeftBy(p), LeftBy(p - 1))

\* The reported status is what happened on the device: why the last pass was the
\* last one, and that no earlier pass gave a reason to stop.
EndsLike(status, p) ==
    CASE status = "diverged"  -> GrewFor(controls.streak, p)
      [] status = "stable"    -> Resting(p)
      [] status = "converged" -> SpentAfter(p) /\ ~GrewIn(p) /\ ~Resting(p)

Reasons == {"diverged", "stable", "converged"}

StatusIsTruthful ==
    pc = "returned" =>
        /\ result.passes = Passes
        /\ result.remaining = LeftBy(Passes)
        /\ Passes <= controls.maxIterations
        /\ \A p \in 1..(Passes - 1), s \in Reasons : ~EndsLike(s, p)
        /\ result.status = "max_iterations" =>
               /\ Passes = controls.maxIterations
               /\ Passes > 0 => \A s \in Reasons : ~EndsLike(s, Passes)
        /\ result.status # "max_iterations" =>
               IF Passes = 0 THEN result.status = "converged" /\ LeftBy(0) = 0
                             ELSE EndsLike(result.status, Passes)
=============================================================================

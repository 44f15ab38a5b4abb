---------------------------- MODULE BetaKernels ----------------------------
(***************************************************************************)
(* The cell-wise kernels of the time loop                                  *)
(* (include/kernels/timeIntegrationUpdateKernels.hpp and                   *)
(* include/kernels/derivativeComposition.hpp).                             *)
(*                                                                         *)
(* A field has a cell of the active medium and one of the cladding: the    *)
(* kernels treat the cells of a kind alike, one at a time.  The values are *)
(* numbers modulo the prime P.  The kernels are the formulas of the code   *)
(* in that arithmetic, in which the fractions of a formula are exact; so   *)
(* two different formulas, or one formula applied to the wrong buffers,    *)
(* give different fields.  What the pump and the ASE estimate compute from *)
(* a field is left open.                                                   *)
(***************************************************************************)
EXTENDS Integers

CONSTANTS
    P,                  \* the numbers of a field are 0 .. P-1
    One,                \* the number that stands for 1.0 in ClipBeta
    DT, Half, Sixth,    \* the time step, 1/2 and 1/6 modulo P
    Tau, InvTau, Decay, \* the lifetime, its inverse and exp(-DT / Tau)
    SigmaA, SigmaE,     \* the cross sections of the ASE term
    PumpRate(_),        \* the rate the pump kernels leave for a field
    AseFlux(_, _)       \* the flux of rays sampled in one field and traced
                        \* through another

Numbers == 0 .. P - 1
Field == [gain : Numbers, cladding : Numbers]
Each(Value(_)) == [gain |-> Value("gain"), cladding |-> Value("cladding")]
Zero == [gain |-> 0, cladding |-> 0]

ASSUME NumbersAssumption == P \in Nat \ {0} /\ One \in Numbers
ASSUME FractionsAssumption ==
    /\ {DT, Half, Sixth, Tau, InvTau, Decay, SigmaA, SigmaE} \subseteq Numbers
    /\ (2 * Half) % P = 1 % P
    /\ (6 * Sixth) % P = 1 % P
    /\ (Tau * InvTau) % P = 1 % P

ASSUME RatesAssumption ==
    \A a, b \in Field : PumpRate(a) \in Field /\ AseFlux(a, b) \in Field

AddScaled(base, slope, scale) ==
    LET Sum(c) == (base[c] + scale * slope[c]) % P IN Each(Sum)

CombineHeun(base, first, second) ==
    LET Sum(c) == (base[c] + Half * DT * (first[c] + second[c])) % P IN Each(Sum)

CombineRungeKutta4(base, k1, k2, k3, k4) ==
    LET Sum(c) == (base[c] + Sixth * DT * (k1[c] + 2 * k2[c] + 2 * k3[c] + k4[c])) % P
    IN  Each(Sum)

\* Cladding cells decay too: only their source term is zero.
ExponentialEulerUpdate(beta, pump, ase) ==
    LET New(c) == (Tau * (pump[c] - ase[c]) * (1 - Decay) + beta[c] * Decay) % P
    IN  Each(New)

ClipBeta(beta) == LET Clipped(c) == IF beta[c] > One THEN One ELSE beta[c] IN Each(Clipped)

\* What ComposeDerivative leaves in its three output buffers.
PumpTerm(pump, on) == [gain |-> IF on THEN pump.gain ELSE 0, cladding |-> 0]

AseTerm(beta, phi) ==
    [gain |-> ((beta.gain * (SigmaE + SigmaA) - SigmaA) * phi.gain) % P, cladding |-> 0]

Derivative(beta, pump, ase) ==
    [gain |-> (pump.gain - ase.gain - beta.gain * InvTau) % P, cladding |-> 0]
=============================================================================

--------------------------- MODULE SrmLoop_proofs ---------------------------
(***************************************************************************)
(* Proofs about SrmLoop, for any number of passes, weights and streaks.    *)
(* They rest on SrmInv: where the host is says what is left in the queue   *)
(* and which passes the two reservoirs, the distribution and the host's    *)
(* copy of the weight belong to.                                           *)
(***************************************************************************)
EXTENDS SrmLoop, TLAPS

Names == {"A", "B"}
Contents == [from : SUBSET Int, weight : Nat]

Types ==
    /\ controls \in [maxIterations : Iterations, streak : Streaks, fits : BOOLEAN]
    /\ pc \in Pcs
    /\ reservoir \in [Names -> Contents]
    /\ cdf \in Contents
    /\ totalHost \in Nat
    /\ input \in Names
    /\ pass \in Nat
    /\ initialWeight \in Nat
    /\ previousWeight \in Nat
    /\ growCount \in Nat
    /\ result \in [status : Statuses, passes : Nat, remaining : Nat]
    /\ history \in Seq(Weights)

\* What pass p left, when it was the last to deposit into a cleared reservoir.
LeftOf(p) == [from |-> {p}, weight |-> LeftBy(p)]

\* The input reservoir holds the last pass that ran, p.
Loaded(p) == Len(history) = p + 1 /\ reservoir[input] = LeftOf(p)

\* The input is ready to be sampled, by rays that carry its weight.
Ready(p) == Loaded(p) /\ cdf = reservoir[input] /\ previousWeight = LeftBy(p)

Untraced == history = <<>> /\ pass = 0 /\ input = "A"

AtStart ==
    /\ pc = "start" => queue = <<>> /\ Untraced
    /\ pc = "direct" =>
           /\ Untraced
           /\ \/ queue = <<Clear("A"), Clear("B")>>
              \/ queue = <<Clear("B")>> /\ reservoir["A"] = Empty
              \/ queue = <<>> /\ reservoir["A"] = Empty
    /\ pc = "thrown" => queue = <<>>

AtUpdate ==
    /\ pc = "scan" =>
           \/ queue = <<Direct>> /\ Untraced /\ reservoir["A"] = Empty
           \/ queue = <<>> /\ Loaded(pass)
    /\ pc = "capture" =>
           /\ Loaded(pass)
           /\ \/ queue = <<Scan(input)>>
              \/ queue = <<>> /\ cdf = reservoir[input]
    /\ pc \in {"first", "decide"} =>
           /\ Loaded(pass)
           /\ cdf = reservoir[input]
           /\ \/ queue = <<Copy>>
              \/ queue = <<>> /\ totalHost = LeftBy(pass)

AtPass ==
    /\ pc = "clear" => queue = <<>> /\ Ready(pass)
    /\ pc = "reflect" =>
           /\ Ready(pass - 1)
           /\ \/ queue = <<Clear(Other(input))>>
              \/ queue = <<>> /\ reservoir[Other(input)] = Empty
    /\ pc = "switch" =>
           \/ /\ queue = <<Reflect(input, Other(input), pass, previousWeight)>>
              /\ Ready(pass - 1)
              /\ reservoir[Other(input)] = Empty
           \/ /\ queue = <<>>
              /\ Len(history) = pass + 1
              /\ reservoir[Other(input)] = LeftOf(pass)
    /\ pc = "returned" => queue = <<>>

\* Each pass reads what the one before left, through queue, reservoirs,
\* distribution and host.
Relay == AtStart /\ AtUpdate /\ AtPass

InLoop ==
    \/ pc \in {"clear", "reflect", "switch", "decide"}
    \/ pc \in {"scan", "capture"} /\ pass > 0

\* The last pass the host has judged.
Judged == IF pc = "clear" THEN pass ELSE pass - 1

\* No pass up to p gave a reason to stop.
NoReason(p) ==
    /\ \A q \in 0..p : ~SpentAfter(q)
    /\ \A q \in 1..p : ~Resting(q) /\ ~GrewFor(controls.streak, q)

\* The last n passes up to p grew, and the one before did not.
GrewLast(n, p) ==
    /\ GrewFor(n, p)
    /\ n < p => ~GrewIn(p - n)

\* The host's variables say what the passes left.
Verdicts ==
    /\ pc \in {"start", "direct", "first"} => pass = 0
    /\ pc \in {"reflect", "switch", "decide"} => pass > 0
    /\ pc \in Pcs \ {"returned", "thrown"} /\ ~InLoop =>
           growCount = 0 /\ result.passes = 0 /\ result.remaining = 0
    /\ InLoop =>
           /\ pass <= controls.maxIterations
           /\ pc = "clear" => pass < controls.maxIterations
           /\ initialWeight = LeftBy(0)
           /\ previousWeight = LeftBy(Judged)
           /\ NoReason(Judged)
           /\ GrewLast(growCount, Judged)

SrmInv == Types /\ Relay /\ Verdicts /\ StatusIsTruthful
-----------------------------------------------------------------------------
(* The device.                                                             *)

\* The device clears a reservoir.
Clears(r) ==
    /\ reservoir' = [reservoir EXCEPT ![r] = Empty]
    /\ UNCHANGED <<cdf, totalHost, history>>

\* The rays of a pass leave a weight in a reservoir that was empty.
Fills(r, p) ==
    \E w \in Weights :
        /\ reservoir' = [reservoir EXCEPT ![r] = [from |-> {p}, weight |-> w]]
        /\ history' = Append(history, w)
        /\ UNCHANGED <<cdf, totalHost>>

\* A deposit into an empty reservoir leaves this pass alone in it.
LEMMA DepositFills ==
    ASSUME NEW r \in Names, NEW p \in Nat, NEW carried \in Nat, Types,
           reservoir[r] = Empty, Deposit(r, p, carried), UNCHANGED <<cdf, totalHost>>
    PROVE  Fills(r, p)
  <1>1. 0 \in Weights
    BY WeightAssumption DEF Weights
  <1>2. PICK w \in Weights :
            /\ reservoir' = [reservoir EXCEPT
                  ![r] = [from |-> @.from \union {p}, weight |-> @.weight + w]]
            /\ history' = Append(history, w)
    BY <1>1 DEF Deposit
  <1>3. reservoir[r].from \union {p} = {p}
    BY DEF Empty
  <1>4. reservoir[r].weight + w = w
    BY WeightAssumption DEF Empty, Weights
  <1>5. reservoir' = [reservoir EXCEPT ![r] = [from |-> {p}, weight |-> w]]
    BY <1>2, <1>3, <1>4
  <1> QED
    BY <1>2, <1>5 DEF Fills

\* What the device can be about to do, given where the host waits for it: rays are
\* only ever deposited into an empty reservoir.
LEMMA DeviceWork ==
    ASSUME SrmInv, Device
    PROVE  /\ UNCHANGED <<controls, pc, hostVars>>
           /\ \/ /\ pc = "direct" /\ queue = <<Clear("A"), Clear("B")>>
                 /\ queue' = <<Clear("B")>> /\ Clears("A")
              \/ /\ pc = "direct" /\ queue = <<Clear("B")>>
                 /\ queue' = <<>> /\ Clears("B")
              \/ /\ pc = "scan" /\ queue = <<Direct>>
                 /\ queue' = <<>> /\ Fills("A", 0)
              \/ /\ pc = "capture" /\ queue = <<Scan(input)>>
                 /\ queue' = <<>> /\ cdf' = reservoir[input]
                 /\ UNCHANGED <<reservoir, totalHost, history>>
              \/ /\ pc \in {"first", "decide"} /\ queue = <<Copy>>
                 /\ queue' = <<>> /\ totalHost' = cdf.weight
                 /\ UNCHANGED <<reservoir, cdf, history>>
              \/ /\ pc = "reflect" /\ queue = <<Clear(Other(input))>>
                 /\ queue' = <<>> /\ Clears(Other(input))
              \/ /\ pc = "switch"
                 /\ queue = <<Reflect(input, Other(input), pass, previousWeight)>>
                 /\ queue' = <<>> /\ Fills(Other(input), pass)
  <1>1. UNCHANGED <<controls, pc, hostVars>> /\ queue # <<>> /\ queue' = Tail(queue)
    BY DEF Device
  <1>2. Types /\ AtStart /\ AtUpdate /\ AtPass
    BY DEF SrmInv, Relay
  <1>0. MaxWeight \in Nat /\ 0 \in Nat
    BY WeightAssumption
  <1>3. CASE pc = "direct"
    <2>1. CASE queue = <<Clear("A"), Clear("B")>>
      <3>1. Tail(queue) = <<Clear("B")>> /\ Head(queue) = Clear("A")
        BY <2>1
      <3>2. Clears("A")
        BY <3>1 DEF Device, Clear, Clears
      <3> QED
        BY <1>1, <1>3, <2>1, <3>1, <3>2
    <2>2. CASE queue = <<Clear("B")>>
      <3>1. Tail(queue) = <<>> /\ Head(queue) = Clear("B")
        BY <2>2
      <3>2. Clears("B")
        BY <3>1 DEF Device, Clear, Clears
      <3> QED
        BY <1>1, <1>3, <2>2, <3>1, <3>2
    <2> QED
      BY <1>1, <1>2, <1>3, <2>1, <2>2 DEF AtStart
  <1>4. CASE pc = "scan"
    <2>1. queue = <<Direct>> /\ reservoir["A"] = Empty
      BY <1>1, <1>2, <1>4 DEF AtUpdate
    <2>2. Tail(queue) = <<>> /\ Head(queue) = Direct
      BY <2>1
    <2>3. Deposit("A", 0, MaxWeight) /\ UNCHANGED <<cdf, totalHost>>
      BY <2>2 DEF Device, Direct
    <2>4. Fills("A", 0)
      BY <1>0, <1>2, <2>1, <2>3, DepositFills DEF Types, Names
    <2> QED
      BY <1>1, <1>4, <2>1, <2>2, <2>4
  <1>5. CASE pc = "capture"
    <2>1. queue = <<Scan(input)>>
      BY <1>1, <1>2, <1>5 DEF AtUpdate
    <2>2. Tail(queue) = <<>> /\ Head(queue) = Scan(input)
      BY <2>1
    <2>3. cdf' = reservoir[input] /\ UNCHANGED <<reservoir, totalHost, history>>
      BY <2>2 DEF Device, Scan
    <2> QED
      BY <1>1, <1>5, <2>1, <2>2, <2>3
  <1>6. CASE pc \in {"first", "decide"}
    <2>1. queue = <<Copy>>
      BY <1>1, <1>2, <1>6 DEF AtUpdate
    <2>2. Tail(queue) = <<>> /\ Head(queue) = Copy
      BY <2>1
    <2>3. totalHost' = cdf.weight /\ UNCHANGED <<reservoir, cdf, history>>
      BY <2>2 DEF Device, Copy
    <2> QED
      BY <1>1, <1>6, <2>1, <2>2, <2>3
  <1>7. CASE pc = "reflect"
    <2>1. queue = <<Clear(Other(input))>>
      BY <1>1, <1>2, <1>7 DEF AtPass
    <2>2. Tail(queue) = <<>> /\ Head(queue) = Clear(Other(input))
      BY <2>1
    <2>3. Clears(Other(input))
      BY <2>2 DEF Device, Clear, Clears
    <2> QED
      BY <1>1, <1>7, <2>1, <2>2, <2>3
  <1>8. CASE pc = "switch"
    <2>1. /\ queue = <<Reflect(input, Other(input), pass, previousWeight)>>
          /\ reservoir[Other(input)] = Empty
      BY <1>1, <1>2, <1>8 DEF AtPass
    <2>2. /\ Tail(queue) = <<>>
          /\ Head(queue) = Reflect(input, Other(input), pass, previousWeight)
      BY <2>1
    <2>3. /\ Deposit(Other(input), pass, previousWeight)
          /\ UNCHANGED <<cdf, totalHost>>
      BY <2>2 DEF Device, Reflect
    <2>4. Fills(Other(input), pass)
      BY <1>2, <2>1, <2>3, DepositFills DEF Types, Names, Other
    <2> QED
      BY <1>1, <1>8, <2>1, <2>2, <2>4
  <1>9. pc \notin {"start", "clear", "returned", "thrown"}
    BY <1>1, <1>2 DEF AtStart, AtPass
  <1> QED
    BY <1>2, <1>3, <1>4, <1>5, <1>6, <1>7, <1>8, <1>9 DEF Types, Pcs
-----------------------------------------------------------------------------
(* The inductive invariant.                                                *)

\* Init establishes it.
LEMMA SrmInit == Init => SrmInv
  <1> SUFFICES ASSUME Init PROVE SrmInv
    OBVIOUS
  <1>1. Types
    BY WeightAssumption
    DEF Init, Types, Pcs, Statuses, Names, Contents, Empty, Leftover, Weights
  <1>2. Relay
    BY DEF Init, Relay, AtStart, AtUpdate, AtPass, Untraced
  <1>3. Verdicts
    BY DEF Init, Verdicts, InLoop, Pcs
  <1>4. StatusIsTruthful
    BY DEF Init, StatusIsTruthful
  <1> QED
    BY <1>1, <1>2, <1>3, <1>4 DEF SrmInv

\* Every step keeps the variables in their types.
LEMMA SrmStepTypes == ASSUME SrmInv, [Next]_vars PROVE Types'
  <1> Types
    BY DEF SrmInv
  <1> USE DEF Types, Names, Contents
  <1>1. CASE UNCHANGED vars
    BY <1>1 DEF vars, hostVars, deviceVars
  <1>2. CASE Device
    <2>1. UNCHANGED <<controls, pc, hostVars>>
      BY <1>2, DeviceWork
    <2>2. /\ reservoir' \in [Names -> Contents]
          /\ cdf' \in Contents
          /\ totalHost' \in Nat
          /\ history' \in Seq(Weights)
      <3>1. ASSUME NEW r \in Names, Clears(r) PROVE <2>2
        BY <3>1 DEF Clears, Empty
      <3>2. ASSUME NEW r \in Names, NEW p \in Nat, Fills(r, p) PROVE <2>2
        BY <3>2, WeightAssumption DEF Fills, Weights
      <3> QED
        BY <1>2, <3>1, <3>2, DeviceWork DEF Other
    <2> QED
      BY <2>1, <2>2 DEF hostVars
  <1>3. CASE Host
    <2>1. CASE Reject
      BY <2>1 DEF Reject, deviceVars, hostVars, Pcs
    <2>2. CASE Start
      BY <2>2 DEF Start, Submit, deviceVars, hostVars, Pcs
    <2>3. CASE TraceDirect
      BY <2>3 DEF TraceDirect, Submit, deviceVars, hostVars, Pcs
    <2>4. CASE UpdateCdf
      BY <2>4 DEF UpdateCdf, Submit, deviceVars, hostVars, Pcs
    <2>5. CASE CopyTotal
      BY <2>5 DEF CopyTotal, Submit, deviceVars, hostVars, Pcs
    <2>6. CASE AfterDirect
      BY <2>6 DEF AfterDirect, LoopHead, deviceVars, Pcs, Statuses
    <2>7. CASE ClearOutput
      BY <2>7 DEF ClearOutput, Submit, deviceVars, Pcs
    <2>8. CASE TraceReflected
      BY <2>8 DEF TraceReflected, Submit, deviceVars, hostVars, Pcs
    <2>9. CASE SwitchBuffers
      BY <2>9 DEF SwitchBuffers, Other, deviceVars, Pcs
    <2>10. CASE Decide
      <3>1. growCount' \in Nat
        BY <2>10 DEF Decide, Streak
      <3>2. PICK status \in Statuses :
              /\ result' = [status |-> status, passes |-> pass, remaining |-> totalHost]
              /\ IF status = "max_iterations"
                 THEN LoopHead(pass) /\ previousWeight' = totalHost
                 ELSE pc' = "returned" /\ UNCHANGED previousWeight
        BY <2>10 DEF Decide, StatusAfter, Statuses
      <3>3. pc' \in Pcs /\ previousWeight' \in Nat
        BY <3>2 DEF LoopHead, Pcs
      <3>4. result' \in [status : Statuses, passes : Nat, remaining : Nat]
        BY <3>2
      <3> QED
        BY <2>10, <3>1, <3>3, <3>4 DEF Decide, deviceVars
    <2> QED
      BY <1>3, <2>1, <2>2, <2>3, <2>4, <2>5, <2>6, <2>7, <2>8, <2>9, <2>10 DEF Host
  <1>4. CASE Terminated
    BY <1>4 DEF Terminated, vars, hostVars, deviceVars
  <1> QED
    BY <1>1, <1>2, <1>3, <1>4 DEF Next

\* What earlier passes left is not touched by later ones.
LEMMA HistoryGrows ==
    ASSUME history \in Seq(Weights), NEW w \in Weights, history' = Append(history, w)
    PROVE  /\ Len(history') = Len(history) + 1
           /\ history'[Len(history) + 1] = w
           /\ \A p \in 0..(Len(history) - 1) : LeftBy(p)' = LeftBy(p)
  <1>1. /\ Len(history') = Len(history) + 1
        /\ history'[Len(history) + 1] = w
        /\ \A i \in 1..Len(history) : history'[i] = history[i]
    OBVIOUS
  <1> QED
    BY <1>1 DEF LeftBy

\* The device keeps the relay: its work is what the host waits for next.
LEMMA DeviceRelay == ASSUME SrmInv, Device PROVE Relay'
  <1>1. Types /\ AtStart /\ AtUpdate /\ AtPass
    BY DEF SrmInv, Relay
  <1>2. UNCHANGED <<controls, pc, hostVars>>
    BY DeviceWork
  <1> USE DEF Types, Names
  <1>3. CASE pc = "direct"
    <2>1. \/ /\ queue = <<Clear("A"), Clear("B")>>
             /\ queue' = <<Clear("B")>> /\ Clears("A")
          \/ /\ queue = <<Clear("B")>>
             /\ queue' = <<>> /\ Clears("B")
      BY <1>3, DeviceWork
    <2>2. reservoir'["A"] = Empty
      BY <1>1, <1>3, <2>1 DEF AtStart, Clears, Clear
    <2> QED
      BY <1>1, <1>2, <1>3, <2>1, <2>2
      DEF Relay, AtStart, AtUpdate, AtPass, Clears, Untraced, hostVars
  <1>4. CASE pc = "scan"
    <2>1. queue = <<Direct>> /\ queue' = <<>> /\ Fills("A", 0)
      BY <1>4, DeviceWork
    <2>2. Untraced
      BY <1>1, <1>4, <2>1 DEF AtUpdate
    <2>3. PICK w \in Weights :
              /\ reservoir' = [reservoir EXCEPT !["A"] = [from |-> {0}, weight |-> w]]
              /\ history' = Append(history, w)
      BY <2>1 DEF Fills
    <2>4. Loaded(pass)'
      <3>1. Len(history) = 0 /\ pass' = 0 /\ input' = "A"
        BY <1>2, <2>2 DEF Untraced, hostVars
      <3>2. Len(history') = 1 /\ history'[1] = w
        BY <1>1, <2>3, <3>1, HistoryGrows
      <3>3. reservoir'["A"] = [from |-> {0}, weight |-> w]
        BY <1>1, <2>3
      <3> QED
        BY <3>1, <3>2, <3>3 DEF Loaded, LeftOf, LeftBy
    <2> QED
      BY <1>2, <1>4, <2>1, <2>4 DEF Relay, AtStart, AtUpdate, AtPass, hostVars
  <1>5. CASE pc = "capture"
    <2>1. /\ queue' = <<>> /\ cdf' = reservoir[input]
          /\ UNCHANGED <<reservoir, totalHost, history>>
      BY <1>5, DeviceWork
    <2> QED
      BY <1>1, <1>2, <1>5, <2>1
      DEF Relay, AtStart, AtUpdate, AtPass, Loaded, LeftOf, LeftBy, hostVars
  <1>6. CASE pc \in {"first", "decide"}
    <2>1. /\ queue' = <<>> /\ totalHost' = cdf.weight
          /\ UNCHANGED <<reservoir, cdf, history>>
      BY <1>6, DeviceWork
    <2>2. cdf.weight = LeftBy(pass)
      BY <1>1, <1>6 DEF AtUpdate, Loaded, LeftOf
    <2> QED
      BY <1>1, <1>2, <1>6, <2>1, <2>2
      DEF Relay, AtStart, AtUpdate, AtPass, Loaded, LeftOf, LeftBy, hostVars
  <1>7. CASE pc = "reflect"
    <2>1. queue' = <<>> /\ Clears(Other(input))
      BY <1>7, DeviceWork
    <2>2. reservoir'[input] = reservoir[input] /\ reservoir'[Other(input)] = Empty
      BY <1>1, <2>1 DEF Clears, Other
    <2> QED
      BY <1>1, <1>2, <1>7, <2>1, <2>2
      DEF Relay, AtStart, AtUpdate, AtPass, Ready, Loaded, LeftOf, LeftBy, Clears, Other,
         hostVars
  <1>8. CASE pc = "switch"
    <2>1. /\ queue = <<Reflect(input, Other(input), pass, previousWeight)>>
          /\ queue' = <<>> /\ Fills(Other(input), pass)
      BY <1>8, DeviceWork
    <2>2. Len(history) = pass
      BY <1>1, <1>8, <2>1 DEF AtPass, Ready, Loaded
    <2>3. PICK w \in Weights :
              /\ reservoir' = [reservoir EXCEPT ![Other(input)] =
                                   [from |-> {pass}, weight |-> w]]
              /\ history' = Append(history, w)
      BY <2>1 DEF Fills
    <2>4. /\ Len(history') = pass' + 1
          /\ reservoir'[Other(input')] = LeftOf(pass)'
      <3>1. pass' = pass /\ input' = input
        BY <1>2 DEF hostVars
      <3>2. Len(history') = pass + 1 /\ history'[pass + 1] = w
        BY <1>1, <2>2, <2>3, HistoryGrows
      <3>3. reservoir'[Other(input)] = [from |-> {pass}, weight |-> w]
        BY <1>1, <2>3 DEF Other
      <3> QED
        BY <3>1, <3>2, <3>3 DEF LeftOf, LeftBy
    <2> QED
      BY <1>2, <1>8, <2>1, <2>4 DEF Relay, AtStart, AtUpdate, AtPass, hostVars
  <1> QED
    BY <1>3, <1>4, <1>5, <1>6, <1>7, <1>8, DeviceWork

\* The host keeps the relay: it goes on only when its queue is empty.
LEMMA HostRelay == ASSUME SrmInv, Host PROVE Relay'
  <1>1. Types /\ AtStart /\ AtUpdate /\ AtPass /\ Verdicts
    BY DEF SrmInv, Relay
  <1> USE DEF Types, Names, Waited, hostVars, deviceVars
  <1>3. CASE Reject
    BY <1>1, <1>3 DEF Reject, Relay, AtStart, AtUpdate, AtPass
  <1>4. CASE Start
    BY <1>1, <1>4 DEF Start, Submit, Relay, AtStart, AtUpdate, AtPass, Untraced
  <1>5. CASE TraceDirect
    BY <1>1, <1>5 DEF TraceDirect, Submit, Relay, AtStart, AtUpdate, AtPass, Untraced
  <1>6. CASE UpdateCdf
    BY <1>1, <1>6
    DEF UpdateCdf, Submit, Relay, AtStart, AtUpdate, AtPass, Loaded, LeftOf, LeftBy
  <1>7. CASE CopyTotal
    BY <1>1, <1>7
    DEF CopyTotal, Submit, Relay, AtStart, AtUpdate, AtPass, Loaded, LeftOf, LeftBy
  <1>8. CASE AfterDirect
    BY <1>1, <1>8
    DEF AfterDirect, LoopHead, Relay, AtStart, AtUpdate, AtPass, Ready, Loaded, LeftOf,
       LeftBy
  <1>9. CASE ClearOutput
    BY <1>1, <1>9
    DEF ClearOutput, Submit, Relay, AtStart, AtUpdate, AtPass, Ready, Loaded, LeftOf, LeftBy
  <1>10. CASE TraceReflected
    BY <1>1, <1>10
    DEF TraceReflected, Submit, Relay, AtStart, AtUpdate, AtPass, Ready, Loaded, LeftOf,
       LeftBy
  <1>11. CASE SwitchBuffers
    BY <1>1, <1>11
    DEF SwitchBuffers, Relay, AtStart, AtUpdate, AtPass, Loaded, LeftOf, LeftBy, Other
  <1>12. CASE Decide
    BY <1>1, <1>12
    DEF Decide, LoopHead, Relay, AtStart, AtUpdate, AtPass, Ready, Loaded, LeftOf, LeftBy
  <1> QED
    BY <1>3, <1>4, <1>5, <1>6, <1>7, <1>8, <1>9, <1>10, <1>11, <1>12 DEF Host
-----------------------------------------------------------------------------
(* Judging a pass.                                                         *)

\* What the tests ask of a pass depends on no later one.
LEMMA JudgementStays ==
    ASSUME NEW d \in Nat, NEW n \in Nat, controls' = controls,
           controls.streak \in Nat \ {0},
           \A q \in 0..d : LeftBy(q)' = LeftBy(q)
    PROVE  /\ NoReason(d) => NoReason(d)'
           /\ GrewLast(n, d) => GrewLast(n, d)'
  <1>1. \A q \in 1..d : GrewIn(q)' = GrewIn(q)
    BY DEF GrewIn
  <1>2. \A q \in 0..d : SpentAfter(q)' = SpentAfter(q)
    BY DEF SpentAfter
  <1>3. \A q \in 1..d : Resting(q)' = Resting(q)
    <2> SUFFICES ASSUME NEW q \in 1..d PROVE Resting(q)' = Resting(q)
      OBVIOUS
    <2>1. LeftBy(q)' = LeftBy(q) /\ LeftBy(q - 1)' = LeftBy(q - 1)
      OBVIOUS
    <2> QED
      BY <1>1, <2>1 DEF Resting, Unchanging
  <1>4. \A k \in Nat, q \in 0..d : GrewFor(k, q) => GrewFor(k, q)'
    BY <1>1 DEF GrewFor
  <1>5. \A k \in Nat, q \in 0..d : GrewFor(k, q)' => GrewFor(k, q)
    BY <1>1 DEF GrewFor
  <1>6. NoReason(d) => NoReason(d)'
    BY <1>2, <1>3, <1>5 DEF NoReason
  <1>7. GrewLast(n, d) => GrewLast(n, d)'
    <2> SUFFICES ASSUME GrewLast(n, d) PROVE GrewLast(n, d)'
      OBVIOUS
    <2>1. GrewFor(n, d)'
      BY <1>4 DEF GrewLast
    <2>2. n < d => GrewIn(d - n)' = GrewIn(d - n)
      BY <1>1
    <2> QED
      BY <2>1, <2>2 DEF GrewLast
  <1> QED
    BY <1>6, <1>7

\* A pass that grows makes the streak one longer, any other ends it.
LEMMA StreakCounts ==
    ASSUME NEW n \in Nat, NEW p \in Nat \ {0}, GrewLast(n, p - 1)
    PROVE  GrewLast(IF GrewIn(p) THEN n + 1 ELSE 0, p)
  <1>1. CASE GrewIn(p)
    <2>1. GrewFor(n + 1, p)
      BY <1>1 DEF GrewLast, GrewFor
    <2>2. n + 1 < p => ~GrewIn(p - (n + 1))
      BY DEF GrewLast
    <2> QED
      BY <1>1, <2>1, <2>2 DEF GrewLast
  <1>2. CASE ~GrewIn(p)
    BY <1>2 DEF GrewLast, GrewFor
  <1> QED
    BY <1>1, <1>2

\* The streak answers how long the passes have grown.
LEMMA StreakDecides ==
    ASSUME NEW n \in Nat, NEW p \in Nat, NEW k \in Nat \ {0}, GrewLast(n, p)
    PROVE  GrewFor(k, p) <=> k <= n
  <1>1. ASSUME k <= n PROVE GrewFor(k, p)
    BY <1>1 DEF GrewLast, GrewFor
  <1>2. ASSUME GrewFor(k, p), n < k PROVE FALSE
    <2>1. n < p /\ p - n \in (p - k + 1)..p
      BY <1>2 DEF GrewFor
    <2> QED
      BY <1>2, <2>1 DEF GrewFor, GrewLast
  <1> QED
    BY <1>1, <1>2

\* Multiplication by a natural number keeps the order.
LEMMA Scaled ==
    ASSUME NEW a \in Nat, NEW b \in Nat, NEW c \in Nat, a <= b
    PROVE  a * c <= b * c
  <1>1. (b - a) * c >= 0
    OBVIOUS
  <1>2. (b - a) * c = b * c - a * c
    OBVIOUS
  <1>3. a * c \in Int /\ b * c \in Int
    OBVIOUS
  <1> QED
    BY <1>1, <1>2, <1>3

\* What is left cannot become negligible by growing.
LEMMA GrowthIsNotSpent ==
    ASSUME NEW p \in Nat \ {0}, LeftBy(p) \in Nat, LeftBy(p - 1) \in Nat,
           LeftBy(0) \in Nat, GrewIn(p), ~SpentAfter(p - 1)
    PROVE  ~SpentAfter(p)
  <1>1. LeftBy(p - 1) * TolDen <= LeftBy(p) * TolDen
    BY Scaled, ToleranceAssumption DEF GrewIn
  <1>2. /\ LeftBy(p - 1) * TolDen \in Int
        /\ LeftBy(p) * TolDen \in Int
        /\ TolNum * LeftBy(0) \in Int
    BY ToleranceAssumption
  <1>3. ~(LeftBy(p - 1) * TolDen < TolNum * LeftBy(0))
    BY DEF SpentAfter
  <1> QED
    BY <1>1, <1>2, <1>3 DEF SpentAfter

\* The direct rays are not below the tolerance of themselves.
LEMMA DirectIsNotSpent ==
    ASSUME LeftBy(0) \in Nat
    PROVE  ~SpentAfter(0)
  <1>1. TolNum * LeftBy(0) <= TolDen * LeftBy(0)
    BY Scaled, ToleranceAssumption
  <1>2. TolDen * LeftBy(0) = LeftBy(0) * TolDen
    BY ToleranceAssumption
  <1>3. LeftBy(0) * TolDen \in Int /\ TolNum * LeftBy(0) \in Int
    BY ToleranceAssumption
  <1> QED
    BY <1>1, <1>2, <1>3 DEF SpentAfter

\* The three reasons to stop, one by one.
LEMMA ReasonsToStop ==
    ASSUME NEW p
    PROVE  /\ EndsLike("diverged", p) <=> GrewFor(controls.streak, p)
           /\ EndsLike("stable", p) <=> Resting(p)
           /\ EndsLike("converged", p) <=> SpentAfter(p) /\ ~GrewIn(p) /\ ~Resting(p)
  BY DEF EndsLike

\* The order of the host's tests gives each pass the status it deserves.
LEMMA StatusDeserved ==
    ASSUME NEW p \in Nat \ {0}, NEW n \in Nat,
           \A q \in 0..p : LeftBy(q) \in Nat,
           controls.streak \in Nat \ {0},
           initialWeight = LeftBy(0), previousWeight = LeftBy(p - 1),
           NoReason(p - 1), GrewLast(n, p),
           NEW status, status = StatusAfter(LeftBy(p), n)
    PROVE  \/ status = "max_iterations" /\ NoReason(p)
           \/ status \in Reasons /\ EndsLike(status, p)
  <1>1. Grew(LeftBy(p)) <=> GrewIn(p)
    BY DEF Grew, GrewIn
  <1>2. Unchanging(LeftBy(p), previousWeight) /\ ~GrewIn(p) <=> Resting(p)
    BY DEF Resting
  <1>3. Exhausted(LeftBy(p)) <=> SpentAfter(p)
    BY DEF Exhausted, SpentAfter
  <1>4. GrewFor(controls.streak, p) <=> controls.streak <= n
    BY StreakDecides
  <1>5. GrewFor(controls.streak, p) => GrewIn(p)
    BY DEF GrewFor
  <1>6. ~(GrewIn(p) /\ SpentAfter(p))
    <2>1. ~SpentAfter(p - 1)
      BY DEF NoReason
    <2> QED
      BY <2>1, GrowthIsNotSpent
  <1>7. CASE GrewFor(controls.streak, p)
    BY <1>1, <1>4, <1>5, <1>7, ReasonsToStop DEF StatusAfter, Reasons
  <1>8. CASE ~GrewFor(controls.streak, p) /\ Resting(p)
    <2>1. ~GrewIn(p)
      BY <1>8 DEF Resting
    <2>2. status = "stable"
      BY <1>1, <1>2, <1>8, <2>1 DEF StatusAfter
    <2> QED
      BY <1>8, <2>2, ReasonsToStop DEF Reasons
  <1>9. CASE ~GrewFor(controls.streak, p) /\ ~Resting(p)
    <2>1. status = IF SpentAfter(p) THEN "converged" ELSE "max_iterations"
      BY <1>1, <1>2, <1>3, <1>4, <1>9 DEF StatusAfter
    <2>2. CASE SpentAfter(p)
      BY <1>6, <1>9, <2>1, <2>2, ReasonsToStop DEF Reasons
    <2>3. CASE ~SpentAfter(p)
      BY <1>9, <2>1, <2>3 DEF NoReason
    <2> QED
      BY <2>2, <2>3
  <1> QED
    BY <1>7, <1>8, <1>9

\* The device adds to the history behind what the host has judged.
LEMMA DeviceVerdicts == ASSUME SrmInv, Device PROVE Verdicts'
  <1>1. Types /\ Relay /\ Verdicts
    BY DEF SrmInv
  <1>2. UNCHANGED <<controls, pc, hostVars>>
    BY DeviceWork
  <1>3. InLoop' = InLoop /\ Judged' = Judged /\ pass \in Nat
    BY <1>1, <1>2 DEF InLoop, Judged, Types, hostVars
  <1>4. CASE ~InLoop
    BY <1>1, <1>2, <1>3, <1>4 DEF Verdicts, hostVars
  <1>5. CASE InLoop
    <2>1. Judged \in Nat /\ growCount \in Nat /\ controls.streak \in Nat \ {0}
      <3>1. controls.streak \in Streaks
        BY <1>1 DEF Types
      <3>2. pass \in Nat /\ growCount \in Nat /\ (pc # "clear" => pass > 0)
        BY <1>1, <1>5 DEF Types, Verdicts, InLoop
      <3>3. Judged \in Nat
        BY <3>2 DEF Judged
      <3>4. controls.streak \in Nat \ {0}
        BY <3>1, StreaksAssumption
      <3> QED
        BY <3>2, <3>3, <3>4
    <2>2. \A q \in 0..Judged : LeftBy(q)' = LeftBy(q)
      <3>1. CASE history' = history
        BY <3>1 DEF LeftBy
      <3>2. CASE pc = "switch" /\ Fills(Other(input), pass)
        <4>1. Len(history) = pass /\ Judged = pass - 1 /\ history \in Seq(Weights)
          BY <1>1, <3>2, DeviceWork DEF Relay, AtPass, Ready, Loaded, Judged, Types
        <4>2. PICK w \in Weights : history' = Append(history, w)
          BY <3>2 DEF Fills
        <4> QED
          BY <4>1, <4>2, HistoryGrows
      <3>3. pc # "direct" /\ (pc = "scan" => pass > 0)
        BY <1>5 DEF InLoop
      <3>4. pc # "scan"
        BY <1>1, <3>3, DeviceWork DEF Relay, AtUpdate, Untraced, Device
      <3> QED
        BY <3>1, <3>2, <3>3, <3>4, DeviceWork DEF Clears
    <2>3. NoReason(Judged)' /\ GrewLast(growCount, Judged)'
      <3>1. NoReason(Judged) /\ GrewLast(growCount, Judged)
        BY <1>1, <1>5 DEF Verdicts
      <3>2. PICK d \in Nat, n \in Nat : d = Judged /\ n = growCount
        BY <2>1
      <3>3. NoReason(d)' /\ GrewLast(n, d)'
        BY <1>2, <2>1, <2>2, <3>1, <3>2, JudgementStays
      <3>4. Judged' = d /\ growCount' = n
        BY <1>2, <1>3, <3>2 DEF hostVars
      <3> QED
        BY <3>3, <3>4 DEF NoReason, GrewLast, GrewFor, SpentAfter, Resting, GrewIn, LeftBy
    <2> QED
      BY <1>1, <1>2, <1>3, <1>5, <2>1, <2>2, <2>3 DEF Verdicts, hostVars
  <1> QED
    BY <1>4, <1>5

\* The facts at the end of a pass: the one before is judged, this one is copied.
LEMMA AtDecide ==
    ASSUME SrmInv, Decide
    PROVE  /\ pass \in Nat \ {0}
           /\ pass <= controls.maxIterations
           /\ controls.maxIterations \in Nat
           /\ controls.streak \in Nat \ {0}
           /\ Passes = pass
           /\ totalHost = LeftBy(pass)
           /\ \A q \in 0..pass : LeftBy(q) \in Nat
           /\ initialWeight = LeftBy(0)
           /\ previousWeight = LeftBy(pass - 1)
           /\ NoReason(pass - 1)
           /\ Streak(LeftBy(pass)) \in Nat
           /\ GrewLast(Streak(LeftBy(pass)), pass)
  <1>1. Types /\ Relay /\ Verdicts
    BY DEF SrmInv
  <1>2. pc = "decide" /\ queue = <<>> /\ InLoop
    BY DEF Decide, Waited, InLoop
  <1>3. pass \in Nat \ {0} /\ controls \in [maxIterations : Iterations, streak : Streaks,
                                            fits : BOOLEAN]
    BY <1>1, <1>2 DEF Types, Verdicts
  <1>4. Len(history) = pass + 1 /\ totalHost = LeftBy(pass) /\ history \in Seq(Weights)
    BY <1>1, <1>2 DEF Relay, AtUpdate, Loaded, Types
  <1>5. Passes = pass
    BY <1>3, <1>4 DEF Passes
  <1>6. \A q \in 0..pass : LeftBy(q) \in Nat
    BY <1>3, <1>4, WeightAssumption DEF LeftBy, Weights
  <1>7. Judged = pass - 1
    BY <1>2 DEF Judged
  <1>8. /\ pass <= controls.maxIterations
        /\ initialWeight = LeftBy(0)
        /\ previousWeight = LeftBy(pass - 1)
        /\ NoReason(pass - 1)
        /\ GrewLast(growCount, pass - 1)
        /\ growCount \in Nat
    BY <1>1, <1>2, <1>7 DEF Verdicts, Types
  <1>9. Streak(LeftBy(pass)) = IF GrewIn(pass) THEN growCount + 1 ELSE 0
    BY <1>8 DEF Streak, Grew, GrewIn
  <1>10. GrewLast(Streak(LeftBy(pass)), pass)
    BY <1>3, <1>8, <1>9, StreakCounts
  <1>11. controls.maxIterations \in Nat
    BY <1>3, IterationsAssumption
  <1>12. controls.streak \in Nat \ {0}
    BY <1>3, StreaksAssumption
  <1>13. Streak(LeftBy(pass)) \in Nat
    BY <1>8, <1>9
  <1> QED
    BY <1>3, <1>4, <1>5, <1>6, <1>8, <1>10, <1>11, <1>12, <1>13

\* The host judges each pass once, by what it left, and goes on only if there is no
\* reason to stop.
LEMMA HostVerdicts == ASSUME SrmInv, Host PROVE Verdicts'
  <1>1. Types /\ Relay /\ Verdicts
    BY DEF SrmInv
  <1> USE DEF hostVars, deviceVars, Waited
  <1>2. ASSUME UNCHANGED <<controls, history>>, NEW d, NEW n
        PROVE  /\ NoReason(d)' = NoReason(d)
               /\ GrewLast(n, d)' = GrewLast(n, d)
               /\ LeftBy(d)' = LeftBy(d)
               /\ LeftBy(0)' = LeftBy(0)
    BY <1>2 DEF NoReason, GrewLast, GrewFor, SpentAfter, Resting, GrewIn, LeftBy
  <1>3. pass \in Nat /\ growCount \in Nat /\ history \in Seq(Weights)
    BY <1>1 DEF Types
  <1>4. CASE Reject
    BY <1>1, <1>4 DEF Reject, Verdicts, InLoop
  <1>5. CASE Start
    BY <1>1, <1>5 DEF Start, Submit, Verdicts, InLoop, Pcs
  <1>6. CASE TraceDirect
    BY <1>1, <1>6 DEF TraceDirect, Submit, Verdicts, InLoop, Pcs
  <1>7. CASE UpdateCdf
    <2>1. InLoop' = InLoop /\ Judged' = Judged
      BY <1>7 DEF UpdateCdf, Submit, InLoop, Judged
    <2> QED
      BY <1>1, <1>2, <1>7, <2>1 DEF UpdateCdf, Submit, Verdicts, Pcs
  <1>8. CASE CopyTotal
    <2>1. InLoop' = InLoop /\ Judged' = Judged
      BY <1>3, <1>8 DEF CopyTotal, Submit, InLoop, Judged
    <2>2. pc' = "decide" => pass > 0
      BY <1>3, <1>8 DEF CopyTotal, Submit
    <2>3. pc' = "first" => pass = 0
      BY <1>8 DEF CopyTotal, Submit
    <2> QED
      BY <1>1, <1>2, <1>8, <2>1, <2>2, <2>3 DEF CopyTotal, Submit, Verdicts, Pcs
  <1>9. CASE AfterDirect
    <2>1. pc = "first" /\ queue = <<>> /\ pass = 0 /\ growCount = 0
      BY <1>1, <1>9 DEF AfterDirect, Verdicts, InLoop, Pcs
    <2>2. totalHost = LeftBy(0) /\ Len(history) = 1
      BY <1>1, <2>1 DEF Relay, AtUpdate, Loaded
    <2>3. LeftBy(0) \in Nat
      BY <1>3, <2>2, WeightAssumption DEF LeftBy, Weights
    <2>4. NoReason(0) /\ GrewLast(0, 0)
      BY <2>3, DirectIsNotSpent DEF NoReason, GrewLast, GrewFor
    <2>5. CASE pc' = "returned"
      BY <2>5 DEF Verdicts, InLoop
    <2>6. CASE pc' = "clear"
      <3>1. Judged' = 0 /\ InLoop'
        BY <1>9, <2>1, <2>6 DEF Judged, InLoop, AfterDirect
      <3>2. /\ pass' < controls'.maxIterations
            /\ initialWeight' = LeftBy(0)
            /\ previousWeight' = LeftBy(0)
            /\ pass' = 0 /\ growCount' = 0
            /\ UNCHANGED <<controls, history>>
        BY <1>9, <2>1, <2>2, <2>6 DEF AfterDirect, LoopHead
      <3>3. pass' <= controls'.maxIterations
        <4>1. controls.maxIterations \in Nat
          BY <1>1, IterationsAssumption DEF Types
        <4> QED
          BY <3>2, <4>1
      <3>4. NoReason(0)' /\ GrewLast(0, 0)'
        BY <1>2, <2>4, <3>2
      <3> QED
        BY <1>2, <2>6, <3>1, <3>2, <3>3, <3>4 DEF Verdicts
    <2> QED
      BY <1>9, <2>5, <2>6 DEF AfterDirect, LoopHead
  <1>10. CASE ClearOutput
    <2>1. InLoop /\ InLoop' /\ Judged' = Judged /\ Judged = pass /\ pc' = "reflect"
      BY <1>3, <1>10 DEF ClearOutput, Submit, InLoop, Judged
    <2>2. pass' \in Nat /\ pass' > 0 /\ pass' <= controls'.maxIterations
      <3>1. pass < controls.maxIterations /\ controls.maxIterations \in Nat
        BY <1>1, <1>10, <2>1, IterationsAssumption DEF ClearOutput, Verdicts, Types
      <3> QED
        BY <1>3, <1>10, <3>1 DEF ClearOutput, Submit
    <2> QED
      BY <1>1, <1>2, <1>10, <2>1, <2>2 DEF ClearOutput, Submit, Verdicts
  <1>11. CASE TraceReflected
    <2>1. InLoop /\ InLoop' /\ Judged' = Judged
      BY <1>11 DEF TraceReflected, Submit, InLoop, Judged
    <2> QED
      BY <1>1, <1>2, <1>11, <2>1 DEF TraceReflected, Submit, Verdicts
  <1>12. CASE SwitchBuffers
    <2>1. pass > 0
      BY <1>1, <1>12 DEF SwitchBuffers, Verdicts
    <2>2. InLoop /\ InLoop' /\ Judged' = Judged
      BY <1>12, <2>1 DEF SwitchBuffers, InLoop, Judged
    <2> QED
      BY <1>1, <1>2, <1>12, <2>1, <2>2 DEF SwitchBuffers, Verdicts
  <1>13. CASE Decide
    <2>1. CASE pc' = "returned"
      BY <2>1 DEF Verdicts, InLoop
    <2>2. CASE pc' # "returned"
      <3>1. /\ growCount' = Streak(totalHost)
            /\ StatusAfter(totalHost, growCount') = "max_iterations"
            /\ pc' = "clear" /\ pass < controls.maxIterations
            /\ previousWeight' = totalHost
            /\ UNCHANGED <<controls, history, pass, initialWeight>>
        BY <1>13, <2>2 DEF Decide, LoopHead
      <3>2. NoReason(pass)
        BY <1>13, <3>1, AtDecide, StatusDeserved DEF Reasons
      <3>3. InLoop' /\ Judged' = pass
        BY <3>1 DEF InLoop, Judged
      <3>4. /\ pass' <= controls'.maxIterations
            /\ pass' < controls'.maxIterations
            /\ initialWeight' = LeftBy(0)
            /\ previousWeight' = LeftBy(pass)
            /\ GrewLast(growCount', pass)
        BY <1>13, <3>1, AtDecide
      <3> QED
        BY <1>2, <3>1, <3>2, <3>3, <3>4 DEF Verdicts
    <2> QED
      BY <2>1, <2>2
  <1> QED
    BY <1>4, <1>5, <1>6, <1>7, <1>8, <1>9, <1>10, <1>11, <1>12, <1>13 DEF Host

\* A loop that ends has judged its last pass, and the status says why it was the
\* last.
LEMMA HostStatus == ASSUME SrmInv, [Next]_vars PROVE StatusIsTruthful'
  <1>1. Types /\ Relay /\ Verdicts /\ StatusIsTruthful
    BY DEF SrmInv
  <1>2. history \in Seq(Weights) /\ controls.maxIterations \in Nat
    BY <1>1, IterationsAssumption DEF Types
  <1>3. ASSUME pc = "returned", UNCHANGED <<controls, result, history>>
        PROVE  StatusIsTruthful'
    BY <1>1, <1>3
    DEF StatusIsTruthful, Passes, LeftBy, EndsLike, GrewFor, Resting, SpentAfter, GrewIn
  <1>4. CASE UNCHANGED vars
    <2>1. CASE pc = "returned"
      BY <1>3, <1>4, <2>1 DEF vars, hostVars, deviceVars
    <2>2. CASE pc # "returned"
      BY <1>4, <2>2 DEF vars, StatusIsTruthful
    <2> QED
      BY <2>1, <2>2
  <1>5. CASE Device
    <2>1. pc' # "returned"
      BY <1>5, DeviceWork
    <2> QED
      BY <2>1 DEF StatusIsTruthful
  <1>6. CASE AfterDirect /\ pc' = "returned"
    <2>1. /\ pc = "first" /\ queue = <<>> /\ pass = 0
          /\ result.passes = 0 /\ result.remaining = 0
      BY <1>1, <1>6 DEF AfterDirect, Waited, Verdicts, InLoop, Pcs
    <2>2. totalHost = LeftBy(0) /\ Len(history) = 1 /\ totalHost \in Nat
      BY <1>1, <2>1 DEF Relay, AtUpdate, Loaded, Types
    <2>3. UNCHANGED <<controls, history>>
      BY <1>6 DEF AfterDirect, deviceVars
    <2>4. Passes' = 0 /\ LeftBy(0)' = totalHost
      BY <2>2, <2>3 DEF Passes, LeftBy
    <2>5. result \in [status : Statuses, passes : Nat, remaining : Nat]
      BY <1>1 DEF Types
    <2>6. CASE totalHost = 0
      <3>1. result'.status = "converged" /\ result'.passes = 0
        BY <1>6, <2>1, <2>5, <2>6 DEF AfterDirect
      <3>2. result'.remaining = 0
        BY <1>6, <2>1, <2>5, <2>6 DEF AfterDirect
      <3> QED
        BY <1>2, <2>3, <2>4, <2>6, <3>1, <3>2 DEF StatusIsTruthful
    <2>7. CASE totalHost # 0
      <3>1. /\ result'.status = "max_iterations" /\ result'.passes = 0
            /\ result'.remaining = totalHost
            /\ ~(0 < controls.maxIterations)
        BY <1>6, <2>1, <2>5, <2>7 DEF AfterDirect, LoopHead
      <3> QED
        BY <1>2, <2>3, <2>4, <2>7, <3>1 DEF StatusIsTruthful
    <2> QED
      BY <2>6, <2>7
  <1>7. CASE Decide /\ pc' = "returned"
    <2> DEFINE status == StatusAfter(totalHost, growCount')
    <2>1. /\ result' = [status |-> status, passes |-> pass, remaining |-> totalHost]
          /\ status = "max_iterations" => ~(pass < controls.maxIterations)
          /\ growCount' = Streak(totalHost)
          /\ UNCHANGED <<controls, history>>
      BY <1>7 DEF Decide, LoopHead, deviceVars
    <2>2. \/ status = "max_iterations" /\ NoReason(pass)
          \/ status \in Reasons /\ EndsLike(status, pass)
      BY <1>7, <2>1, AtDecide, StatusDeserved
    <2>3. ASSUME NEW p \in Nat, NoReason(p)
          PROVE  \A q \in 1..p, s \in Reasons : ~EndsLike(s, q)
      BY <2>3, ReasonsToStop DEF NoReason, Reasons
    <2>4. /\ pass \in Nat \ {0} /\ pass <= controls.maxIterations
          /\ Passes = pass /\ totalHost = LeftBy(pass) /\ NoReason(pass - 1)
      BY <1>7, AtDecide
    <2>5. /\ \A q \in 1..(pass - 1), s \in Reasons : ~EndsLike(s, q)
          /\ status = "max_iterations" =>
                 pass = controls.maxIterations /\ \A s \in Reasons : ~EndsLike(s, pass)
          /\ status # "max_iterations" => EndsLike(status, pass)
      <3>1. pass - 1 \in Nat /\ pass \in 1..pass
        BY <2>4
      <3>2. "max_iterations" \notin Reasons
        BY DEF Reasons
      <3> QED
        BY <1>2, <2>1, <2>2, <2>3, <2>4, <3>1, <3>2
    <2>6. ASSUME NEW p, NEW s
          PROVE  /\ EndsLike(s, p)' = EndsLike(s, p)
                 /\ LeftBy(p)' = LeftBy(p)
                 /\ Passes' = Passes
      BY <2>1 DEF EndsLike, GrewFor, Resting, SpentAfter, GrewIn, LeftBy, Passes
    <2>7. PICK p \in Nat \ {0}, s \in {status} : p = pass /\ s = status
      BY <2>4
    <2>8. /\ result'.passes = p /\ result'.status = s /\ result'.remaining = LeftBy(p)
          /\ Passes' = p /\ controls' = controls
      BY <2>1, <2>4, <2>6, <2>7
    <2> HIDE DEF status
    <2> QED
      BY <1>7, <2>4, <2>5, <2>6, <2>7, <2>8 DEF StatusIsTruthful
  <1>8. CASE Host /\ ~(AfterDirect \/ Decide)
    <2>1. pc' # "returned"
      BY <1>8 DEF Host, Reject, Start, TraceDirect, UpdateCdf, CopyTotal, ClearOutput,
                  TraceReflected, SwitchBuffers, Submit
    <2> QED
      BY <2>1 DEF StatusIsTruthful
  <1>9. CASE pc' # "returned"
    BY <1>9 DEF StatusIsTruthful
  <1> QED
    BY <1>4, <1>5, <1>6, <1>7, <1>8, <1>9 DEF Next, Terminated

\* The invariant holds in every state.
THEOREM SrmInvariant == Spec => []SrmInv
  <1>1. SrmInv /\ [Next]_vars => SrmInv'
    <2> SUFFICES ASSUME SrmInv, [Next]_vars PROVE SrmInv'
      OBVIOUS
    <2>1. Types'
      BY SrmStepTypes
    <2>2. StatusIsTruthful'
      BY HostStatus
    <2>3. CASE UNCHANGED vars
      <3>1. Relay' /\ Verdicts'
        BY <2>3 DEF SrmInv, vars, hostVars, deviceVars, Relay, AtStart, AtUpdate, AtPass,
           Verdicts, Untraced, Loaded, Ready, LeftOf, LeftBy, InLoop, Judged, NoReason,
           GrewLast, GrewFor, GrewIn, Resting, SpentAfter
      <3> QED
        BY <2>1, <2>2, <3>1 DEF SrmInv
    <2>4. CASE Device
      BY <2>1, <2>2, <2>4, DeviceRelay, DeviceVerdicts DEF SrmInv
    <2>5. CASE Host
      BY <2>1, <2>2, <2>5, HostRelay, HostVerdicts DEF SrmInv
    <2> QED
      BY <2>3, <2>4, <2>5 DEF Next, Terminated
  <1> QED
    BY <1>1, SrmInit, PTL DEF Spec

\* The variables keep their types, and the device never has more than two pieces of
\* work before it.
THEOREM SrmTypeCorrect == Spec => []TypeOK
  <1>1. SrmInv => TypeOK
    <2> SUFFICES ASSUME SrmInv PROVE TypeOK
      OBVIOUS
    <2>1. Types
      BY DEF SrmInv
    <2>2. Len(queue) <= 2
      <3>1. \/ queue = <<>>
            \/ \E work : queue = <<work>>
            \/ \E first, second : queue = <<first, second>>
        BY <2>1 DEF SrmInv, Relay, AtStart, AtUpdate, AtPass, Types, Pcs
      <3>2. CASE queue = <<>>
        BY <3>2
      <3>3. ASSUME NEW work, queue = <<work>> PROVE Len(queue) <= 2
        <4>1. Len(queue) = 1
          BY <3>3
        <4> QED
          BY <4>1
      <3>4. ASSUME NEW first, NEW second, queue = <<first, second>>
            PROVE  Len(queue) <= 2
        <4>1. Len(queue) = 2
          BY <3>4
        <4> QED
          BY <4>1
      <3> QED
        BY <3>1, <3>2, <3>3, <3>4
    <2> QED
      BY <2>1, <2>2 DEF TypeOK, Types, Names, Contents
  <1> QED
    BY <1>1, SrmInvariant, PTL

\* A reflected pass samples exactly what the pass before left, with a distribution
\* and a scale computed from it, into an empty reservoir.
THEOREM PassesFollow == Spec => []PassFollowsPass
  <1>1. SrmInv => PassFollowsPass
    <2> SUFFICES ASSUME SrmInv, queue # <<>>, Head(queue).kind = "reflect"
                 PROVE  PassFollowsPass
      BY DEF PassFollowsPass
    <2>1. Types /\ AtStart /\ AtUpdate /\ AtPass
      BY DEF SrmInv, Relay
    <2>2. /\ pc = "switch"
          /\ queue = <<Reflect(input, Other(input), pass, previousWeight)>>
      BY <2>1
      DEF Types, Pcs, AtStart, AtUpdate, AtPass, Clear, Direct, Scan, Copy
    <2>3. /\ Head(queue).from = input
          /\ Head(queue).to = Other(input)
          /\ Head(queue).pass = pass
          /\ Head(queue).weight = previousWeight
      BY <2>2 DEF Reflect
    <2> QED
      BY <2>1, <2>2, <2>3 DEF PassFollowsPass, AtPass, Ready, Loaded, LeftOf
  <1> QED
    BY <1>1, SrmInvariant, PTL

\* The reported status, number of passes and remaining weight are what happened on
\* the device, and no earlier pass gave a reason to stop.
THEOREM StatusesAreTruthful == Spec => []StatusIsTruthful
  <1>1. SrmInv => StatusIsTruthful
    BY DEF SrmInv
  <1> QED
    BY <1>1, SrmInvariant, PTL
=============================================================================

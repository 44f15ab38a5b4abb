------------------------ MODULE TimeStepping_proofs ------------------------
(***************************************************************************)
(* Proofs about TimeStepping, for any runs, fields and rates.              *)
(*                                                                         *)
(* The instructions of a step are such that every ASE evaluation follows a *)
(* wait, with at most a pump kernel in between.  So what is queued while   *)
(* the evaluation runs is known (Quiet), the field it reads stays what it  *)
(* was when it began (Fresh), and the buffers are always those of a        *)
(* blocking queue up to the execution of what is still queued (Pending).   *)
(***************************************************************************)
EXTENDS TimeStepping, FiniteSetTheorems, WellFoundedInduction, TLAPS

-----------------------------------------------------------------------------
(* The instructions of a step.                                             *)

Arity(op) ==
    CASE op \in {"fill", "load", "read"} -> 0
      [] op \in {"copy", "pump", "clip"} -> 1
      [] op \in {"add", "addHalf"} -> 2
      [] op \in {"heun", "exponential", "compose", "composePumped"} -> 3
      [] OTHER -> 5

Ops == {"fill", "copy", "pump", "clip", "add", "addHalf", "heun", "exponential",
        "compose", "composePumped", "rk4"}
Roles == Buffers \cup {"beta", "betaNext", "phi"}

\* What a kernel may write: the population stays until the step is complete, and
\* the flux is for the evaluation to write.
Targets == Roles \ {"beta", "betaA", "betaB", "phi", "volumePhi"}

\* A kernel over these names.
IsKernel(k, names) ==
    /\ k.op \in Ops
    /\ k.in \in [1 .. Arity(k.op) -> names]
    /\ k.out \in names

\* The integrators pump and evaluate the population or a stage of it.
IsInstruction(k) ==
    \/ k.op = "wait"
    \/ k.op = "ase" /\ k.in[1] \in {"beta", "stage"} /\ AseEnabled
    \/ /\ IsKernel(k, Roles) /\ k.out \in Targets
       /\ k.op = "pump" => k.in[1] \in {"beta", "stage"} /\ k.out = "dndtPump"

\* After the first n instructions the queue is empty, or holds a pump kernel.
Waited(s, n) == n > 0 /\ s[n].op = "wait"
Pumped(s, n) == n > 1 /\ s[n].op = "pump" /\ s[n - 1].op = "wait"

Instructions ==
    [op : Ops \cup {"wait", "ase"}, in : UNION {[1 .. n -> Roles] : n \in 0 .. 5},
     out : Roles \cup {None}]

\* A sequence of instructions in which every evaluation follows a wait.
IsProgram(s) ==
    /\ s \in Seq(Instructions)
    /\ \A i \in 1 .. Len(s) :
          /\ IsInstruction(s[i])
          /\ s[i].op = "ase" => Waited(s, i - 1) \/ Pumped(s, i - 1)

-----------------------------------------------------------------------------
(* The inductive invariant.                                                *)

\* A copy may read its host vector late, and there is a run that copies one.
Unstaged == ~StagedCopies /\ \E r \in Runs : r.control

\* What may be in the queue.
IsQueued(k) ==
    \/ IsKernel(k, Buffers) /\ k.out # "volumePhi"
    \/ /\ k.op = "load" /\ k.in = <<>> /\ k.out \in {"betaA", "betaB"} /\ k.value \in Field
    \/ /\ k.op = "read" /\ k.in = <<>> /\ k.out \in {"betaA", "betaB"} /\ Unstaged

Entries ==
    [op : Ops \cup {"read"}, in : UNION {[1 .. n -> Buffers] : n \in 0 .. 5}, out : Buffers]
    \cup [op : {"load"}, in : {<<>>}, out : Buffers, value : Field]

Types ==
    /\ TypeOK
    /\ queue \in Seq(Entries)
    /\ \A i \in DOMAIN queue : IsQueued(queue[i])

\* Where the host is in the step and in the run.
HostAt ==
    /\ pc = "advance" /\ Runnable => at <= Len(AdvanceTimeStep) + 1
    /\ pc \in {"control", "leave"} => at = 1
    /\ pc \in {"advance", "control", "leave"} => step < run.numberOfSteps
    /\ pc # "failed" /\ pc # "advance" => Runnable
    /\ ase # None => /\ AtInstruction("ase")
                     /\ ase.from = BufferOf(Instruction.in[1])
                     /\ ase.next # "trace" => RequireHostValues

\* What the queue may hold after a wait.
Quiet ==
    pc = "advance" /\ Runnable =>
        /\ Waited(AdvanceTimeStep, at - 1) => queue = <<>>
        /\ Pumped(AdvanceTimeStep, at - 1) =>
               queue = <<>> \/ queue = <<InOrder(AdvanceTimeStep[at - 1])>>

\* The evaluation samples and traces the field it was given.
Fresh ==
    ase # None =>
        /\ meshes[Primary].prefix = buf[ase.from]
        /\ ase.next = "refresh" => hostBeta = buf[ase.from]
        /\ ase.next = "trace" =>
               \A d \in Workers : /\ meshes[d].prefix = buf[ase.from]
                                  /\ TracedThrough(d) = buf[ase.from]

\* Executing what is queued leads to the buffers of a blocking queue.
Trace(t) ==
    /\ t[0] = buf
    /\ \A i \in 1 .. Len(queue) : t[i] = Execute(t[i - 1], queue[i])
    /\ t[Len(queue)] = blocking
Pending == \E t \in [0 .. Len(queue) -> [Buffers -> Field]] : Trace(t)

QueueInv == Types /\ HostAt /\ Quiet /\ AsePrivate
StepInv == QueueInv /\ Fresh /\ Pending

-----------------------------------------------------------------------------
(* Programs.                                                               *)

LEMMA EmptyProgram == IsProgram(<<>>)
  BY DEF IsProgram

LEMMA OneInstruction ==
    ASSUME NEW k \in Instructions, IsInstruction(k), k.op # "ase"
    PROVE  IsProgram(<<k>>)
  BY DEF IsProgram

LEMMA ProgramsConcatenate ==
    ASSUME NEW s, NEW t, IsProgram(s), IsProgram(t)
    PROVE  IsProgram(s \o t) /\ Len(s \o t) = Len(s) + Len(t)
<1>1. s \in Seq(Instructions) /\ t \in Seq(Instructions)
  BY DEF IsProgram
<1>2. /\ s \o t \in Seq(Instructions) /\ Len(s \o t) = Len(s) + Len(t)
      /\ Len(s) \in Nat /\ Len(t) \in Nat
      /\ \A i \in 1 .. Len(s) : (s \o t)[i] = s[i]
      /\ \A i \in 1 .. Len(t) : (s \o t)[Len(s) + i] = t[i]
  BY <1>1
<1>3. ASSUME NEW i \in 1 .. Len(s \o t)
      PROVE  /\ IsInstruction((s \o t)[i])
             /\ (s \o t)[i].op = "ase" => Waited(s \o t, i - 1) \/ Pumped(s \o t, i - 1)
  <2>1. CASE i \in 1 .. Len(s)
    <3>1. /\ IsInstruction(s[i])
          /\ s[i].op = "ase" => Waited(s, i - 1) \/ Pumped(s, i - 1)
      BY <2>1 DEF IsProgram
    <3>2. \A n \in 1 .. i : (s \o t)[n] = s[n]
      BY <1>2, <2>1
    <3> QED
      BY <1>2, <2>1, <3>1, <3>2 DEF Waited, Pumped
  <2>2. CASE i \notin 1 .. Len(s)
    <3>1. PICK j \in 1 .. Len(t) : i = Len(s) + j
      <4>1. i - Len(s) \in 1 .. Len(t) /\ i = Len(s) + (i - Len(s))
        BY <1>2, <2>2
      <4> QED
        BY <4>1
    <3>2. /\ IsInstruction(t[j])
          /\ t[j].op = "ase" => Waited(t, j - 1) \/ Pumped(t, j - 1)
      BY DEF IsProgram
    <3>3. (s \o t)[i] = t[j]
      BY <1>2, <3>1
    <3>4. j > 1 => (s \o t)[i - 1] = t[j - 1]
      <4>1. j > 1 => j - 1 \in 1 .. Len(t) /\ i - 1 = Len(s) + (j - 1)
        BY <1>2, <3>1
      <4> QED
        BY <1>2, <4>1
    <3>5. j > 2 => (s \o t)[(i - 1) - 1] = t[(j - 1) - 1]
      <4>1. j > 2 => (j - 1) - 1 \in 1 .. Len(t) /\ (i - 1) - 1 = Len(s) + ((j - 1) - 1)
        BY <1>2, <3>1
      <4> QED
        BY <1>2, <4>1
    <3> QED
      BY <1>2, <3>1, <3>2, <3>3, <3>4, <3>5 DEF Waited, Pumped
  <2> QED
    BY <2>1, <2>2
<1> QED
  BY <1>2, <1>3 DEF IsProgram

\* An evaluation may follow a program that ends with a wait, or with a pump after
\* a wait.
LEMMA EvaluationFollows ==
    ASSUME NEW s, IsProgram(s), Waited(s, Len(s)) \/ Pumped(s, Len(s)),
           NEW k \in Instructions, IsInstruction(k)
    PROVE  IsProgram(s \o <<k>>) /\ Len(s \o <<k>>) = Len(s) + 1
<1>1. s \in Seq(Instructions)
  BY DEF IsProgram
<1>2. /\ s \o <<k>> \in Seq(Instructions) /\ Len(s \o <<k>>) = Len(s) + 1
      /\ Len(s) \in Nat
      /\ \A i \in 1 .. Len(s) : (s \o <<k>>)[i] = s[i]
      /\ (s \o <<k>>)[Len(s) + 1] = k
  BY <1>1
<1>3. ASSUME NEW i \in 1 .. Len(s) + 1
      PROVE  /\ IsInstruction((s \o <<k>>)[i])
             /\ (s \o <<k>>)[i].op = "ase" =>
                    Waited(s \o <<k>>, i - 1) \/ Pumped(s \o <<k>>, i - 1)
  <2>1. CASE i \in 1 .. Len(s)
    <3>1. /\ IsInstruction(s[i])
          /\ s[i].op = "ase" => Waited(s, i - 1) \/ Pumped(s, i - 1)
      BY <2>1 DEF IsProgram
    <3> QED
      BY <1>2, <2>1, <3>1 DEF Waited, Pumped
  <2>2. CASE i = Len(s) + 1
    <3>1. i - 1 = Len(s)
      BY <1>2, <2>2
    <3>2. Waited(s \o <<k>>, Len(s)) \/ Pumped(s \o <<k>>, Len(s))
      BY <1>2 DEF Waited, Pumped
    <3> QED
      BY <1>2, <2>2, <3>1, <3>2
  <2> QED
    BY <1>2, <2>1, <2>2
<1> QED
  BY <1>2, <1>3 DEF IsProgram

\* The sequences that the integrators are put together from.
LEMMA KernelInstructions ==
    /\ \A op \in {"copy"}, a \in Roles, o \in Targets :
           Kernel(op, <<a>>, o) \in Instructions /\ IsInstruction(Kernel(op, <<a>>, o))
    /\ \A op \in {"add", "addHalf"}, a, b \in Roles, o \in Targets :
           Kernel(op, <<a, b>>, o) \in Instructions /\ IsInstruction(Kernel(op, <<a, b>>, o))
    /\ \A op \in {"heun", "exponential", "compose", "composePumped"}, a, b, c \in Roles, o \in Targets :
           Kernel(op, <<a, b, c>>, o) \in Instructions /\ IsInstruction(Kernel(op, <<a, b, c>>, o))
    /\ \A a, b, c, d, e \in Roles, o \in Targets :
           /\ Kernel("rk4", <<a, b, c, d, e>>, o) \in Instructions
           /\ IsInstruction(Kernel("rk4", <<a, b, c, d, e>>, o))
    /\ \A o \in Targets :
           Kernel("fill", <<>>, o) \in Instructions /\ IsInstruction(Kernel("fill", <<>>, o))
    /\ Kernel("wait", <<>>, None) \in Instructions /\ IsInstruction(Kernel("wait", <<>>, None))
    /\ \A a \in {"beta", "stage"} :
           /\ Kernel("ase", <<a>>, "volumePhi") \in Instructions
           /\ AseEnabled => IsInstruction(Kernel("ase", <<a>>, "volumePhi"))
           /\ Kernel("pump", <<a>>, "dndtPump") \in Instructions
           /\ IsInstruction(Kernel("pump", <<a>>, "dndtPump"))
    /\ \A a \in Targets :
           Kernel("clip", <<a>>, a) \in Instructions /\ IsInstruction(Kernel("clip", <<a>>, a))
<1> USE DEF Instructions, IsInstruction, IsKernel, Kernel, Ops, Arity
<1>1. \A a \in Roles : <<a>> \in [1 .. 1 -> Roles]
  OBVIOUS
<1>2. \A a, b \in Roles : <<a, b>> \in [1 .. 2 -> Roles]
  OBVIOUS
<1>3. \A a, b, c \in Roles : <<a, b, c>> \in [1 .. 3 -> Roles]
  OBVIOUS
<1>4. \A a, b, c, d, e \in Roles : <<a, b, c, d, e>> \in [1 .. 5 -> Roles]
  OBVIOUS
<1>5. <<>> \in [1 .. 0 -> Roles]
  OBVIOUS
<1>6. {"beta", "stage"} \subseteq Roles /\ {"volumePhi", "dndtPump"} \subseteq Roles
      /\ Targets \subseteq Roles /\ "dndtPump" \in Targets
  BY DEF Roles, Buffers, Targets
<1> QED
  BY <1>1, <1>2, <1>3, <1>4, <1>5, <1>6

LEMMA RoleNames ==
    /\ {"beta", "betaNext", "phi", "stage", "derivative", "dndtPump", "dndtAse",
        "k1", "k2", "k3", "k4"} \subseteq Roles
    /\ {"beta", "stage"} \subseteq Roles
    /\ {"betaNext", "stage", "derivative", "phiAse", "k1", "k2", "k3", "k4"} \subseteq Targets
    /\ Targets \subseteq Roles
  BY DEF Roles, Buffers, Targets

LEMMA TwoInstructions ==
    ASSUME NEW k \in Instructions, IsInstruction(k), k.op # "ase",
           NEW l \in Instructions, IsInstruction(l), l.op # "ase"
    PROVE  IsProgram(<<k, l>>) /\ Len(<<k, l>>) = 2
  BY DEF IsProgram

LEMMA ConcatenationFirst ==
    ASSUME NEW S, NEW s \in Seq(S), NEW t \in Seq(S)
    PROVE  \A i \in 1 .. Len(s) : (s \o t)[i] = s[i]
  OBVIOUS

LEMMA ConcatenationSecond ==
    ASSUME NEW S, NEW s \in Seq(S), NEW t \in Seq(S)
    PROVE  \A i \in 1 .. Len(t) : (s \o t)[Len(s) + i] = t[i]
  OBVIOUS

\* A stage is a program: the wait comes before the evaluation.
LEMMA StageIsProgram ==
    ASSUME NEW b \in {"beta", "stage"}, NEW refresh \in BOOLEAN
    PROVE  IsProgram(EvaluateStage(b, refresh)) /\ Len(EvaluateStage(b, refresh)) \in 1 .. 5
<1> DEFINE wait == BeforeAse(refresh)
           pump == When(PumpEnabled, <<Kernel("pump", <<b>>, "dndtPump")>>)
           before == wait \o pump
           evaluation == When(refresh /\ AseEnabled, <<Kernel("ase", <<b>>, "volumePhi")>>)
           fill == When(refresh /\ ~AseEnabled, <<Kernel("fill", <<>>, "phiAse")>>)
           compose == <<Kernel(IF PumpEnabled THEN "composePumped" ELSE "compose",
                               <<b, "phi", "dndtPump">>, "derivative")>>
<1>1. b \in Roles /\ "phi" \in Roles /\ "dndtPump" \in Roles /\ "derivative" \in Roles
      /\ "phiAse" \in Targets /\ "derivative" \in Targets
  BY DEF Roles, Buffers, Targets
<1>2. IsProgram(pump) /\ Len(pump) \in 0 .. 1
  BY KernelInstructions, OneInstruction, EmptyProgram DEF When, Kernel
<1>3. IsProgram(wait) /\ Len(wait) \in 0 .. 1
  BY KernelInstructions, OneInstruction, EmptyProgram DEF BeforeAse, When, Kernel
<1>4. IsProgram(fill) /\ Len(fill) \in 0 .. 1
  BY <1>1, KernelInstructions, OneInstruction, EmptyProgram DEF When, Kernel
<1>5. IsProgram(compose) /\ Len(compose) = 1
  BY <1>1, KernelInstructions, OneInstruction DEF Kernel
<1>6. IsProgram(before) /\ Len(before) = Len(wait) + Len(pump)
  BY <1>2, <1>3, ProgramsConcatenate
<1>7. IsProgram(before \o evaluation) /\ Len(before \o evaluation) \in 0 .. 3
  <2>1. CASE refresh /\ AseEnabled
    <3> DEFINE k == Kernel("ase", <<b>>, "volumePhi")
    <3>1. wait = <<Kernel("wait", <<>>, None)>> /\ evaluation = <<k>>
      BY <2>1 DEF BeforeAse, When
    <3>2. k \in Instructions /\ IsInstruction(k)
      BY <2>1, KernelInstructions
    <3>3. /\ wait \in Seq(Instructions) /\ pump \in Seq(Instructions)
          /\ Len(wait) = 1 /\ wait[1].op = "wait"
      BY <1>2, <1>3, <3>1 DEF IsProgram, Kernel
    <3>4. /\ \A i \in 1 .. Len(wait) : before[i] = wait[i]
          /\ \A i \in 1 .. Len(pump) : before[Len(wait) + i] = pump[i]
      <4>1. wait \in Seq(Instructions) /\ pump \in Seq(Instructions)
        BY <3>3
      <4> HIDE DEF wait, pump
      <4> QED
        BY <4>1, ConcatenationFirst, ConcatenationSecond
    <3>5. Len(pump) = 1 => pump[1].op = "pump"
      BY DEF When, Kernel
    <3>6. IF PumpEnabled THEN Len(pump) = 1 ELSE Len(pump) = 0
      BY DEF When
    <3> HIDE DEF wait, pump, before, evaluation, k
    <3>7. ASSUME Waited(before, Len(before)) \/ Pumped(before, Len(before))
          PROVE  /\ IsProgram(before \o evaluation)
                 /\ Len(before \o evaluation) = Len(before) + 1
      BY <1>6, <3>1, <3>2, <3>7, EvaluationFollows
    <3>8. CASE PumpEnabled
      <4>1. Len(pump) = 1 /\ pump[1].op = "pump"
        BY <3>8, <3>5, <3>6
      <4>2. Len(before) = 2
        BY <1>6, <3>3, <4>1
      <4>3. before[1].op = "wait" /\ before[2].op = "pump"
        <5>1. 1 \in 1 .. Len(wait) /\ 1 \in 1 .. Len(pump) /\ Len(wait) + 1 = 2
          BY <3>3, <4>1
        <5>2. before[1] = wait[1] /\ before[2] = pump[1]
          BY <3>4, <5>1
        <5> QED
          BY <3>3, <4>1, <5>2
      <4>4. Pumped(before, Len(before))
        BY <4>2, <4>3 DEF Pumped
      <4> QED
        BY <3>7, <4>2, <4>4
    <3>9. CASE ~PumpEnabled
      <4>1. Len(pump) = 0
        BY <3>9, <3>6
      <4>2. Len(before) = 1
        BY <1>6, <3>3, <4>1
      <4>3. before[1].op = "wait"
        <5>1. 1 \in 1 .. Len(wait)
          BY <3>3
        <5> QED
          BY <3>3, <3>4, <5>1
      <4>4. Waited(before, Len(before))
        BY <4>2, <4>3 DEF Waited
      <4> QED
        BY <3>7, <4>2, <4>4
    <3> QED
      BY <3>8, <3>9
  <2>2. CASE ~(refresh /\ AseEnabled)
    <3>1. evaluation = <<>>
      BY <2>2 DEF When
    <3>2. IsProgram(before \o evaluation) /\ Len(before \o evaluation) = Len(before) + 0
      <4>1. IsProgram(evaluation) /\ Len(evaluation) = 0
        BY <3>1, EmptyProgram
      <4> HIDE DEF before, evaluation
      <4> QED
        BY <1>6, <4>1, ProgramsConcatenate
    <3> HIDE DEF wait, pump, before, evaluation
    <3>3. Len(before) \in 0 .. 2
      <4>1. \A x, y \in 0 .. 1 : x + y \in 0 .. 2
        OBVIOUS
      <4>2. Len(wait) \in 0 .. 1 /\ Len(pump) \in 0 .. 1
        BY <1>2, <1>3
      <4>3. Len(before) = Len(wait) + Len(pump)
        BY <1>6
      <4> QED
        BY <4>1, <4>2, <4>3
    <3> QED
      BY <3>2, <3>3
  <2> QED
    BY <2>1, <2>2
<1>8. /\ IsProgram((before \o evaluation) \o fill)
      /\ Len((before \o evaluation) \o fill) = Len(before \o evaluation) + Len(fill)
  BY <1>4, <1>7, ProgramsConcatenate
<1>9. /\ IsProgram(((before \o evaluation) \o fill) \o compose)
      /\ Len(((before \o evaluation) \o fill) \o compose) = Len((before \o evaluation) \o fill) + Len(compose)
  BY <1>5, <1>8, ProgramsConcatenate
<1>10. EvaluateStage(b, refresh) = ((before \o evaluation) \o fill) \o compose
  BY DEF EvaluateStage
<1> HIDE DEF before, evaluation, fill, compose
<1>11. Len(EvaluateStage(b, refresh)) \in 1 .. 5
  BY <1>4, <1>5, <1>7, <1>8, <1>9, <1>10
<1> QED
  BY <1>9, <1>10, <1>11

\* A program repeated.
LEMMA RepeatedIsProgram ==
    ASSUME NEW s, IsProgram(s), Len(s) \in 1 .. 7, NEW n \in Nat
    PROVE  IsProgram(Repeated(s, n))
<1> DEFINE L == Len(s)
           r == Repeated(s, n)
           place(i) == ((i - 1) % L) + 1
<1>1. s \in Seq(Instructions) /\ DOMAIN s = 1 .. L
  BY DEF IsProgram
<1>2. n * L \in Nat
  OBVIOUS
<1>3. \A i \in 1 .. n * L : r[i] = s[place(i)]
  BY DEF Repeated
<1>4. ASSUME NEW i \in Nat, i > 0
      PROVE  /\ place(i) \in 1 .. L
             /\ place(i) > 1 => i > 1 /\ place(i - 1) = place(i) - 1
             /\ place(i) > 2 => i > 2 /\ place((i - 1) - 1) = (place(i) - 1) - 1
  <2>1. CASE L = 1
    BY <1>4, <2>1
  <2>2. CASE L = 2
    BY <1>4, <2>2
  <2>3. CASE L = 3
    BY <1>4, <2>3
  <2>4. CASE L = 4
    BY <1>4, <2>4
  <2>5. CASE L = 5
    BY <1>4, <2>5
  <2>6. CASE L = 6
    BY <1>4, <2>6
  <2>7. CASE L = 7
    BY <1>4, <2>7
  <2> QED
    BY <2>1, <2>2, <2>3, <2>4, <2>5, <2>6, <2>7
<1> HIDE DEF L, place
<1>5. r \in [1 .. n * L -> Instructions]
  <2>1. ASSUME NEW i \in 1 .. n * L
        PROVE  s[place(i)] \in Instructions
    <3>1. i \in Nat /\ i > 0
      BY <1>2
    <3>2. place(i) \in 1 .. Len(s)
      BY <1>4, <3>1 DEF L
    <3> QED
      BY <1>1, <3>2 DEF L
  <2>2. r = [i \in 1 .. n * L |-> s[place(i)]]
    BY DEF Repeated, place, L
  <2> QED
    BY <2>1, <2>2
<1>6. r \in Seq(Instructions) /\ Len(r) = n * L
  BY <1>2, <1>5
<1>7. ASSUME NEW i \in 1 .. n * L
      PROVE  /\ IsInstruction(r[i])
             /\ r[i].op = "ase" => Waited(r, i - 1) \/ Pumped(r, i - 1)
  <2>1. /\ place(i) \in 1 .. L /\ i \in Nat
        /\ place(i) > 1 => i > 1 /\ place(i - 1) = place(i) - 1
        /\ place(i) > 2 => i > 2 /\ place((i - 1) - 1) = (place(i) - 1) - 1
    BY <1>2, <1>4
  <2>2. /\ r[i] = s[place(i)]
        /\ place(i) > 1 => r[i - 1] = s[place(i) - 1]
        /\ place(i) > 2 => r[(i - 1) - 1] = s[(place(i) - 1) - 1]
    BY <1>2, <1>3, <2>1
  <2>3. /\ IsInstruction(s[place(i)])
        /\ s[place(i)].op = "ase" => Waited(s, place(i) - 1) \/ Pumped(s, place(i) - 1)
    BY <2>1 DEF IsProgram, L
  <2>4. L \in Nat
    BY DEF L
  <2>5. Waited(s, place(i) - 1) => Waited(r, i - 1)
    BY <2>1, <2>2, <2>4 DEF Waited
  <2>6. Pumped(s, place(i) - 1) => Pumped(r, i - 1)
    BY <2>1, <2>2, <2>4 DEF Pumped
  <2> QED
    BY <2>2, <2>3, <2>5, <2>6
<1> QED
  BY <1>6, <1>7 DEF IsProgram

\* The integrators, and the clipping that ends a step.
LEMMA ThenOne ==
    ASSUME NEW s, IsProgram(s), NEW k \in Instructions, IsInstruction(k), k.op # "ase"
    PROVE  IsProgram(s \o <<k>>) /\ Len(s \o <<k>>) = Len(s) + 1
  BY OneInstruction, ProgramsConcatenate

LEMMA ThenTwo ==
    ASSUME NEW s, IsProgram(s),
           NEW k \in Instructions, IsInstruction(k), k.op # "ase",
           NEW l \in Instructions, IsInstruction(l), l.op # "ase"
    PROVE  IsProgram(s \o <<k, l>>) /\ Len(s \o <<k, l>>) = Len(s) + 2
  BY TwoInstructions, ProgramsConcatenate

LEMMA UpdateInstructions ==
    /\ \A op \in {"copy"}, a, o \in Roles : Kernel(op, <<a>>, o).op # "ase"
    /\ \A op \in {"add", "addHalf"}, a, b, o \in Roles : Kernel(op, <<a, b>>, o).op # "ase"
  BY DEF Kernel

LEMMA ExplicitEulerIsProgram == IsProgram(ExplicitEuler)
<1> DEFINE k == Kernel("add", <<"beta", "derivative">>, "betaNext")
<1>1. k \in Instructions /\ IsInstruction(k) /\ k.op # "ase"
  BY KernelInstructions, RoleNames, UpdateInstructions
<1> HIDE DEF k
<1>2. IsProgram(EvaluateStage("beta", TRUE))
  BY StageIsProgram
<1>3. ExplicitEuler = EvaluateStage("beta", TRUE) \o <<k>>
  BY DEF ExplicitEuler, k
<1> QED
  BY <1>1, <1>2, <1>3, ThenOne

LEMMA HeunIsProgram == IsProgram(Heun)
<1> DEFINE k == Kernel("copy", <<"derivative">>, "k1")
           l == Kernel("add", <<"beta", "k1">>, "stage")
           m == Kernel("heun", <<"beta", "k1", "derivative">>, "betaNext")
           s == EvaluateStage("beta", TRUE)
           t == EvaluateStage("stage", TRUE)
<1>1. /\ k \in Instructions /\ IsInstruction(k) /\ k.op # "ase"
      /\ l \in Instructions /\ IsInstruction(l) /\ l.op # "ase"
  BY KernelInstructions, RoleNames, UpdateInstructions
<1>2. m \in Instructions /\ IsInstruction(m) /\ m.op # "ase"
  BY KernelInstructions, RoleNames DEF Kernel
<1>3. IsProgram(s) /\ IsProgram(t)
  BY StageIsProgram
<1>4. Heun = ((s \o <<k, l>>) \o t) \o <<m>>
  BY DEF Heun
<1> HIDE DEF k, l, m, s, t
<1>5. IsProgram(s \o <<k, l>>)
  BY <1>1, <1>3, ThenTwo
<1>6. IsProgram((s \o <<k, l>>) \o t)
  BY <1>3, <1>5, ProgramsConcatenate
<1> QED
  BY <1>2, <1>4, <1>6, ThenOne

LEMMA MidpointIsProgram == IsProgram(Midpoint)
<1> DEFINE k == Kernel("addHalf", <<"beta", "derivative">>, "stage")
           m == Kernel("add", <<"beta", "derivative">>, "betaNext")
           s == EvaluateStage("beta", TRUE)
           t == EvaluateStage("stage", TRUE)
<1>1. /\ k \in Instructions /\ IsInstruction(k) /\ k.op # "ase"
      /\ m \in Instructions /\ IsInstruction(m) /\ m.op # "ase"
  BY KernelInstructions, RoleNames, UpdateInstructions
<1>2. IsProgram(s) /\ IsProgram(t)
  BY StageIsProgram
<1>3. Midpoint = ((s \o <<k>>) \o t) \o <<m>>
  BY DEF Midpoint
<1> HIDE DEF k, m, s, t
<1>4. IsProgram(s \o <<k>>)
  BY <1>1, <1>2, ThenOne
<1>5. IsProgram((s \o <<k>>) \o t)
  BY <1>2, <1>4, ProgramsConcatenate
<1> QED
  BY <1>1, <1>3, <1>5, ThenOne

LEMMA RungeKuttaIsProgram ==
    ASSUME NEW refreshLater \in BOOLEAN
    PROVE  IsProgram(IntegrateRungeKutta4(refreshLater))
<1> DEFINE copy(o) == Kernel("copy", <<"derivative">>, o)
           add(op, a) == Kernel(op, <<"beta", a>>, "stage")
           last == Kernel("rk4", <<"beta", "k1", "k2", "k3", "k4">>, "betaNext")
           c1 == copy("k1") c2 == copy("k2") c3 == copy("k3") c4 == copy("k4")
           a1 == add("addHalf", "k1") a2 == add("addHalf", "k2") a3 == add("add", "k3")
           s == EvaluateStage("beta", TRUE)
           t == EvaluateStage("stage", refreshLater)
           u1 == (s \o <<c1, a1>>) \o t
           u2 == (u1 \o <<c2, a2>>) \o t
           u3 == (u2 \o <<c3, a3>>) \o t
<1>1. /\ c1 \in Instructions /\ IsInstruction(c1) /\ c1.op # "ase"
      /\ c2 \in Instructions /\ IsInstruction(c2) /\ c2.op # "ase"
      /\ c3 \in Instructions /\ IsInstruction(c3) /\ c3.op # "ase"
      /\ c4 \in Instructions /\ IsInstruction(c4) /\ c4.op # "ase"
  BY KernelInstructions, RoleNames, UpdateInstructions
<1>2. /\ a1 \in Instructions /\ IsInstruction(a1) /\ a1.op # "ase"
      /\ a2 \in Instructions /\ IsInstruction(a2) /\ a2.op # "ase"
      /\ a3 \in Instructions /\ IsInstruction(a3) /\ a3.op # "ase"
  BY KernelInstructions, RoleNames, UpdateInstructions
<1>3. last \in Instructions /\ IsInstruction(last) /\ last.op # "ase"
  BY KernelInstructions, RoleNames DEF Kernel
<1>4. IsProgram(s) /\ IsProgram(t)
  BY StageIsProgram
<1>5. IntegrateRungeKutta4(refreshLater) = u3 \o <<c4, last>>
  BY DEF IntegrateRungeKutta4
<1> HIDE DEF c1, c2, c3, c4, a1, a2, a3, last, s, t
<1>6. IsProgram(s \o <<c1, a1>>)
  BY <1>1, <1>2, <1>4, ThenTwo
<1>7. IsProgram(u1)
  BY <1>4, <1>6, ProgramsConcatenate
<1> HIDE DEF u1
<1>8. IsProgram(u1 \o <<c2, a2>>)
  BY <1>1, <1>2, <1>7, ThenTwo
<1>9. IsProgram(u2)
  BY <1>4, <1>8, ProgramsConcatenate
<1> HIDE DEF u2
<1>10. IsProgram(u2 \o <<c3, a3>>)
  BY <1>1, <1>2, <1>9, ThenTwo
<1>11. IsProgram(u3)
  BY <1>4, <1>10, ProgramsConcatenate
<1> HIDE DEF u3
<1>12. IsProgram(u3 \o <<c4, last>>)
  BY <1>1, <1>3, <1>11, ThenTwo
<1> QED
  BY <1>5, <1>12

LEMMA ImplicitEulerIsProgram ==
    ASSUME run.iterations \in Nat
    PROVE  IsProgram(IntegrateImplicitEuler)
<1> DEFINE first == Kernel("copy", <<"beta">>, "stage")
           k == Kernel("add", <<"beta", "derivative">>, "betaNext")
           l == Kernel("copy", <<"betaNext">>, "stage")
           s == EvaluateStage("stage", TRUE)
           iterations == IF run.iterations = 0 THEN 1 ELSE run.iterations
           iteration == s \o <<k, l>>
<1>1. /\ k \in Instructions /\ IsInstruction(k) /\ k.op # "ase"
      /\ l \in Instructions /\ IsInstruction(l) /\ l.op # "ase"
      /\ first \in Instructions /\ IsInstruction(first) /\ first.op # "ase"
  BY KernelInstructions, RoleNames, UpdateInstructions
<1>2. IsProgram(s) /\ Len(s) \in 1 .. 5
  BY StageIsProgram
<1>3. IntegrateImplicitEuler = <<first>> \o Repeated(iteration, iterations)
  BY DEF IntegrateImplicitEuler
<1>4. iterations \in Nat
  OBVIOUS
<1> HIDE DEF k, l, first, s, iterations
<1>5. IsProgram(iteration) /\ Len(iteration) = Len(s) + 2
  BY <1>1, <1>2, ThenTwo
<1>6. Len(iteration) \in 1 .. 7
  <2>1. \A x \in 1 .. 5 : x + 2 \in 1 .. 7
    OBVIOUS
  <2> QED
    BY <1>2, <1>5, <2>1
<1> HIDE DEF iteration
<1>7. IsProgram(Repeated(iteration, iterations))
  BY <1>4, <1>5, <1>6, RepeatedIsProgram
<1>8. IsProgram(<<first>>)
  BY <1>1, OneInstruction
<1> QED
  BY <1>3, <1>7, <1>8, ProgramsConcatenate

LEMMA ExponentialEulerIsProgram == IsProgram(ExponentialEuler)
<1> DEFINE k == Kernel("exponential", <<"beta", "dndtPump", "dndtAse">>, "betaNext")
<1>1. k \in Instructions /\ IsInstruction(k) /\ k.op # "ase"
  BY KernelInstructions, RoleNames DEF Kernel
<1> HIDE DEF k
<1>2. IsProgram(EvaluateStage("beta", TRUE))
  BY StageIsProgram
<1>3. ExponentialEuler = EvaluateStage("beta", TRUE) \o <<k>>
  BY DEF ExponentialEuler, k
<1> QED
  BY <1>1, <1>2, <1>3, ThenOne

\* A step is a program.
LEMMA StepIsProgram ==
    ASSUME run \in Runs, Runnable
    PROVE  IsProgram(AdvanceTimeStep)
<1> DEFINE clip == Kernel("clip", <<"betaNext">>, "betaNext")
           method ==
               CASE run.method = "explicit-euler" -> ExplicitEuler
                 [] run.method = "heun" -> Heun
                 [] run.method = "midpoint" -> Midpoint
                 [] run.method = "runge-kutta-4" -> IntegrateRungeKutta4(TRUE)
                 [] run.method = "frozen-phi-ase-runge-kutta-4" -> IntegrateRungeKutta4(FALSE)
                 [] run.method = "implicit-euler" -> IntegrateImplicitEuler
                 [] run.method = "exponential-euler" -> ExponentialEuler
<1>1. run.iterations \in Nat /\ run.method \in Methods \ {"unsupported"}
  BY RunsAssumption DEF ValidRun, Runnable
<1>2. method \in {ExplicitEuler, Heun, Midpoint, IntegrateRungeKutta4(TRUE),
                  IntegrateRungeKutta4(FALSE), IntegrateImplicitEuler, ExponentialEuler}
  BY <1>1 DEF Methods
<1>3. IsProgram(method)
  <2> HIDE DEF method
  <2> QED
    BY <1>1, <1>2, ExplicitEulerIsProgram, HeunIsProgram, MidpointIsProgram,
       RungeKuttaIsProgram, ImplicitEulerIsProgram, ExponentialEulerIsProgram
<1>4. clip \in Instructions /\ IsInstruction(clip) /\ clip.op # "ase"
  BY KernelInstructions, RoleNames DEF Kernel
<1>5. AdvanceTimeStep = method \o <<clip>>
  BY DEF AdvanceTimeStep
<1> HIDE DEF clip, method
<1> QED
  BY <1>3, <1>4, <1>5, ThenOne

-----------------------------------------------------------------------------
(* Kernels compute fields.                                                 *)

LEMMA Residue == ASSUME NEW x \in Int PROVE x % P \in Numbers
<1>1. P \in Nat \ {0}
  BY NumbersAssumption
<1> QED
  BY <1>1 DEF Numbers

LEMMA NumbersAreIntegers ==
    /\ Numbers \subseteq Int
    /\ {DT, Half, Sixth, Tau, InvTau, Decay, SigmaA, SigmaE, One} \subseteq Int
    /\ 0 \in Numbers
    /\ One \in Numbers
  BY NumbersAssumption, FractionsAssumption DEF Numbers

LEMMA FieldOf ==
    ASSUME NEW f \in Field
    PROVE  f.gain \in Numbers /\ f.cladding \in Numbers /\ f.gain \in Int /\ f.cladding \in Int
  BY NumbersAreIntegers DEF Field

LEMMA ZeroIsField == Zero \in Field
  BY NumbersAreIntegers DEF Zero, Field

LEMMA AddScaledIsField ==
    ASSUME NEW a \in Field, NEW b \in Field, NEW scale \in Int
    PROVE  AddScaled(a, b, scale) \in Field
<1>1. /\ a.gain + scale * b.gain \in Int
      /\ a.cladding + scale * b.cladding \in Int
  BY FieldOf
<1> QED
  BY <1>1, Residue DEF AddScaled, Each, Field

LEMMA CombineHeunIsField ==
    ASSUME NEW a \in Field, NEW b \in Field, NEW c \in Field
    PROVE  CombineHeun(a, b, c) \in Field
<1>1. \A x, y, z \in Int : x + Half * DT * (y + z) \in Int
  BY NumbersAreIntegers
<1>2. /\ a.gain + Half * DT * (b.gain + c.gain) \in Int
      /\ a.cladding + Half * DT * (b.cladding + c.cladding) \in Int
  BY <1>1, FieldOf
<1> QED
  BY <1>2, Residue DEF CombineHeun, Each, Field

LEMMA CombineRungeKutta4IsField ==
    ASSUME NEW a \in Field, NEW b \in Field, NEW c \in Field, NEW d \in Field, NEW e \in Field
    PROVE  CombineRungeKutta4(a, b, c, d, e) \in Field
<1>1. \A v, w, x, y, z \in Int : v + Sixth * DT * (w + 2 * x + 2 * y + z) \in Int
  BY NumbersAreIntegers
<1>2. /\ a.gain + Sixth * DT * (b.gain + 2 * c.gain + 2 * d.gain + e.gain) \in Int
      /\ a.cladding + Sixth * DT * (b.cladding + 2 * c.cladding + 2 * d.cladding + e.cladding) \in Int
  BY <1>1, FieldOf
<1> QED
  BY <1>2, Residue DEF CombineRungeKutta4, Each, Field

LEMMA ExponentialEulerUpdateIsField ==
    ASSUME NEW a \in Field, NEW b \in Field, NEW c \in Field
    PROVE  ExponentialEulerUpdate(a, b, c) \in Field
<1>1. \A x, y, z \in Int : Tau * (y - z) * (1 - Decay) + x * Decay \in Int
  BY NumbersAreIntegers
<1>2. /\ Tau * (b.gain - c.gain) * (1 - Decay) + a.gain * Decay \in Int
      /\ Tau * (b.cladding - c.cladding) * (1 - Decay) + a.cladding * Decay \in Int
  BY <1>1, FieldOf
<1> QED
  BY <1>2, Residue DEF ExponentialEulerUpdate, Each, Field

LEMMA ClipBetaIsField == ASSUME NEW a \in Field PROVE ClipBeta(a) \in Field
  BY FieldOf, NumbersAreIntegers DEF ClipBeta, Each, Field

LEMMA ComposedAreFields ==
    ASSUME NEW a \in Field, NEW b \in Field, NEW c \in Field, NEW on \in BOOLEAN
    PROVE  /\ PumpTerm(c, on) \in Field
           /\ AseTerm(a, b) \in Field
           /\ Derivative(a, PumpTerm(c, on), AseTerm(a, b)) \in Field
<1>1. PumpTerm(c, on) \in Field
  BY FieldOf, NumbersAreIntegers DEF PumpTerm, Field
<1>2. AseTerm(a, b) \in Field
  <2>1. \A x, y \in Int : (x * (SigmaE + SigmaA) - SigmaA) * y \in Int
    BY NumbersAreIntegers
  <2>2. (a.gain * (SigmaE + SigmaA) - SigmaA) * b.gain \in Int
    BY <2>1, FieldOf
  <2> QED
    BY <2>2, Residue, NumbersAreIntegers DEF AseTerm, Field
<1>3. ASSUME NEW p \in Field, NEW t \in Field
      PROVE  Derivative(a, p, t) \in Field
  <2>1. \A x, y, z \in Int : x - y - z * InvTau \in Int
    BY NumbersAreIntegers
  <2>2. p.gain - t.gain - a.gain * InvTau \in Int
    BY <2>1, FieldOf
  <2> QED
    BY <2>2, Residue, NumbersAreIntegers DEF Derivative, Field
<1> QED
  BY <1>1, <1>2, <1>3

LEMMA KernelWritesField ==
    ASSUME NEW k, k.op \in Ops \ {"compose", "composePumped"},
           NEW x \in [1 .. Arity(k.op) -> Field]
    PROVE  Written(k, x) \in Field
<1>1. \A i \in 1 .. Arity(k.op) : x[i] \in Field
  OBVIOUS
<1>2. DT \in Int /\ Half * DT \in Int
  BY NumbersAreIntegers
<1>3. CASE k.op = "fill"
  BY <1>3, ZeroIsField DEF Written
<1>4. CASE k.op = "copy"
  BY <1>1, <1>4 DEF Written, Arity
<1>5. CASE k.op = "pump"
  BY <1>1, <1>5, RatesAssumption DEF Written, Arity
<1>6. CASE k.op = "clip"
  BY <1>1, <1>6, ClipBetaIsField DEF Written, Arity
<1>7. CASE k.op = "add"
  BY <1>1, <1>2, <1>7, AddScaledIsField DEF Written, Arity
<1>8. CASE k.op = "addHalf"
  BY <1>1, <1>2, <1>8, AddScaledIsField DEF Written, Arity
<1>9. CASE k.op = "heun"
  BY <1>1, <1>9, CombineHeunIsField DEF Written, Arity
<1>10. CASE k.op = "exponential"
  BY <1>1, <1>10, ExponentialEulerUpdateIsField DEF Written, Arity
<1>11. CASE k.op = "rk4"
  BY <1>1, <1>11, CombineRungeKutta4IsField DEF Written, Arity
<1> QED
  BY <1>3, <1>4, <1>5, <1>6, <1>7, <1>8, <1>9, <1>10, <1>11 DEF Ops

LEMMA QueuedOut ==
    ASSUME NEW k, IsQueued(k)
    PROVE  k.out \in Buffers /\ (k.out # "volumePhi")
  BY DEF IsQueued, IsKernel, Buffers

\* What is queued turns buffers of fields into buffers of fields.
LEMMA ExecuteTyped ==
    ASSUME NEW b \in [Buffers -> Field], NEW k, IsQueued(k), vector \in Field
    PROVE  Execute(b, k) \in [Buffers -> Field]
<1> DEFINE x == [i \in DOMAIN k.in |-> b[k.in[i]]]
<1>1. CASE IsKernel(k, Buffers)
  <2>1. x \in [1 .. Arity(k.op) -> Field] /\ k.out \in Buffers /\ k.op \in Ops
    BY <1>1 DEF IsKernel
  <2>2. CASE k.op \in {"compose", "composePumped"}
    <3>1. x[1] \in Field /\ x[2] \in Field /\ x[3] \in Field
      BY <2>1, <2>2 DEF Arity
    <3>2. Execute(b, k) = Compose(b, x, k.op = "composePumped")
      BY <2>2 DEF Execute
    <3> HIDE DEF x
    <3> DEFINE on == k.op = "composePumped"
               pump == PumpTerm(x[3], on)
               term == AseTerm(x[1], x[2])
               slope == Derivative(x[1], pump, term)
    <3>3. pump \in Field /\ term \in Field /\ slope \in Field
      BY <3>1, ComposedAreFields
    <3>4. Execute(b, k) = [b EXCEPT !.dndtPump = pump, !.dndtAse = term, !.derivative = slope]
      BY <3>2 DEF Compose
    <3> HIDE DEF pump, term, slope
    <3> QED
      BY <3>3, <3>4
  <2>3. CASE k.op \notin {"compose", "composePumped"}
    <3>1. Execute(b, k) = [b EXCEPT ![k.out] = Written(k, x)]
      BY <2>3 DEF Execute
    <3> HIDE DEF x
    <3>2. Written(k, x) \in Field
      BY <2>1, <2>3, KernelWritesField
    <3> QED
      BY <2>1, <3>1, <3>2
  <2> QED
    BY <2>2, <2>3
<1>2. CASE k.op = "load" /\ k.out \in Buffers /\ k.value \in Field
  BY <1>2 DEF Execute, Written
<1>3. CASE k.op = "read" /\ k.out \in Buffers
  BY <1>3 DEF Execute, Written
<1> QED
  BY <1>1, <1>2, <1>3, QueuedOut DEF IsQueued

-----------------------------------------------------------------------------
(* The instruction the host is at.                                         *)

LEMMA StagesStay ==
    ASSUME run' = run, step' = step, NEW b, NEW refresh
    PROVE  EvaluateStage(b, refresh)' = EvaluateStage(b, refresh)
  BY DEF EvaluateStage, BeforeAse, When, PumpEnabled, AseEnabled, Kernel

LEMMA StepStays ==
    ASSUME run' = run, step' = step
    PROVE  AdvanceTimeStep' = AdvanceTimeStep /\ Runnable' = Runnable
<1>1. /\ EvaluateStage("beta", TRUE)' = EvaluateStage("beta", TRUE)
      /\ EvaluateStage("stage", TRUE)' = EvaluateStage("stage", TRUE)
      /\ EvaluateStage("stage", FALSE)' = EvaluateStage("stage", FALSE)
  BY StagesStay
<1>2. ExplicitEuler' = ExplicitEuler
  BY <1>1 DEF ExplicitEuler, Kernel
<1>3. Heun' = Heun
  BY <1>1 DEF Heun, Kernel
<1>4. Midpoint' = Midpoint
  BY <1>1 DEF Midpoint, Kernel
<1>5. IntegrateRungeKutta4(TRUE)' = IntegrateRungeKutta4(TRUE)
  BY <1>1 DEF IntegrateRungeKutta4, Kernel
<1>6. IntegrateRungeKutta4(FALSE)' = IntegrateRungeKutta4(FALSE)
  BY <1>1 DEF IntegrateRungeKutta4, Kernel
<1>7. IntegrateImplicitEuler' = IntegrateImplicitEuler
  BY <1>1 DEF IntegrateImplicitEuler, Repeated, Kernel
<1>8. ExponentialEuler' = ExponentialEuler
  BY <1>1 DEF ExponentialEuler, Kernel
<1>9. AdvanceTimeStep' = AdvanceTimeStep
  BY <1>2, <1>3, <1>4, <1>5, <1>6, <1>7, <1>8 DEF AdvanceTimeStep, Kernel
<1> QED
  BY <1>9 DEF Runnable

LEMMA InstructionStays ==
    ASSUME run' = run, step' = step, at' = at, pc' = pc
    PROVE  /\ AtInstruction("ase")' = AtInstruction("ase")
           /\ Instruction' = Instruction
           /\ Devices' = Devices /\ RequireHostValues' = RequireHostValues
  BY StepStays DEF AtInstruction, Instruction, Devices, RequireHostValues

\* The instruction the host is at, if there is one.
LEMMA InstructionIs ==
    ASSUME run \in Runs, Runnable, at \in Nat \ {0}, at <= Len(AdvanceTimeStep)
    PROVE  /\ Instruction \in Instructions /\ IsInstruction(Instruction)
           /\ Instruction.op = "ase" =>
                  Waited(AdvanceTimeStep, at - 1) \/ Pumped(AdvanceTimeStep, at - 1)
<1>1. IsProgram(AdvanceTimeStep)
  BY StepIsProgram
<1> QED
  BY <1>1 DEF IsProgram, Instruction

LEMMA LengthOfStep ==
    ASSUME run \in Runs, Runnable
    PROVE  Len(AdvanceTimeStep) \in Nat
  BY StepIsProgram DEF IsProgram

-----------------------------------------------------------------------------
(* Roles and buffers.                                                      *)

LEMMA BufferOfRole ==
    ASSUME front \in {"betaA", "betaB"}, NEW name \in Roles
    PROVE  BufferOf(name) \in Buffers
  BY DEF BufferOf, Other, Roles, Buffers

LEMMA StageBuffer ==
    ASSUME front \in {"betaA", "betaB"}, NEW name \in {"beta", "stage"}
    PROVE  BufferOf(name) \in {"betaA", "betaB", "stage"}
  BY DEF BufferOf

LEMMA InOrderQueued ==
    ASSUME front \in {"betaA", "betaB"}, NEW k \in Instructions, IsInstruction(k),
           k.op \notin {"wait", "ase"}
    PROVE  /\ InOrder(k) \in Entries /\ IsQueued(InOrder(k))
           /\ IsKernel(InOrder(k), Buffers) /\ InOrder(k).op = k.op
<1>1. k.op \in Ops /\ k.in \in [1 .. Arity(k.op) -> Roles] /\ k.out \in Roles
  BY DEF IsInstruction, IsKernel
<1>2. Arity(k.op) \in 0 .. 5
  BY <1>1 DEF Arity, Ops
<1>3. [i \in DOMAIN k.in |-> BufferOf(k.in[i])] \in [1 .. Arity(k.op) -> Buffers]
  BY <1>1, BufferOfRole
<1>4. BufferOf(k.out) \in Buffers
  BY <1>1, BufferOfRole
<1> DEFINE in == [i \in DOMAIN k.in |-> BufferOf(k.in[i])]
<1>5. InOrder(k) = [op |-> k.op, in |-> in, out |-> BufferOf(k.out)]
  BY DEF InOrder, Kernel
<1>6. in \in UNION {[1 .. n -> Buffers] : n \in 0 .. 5}
  BY <1>2, <1>3
<1> HIDE DEF in
<1>7. InOrder(k) \in Entries
  BY <1>1, <1>4, <1>5, <1>6 DEF Entries
<1>8. InOrder(k).op = k.op /\ InOrder(k).in = in /\ InOrder(k).out = BufferOf(k.out)
  BY <1>5
<1>9. IsKernel(InOrder(k), Buffers)
  BY <1>1, <1>3, <1>4, <1>8 DEF IsKernel, in
<1>10. BufferOf(k.out) # "volumePhi"
  <2>1. k.out \in Targets
    BY DEF IsInstruction
  <2> QED
    BY <2>1 DEF BufferOf, Other, Targets
<1> QED
  BY <1>7, <1>8, <1>9, <1>10 DEF IsQueued

LEMMA PumpInOrder ==
    ASSUME front \in {"betaA", "betaB"}, NEW k \in Instructions, IsInstruction(k), k.op = "pump"
    PROVE  /\ InOrder(k).op = "pump" /\ InOrder(k).out = "dndtPump"
           /\ InOrder(k).in = <<BufferOf(k.in[1])>>
           /\ BufferOf(k.in[1]) \in {"betaA", "betaB", "stage"}
<1>1. k.in \in [1 .. 1 -> Roles] /\ k.in[1] \in {"beta", "stage"} /\ k.out = "dndtPump"
  BY DEF IsInstruction, IsKernel, Arity
<1>2. [i \in DOMAIN k.in |-> BufferOf(k.in[i])] = <<BufferOf(k.in[1])>>
  BY <1>1
<1>3. BufferOf(k.out) = "dndtPump"
  BY <1>1 DEF BufferOf
<1> QED
  BY <1>1, <1>2, <1>3, StageBuffer DEF InOrder, Kernel

-----------------------------------------------------------------------------
(* The devices of a run.                                                   *)

LEMMA LeastAndGreatest ==
    ASSUME NEW m \in Nat, NEW n \in Nat, m <= n
    PROVE  Min(m .. n) = m /\ Max(m .. n) = n
<1>1. \A x \in m .. n : (\A y \in m .. n : x <= y) <=> x = m
  OBVIOUS
<1>2. \A x \in m .. n : (\A y \in m .. n : x >= y) <=> x = n
  OBVIOUS
<1>3. m \in m .. n /\ n \in m .. n
  OBVIOUS
<1>4. Min(m .. n) = m
  BY <1>1, <1>3 DEF Min
<1>5. Max(m .. n) = n
  BY <1>2, <1>3 DEF Max
<1> QED
  BY <1>4, <1>5

LEMMA DeviceRange ==
    ASSUME run \in Runs
    PROVE  /\ \E n \in Nat : /\ Devices = 1 .. n /\ Cardinality(Devices) = n
                             /\ run.deviceCount > 0 => n > 0
<1>1. run.numDevices \in Nat /\ run.deviceCount \in Nat
  BY RunsAssumption DEF ValidRun
<1> DEFINE a == run.numDevices
           b == run.deviceCount
           n == IF a = 0 THEN b ELSE Min({a, b})
<1>2. Min({a, b}) = IF a <= b THEN a ELSE b
  <2>1. \A x \in {a, b} : (\A y \in {a, b} : x <= y) <=> x = IF a <= b THEN a ELSE b
    BY <1>1
  <2>2. (IF a <= b THEN a ELSE b) \in {a, b}
    OBVIOUS
  <2> QED
    BY <2>1, <2>2 DEF Min
<1>3. n \in Nat /\ (b > 0 => n > 0)
  BY <1>1, <1>2
<1>4. Devices = 1 .. n
  BY DEF Devices
<1> HIDE DEF n
<1>5. Cardinality(1 .. n) = n
  BY <1>3, FS_Interval
<1> QED
  BY <1>3, <1>4, <1>5

LEMMA WorkersOfDevices ==
    ASSUME run \in Runs, run.deviceCount > 0
    PROVE  /\ Primary \in Devices /\ Workers \subseteq Devices
           /\ Min(Workers) \in Workers /\ Max(Workers) \in Workers
<1>1. PICK n \in Nat : Devices = 1 .. n /\ Cardinality(Devices) = n /\ n > 0
  BY DeviceRange
<1>2. run.localRank \in Nat
  BY RunsAssumption DEF ValidRun
<1>3. 1 + (run.localRank % n) \in 1 .. n
  BY <1>1, <1>2
<1>4. CASE run.mpi
  <2> DEFINE d == 1 + (run.localRank % Cardinality(Devices))
  <2>1. Workers = {d} /\ d \in Devices
    BY <1>1, <1>3, <1>4 DEF Workers
  <2> HIDE DEF d
  <2>2. Workers = {d} /\ d <= d
    BY <1>1, <2>1
  <2> QED
    BY <1>1, <2>1, <2>2 DEF Min, Max, Primary
<1>5. CASE ~run.mpi
  <2>1. Workers = 1 .. n /\ 1 <= n
    BY <1>1, <1>5 DEF Workers
  <2> QED
    BY <1>1, <2>1, LeastAndGreatest DEF Primary
<1> QED
  BY <1>4, <1>5

\* Unless the host values are asked for, there is one device and it is primary.
LEMMA OneWorker ==
    ASSUME run \in Runs, run.deviceCount > 0, ~RequireHostValues
    PROVE  Workers = {Primary}
<1>1. PICK n \in Nat : Devices = 1 .. n /\ Cardinality(Devices) = n /\ n > 0
  BY DeviceRange
<1> QED
  BY <1>1 DEF RequireHostValues, Workers, Primary

-----------------------------------------------------------------------------
(* The mean of a field with itself is that field.                          *)

LEMMA RemainderOfSum ==
    ASSUME NEW a \in Numbers, NEW k \in Int
    PROVE  (a + k * P) % P = a
<1>1. P \in Nat /\ P > 0 /\ a \in Int /\ 0 <= a /\ a < P
  BY NumbersAssumption DEF Numbers
<1> DEFINE x == a + k * P
           d == x \div P
           m == x % P
<1>2. x \in Int
  BY <1>1
<1>3. d \in Int /\ m \in 0 .. P - 1 /\ x = P * d + m
  <2> HIDE DEF x
  <2> QED
    BY <1>1, <1>2
<1>4. a - m = P * (d - k)
  <2> HIDE DEF d, m
  <2> QED
    BY <1>1, <1>3
<1> HIDE DEF x, d, m
<1>5. d = k
  <2>1. CASE d - k >= 1
    <3>1. P * (d - k) >= P
      BY <1>1, <1>3, <2>1
    <3> QED
      BY <1>1, <1>3, <1>4, <3>1
  <2>2. CASE d - k <= -1
    <3>1. P * (d - k) <= -P
      BY <1>1, <1>3, <2>2
    <3> QED
      BY <1>1, <1>3, <1>4, <3>1
  <2> QED
    BY <1>3, <2>1, <2>2
<1>6. m = a
  BY <1>1, <1>3, <1>4, <1>5
<1> QED
  BY <1>6 DEF m, x

LEMMA HalfOfDouble ==
    ASSUME NEW a \in Numbers
    PROVE  (Half * (a + a)) % P = a
<1>1. P \in Nat /\ P > 0 /\ a \in Int /\ Half \in Int
  BY NumbersAssumption, NumbersAreIntegers DEF Numbers
<1>2. (2 * Half) % P = 1 % P
  BY FractionsAssumption
<1>3. CASE P = 1
  <2>1. a = 0
    BY <1>3 DEF Numbers
  <2> QED
    BY <1>1, <1>3, <2>1
<1>4. CASE P > 1
  <2> DEFINE q == (2 * Half) \div P
  <2>1. 1 % P = 1
    BY <1>1, <1>4
  <2>2. q \in Int /\ 2 * Half = P * q + 1
    BY <1>1, <1>2, <2>1
  <2> HIDE DEF q
  <2>3. Half * (a + a) = (2 * Half) * a
    BY <1>1
  <2>4. (P * q + 1) * a = a + (q * a) * P
    BY <1>1, <2>2
  <2>5. q * a \in Int
    BY <1>1, <2>2
  <2> QED
    BY <2>2, <2>3, <2>4, <2>5, RemainderOfSum
<1> QED
  BY <1>1, <1>3, <1>4

LEMMA MergedWithItself == ASSUME NEW a \in Field PROVE Merged(a, a) = a
<1>1. Merged(a, a) = [gain |-> a.gain, cladding |-> a.cladding]
  BY FieldOf, HalfOfDouble DEF Merged, Each
<1> QED
  BY <1>1 DEF Field

LEMMA MergedIsField ==
    ASSUME NEW a \in Field, NEW b \in Field
    PROVE  Merged(a, b) \in Field
<1>1. Half * (a.gain + b.gain) \in Int /\ Half * (a.cladding + b.cladding) \in Int
  BY FieldOf, NumbersAreIntegers
<1> QED
  BY <1>1, Residue DEF Merged, Each, Field

LEMMA FluxIsField ==
    ASSUME TypeOK, run.deviceCount > 0, ase \in [from : Buffers, next : {"download", "refresh", "trace"}]
    PROVE  Flux \in Field
<1> DEFINE Of(d) == AseFlux(meshes[d].prefix, TracedThrough(d))
<1>1. Min(Workers) \in Devices /\ Max(Workers) \in Devices
  BY WorkersOfDevices DEF TypeOK
<1>2. \A d \in Devices : meshes[d].prefix \in Field /\ TracedThrough(d) \in Field
  BY DEF TypeOK, TracedThrough
<1>3. \A d \in Devices : Of(d) \in Field
  BY <1>2, RatesAssumption
<1>4. Flux = Merged(Of(Min(Workers)), Of(Max(Workers)))
  BY DEF Flux
<1> HIDE DEF Of
<1> QED
  BY <1>1, <1>3, <1>4, MergedIsField

-----------------------------------------------------------------------------
(* The queue.                                                              *)

LEMMA AppendQueued ==
    ASSUME queue \in Seq(Entries), \A i \in DOMAIN queue : IsQueued(queue[i]),
           NEW k \in Entries, IsQueued(k)
    PROVE  /\ Append(queue, k) \in Seq(Entries)
           /\ \A i \in DOMAIN Append(queue, k) : IsQueued(Append(queue, k)[i])
  OBVIOUS

LEMMA HeadAndTail ==
    ASSUME NEW S, NEW s \in Seq(S), s # <<>>
    PROVE  /\ Head(s) = s[1] /\ 1 \in DOMAIN s /\ Tail(s) \in Seq(S)
           /\ Len(Tail(s)) = Len(s) - 1
           /\ \A i \in DOMAIN Tail(s) : i + 1 \in DOMAIN s /\ Tail(s)[i] = s[i + 1]
  OBVIOUS

LEMMA LoadQueued ==
    ASSUME front \in {"betaA", "betaB"}, run \in Runs, run.control, NEW v \in Field
    PROVE  LoadControl(v) \in Entries /\ IsQueued(LoadControl(v))
<1>1. front \in Buffers
  BY DEF Buffers
<1>2. CASE StagedCopies
  <2>1. LoadControl(v) = [op |-> "load", in |-> <<>>, out |-> front, value |-> v]
    BY <1>2 DEF LoadControl
  <2> QED
    BY <1>1, <2>1 DEF Entries, IsQueued
<1>3. CASE ~StagedCopies
  <2>1. LoadControl(v) = [op |-> "read", in |-> <<>>, out |-> front]
    BY <1>3 DEF LoadControl, Kernel
  <2>2. <<>> \in [1 .. 0 -> Buffers]
    OBVIOUS
  <2>3. <<>> \in UNION {[1 .. n -> Buffers] : n \in 0 .. 5}
    <3>1. 0 \in 0 .. 5
      OBVIOUS
    <3> QED
      BY <2>2, <3>1
  <2>4. LoadControl(v) \in Entries
    BY <1>1, <2>1, <2>3 DEF Entries
  <2> QED
    BY <1>1, <1>3, <2>1, <2>4 DEF IsQueued, Unstaged
<1> QED
  BY <1>2, <1>3

\* What is at the head of the queue is executed.
LEMMA ExecuteHead ==
    ASSUME Types, queue # <<>>
    PROVE  Execute(buf, Head(queue)) \in [Buffers -> Field]
<1>1. Head(queue) = queue[1] /\ 1 \in DOMAIN queue
  BY HeadAndTail DEF Types
<1>2. IsQueued(Head(queue))
  BY <1>1 DEF Types
<1> QED
  BY <1>2, ExecuteTyped DEF Types, TypeOK

-----------------------------------------------------------------------------
(* Types.                                                                  *)

LEMMA TypesInit == Init => Types
<1> SUFFICES ASSUME Init
             PROVE  Types
  OBVIOUS
<1>1. run.numberOfSteps \in Nat \ {0} /\ run.outputSteps \in Seq(1 .. run.numberOfSteps)
  BY RunsAssumption DEF Init, ValidRun
<1>2. PICK beta \in StartFields : buf = [b \in Buffers |-> IF b = "betaA" THEN beta ELSE Freed]
  BY DEF Init
<1>3. beta \in Field /\ Freed \in Field
  BY FieldsAssumption
<1>4. buf \in [Buffers -> Field]
  BY <1>2, <1>3
<1>5. buf.betaA \in Field
  BY <1>4 DEF Buffers
<1>6. Len(run.outputSteps) \in Nat
  BY <1>1
<1>7. queue = <<>> /\ queue \in Seq(Entries)
  BY DEF Init
<1>8. cursor \in 1 .. Len(run.outputSteps) + 1 /\ step \in 0 .. run.numberOfSteps
  BY <1>1, <1>6 DEF Init
<1>9. meshes \in [Devices -> [beta : Field, prefix : Field]]
  BY <1>5 DEF Init
<1>10. \A i \in DOMAIN queue : IsQueued(queue[i]) /\ queue[i].out \in Buffers
  BY <1>7
<1>11. TypeOK
  <2>1. run \in Runs /\ pc \in Pcs /\ at \in Nat \ {0}
    BY DEF Init, Pcs
  <2>2. resident \in BOOLEAN
    BY DEF Init
  <2>3. ase = None
    BY DEF Init
  <2>4. front \in {"betaA", "betaB"} /\ hostBeta \in Field /\ vector \in Field
    BY <1>3, <1>5 DEF Init
  <2>5. blocking \in [Buffers -> Field]
    BY <1>4 DEF Init
  <2> QED
    BY <1>4, <1>8, <1>9, <1>10, <2>1, <2>4, <2>5, <2>2, <2>3 DEF TypeOK
<1> QED
  BY <1>7, <1>10, <1>11 DEF Types

LEMMA TypesStep ==
    ASSUME Types, HostAt, Next
    PROVE  Types'
<1> USE DEF Types
<1>1. /\ run.numberOfSteps \in Nat \ {0} /\ run.outputSteps \in Seq(1 .. run.numberOfSteps)
      /\ run \in Runs
  BY RunsAssumption DEF TypeOK, ValidRun
<1>2. CASE Enqueue
  <2> DEFINE k == InOrder(Instruction)
  <2>1. Instruction \in Instructions /\ IsInstruction(Instruction)
    BY <1>1, <1>2, InstructionIs DEF Enqueue, TypeOK
  <2>2. k \in Entries /\ IsQueued(k)
    BY <1>2, <2>1, InOrderQueued DEF Enqueue, TypeOK
  <2>3. Execute(blocking, k) \in [Buffers -> Field]
    BY <2>2, ExecuteTyped DEF TypeOK
  <2>4. queue' = Append(queue, k) /\ blocking' = Execute(blocking, k)
    BY <1>2 DEF Enqueue
  <2> HIDE DEF k
  <2>5. queue' \in Seq(Entries) /\ \A i \in DOMAIN queue' : IsQueued(queue'[i])
    BY <2>2, <2>4, AppendQueued
  <2>6. \A i \in DOMAIN queue' : queue'[i].out \in Buffers
    BY <2>5, QueuedOut
  <2>7. Devices' = Devices
    BY <1>2 DEF Enqueue, Devices
  <2> QED
    BY <1>1, <1>2, <2>3, <2>4, <2>5, <2>6, <2>7 DEF Enqueue, aseVars, TypeOK
<1>3. CASE Wait
  <2>1. Devices' = Devices
    BY <1>3 DEF Wait, Devices
  <2> QED
    BY <1>1, <1>3, <2>1 DEF Wait, aseVars, TypeOK
<1>4. CASE AseBegin
  <2>1. Devices' = Devices
    BY <1>4 DEF AseBegin, Devices
  <2>2. Instruction.in[1] \in {"beta", "stage"}
    BY <1>1, <1>4, InstructionIs DEF AseBegin, AtInstruction, IsInstruction, IsKernel, Ops, TypeOK
  <2> DEFINE from == BufferOf(Instruction.in[1])
  <2>3. from \in Buffers
    BY <2>2, StageBuffer DEF TypeOK, Buffers
  <2>4. /\ ase' = [from |-> from, next |-> IF RequireHostValues THEN "download" ELSE "trace"]
        /\ meshes' = [meshes EXCEPT ![Primary].prefix = buf[from]]
    BY <1>4 DEF AseBegin
  <2> HIDE DEF from
  <2>5. buf[from] \in Field
    BY <2>3 DEF TypeOK
  <2>6. meshes' \in [Devices -> [beta : Field, prefix : Field]]
    BY <2>4, <2>5 DEF TypeOK
  <2>7. ase' \in [from : Buffers, next : {"download", "refresh", "trace"}]
    BY <2>3, <2>4
  <2> QED
    BY <1>1, <1>4, <2>1, <2>6, <2>7 DEF AseBegin, host, TypeOK
<1>5. CASE DownloadBeta
  <2>1. Devices' = Devices
    BY <1>5 DEF DownloadBeta, Devices
  <2>2. ase \in [from : Buffers, next : {"download", "refresh", "trace"}]
    BY <1>5 DEF DownloadBeta, TypeOK
  <2>3. ase' \in [from : Buffers, next : {"download", "refresh", "trace"}]
    BY <1>5, <2>2 DEF DownloadBeta
  <2>4. hostBeta' \in Field
    BY <1>5, <2>2 DEF DownloadBeta, TypeOK
  <2> QED
    BY <1>1, <1>5, <2>1, <2>3, <2>4 DEF DownloadBeta, host, TypeOK
<1>6. CASE RefreshMeshes
  <2>1. Devices' = Devices
    BY <1>6 DEF RefreshMeshes, Devices
  <2>2. ase' \in [from : Buffers, next : {"download", "refresh", "trace"}]
    BY <1>6 DEF RefreshMeshes, TypeOK
  <2>3. meshes' \in [Devices -> [beta : Field, prefix : Field]]
    BY <1>6 DEF RefreshMeshes, TypeOK
  <2> QED
    BY <1>1, <1>6, <2>1, <2>2, <2>3 DEF RefreshMeshes, host, TypeOK
<1>7. CASE AseEnd
  <2>1. Devices' = Devices
    BY <1>7 DEF AseEnd, Devices
  <2>2. ase \in [from : Buffers, next : {"download", "refresh", "trace"}]
    BY <1>7 DEF AseEnd, TypeOK
  <2>3. run.deviceCount > 0
    BY <1>7 DEF AseEnd, HostAt, AtInstruction, Runnable
  <2>4. Flux \in Field
    BY <2>2, <2>3, FluxIsField
  <2>5. AseFlux(blocking[ase.from], blocking[ase.from]) \in Field
    <3>1. blocking[ase.from] \in Field
      BY <2>2 DEF TypeOK
    <3> QED
      BY <3>1, RatesAssumption
  <2>6. buf' \in [Buffers -> Field] /\ blocking' \in [Buffers -> Field]
    BY <1>7, <2>4, <2>5 DEF AseEnd, TypeOK
  <2> QED
    BY <1>1, <1>7, <2>1, <2>6 DEF AseEnd, TypeOK
<1>8. CASE AseFails
  <2>1. Devices' = Devices
    BY <1>8 DEF AseFails, Devices
  <2> QED
    BY <1>1, <1>8, <2>1 DEF AseFails, TypeOK, Pcs
<1>9. CASE NotRunnable \/ ControlFails
  <2>1. Devices' = Devices
    BY <1>9 DEF NotRunnable, ControlFails, Devices
  <2> QED
    BY <1>1, <1>9, <2>1 DEF NotRunnable, ControlFails, aseVars, TypeOK, Pcs
<1>10. CASE CompleteStep
  <2>1. Devices' = Devices
    BY <1>10 DEF CompleteStep, Devices
  <2>2. step' \in 0 .. run.numberOfSteps /\ run' = run
    BY <1>1, <1>10 DEF CompleteStep, HostAt, TypeOK
  <2>3. front' \in {"betaA", "betaB"}
    BY <1>10 DEF CompleteStep, Other
  <2> QED
    BY <1>1, <1>10, <2>1, <2>2, <2>3 DEF CompleteStep, aseVars, TypeOK, Pcs
<1>11. CASE Output
  <2>1. Devices' = Devices
    BY <1>11 DEF Output, Devices
  <2>2. NextCursor \in 1 .. Len(run.outputSteps) + 1
    BY <1>1 DEF NextCursor, AtNextOutputStep, TypeOK
  <2>3. pc' \in Pcs
    BY <1>11 DEF Output, AfterOutput, Pcs
  <2> QED
    BY <1>1, <1>11, <2>1, <2>2, <2>3 DEF Output, aseVars, TypeOK
<1>12. CASE SkipOutput
  <2>1. Devices' = Devices
    BY <1>12 DEF SkipOutput, Devices
  <2>2. pc' \in Pcs
    BY <1>12 DEF SkipOutput, AfterOutput, Pcs
  <2> QED
    BY <1>1, <1>12, <2>1, <2>2 DEF SkipOutput, aseVars, TypeOK
<1>13. CASE ReceiveControl
  <2>1. Devices' = Devices
    BY <1>13 DEF ReceiveControl, Devices
  <2>2. PICK v \in Controls :
            /\ vector' = v
            /\ IF run.control
               THEN /\ queue' = Append(queue, LoadControl(v))
                    /\ blocking' = [blocking EXCEPT ![front] = v]
               ELSE UNCHANGED <<queue, blocking>>
    BY <1>13 DEF ReceiveControl
  <2>3. v \in Field
    BY FieldsAssumption
  <2>4. run.control => LoadControl(v) \in Entries /\ IsQueued(LoadControl(v))
    BY <2>3, LoadQueued DEF TypeOK
  <2>5. queue' \in Seq(Entries) /\ \A i \in DOMAIN queue' : IsQueued(queue'[i])
    <3>1. CASE run.control
      BY <2>2, <2>4, <3>1, AppendQueued
    <3>2. CASE ~run.control
      BY <2>2, <3>2
    <3> QED
      BY <3>1, <3>2
  <2>6. \A i \in DOMAIN queue' : queue'[i].out \in Buffers
    BY <2>5, QueuedOut
  <2>7. blocking' \in [Buffers -> Field]
    BY <2>2, <2>3 DEF TypeOK
  <2> QED
    BY <1>1, <1>13, <2>1, <2>2, <2>3, <2>5, <2>6, <2>7 DEF ReceiveControl, aseVars, TypeOK, Pcs
<1>14. CASE LeaveBlock
  <2>1. Devices' = Devices
    BY <1>14 DEF LeaveBlock, Devices
  <2> QED
    BY <1>1, <1>14, <2>1, FieldsAssumption DEF LeaveBlock, aseVars, TypeOK, Pcs
<1>15. CASE DeviceRun
  <2>1. Devices' = Devices
    BY <1>15 DEF DeviceRun, Devices
  <2>2. buf' \in [Buffers -> Field]
    BY <1>15, ExecuteHead DEF DeviceRun
  <2>3. queue' \in Seq(Entries) /\ \A i \in DOMAIN queue' : IsQueued(queue'[i])
    BY <1>15, HeadAndTail DEF DeviceRun
  <2>4. \A i \in DOMAIN queue' : queue'[i].out \in Buffers
    BY <2>3, QueuedOut
  <2> QED
    BY <1>1, <1>15, <2>1, <2>2, <2>3, <2>4 DEF DeviceRun, host, aseVars, TypeOK
<1>16. CASE Rest
  <2>1. Devices' = Devices
    BY <1>16 DEF Rest, vars, Devices
  <2> QED
    BY <1>1, <1>16, <2>1 DEF Rest, vars, host, aseVars, TypeOK
<1> QED
  BY <1>2, <1>3, <1>4, <1>5, <1>6, <1>7, <1>8, <1>9, <1>10, <1>11, <1>12, <1>13, <1>14,
     <1>15, <1>16 DEF Next

-----------------------------------------------------------------------------
(* The host in the step.                                                   *)

LEMMA NameStays ==
    ASSUME front' = front, NEW name, name # "phi"
    PROVE  BufferOf(name)' = BufferOf(name)
  BY DEF BufferOf, Other

\* No step of the evaluation moves the host before the evaluation ends.
LEMMA EvaluationStays ==
    ASSUME run \in Runs, at \in Nat \ {0}, AtInstruction("ase"),
           front \in {"betaA", "betaB"},
           run' = run, step' = step, at' = at, pc' = pc, front' = front
    PROVE  /\ AtInstruction("ase")'
           /\ BufferOf(Instruction.in[1])' = BufferOf(Instruction.in[1])
           /\ BufferOf(Instruction.in[1]) \in {"betaA", "betaB", "stage"}
           /\ RequireHostValues' = RequireHostValues
<1>1. IsInstruction(Instruction) /\ Instruction.op = "ase"
  BY InstructionIs DEF AtInstruction
<1>2. Instruction.in[1] \in {"beta", "stage"}
  BY <1>1 DEF IsInstruction, IsKernel, Ops
<1>3. Instruction' = Instruction /\ AtInstruction("ase")' /\ RequireHostValues' = RequireHostValues
  BY InstructionStays
<1>4. BufferOf(Instruction.in[1])' = BufferOf(Instruction.in[1])
  BY <1>2, <1>3, NameStays
<1> QED
  BY <1>2, <1>3, <1>4, StageBuffer

LEMMA HostAtInit == Init => HostAt
<1> SUFFICES ASSUME Init
             PROVE  HostAt
  OBVIOUS
<1>1. run \in Runs /\ pc = "advance" /\ at = 1 /\ step = 0 /\ ase = None
  BY DEF Init
<1>2. run.numberOfSteps \in Nat \ {0}
  BY <1>1, RunsAssumption DEF ValidRun
<1>3. Runnable => Len(AdvanceTimeStep) \in Nat
  BY <1>1, LengthOfStep
<1> QED
  BY <1>1, <1>2, <1>3 DEF HostAt

LEMMA HostAtStep ==
    ASSUME Types, HostAt, Next
    PROVE  HostAt'
<1>1. /\ run \in Runs /\ run.numberOfSteps \in Nat \ {0} /\ at \in Nat \ {0}
      /\ step \in 0 .. run.numberOfSteps /\ front \in {"betaA", "betaB"} /\ pc \in Pcs
  BY RunsAssumption DEF Types, TypeOK, ValidRun
<1>2. Runnable => Len(AdvanceTimeStep) \in Nat
  BY <1>1, LengthOfStep
<1>3. run' = run
  BY DEF Next, Enqueue, Wait, AseBegin, DownloadBeta, RefreshMeshes, AseEnd, AseFails,
         NotRunnable, CompleteStep, Output, SkipOutput, ReceiveControl, ControlFails,
         LeaveBlock, DeviceRun, Rest, vars
\* The host leaves the instruction it was at, or there is no evaluation.
<1>4. ASSUME step' = step, ase' = None, at' \in Nat, at' = 1 \/ at' = at + 1 \/ at' = at,
             pc' \in Pcs,
             pc' = "advance" /\ Runnable => at' <= Len(AdvanceTimeStep) + 1,
             pc' \in {"control", "leave"} => at' = 1,
             pc' \in {"advance", "control", "leave"} => step < run.numberOfSteps,
             pc' # "failed" /\ pc' # "advance" => Runnable
      PROVE  HostAt'
  <2>1. AdvanceTimeStep' = AdvanceTimeStep /\ Runnable' = Runnable
    BY <1>3, <1>4, StepStays
  <2> QED
    BY <1>3, <1>4, <2>1 DEF HostAt
<1>5. CASE Enqueue
  <2>1. /\ AtInstruction("ase") => FALSE
        /\ pc = "advance" /\ Runnable /\ at <= Len(AdvanceTimeStep) /\ ase' = ase
        /\ at' = at + 1 /\ pc' = pc /\ step' = step
    BY <1>5 DEF Enqueue, AtInstruction, aseVars
  <2>2. ase = None
    BY <2>1 DEF HostAt
  <2> QED
    BY <1>1, <1>2, <1>4, <2>1, <2>2 DEF HostAt, Pcs
<1>6. CASE Wait
  <2>1. /\ AtInstruction("ase") => FALSE
        /\ pc = "advance" /\ Runnable /\ at <= Len(AdvanceTimeStep) /\ ase' = ase
        /\ at' = at + 1 /\ pc' = pc /\ step' = step
    BY <1>6 DEF Wait, AtInstruction, aseVars
  <2>2. ase = None
    BY <2>1 DEF HostAt
  <2> QED
    BY <1>1, <1>2, <1>4, <2>1, <2>2 DEF HostAt, Pcs
\* An evaluation that goes on.
<1>7. ASSUME AtInstruction("ase"), ase' # None, ase'.from = BufferOf(Instruction.in[1]),
             ase'.next # "trace" => RequireHostValues,
             UNCHANGED host
      PROVE  HostAt'
  <2>1. AtInstruction("ase")' /\ BufferOf(Instruction.in[1])' = BufferOf(Instruction.in[1])
        /\ RequireHostValues' = RequireHostValues
    BY <1>1, <1>3, <1>7, EvaluationStays DEF host
  <2>2. AdvanceTimeStep' = AdvanceTimeStep /\ Runnable' = Runnable
    BY <1>3, <1>7, StepStays DEF host
  <2>3. (pc = "advance" => step < run.numberOfSteps) /\ pc = "advance"
    BY <1>7 DEF HostAt, AtInstruction
  <2> QED
    BY <1>1, <1>2, <1>3, <1>7, <2>1, <2>2, <2>3 DEF HostAt, host, AtInstruction
<1>8. CASE AseBegin
  <2>1. ase' = [from |-> BufferOf(Instruction.in[1]),
                next |-> IF RequireHostValues THEN "download" ELSE "trace"]
    BY <1>8 DEF AseBegin
  <2>2. ase' # None
    <3>1. DOMAIN ase' = {"from", "next"} /\ DOMAIN None = {}
      BY <2>1 DEF None
    <3> QED
      BY <3>1
  <2>3. ase'.from = BufferOf(Instruction.in[1]) /\ (ase'.next # "trace" => RequireHostValues)
    BY <2>1
  <2> QED
    BY <1>7, <1>8, <2>2, <2>3 DEF AseBegin
<1>9. ASSUME ase # None, ase' # None, UNCHANGED host, ase'.from = ase.from, ase.next # "trace"
      PROVE  HostAt'
  BY <1>7, <1>9 DEF HostAt
<1>10. CASE DownloadBeta \/ RefreshMeshes
  <2>1. ase \in [from : Buffers, next : {"download", "refresh", "trace"}]
    BY <1>10 DEF DownloadBeta, RefreshMeshes, Types, TypeOK
  <2>2. /\ ase'.from = ase.from /\ DOMAIN ase' = {"from", "next"} /\ ase # None
        /\ ase.next # "trace" /\ UNCHANGED host
    BY <1>10, <2>1 DEF DownloadBeta, RefreshMeshes
  <2>3. ase' # None
    <3>1. DOMAIN None = {}
      BY DEF None
    <3> QED
      BY <2>2, <3>1
  <2> QED
    BY <1>9, <2>2, <2>3
<1>11. CASE AseEnd
  <2>1. AtInstruction("ase")
    BY <1>11 DEF AseEnd, HostAt
  <2> QED
    BY <1>1, <1>2, <1>4, <1>11, <2>1 DEF AseEnd, HostAt, AtInstruction
<1>12. CASE AseFails
  <2>1. step' = step /\ ase' = None /\ at' = at /\ pc' = "failed"
    BY <1>12 DEF AseFails
  <2> QED
    BY <1>1, <1>4, <2>1 DEF Pcs
<1>13. ASSUME pc # "advance" \/ ~Runnable
       PROVE  ase = None
  BY <1>13 DEF HostAt, AtInstruction
<1>14. CASE NotRunnable \/ ControlFails
  <2>1. ase = None
    BY <1>13, <1>14 DEF NotRunnable, ControlFails
  <2>2. step' = step /\ ase' = ase /\ at' = at /\ pc' = "failed"
    BY <1>14 DEF NotRunnable, ControlFails, aseVars
  <2> QED
    BY <1>1, <1>4, <2>1, <2>2 DEF Pcs
<1>15. CASE CompleteStep
  <2>1. ase = None
    BY <1>1, <1>2, <1>15 DEF CompleteStep, HostAt, AtInstruction
  <2>2. pc' = "output" /\ ase' = ase /\ Runnable' = Runnable
    BY <1>15 DEF CompleteStep, aseVars, Runnable
  <2> QED
    BY <1>15, <2>1, <2>2 DEF HostAt, CompleteStep
<1>16. CASE Output \/ SkipOutput
  <2>1. ase = None /\ Runnable
    BY <1>13, <1>16 DEF Output, SkipOutput, HostAt
  <2>2. step' = step /\ ase' = ase /\ at' = 1 /\ pc' \in {AfterOutput, "failed"}
    BY <1>16 DEF Output, SkipOutput, aseVars
  <2>3. /\ AfterOutput \in {"done", "control", "advance"}
        /\ AfterOutput # "done" => step < run.numberOfSteps
    BY <1>1 DEF AfterOutput
  <2> QED
    BY <1>1, <1>2, <1>4, <2>1, <2>2, <2>3 DEF Pcs
<1>17. CASE ReceiveControl \/ LeaveBlock
  <2>1. ase = None /\ Runnable /\ at = 1 /\ step < run.numberOfSteps
    BY <1>13, <1>17 DEF ReceiveControl, LeaveBlock, HostAt
  <2>2. step' = step /\ ase' = ase /\ at' = at /\ pc' \in {"leave", "advance"}
    BY <1>17 DEF ReceiveControl, LeaveBlock, aseVars
  <2> QED
    BY <1>1, <1>2, <1>4, <2>1, <2>2 DEF Pcs
<1>18. CASE DeviceRun \/ Rest
  <2>1. UNCHANGED <<host, ase>>
    BY <1>18 DEF DeviceRun, Rest, vars, aseVars
  <2>2. CASE ase = None
    BY <1>1, <1>2, <1>4, <2>1, <2>2 DEF HostAt, host
  <2>3. CASE ase # None
    BY <1>7, <2>1, <2>3 DEF HostAt
  <2> QED
    BY <2>2, <2>3
<1> QED
  BY <1>5, <1>6, <1>8, <1>10, <1>11, <1>12, <1>14, <1>15, <1>16, <1>17, <1>18 DEF Next

-----------------------------------------------------------------------------
(* What is queued beside an evaluation.                                    *)

LEMMA PumpStays ==
    ASSUME front' = front, NEW k \in Instructions, IsInstruction(k), k.op = "pump"
    PROVE  InOrder(k)' = InOrder(k)
<1>1. k.in \in [1 .. 1 -> Roles] /\ k.in[1] \in {"beta", "stage"} /\ k.out = "dndtPump"
  BY DEF IsInstruction, IsKernel, Arity
<1>2. \A i \in DOMAIN k.in : k.in[i] # "phi"
  BY <1>1
<1>3. \A i \in DOMAIN k.in : BufferOf(k.in[i])' = BufferOf(k.in[i])
  BY <1>2, NameStays
<1>4. BufferOf(k.out)' = BufferOf(k.out)
  BY <1>1, NameStays
<1> QED
  BY <1>3, <1>4 DEF InOrder, Kernel

LEMMA PumpedIs ==
    ASSUME run \in Runs, Runnable, NEW n \in Nat, n <= Len(AdvanceTimeStep),
           Pumped(AdvanceTimeStep, n)
    PROVE  /\ AdvanceTimeStep[n] \in Instructions /\ IsInstruction(AdvanceTimeStep[n])
           /\ AdvanceTimeStep[n].op = "pump"
<1>1. IsProgram(AdvanceTimeStep)
  BY StepIsProgram
<1> QED
  BY <1>1 DEF Pumped, IsProgram

LEMMA QuietInit == Init => Quiet
  BY DEF Init, Quiet, Waited, Pumped

LEMMA QuietStep ==
    ASSUME Types, HostAt, Quiet, Next
    PROVE  Quiet'
<1> DEFINE A == AdvanceTimeStep
<1>1. /\ run \in Runs /\ at \in Nat \ {0} /\ front \in {"betaA", "betaB"}
      /\ queue \in Seq(Entries)
  BY DEF Types, TypeOK
<1>2. pc = "advance" /\ Runnable => Len(A) \in Nat /\ at <= Len(A) + 1
  BY <1>1, LengthOfStep DEF HostAt
<1>3. run' = run
  BY DEF Next, Enqueue, Wait, AseBegin, DownloadBeta, RefreshMeshes, AseEnd, AseFails,
         NotRunnable, CompleteStep, Output, SkipOutput, ReceiveControl, ControlFails,
         LeaveBlock, DeviceRun, Rest, vars
<1>4. step' = step => A' = A /\ Runnable' = Runnable
  BY <1>3, StepStays
<1>5. ASSUME pc' # "advance" \/ at' = 1
      PROVE  Quiet'
  BY <1>5 DEF Quiet, Waited, Pumped
<1>6. ASSUME step' = step, at' = at, pc' = pc, front' = front,
             queue' = queue \/ (queue # <<>> /\ queue' = Tail(queue))
      PROVE  Quiet'
  <2> SUFFICES ASSUME pc = "advance", Runnable
               PROVE  /\ Waited(A, at - 1) => queue' = <<>>
                      /\ Pumped(A, at - 1) =>
                             queue' = <<>> \/ queue' = <<InOrder(A[at - 1])'>>
    BY <1>4, <1>6 DEF Quiet
  <2>1. CASE Waited(A, at - 1)
    <3>1. queue = <<>> /\ queue' = <<>>
      BY <1>6, <2>1 DEF Quiet
    <3>2. ~Pumped(A, at - 1)
      BY <2>1 DEF Waited, Pumped
    <3> QED
      BY <3>1, <3>2
  <2>2. CASE Pumped(A, at - 1)
    <3>1. InOrder(A[at - 1])' = InOrder(A[at - 1])
      <4>1. at - 1 \in Nat /\ at - 1 <= Len(A)
        BY <1>1, <1>2
      <4>2. A[at - 1] \in Instructions /\ IsInstruction(A[at - 1]) /\ A[at - 1].op = "pump"
        BY <1>1, <2>2, <4>1, PumpedIs
      <4>3. A'[at' - 1] = A[at - 1]
        BY <1>4, <1>6
      <4> QED
        BY <1>6, <4>2, <4>3, PumpStays
    <3>2. queue = <<>> \/ queue = <<InOrder(A[at - 1])>>
      BY <2>2 DEF Quiet
    <3>3. queue' = <<>> \/ queue' = <<InOrder(A[at - 1])>>
      <4>1. \A x : Tail(<<x>>) = <<>>
        OBVIOUS
      <4>2. CASE queue = <<>>
        BY <1>6, <4>2
      <4>3. CASE queue = <<InOrder(A[at - 1])>>
        BY <1>6, <4>1, <4>3
      <4> QED
        BY <3>2, <4>2, <4>3
    <3>4. ~Waited(A, at - 1)
      BY <2>2 DEF Waited, Pumped
    <3> QED
      BY <3>1, <3>3, <3>4
  <2> QED
    BY <2>1, <2>2
<1>7. CASE Enqueue
  <2>1. /\ pc = "advance" /\ Runnable /\ Instruction.op \notin {"wait", "ase"}
        /\ queue' = Append(queue, InOrder(Instruction)) /\ at' = at + 1 /\ pc' = pc
        /\ step' = step /\ front' = front /\ at <= Len(A)
    BY <1>7 DEF Enqueue
  <2>2. at' - 1 = at /\ ~Waited(A, at)
    BY <1>1, <2>1 DEF Waited, Instruction
  <2>3. ASSUME Pumped(A, at)
        PROVE  queue' = <<InOrder(A[at - 1])'>>
    <3>1. Waited(A, at - 1)
      BY <1>1, <2>3 DEF Waited, Pumped
    <3>2. queue = <<>>
      BY <2>1, <3>1 DEF Quiet
    <3>3. A[at] \in Instructions /\ IsInstruction(A[at]) /\ A[at].op = "pump"
      BY <1>1, <2>1, <2>3, PumpedIs
    <3>4. queue' = <<InOrder(A[at])>>
      BY <2>1, <3>2 DEF Instruction
    <3>5. A'[at' - 1] = A[at]
      BY <1>4, <2>1, <2>2
    <3>6. \A k : k = A[at] => InOrder(k)' = InOrder(k)
      BY <2>1, <3>3, PumpStays
    <3>7. InOrder(A[at - 1])' = InOrder(A[at])
      BY <3>5, <3>6
    <3> QED
      BY <3>4, <3>7
  <2>4. A' = A
    BY <1>4, <2>1
  <2> QED
    BY <2>2, <2>3, <2>4 DEF Quiet
<1>8. CASE Wait
  <2>1. /\ A[at].op = "wait" /\ queue' = <<>> /\ at' = at + 1 /\ step' = step
    BY <1>8 DEF Wait, AtInstruction, Instruction
  <2>2. at' - 1 = at /\ ~Pumped(A, at)
    BY <1>1, <2>1 DEF Pumped
  <2> QED
    BY <1>4, <2>1, <2>2 DEF Quiet
<1>9. CASE AseEnd
  <2>1. /\ A[at].op = "ase" /\ at' = at + 1 /\ step' = step
    BY <1>9 DEF AseEnd, HostAt, AtInstruction, Instruction
  <2>2. at' - 1 = at /\ ~Pumped(A, at) /\ ~Waited(A, at)
    BY <1>1, <2>1 DEF Pumped, Waited
  <2> QED
    BY <1>4, <2>1, <2>2 DEF Quiet
<1>10. CASE AseBegin \/ DownloadBeta \/ RefreshMeshes \/ DeviceRun \/ Rest
  BY <1>6, <1>10 DEF AseBegin, DownloadBeta, RefreshMeshes, DeviceRun, Rest, host, vars
<1>11. CASE AseFails \/ NotRunnable \/ CompleteStep \/ ReceiveControl \/ ControlFails
  BY <1>5, <1>11 DEF AseFails, NotRunnable, CompleteStep, ReceiveControl, ControlFails
<1>12. CASE Output \/ SkipOutput \/ LeaveBlock
  BY <1>5, <1>12 DEF Output, SkipOutput, LeaveBlock, HostAt
<1> QED
  BY <1>7, <1>8, <1>9, <1>10, <1>11, <1>12 DEF Next

\* What is queued when an evaluation begins: nothing, or the pump of its stage.
LEMMA QuietEvaluation ==
    ASSUME Types, HostAt, Quiet, AtInstruction("ase")
    PROVE  /\ BufferOf(Instruction.in[1]) \in {"betaA", "betaB", "stage"}
           /\ \/ queue = <<>>
              \/ \E b \in {"betaA", "betaB", "stage"} :
                     queue = <<[op |-> "pump", in |-> <<b>>, out |-> "dndtPump"]>>
<1> DEFINE A == AdvanceTimeStep
<1>1. /\ run \in Runs /\ at \in Nat \ {0} /\ front \in {"betaA", "betaB"}
      /\ Runnable /\ pc = "advance" /\ at <= Len(A) /\ Instruction.op = "ase"
      /\ Len(A) \in Nat
  BY LengthOfStep DEF Types, TypeOK, AtInstruction
<1>2. IsInstruction(Instruction) /\ (Waited(A, at - 1) \/ Pumped(A, at - 1))
  BY <1>1, InstructionIs
<1>3. Instruction.in[1] \in {"beta", "stage"}
  BY <1>1, <1>2 DEF IsInstruction, IsKernel, Ops
<1>4. CASE Waited(A, at - 1)
  BY <1>1, <1>3, <1>4, StageBuffer DEF Quiet
<1>5. CASE Pumped(A, at - 1)
  <2>1. queue = <<>> \/ queue = <<InOrder(A[at - 1])>>
    BY <1>1, <1>5 DEF Quiet
  <2>2. at - 1 \in Nat /\ at - 1 <= Len(A)
    BY <1>1
  <2> DEFINE k == A[at - 1]
  <2>3. k \in Instructions /\ IsInstruction(k) /\ k.op = "pump"
    BY <1>1, <1>5, <2>2, PumpedIs
  <2> HIDE DEF k
  <2>4. /\ InOrder(k).op = "pump" /\ InOrder(k).out = "dndtPump"
        /\ InOrder(k).in = <<BufferOf(k.in[1])>>
        /\ BufferOf(k.in[1]) \in {"betaA", "betaB", "stage"}
    BY <1>1, <2>3, PumpInOrder
  <2>5. InOrder(k) = [op |-> InOrder(k).op, in |-> InOrder(k).in, out |-> InOrder(k).out]
    BY DEF InOrder, Kernel
  <2> QED
    BY <1>1, <1>3, <2>1, <2>4, <2>5, StageBuffer DEF k
<1> QED
  BY <1>2, <1>4, <1>5

LEMMA PrivateStep ==
    ASSUME Types, HostAt, Quiet, AsePrivate, Next
    PROVE  AsePrivate'
<1>1. queue \in Seq(Entries)
  BY DEF Types
<1>2. CASE AseBegin
  <2>1. AtInstruction("ase") /\ queue' = queue /\ ase'.from = BufferOf(Instruction.in[1])
    BY <1>2 DEF AseBegin
  <2>2. ase'.from \in {"betaA", "betaB", "stage"}
    BY <2>1, QuietEvaluation
  <2>3. CASE queue = <<>>
    BY <2>1, <2>3 DEF AsePrivate
  <2>4. ASSUME NEW b \in {"betaA", "betaB", "stage"},
               queue = <<[op |-> "pump", in |-> <<b>>, out |-> "dndtPump"]>>
        PROVE  AsePrivate'
    <3>1. \A i \in DOMAIN queue : queue[i] = [op |-> "pump", in |-> <<b>>, out |-> "dndtPump"]
      BY <2>4
    <3>2. Range(<<b>>) = {b}
      BY DEF Range
    <3>3. \A i \in DOMAIN queue : queue[i].out = "dndtPump" /\ "volumePhi" \notin Range(queue[i].in)
      BY <3>1, <3>2
    <3> QED
      BY <2>1, <2>2, <3>3 DEF AsePrivate
  <2> QED
    BY <2>1, <2>3, <2>4, QuietEvaluation
<1>3. CASE DownloadBeta \/ RefreshMeshes
  <2>1. ase \in [from : Buffers, next : {"download", "refresh", "trace"}] /\ ase # None
    BY <1>3 DEF DownloadBeta, RefreshMeshes, Types, TypeOK
  <2>2. ase'.from = ase.from /\ queue' = queue
    BY <1>3, <2>1 DEF DownloadBeta, RefreshMeshes
  <2> QED
    BY <2>1, <2>2 DEF AsePrivate
<1>4. CASE DeviceRun
  <2>1. queue # <<>> /\ queue' = Tail(queue) /\ ase' = ase
    BY <1>4 DEF DeviceRun, aseVars
  <2>2. \A i \in DOMAIN queue' : i + 1 \in DOMAIN queue /\ queue'[i] = queue[i + 1]
    BY <1>1, <2>1, HeadAndTail
  <2> QED
    BY <2>1, <2>2 DEF AsePrivate
<1>5. CASE AseEnd \/ AseFails
  BY <1>5 DEF AseEnd, AseFails, AsePrivate
<1>6. CASE Rest
  BY <1>6 DEF Rest, vars, aseVars, AsePrivate
<1>7. CASE Enqueue \/ Wait \/ NotRunnable \/ CompleteStep \/ Output \/ SkipOutput
           \/ ReceiveControl \/ ControlFails \/ LeaveBlock
  <2>1. ase' = ase
    BY <1>7 DEF Enqueue, Wait, NotRunnable, CompleteStep, Output, SkipOutput, ReceiveControl,
       ControlFails, LeaveBlock, aseVars
  <2>2. ~AtInstruction("ase")
    <3>1. at \in Nat /\ (Runnable => Len(AdvanceTimeStep) \in Nat)
      BY LengthOfStep DEF Types, TypeOK
    <3> QED
      BY <1>7, <3>1 DEF Enqueue, Wait, NotRunnable, CompleteStep, Output, SkipOutput,
         ReceiveControl, ControlFails, LeaveBlock, AtInstruction
  <2> QED
    BY <2>1, <2>2 DEF HostAt, AsePrivate
<1> QED
  BY <1>2, <1>3, <1>4, <1>5, <1>6, <1>7 DEF Next

-----------------------------------------------------------------------------
(* The theorems about the queue.                                           *)

LEMMA QueueInit == Init => QueueInv
  BY TypesInit, HostAtInit, QuietInit DEF QueueInv, AsePrivate, Init

LEMMA QueueNext == QueueInv /\ Next => QueueInv'
  BY TypesStep, HostAtStep, QuietStep, PrivateStep DEF QueueInv

LEMMA QueueStutter ==
    ASSUME QueueInv, UNCHANGED vars
    PROVE  QueueInv'
<1> USE DEF vars, host, aseVars
<1>1. AdvanceTimeStep' = AdvanceTimeStep /\ Runnable' = Runnable
  BY StepStays
<1>2. Devices' = Devices
  BY DEF Devices
<1>3. Types'
  BY <1>2 DEF QueueInv, Types, TypeOK
<1>4. /\ run \in Runs /\ at \in Nat \ {0} /\ front \in {"betaA", "betaB"}
      /\ queue \in Seq(Entries)
  BY DEF QueueInv, Types, TypeOK
<1>5. AsePrivate'
  BY DEF QueueInv, AsePrivate
<1>6. HostAt'
  <2>1. ase # None =>
            /\ AtInstruction("ase")'
            /\ BufferOf(Instruction.in[1])' = BufferOf(Instruction.in[1])
            /\ RequireHostValues' = RequireHostValues
    BY <1>4, EvaluationStays DEF QueueInv, HostAt
  <2> QED
    BY <1>1, <2>1 DEF QueueInv, HostAt
<1>7. Quiet'
  <2> SUFFICES ASSUME pc = "advance", Runnable, Pumped(AdvanceTimeStep, at - 1), queue # <<>>
               PROVE  queue' = <<InOrder(AdvanceTimeStep[at - 1])'>>
    BY <1>1 DEF QueueInv, Quiet
  <2> DEFINE k == AdvanceTimeStep[at - 1]
  <2>1. at - 1 \in Nat /\ at - 1 <= Len(AdvanceTimeStep) /\ Len(AdvanceTimeStep) \in Nat
    BY <1>4, LengthOfStep DEF QueueInv, HostAt
  <2>2. k \in Instructions /\ IsInstruction(k) /\ k.op = "pump"
    BY <1>4, <2>1, PumpedIs
  <2>3. \A l : l = k => InOrder(l)' = InOrder(l)
    BY <2>2, PumpStays
  <2>4. AdvanceTimeStep'[at' - 1] = k
    BY <1>1
  <2>5. InOrder(AdvanceTimeStep[at - 1])' = InOrder(k)
    BY <2>3, <2>4
  <2>6. queue = <<InOrder(k)>>
    BY DEF QueueInv, Quiet
  <2> QED
    BY <2>5, <2>6
<1> QED
  BY <1>3, <1>5, <1>6, <1>7 DEF QueueInv

\* What is queued beside the evaluation touches neither of its buffers, whatever
\* the run and whether or not copies are staged.
THEOREM QueueInvariant == Spec => []QueueInv
<1>1. QueueInv /\ [Next]_vars => QueueInv'
  BY QueueNext, QueueStutter
<1> QED
  BY QueueInit, <1>1, PTL DEF Spec

\* The type invariant, for every run that validateRunParameters accepts.
THEOREM StepTypeCorrect == Spec => []TypeOK
  BY QueueInvariant, PTL DEF QueueInv, Types

\* While the ASE evaluation runs nothing that is queued writes the population it
\* reads or touches the flux it writes: the waits of evaluateStage are enough.
THEOREM EvaluationIsPrivate == Spec => []AsePrivate
  BY QueueInvariant, PTL DEF QueueInv

-----------------------------------------------------------------------------
(* The field under the evaluation.                                         *)

\* Beside its output a kernel writes dndtPump, dndtAse and derivative only.
LEMMA ExecuteKeeps ==
    ASSUME NEW b \in [Buffers -> Field], NEW k, IsQueued(k),
           NEW c \in Buffers \ {"dndtPump", "dndtAse", "derivative"}, k.out # c
    PROVE  Execute(b, k)[c] = b[c]
<1> DEFINE x == [i \in DOMAIN k.in |-> b[k.in[i]]]
<1>1. CASE k.op \in {"compose", "composePumped"}
  <2>1. Execute(b, k) = Compose(b, x, k.op = "composePumped")
    BY <1>1 DEF Execute
  <2> HIDE DEF x
  <2> QED
    BY <2>1 DEF Compose
<1>2. CASE k.op \notin {"compose", "composePumped"}
  <2>1. Execute(b, k) = [b EXCEPT ![k.out] = Written(k, x)]
    BY <1>2 DEF Execute
  <2> HIDE DEF x
  <2> QED
    BY <2>1
<1> QED
  BY <1>1, <1>2

\* The evaluation reads a buffer that only the host's next step may write.
LEMMA EvaluatedBuffer ==
    ASSUME QueueInv, ase # None
    PROVE  /\ ase.from \in {"betaA", "betaB", "stage"}
           /\ ase \in [from : Buffers, next : {"download", "refresh", "trace"}]
           /\ AtInstruction("ase") /\ Runnable
<1>1. AtInstruction("ase") /\ ase.from = BufferOf(Instruction.in[1])
  BY DEF QueueInv, HostAt
<1>2. ase.from \in {"betaA", "betaB", "stage"}
  BY <1>1, QuietEvaluation DEF QueueInv
<1> QED
  BY <1>1, <1>2 DEF QueueInv, Types, TypeOK, AtInstruction

LEMMA FreshInit == Init => Fresh
  BY DEF Init, Fresh

LEMMA FreshStep ==
    ASSUME QueueInv, Fresh, Next
    PROVE  Fresh'
<1>1. /\ run \in Runs /\ buf \in [Buffers -> Field]
      /\ meshes \in [Devices -> [beta : Field, prefix : Field]]
  BY DEF QueueInv, Types, TypeOK
<1>2. run' = run
  BY DEF Next, Enqueue, Wait, AseBegin, DownloadBeta, RefreshMeshes, AseEnd, AseFails,
         NotRunnable, CompleteStep, Output, SkipOutput, ReceiveControl, ControlFails,
         LeaveBlock, DeviceRun, Rest, vars
<1>3. Workers' = Workers
  BY <1>2 DEF Workers, Devices
<1>4. CASE AseBegin
  <2>1. AtInstruction("ase") /\ Runnable /\ run.deviceCount > 0
    BY <1>4 DEF AseBegin, AtInstruction, Runnable
  <2> DEFINE from == BufferOf(Instruction.in[1])
  <2>2. from \in {"betaA", "betaB", "stage"}
    BY <2>1, QuietEvaluation DEF QueueInv
  <2>3. /\ ase' = [from |-> from, next |-> IF RequireHostValues THEN "download" ELSE "trace"]
        /\ meshes' = [meshes EXCEPT ![Primary].prefix = buf[from]] /\ buf' = buf
    BY <1>4 DEF AseBegin
  <2> HIDE DEF from
  <2>4. Primary \in Devices
    BY <1>1, <2>1, WorkersOfDevices
  <2>5. meshes'[Primary].prefix = buf'[ase'.from] /\ ase'.from = from
    BY <1>1, <2>3, <2>4
  <2>6. ase'.next # "refresh" /\ (ase'.next = "trace" => ~RequireHostValues)
    BY <2>3
  <2>7. ase'.next = "trace" => Workers' = {Primary}
    BY <1>1, <1>3, <2>1, <2>6, OneWorker
  <2>8. \A d : d = Primary => TracedThrough(d)' = buf'[ase'.from]
    BY DEF TracedThrough, Primary
  <2> QED
    BY <2>5, <2>6, <2>7, <2>8 DEF Fresh
<1>5. CASE DownloadBeta
  <2>1. ase # None /\ hostBeta' = buf[ase.from] /\ buf' = buf /\ meshes' = meshes
        /\ ase' = [ase EXCEPT !.next = "refresh"]
    BY <1>5 DEF DownloadBeta
  <2>2. ase'.from = ase.from /\ ase'.next = "refresh"
    BY <2>1, EvaluatedBuffer
  <2> QED
    BY <2>1, <2>2 DEF Fresh
<1>6. CASE RefreshMeshes
  <2>1. /\ ase # None /\ buf' = buf /\ ase.next = "refresh"
        /\ meshes' = [d \in Devices |-> IF d \in Refreshed
                          THEN [beta |-> hostBeta, prefix |-> hostBeta] ELSE meshes[d]]
        /\ ase' = [ase EXCEPT !.next = "trace"]
    BY <1>6 DEF RefreshMeshes
  <2>2. ase'.from = ase.from /\ ase'.next = "trace" /\ Runnable
    BY <2>1, EvaluatedBuffer
  <2>3. Primary \in Devices /\ Workers \subseteq Devices
    BY <1>1, <2>2, WorkersOfDevices DEF Runnable
  <2>4. hostBeta = buf[ase.from] /\ meshes[Primary].prefix = buf[ase.from]
    BY <2>1 DEF Fresh
  <2>5. ASSUME NEW d \in Devices
        PROVE  /\ meshes'[d].prefix = buf'[ase'.from]
               /\ TracedThrough(d)' = buf'[ase'.from]
    <3>1. CASE d \in Refreshed
      BY <2>1, <2>2, <2>4, <3>1 DEF TracedThrough
    <3>2. CASE d \notin Refreshed
      <4>1. d = Primary
        BY <3>2 DEF Refreshed
      <4> QED
        BY <2>1, <2>2, <2>4, <3>2, <4>1 DEF TracedThrough
    <3> QED
      BY <3>1, <3>2
  <2> QED
    BY <1>3, <2>2, <2>3, <2>5 DEF Fresh
<1>7. CASE AseEnd \/ AseFails
  BY <1>7 DEF AseEnd, AseFails, Fresh
<1>8. CASE DeviceRun
  <2> SUFFICES ASSUME ase # None
               PROVE  Fresh'
    BY <1>8 DEF DeviceRun, aseVars, Fresh
  <2>1. queue # <<>> /\ buf' = Execute(buf, Head(queue)) /\ UNCHANGED aseVars
    BY <1>8 DEF DeviceRun
  <2>2. Head(queue) = queue[1] /\ 1 \in DOMAIN queue
    BY <2>1, HeadAndTail DEF QueueInv, Types
  <2>3. IsQueued(Head(queue)) /\ Head(queue).out # ase.from
    BY <2>2 DEF QueueInv, Types, AsePrivate
  <2>4. buf'[ase.from] = buf[ase.from]
    <3>1. ase.from \in Buffers \ {"dndtPump", "dndtAse", "derivative"}
      BY EvaluatedBuffer DEF Buffers
    <3> QED
      BY <1>1, <2>1, <2>3, <3>1, ExecuteKeeps
  <2>5. \A d : TracedThrough(d)' = TracedThrough(d)
    BY <2>1, <2>4 DEF TracedThrough, aseVars
  <2> QED
    BY <1>3, <2>1, <2>4, <2>5 DEF Fresh, aseVars
<1>9. CASE Rest
  <2>1. \A d : TracedThrough(d)' = TracedThrough(d)
    BY <1>9 DEF TracedThrough, Rest, vars, aseVars
  <2> QED
    BY <1>3, <1>9, <2>1 DEF Fresh, Rest, vars, aseVars
<1>10. CASE Enqueue \/ Wait \/ NotRunnable \/ CompleteStep \/ Output \/ SkipOutput
            \/ ReceiveControl \/ ControlFails \/ LeaveBlock
  <2>1. ase' = ase
    BY <1>10 DEF Enqueue, Wait, NotRunnable, CompleteStep, Output, SkipOutput, ReceiveControl,
       ControlFails, LeaveBlock, aseVars
  <2>2. ~AtInstruction("ase")
    <3>1. at \in Nat /\ (Runnable => Len(AdvanceTimeStep) \in Nat)
      BY LengthOfStep DEF QueueInv, Types, TypeOK
    <3> QED
      BY <1>10, <3>1 DEF Enqueue, Wait, NotRunnable, CompleteStep, Output, SkipOutput,
         ReceiveControl, ControlFails, LeaveBlock, AtInstruction
  <2> QED
    BY <2>1, <2>2 DEF QueueInv, HostAt, Fresh
<1> QED
  BY <1>4, <1>5, <1>6, <1>7, <1>8, <1>9, <1>10 DEF Next

\* Then the flux is the one of the field the evaluation was given.
LEMMA FluxOfEvaluated ==
    ASSUME QueueInv, Fresh, ase # None, ase.next = "trace"
    PROVE  Flux = AseFlux(buf[ase.from], buf[ase.from])
<1> DEFINE Of(d) == AseFlux(meshes[d].prefix, TracedThrough(d))
           f == buf[ase.from]
<1>1. Runnable /\ ase.from \in Buffers /\ run \in Runs /\ buf \in [Buffers -> Field]
  BY EvaluatedBuffer DEF QueueInv, Types, TypeOK
<1>2. Min(Workers) \in Workers /\ Max(Workers) \in Workers
  BY <1>1, WorkersOfDevices DEF Runnable
<1>3. \A d \in Workers : Of(d) = AseFlux(f, f)
  BY DEF Fresh
<1>4. AseFlux(f, f) \in Field
  <2>1. f \in Field
    BY <1>1
  <2> QED
    BY <2>1, RatesAssumption
<1>5. Flux = Merged(Of(Min(Workers)), Of(Max(Workers)))
  BY DEF Flux
<1> HIDE DEF Of, f
<1>6. Flux = Merged(AseFlux(f, f), AseFlux(f, f))
  BY <1>2, <1>3, <1>5
<1> QED
  BY <1>4, <1>6, MergedWithItself DEF f

-----------------------------------------------------------------------------
(* The buffers are those of a blocking queue, up to what is queued.        *)

\* Only a copy that is not staged looks at the host vector.
LEMMA ExecuteStays ==
    ASSUME NEW b, NEW k, k.op # "read"
    PROVE  Execute(b, k)' = Execute(b, k)
<1>1. \A x : Written(k, x)' = Written(k, x)
  BY DEF Written
<1>2. \A x, on : Compose(b, x, on)' = Compose(b, x, on)
  BY DEF Compose
<1> QED
  BY <1>1, <1>2 DEF Execute

LEMMA StagedQueue ==
    ASSUME QueueInv, ~Unstaged
    PROVE  \A i \in DOMAIN queue : queue[i].op # "read"
<1>1. \A k : IsQueued(k) => k.op # "read"
  BY DEF IsQueued, IsKernel, Ops
<1> QED
  BY <1>1 DEF QueueInv, Types

LEMMA PendingInit == Init => Pending
<1> SUFFICES ASSUME Init
             PROVE  Pending
  OBVIOUS
<1> DEFINE t == [i \in 0 .. 0 |-> buf]
<1>1. queue = <<>> /\ blocking = buf /\ Len(queue) = 0
  BY DEF Init
<1>2. buf \in [Buffers -> Field]
  BY TypesInit DEF Types, TypeOK
<1>3. t \in [0 .. Len(queue) -> [Buffers -> Field]] /\ t[0] = buf
  BY <1>1, <1>2
<1>4. 1 .. Len(queue) = {}
  BY <1>1
<1>5. Trace(t)
  BY <1>1, <1>3, <1>4 DEF Trace
<1> QED
  BY <1>3, <1>5 DEF Pending

\* The host moves on and the queue, the buffers stay what they are.
LEMMA PendingStays ==
    ASSUME QueueInv, Pending, ~Unstaged, UNCHANGED <<queue, buf, blocking>>
    PROVE  Pending'
<1>1. PICK t \in [0 .. Len(queue) -> [Buffers -> Field]] : Trace(t)
  BY DEF Pending
<1>2. \A i \in 1 .. Len(queue) : queue[i].op # "read"
  BY StagedQueue DEF QueueInv, Types
<1>3. ASSUME NEW i \in 1 .. Len(queue)
      PROVE  t[i] = Execute(t[i - 1], queue[i])'
  <2>1. t[i] = Execute(t[i - 1], queue[i])
    BY <1>1 DEF Trace
  <2>2. Execute(t[i - 1], queue[i])' = Execute(t[i - 1], queue[i])
    <3>1. \A k : k = queue[i] => Execute(t[i - 1], k)' = Execute(t[i - 1], k)
      BY <1>2, ExecuteStays
    <3> QED
      BY <3>1
  <2> QED
    BY <2>1, <2>2
<1>4. Trace(t)'
  BY <1>1, <1>3 DEF Trace
<1> QED
  BY <1>4 DEF Pending

\* An operation is queued, and a blocking queue has executed it.
LEMMA PendingAppend ==
    ASSUME QueueInv, Pending, ~Unstaged, NEW k \in Entries, IsQueued(k),
           queue' = Append(queue, k), blocking' = Execute(blocking, k), buf' = buf
    PROVE  Pending'
<1> DEFINE n == Len(queue)
<1>1. PICK t \in [0 .. n -> [Buffers -> Field]] : Trace(t)
  BY DEF Pending
<1>2. n \in Nat /\ queue \in Seq(Entries) /\ DOMAIN queue = 1 .. n
  BY DEF QueueInv, Types
<1>3. /\ Len(queue') = n + 1 /\ queue'[n + 1] = k
      /\ \A i \in 1 .. n : queue'[i] = queue[i]
  BY <1>2
<1>4. \A i \in 1 .. n + 1 : queue'[i].op # "read"
  <2>1. \A i \in 1 .. n : queue[i].op # "read"
    BY <1>2, StagedQueue
  <2>2. k.op # "read"
    BY DEF IsQueued, IsKernel, Ops
  <2> QED
    BY <1>2, <1>3, <2>1, <2>2
<1>5. t[n] = blocking /\ t[0] = buf
  BY <1>1 DEF Trace
<1>6. blocking' \in [Buffers -> Field]
  BY ExecuteTyped DEF QueueInv, Types, TypeOK
<1>7. PICK u : u = [i \in 0 .. n + 1 |-> IF i = n + 1 THEN Execute(blocking, k) ELSE t[i]]
  OBVIOUS
<1>8. /\ u[n + 1] = Execute(blocking, k)
      /\ \A i \in 0 .. n : u[i] = t[i]
  BY <1>2, <1>7
<1>9. u \in [0 .. n + 1 -> [Buffers -> Field]]
  BY <1>1, <1>2, <1>6, <1>7
<1>10. ASSUME NEW i \in 1 .. n + 1
      PROVE  u[i] = Execute(u[i - 1], queue[i])'
  <2>1. \A l : l = queue'[i] => Execute(u[i - 1], l)' = Execute(u[i - 1], l)
    BY <1>4, ExecuteStays
  <2>2. Execute(u[i - 1], queue[i])' = Execute(u[i - 1], queue'[i])
    BY <2>1
  <2>3. CASE i = n + 1
    <3>1. u[i - 1] = blocking /\ queue'[i] = k
      <4>1. i - 1 = n /\ n \in 0 .. n
        BY <1>2, <2>3
      <4> QED
        BY <1>3, <1>5, <1>8, <2>3, <4>1
    <3> QED
      BY <1>8, <2>2, <2>3, <3>1
  <2>4. CASE i \in 1 .. n
    <3>1. u[i] = t[i] /\ u[i - 1] = t[i - 1] /\ queue'[i] = queue[i]
      <4>1. i \in 0 .. n /\ i - 1 \in 0 .. n
        BY <1>2, <2>4
      <4> QED
        BY <1>3, <1>8, <2>4, <4>1
    <3>2. t[i] = Execute(t[i - 1], queue[i])
      BY <1>1, <2>4 DEF Trace
    <3> QED
      BY <2>2, <3>1, <3>2
  <2> QED
    BY <1>2, <2>3, <2>4
<1>11. u[0] = buf'
  <2>1. 0 \in 0 .. n
    BY <1>2
  <2> QED
    BY <1>5, <1>8, <2>1
<1>12. u[n + 1] = blocking'
  BY <1>8
<1>13. Trace(u)'
  BY <1>3, <1>10, <1>11, <1>12 DEF Trace
<1> QED
  BY <1>3, <1>9, <1>13 DEF Pending

\* The device executes the first of what is queued.
LEMMA PendingRun ==
    ASSUME QueueInv, Pending, ~Unstaged, DeviceRun
    PROVE  Pending'
<1> DEFINE n == Len(queue)
<1>1. PICK t \in [0 .. n -> [Buffers -> Field]] : Trace(t)
  BY DEF Pending
<1>2. /\ queue # <<>> /\ buf' = Execute(buf, Head(queue)) /\ queue' = Tail(queue)
      /\ blocking' = blocking
  BY DEF DeviceRun
<1>3. n \in Nat /\ n > 0 /\ queue \in Seq(Entries) /\ DOMAIN queue = 1 .. n
  BY <1>2 DEF QueueInv, Types
<1>4. /\ Len(queue') = n - 1 /\ Head(queue) = queue[1]
      /\ \A i \in 1 .. n - 1 : queue'[i] = queue[i + 1]
  BY <1>2, <1>3
<1>5. \A i \in 1 .. n - 1 : queue'[i].op # "read"
  <2>1. \A i \in 1 .. n : queue[i].op # "read"
    BY <1>3, StagedQueue
  <2>2. \A i \in 1 .. n - 1 : i + 1 \in 1 .. n
    BY <1>3
  <2> QED
    BY <1>4, <2>1, <2>2
<1>6. PICK u : u = [i \in 0 .. n - 1 |-> t[i + 1]]
  OBVIOUS
<1>7. u \in [0 .. n - 1 -> [Buffers -> Field]] /\ \A i \in 0 .. n - 1 : u[i] = t[i + 1]
  <2>1. \A i \in 0 .. n - 1 : i + 1 \in 0 .. n
    BY <1>3
  <2> QED
    BY <1>1, <1>6, <2>1
<1>8. u[0] = buf'
  <2>1. t[1] = Execute(t[0], queue[1]) /\ t[0] = buf
    <3>1. 1 \in 1 .. n /\ 1 - 1 = 0
      BY <1>3
    <3> QED
      BY <1>1, <3>1 DEF Trace
  <2>2. u[0] = t[1]
    <3>1. 0 \in 0 .. n - 1 /\ 0 + 1 = 1
      BY <1>3
    <3> QED
      BY <1>7, <3>1
  <2> QED
    BY <1>2, <1>4, <2>1, <2>2
<1>9. u[n - 1] = blocking'
  <2>1. n - 1 \in 0 .. n - 1 /\ (n - 1) + 1 = n
    BY <1>3
  <2>2. t[n] = blocking
    BY <1>1 DEF Trace
  <2> QED
    BY <1>2, <1>7, <2>1, <2>2
<1>10. ASSUME NEW i \in 1 .. n - 1
      PROVE  u[i] = Execute(u[i - 1], queue[i])'
  <2>1. \A l : l = queue'[i] => Execute(u[i - 1], l)' = Execute(u[i - 1], l)
    BY <1>5, ExecuteStays
  <2>2. Execute(u[i - 1], queue[i])' = Execute(u[i - 1], queue'[i])
    BY <2>1
  <2>3. i \in 0 .. n - 1 /\ i - 1 \in 0 .. n - 1 /\ (i - 1) + 1 = i
    BY <1>3
  <2>4. u[i] = t[i + 1] /\ u[i - 1] = t[i]
    BY <1>7, <2>3
  <2>5. t[i + 1] = Execute(t[i], queue[i + 1])
    <3>1. i + 1 \in 1 .. n /\ (i + 1) - 1 = i
      BY <1>3
    <3> QED
      BY <1>1, <3>1 DEF Trace
  <2> QED
    BY <1>4, <2>2, <2>4, <2>5
<1>11. Trace(u)'
  BY <1>4, <1>8, <1>9, <1>10 DEF Trace
<1> QED
  BY <1>4, <1>7, <1>11 DEF Pending

\* The flux arrives while at most a pump is queued.
LEMMA PendingFlux ==
    ASSUME QueueInv, Fresh, Pending, ~Unstaged, AseEnd
    PROVE  Pending'
<1>1. /\ ase # None /\ ase.next = "trace" /\ queue' = queue
      /\ buf' = [buf EXCEPT !.volumePhi = Flux]
      /\ blocking' = [blocking EXCEPT !.volumePhi =
                          AseFlux(blocking[ase.from], blocking[ase.from])]
  BY DEF AseEnd
<1>2. /\ ase.from \in {"betaA", "betaB", "stage"} /\ AtInstruction("ase")
      /\ buf \in [Buffers -> Field] /\ blocking \in [Buffers -> Field]
  BY <1>1, EvaluatedBuffer DEF QueueInv, Types, TypeOK
<1>3. {"betaA", "betaB", "stage"} \subseteq Buffers \ {"volumePhi", "dndtPump"}
      /\ "volumePhi" \in Buffers /\ "dndtPump" \in Buffers
  BY DEF Buffers
<1>4. PICK t \in [0 .. Len(queue) -> [Buffers -> Field]] : Trace(t)
  BY DEF Pending
<1> DEFINE F == AseFlux(buf[ase.from], buf[ase.from])
<1>5. Flux = F /\ F \in Field
  <2>1. buf[ase.from] \in Field
    BY <1>2, <1>3
  <2> QED
    BY <1>1, <2>1, FluxOfEvaluated, RatesAssumption
<1>6. buf' \in [Buffers -> Field]
  BY <1>1, <1>2, <1>5
<1>7. CASE queue = <<>>
  <2>1. blocking = buf /\ Len(queue) = 0
    BY <1>4, <1>7 DEF Trace
  <2>2. buf' = blocking'
    BY <1>1, <1>5, <2>1
  <2>3. PICK u : u = [i \in 0 .. 0 |-> buf']
    OBVIOUS
  <2>4. u \in [0 .. Len(queue') -> [Buffers -> Field]] /\ u[0] = buf' /\ Len(queue') = 0
    BY <1>1, <1>6, <2>1, <2>3
  <2>5. 1 .. Len(queue') = {}
    BY <2>4
  <2>6. Trace(u)'
    BY <2>2, <2>4, <2>5 DEF Trace
  <2> QED
    BY <2>4, <2>6 DEF Pending
<1>8. ASSUME NEW b \in {"betaA", "betaB", "stage"},
             queue = <<[op |-> "pump", in |-> <<b>>, out |-> "dndtPump"]>>
      PROVE  Pending'
  <2> DEFINE k == [op |-> "pump", in |-> <<b>>, out |-> "dndtPump"]
  <2>1. Len(queue) = 1 /\ queue[1] = k
    BY <1>8
  <2>2. \A c \in [Buffers -> Field] : Execute(c, k) = [c EXCEPT !.dndtPump = PumpRate(c[b])]
    <3> TAKE c \in [Buffers -> Field]
    <3> DEFINE x == [i \in DOMAIN k.in |-> c[k.in[i]]]
    <3>1. x[1] = c[b]
      OBVIOUS
    <3>2. Execute(c, k) = [c EXCEPT ![k.out] = Written(k, x)]
      BY DEF Execute
    <3>3. Written(k, x) = PumpRate(x[1])
      <4> HIDE DEF x
      <4> QED
        BY DEF Written
    <3> HIDE DEF x
    <3> QED
      BY <3>1, <3>2, <3>3
  <2>3. k.op # "read"
    OBVIOUS
  <2> HIDE DEF k
  <2>4. blocking = [buf EXCEPT !.dndtPump = PumpRate(buf[b])]
    <3>1. t[1] = Execute(t[0], queue[1]) /\ t[0] = buf /\ t[1] = blocking
      <4>1. 1 \in 1 .. Len(queue) /\ 1 - 1 = 0
        BY <2>1
      <4> QED
        BY <1>4, <2>1, <4>1 DEF Trace
    <3> QED
      BY <1>2, <2>1, <2>2, <3>1
  <2>5. blocking[ase.from] = buf[ase.from]
    BY <1>2, <1>3, <2>4
  <2>6. blocking' = [blocking EXCEPT !.volumePhi = F]
    BY <1>1, <2>5
  <2>7. buf' = [buf EXCEPT !.volumePhi = F] /\ buf'[b] = buf[b]
    BY <1>1, <1>2, <1>3, <1>5
  <2>8. Execute(buf', k) = blocking'
    <3>1. Execute(buf', k) = [buf' EXCEPT !.dndtPump = PumpRate(buf[b])]
      BY <1>6, <2>2, <2>7
    <3> HIDE DEF F
    <3> QED
      BY <1>2, <1>3, <2>4, <2>6, <2>7, <3>1
  <2>9. blocking' \in [Buffers -> Field]
    <3>1. blocking' = [blocking EXCEPT !.volumePhi = F]
      BY <2>6
    <3> HIDE DEF F
    <3> QED
      BY <1>2, <1>5, <3>1
  <2>10. PICK u : u = [i \in 0 .. 1 |-> IF i = 0 THEN buf' ELSE blocking']
    OBVIOUS
  <2>11. u \in [0 .. 1 -> [Buffers -> Field]] /\ u[0] = buf' /\ u[1] = blocking'
    BY <1>6, <2>9, <2>10
  <2>12. Len(queue') = 1 /\ queue'[1] = k
    BY <1>1, <2>1
  <2>13. ASSUME NEW i \in 1 .. Len(queue')
         PROVE  u[i] = Execute(u[i - 1], queue[i])'
    <3>1. i = 1 /\ i - 1 = 0 /\ queue'[i] = k
      BY <2>12
    <3>2. Execute(u[0], k)' = Execute(u[0], k)
      BY <2>3, ExecuteStays
    <3>3. Execute(u[i - 1], queue[i])' = Execute(u[0], k)
      BY <3>1, <3>2
    <3> QED
      BY <2>8, <2>11, <3>1, <3>3
  <2>14. Trace(u)'
    BY <2>11, <2>12, <2>13 DEF Trace
  <2> QED
    BY <2>11, <2>12, <2>14 DEF Pending
<1> QED
  BY <1>2, <1>7, <1>8, QuietEvaluation DEF QueueInv

LEMMA PendingStep ==
    ASSUME QueueInv, Fresh, Pending, ~Unstaged, Next
    PROVE  Pending'
<1>1. CASE Enqueue
  <2> DEFINE k == InOrder(Instruction)
  <2>1. Instruction \in Instructions /\ IsInstruction(Instruction)
    BY <1>1, InstructionIs DEF Enqueue, QueueInv, Types, TypeOK
  <2>2. k \in Entries /\ IsQueued(k)
    BY <1>1, <2>1, InOrderQueued DEF Enqueue, QueueInv, Types, TypeOK
  <2>3. queue' = Append(queue, k) /\ blocking' = Execute(blocking, k) /\ buf' = buf
    BY <1>1 DEF Enqueue
  <2> HIDE DEF k
  <2> QED
    BY <2>2, <2>3, PendingAppend
<1>2. CASE ReceiveControl
  <2>1. PICK v \in Controls :
            IF run.control
            THEN /\ queue' = Append(queue, LoadControl(v))
                 /\ blocking' = [blocking EXCEPT ![front] = v]
            ELSE UNCHANGED <<queue, blocking>>
    BY <1>2 DEF ReceiveControl
  <2>2. buf' = buf
    BY <1>2 DEF ReceiveControl
  <2>3. CASE run.control
    <3> DEFINE k == LoadControl(v)
    <3>1. k \in Entries /\ IsQueued(k)
      BY <2>3, FieldsAssumption, LoadQueued DEF QueueInv, Types, TypeOK
    <3>2. k = [op |-> "load", in |-> <<>>, out |-> front, value |-> v]
      <4>1. StagedCopies
        BY <2>3, StagedCopiesAssumption DEF Unstaged, QueueInv, Types, TypeOK
      <4> QED
        BY <4>1 DEF LoadControl
    <3> HIDE DEF k
    <3>3. k.op = "load" /\ k.out = front /\ k.value = v
      BY <3>2
    <3>4. Execute(blocking, k) = [blocking EXCEPT ![front] = v]
      BY <3>3 DEF Execute, Written
    <3> QED
      BY <2>1, <2>2, <2>3, <3>1, <3>4, PendingAppend DEF k
  <2>4. CASE ~run.control
    BY <2>1, <2>2, <2>4, PendingStays
  <2> QED
    BY <2>3, <2>4
<1>3. CASE AseEnd
  BY <1>3, PendingFlux
<1>4. CASE DeviceRun
  BY <1>4, PendingRun
<1>5. CASE Wait \/ AseBegin \/ DownloadBeta \/ RefreshMeshes \/ AseFails \/ NotRunnable
           \/ CompleteStep \/ Output \/ SkipOutput \/ ControlFails \/ LeaveBlock \/ Rest
  <2>1. UNCHANGED <<queue, buf, blocking>>
    BY <1>5 DEF Wait, AseBegin, DownloadBeta, RefreshMeshes, AseFails, NotRunnable,
       CompleteStep, Output, SkipOutput, ControlFails, LeaveBlock, Rest, vars
  <2> QED
    BY <2>1, PendingStays
<1> QED
  BY <1>1, <1>2, <1>3, <1>4, <1>5 DEF Next

LEMMA StepStutter ==
    ASSUME ~Unstaged, StepInv, UNCHANGED vars
    PROVE  StepInv'
<1>1. QueueInv'
  <2>1. QueueInv
    BY DEF StepInv
  <2> QED
    BY <2>1, QueueStutter
<1>2. Pending'
  <2>1. QueueInv /\ Pending /\ UNCHANGED <<queue, buf, blocking>>
    BY DEF StepInv, vars
  <2> QED
    BY <2>1, PendingStays
<1>3. Fresh'
  <2>1. \A d : TracedThrough(d)' = TracedThrough(d)
    BY DEF TracedThrough, vars, aseVars
  <2>2. Workers' = Workers
    BY DEF Workers, Devices, vars
  <2> QED
    BY <2>1, <2>2 DEF StepInv, Fresh, vars, aseVars
<1> QED
  BY <1>1, <1>2, <1>3 DEF StepInv

\* The whole invariant, unless a control is copied from a vector that the device
\* has yet to read.
THEOREM StepInvariant ==
    ASSUME ~Unstaged
    PROVE  Spec => []StepInv
<1>1. Init => StepInv
  BY QueueInit, FreshInit, PendingInit DEF StepInv
<1>2. StepInv /\ Next => StepInv'
  BY QueueNext, FreshStep, PendingStep DEF StepInv
<1>3. StepInv /\ UNCHANGED vars => StepInv'
  BY StepStutter
<1>4. StepInv /\ [Next]_vars => StepInv'
  BY <1>2, <1>3
<1> QED
  BY <1>1, <1>4, PTL DEF Spec

\* With nothing in flight the buffers hold what a blocking queue would have left:
\* neither the order of the queues nor the devices the flux came from can be told
\* from the results.  Only a control that is copied late could be the exception.
THEOREM QueueIsInvisible ==
    ASSUME ~Unstaged
    PROVE  Spec => []AsIfBlocking
<1>1. StepInv => AsIfBlocking
  <2> SUFFICES ASSUME StepInv, queue = <<>>
               PROVE  buf = blocking
    BY DEF AsIfBlocking
  <2>1. PICK t \in [0 .. Len(queue) -> [Buffers -> Field]] : Trace(t)
    BY DEF StepInv, Pending
  <2>2. Len(queue) = 0
    OBVIOUS
  <2> QED
    BY <2>1, <2>2 DEF Trace
<1> QED
  BY <1>1, StepInvariant, PTL

-----------------------------------------------------------------------------
(***************************************************************************)
(* TimeStepping implements BetaEvolution, for any runs, fields and rates.  *)
(*                                                                         *)
(* The instructions of a step are executed symbolically: Leads says that a *)
(* list of them leads from one state of the buffers to another, and what a *)
(* list does follows from what its parts do.  The host has always executed *)
(* the first instructions of its step (Underway); so when it completes the *)
(* step, all of them, and what they lead to is what the integrator         *)
(* prescribes (StepIntegrates).                                            *)
(***************************************************************************)

(* Executing a list of instructions.                                       *)

\* The buffers of the device, and whether the flux of the last stage is on it.
States == [buf : [Buffers -> Field], resident : BOOLEAN]
Now == [buf |-> blocking, resident |-> resident]

\* The flux of a state.
Phi(s) == IF s.resident THEN s.buf.volumePhi ELSE s.buf.phiAse

PlaceIn(s, name) ==
    CASE name = "beta" -> front
      [] name = "betaNext" -> Other(front)
      [] name = "phi" -> IF s.resident THEN "volumePhi" ELSE "phiAse"
      [] OTHER -> name
Placed(s, k) == Kernel(k.op, [i \in DOMAIN k.in |-> PlaceIn(s, k.in[i])], PlaceIn(s, k.out))

\* What one instruction does, when it is executed at once.
Evaluated(s, from) == [buf |-> [s.buf EXCEPT !.volumePhi = AseFlux(s.buf[from], s.buf[from])],
                       resident |-> TRUE]
Computed(s, k) == [buf |-> Execute(s.buf, Placed(s, k)),
                   resident |-> s.resident /\ k.op # "fill"]
Do(s, k) ==
    IF k.op = "wait" THEN s
    ELSE IF k.op = "ase" THEN Evaluated(s, PlaceIn(s, k.in[1]))
    ELSE Computed(s, k)

\* The first n instructions of p lead from s to u.
Steps(t, p, n) == \A i \in 1 .. n : t[i] = Do(t[i - 1], p[i])
LeadsBy(s, p, n, u) == \E t \in [0 .. n -> States] : t[0] = s /\ t[n] = u /\ Steps(t, p, n)
Leads(s, p, u) == LeadsBy(s, p, Len(p), u)

LEMMA LeadsNowhere ==
    ASSUME NEW s \in States, NEW p
    PROVE  LeadsBy(s, p, 0, s)
<1> DEFINE t == [i \in 0 .. 0 |-> s]
<1>1. t \in [0 .. 0 -> States] /\ t[0] = s
  OBVIOUS
<1>2. Steps(t, p, 0)
  BY DEF Steps
<1> QED
  BY <1>1, <1>2 DEF LeadsBy

\* One instruction more.
LEMMA LeadsFurther ==
    ASSUME NEW s, NEW p, NEW n \in Nat, NEW u, LeadsBy(s, p, n, u), Do(u, p[n + 1]) \in States
    PROVE  LeadsBy(s, p, n + 1, Do(u, p[n + 1]))
<1> DEFINE v == Do(u, p[n + 1])
<1>1. PICK t \in [0 .. n -> States] : t[0] = s /\ t[n] = u /\ Steps(t, p, n)
  BY DEF LeadsBy
<1> HIDE DEF v
<1>2. PICK r : r = [i \in 0 .. n + 1 |-> IF i = n + 1 THEN v ELSE t[i]]
  OBVIOUS
<1>3. /\ r[n + 1] = v
      /\ \A i \in 0 .. n : r[i] = t[i]
  BY <1>2
<1>4. r \in [0 .. n + 1 -> States]
  BY <1>1, <1>2 DEF v
<1>5. ASSUME NEW i \in 1 .. n + 1
      PROVE  r[i] = Do(r[i - 1], p[i])
  <2>1. CASE i = n + 1
    <3>1. i - 1 = n /\ n \in 0 .. n
      BY <2>1
    <3> QED
      BY <1>1, <1>3, <2>1, <3>1 DEF v
  <2>2. CASE i \in 1 .. n
    <3>1. i \in 0 .. n /\ i - 1 \in 0 .. n
      BY <2>2
    <3> QED
      BY <1>1, <1>3, <2>2, <3>1 DEF Steps
  <2> QED
    BY <2>1, <2>2
<1>6. Steps(r, p, n + 1)
  BY <1>5 DEF Steps
<1>7. r[0] = s
  BY <1>1, <1>3
<1> QED
  BY <1>3, <1>4, <1>6, <1>7 DEF LeadsBy, v

LEMMA LeadsNone == ASSUME NEW s, NEW u, Leads(s, <<>>, u) PROVE u = s /\ u \in States
<1>1. PICK t \in [0 .. 0 -> States] : t[0] = s /\ t[0] = u
  BY DEF Leads, LeadsBy
<1> QED
  BY <1>1

LEMMA LeadsOne ==
    ASSUME NEW s, NEW k, NEW u, Leads(s, <<k>>, u)
    PROVE  u = Do(s, k) /\ s \in States /\ u \in States
<1>1. PICK t \in [0 .. 1 -> States] : t[0] = s /\ t[1] = u /\ Steps(t, <<k>>, 1)
  BY DEF Leads, LeadsBy
<1>2. t[1] = Do(t[1 - 1], k)
  BY <1>1 DEF Steps
<1> QED
  BY <1>1, <1>2

\* A list does what its two parts do, one after the other.
LEMMA LeadsThrough ==
    ASSUME NEW S, NEW p \in Seq(S), NEW q \in Seq(S), NEW s, NEW u, Leads(s, p \o q, u)
    PROVE  \E m \in States : Leads(s, p, m) /\ Leads(m, q, u)
<1> DEFINE a == Len(p)
           b == Len(q)
<1>1. /\ a \in Nat /\ b \in Nat /\ Len(p \o q) = a + b
      /\ \A i \in 1 .. a : (p \o q)[i] = p[i]
      /\ \A i \in 1 .. b : (p \o q)[a + i] = q[i]
  BY ConcatenationFirst, ConcatenationSecond
<1> HIDE DEF a, b
<1>2. PICK t \in [0 .. a + b -> States] :
          t[0] = s /\ t[a + b] = u /\ Steps(t, p \o q, a + b)
  BY <1>1 DEF Leads, LeadsBy
<1>3. PICK t1 : t1 = [i \in 0 .. a |-> t[i]]
  OBVIOUS
<1>4. PICK t2 : t2 = [i \in 0 .. b |-> t[a + i]]
  OBVIOUS
<1>5. /\ t1 \in [0 .. a -> States] /\ \A i \in 0 .. a : t1[i] = t[i]
      /\ t2 \in [0 .. b -> States] /\ \A i \in 0 .. b : t2[i] = t[a + i]
  <2>1. /\ \A i \in 0 .. a : i \in 0 .. a + b
        /\ \A i \in 0 .. b : a + i \in 0 .. a + b
    BY <1>1
  <2> QED
    BY <1>2, <1>3, <1>4, <2>1
<1>6. Steps(t1, p, a)
  <2>1. ASSUME NEW i \in 1 .. a
        PROVE  t1[i] = Do(t1[i - 1], p[i])
    <3>1. i \in 0 .. a /\ i - 1 \in 0 .. a /\ i \in 1 .. a + b
      BY <1>1
    <3> QED
      BY <1>1, <1>2, <1>5, <3>1 DEF Steps
  <2> QED
    BY <2>1 DEF Steps
<1>7. Steps(t2, q, b)
  <2>1. ASSUME NEW i \in 1 .. b
        PROVE  t2[i] = Do(t2[i - 1], q[i])
    <3>1. i \in 0 .. b /\ i - 1 \in 0 .. b /\ a + i \in 1 .. a + b /\ (a + i) - 1 = a + (i - 1)
      BY <1>1
    <3>2. t[a + i] = Do(t[(a + i) - 1], (p \o q)[a + i])
      BY <1>2, <3>1 DEF Steps
    <3> QED
      BY <1>1, <1>5, <3>1, <3>2
  <2> QED
    BY <2>1 DEF Steps
<1>8. /\ t1[0] = s /\ t1[a] = t[a] /\ t2[0] = t[a] /\ t2[b] = u /\ t[a] \in States
  <2>1. 0 \in 0 .. a /\ a \in 0 .. a /\ 0 \in 0 .. b /\ b \in 0 .. b /\ a + 0 = a
        /\ a \in 0 .. a + b
    BY <1>1
  <2> QED
    BY <1>2, <1>5, <2>1
<1>9. Leads(s, p, t[a]) /\ Leads(t[a], q, u)
  BY <1>5, <1>6, <1>7, <1>8 DEF Leads, LeadsBy, a, b
<1> QED
  BY <1>8, <1>9

LEMMA LeadsTwo ==
    ASSUME NEW s, NEW k \in Instructions, NEW l \in Instructions, NEW u, Leads(s, <<k, l>>, u)
    PROVE  \E m \in States : Leads(s, <<k>>, m) /\ Leads(m, <<l>>, u)
<1>1. <<k>> \in Seq(Instructions) /\ <<l>> \in Seq(Instructions)
  OBVIOUS
<1>2. <<k, l>> = <<k>> \o <<l>>
  <2>1. /\ <<k>> \o <<l>> \in Seq(Instructions) /\ Len(<<k>> \o <<l>>) = 2
        /\ (<<k>> \o <<l>>)[1] = k /\ (<<k>> \o <<l>>)[2] = l
    OBVIOUS
  <2> DEFINE p == <<k>> \o <<l>>
             q == <<k, l>>
  <2>2. p \in [1 .. 2 -> Instructions] /\ q \in [1 .. 2 -> Instructions]
    <3>1. q \in [1 .. 2 -> Instructions]
      OBVIOUS
    <3>2. \A r \in Seq(Instructions) : r \in [1 .. Len(r) -> Instructions]
      OBVIOUS
    <3> QED
      BY <2>1, <3>1, <3>2
  <2>3. \A i \in 1 .. 2 : p[i] = q[i]
    BY <2>1
  <2> HIDE DEF p, q
  <2>4. p = q
    BY <2>2, <2>3
  <2> QED
    BY <2>4 DEF p, q
<1> QED
  BY <1>1, <1>2, LeadsThrough

LEMMA LeadsThenOne ==
    ASSUME NEW p, IsProgram(p), NEW k \in Instructions, NEW s, NEW u, Leads(s, p \o <<k>>, u)
    PROVE  \E m \in States : Leads(s, p, m) /\ Leads(m, <<k>>, u)
<1>1. p \in Seq(Instructions) /\ <<k>> \in Seq(Instructions)
  BY DEF IsProgram
<1> QED
  BY <1>1, LeadsThrough

LEMMA LeadsThenTwo ==
    ASSUME NEW p, IsProgram(p), NEW k \in Instructions, NEW l \in Instructions,
           NEW s, NEW u, Leads(s, p \o <<k, l>>, u)
    PROVE  \E m \in States : Leads(s, p, m) /\ Leads(m, <<k, l>>, u)
<1>1. p \in Seq(Instructions) /\ <<k, l>> \in Seq(Instructions)
  BY DEF IsProgram
<1> QED
  BY <1>1, LeadsThrough

LEMMA LeadsThenProgram ==
    ASSUME NEW p, IsProgram(p), NEW q, IsProgram(q), NEW s, NEW u, Leads(s, p \o q, u)
    PROVE  \E m \in States : Leads(s, p, m) /\ Leads(m, q, u)
<1>1. p \in Seq(Instructions) /\ q \in Seq(Instructions)
  BY DEF IsProgram
<1> QED
  BY <1>1, LeadsThrough

-----------------------------------------------------------------------------
(* What one instruction does to the fields that roles name.                *)

Names == {"beta", "betaNext", "stage", "derivative", "dndtPump", "dndtAse",
          "k1", "k2", "k3", "k4"}
Seat(name) == CASE name = "beta" -> front
                [] name = "betaNext" -> Other(front)
                [] OTHER -> name
At(s, name) == s.buf[Seat(name)]

\* From s to u the field of this name becomes value, and nothing else changes.
Sets(s, u, name, value) ==
    /\ At(u, name) = value
    /\ \A other \in Names \ {name} : At(u, other) = At(s, other)
    /\ Phi(u) = Phi(s) /\ u.resident = s.resident

Fronts == front \in {"betaA", "betaB"}

LEMMA Seats ==
    ASSUME Fronts
    PROVE  /\ \A a \in Names : /\ Seat(a) \in Buffers \ {"phiAse", "volumePhi"}
                               /\ \A s : PlaceIn(s, a) = Seat(a)
           /\ \A a, b \in Names : a # b => Seat(a) # Seat(b)
  BY DEF Fronts, Names, Seat, Other, Buffers, PlaceIn

\* The field a kernel writes, and the others.
LEMMA Overwrites ==
    ASSUME Fronts, NEW s \in States, NEW u, NEW name \in Names, NEW value,
           u.buf = [s.buf EXCEPT ![Seat(name)] = value], u.resident = s.resident
    PROVE  Sets(s, u, name, value)
<1>1. s.buf \in [Buffers -> Field]
  BY DEF States
<1>2. \A b \in Buffers : u.buf[b] = IF b = Seat(name) THEN value ELSE s.buf[b]
  BY <1>1
<1>3. At(u, name) = value
  BY <1>2, Seats DEF At
<1>4. \A other \in Names \ {name} : At(u, other) = At(s, other)
  BY <1>2, Seats DEF At
<1>5. Phi(u) = Phi(s)
  <2>1. "phiAse" \in Buffers /\ "volumePhi" \in Buffers
    BY DEF Buffers
  <2> QED
    BY <1>2, <2>1, Seats DEF Phi
<1> QED
  BY <1>3, <1>4, <1>5 DEF Sets

Simple == {"copy", "pump", "add", "addHalf", "heun", "rk4", "exponential", "clip"}

LEMMA SimpleKernel ==
    ASSUME Fronts, NEW s \in States, NEW u, NEW op \in Simple, NEW in, NEW name \in Names,
           Leads(s, <<Kernel(op, in, name)>>, u)
    PROVE  Sets(s, u, name, Written(Placed(s, Kernel(op, in, name)),
                                    [i \in DOMAIN in |-> s.buf[PlaceIn(s, in[i])]]))
<1> DEFINE k == Kernel(op, in, name)
           l == Placed(s, k)
           x == [i \in DOMAIN in |-> s.buf[PlaceIn(s, in[i])]]
<1>1. k.op = op /\ k.in = in /\ k.out = name
  BY DEF Kernel
<1>2. /\ l.op = op /\ l.out = Seat(name)
      /\ l.in = [i \in DOMAIN in |-> PlaceIn(s, in[i])]
  BY <1>1, Seats DEF Placed, Kernel
<1>3. u = Computed(s, k)
  BY <1>1, LeadsOne DEF Do, Simple
<1>4. Execute(s.buf, l) = [s.buf EXCEPT ![Seat(name)] = Written(l, x)]
  <2>1. [i \in DOMAIN l.in |-> s.buf[l.in[i]]] = x
    BY <1>2
  <2>2. l.op \notin {"compose", "composePumped"}
    BY <1>2 DEF Simple
  <2> HIDE DEF x, l
  <2> QED
    BY <1>2, <2>1, <2>2 DEF Execute
<1>5. u.buf = Execute(s.buf, l) /\ u.resident = s.resident
  <2>1. u.resident = (s.resident /\ op # "fill") /\ u.buf = Execute(s.buf, l)
    BY <1>1, <1>3 DEF Computed
  <2>2. op # "fill" /\ s.resident \in BOOLEAN
    BY DEF Simple, States
  <2> QED
    BY <2>1, <2>2
<1> HIDE DEF x, l
<1>6. u.buf = [s.buf EXCEPT ![Seat(name)] = Written(l, x)]
  BY <1>4, <1>5
<1> QED
  BY <1>5, <1>6, Overwrites DEF x, l, k

\* Kernel by kernel.
LEMMA CopySets ==
    ASSUME Fronts, NEW s \in States, NEW u, NEW a \in Names, NEW o \in Names,
           Leads(s, <<Kernel("copy", <<a>>, o)>>, u)
    PROVE  Sets(s, u, o, At(s, a))
<1> DEFINE k == Kernel("copy", <<a>>, o)
           x == [i \in DOMAIN <<a>> |-> s.buf[PlaceIn(s, <<a>>[i])]]
<1>1. Sets(s, u, o, Written(Placed(s, k), x))
  BY SimpleKernel DEF Simple
<1>2. x[1] = At(s, a)
  BY Seats DEF At
<1>3. Placed(s, k).op = "copy"
  BY DEF Placed, Kernel
<1> HIDE DEF x, k
<1> QED
  BY <1>1, <1>2, <1>3 DEF Written

LEMMA PumpSets ==
    ASSUME Fronts, NEW s \in States, NEW u, NEW a \in Names, NEW o \in Names,
           Leads(s, <<Kernel("pump", <<a>>, o)>>, u)
    PROVE  Sets(s, u, o, PumpRate(At(s, a)))
<1> DEFINE k == Kernel("pump", <<a>>, o)
           x == [i \in DOMAIN <<a>> |-> s.buf[PlaceIn(s, <<a>>[i])]]
<1>1. Sets(s, u, o, Written(Placed(s, k), x))
  BY SimpleKernel DEF Simple
<1>2. x[1] = At(s, a)
  BY Seats DEF At
<1>3. Placed(s, k).op = "pump"
  BY DEF Placed, Kernel
<1> HIDE DEF x, k
<1> QED
  BY <1>1, <1>2, <1>3 DEF Written

LEMMA ClipSets ==
    ASSUME Fronts, NEW s \in States, NEW u, NEW a \in Names, NEW o \in Names,
           Leads(s, <<Kernel("clip", <<a>>, o)>>, u)
    PROVE  Sets(s, u, o, ClipBeta(At(s, a)))
<1> DEFINE k == Kernel("clip", <<a>>, o)
           x == [i \in DOMAIN <<a>> |-> s.buf[PlaceIn(s, <<a>>[i])]]
<1>1. Sets(s, u, o, Written(Placed(s, k), x))
  BY SimpleKernel DEF Simple
<1>2. x[1] = At(s, a)
  BY Seats DEF At
<1>3. Placed(s, k).op = "clip"
  BY DEF Placed, Kernel
<1> HIDE DEF x, k
<1> QED
  BY <1>1, <1>2, <1>3 DEF Written

LEMMA AddSets ==
    ASSUME Fronts, NEW s \in States, NEW u, NEW a \in Names, NEW b \in Names, NEW o \in Names,
           NEW op \in {"add", "addHalf"}, Leads(s, <<Kernel(op, <<a, b>>, o)>>, u)
    PROVE  Sets(s, u, o, AddScaled(At(s, a), At(s, b), IF op = "add" THEN DT ELSE Half * DT))
<1> DEFINE k == Kernel(op, <<a, b>>, o)
           x == [i \in DOMAIN <<a, b>> |-> s.buf[PlaceIn(s, <<a, b>>[i])]]
<1>1. Sets(s, u, o, Written(Placed(s, k), x))
  BY SimpleKernel DEF Simple
<1>2. x[1] = At(s, a) /\ x[2] = At(s, b)
  BY Seats DEF At
<1>3. Placed(s, k).op = op
  BY DEF Placed, Kernel
<1> HIDE DEF x, k
<1>4. CASE op = "add"
  BY <1>1, <1>2, <1>3, <1>4 DEF Written
<1>5. CASE op = "addHalf"
  BY <1>1, <1>2, <1>3, <1>5 DEF Written
<1> QED
  BY <1>4, <1>5

LEMMA HeunSets ==
    ASSUME Fronts, NEW s \in States, NEW u, NEW a \in Names, NEW b \in Names, NEW c \in Names,
           NEW o \in Names, Leads(s, <<Kernel("heun", <<a, b, c>>, o)>>, u)
    PROVE  Sets(s, u, o, CombineHeun(At(s, a), At(s, b), At(s, c)))
<1> DEFINE k == Kernel("heun", <<a, b, c>>, o)
           x == [i \in DOMAIN <<a, b, c>> |-> s.buf[PlaceIn(s, <<a, b, c>>[i])]]
<1>1. Sets(s, u, o, Written(Placed(s, k), x))
  BY SimpleKernel DEF Simple
<1>2. x[1] = At(s, a) /\ x[2] = At(s, b) /\ x[3] = At(s, c)
  BY Seats DEF At
<1>3. Placed(s, k).op = "heun"
  BY DEF Placed, Kernel
<1> HIDE DEF x, k
<1> QED
  BY <1>1, <1>2, <1>3 DEF Written

LEMMA ExponentialSets ==
    ASSUME Fronts, NEW s \in States, NEW u, NEW a \in Names, NEW b \in Names, NEW c \in Names,
           NEW o \in Names, Leads(s, <<Kernel("exponential", <<a, b, c>>, o)>>, u)
    PROVE  Sets(s, u, o, ExponentialEulerUpdate(At(s, a), At(s, b), At(s, c)))
<1> DEFINE k == Kernel("exponential", <<a, b, c>>, o)
           x == [i \in DOMAIN <<a, b, c>> |-> s.buf[PlaceIn(s, <<a, b, c>>[i])]]
<1>1. Sets(s, u, o, Written(Placed(s, k), x))
  BY SimpleKernel DEF Simple
<1>2. x[1] = At(s, a) /\ x[2] = At(s, b) /\ x[3] = At(s, c)
  BY Seats DEF At
<1>3. Placed(s, k).op = "exponential"
  BY DEF Placed, Kernel
<1> HIDE DEF x, k
<1> QED
  BY <1>1, <1>2, <1>3 DEF Written

LEMMA RungeKuttaSets ==
    ASSUME Fronts, NEW s \in States, NEW u, NEW o \in Names,
           Leads(s, <<Kernel("rk4", <<"beta", "k1", "k2", "k3", "k4">>, o)>>, u)
    PROVE  Sets(s, u, o, CombineRungeKutta4(At(s, "beta"), At(s, "k1"), At(s, "k2"),
                                            At(s, "k3"), At(s, "k4")))
<1> DEFINE in == <<"beta", "k1", "k2", "k3", "k4">>
           k == Kernel("rk4", in, o)
           x == [i \in DOMAIN in |-> s.buf[PlaceIn(s, in[i])]]
<1>1. Sets(s, u, o, Written(Placed(s, k), x))
  BY SimpleKernel DEF Simple
<1>2. /\ x[1] = At(s, "beta") /\ x[2] = At(s, "k1") /\ x[3] = At(s, "k2")
      /\ x[4] = At(s, "k3") /\ x[5] = At(s, "k4")
  <2>1. {"beta", "k1", "k2", "k3", "k4"} \subseteq Names
    BY DEF Names
  <2> QED
    BY <2>1, Seats DEF At
<1>3. Placed(s, k).op = "rk4"
  BY DEF Placed, Kernel
<1> HIDE DEF x, k
<1> QED
  BY <1>1, <1>2, <1>3 DEF Written

-----------------------------------------------------------------------------
(* What a stage does.                                                      *)

\* The flux of the field x, the terms and the slope there, and those of a state.
FluxAt(x) == IF AseEnabled THEN AseFlux(x, x) ELSE Zero
StageAt(x, phi) ==
    LET pump == PumpTerm(PumpRate(x), PumpEnabled)
        term == AseTerm(x, phi)
    IN  [phi |-> phi, dndtPump |-> pump, dndtAse |-> term, slope |-> Derivative(x, pump, term)]
Terms(s) == [phi |-> Phi(s), dndtPump |-> At(s, "dndtPump"), dndtAse |-> At(s, "dndtAse"),
             slope |-> At(s, "derivative")]

Composed == {"derivative", "dndtPump", "dndtAse"}

\* The fields of these names stay.
Keeps(s, u, names) == \A a \in names : At(u, a) = At(s, a)

\* A flux that is not on the device is zero: a snapshot takes it from the host.
Settled(s) == ~s.resident => Phi(s) = Zero

\* A stage at the field x with the flux phi.
StageDone(s, u, x, phi) ==
    /\ Terms(u) = StageAt(x, phi)
    /\ Keeps(s, u, Names \ Composed)

LEMMA FillDoes ==
    ASSUME Fronts, NEW s \in States, NEW u, Leads(s, <<Kernel("fill", <<>>, "phiAse")>>, u)
    PROVE  Keeps(s, u, Names) /\ Phi(u) = Zero
<1> DEFINE k == Kernel("fill", <<>>, "phiAse")
           l == Placed(s, k)
           x == [i \in DOMAIN l.in |-> s.buf[l.in[i]]]
<1>1. u = Computed(s, k)
  BY LeadsOne DEF Do, Kernel
<1>2. l.op = "fill" /\ l.out = "phiAse"
  BY DEF Placed, Kernel, PlaceIn
<1>3. Execute(s.buf, l) = [s.buf EXCEPT ![l.out] = Written(l, x)]
  BY <1>2 DEF Execute
<1> HIDE DEF l, x
<1>4. u.buf = [s.buf EXCEPT !["phiAse"] = Zero] /\ u.resident = FALSE
  <2>1. u.buf = Execute(s.buf, l) /\ u.resident = (s.resident /\ k.op # "fill")
    BY <1>1 DEF Computed, l
  <2>2. Written(l, x) = Zero
    BY <1>2 DEF Written
  <2>3. k.op = "fill"
    BY DEF Kernel
  <2> QED
    BY <1>2, <1>3, <2>1, <2>2, <2>3
<1>5. s.buf \in [Buffers -> Field] /\ "phiAse" \in Buffers
  BY DEF States, Buffers
<1>6. \A b \in Buffers : u.buf[b] = IF b = "phiAse" THEN Zero ELSE s.buf[b]
  BY <1>4, <1>5
<1> QED
  BY <1>4, <1>5, <1>6, Seats DEF Keeps, At, Phi

LEMMA EvaluationDoes ==
    ASSUME Fronts, NEW s \in States, NEW u, NEW b \in Names,
           Leads(s, <<Kernel("ase", <<b>>, "volumePhi")>>, u)
    PROVE  Keeps(s, u, Names) /\ Phi(u) = AseFlux(At(s, b), At(s, b)) /\ u.resident
<1>1. u = Evaluated(s, PlaceIn(s, b))
  BY LeadsOne DEF Do, Kernel
<1>2. PlaceIn(s, b) = Seat(b)
  BY Seats
<1>3. u.buf = [s.buf EXCEPT !["volumePhi"] = AseFlux(At(s, b), At(s, b))] /\ u.resident = TRUE
  BY <1>1, <1>2 DEF Evaluated, At
<1>4. s.buf \in [Buffers -> Field] /\ "volumePhi" \in Buffers
  BY DEF States, Buffers
<1>5. \A c \in Buffers : u.buf[c] = IF c = "volumePhi" THEN AseFlux(At(s, b), At(s, b)) ELSE s.buf[c]
  BY <1>3, <1>4
<1> QED
  BY <1>3, <1>4, <1>5, Seats DEF Keeps, At, Phi

LEMMA ComposeDoes ==
    ASSUME Fronts, NEW s \in States, NEW u, NEW b \in Names,
           NEW on \in BOOLEAN,
           Leads(s, <<Kernel(IF on THEN "composePumped" ELSE "compose",
                             <<b, "phi", "dndtPump">>, "derivative")>>, u)
    PROVE  LET pump == PumpTerm(At(s, "dndtPump"), on)
               term == AseTerm(At(s, b), Phi(s))
           IN  /\ Terms(u) = [phi |-> Phi(s), dndtPump |-> pump, dndtAse |-> term,
                              slope |-> Derivative(At(s, b), pump, term)]
               /\ Keeps(s, u, Names \ Composed) /\ u.resident = s.resident
<1> DEFINE op == IF on THEN "composePumped" ELSE "compose"
           in == <<b, "phi", "dndtPump">>
           k == Kernel(op, in, "derivative")
           l == Placed(s, k)
           x == [i \in DOMAIN l.in |-> s.buf[l.in[i]]]
           pump == PumpTerm(At(s, "dndtPump"), on)
           term == AseTerm(At(s, b), Phi(s))
           slope == Derivative(At(s, b), pump, term)
<1>1. u = Computed(s, k)
  BY LeadsOne DEF Do, Kernel
<1>2. l.op = op /\ l.in = [i \in DOMAIN in |-> PlaceIn(s, in[i])]
  BY DEF Placed, Kernel
<1>3. x[1] = At(s, b) /\ x[2] = Phi(s) /\ x[3] = At(s, "dndtPump")
  <2>1. "dndtPump" \in Names
    BY DEF Names
  <2>2. PlaceIn(s, "phi") = IF s.resident THEN "volumePhi" ELSE "phiAse"
    BY DEF PlaceIn
  <2> HIDE DEF l
  <2>3. x[1] = s.buf[PlaceIn(s, b)] /\ x[2] = s.buf[PlaceIn(s, "phi")]
        /\ x[3] = s.buf[PlaceIn(s, "dndtPump")]
    BY <1>2
  <2> QED
    BY <2>1, <2>2, <2>3, Seats DEF At, Phi
<1>4. Execute(s.buf, l) = Compose(s.buf, x, on)
  <2>1. Execute(s.buf, l) = Compose(s.buf, x, l.op = "composePumped")
    BY <1>2 DEF Execute
  <2>2. (l.op = "composePumped") = on
    BY <1>2
  <2> QED
    BY <2>1, <2>2
<1>5. u.buf = Execute(s.buf, l) /\ u.resident = s.resident
  <2>1. u.buf = Execute(s.buf, l) /\ u.resident = (s.resident /\ k.op # "fill")
    BY <1>1 DEF Computed
  <2>2. k.op # "fill" /\ s.resident \in BOOLEAN
    BY DEF Kernel, States
  <2> QED
    BY <2>1, <2>2
<1> HIDE DEF x, l, k
<1>6. u.buf = [s.buf EXCEPT !.dndtPump = pump, !.dndtAse = term, !.derivative = slope]
  BY <1>3, <1>4, <1>5 DEF Compose
<1> HIDE DEF pump, term, slope
<1>7. s.buf \in [Buffers -> Field] /\ Composed \subseteq Buffers /\ {"phiAse", "volumePhi"} \subseteq Buffers
  BY DEF States, Buffers, Composed
<1>8. /\ u.buf["dndtPump"] = pump /\ u.buf["dndtAse"] = term /\ u.buf["derivative"] = slope
      /\ \A c \in Buffers \ Composed : u.buf[c] = s.buf[c]
  BY <1>6, <1>7 DEF Composed
<1>9. \A a \in Composed : a \in Names /\ Seat(a) = a
  BY DEF Composed, Names, Seat
<1>10. Terms(u) = [phi |-> Phi(s), dndtPump |-> pump, dndtAse |-> term, slope |-> slope]
  <2>1. Phi(u) = Phi(s)
    BY <1>5, <1>7, <1>8 DEF Phi, Composed
  <2>2. At(u, "dndtPump") = pump /\ At(u, "dndtAse") = term /\ At(u, "derivative") = slope
    BY <1>8, <1>9 DEF At, Composed
  <2> QED
    BY <2>1, <2>2 DEF Terms
<1>11. Keeps(s, u, Names \ Composed)
  <2>1. \A a \in Names \ Composed : Seat(a) \in Buffers \ Composed
    BY <1>9, Seats
  <2> QED
    BY <1>8, <2>1 DEF Keeps, At
<1> QED
  BY <1>5, <1>10, <1>11 DEF pump, term, slope

\* A part that is left out does nothing.
LEMMA LeadsWhen ==
    ASSUME NEW condition, NEW k, NEW s \in States, NEW u, Leads(s, When(condition, <<k>>), u)
    PROVE  IF condition THEN Leads(s, <<k>>, u) ELSE u = s
  BY LeadsNone DEF When

LEMMA StageLeads ==
    ASSUME Fronts, NEW s \in States, NEW u, NEW b \in {"beta", "stage"}, NEW refresh \in BOOLEAN,
           Leads(s, EvaluateStage(b, refresh), u)
    PROVE  /\ StageDone(s, u, At(s, b), IF refresh THEN FluxAt(At(s, b)) ELSE Phi(s))
           /\ refresh \/ Settled(s) => Settled(u)
<1> DEFINE wait == BeforeAse(refresh)
           rate == Kernel("pump", <<b>>, "dndtPump")
           pump == When(PumpEnabled, <<rate>>)
           call == Kernel("ase", <<b>>, "volumePhi")
           evaluation == When(refresh /\ AseEnabled, <<call>>)
           none == Kernel("fill", <<>>, "phiAse")
           fill == When(refresh /\ ~AseEnabled, <<none>>)
           slope == Kernel(IF PumpEnabled THEN "composePumped" ELSE "compose",
                           <<b, "phi", "dndtPump">>, "derivative")
           x == At(s, b)
<1>1. EvaluateStage(b, refresh) = (((wait \o pump) \o evaluation) \o fill) \o <<slope>>
  BY DEF EvaluateStage
<1>2. /\ wait \in Seq(Instructions) /\ pump \in Seq(Instructions)
      /\ evaluation \in Seq(Instructions) /\ fill \in Seq(Instructions)
      /\ <<slope>> \in Seq(Instructions)
  <2>1. \A c, k : k \in Instructions => When(c, <<k>>) \in Seq(Instructions)
    BY DEF When
  <2>2. /\ Kernel("wait", <<>>, None) \in Instructions /\ rate \in Instructions
        /\ call \in Instructions /\ none \in Instructions
    BY KernelInstructions, RoleNames
  <2>3. slope \in Instructions
    BY KernelInstructions, RoleNames
  <2> HIDE DEF rate, call, none, slope
  <2>4. wait \in Seq(Instructions)
    BY <2>1, <2>2 DEF BeforeAse
  <2> QED
    BY <2>1, <2>2, <2>3, <2>4
<1>3. wait = <<>> \/ wait = <<Kernel("wait", <<>>, None)>>
  BY DEF BeforeAse, When
<1> HIDE DEF wait, rate, pump, call, evaluation, none, fill, slope
<1>4. PICK m4 \in States : /\ Leads(s, ((wait \o pump) \o evaluation) \o fill, m4)
                           /\ Leads(m4, <<slope>>, u)
  <2>1. ((wait \o pump) \o evaluation) \o fill \in Seq(Instructions)
    BY <1>2
  <2> QED
    BY <1>1, <1>2, <2>1, LeadsThrough
<1>5. PICK m3 \in States : /\ Leads(s, (wait \o pump) \o evaluation, m3)
                           /\ Leads(m3, fill, m4)
  <2>1. (wait \o pump) \o evaluation \in Seq(Instructions)
    BY <1>2
  <2> QED
    BY <1>2, <1>4, <2>1, LeadsThrough
<1>6. PICK m2 \in States : Leads(s, wait \o pump, m2) /\ Leads(m2, evaluation, m3)
  <2>1. wait \o pump \in Seq(Instructions)
    BY <1>2
  <2> QED
    BY <1>2, <1>5, <2>1, LeadsThrough
<1>7. PICK m1 \in States : Leads(s, wait, m1) /\ Leads(m1, pump, m2)
  BY <1>2, <1>6, LeadsThrough
<1>8. m1 = s
  <2>1. CASE wait = <<>>
    BY <1>7, <2>1, LeadsNone
  <2>2. CASE wait = <<Kernel("wait", <<>>, None)>>
    BY <1>7, <2>2, LeadsOne DEF Do, Kernel
  <2> QED
    BY <1>3, <2>1, <2>2
<1>9. b \in Names /\ b \notin Composed /\ "dndtPump" \in Names /\ Composed \subseteq Names
  BY DEF Names, Composed
<1>10. /\ PumpEnabled => At(m2, "dndtPump") = PumpRate(x)
       /\ Keeps(s, m2, Names \ Composed) /\ Phi(m2) = Phi(s) /\ m2.resident = s.resident
  <2>1. CASE PumpEnabled
    <3>1. Leads(s, <<rate>>, m2)
      BY <1>7, <1>8, <2>1, LeadsWhen DEF pump
    <3>2. Sets(s, m2, "dndtPump", PumpRate(x))
      BY <1>9, <3>1, PumpSets DEF rate
    <3> HIDE DEF x
    <3> QED
      BY <1>9, <3>2 DEF Sets, Keeps, Composed
  <2>2. CASE ~PumpEnabled
    <3>1. m2 = s
      BY <1>7, <1>8, <2>2, LeadsWhen DEF pump
    <3> QED
      BY <2>2, <3>1 DEF Keeps
  <2> QED
    BY <2>1, <2>2
<1>11. At(m2, b) = x
  BY <1>9, <1>10 DEF Keeps
<1> HIDE DEF x
<1>12. /\ Keeps(m2, m4, Names)
       /\ refresh => Phi(m4) = FluxAt(x) /\ (AseEnabled => m4.resident)
       /\ ~refresh => Phi(m4) = Phi(m2) /\ m4.resident = m2.resident
  <2>1. CASE refresh /\ AseEnabled
    <3>1. Leads(m2, <<call>>, m3) /\ m4 = m3
      BY <1>5, <1>6, <2>1, LeadsWhen DEF evaluation, fill
    <3>2. Keeps(m2, m3, Names) /\ Phi(m3) = AseFlux(x, x) /\ m3.resident
      BY <1>9, <1>11, <3>1, EvaluationDoes DEF call
    <3> QED
      BY <2>1, <3>1, <3>2 DEF FluxAt
  <2>2. CASE refresh /\ ~AseEnabled
    <3>1. m3 = m2 /\ Leads(m2, <<none>>, m4)
      BY <1>5, <1>6, <2>2, LeadsWhen DEF evaluation, fill
    <3>2. Keeps(m2, m4, Names) /\ Phi(m4) = Zero
      BY <3>1, FillDoes DEF none
    <3> QED
      BY <2>2, <3>2 DEF FluxAt
  <2>3. CASE ~refresh
    <3>1. m4 = m2
      BY <1>5, <1>6, <2>3, LeadsWhen DEF evaluation, fill
    <3> QED
      BY <2>3, <3>1 DEF Keeps
  <2> QED
    BY <2>1, <2>2, <2>3
<1> DEFINE phi == Phi(m4)
           old == PumpTerm(At(m4, "dndtPump"), PumpEnabled)
           term == AseTerm(At(m4, b), phi)
<1>13. /\ Terms(u) = [phi |-> phi, dndtPump |-> old, dndtAse |-> term,
                      slope |-> Derivative(At(m4, b), old, term)]
       /\ Keeps(m4, u, Names \ Composed) /\ u.resident = m4.resident
  <2>1. PICK on \in BOOLEAN : on <=> PumpEnabled
    OBVIOUS
  <2>2. Leads(m4, <<Kernel(IF on THEN "composePumped" ELSE "compose",
                           <<b, "phi", "dndtPump">>, "derivative")>>, u)
    BY <1>4, <2>1 DEF slope
  <2>3. /\ Terms(u) = [phi |-> Phi(m4), dndtPump |-> PumpTerm(At(m4, "dndtPump"), on),
                       dndtAse |-> AseTerm(At(m4, b), Phi(m4)),
                       slope |-> Derivative(At(m4, b), PumpTerm(At(m4, "dndtPump"), on),
                                            AseTerm(At(m4, b), Phi(m4)))]
        /\ Keeps(m4, u, Names \ Composed) /\ u.resident = m4.resident
    BY <1>9, <2>2, ComposeDoes
  <2>4. PumpTerm(At(m4, "dndtPump"), on) = old
    BY <2>1 DEF PumpTerm
  <2> QED
    BY <2>3, <2>4
<1>14. old = PumpTerm(PumpRate(x), PumpEnabled) /\ At(m4, b) = x
  <2>1. At(m4, b) = x /\ At(m4, "dndtPump") = At(m2, "dndtPump")
    BY <1>9, <1>11, <1>12 DEF Keeps
  <2> QED
    BY <1>10, <2>1 DEF PumpTerm
<1>15. Terms(u) = StageAt(x, phi)
  BY <1>13, <1>14 DEF StageAt
<1> HIDE DEF phi
<1>16. Keeps(s, u, Names \ Composed)
  BY <1>10, <1>12, <1>13 DEF Keeps
<1>17. /\ refresh => phi = FluxAt(x)
       /\ ~refresh => phi = Phi(s)
       /\ refresh /\ AseEnabled => u.resident
       /\ ~refresh => u.resident = s.resident
       /\ Phi(u) = phi
  <2>1. Phi(u) = phi
    BY <1>13 DEF Terms
  <2> QED
    BY <1>10, <1>12, <1>13, <2>1 DEF phi
<1>18. refresh \/ Settled(s) => Settled(u)
  BY <1>17 DEF Settled, FluxAt
<1>19. StageDone(s, u, x, IF refresh THEN FluxAt(x) ELSE Phi(s))
  BY <1>15, <1>16, <1>17 DEF StageDone
<1> QED
  BY <1>18, <1>19 DEF x

-----------------------------------------------------------------------------
(* What the integrators do.                                                *)

\* The population of the next step, and the terms of the last stage.
Ended(u, new, k) == At(u, "betaNext") = new /\ Terms(u) = k /\ Settled(u)

\* A stage with a flux of its own.
Own(b) == StageAt(b, FluxAt(b))

LEMMA SetsKeeps ==
    ASSUME NEW s, NEW u, NEW name \in Names \ Composed, NEW value, Sets(s, u, name, value)
    PROVE  /\ Terms(u) = Terms(s) /\ (Settled(s) => Settled(u))
           /\ At(u, name) = value /\ Keeps(s, u, Names \ {name})
  BY DEF Sets, Terms, Settled, Keeps, Names, Composed

\* A stage at the population or at "stage", as the integrators use it.
LEMMA StageEnds ==
    ASSUME Fronts, NEW s \in States, NEW u, NEW b \in {"beta", "stage"}, NEW refresh \in BOOLEAN,
           NEW phi, Leads(s, EvaluateStage(b, refresh), u),
           IF refresh THEN phi = FluxAt(At(s, b)) ELSE phi = Phi(s) /\ Settled(s)
    PROVE  /\ Terms(u) = StageAt(At(s, b), phi) /\ Settled(u) /\ Phi(u) = phi
           /\ At(u, "derivative") = StageAt(At(s, b), phi).slope
           /\ Keeps(s, u, {"beta", "betaNext", "stage", "k1", "k2", "k3", "k4"})
<1>1. StageDone(s, u, At(s, b), phi) /\ Settled(u)
  BY StageLeads
<1>2. {"beta", "betaNext", "stage", "k1", "k2", "k3", "k4"} \subseteq Names \ Composed
  BY DEF Names, Composed
<1>3. Phi(u) = Terms(u).phi /\ At(u, "derivative") = Terms(u).slope
  BY DEF Terms
<1>4. StageAt(At(s, b), phi).phi = phi
  BY DEF StageAt
<1> QED
  BY <1>1, <1>2, <1>3, <1>4 DEF StageDone, Keeps

\* The slope of a stage is kept, and the field of the next one made from it.
LEMMA SlopeKept ==
    ASSUME Fronts, NEW s \in States, NEW u, NEW o \in {"k1", "k2", "k3"},
           NEW op \in {"add", "addHalf"}, Settled(s),
           Leads(s, <<Kernel("copy", <<"derivative">>, o), Kernel(op, <<"beta", o>>, "stage")>>, u)
    PROVE  /\ Terms(u) = Terms(s) /\ Settled(u)
           /\ At(u, o) = At(s, "derivative")
           /\ At(u, "stage") = AddScaled(At(s, "beta"), At(s, "derivative"),
                                         IF op = "add" THEN DT ELSE Half * DT)
           /\ Keeps(s, u, {"beta", "k1", "k2", "k3"} \ {o})
<1> DEFINE k == Kernel("copy", <<"derivative">>, o)
           l == Kernel(op, <<"beta", o>>, "stage")
<1>1. k \in Instructions /\ l \in Instructions
  BY KernelInstructions, RoleNames
<1>2. PICK m \in States : Leads(s, <<k>>, m) /\ Leads(m, <<l>>, u)
  <2> HIDE DEF k, l
  <2> QED
    BY <1>1, LeadsTwo DEF k, l
<1>3. /\ o \in Names \ Composed /\ "stage" \in Names \ Composed
      /\ "beta" \in Names /\ "derivative" \in Names
      /\ {"beta", "k1", "k2", "k3"} \subseteq Names
  BY DEF Names, Composed
<1>4. Sets(s, m, o, At(s, "derivative"))
  BY <1>2, <1>3, CopySets
<1>5. Sets(m, u, "stage", AddScaled(At(m, "beta"), At(m, o), IF op = "add" THEN DT ELSE Half * DT))
  BY <1>2, <1>3, AddSets
<1>6. /\ Terms(m) = Terms(s) /\ Settled(m) /\ At(m, o) = At(s, "derivative")
      /\ Keeps(s, m, Names \ {o})
  BY <1>3, <1>4, SetsKeeps
<1>7. /\ Terms(u) = Terms(m) /\ Settled(u)
      /\ At(u, "stage") = AddScaled(At(m, "beta"), At(m, o), IF op = "add" THEN DT ELSE Half * DT)
      /\ Keeps(m, u, Names \ {"stage"})
  BY <1>3, <1>5, <1>6, SetsKeeps
<1>8. At(m, "beta") = At(s, "beta")
  BY <1>3, <1>6 DEF Keeps
<1> QED
  BY <1>3, <1>6, <1>7, <1>8 DEF Keeps

\* The stage that starts a step, and the kernel that ends it.
LEMMA FirstStageEnds ==
    ASSUME Fronts, NEW s \in States, NEW u, NEW b, b = At(s, "beta"),
           Leads(s, EvaluateStage("beta", TRUE), u)
    PROVE  /\ Terms(u) = Own(b) /\ Settled(u) /\ At(u, "derivative") = Own(b).slope
           /\ Phi(u) = FluxAt(b) /\ At(u, "beta") = b
<1>1. /\ Terms(u) = StageAt(At(s, "beta"), FluxAt(b)) /\ Settled(u) /\ Phi(u) = FluxAt(b)
      /\ At(u, "derivative") = StageAt(At(s, "beta"), FluxAt(b)).slope
      /\ Keeps(s, u, {"beta", "betaNext", "stage", "k1", "k2", "k3", "k4"})
  BY StageEnds
<1> QED
  BY <1>1 DEF Own, Keeps

LEMMA StepEnds ==
    ASSUME NEW s, NEW u, NEW new, NEW k, Sets(s, u, "betaNext", new), Terms(s) = k, Settled(s)
    PROVE  Ended(u, new, k)
<1>1. "betaNext" \in Names \ Composed
  BY DEF Names, Composed
<1>2. /\ Terms(u) = Terms(s) /\ Settled(u) /\ At(u, "betaNext") = new
  BY <1>1, SetsKeeps
<1> QED
  BY <1>2 DEF Ended

LEMMA EulerEnds ==
    ASSUME Fronts, NEW s \in States, NEW u, Leads(s, ExplicitEuler, u),
           NEW b, b = At(s, "beta")
    PROVE  Ended(u, AddScaled(b, Own(b).slope, DT), Own(b))
<1> DEFINE k == Kernel("add", <<"beta", "derivative">>, "betaNext")
<1>1. PICK m \in States : Leads(s, EvaluateStage("beta", TRUE), m) /\ Leads(m, <<k>>, u)
  <2>1. k \in Instructions
    BY KernelInstructions, RoleNames
  <2>2. IsProgram(EvaluateStage("beta", TRUE))
    BY StageIsProgram
  <2>3. ExplicitEuler = EvaluateStage("beta", TRUE) \o <<k>>
    BY DEF ExplicitEuler
  <2> HIDE DEF k
  <2> QED
    BY <2>1, <2>2, <2>3, LeadsThenOne
<1>2. /\ Terms(m) = Own(b) /\ Settled(m) /\ At(m, "derivative") = Own(b).slope
      /\ At(m, "beta") = b
  BY <1>1, FirstStageEnds
<1>3. /\ {"beta", "derivative", "betaNext"} \subseteq Names /\ "betaNext" \in Names \ Composed
  BY DEF Names, Composed
<1>4. Sets(m, u, "betaNext", AddScaled(b, Own(b).slope, DT))
  BY <1>1, <1>2, <1>3, AddSets
<1> QED
  BY <1>2, <1>4, StepEnds

\* The other stages have a flux of their own or, frozen, that of the first one.
Frozen(b, x) == StageAt(x, FluxAt(b))

LEMMA LaterStageEnds ==
    ASSUME Fronts, NEW s \in States, NEW u, NEW refresh \in BOOLEAN, NEW b, NEW x, NEW k,
           At(s, "stage") = x, Settled(s),
           IF refresh THEN k = Own(x) ELSE k = Frozen(b, x) /\ Phi(s) = FluxAt(b),
           Leads(s, EvaluateStage("stage", refresh), u)
    PROVE  /\ Terms(u) = k /\ Settled(u) /\ At(u, "derivative") = k.slope
           /\ ~refresh => Phi(u) = FluxAt(b)
           /\ Keeps(s, u, {"beta", "k1", "k2", "k3"})
<1>1. PICK phi : phi = IF refresh THEN FluxAt(x) ELSE FluxAt(b)
  OBVIOUS
<1>2. IF refresh THEN phi = FluxAt(At(s, "stage")) ELSE phi = Phi(s) /\ Settled(s)
  BY <1>1
<1>3. /\ Terms(u) = StageAt(x, phi) /\ Settled(u) /\ Phi(u) = phi
      /\ At(u, "derivative") = StageAt(x, phi).slope
      /\ Keeps(s, u, {"beta", "betaNext", "stage", "k1", "k2", "k3", "k4"})
  BY <1>2, StageEnds
<1>4. k = StageAt(x, phi)
  BY <1>1 DEF Own, Frozen
<1> QED
  BY <1>1, <1>3, <1>4 DEF Keeps

LEMMA FreshStageEnds ==
    ASSUME Fronts, NEW s \in States, NEW u, NEW x, At(s, "stage") = x,
           Leads(s, EvaluateStage("stage", TRUE), u)
    PROVE  /\ Terms(u) = Own(x) /\ Settled(u) /\ At(u, "derivative") = Own(x).slope
           /\ Keeps(s, u, {"beta", "k1", "k2", "k3"})
<1>1. /\ Terms(u) = StageAt(x, FluxAt(x)) /\ Settled(u)
      /\ At(u, "derivative") = StageAt(x, FluxAt(x)).slope
      /\ Keeps(s, u, {"beta", "betaNext", "stage", "k1", "k2", "k3", "k4"})
  BY StageEnds
<1> QED
  BY <1>1 DEF Own, Keeps

LEMMA HeunEnds ==
    ASSUME Fronts, NEW s \in States, NEW u, Leads(s, Heun, u), NEW b, b = At(s, "beta")
    PROVE  LET end == Own(AddScaled(b, Own(b).slope, DT))
           IN  Ended(u, CombineHeun(b, Own(b).slope, end.slope), end)
<1> DEFINE k == Kernel("copy", <<"derivative">>, "k1")
           l == Kernel("add", <<"beta", "k1">>, "stage")
           m == Kernel("heun", <<"beta", "k1", "derivative">>, "betaNext")
           p == EvaluateStage("beta", TRUE)
           q == EvaluateStage("stage", TRUE)
           x == AddScaled(b, Own(b).slope, DT)
           end == Own(x)
<1>1. k \in Instructions /\ l \in Instructions /\ m \in Instructions
  BY KernelInstructions, RoleNames
<1>2. /\ IsInstruction(k) /\ k.op # "ase" /\ IsInstruction(l) /\ l.op # "ase"
      /\ IsProgram(p) /\ IsProgram(q)
  BY KernelInstructions, RoleNames, UpdateInstructions, StageIsProgram
<1>3. Heun = ((p \o <<k, l>>) \o q) \o <<m>>
  BY DEF Heun
<1> HIDE DEF k, l, m, p, q, x
<1>4. IsProgram(p \o <<k, l>>)
  BY <1>1, <1>2, ThenTwo
<1>5. IsProgram((p \o <<k, l>>) \o q)
  BY <1>2, <1>4, ProgramsConcatenate
<1>6. PICK m3 \in States : Leads(s, (p \o <<k, l>>) \o q, m3) /\ Leads(m3, <<m>>, u)
  BY <1>1, <1>3, <1>5, LeadsThenOne
<1>7. PICK m2 \in States : Leads(s, p \o <<k, l>>, m2) /\ Leads(m2, q, m3)
  BY <1>2, <1>4, <1>6, LeadsThenProgram
<1>8. PICK m1 \in States : Leads(s, p, m1) /\ Leads(m1, <<k, l>>, m2)
  BY <1>1, <1>2, <1>7, LeadsThenTwo
<1>9. /\ Settled(m1) /\ At(m1, "derivative") = Own(b).slope /\ At(m1, "beta") = b
  BY <1>8, FirstStageEnds DEF p
<1>10. /\ Settled(m2) /\ At(m2, "k1") = Own(b).slope /\ At(m2, "beta") = b
       /\ At(m2, "stage") = x
  <2>1. /\ Settled(m2) /\ At(m2, "k1") = At(m1, "derivative")
        /\ At(m2, "stage") = AddScaled(At(m1, "beta"), At(m1, "derivative"),
                                       IF "add" = "add" THEN DT ELSE Half * DT)
        /\ Keeps(m1, m2, {"beta", "k1", "k2", "k3"} \ {"k1"})
    BY <1>8, <1>9, SlopeKept DEF k, l
  <2> QED
    BY <1>9, <2>1 DEF Keeps, x
<1>11. /\ Terms(m3) = end /\ Settled(m3) /\ At(m3, "derivative") = end.slope
       /\ At(m3, "k1") = Own(b).slope /\ At(m3, "beta") = b
  <2>1. /\ Terms(m3) = end /\ Settled(m3) /\ At(m3, "derivative") = end.slope
        /\ Keeps(m2, m3, {"beta", "k1", "k2", "k3"})
    BY <1>7, <1>10, FreshStageEnds DEF q
  <2> QED
    BY <1>10, <2>1 DEF Keeps
<1> HIDE DEF end
<1>12. Sets(m3, u, "betaNext", CombineHeun(b, Own(b).slope, end.slope))
  <2>1. {"beta", "k1", "derivative", "betaNext"} \subseteq Names
    BY DEF Names
  <2> QED
    BY <1>6, <1>11, <2>1, HeunSets DEF m
<1>13. Ended(u, CombineHeun(b, Own(b).slope, end.slope), end)
  BY <1>11, <1>12, StepEnds
<1> QED
  BY <1>13 DEF end, x

LEMMA MidpointEnds ==
    ASSUME Fronts, NEW s \in States, NEW u, Leads(s, Midpoint, u), NEW b, b = At(s, "beta")
    PROVE  LET middle == Own(AddScaled(b, Own(b).slope, Half * DT))
           IN  Ended(u, AddScaled(b, middle.slope, DT), middle)
<1> DEFINE k == Kernel("addHalf", <<"beta", "derivative">>, "stage")
           m == Kernel("add", <<"beta", "derivative">>, "betaNext")
           p == EvaluateStage("beta", TRUE)
           q == EvaluateStage("stage", TRUE)
           x == AddScaled(b, Own(b).slope, Half * DT)
           middle == Own(x)
<1>1. k \in Instructions /\ m \in Instructions
  BY KernelInstructions, RoleNames
<1>2. /\ IsInstruction(k) /\ k.op # "ase" /\ IsProgram(p) /\ IsProgram(q)
  BY KernelInstructions, RoleNames, UpdateInstructions, StageIsProgram
<1>3. Midpoint = ((p \o <<k>>) \o q) \o <<m>>
  BY DEF Midpoint
<1> HIDE DEF k, m, p, q, x
<1>4. IsProgram(p \o <<k>>)
  BY <1>1, <1>2, ThenOne
<1>5. IsProgram((p \o <<k>>) \o q)
  BY <1>2, <1>4, ProgramsConcatenate
<1>6. PICK m3 \in States : Leads(s, (p \o <<k>>) \o q, m3) /\ Leads(m3, <<m>>, u)
  BY <1>1, <1>3, <1>5, LeadsThenOne
<1>7. PICK m2 \in States : Leads(s, p \o <<k>>, m2) /\ Leads(m2, q, m3)
  BY <1>2, <1>4, <1>6, LeadsThenProgram
<1>8. PICK m1 \in States : Leads(s, p, m1) /\ Leads(m1, <<k>>, m2)
  BY <1>1, <1>2, <1>7, LeadsThenOne
<1>9. /\ Settled(m1) /\ At(m1, "derivative") = Own(b).slope /\ At(m1, "beta") = b
  BY <1>8, FirstStageEnds DEF p
<1>10. {"beta", "derivative", "stage", "betaNext"} \subseteq Names /\ "stage" \in Names \ Composed
  BY DEF Names, Composed
<1>11. Sets(m1, m2, "stage", x)
  <2>1. Sets(m1, m2, "stage", AddScaled(At(m1, "beta"), At(m1, "derivative"),
                                        IF "addHalf" = "add" THEN DT ELSE Half * DT))
    BY <1>8, <1>10, AddSets DEF k
  <2> QED
    BY <1>9, <2>1 DEF x
<1>12. Settled(m2) /\ At(m2, "beta") = b /\ At(m2, "stage") = x
  <2>1. (Settled(m1) => Settled(m2)) /\ At(m2, "stage") = x /\ Keeps(m1, m2, Names \ {"stage"})
    BY <1>10, <1>11, SetsKeeps
  <2> QED
    BY <1>9, <1>10, <2>1 DEF Keeps
<1>13. /\ Terms(m3) = middle /\ Settled(m3) /\ At(m3, "derivative") = middle.slope
       /\ At(m3, "beta") = b
  <2>1. /\ Terms(m3) = middle /\ Settled(m3) /\ At(m3, "derivative") = middle.slope
        /\ Keeps(m2, m3, {"beta", "k1", "k2", "k3"})
    BY <1>7, <1>12, FreshStageEnds DEF q
  <2> QED
    BY <1>12, <2>1 DEF Keeps
<1> HIDE DEF middle
<1>14. Sets(m3, u, "betaNext", AddScaled(b, middle.slope, DT))
  <2>1. Sets(m3, u, "betaNext", AddScaled(At(m3, "beta"), At(m3, "derivative"),
                                          IF "add" = "add" THEN DT ELSE Half * DT))
    BY <1>6, <1>10, AddSets DEF m
  <2> QED
    BY <1>13, <2>1
<1>15. Ended(u, AddScaled(b, middle.slope, DT), middle)
  BY <1>13, <1>14, StepEnds
<1> QED
  BY <1>15 DEF middle, x

LEMMA ExponentialEnds ==
    ASSUME Fronts, NEW s \in States, NEW u, Leads(s, ExponentialEuler, u),
           NEW b, b = At(s, "beta")
    PROVE  Ended(u, ExponentialEulerUpdate(b, Own(b).dndtPump, Own(b).dndtAse), Own(b))
<1> DEFINE k == Kernel("exponential", <<"beta", "dndtPump", "dndtAse">>, "betaNext")
<1>1. PICK m \in States : Leads(s, EvaluateStage("beta", TRUE), m) /\ Leads(m, <<k>>, u)
  <2>1. k \in Instructions
    BY KernelInstructions, RoleNames
  <2>2. IsProgram(EvaluateStage("beta", TRUE))
    BY StageIsProgram
  <2>3. ExponentialEuler = EvaluateStage("beta", TRUE) \o <<k>>
    BY DEF ExponentialEuler
  <2> HIDE DEF k
  <2> QED
    BY <2>1, <2>2, <2>3, LeadsThenOne
<1>2. /\ Terms(m) = Own(b) /\ Settled(m) /\ At(m, "beta") = b
  BY <1>1, FirstStageEnds
<1>3. At(m, "dndtPump") = Own(b).dndtPump /\ At(m, "dndtAse") = Own(b).dndtAse
  <2>1. Terms(m).dndtPump = At(m, "dndtPump") /\ Terms(m).dndtAse = At(m, "dndtAse")
    BY DEF Terms
  <2> QED
    BY <1>2, <2>1
<1>4. {"beta", "dndtPump", "dndtAse", "betaNext"} \subseteq Names
  BY DEF Names
<1>5. Sets(m, u, "betaNext", ExponentialEulerUpdate(b, Own(b).dndtPump, Own(b).dndtAse))
  BY <1>1, <1>2, <1>3, <1>4, ExponentialSets
<1> QED
  BY <1>2, <1>5, StepEnds

\* A stage of the Runge-Kutta method from m, where the population is b, and what
\* keeps its slope as o and makes the field of the next stage from it.
LEMMA RungeKuttaStage ==
    ASSUME Fronts, NEW m \in States, NEW n \in States, NEW r \in States,
           NEW refresh \in BOOLEAN, NEW b, NEW x, NEW k,
           NEW o \in {"k2", "k3"}, NEW op \in {"add", "addHalf"},
           At(m, "beta") = b, At(m, "stage") = x, Settled(m),
           IF refresh THEN k = Own(x) ELSE k = Frozen(b, x) /\ Phi(m) = FluxAt(b),
           Leads(m, EvaluateStage("stage", refresh), n),
           Leads(n, <<Kernel("copy", <<"derivative">>, o), Kernel(op, <<"beta", o>>, "stage")>>, r)
    PROVE  /\ At(r, "beta") = b /\ Settled(r) /\ At(r, o) = k.slope
           /\ At(r, "stage") = AddScaled(b, k.slope, IF op = "add" THEN DT ELSE Half * DT)
           /\ ~refresh => Phi(r) = FluxAt(b)
           /\ Keeps(m, r, {"k1", "k2", "k3"} \ {o})
<1>1. /\ Terms(n) = k /\ Settled(n) /\ At(n, "derivative") = k.slope
      /\ ~refresh => Phi(n) = FluxAt(b)
      /\ Keeps(m, n, {"beta", "k1", "k2", "k3"})
  BY LaterStageEnds
<1>2. /\ Terms(r) = Terms(n) /\ Settled(r) /\ At(r, o) = At(n, "derivative")
      /\ At(r, "stage") = AddScaled(At(n, "beta"), At(n, "derivative"),
                                    IF op = "add" THEN DT ELSE Half * DT)
      /\ Keeps(n, r, {"beta", "k1", "k2", "k3"} \ {o})
  BY <1>1, SlopeKept
<1>3. Phi(r) = Phi(n)
  <2>1. Phi(r) = Terms(r).phi /\ Phi(n) = Terms(n).phi
    BY DEF Terms
  <2> QED
    BY <1>2, <2>1
<1> QED
  BY <1>1, <1>2, <1>3 DEF Keeps

LEMMA RungeKuttaEnds ==
    ASSUME Fronts, NEW s \in States, NEW u, NEW refresh \in BOOLEAN,
           Leads(s, IntegrateRungeKutta4(refresh), u), NEW b, b = At(s, "beta"),
           NEW k1, k1 = Own(b),
           NEW x2, x2 = AddScaled(b, k1.slope, Half * DT),
           NEW k2, IF refresh THEN k2 = Own(x2) ELSE k2 = Frozen(b, x2),
           NEW x3, x3 = AddScaled(b, k2.slope, Half * DT),
           NEW k3, IF refresh THEN k3 = Own(x3) ELSE k3 = Frozen(b, x3),
           NEW x4, x4 = AddScaled(b, k3.slope, DT),
           NEW k4, IF refresh THEN k4 = Own(x4) ELSE k4 = Frozen(b, x4)
    PROVE  Ended(u, CombineRungeKutta4(b, k1.slope, k2.slope, k3.slope, k4.slope), k4)
<1> DEFINE copy(o) == Kernel("copy", <<"derivative">>, o)
           add(op, a) == Kernel(op, <<"beta", a>>, "stage")
           last == Kernel("rk4", <<"beta", "k1", "k2", "k3", "k4">>, "betaNext")
           c1 == copy("k1") c2 == copy("k2") c3 == copy("k3") c4 == copy("k4")
           a1 == add("addHalf", "k1") a2 == add("addHalf", "k2") a3 == add("add", "k3")
           p == EvaluateStage("beta", TRUE)
           q == EvaluateStage("stage", refresh)
           u1 == (p \o <<c1, a1>>) \o q
           u2 == (u1 \o <<c2, a2>>) \o q
           u3 == (u2 \o <<c3, a3>>) \o q
<1>1. /\ c1 \in Instructions /\ IsInstruction(c1) /\ c1.op # "ase"
      /\ c2 \in Instructions /\ IsInstruction(c2) /\ c2.op # "ase"
      /\ c3 \in Instructions /\ IsInstruction(c3) /\ c3.op # "ase"
      /\ c4 \in Instructions
  BY KernelInstructions, RoleNames, UpdateInstructions
<1>2. /\ a1 \in Instructions /\ IsInstruction(a1) /\ a1.op # "ase"
      /\ a2 \in Instructions /\ IsInstruction(a2) /\ a2.op # "ase"
      /\ a3 \in Instructions /\ IsInstruction(a3) /\ a3.op # "ase"
  BY KernelInstructions, RoleNames, UpdateInstructions
<1>3. last \in Instructions
  BY KernelInstructions, RoleNames
<1>4. IsProgram(p) /\ IsProgram(q)
  BY StageIsProgram
<1>5. IntegrateRungeKutta4(refresh) = u3 \o <<c4, last>>
  BY DEF IntegrateRungeKutta4
<1> HIDE DEF c1, c2, c3, c4, a1, a2, a3, last, p, q
<1>6. IsProgram(p \o <<c1, a1>>)
  BY <1>1, <1>2, <1>4, ThenTwo
<1>7. IsProgram(u1)
  BY <1>4, <1>6, ProgramsConcatenate
<1> HIDE DEF u1
<1>8. IsProgram(u1 \o <<c2, a2>>)
  BY <1>1, <1>2, <1>7, ThenTwo
<1>9. IsProgram(u2)
  BY <1>4, <1>8, ProgramsConcatenate
<1> HIDE DEF u2
<1>10. IsProgram(u2 \o <<c3, a3>>)
  BY <1>1, <1>2, <1>9, ThenTwo
<1>11. IsProgram(u3)
  BY <1>4, <1>10, ProgramsConcatenate
<1> HIDE DEF u3
<1>12. PICK m7 \in States : Leads(s, u3, m7) /\ Leads(m7, <<c4, last>>, u)
  BY <1>1, <1>3, <1>5, <1>11, LeadsThenTwo
<1>13. PICK m6 \in States : Leads(s, u2 \o <<c3, a3>>, m6) /\ Leads(m6, q, m7)
  BY <1>4, <1>10, <1>12, LeadsThenProgram DEF u3
<1>14. PICK m5 \in States : Leads(s, u2, m5) /\ Leads(m5, <<c3, a3>>, m6)
  BY <1>1, <1>2, <1>9, <1>13, LeadsThenTwo
<1>15. PICK m4 \in States : Leads(s, u1 \o <<c2, a2>>, m4) /\ Leads(m4, q, m5)
  BY <1>4, <1>8, <1>14, LeadsThenProgram DEF u2
<1>16. PICK m3 \in States : Leads(s, u1, m3) /\ Leads(m3, <<c2, a2>>, m4)
  BY <1>1, <1>2, <1>7, <1>15, LeadsThenTwo
<1>17. PICK m2 \in States : Leads(s, p \o <<c1, a1>>, m2) /\ Leads(m2, q, m3)
  BY <1>4, <1>6, <1>16, LeadsThenProgram DEF u1
<1>18. PICK m1 \in States : Leads(s, p, m1) /\ Leads(m1, <<c1, a1>>, m2)
  BY <1>1, <1>2, <1>4, <1>17, LeadsThenTwo
<1>19. /\ Settled(m1) /\ At(m1, "derivative") = k1.slope /\ At(m1, "beta") = b
       /\ Phi(m1) = FluxAt(b)
  BY <1>18, FirstStageEnds DEF p
<1>20. /\ Settled(m2) /\ At(m2, "beta") = b /\ At(m2, "k1") = k1.slope
       /\ At(m2, "stage") = x2 /\ Phi(m2) = FluxAt(b)
  <2>1. /\ Terms(m2) = Terms(m1) /\ Settled(m2)
        /\ At(m2, "k1") = At(m1, "derivative")
        /\ At(m2, "stage") = AddScaled(At(m1, "beta"), At(m1, "derivative"),
                                       IF "addHalf" = "add" THEN DT ELSE Half * DT)
        /\ Keeps(m1, m2, {"beta", "k1", "k2", "k3"} \ {"k1"})
    BY <1>18, <1>19, SlopeKept DEF c1, a1
  <2>2. Phi(m2) = Terms(m2).phi /\ Phi(m1) = Terms(m1).phi
    BY DEF Terms
  <2> QED
    BY <1>19, <2>1, <2>2 DEF Keeps
<1>21. /\ At(m4, "beta") = b /\ Settled(m4) /\ At(m4, "k2") = k2.slope
       /\ At(m4, "stage") = x3 /\ (~refresh => Phi(m4) = FluxAt(b))
       /\ At(m4, "k1") = k1.slope
  <2>1. IF refresh THEN k2 = Own(x2) ELSE k2 = Frozen(b, x2) /\ Phi(m2) = FluxAt(b)
    BY <1>20
  <2>2. /\ At(m4, "beta") = b /\ Settled(m4) /\ At(m4, "k2") = k2.slope
        /\ At(m4, "stage") = AddScaled(b, k2.slope, IF "addHalf" = "add" THEN DT ELSE Half * DT)
        /\ ~refresh => Phi(m4) = FluxAt(b)
        /\ Keeps(m2, m4, {"k1", "k2", "k3"} \ {"k2"})
    BY <1>16, <1>17, <1>20, <2>1, RungeKuttaStage DEF q, c2, a2
  <2> QED
    BY <1>20, <2>2 DEF Keeps
<1>22. /\ At(m6, "beta") = b /\ Settled(m6) /\ At(m6, "k3") = k3.slope
       /\ At(m6, "stage") = x4 /\ (~refresh => Phi(m6) = FluxAt(b))
       /\ At(m6, "k1") = k1.slope /\ At(m6, "k2") = k2.slope
  <2>1. IF refresh THEN k3 = Own(x3) ELSE k3 = Frozen(b, x3) /\ Phi(m4) = FluxAt(b)
    BY <1>21
  <2>2. /\ At(m6, "beta") = b /\ Settled(m6) /\ At(m6, "k3") = k3.slope
        /\ At(m6, "stage") = AddScaled(b, k3.slope, IF "add" = "add" THEN DT ELSE Half * DT)
        /\ ~refresh => Phi(m6) = FluxAt(b)
        /\ Keeps(m4, m6, {"k1", "k2", "k3"} \ {"k3"})
    BY <1>14, <1>15, <1>21, <2>1, RungeKuttaStage DEF q, c3, a3
  <2> QED
    BY <1>21, <2>2 DEF Keeps
<1>23. /\ Terms(m7) = k4 /\ Settled(m7) /\ At(m7, "derivative") = k4.slope
       /\ At(m7, "beta") = b /\ At(m7, "k1") = k1.slope /\ At(m7, "k2") = k2.slope
       /\ At(m7, "k3") = k3.slope
  <2>1. IF refresh THEN k4 = Own(x4) ELSE k4 = Frozen(b, x4) /\ Phi(m6) = FluxAt(b)
    BY <1>22
  <2>2. /\ Terms(m7) = k4 /\ Settled(m7) /\ At(m7, "derivative") = k4.slope
        /\ Keeps(m6, m7, {"beta", "k1", "k2", "k3"})
    BY <1>13, <1>22, <2>1, LaterStageEnds DEF q
  <2> QED
    BY <1>22, <2>2 DEF Keeps
<1>24. /\ "k4" \in Names \ Composed /\ {"betaNext", "derivative", "k4"} \subseteq Names
       /\ {"beta", "k1", "k2", "k3"} \subseteq Names \ {"k4"}
  BY DEF Names, Composed
<1>25. PICK m8 \in States : Leads(m7, <<c4>>, m8) /\ Leads(m8, <<last>>, u)
  BY <1>1, <1>3, <1>12, LeadsTwo
<1>26. /\ Terms(m8) = k4 /\ Settled(m8) /\ At(m8, "k4") = k4.slope
       /\ At(m8, "beta") = b /\ At(m8, "k1") = k1.slope /\ At(m8, "k2") = k2.slope
       /\ At(m8, "k3") = k3.slope
  <2>1. Sets(m7, m8, "k4", At(m7, "derivative"))
    BY <1>24, <1>25, CopySets DEF c4
  <2>2. /\ Terms(m8) = Terms(m7) /\ Settled(m8) /\ At(m8, "k4") = At(m7, "derivative")
        /\ Keeps(m7, m8, Names \ {"k4"})
    BY <1>23, <1>24, <2>1, SetsKeeps
  <2> QED
    BY <1>23, <1>24, <2>2 DEF Keeps
<1>27. Sets(m8, u, "betaNext",
            CombineRungeKutta4(b, k1.slope, k2.slope, k3.slope, k4.slope))
  BY <1>24, <1>25, <1>26, RungeKuttaSets DEF last
<1> QED
  BY <1>26, <1>27, StepEnds

-----------------------------------------------------------------------------
(* The implicit method, which repeats a stage.                             *)

LEMMA Least ==
    ASSUME NEW T, T \subseteq Nat, T # {}
    PROVE  \E n \in T : \A m \in T : ~(m < n)
<1> DEFINE R == OpToRel(<, Nat)
<1>1. \E x \in T : \A y \in T : ~ (<<y, x>> \in R)
  <2>1. IsWellFoundedOn(R, Nat)
    BY NatLessThanWellFounded
  <2> HIDE DEF R
  <2> QED
    BY <2>1, WFMin
<1>2. \A x, y \in Nat : y < x => <<y, x>> \in R
  BY DEF OpToRel
<1> QED
  BY <1>1, <1>2

\* The i-th instruction of the j-th of n repetitions of L.
LEMMA PlaceOf ==
    ASSUME NEW L \in 1 .. 7, NEW n \in Nat, NEW j \in 1 .. n, NEW i \in 0 .. L
    PROVE  /\ (j - 1) * L + i \in 0 .. n * L
           /\ i > 0 => /\ (j - 1) * L + i \in 1 .. n * L
                       /\ ((((j - 1) * L + i) - 1) % L) + 1 = i
           /\ j * L = (j - 1) * L + L /\ n * L \in Nat /\ j * L \in 0 .. n * L
<1>1. CASE L = 1
  BY <1>1
<1>2. CASE L = 2
  BY <1>2
<1>3. CASE L = 3
  BY <1>3
<1>4. CASE L = 4
  BY <1>4
<1>5. CASE L = 5
  BY <1>5
<1>6. CASE L = 6
  BY <1>6
<1>7. CASE L = 7
  BY <1>7
<1> QED
  BY <1>1, <1>2, <1>3, <1>4, <1>5, <1>6, <1>7

\* A repeated program leads from one state to the next.
LEMMA LeadsRepeated ==
    ASSUME NEW p \in Seq(Instructions), Len(p) \in 1 .. 7, NEW n \in Nat \ {0},
           NEW s, NEW u, Leads(s, Repeated(p, n), u)
    PROVE  \E q \in [0 .. n -> States] :
               q[0] = s /\ q[n] = u /\ \A j \in 1 .. n : Leads(q[j - 1], p, q[j])
<1> DEFINE L == Len(p)
           r == Repeated(p, n)
<1>1. n * L \in Nat /\ \A j \in 0 .. n : j * L \in 0 .. n * L
  <2>1. 0 * L = 0 /\ n * L \in Nat
    BY PlaceOf
  <2>2. \A j \in 1 .. n : j * L \in 0 .. n * L
    <3>1. 0 \in 0 .. L
      OBVIOUS
    <3> HIDE DEF L
    <3> QED
      BY <3>1, PlaceOf DEF L
  <2> QED
    BY <2>1, <2>2
<1>2. /\ \A i \in 1 .. n * L : r[i] = p[((i - 1) % L) + 1]
      /\ Len(r) = n * L
  BY <1>1 DEF Repeated
<1> HIDE DEF L, r
<1>3. PICK t \in [0 .. n * L -> States] : t[0] = s /\ t[n * L] = u /\ Steps(t, r, n * L)
  BY <1>2 DEF Leads, LeadsBy, r
<1>4. PICK q : q = [j \in 0 .. n |-> t[j * L]]
  OBVIOUS
<1>5. q \in [0 .. n -> States]
  BY <1>1, <1>3, <1>4
<1>6. q[0] = s /\ q[n] = u
  <2>1. 0 \in 0 .. n /\ n \in 0 .. n /\ 0 * L = 0
    BY DEF L
  <2> QED
    BY <1>3, <1>4, <2>1
<1>7. ASSUME NEW j \in 1 .. n
      PROVE  Leads(q[j - 1], p, q[j])
  <2> DEFINE first == (j - 1) * L
  <2>1. /\ \A i \in 0 .. L : first + i \in 0 .. n * L
        /\ \A i \in 1 .. L : /\ first + i \in 1 .. n * L
                             /\ (((first + i) - 1) % L) + 1 = i
        /\ j * L = first + L
    BY PlaceOf DEF L
  <2>2. PICK v : v = [i \in 0 .. L |-> t[first + i]]
    OBVIOUS
  <2>3. v \in [0 .. L -> States] /\ \A i \in 0 .. L : v[i] = t[first + i]
    BY <1>3, <2>1, <2>2
  <2>4. first \in Int /\ L \in 1 .. 7
    BY DEF L
  <2> HIDE DEF first
  <2>5. Steps(v, p, L)
    <3>1. ASSUME NEW i \in 1 .. L
          PROVE  v[i] = Do(v[i - 1], p[i])
      <4>1. t[first + i] = Do(t[(first + i) - 1], r[first + i])
        BY <1>3, <2>1 DEF Steps
      <4>2. r[first + i] = p[i]
        BY <1>2, <2>1
      <4>3. i \in 0 .. L /\ i - 1 \in 0 .. L /\ (first + i) - 1 = first + (i - 1)
        BY <2>4
      <4> QED
        BY <2>3, <4>1, <4>2, <4>3
    <3> QED
      BY <3>1 DEF Steps
  <2>6. v[0] = q[j - 1] /\ v[L] = q[j]
    <3>1. 0 \in 0 .. L /\ L \in 0 .. L /\ first + 0 = first /\ j - 1 \in 0 .. n /\ j \in 0 .. n
      BY <2>4
    <3> QED
      BY <1>4, <2>1, <2>3, <3>1 DEF first
  <2> QED
    BY <2>3, <2>5, <2>6 DEF Leads, LeadsBy, L
<1> QED
  BY <1>5, <1>6, <1>7

\* One iteration for the population b, from the guess at "stage".
LEMMA IterationEnds ==
    ASSUME Fronts, NEW s \in States, NEW u, NEW b, b = At(s, "beta"), NEW x, x = At(s, "stage"),
           Leads(s, EvaluateStage("stage", TRUE)
                    \o <<Kernel("add", <<"beta", "derivative">>, "betaNext"),
                         Kernel("copy", <<"betaNext">>, "stage")>>, u)
    PROVE  /\ Ended(u, AddScaled(b, Own(x).slope, DT), Own(x))
           /\ At(u, "stage") = AddScaled(b, Own(x).slope, DT)
           /\ At(u, "beta") = b
<1> DEFINE k == Kernel("add", <<"beta", "derivative">>, "betaNext")
           l == Kernel("copy", <<"betaNext">>, "stage")
           p == EvaluateStage("stage", TRUE)
           new == AddScaled(b, Own(x).slope, DT)
<1>1. k \in Instructions /\ l \in Instructions /\ IsProgram(p)
  BY KernelInstructions, RoleNames, StageIsProgram
<1> HIDE DEF k, l, p, new
<1>2. PICK m1 \in States : Leads(s, p, m1) /\ Leads(m1, <<k, l>>, u)
  BY <1>1, LeadsThenTwo DEF k, l, p
<1>3. PICK m2 \in States : Leads(m1, <<k>>, m2) /\ Leads(m2, <<l>>, u)
  BY <1>1, <1>2, LeadsTwo
<1>4. /\ Terms(m1) = Own(x) /\ Settled(m1) /\ At(m1, "derivative") = Own(x).slope
      /\ At(m1, "beta") = b
  <2>1. /\ Terms(m1) = Own(x) /\ Settled(m1) /\ At(m1, "derivative") = Own(x).slope
        /\ Keeps(s, m1, {"beta", "k1", "k2", "k3"})
    BY <1>2, FreshStageEnds DEF p
  <2> QED
    BY <2>1 DEF Keeps
<1>5. /\ {"beta", "derivative", "betaNext", "stage"} \subseteq Names
      /\ {"stage", "betaNext"} \subseteq Names \ Composed
      /\ "beta" # "betaNext" /\ "beta" # "stage" /\ "betaNext" # "stage"
  BY DEF Names, Composed
<1>6. Sets(m1, m2, "betaNext", new)
  <2>1. Sets(m1, m2, "betaNext", AddScaled(At(m1, "beta"), At(m1, "derivative"),
                                           IF "add" = "add" THEN DT ELSE Half * DT))
    BY <1>3, <1>5, AddSets DEF k
  <2> QED
    BY <1>4, <2>1 DEF new
<1>7. Ended(m2, new, Own(x)) /\ At(m2, "beta") = b
  <2>1. Ended(m2, new, Own(x))
    BY <1>4, <1>6, StepEnds
  <2>2. Keeps(m1, m2, Names \ {"betaNext"})
    BY <1>5, <1>6, SetsKeeps
  <2> QED
    BY <1>4, <1>5, <2>1, <2>2 DEF Keeps
<1>8. Sets(m2, u, "stage", new)
  BY <1>3, <1>5, <1>7, CopySets DEF l, Ended
<1>9. /\ Terms(u) = Terms(m2) /\ (Settled(m2) => Settled(u)) /\ At(u, "stage") = new
      /\ Keeps(m2, u, Names \ {"stage"})
  BY <1>5, <1>8, SetsKeeps
<1>10. Ended(u, new, Own(x)) /\ At(u, "beta") = b
  BY <1>5, <1>7, <1>9 DEF Ended, Keeps
<1> QED
  BY <1>9, <1>10 DEF new

\* The guesses of n iterations for the population b, and the terms they came from.
IsGuess(g, b, n) ==
    g = [i \in 0 .. n |->
            IF i = 0 THEN [beta |-> b, last |-> None]
            ELSE [beta |-> AddScaled(b, Own(g[i - 1].beta).slope, DT),
                  last |-> Own(g[i - 1].beta)]]

LEMMA GuessIsUnique ==
    ASSUME NEW g, NEW h, NEW b, NEW n \in Nat, IsGuess(g, b, n), IsGuess(h, b, n)
    PROVE  g = h
<1>1. /\ g[0] = [beta |-> b, last |-> None] /\ h[0] = [beta |-> b, last |-> None]
      /\ \A i \in 1 .. n :
            /\ g[i] = [beta |-> AddScaled(b, Own(g[i - 1].beta).slope, DT),
                       last |-> Own(g[i - 1].beta)]
            /\ h[i] = [beta |-> AddScaled(b, Own(h[i - 1].beta).slope, DT),
                       last |-> Own(h[i - 1].beta)]
  BY DEF IsGuess
<1>2. SUFFICES ASSUME NEW T, T = {i \in 0 .. n : g[i] # h[i]}
               PROVE  T = {}
  <2>1. \A i \in 0 .. n : g[i] = h[i]
    BY <1>2
  <2>2. /\ g = [i \in 0 .. n |-> g[i]]
        /\ h = [i \in 0 .. n |-> h[i]]
    BY DEF IsGuess
  <2>3. [i \in 0 .. n |-> g[i]] = [i \in 0 .. n |-> h[i]]
    BY <2>1
  <2> QED
    BY <2>2, <2>3
<1>3. SUFFICES ASSUME T # {} PROVE FALSE
  OBVIOUS
<1>4. PICK i \in T : \A j \in T : ~(j < i)
  BY <1>2, <1>3, Least
<1>5. i \in 0 .. n /\ g[i] # h[i] /\ \A j \in 0 .. n : j < i => g[j] = h[j]
  BY <1>2, <1>4
<1>6. i \in 1 .. n /\ i - 1 \in 0 .. n /\ i - 1 < i
  BY <1>1, <1>5
<1> QED
  BY <1>1, <1>5, <1>6

LEMMA IterationsEnd ==
    ASSUME Fronts, NEW s \in States, NEW u, NEW b, b = At(s, "beta"), NEW n \in Nat \ {0},
           Leads(s, <<Kernel("copy", <<"beta">>, "stage")>>
                    \o Repeated(EvaluateStage("stage", TRUE)
                                \o <<Kernel("add", <<"beta", "derivative">>, "betaNext"),
                                     Kernel("copy", <<"betaNext">>, "stage")>>, n), u)
    PROVE  \E g : IsGuess(g, b, n) /\ Ended(u, g[n].beta, g[n].last)
<1> DEFINE first == Kernel("copy", <<"beta">>, "stage")
           k == Kernel("add", <<"beta", "derivative">>, "betaNext")
           l == Kernel("copy", <<"betaNext">>, "stage")
           p == EvaluateStage("stage", TRUE)
           iteration == p \o <<k, l>>
<1>1. n \in Nat \ {0}
  OBVIOUS
<1>2. /\ k \in Instructions /\ IsInstruction(k) /\ k.op # "ase"
      /\ l \in Instructions /\ IsInstruction(l) /\ l.op # "ase"
      /\ first \in Instructions /\ IsInstruction(first) /\ first.op # "ase"
  BY KernelInstructions, RoleNames, UpdateInstructions
<1>3. IsProgram(p) /\ Len(p) \in 1 .. 5
  BY StageIsProgram
<1>4. Leads(s, <<first>> \o Repeated(iteration, n), u)
  OBVIOUS
<1> HIDE DEF first, k, l, p
<1>5. IsProgram(iteration) /\ Len(iteration) = Len(p) + 2
  BY <1>2, <1>3, ThenTwo
<1>6. Len(iteration) \in 1 .. 7 /\ iteration \in Seq(Instructions)
  <2>1. \A x \in 1 .. 5 : x + 2 \in 1 .. 7
    OBVIOUS
  <2> QED
    BY <1>3, <1>5, <2>1 DEF IsProgram
<1> HIDE DEF iteration
<1>7. IsProgram(Repeated(iteration, n)) /\ IsProgram(<<first>>)
  BY <1>1, <1>2, <1>5, <1>6, RepeatedIsProgram, OneInstruction
<1>8. PICK m \in States : Leads(s, <<first>>, m) /\ Leads(m, Repeated(iteration, n), u)
  BY <1>4, <1>7, LeadsThenProgram
<1>9. PICK q \in [0 .. n -> States] :
          q[0] = m /\ q[n] = u /\ \A j \in 1 .. n : Leads(q[j - 1], iteration, q[j])
  <2>1. \E q \in [0 .. n -> States] :
            q[0] = m /\ q[n] = u /\ \A j \in 1 .. n : Leads(q[j - 1], iteration, q[j])
    <3>1. iteration \in Seq(Instructions) /\ Len(iteration) \in 1 .. 7 /\ n \in Nat \ {0}
      BY <1>1, <1>6
    <3>2. Leads(m, Repeated(iteration, n), u)
      BY <1>8
    <3> QED
      BY <3>1, <3>2, LeadsRepeated
  <2> QED
    BY <2>1
<1>10. At(m, "beta") = b /\ At(m, "stage") = b
  <2>1. "beta" \in Names /\ "stage" \in Names \ Composed /\ "beta" # "stage" /\ "stage" \in Names
    BY DEF Names, Composed
  <2>2. Sets(s, m, "stage", b)
    BY <1>8, <2>1, CopySets DEF first
  <2>3. At(m, "stage") = b /\ Keeps(s, m, Names \ {"stage"})
    BY <2>1, <2>2, SetsKeeps
  <2> QED
    BY <2>1, <2>3 DEF Keeps
<1>11. ASSUME NEW j \in 1 .. n, At(q[j - 1], "beta") = b
       PROVE  LET x == At(q[j - 1], "stage")
                  new == AddScaled(b, Own(x).slope, DT)
              IN  Ended(q[j], new, Own(x)) /\ At(q[j], "stage") = new /\ At(q[j], "beta") = b
  <2>1. q[j - 1] \in States
    BY <1>1, <1>9
  <2>2. Leads(q[j - 1], p \o <<k, l>>, q[j])
    BY <1>9 DEF iteration
  <2>3. PICK v \in States : v = q[j - 1]
    BY <2>1
  <2>4. PICK x : x = At(v, "stage")
    OBVIOUS
  <2>5. /\ Ended(q[j], AddScaled(b, Own(x).slope, DT), Own(x))
        /\ At(q[j], "stage") = AddScaled(b, Own(x).slope, DT)
        /\ At(q[j], "beta") = b
    BY <1>11, <2>2, <2>3, <2>4, IterationEnds DEF p, k, l
  <2> QED
    BY <2>3, <2>4, <2>5
<1>12. \A j \in 0 .. n : At(q[j], "beta") = b
  <2> DEFINE T == {j \in 0 .. n : At(q[j], "beta") # b}
  <2>1. SUFFICES ASSUME T # {} PROVE FALSE
    OBVIOUS
  <2>2. PICK j \in T : \A i \in T : ~(i < j)
    <3>1. T \subseteq Nat /\ T # {}
      BY <1>1, <2>1
    <3> HIDE DEF T
    <3> QED
      BY <3>1, Least
  <2>3. j \in 0 .. n /\ At(q[j], "beta") # b /\ j # 0
    BY <1>9, <1>10
  <2>4. j \in 1 .. n /\ j - 1 \in 0 .. n /\ j - 1 < j
    BY <1>1, <2>3
  <2>5. At(q[j - 1], "beta") = b
    BY <2>2, <2>4
  <2> QED
    BY <1>11, <2>3, <2>4, <2>5
<1> DEFINE g == [j \in 0 .. n |-> [beta |-> At(q[j], "stage"),
                                   last |-> IF j = 0 THEN None ELSE Terms(q[j])]]
<1>13. ASSUME NEW j \in 1 .. n
       PROVE  /\ g[j] = [beta |-> AddScaled(b, Own(g[j - 1].beta).slope, DT),
                         last |-> Own(g[j - 1].beta)]
              /\ Ended(q[j], g[j].beta, g[j].last)
  <2>1. j - 1 \in 0 .. n /\ j \in 0 .. n /\ j # 0
    BY <1>1
  <2> DEFINE x == At(q[j - 1], "stage")
             new == AddScaled(b, Own(x).slope, DT)
  <2>2. Ended(q[j], new, Own(x)) /\ At(q[j], "stage") = new
    BY <1>11, <1>12, <2>1
  <2>3. g[j - 1].beta = x /\ g[j] = [beta |-> At(q[j], "stage"), last |-> Terms(q[j])]
    BY <2>1
  <2>4. Terms(q[j]) = Own(x)
    BY <2>2 DEF Ended
  <2> HIDE DEF g, x
  <2> QED
    BY <2>2, <2>3, <2>4
<1>14. g[0] = [beta |-> b, last |-> None]
  BY <1>1, <1>9, <1>10
<1>15. IsGuess(g, b, n)
  <2>1. \A j \in 0 .. n :
            g[j] = IF j = 0 THEN [beta |-> b, last |-> None]
                   ELSE [beta |-> AddScaled(b, Own(g[j - 1].beta).slope, DT),
                         last |-> Own(g[j - 1].beta)]
    <3> HIDE DEF g
    <3>1. \A j \in 0 .. n : j # 0 => j \in 1 .. n
      OBVIOUS
    <3> QED
      BY <1>13, <1>14, <3>1
  <2>2. g = [j \in 0 .. n |-> g[j]]
    OBVIOUS
  <2> HIDE DEF g
  <2> QED
    BY <2>1, <2>2 DEF IsGuess
<1>16. Ended(u, g[n].beta, g[n].last)
  <2> HIDE DEF g
  <2>1. n \in 1 .. n
    BY <1>1
  <2> QED
    BY <1>9, <1>13, <2>1
<1> HIDE DEF g
<1> QED
  BY <1>15, <1>16

LEMMA ImplicitEnds ==
    ASSUME Fronts, NEW s \in States, NEW u, Leads(s, IntegrateImplicitEuler, u),
           NEW b, b = At(s, "beta"), run.iterations \in Nat,
           NEW n, n = IF run.iterations = 0 THEN 1 ELSE run.iterations
    PROVE  \E g : IsGuess(g, b, n) /\ Ended(u, g[n].beta, g[n].last)
<1>1. n \in Nat \ {0}
  OBVIOUS
<1> QED
  BY <1>1, IterationsEnd DEF IntegrateImplicitEuler

-----------------------------------------------------------------------------
(* A step is what BetaEvolution integrates.                                *)

Integrated(b) == Evolution!Integrate(b, PumpEnabled, AseEnabled)

LEMMA StageIs ==
    ASSUME NEW b, NEW phi
    PROVE  Evolution!Stage(b, phi, PumpEnabled) = StageAt(b, phi)
  BY DEF Evolution!Stage, StageAt, Evolution!PumpTerm, PumpTerm, Evolution!AseTerm, AseTerm,
     Evolution!Derivative, Derivative

LEMMA KernelsAre ==
    ASSUME NEW a, NEW b, NEW c, NEW d, NEW e
    PROVE  /\ Evolution!AddScaled(a, b, c) = AddScaled(a, b, c)
           /\ Evolution!CombineHeun(a, b, c) = CombineHeun(a, b, c)
           /\ Evolution!CombineRungeKutta4(a, b, c, d, e) = CombineRungeKutta4(a, b, c, d, e)
           /\ Evolution!ExponentialEulerUpdate(a, b, c) = ExponentialEulerUpdate(a, b, c)
           /\ Evolution!ClipBeta(a) = ClipBeta(a)
           /\ Evolution!Zero = Zero
  BY DEF Evolution!AddScaled, AddScaled, Evolution!CombineHeun, CombineHeun,
     Evolution!CombineRungeKutta4, CombineRungeKutta4, Evolution!ExponentialEulerUpdate,
     ExponentialEulerUpdate, Evolution!ClipBeta, ClipBeta, Evolution!Zero, Zero,
     Evolution!Each, Each

LEMMA OwnIs ==
    ASSUME NEW b
    PROVE  Evolution!Stage(b, IF AseEnabled THEN AseFlux(b, b) ELSE Evolution!Zero, PumpEnabled)
               = Own(b)
  BY StageIs, KernelsAre DEF Own, FluxAt

LEMMA FrozenIs ==
    ASSUME NEW b, NEW x
    PROVE  Evolution!Stage(x, IF AseEnabled THEN AseFlux(b, b) ELSE Evolution!Zero, PumpEnabled)
               = Frozen(b, x)
  BY StageIs, KernelsAre DEF Frozen, FluxAt

LEMMA SimpleMethods ==
    ASSUME NEW b
    PROVE  /\ run.method = "explicit-euler" =>
                  Integrated(b) = [beta |-> AddScaled(b, Own(b).slope, DT), last |-> Own(b)]
           /\ run.method = "heun" =>
                  LET end == Own(AddScaled(b, Own(b).slope, DT))
                  IN  Integrated(b) = [beta |-> CombineHeun(b, Own(b).slope, end.slope), last |-> end]
           /\ run.method = "midpoint" =>
                  LET middle == Own(AddScaled(b, Own(b).slope, Half * DT))
                  IN  Integrated(b) = [beta |-> AddScaled(b, middle.slope, DT), last |-> middle]
           /\ run.method = "exponential-euler" =>
                  Integrated(b) = [beta |-> ExponentialEulerUpdate(b, Own(b).dndtPump, Own(b).dndtAse),
                                   last |-> Own(b)]
  BY OwnIs, KernelsAre DEF Integrated, Evolution!Integrate

LEMMA RungeKuttaMethods ==
    ASSUME NEW b, NEW refresh \in BOOLEAN,
           run.method = (IF refresh THEN "runge-kutta-4" ELSE "frozen-phi-ase-runge-kutta-4"),
           NEW k1, k1 = Own(b),
           NEW x2, x2 = AddScaled(b, k1.slope, Half * DT),
           NEW k2, IF refresh THEN k2 = Own(x2) ELSE k2 = Frozen(b, x2),
           NEW x3, x3 = AddScaled(b, k2.slope, Half * DT),
           NEW k3, IF refresh THEN k3 = Own(x3) ELSE k3 = Frozen(b, x3),
           NEW x4, x4 = AddScaled(b, k3.slope, DT),
           NEW k4, IF refresh THEN k4 = Own(x4) ELSE k4 = Frozen(b, x4)
    PROVE  Integrated(b) =
               [beta |-> CombineRungeKutta4(b, k1.slope, k2.slope, k3.slope, k4.slope), last |-> k4]
<1>1. CASE refresh
  BY <1>1, OwnIs, KernelsAre DEF Integrated, Evolution!Integrate, Evolution!RungeKutta4
<1>2. CASE ~refresh
  BY <1>2, OwnIs, FrozenIs, KernelsAre DEF Integrated, Evolution!Integrate, Evolution!RungeKutta4
<1> QED
  BY <1>1, <1>2

LEMMA ImplicitMethod ==
    ASSUME NEW b, run.method = "implicit-euler", run.iterations \in Nat,
           NEW n, n = (IF run.iterations = 0 THEN 1 ELSE run.iterations),
           NEW g, IsGuess(g, b, n)
    PROVE  Integrated(b) = g[n]
<1> DEFINE N == IF run.iterations = 0 THEN 1 ELSE run.iterations
           stage(x) == Evolution!Stage(x, IF AseEnabled THEN AseFlux(x, x) ELSE Evolution!Zero,
                                       PumpEnabled)
           raw(h) == [i \in 0 .. N |->
                         IF i = 0 THEN [beta |-> b, last |-> None]
                         ELSE [beta |-> Evolution!AddScaled(b, stage(h[i - 1].beta).slope, DT),
                               last |-> stage(h[i - 1].beta)]]
           G == CHOOSE h : h = raw(h)
<1>1. Integrated(b) = G[N]
  BY DEF Integrated, Evolution!Integrate, Evolution!Implicit, None, Evolution!None
<1>2. ASSUME NEW h
      PROVE  IsGuess(h, b, n) <=> h = raw(h)
  <2>1. \A x : stage(x) = Own(x)
    BY OwnIs
  <2>2. \A x : Evolution!AddScaled(b, x, DT) = AddScaled(b, x, DT)
    BY KernelsAre
  <2> HIDE DEF stage
  <2> QED
    BY <2>1, <2>2 DEF IsGuess
<1> HIDE DEF raw
<1>3. G = raw(G)
  BY <1>2
<1>4. IsGuess(G, b, n)
  BY <1>2, <1>3
<1>5. n \in Nat
  OBVIOUS
<1> HIDE DEF G
<1>6. G = g
  BY <1>4, <1>5, GuessIsUnique
<1> QED
  BY <1>1, <1>6

LEMMA RungeKuttaIntegrates ==
    ASSUME Fronts, NEW s \in States, NEW u, NEW b, b = At(s, "beta"), NEW refresh \in BOOLEAN,
           run.method = (IF refresh THEN "runge-kutta-4" ELSE "frozen-phi-ase-runge-kutta-4"),
           Leads(s, IntegrateRungeKutta4(refresh), u)
    PROVE  Ended(u, Integrated(b).beta, Integrated(b).last)
<1>1. \A x : \E k : IF refresh THEN k = Own(x) ELSE k = Frozen(b, x)
  OBVIOUS
<1>2. PICK k1 : k1 = Own(b)
  OBVIOUS
<1>3. PICK x2 : x2 = AddScaled(b, k1.slope, Half * DT)
  OBVIOUS
<1>4. PICK k2 : IF refresh THEN k2 = Own(x2) ELSE k2 = Frozen(b, x2)
  BY <1>1
<1>5. PICK x3 : x3 = AddScaled(b, k2.slope, Half * DT)
  OBVIOUS
<1>6. PICK k3 : IF refresh THEN k3 = Own(x3) ELSE k3 = Frozen(b, x3)
  BY <1>1
<1>7. PICK x4 : x4 = AddScaled(b, k3.slope, DT)
  OBVIOUS
<1>8. PICK k4 : IF refresh THEN k4 = Own(x4) ELSE k4 = Frozen(b, x4)
  BY <1>1
<1>9. Ended(u, CombineRungeKutta4(b, k1.slope, k2.slope, k3.slope, k4.slope), k4)
  BY <1>2, <1>3, <1>4, <1>5, <1>6, <1>7, <1>8, RungeKuttaEnds
<1>10. Integrated(b) =
           [beta |-> CombineRungeKutta4(b, k1.slope, k2.slope, k3.slope, k4.slope), last |-> k4]
  BY <1>2, <1>3, <1>4, <1>5, <1>6, <1>7, <1>8, RungeKuttaMethods
<1> QED
  BY <1>9, <1>10

\* The method of a run, as the host executes it.
LEMMA MethodIntegrates ==
    ASSUME Fronts, NEW s \in States, NEW u, NEW b, b = At(s, "beta"), run \in Runs, Runnable,
           NEW p,
           p = CASE run.method = "explicit-euler" -> ExplicitEuler
                 [] run.method = "heun" -> Heun
                 [] run.method = "midpoint" -> Midpoint
                 [] run.method = "runge-kutta-4" -> IntegrateRungeKutta4(TRUE)
                 [] run.method = "frozen-phi-ase-runge-kutta-4" -> IntegrateRungeKutta4(FALSE)
                 [] run.method = "implicit-euler" -> IntegrateImplicitEuler
                 [] run.method = "exponential-euler" -> ExponentialEuler,
           Leads(s, p, u)
    PROVE  Ended(u, Integrated(b).beta, Integrated(b).last)
<1>1. run.iterations \in Nat /\ run.method \in Methods \ {"unsupported"}
  BY RunsAssumption DEF ValidRun, Runnable
<1>2. CASE run.method = "explicit-euler"
  <2>1. p = ExplicitEuler
    BY <1>2
  <2>2. Ended(u, AddScaled(b, Own(b).slope, DT), Own(b))
    BY <2>1, EulerEnds
  <2> QED
    BY <1>2, <2>2, SimpleMethods
<1>3. CASE run.method = "heun"
  <2> DEFINE end == Own(AddScaled(b, Own(b).slope, DT))
  <2>1. p = Heun
    BY <1>3
  <2>2. Ended(u, CombineHeun(b, Own(b).slope, end.slope), end)
    BY <2>1, HeunEnds
  <2>3. Integrated(b) = [beta |-> CombineHeun(b, Own(b).slope, end.slope), last |-> end]
    BY <1>3, SimpleMethods
  <2> HIDE DEF end
  <2> QED
    BY <2>2, <2>3
<1>4. CASE run.method = "midpoint"
  <2> DEFINE middle == Own(AddScaled(b, Own(b).slope, Half * DT))
  <2>1. p = Midpoint
    BY <1>4
  <2>2. Ended(u, AddScaled(b, middle.slope, DT), middle)
    BY <2>1, MidpointEnds
  <2>3. Integrated(b) = [beta |-> AddScaled(b, middle.slope, DT), last |-> middle]
    BY <1>4, SimpleMethods
  <2> HIDE DEF middle
  <2> QED
    BY <2>2, <2>3
<1>5. CASE run.method = "exponential-euler"
  <2>1. p = ExponentialEuler
    BY <1>5
  <2>2. Ended(u, ExponentialEulerUpdate(b, Own(b).dndtPump, Own(b).dndtAse), Own(b))
    BY <2>1, ExponentialEnds
  <2> QED
    BY <1>5, <2>2, SimpleMethods
<1>6. ASSUME NEW refresh \in BOOLEAN, p = IntegrateRungeKutta4(refresh),
             run.method = (IF refresh THEN "runge-kutta-4" ELSE "frozen-phi-ase-runge-kutta-4")
      PROVE  Ended(u, Integrated(b).beta, Integrated(b).last)
  BY <1>6, RungeKuttaIntegrates
<1>7. CASE run.method = "runge-kutta-4"
  <2>1. p = IntegrateRungeKutta4(TRUE)
    BY <1>7
  <2> QED
    BY <1>6, <1>7, <2>1
<1>8. CASE run.method = "frozen-phi-ase-runge-kutta-4"
  <2>1. p = IntegrateRungeKutta4(FALSE)
    BY <1>8
  <2> QED
    BY <1>6, <1>8, <2>1
<1>9. CASE run.method = "implicit-euler"
  <2>1. p = IntegrateImplicitEuler
    BY <1>9
  <2>2. PICK n : n = IF run.iterations = 0 THEN 1 ELSE run.iterations
    OBVIOUS
  <2>3. PICK g : IsGuess(g, b, n) /\ Ended(u, g[n].beta, g[n].last)
    BY <1>1, <2>1, <2>2, ImplicitEnds
  <2>4. Integrated(b) = g[n]
    BY <1>1, <1>9, <2>2, <2>3, ImplicitMethod
  <2> QED
    BY <2>3, <2>4
<1> QED
  BY <1>1, <1>2, <1>3, <1>4, <1>5, <1>7, <1>8, <1>9 DEF Methods

LEMMA StepIntegrates ==
    ASSUME Fronts, NEW s \in States, NEW u, NEW b, b = At(s, "beta"), run \in Runs, Runnable,
           Leads(s, AdvanceTimeStep, u)
    PROVE  Ended(u, ClipBeta(Integrated(b).beta), Integrated(b).last)
<1> DEFINE clip == Kernel("clip", <<"betaNext">>, "betaNext")
<1>1. PICK p : p = CASE run.method = "explicit-euler" -> ExplicitEuler
                     [] run.method = "heun" -> Heun
                     [] run.method = "midpoint" -> Midpoint
                     [] run.method = "runge-kutta-4" -> IntegrateRungeKutta4(TRUE)
                     [] run.method = "frozen-phi-ase-runge-kutta-4" -> IntegrateRungeKutta4(FALSE)
                     [] run.method = "implicit-euler" -> IntegrateImplicitEuler
                     [] run.method = "exponential-euler" -> ExponentialEuler
  OBVIOUS
<1>2. run.iterations \in Nat /\ run.method \in Methods \ {"unsupported"}
  BY RunsAssumption DEF ValidRun, Runnable
<1>3. p \in {ExplicitEuler, Heun, Midpoint, IntegrateRungeKutta4(TRUE),
             IntegrateRungeKutta4(FALSE), IntegrateImplicitEuler, ExponentialEuler}
  BY <1>1, <1>2 DEF Methods
<1>4. IsProgram(p)
  BY <1>2, <1>3, ExplicitEulerIsProgram, HeunIsProgram, MidpointIsProgram,
     RungeKuttaIsProgram, ImplicitEulerIsProgram, ExponentialEulerIsProgram
<1>5. AdvanceTimeStep = p \o <<clip>>
  BY <1>1 DEF AdvanceTimeStep
<1>6. clip \in Instructions
  BY KernelInstructions, RoleNames
<1> HIDE DEF clip
<1>7. PICK m \in States : Leads(s, p, m) /\ Leads(m, <<clip>>, u)
  BY <1>4, <1>5, <1>6, LeadsThenOne
<1>8. Ended(m, Integrated(b).beta, Integrated(b).last)
  BY <1>1, <1>7, MethodIntegrates
<1>9. "betaNext" \in Names
  BY DEF Names
<1>10. Sets(m, u, "betaNext", ClipBeta(Integrated(b).beta))
  BY <1>7, <1>8, <1>9, ClipSets DEF clip, Ended
<1> QED
  BY <1>8, <1>10, StepEnds DEF Ended

-----------------------------------------------------------------------------
(* Where the host is in its step.                                          *)

\* The host has executed the first instructions of the step, and the population
\* it started from is still there.
Underway ==
    pc = "advance" /\ Runnable =>
        \E s \in States : /\ At(s, "beta") = blocking[front]
                         /\ LeadsBy(s, AdvanceTimeStep, at - 1, Now)

\* What a snapshot takes for the flux is the flux.
Reported == pc = "output" => Settled(Now)

\* The entries of the schedule before the cursor have been dealt with, the others
\* have not.
Schedule ==
    pc \in {"advance", "output", "control", "leave"} =>
        \A i \in 1 .. Len(run.outputSteps) :
            IF i < cursor
            THEN run.outputSteps[i] < step \/ (pc # "output" /\ run.outputSteps[i] = step)
            ELSE run.outputSteps[i] > step \/ (pc = "output" /\ run.outputSteps[i] = step)

EvolutionInv == StepInv /\ Underway /\ Reported /\ Schedule

LEMMA DoStays ==
    ASSUME front' = front, vector' = vector, NEW s, NEW k
    PROVE  Do(s, k)' = Do(s, k)
<1>1. \A name : PlaceIn(s, name)' = PlaceIn(s, name)
  BY DEF PlaceIn, Other
<1>2. Placed(s, k)' = Placed(s, k)
  BY <1>1 DEF Placed, Kernel
<1>3. \A l, x : Written(l, x)' = Written(l, x)
  BY DEF Written
<1>4. \A b, x, on : Compose(b, x, on)' = Compose(b, x, on)
  BY DEF Compose
<1>5. \A b, l : Execute(b, l)' = Execute(b, l)
  BY <1>3, <1>4 DEF Execute
<1>6. Computed(s, k)' = Computed(s, k)
  BY <1>2, <1>5 DEF Computed
<1>7. \A from : Evaluated(s, from)' = Evaluated(s, from)
  BY DEF Evaluated
<1> QED
  BY <1>1, <1>6, <1>7 DEF Do

LEMMA LeadsStays ==
    ASSUME front' = front, vector' = vector, run' = run, step' = step,
           NEW s, NEW n, NEW u, LeadsBy(s, AdvanceTimeStep, n, u)
    PROVE  LeadsBy(s, AdvanceTimeStep, n, u)'
<1>1. PICK t \in [0 .. n -> States] : t[0] = s /\ t[n] = u /\ Steps(t, AdvanceTimeStep, n)
  BY DEF LeadsBy
<1>2. AdvanceTimeStep' = AdvanceTimeStep
  BY StepStays
<1>3. \A v, k : Do(v, k)' = Do(v, k)
  BY DoStays
<1>4. Steps(t, AdvanceTimeStep, n)'
  BY <1>1, <1>2, <1>3 DEF Steps
<1> QED
  BY <1>1, <1>4 DEF LeadsBy

LEMMA NowIsState == ASSUME QueueInv PROVE Now \in States
  BY DEF QueueInv, Types, TypeOK, Now, States

\* A step starts where the host is.
LEMMA Starts ==
    ASSUME QueueInv, at = 1
    PROVE  Underway
<1>1. Now \in States
  BY NowIsState
<1>2. LeadsBy(Now, AdvanceTimeStep, at - 1, Now)
  BY <1>1, LeadsNowhere
<1>3. At(Now, "beta") = blocking[front]
  BY DEF At, Now, Seat
<1> QED
  BY <1>1, <1>2, <1>3 DEF Underway

\* The host executes its instruction.
LEMMA Proceeds ==
    ASSUME QueueInv, Underway, QueueInv', pc = "advance", Runnable, at <= Len(AdvanceTimeStep),
           Now' = Do(Now, Instruction), blocking'[front] = blocking[front], at' = at + 1,
           UNCHANGED <<run, step, front, vector>>
    PROVE  Underway'
<1>1. PICK s \in States : /\ At(s, "beta") = blocking[front]
                          /\ LeadsBy(s, AdvanceTimeStep, at - 1, Now)
  BY DEF Underway
<1>2. at \in Nat \ {0}
  BY DEF QueueInv, Types, TypeOK
<1>3. Now' \in States
  BY DEF QueueInv, Types, TypeOK, Now, States
<1>4. LeadsBy(s, AdvanceTimeStep, at, Now')
  <2>1. at - 1 \in Nat /\ (at - 1) + 1 = at
    BY <1>2
  <2>2. Now' = Do(Now, AdvanceTimeStep[(at - 1) + 1])
    BY <2>1 DEF Instruction
  <2>3. LeadsBy(s, AdvanceTimeStep, (at - 1) + 1, Do(Now, AdvanceTimeStep[(at - 1) + 1]))
    BY <1>1, <1>3, <2>1, <2>2, LeadsFurther
  <2> QED
    BY <2>1, <2>2, <2>3
<1>5. PICK u, n : u = Now' /\ n = at
  OBVIOUS
<1>6. LeadsBy(s, AdvanceTimeStep, n, u)'
  <2>1. LeadsBy(s, AdvanceTimeStep, n, u)
    BY <1>4, <1>5
  <2> QED
    BY <2>1, LeadsStays
<1>7. at' - 1 = n
  BY <1>2, <1>5
<1>8. LeadsBy(s, AdvanceTimeStep, at - 1, Now)'
  BY <1>5, <1>6, <1>7 DEF LeadsBy, Steps
<1>9. At(s, "beta")' = blocking'[front']
  BY <1>1 DEF At, Seat
<1> QED
  BY <1>8, <1>9 DEF Underway, States

LEMMA StartsAgain ==
    ASSUME QueueInv', at' = 1
    PROVE  Underway'
<1>1. PICK u : u = Now'
  OBVIOUS
<1>2. u \in States
  BY <1>1 DEF QueueInv, Types, TypeOK, Now, States
<1>3. PICK t : t = [i \in 0 .. 0 |-> u]
  OBVIOUS
<1>4. t \in [0 .. 0 -> States] /\ t[0] = u
  BY <1>2, <1>3
<1>5. LeadsBy(u, AdvanceTimeStep, 0, u)'
  BY <1>4 DEF LeadsBy, Steps
<1>6. LeadsBy(u, AdvanceTimeStep, at - 1, Now)'
  BY <1>1, <1>5 DEF LeadsBy, Steps
<1>7. At(u, "beta")' = blocking'[front']
  BY <1>1 DEF At, Now, Seat
<1> QED
  BY <1>2, <1>6, <1>7 DEF Underway, States

\* The device works off its queue, or the evaluation proceeds.
LEMMA UnderwayStays ==
    ASSUME Underway, UNCHANGED <<run, pc, step, at, front, resident, vector, blocking>>
    PROVE  Underway'
<1>1. SUFFICES ASSUME pc = "advance", Runnable
               PROVE  \E s \in States : /\ At(s, "beta")' = blocking'[front']
                                       /\ LeadsBy(s, AdvanceTimeStep, at - 1, Now)'
  BY DEF Underway, States, Runnable
<1>2. PICK s \in States : /\ At(s, "beta") = blocking[front]
                          /\ LeadsBy(s, AdvanceTimeStep, at - 1, Now)
  BY <1>1 DEF Underway
<1>3. PICK u, n : u = Now /\ n = at - 1
  OBVIOUS
<1>4. LeadsBy(s, AdvanceTimeStep, n, u)'
  <2>1. LeadsBy(s, AdvanceTimeStep, n, u)
    BY <1>2, <1>3
  <2> QED
    BY <2>1, LeadsStays
<1>5. Now' = u /\ at' - 1 = n
  BY <1>3 DEF Now
<1>6. LeadsBy(s, AdvanceTimeStep, at - 1, Now)'
  BY <1>4, <1>5 DEF LeadsBy, Steps
<1>7. At(s, "beta")' = blocking'[front']
  BY <1>2 DEF At, Seat
<1> QED
  BY <1>6, <1>7

\* What the host enqueues.
LEMMA EnqueueDoes ==
    ASSUME QueueInv, Enqueue
    PROVE  Now' = Do(Now, Instruction) /\ blocking'[front] = blocking[front]
<1> DEFINE k == Instruction
<1>1. /\ k.op \notin {"wait", "ase"} /\ blocking' = Execute(blocking, InOrder(k))
      /\ resident' = (resident /\ k.op # "fill")
  BY DEF Enqueue
<1>2. k \in Instructions /\ IsInstruction(k)
  BY InstructionIs DEF QueueInv, Types, TypeOK, Enqueue
<1>3. front \in {"betaA", "betaB"} /\ blocking \in [Buffers -> Field]
  BY DEF QueueInv, Types, TypeOK
<1> HIDE DEF k
<1>4. \A name : PlaceIn(Now, name) = BufferOf(name)
  BY DEF PlaceIn, BufferOf, Now
<1>5. Placed(Now, k) = InOrder(k)
  BY <1>4 DEF Placed, InOrder
<1>6. Now' = Do(Now, k)
  BY <1>1, <1>5 DEF Do, Computed, Now
<1>7. IsQueued(InOrder(k))
  BY <1>1, <1>2, <1>3, InOrderQueued
<1>8. InOrder(k).out # front
  <2>1. k.out \in Targets
    BY <1>1, <1>2 DEF IsInstruction
  <2>2. BufferOf(k.out) # front
    BY <1>3, <2>1 DEF Targets, BufferOf, Other
  <2> QED
    BY <2>2 DEF InOrder, Kernel
<1>9. front \in Buffers \ {"dndtPump", "dndtAse", "derivative"}
  BY <1>3 DEF Buffers
<1>10. Execute(blocking, InOrder(k))[front] = blocking[front]
  BY <1>3, <1>7, <1>8, <1>9, ExecuteKeeps
<1> QED
  BY <1>1, <1>6, <1>10 DEF k

LEMMA AseEndDoes ==
    ASSUME QueueInv, AseEnd
    PROVE  /\ Now' = Do(Now, Instruction) /\ blocking'[front] = blocking[front]
           /\ pc = "advance" /\ Runnable /\ at <= Len(AdvanceTimeStep)
<1>1. /\ ase # None /\ AtInstruction("ase") /\ ase.from = BufferOf(Instruction.in[1])
  BY DEF AseEnd, QueueInv, HostAt
<1>2. /\ blocking' = [blocking EXCEPT !.volumePhi = AseFlux(blocking[ase.from], blocking[ase.from])]
      /\ resident' = TRUE
  BY DEF AseEnd
<1>3. front \in {"betaA", "betaB"} /\ blocking \in [Buffers -> Field]
  BY DEF QueueInv, Types, TypeOK
<1>4. PlaceIn(Now, Instruction.in[1]) = ase.from
  BY <1>1 DEF PlaceIn, BufferOf, Now
<1>5. Instruction.op = "ase"
  BY <1>1 DEF AtInstruction
<1>6. Now' = Do(Now, Instruction)
  BY <1>2, <1>4, <1>5 DEF Do, Evaluated, Now
<1>7. blocking'[front] = blocking[front]
  BY <1>2, <1>3 DEF Buffers
<1> QED
  BY <1>1, <1>6, <1>7 DEF AtInstruction

LEMMA UnderwayStep ==
    ASSUME QueueInv, Underway, Next, QueueInv'
    PROVE  Underway'
<1>1. CASE Enqueue
  BY <1>1, EnqueueDoes, Proceeds DEF Enqueue, aseVars
<1>2. CASE Wait
  <2>1. Now' = Do(Now, Instruction)
    BY <1>2 DEF Wait, AtInstruction, Do, Now
  <2> QED
    BY <1>2, <2>1, Proceeds DEF Wait, AtInstruction
<1>3. CASE AseEnd
  BY <1>3, AseEndDoes, Proceeds DEF AseEnd
<1>4. CASE AseBegin \/ DownloadBeta \/ RefreshMeshes \/ DeviceRun \/ Rest
  BY <1>4, UnderwayStays DEF AseBegin, DownloadBeta, RefreshMeshes, DeviceRun, Rest, host, vars
<1>5. CASE AseFails \/ NotRunnable \/ CompleteStep \/ ReceiveControl \/ ControlFails
  <2>1. pc' # "advance"
    BY <1>5 DEF AseFails, NotRunnable, CompleteStep, ReceiveControl, ControlFails
  <2> QED
    BY <2>1 DEF Underway
<1>6. CASE Output \/ SkipOutput
  <2>1. at' = 1
    BY <1>6 DEF Output, SkipOutput
  <2> QED
    BY <2>1, StartsAgain
<1>7. CASE LeaveBlock
  <2>1. at' = 1
    BY <1>7 DEF LeaveBlock, QueueInv, HostAt
  <2> QED
    BY <2>1, StartsAgain
<1> QED
  BY <1>1, <1>2, <1>3, <1>4, <1>5, <1>6, <1>7 DEF Next

\* All instructions of the step are executed, and it is what was to be integrated.
LEMMA CompleteStepDoes ==
    ASSUME QueueInv, Underway, CompleteStep
    PROVE  /\ blocking[Other(front)] = ClipBeta(Integrated(blocking[front]).beta)
           /\ Terms(Now) = Integrated(blocking[front]).last
           /\ Settled(Now)
<1>1. pc = "advance" /\ Runnable /\ at > Len(AdvanceTimeStep)
  BY DEF CompleteStep
<1>2. Fronts /\ run \in Runs /\ at \in Nat
  BY DEF QueueInv, Types, TypeOK, Fronts
<1>3. at - 1 = Len(AdvanceTimeStep)
  <2>1. at <= Len(AdvanceTimeStep) + 1
    BY <1>1 DEF QueueInv, HostAt
  <2>2. Len(AdvanceTimeStep) \in Nat
    BY <1>1, <1>2, LengthOfStep
  <2> QED
    BY <1>1, <1>2, <2>1, <2>2
<1>4. PICK s \in States : /\ At(s, "beta") = blocking[front]
                          /\ Leads(s, AdvanceTimeStep, Now)
  BY <1>1, <1>3 DEF Underway, Leads
<1>5. PICK b : b = At(s, "beta")
  OBVIOUS
<1>6. Ended(Now, ClipBeta(Integrated(b).beta), Integrated(b).last)
  BY <1>1, <1>2, <1>4, <1>5, StepIntegrates
<1>7. At(Now, "betaNext") = blocking[Other(front)]
  BY DEF At, Seat, Now
<1> QED
  BY <1>4, <1>5, <1>6, <1>7 DEF Ended

LEMMA ReportedStep ==
    ASSUME QueueInv, Underway, Reported, Next
    PROVE  Reported'
<1>1. CASE CompleteStep
  <2>1. Settled(Now)
    BY <1>1, CompleteStepDoes
  <2>2. UNCHANGED <<resident, blocking>>
    BY <1>1 DEF CompleteStep
  <2> QED
    BY <2>1, <2>2 DEF Reported, Settled, Phi, Now
<1>2. CASE Rest \/ DeviceRun
  <2>1. UNCHANGED <<pc, resident, blocking>>
    BY <1>2 DEF Rest, DeviceRun, vars, host
  <2> QED
    BY <2>1 DEF Reported, Settled, Phi, Now
<1>3. CASE Enqueue \/ Wait \/ AseBegin \/ DownloadBeta \/ RefreshMeshes \/ AseEnd
  <2>1. pc = "advance" /\ pc' = pc
    BY <1>3, EvaluatedBuffer
       DEF Enqueue, Wait, AseBegin, DownloadBeta, RefreshMeshes, AseEnd, AtInstruction, host
  <2> QED
    BY <2>1 DEF Reported
<1>4. CASE AseFails \/ NotRunnable \/ Output \/ SkipOutput \/ ReceiveControl \/ ControlFails
           \/ LeaveBlock
  <2>1. pc' # "output"
    BY <1>4 DEF AseFails, NotRunnable, Output, SkipOutput, ReceiveControl, ControlFails,
       LeaveBlock, AfterOutput
  <2> QED
    BY <2>1 DEF Reported
<1> QED
  BY <1>1, <1>2, <1>3, <1>4 DEF Next

\* No kernel writes the flux, so that it is where the evaluation has put it.
LEMMA FluxArrived ==
    ASSUME StepInv
    PROVE  blocking["volumePhi"] = buf["volumePhi"]
<1>1. PICK t \in [0 .. Len(queue) -> [Buffers -> Field]] : Trace(t)
  BY DEF StepInv, Pending
<1>2. /\ Len(queue) \in Nat /\ DOMAIN queue = 1 .. Len(queue)
      /\ \A i \in 1 .. Len(queue) : IsQueued(queue[i])
  BY DEF StepInv, QueueInv, Types
<1>3. "volumePhi" \in Buffers \ {"dndtPump", "dndtAse", "derivative"}
  BY DEF Buffers
<1> DEFINE T == {i \in 0 .. Len(queue) : t[i]["volumePhi"] # buf["volumePhi"]}
<1>4. T = {}
  <2>1. SUFFICES ASSUME T # {} PROVE FALSE
    OBVIOUS
  <2>2. PICK i \in T : \A j \in T : ~(j < i)
    <3>1. T \subseteq Nat /\ T # {}
      BY <1>2, <2>1
    <3> HIDE DEF T
    <3> QED
      BY <3>1, Least
  <2>3. i \in 0 .. Len(queue) /\ t[i]["volumePhi"] # buf["volumePhi"] /\ i # 0
    BY <1>1 DEF Trace
  <2>4. i \in 1 .. Len(queue) /\ i - 1 \in 0 .. Len(queue) /\ i - 1 < i
    BY <1>2, <2>3
  <2>5. t[i - 1]["volumePhi"] = buf["volumePhi"]
    BY <2>2, <2>4
  <2>6. t[i] = Execute(t[i - 1], queue[i])
    BY <1>1, <2>4 DEF Trace
  <2>7. Execute(t[i - 1], queue[i])["volumePhi"] = t[i - 1]["volumePhi"]
    <3>1. queue[i].out # "volumePhi" /\ IsQueued(queue[i]) /\ t[i - 1] \in [Buffers -> Field]
      BY <1>1, <1>2, <2>4, QueuedOut
    <3> QED
      BY <1>3, <3>1, ExecuteKeeps
  <2> QED
    BY <2>3, <2>5, <2>6, <2>7
<1>5. Len(queue) \notin T
  BY <1>4
<1> QED
  BY <1>1, <1>2, <1>5 DEF Trace

-----------------------------------------------------------------------------
(* The schedule.                                                           *)

LEMMA Increasing ==
    ASSUME NEW n \in Nat, NEW o \in [1 .. n -> Int], \A i \in 2 .. n : o[i - 1] < o[i],
           NEW i \in 1 .. n, NEW j \in 1 .. n, i < j
    PROVE  o[i] < o[j]
<1> DEFINE T == {m \in i + 1 .. n : ~(o[i] < o[m])}
<1>1. SUFFICES ASSUME ~(o[i] < o[j]) PROVE FALSE
  OBVIOUS
<1>2. PICK m \in T : \A l \in T : ~(l < m)
  <2>1. T \subseteq Nat /\ T # {}
    <3>1. T \subseteq i + 1 .. n
      OBVIOUS
    <3>2. i + 1 .. n \subseteq Nat
      OBVIOUS
    <3>3. j \in i + 1 .. n
      OBVIOUS
    <3>4. j \in T
      BY <1>1, <3>3, Zenon
    <3> HIDE DEF T
    <3> QED
      BY <3>1, <3>2, <3>4
  <2> HIDE DEF T
  <2> QED
    BY <2>1, Least
<1>3. m \in i + 1 .. n /\ ~(o[i] < o[m]) /\ m \in 2 .. n /\ o[m - 1] < o[m]
  OBVIOUS
<1>4. m # i + 1
  <2>1. m = i + 1 => m - 1 = i
    OBVIOUS
  <2> QED
    BY <1>3, <2>1
<1>5. m - 1 \in i + 1 .. n /\ m - 1 < m /\ m - 1 \in 1 .. n
  BY <1>3, <1>4
<1>6. o[i] < o[m - 1]
  BY <1>2, <1>5
<1> QED
  BY <1>3, <1>5, <1>6

LEMMA ScheduleIs ==
    ASSUME run \in Runs
    PROVE  /\ Len(run.outputSteps) \in Nat
           /\ \A i \in 1 .. Len(run.outputSteps) : run.outputSteps[i] \in Nat \ {0}
           /\ \A i, j \in 1 .. Len(run.outputSteps) :
                  i < j => run.outputSteps[i] < run.outputSteps[j]
           /\ run.sync => run.outputSteps = <<>>
<1> DEFINE o == run.outputSteps
           n == Len(o)
<1>1. /\ o \in Seq(1 .. run.numberOfSteps) /\ run.numberOfSteps \in Nat
      /\ \A i \in 2 .. n : o[i - 1] < o[i]
      /\ run.sync => o = <<>>
  BY RunsAssumption DEF ValidRun
<1> HIDE DEF o
<1>2. n \in Nat /\ o \in [1 .. n -> 1 .. run.numberOfSteps]
  BY <1>1
<1>3. o \in [1 .. n -> Int] /\ \A i \in 1 .. n : o[i] \in Nat \ {0}
  BY <1>1, <1>2
<1> HIDE DEF n
<1>4. \A i, j \in 1 .. n : i < j => o[i] < o[j]
  <2>1. \A i \in 2 .. n : o[i - 1] < o[i]
    BY <1>1 DEF n
  <2> QED
    BY <1>2, <1>3, <2>1, Increasing
<1> QED
  BY <1>1, <1>2, <1>3, <1>4 DEF o, n

LEMMA ScheduleInit ==
    ASSUME Init
    PROVE  Schedule
<1>1. run \in Runs /\ pc = "advance" /\ step = 0 /\ cursor = 1
  BY DEF Init
<1>2. \A i \in 1 .. Len(run.outputSteps) : ~(i < cursor) /\ run.outputSteps[i] > step
  BY <1>1, ScheduleIs
<1> QED
  BY <1>1, <1>2 DEF Schedule

\* The entry at the cursor tells whether the step is in the schedule.
LEMMA CursorTells ==
    ASSUME QueueInv, Schedule, pc = "output"
    PROVE  (run.sync \/ ShouldOutput) <=> Evolution!Scheduled
<1> DEFINE o == run.outputSteps
           n == Len(o)
<1>1. /\ n \in Nat /\ \A i \in 1 .. n : o[i] \in Nat \ {0}
      /\ \A i, j \in 1 .. n : i < j => o[i] < o[j]
      /\ DOMAIN o = 1 .. n
  <2>1. run \in Runs
    BY DEF QueueInv, Types, TypeOK
  <2>2. o \in Seq(1 .. run.numberOfSteps)
    BY <2>1, RunsAssumption DEF ValidRun
  <2>3. DOMAIN o = 1 .. n
    BY <2>2
  <2> QED
    BY <2>1, <2>3, ScheduleIs
<1>2. step \in Int /\ cursor \in 1 .. n + 1
  <2>1. run \in Runs /\ step \in 0 .. run.numberOfSteps /\ cursor \in 1 .. n + 1
    BY DEF QueueInv, Types, TypeOK
  <2> QED
    BY <2>1
<1>3. \A i \in 1 .. n : IF i < cursor THEN o[i] < step ELSE o[i] >= step
  BY <1>1, <1>2 DEF Schedule
<1> HIDE DEF o, n
<1>4. (\E i \in DOMAIN o : o[i] = step) <=> (cursor <= n /\ o[cursor] = step)
  <2>1. ASSUME NEW i \in 1 .. n, o[i] = step
        PROVE  cursor <= n /\ o[cursor] = step
    <3>1. ~(i < cursor)
      BY <1>1, <1>2, <1>3, <2>1
    <3>2. cursor \in 1 .. n /\ cursor <= n
      BY <1>1, <1>2, <3>1
    <3>3. cursor < i => o[cursor] < o[i]
      BY <1>1, <3>2
    <3>4. o[cursor] >= step
      BY <1>2, <1>3, <3>2
    <3>5. ~(cursor < i)
      BY <1>1, <1>2, <2>1, <3>2, <3>3, <3>4
    <3>6. cursor = i
      BY <1>2, <3>1, <3>5
    <3> QED
      BY <2>1, <3>2, <3>6
  <2>2. cursor <= n => cursor \in DOMAIN o
    BY <1>1, <1>2
  <2> QED
    BY <1>1, <2>1, <2>2
<1> QED
  BY <1>4 DEF Evolution!Scheduled, ShouldOutput, AtNextOutputStep, o, n

LEMMA ScheduleStep ==
    ASSUME QueueInv, Schedule, Next
    PROVE  Schedule'
<1> DEFINE o == run.outputSteps
           n == Len(o)
<1>1. /\ n \in Nat /\ \A i \in 1 .. n : o[i] \in Nat \ {0}
      /\ \A i, j \in 1 .. n : i < j => o[i] < o[j]
      /\ run.sync => n = 0
  <2>1. run \in Runs
    BY DEF QueueInv, Types, TypeOK
  <2> QED
    BY <2>1, ScheduleIs
<1>2. step \in Int /\ cursor \in 1 .. n + 1
  <2>1. run \in Runs /\ step \in 0 .. run.numberOfSteps /\ cursor \in 1 .. n + 1
    BY DEF QueueInv, Types, TypeOK
  <2> QED
    BY <2>1
<1>3. pc \in {"advance", "output", "control", "leave"} =>
          \A i \in 1 .. n : IF i < cursor THEN o[i] < step \/ (pc # "output" /\ o[i] = step)
                           ELSE o[i] > step \/ (pc = "output" /\ o[i] = step)
  BY DEF Schedule
<1>4. run' = run
  BY DEF Next, Enqueue, Wait, AseBegin, DownloadBeta, RefreshMeshes, AseEnd, AseFails, NotRunnable,
     CompleteStep, Output, SkipOutput, ReceiveControl, ControlFails, LeaveBlock, DeviceRun, Rest, vars
<1>5. SUFFICES ASSUME pc' \in {"advance", "output", "control", "leave"}, NEW i \in 1 .. n
               PROVE  IF i < cursor' THEN o[i] < step' \/ (pc' # "output" /\ o[i] = step')
                      ELSE o[i] > step' \/ (pc' = "output" /\ o[i] = step')
  BY <1>4 DEF Schedule
<1> HIDE DEF o, n
<1>6. CASE CompleteStep
  <2>1. pc = "advance" /\ pc' = "output" /\ step' = step + 1 /\ cursor' = cursor
    BY <1>6 DEF CompleteStep
  <2>2. IF i < cursor THEN o[i] <= step ELSE o[i] > step
    BY <1>1, <1>2, <1>3, <2>1
  <2>3. o[i] \in Nat
    BY <1>1
  <2> QED
    BY <1>2, <2>1, <2>2, <2>3
<1>7. CASE Output \/ SkipOutput
  <2>1. pc = "output" /\ pc' # "output" /\ step' = step
    BY <1>5, <1>7 DEF Output, SkipOutput, AfterOutput
  <2>2. \A j \in 1 .. n : IF j < cursor THEN o[j] < step ELSE o[j] >= step
    BY <1>1, <1>2, <1>3, <2>1
  <2>3. CASE cursor' = cursor /\ ~(cursor <= n /\ o[cursor] = step)
    <3>1. ~(i < cursor) => o[i] # step
      <4>1. SUFFICES ASSUME ~(i < cursor), o[i] = step PROVE FALSE
        OBVIOUS
      <4>2. cursor \in 1 .. n /\ cursor <= n
        BY <1>1, <1>2, <4>1
      <4>3. o[cursor] >= step /\ o[cursor] # step /\ o[cursor] \in Nat
        BY <1>1, <1>2, <2>2, <2>3, <4>2
      <4>4. cursor < i \/ cursor = i
        BY <1>2, <4>1
      <4>5. cursor < i => o[cursor] < o[i]
        BY <1>1, <4>2
      <4> QED
        BY <1>2, <4>1, <4>3, <4>4, <4>5
    <3>2. o[i] \in Nat
      BY <1>1
    <3> QED
      BY <1>2, <2>1, <2>2, <2>3, <3>1, <3>2
  <2>4. CASE cursor' = cursor + 1 /\ cursor <= n /\ o[cursor] = step
    <3>1. cursor \in 1 .. n /\ o[i] \in Nat
      BY <1>1, <1>2, <2>4
    <3>2. cursor < i => o[cursor] < o[i]
      BY <1>1, <3>1
    <3> QED
      BY <1>2, <2>1, <2>2, <2>4, <3>1, <3>2
  <2>5. \/ cursor' = cursor /\ ~(cursor <= n /\ o[cursor] = step)
        \/ cursor' = cursor + 1 /\ cursor <= n /\ o[cursor] = step
    <3>1. CASE Output
      <4>1. cursor' = NextCursor
        BY <3>1 DEF Output
      <4>2. ~run.sync
        BY <1>1
      <4> QED
        BY <4>1, <4>2 DEF NextCursor, AtNextOutputStep, o, n
    <3>2. CASE SkipOutput
      BY <3>2 DEF SkipOutput, ShouldOutput, AtNextOutputStep, o, n
    <3> QED
      BY <1>7, <3>1, <3>2
  <2> QED
    BY <2>3, <2>4, <2>5
<1>8. CASE ReceiveControl \/ LeaveBlock
  <2>1. /\ pc \in {"control", "leave"} /\ pc' # "output"
        /\ UNCHANGED <<step, cursor>>
    BY <1>8 DEF ReceiveControl, LeaveBlock
  <2> QED
    BY <1>3, <2>1
<1>9. CASE Enqueue \/ Wait \/ AseBegin \/ DownloadBeta \/ RefreshMeshes \/ AseEnd \/ DeviceRun
           \/ Rest
  <2>1. UNCHANGED <<pc, step, cursor>>
    BY <1>9 DEF Enqueue, Wait, AseBegin, DownloadBeta, RefreshMeshes, AseEnd, DeviceRun, Rest,
       host, vars
  <2> QED
    BY <1>3, <1>5, <2>1
<1>10. CASE AseFails \/ NotRunnable \/ ControlFails
  BY <1>5, <1>10 DEF AseFails, NotRunnable, ControlFails
<1> QED
  BY <1>6, <1>7, <1>8, <1>9, <1>10 DEF Next

-----------------------------------------------------------------------------
(* The run.                                                                *)

LEMMA EvolutionInit ==
    ASSUME Init
    PROVE  EvolutionInv
<1>1. StepInv
  BY QueueInit, FreshInit, PendingInit DEF StepInv
<1>2. Underway
  BY <1>1, Starts DEF StepInv, Init
<1>3. Reported
  BY DEF Reported, Init
<1> QED
  BY <1>1, <1>2, <1>3, ScheduleInit DEF EvolutionInv

LEMMA EvolutionStep ==
    ASSUME ~Unstaged, EvolutionInv, [Next]_vars
    PROVE  EvolutionInv'
<1>1. StepInv /\ QueueInv /\ Fresh /\ Pending /\ Underway /\ Reported /\ Schedule
  BY DEF EvolutionInv, StepInv
<1>2. CASE Next
  <2>1. QueueInv'
    BY <1>1, <1>2, QueueNext
  <2>2. StepInv'
    BY <1>1, <1>2, <2>1, FreshStep, PendingStep DEF StepInv
  <2>3. Underway' /\ Reported' /\ Schedule'
    BY <1>1, <1>2, <2>1, UnderwayStep, ReportedStep, ScheduleStep
  <2> QED
    BY <2>2, <2>3 DEF EvolutionInv
<1>3. CASE UNCHANGED vars
  <2>1. UNCHANGED <<run, pc, step, at, front, resident, vector, blocking, cursor, queue, buf>>
    BY <1>3 DEF vars, host
  <2>2. StepInv'
    BY <1>1, <1>3, StepStutter
  <2>3. Underway'
    BY <1>1, <2>1, UnderwayStays
  <2>4. Reported' /\ Schedule'
    BY <1>1, <2>1 DEF Reported, Settled, Phi, Now, Schedule
  <2> QED
    BY <2>2, <2>3, <2>4 DEF EvolutionInv
<1> QED
  BY <1>2, <1>3

\* The state of BetaEvolution.
Phase == CASE pc = "output" -> "report"
           [] pc \in {"advance", "leave"} -> "step"
           [] OTHER -> pc
Population == blocking[front]
Rates == IF pc = "output" THEN Terms(Now) ELSE None

LEMMA RatesAre ==
    /\ Rates = IF pc = "output"
              THEN [phi |-> IF resident THEN blocking.volumePhi ELSE blocking.phiAse,
                    dndtPump |-> blocking.dndtPump, dndtAse |-> blocking.dndtAse,
                    slope |-> blocking.derivative]
              ELSE None
    /\ Rates' = IF pc' = "output"
               THEN [phi |-> IF resident' THEN blocking'.volumePhi ELSE blocking'.phiAse,
                     dndtPump |-> blocking'.dndtPump, dndtAse |-> blocking'.dndtAse,
                     slope |-> blocking'.derivative]
               ELSE None
  BY DEF Rates, Terms, Phi, At, Seat, Now

\* What a step of BetaEvolution is.
LEMMA EvolutionActions ==
    /\ (/\ Phase = "step" /\ Runnable /\ step' = step + 1 /\ Phase' = "report"
        /\ Population' = ClipBeta(Integrated(Population).beta)
        /\ Rates' = Integrated(Population).last
        /\ UNCHANGED <<run, sent>>) => Evolution!Advance
    /\ (/\ Phase = "report" /\ Rates' = None
        /\ sent' = (IF Evolution!Scheduled THEN Append(sent, Evolution!Snapshot) ELSE sent)
        /\ Phase' = (CASE step = run.numberOfSteps -> "done"
                       [] step # run.numberOfSteps /\ run.sync -> "control"
                       [] OTHER -> "step")
        /\ UNCHANGED <<run, step, Population>>) => Evolution!Report
    /\ (/\ Phase = "control" /\ Phase' = "step"
        /\ IF run.control THEN Population' \in Field ELSE Population' = Population
        /\ UNCHANGED <<run, step, Rates, sent>>) => Evolution!Control
    /\ (/\ \/ Phase = "step" /\ (Runnable => AseEnabled)
           \/ Phase = "report" /\ Evolution!Scheduled
           \/ Phase = "control"
        /\ Phase' = "failed" /\ Rates' = None
        /\ UNCHANGED <<run, step, Population, sent>>) => Evolution!Fail
    /\ UNCHANGED <<run, Phase, step, Population, Rates, sent>> => UNCHANGED Evolution!vars
<1>1. Evolution!None = None /\ Evolution!Field = Field /\ (Evolution!Runnable <=> Runnable)
      /\ (Evolution!WithAse <=> AseEnabled)
  BY DEF Evolution!None, None, Evolution!Field, Field, Evolution!Numbers, Numbers,
     Evolution!Runnable, Runnable, Evolution!WithAse, AseEnabled
<1>2. Integrated(Population) = Evolution!Integrate(Population, step < run.pumpSteps, Evolution!WithAse)
  BY DEF Integrated, PumpEnabled, AseEnabled, Evolution!WithAse
<1>3. Evolution!ClipBeta(Integrated(Population).beta) = ClipBeta(Integrated(Population).beta)
  BY KernelsAre
<1> QED
  BY <1>1, <1>2, <1>3, RatesAre DEF Evolution!Advance, Evolution!Report, Evolution!Control, Evolution!Fail,
     Evolution!vars, Phase, Population

\* A snapshot has the fields of its step: what is downloaded through m_queue has
\* waited for it, and the flux does not come through m_queue.
LEMMA SnapshotIs ==
    ASSUME EvolutionInv, Output
    PROVE  [step |-> step, fields |-> [f \in run.outputs |-> Download[f]]] = Evolution!Snapshot
<1>1. /\ StepInv /\ pc = "output" /\ Settled(Now)
      /\ run.outputs \subseteq {"phi"} \/ queue = <<>>
  BY DEF EvolutionInv, Reported, Output
<1>2. run.outputs \subseteq OutputFields
  BY <1>1, RunsAssumption DEF StepInv, QueueInv, Types, TypeOK, ValidRun
<1>3. Rates = [phi |-> IF resident THEN blocking.volumePhi ELSE blocking.phiAse,
               dndtPump |-> blocking.dndtPump, dndtAse |-> blocking.dndtAse,
               slope |-> blocking.derivative]
  BY <1>1, RatesAre
<1>4. Rates.phi = IF resident THEN buf.volumePhi ELSE Zero
  <2>1. blocking["volumePhi"] = buf["volumePhi"]
    BY <1>1, FluxArrived
  <2>2. ~resident => blocking.phiAse = Zero
    BY <1>1 DEF Settled, Phi, Now
  <2> QED
    BY <1>3, <2>1, <2>2
<1>5. ASSUME queue = <<>>
      PROVE  buf = blocking
  <2>1. PICK t \in [0 .. Len(queue) -> [Buffers -> Field]] : Trace(t)
    BY <1>1 DEF StepInv, Pending
  <2>2. Len(queue) = 0
    BY <1>5
  <2> QED
    BY <2>1, <2>2 DEF Trace
<1>6. ASSUME NEW f \in run.outputs
      PROVE  Download[f] = IF f = "beta" THEN Population ELSE Rates[f]
  <2>1. Download.phi = Rates.phi
    BY <1>4 DEF Download
  <2>2. CASE f = "phi"
    BY <2>1, <2>2
  <2>3. CASE f # "phi"
    <3>1. buf = blocking
      BY <1>1, <1>5, <1>6, <2>3
    <3>2. f \in {"beta", "dndtPump", "dndtAse"}
      BY <1>2, <1>6, <2>3 DEF OutputFields
    <3> QED
      BY <1>3, <3>1, <3>2 DEF Download, Population
  <2> QED
    BY <2>2, <2>3
<1>7. [f \in run.outputs |-> Download[f]]
          = [f \in run.outputs |-> IF f = "beta" THEN Population ELSE Rates[f]]
  BY <1>6
<1> QED
  BY <1>7, RatesAre DEF Evolution!Snapshot, Population

\* The host enqueues, waits and evaluates, and the device works: no step of
\* BetaEvolution.
LEMMA WorkStutters ==
    ASSUME EvolutionInv,
           \/ Enqueue \/ Wait \/ AseBegin \/ DownloadBeta \/ RefreshMeshes \/ AseEnd
           \/ LeaveBlock \/ DeviceRun \/ Rest
    PROVE  UNCHANGED <<run, Phase, step, Population, Rates, sent>>
<1>1. QueueInv
  BY DEF EvolutionInv, StepInv
<1>2. CASE Enqueue \/ Wait \/ AseBegin \/ DownloadBeta \/ RefreshMeshes \/ AseEnd
  <2>1. pc = "advance" /\ UNCHANGED <<run, pc, step, front, sent>>
    BY <1>1, <1>2, EvaluatedBuffer
       DEF Enqueue, Wait, AseBegin, DownloadBeta, RefreshMeshes, AseEnd, AtInstruction, host
  <2>2. blocking'[front] = blocking[front]
    BY <1>1, <1>2, EnqueueDoes, AseEndDoes DEF Wait, AseBegin, DownloadBeta, RefreshMeshes
  <2> QED
    BY <2>1, <2>2 DEF Phase, Population, Rates
<1>3. CASE LeaveBlock
  <2>1. pc = "leave" /\ pc' = "advance" /\ UNCHANGED <<run, step, front, blocking, sent>>
    BY <1>3 DEF LeaveBlock
  <2> QED
    BY <2>1 DEF Phase, Population, Rates
<1>4. CASE DeviceRun \/ Rest
  <2>1. UNCHANGED <<run, pc, step, front, resident, blocking, sent>>
    BY <1>4 DEF DeviceRun, Rest, vars, host
  <2>2. Rates' = Rates
    BY <2>1, RatesAre
  <2> QED
    BY <2>1, <2>2 DEF Phase, Population
<1> QED
  BY <1>2, <1>3, <1>4

\* A step that throws.
LEMMA FailureFails ==
    ASSUME EvolutionInv,
           AseFails \/ NotRunnable \/ ControlFails \/ (Output /\ pc' = "failed")
    PROVE  Evolution!Fail
<1>1. QueueInv /\ Schedule
  BY DEF EvolutionInv, StepInv
<1>2. pc' = "failed" /\ UNCHANGED <<run, step, front, blocking, sent>>
  BY DEF AseFails, NotRunnable, ControlFails, Output, AfterOutput
<1>3. Phase' = "failed" /\ Rates' = None /\ UNCHANGED <<run, step, Population, sent>>
  BY <1>2 DEF Phase, Rates, Population
<1>4. \/ Phase = "step" /\ (Runnable => AseEnabled)
      \/ Phase = "report" /\ Evolution!Scheduled
      \/ Phase = "control"
  <2>1. CASE AseFails
    <3>1. AtInstruction("ase") /\ Runnable
      BY <1>1, <2>1, EvaluatedBuffer DEF AseFails
    <3>2. pc = "advance" /\ at <= Len(AdvanceTimeStep) /\ Instruction.op = "ase"
      BY <3>1 DEF AtInstruction
    <3>3. IsInstruction(Instruction)
      BY <1>1, <3>1, <3>2, InstructionIs DEF QueueInv, Types, TypeOK
    <3>4. AseEnabled
      BY <3>2, <3>3 DEF IsInstruction, IsKernel, Ops
    <3> QED
      BY <3>2, <3>4 DEF Phase
  <2>2. CASE NotRunnable
    BY <2>2 DEF NotRunnable, Phase
  <2>3. CASE ControlFails
    BY <2>3 DEF ControlFails, Phase
  <2>4. CASE Output
    <3>1. pc = "output" /\ (run.sync \/ ShouldOutput)
      BY <2>4 DEF Output
    <3>2. Evolution!Scheduled
      BY <1>1, <3>1, CursorTells
    <3> QED
      BY <3>1, <3>2 DEF Phase
  <2> QED
    BY <2>1, <2>2, <2>3, <2>4
<1> QED
  BY <1>3, <1>4, EvolutionActions

LEMMA CompleteStepAdvances ==
    ASSUME EvolutionInv, CompleteStep
    PROVE  Evolution!Advance
<1>1. QueueInv /\ Underway
  BY DEF EvolutionInv, StepInv
<1>2. /\ pc = "advance" /\ Runnable /\ pc' = "output" /\ front' = Other(front)
      /\ step' = step + 1 /\ UNCHANGED <<run, resident, blocking, sent>>
  BY DEF CompleteStep
<1>3. /\ blocking[Other(front)] = ClipBeta(Integrated(blocking[front]).beta)
      /\ Terms(Now) = Integrated(blocking[front]).last
  BY <1>1, CompleteStepDoes
<1>4. Population' = ClipBeta(Integrated(Population).beta)
  BY <1>2, <1>3 DEF Population
<1>5. Rates' = Integrated(Population).last
  <2>1. Terms(Now) = [phi |-> IF resident THEN blocking.volumePhi ELSE blocking.phiAse,
                      dndtPump |-> blocking.dndtPump, dndtAse |-> blocking.dndtAse,
                      slope |-> blocking.derivative]
    BY DEF Terms, Phi, At, Seat, Now
  <2>2. Rates' = Terms(Now)
    BY <1>2, <2>1, RatesAre
  <2> QED
    BY <1>3, <2>2 DEF Population
<1>6. Phase = "step" /\ Phase' = "report"
  BY <1>2 DEF Phase
<1> QED
  BY <1>2, <1>4, <1>5, <1>6, EvolutionActions

LEMMA OutputReports ==
    ASSUME EvolutionInv, SkipOutput \/ (Output /\ pc' # "failed")
    PROVE  Evolution!Report
<1>1. QueueInv /\ Schedule
  BY DEF EvolutionInv, StepInv
<1>2. /\ pc = "output" /\ pc' = AfterOutput
      /\ UNCHANGED <<run, step, front, blocking>>
  BY DEF SkipOutput, Output
<1>3. Phase = "report" /\ Rates' = None /\ UNCHANGED Population
  BY <1>2 DEF Phase, Rates, Population, AfterOutput
<1>4. Phase' = CASE step = run.numberOfSteps -> "done"
                 [] step # run.numberOfSteps /\ run.sync -> "control"
                 [] OTHER -> "step"
  BY <1>2 DEF Phase, AfterOutput
<1>5. sent' = IF Evolution!Scheduled THEN Append(sent, Evolution!Snapshot) ELSE sent
  <2>1. (run.sync \/ ShouldOutput) <=> Evolution!Scheduled
    BY <1>1, <1>2, CursorTells
  <2>2. CASE SkipOutput
    BY <2>1, <2>2 DEF SkipOutput
  <2>3. CASE Output /\ pc' # "failed"
    <3>1. /\ run.sync \/ ShouldOutput
          /\ sent' = Append(sent, [step |-> step, fields |-> [f \in run.outputs |-> Download[f]]])
      BY <2>3 DEF Output
    <3>2. [step |-> step, fields |-> [f \in run.outputs |-> Download[f]]] = Evolution!Snapshot
      BY <2>3, SnapshotIs
    <3> QED
      BY <2>1, <3>1, <3>2
  <2> QED
    BY <2>2, <2>3
<1> QED
  BY <1>2, <1>3, <1>4, <1>5, EvolutionActions

LEMMA ReceiveControls ==
    ASSUME EvolutionInv, ReceiveControl
    PROVE  Evolution!Control
<1>1. front \in {"betaA", "betaB"} /\ blocking \in [Buffers -> Field]
  BY DEF EvolutionInv, StepInv, QueueInv, Types, TypeOK
<1>2. /\ pc = "control" /\ pc' = "leave" /\ UNCHANGED <<run, step, front, sent>>
  BY DEF ReceiveControl
<1>3. PICK v \in Controls :
          blocking' = IF run.control THEN [blocking EXCEPT ![front] = v] ELSE blocking
  BY DEF ReceiveControl
<1>4. v \in Field
  BY FieldsAssumption
<1>5. front \in Buffers
  BY <1>1 DEF Buffers
<1>6. IF run.control THEN Population' \in Field ELSE Population' = Population
  BY <1>1, <1>2, <1>3, <1>4, <1>5 DEF Population
<1>7. Phase = "control" /\ Phase' = "step" /\ UNCHANGED Rates
  BY <1>2 DEF Phase, Rates
<1> QED
  BY <1>2, <1>6, <1>7, EvolutionActions

LEMMA EvolutionImplemented ==
    ASSUME EvolutionInv, [Next]_vars
    PROVE  [Evolution!Next]_Evolution!vars
<1>1. CASE \/ Enqueue \/ Wait \/ AseBegin \/ DownloadBeta \/ RefreshMeshes \/ AseEnd
           \/ LeaveBlock \/ DeviceRun \/ Rest
  BY <1>1, WorkStutters, EvolutionActions
<1>2. CASE CompleteStep
  BY <1>2, CompleteStepAdvances DEF Evolution!Next
<1>3. CASE SkipOutput \/ (Output /\ pc' # "failed")
  BY <1>3, OutputReports DEF Evolution!Next
<1>4. CASE ReceiveControl
  BY <1>4, ReceiveControls DEF Evolution!Next
<1>5. CASE AseFails \/ NotRunnable \/ ControlFails \/ (Output /\ pc' = "failed")
  BY <1>5, FailureFails DEF Evolution!Next
<1>6. CASE UNCHANGED vars
  <2>1. UNCHANGED <<run, pc, step, front, resident, blocking, sent>>
    BY <1>6 DEF vars, host
  <2>2. UNCHANGED <<run, Phase, step, Population, Rates, sent>>
    BY <2>1, RatesAre DEF Phase, Population
  <2> QED
    BY <2>2, EvolutionActions
<1> QED
  BY <1>1, <1>2, <1>3, <1>4, <1>5, <1>6 DEF Next

\* The buffers hold what the instructions executed so far would have left in
\* order, the flux of a snapshot is there, and the cursor stands in the schedule
\* where the run does.
THEOREM EvolutionInvariant ==
    ASSUME ~Unstaged
    PROVE  Spec => []EvolutionInv
<1>1. EvolutionInv /\ [Next]_vars => EvolutionInv'
  BY EvolutionStep
<1> QED
  BY <1>1, EvolutionInit, PTL DEF Spec

\* Every run follows the integrator it was asked for, step by step, and every
\* scheduled step is reported with its fields, whatever the order in which the
\* device, the evaluation and the host get on (run, advanceTimeStep and
\* makeSnapshot implement BetaEvolution).  Only a control that is copied late
\* could be the exception.
THEOREM TimeSteppingImplementsBetaEvolution ==
    ASSUME ~Unstaged
    PROVE  Spec => EvolutionSpec
<1>1. Init => Evolution!Init
  <2> SUFFICES ASSUME Init
               PROVE  Evolution!Init
    OBVIOUS
  <2>1. /\ run \in Runs /\ pc = "advance" /\ step = 0 /\ front = "betaA" /\ sent = <<>>
        /\ blocking = buf
    BY DEF Init
  <2>2. buf["betaA"] \in StartFields
    BY DEF Init, Buffers
  <2> QED
    BY <2>1, <2>2 DEF Evolution!Init, Evolution!None, None
<1>2. EvolutionInv /\ [Next]_vars => [Evolution!Next]_Evolution!vars
  BY EvolutionImplemented
<1> QED
  BY <1>1, <1>2, EvolutionInvariant, PTL DEF Spec, EvolutionSpec, Evolution!Spec
=============================================================================

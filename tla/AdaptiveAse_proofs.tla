------------------------ MODULE AdaptiveAse_proofs -------------------------
(***************************************************************************)
(* Proofs about AdaptiveAse, for any number of workers and batches, any    *)
(* limits and any cells.                                                   *)
(*                                                                         *)
(* The batches of a launch are those the workers own by the remainder of   *)
(* their index, so that a gather brings every batch once (Holds,           *)
(* Complete); the rays of the batches add up to the rays of the launch, so *)
(* that the checks of the loop never fire.  After a gather every worker    *)
(* computes the same from the same, sooner or later (Agree): what one      *)
(* worker still has to do is what another has done.                        *)
(***************************************************************************)
EXTENDS AdaptiveAse, FiniteSetTheorems, WellFoundedInduction, TLAPS

BatchResults == [index : Batches, rays : 0..UnsignedRange, srm : {"earlier", "current"}]

RawResults ==
    [batches : [Batches -> Nat], rayCount : 0..(UnsignedRange - 1),
     srm : SUBSET {"earlier", "current"}]

Types ==
    /\ TypeOK
    /\ local \in [Workers -> SUBSET BatchResults]
    /\ gathered \in SUBSET BatchResults
    /\ raw \in [Workers -> RawResults]
    /\ convergence \in [Workers -> [Cells -> Nat]]

\* A set of results has every batch at most once, with its share of the rays.
Shares(results, rays) ==
    /\ \A r \in results : r.rays = BatchRays(rays, r.index)
    /\ \A r, q \in results : r.index = q.index => r = q

\* What a worker holds of its launch: the batches it owns, as far as it is.
Holds(w) ==
    pc[w] \in {"tracing", "gathering"} =>
        /\ next[w] % NumWorkers = w
        /\ pc[w] = "gathering" => next[w] >= BatchCount
        /\ Shares(local[w], LaunchRays(w))
        /\ \A r \in local[w] : r.index % NumWorkers = w /\ r.index < next[w]
        /\ \A b \in Batches : b % NumWorkers = w /\ b < next[w] =>
               \E r \in local[w] : r.index = b

\* What was gathered is the whole launch of those that have not merged it yet.
Complete(w) ==
    pc[w] = "merging" =>
        /\ Shares(gathered, LaunchRays(w))
        /\ \A b \in Batches : \E r \in gathered : r.index = b

\* What a worker that merges will decide, and record.
Decision(w) == IF StopCondition(w) THEN "done" ELSE "again"
Counted(w) ==
    [c \in Cells |-> IF NewlyConverged(w, c) THEN Target(w) ELSE convergence[w][c]]
Phase(w) == IF pc[w] \in {"tracing", "gathering"} THEN "again" ELSE pc[w]

\* Two workers are at the same point, or one has yet to merge what the other has.
SameState(w, v) ==
    raw[v] = raw[w] /\ convergence[v] = convergence[w] /\ launches[v] = launches[w]
Behind(w, v) ==
    /\ Phase(v) = Decision(w)
    /\ raw[v] = Merged(raw[w])
    /\ convergence[v] = Counted(w)
    /\ launches[v] = IF Decision(w) = "done" THEN launches[w]
                     ELSE Min({launches[w] + 1, LaunchCap})
Agree(w, v) ==
    /\ pc[w] = "merging" /\ pc[v] = "merging" => SameState(w, v)
    /\ pc[w] = "merging" /\ pc[v] # "merging" => Behind(w, v)
    /\ pc[w] # "merging" /\ pc[v] # "merging" => Phase(v) = Phase(w) /\ SameState(w, v)

\* A worker that is done has the rays of its target and a reason to stop.
Stopped(w) == pc[w] = "done" => raw[w].rayCount = Target(w) /\ StopCondition(w)

\* The first launch starts from nothing.
FirstLaunch(w) ==
    pc[w] \in {"tracing", "gathering", "merging"} /\ launches[w] = 0 => raw[w].rayCount = 0

\* Every worker's first batch of the first launch has a ray, and from then on its
\* device has a status of this evaluation.
StatusIsCurrent ==
    AdaptiveRayTarget(experiment, 0) >= NumWorkers =>
        /\ \A r \in gathered : r.srm = "current"
        /\ \A w \in Workers :
              /\ \/ deviceSrm[w] = "current"
                 \/ launches[w] = 0 /\ pc[w] = "tracing" /\ next[w] = w
              /\ \A r \in local[w] : r.srm = "current"
              /\ raw[w].srm \subseteq {"current"}

AdaptiveInv ==
    /\ Types
    /\ NoAccountingError
    /\ \A w \in Workers : Holds(w) /\ Complete(w) /\ Stopped(w) /\ FirstLaunch(w)
    /\ \A w, v \in Workers : Agree(w, v)
    /\ StatusIsCurrent
-----------------------------------------------------------------------------
(* Sums over sets of batches.                                             *)

\* A nonempty set of natural numbers has a least element.
LEMMA LeastOf ==
    ASSUME NEW S \in SUBSET Nat, S # {}
    PROVE  \E m \in S : \A n \in S : m <= n
<1>1. PICK m \in S : \A n \in SetLessThan(m, OpToRel(<, Nat), Nat) : n \notin S
  BY NatLessThanWellFounded, WFMin DEF SetLessThan
<1>2. \A n \in S : ~(n < m)
  BY <1>1 DEF SetLessThan, OpToRel
<1> QED
  BY <1>2

\* The rays of a set of batches one by one: the i-th ray of batch r.
RaysIn(batches, limit) == {ray \in batches \X (1..limit) : ray[2] <= ray[1].rays}

Pick(s) == CHOOSE x \in s : TRUE

LEMMA OneBatchMore ==
    ASSUME NEW S, IsFiniteSet(S), NEW limit \in Nat, \A r \in S : r.rays \in 0..limit,
           NEW x \in S
    PROVE  /\ Cardinality(RaysIn(S, limit)) \in Nat
           /\ Cardinality(RaysIn(S, limit)) = x.rays + Cardinality(RaysIn(S \ {x}, limit))
<1> DEFINE rest == RaysIn(S \ {x}, limit)
           mine == RaysIn({x}, limit)
<1>1. IsFiniteSet(1..limit) /\ IsFiniteSet(1..x.rays) /\ Cardinality(1..x.rays) = x.rays
  <2>1. x.rays \in Nat
    BY x.rays \in 0..limit
  <2>2. \A n \in Nat : IsFiniteSet(1..n) /\ Cardinality(1..n) = n
    <3> TAKE n \in Nat
    <3>1. n \in Int /\ 1 \in Int /\ (IF 1 > n THEN 0 ELSE n - 1 + 1) = n
      OBVIOUS
    <3>2. IsFiniteSet(1..n) /\ Cardinality(1..n) = IF 1 > n THEN 0 ELSE n - 1 + 1
      BY <3>1, FS_Interval
    <3> QED
      BY <3>1, <3>2
  <2> QED
    BY <2>1, <2>2
<1>2. IsFiniteSet(S \X (1..limit))
  BY <1>1, FS_Product
<1>3. RaysIn(S, limit) \in SUBSET (S \X (1..limit)) /\ rest \in SUBSET (S \X (1..limit))
  BY DEF RaysIn
<1>4. IsFiniteSet(RaysIn(S, limit)) /\ IsFiniteSet(rest)
  BY <1>2, <1>3, FS_Subset
<1>5. Cardinality(mine) = x.rays /\ IsFiniteSet(mine)
  <2> DEFINE f == [i \in 1..x.rays |-> <<x, i>>]
  <2>1. x.rays \in 0..limit /\ mine = {x} \X (1..x.rays)
    <3>1. x.rays \in 0..limit
      OBVIOUS
    <3>2. ASSUME NEW ray PROVE ray \in mine <=> ray \in {x} \X (1..x.rays)
      BY <3>1 DEF RaysIn
    <3> QED
      BY <3>1, <3>2
  <2>2. f \in Bijection(1..x.rays, mine)
    <3>1. f \in [1..x.rays -> mine]
      BY <2>1
    <3>2. \A i, j \in 1..x.rays : f[i] = f[j] => i = j
      OBVIOUS
    <3>3. \A ray \in mine : \E i \in 1..x.rays : f[i] = ray
      BY <2>1
    <3> QED
      <4> HIDE DEF f, mine
      <4> QED
        BY <3>1, <3>2, <3>3 DEF Bijection, Injection, Surjection, IsInjective
  <2> QED
    BY <1>1, <2>2, FS_Bijection DEF ExistsBijection
<1>6. RaysIn(S, limit) = rest \union mine /\ rest \intersect mine = {}
  BY DEF RaysIn
<1>7. Cardinality({}) = 0
  BY FS_EmptySet
<1>8. Cardinality(rest) \in Nat /\ Cardinality(RaysIn(S, limit)) \in Nat
  BY <1>4, FS_CardinalityType
<1>9. Cardinality(RaysIn(S, limit)) = Cardinality(rest) + Cardinality(mine) - 0
  BY <1>4, <1>5, <1>6, <1>7, FS_Union
<1>10. x.rays \in Nat
  BY x.rays \in 0..limit
<1> HIDE DEF rest, mine
<1> QED
  BY <1>5, <1>8, <1>9, <1>10 DEF rest

\* What the fold of RaysOf computes is the number of rays in the batches.
LEMMA RaysAddUp ==
    ASSUME NEW S, IsFiniteSet(S), NEW limit \in Nat, \A r \in S : r.rays \in 0..limit
    PROVE  RaysOf(S) = Cardinality(RaysIn(S, limit)) /\ RaysOf(S) \in Nat
<1> DEFINE Sums(f) ==
               f = [s \in SUBSET S |-> IF s = {} THEN 0
                                       ELSE Pick(s).rays + f[s \ {Pick(s)}]]
           count == [s \in SUBSET S |-> Cardinality(RaysIn(s, limit))]
           fold == CHOOSE f : Sums(f)
<1>1. RaysOf(S) = fold[S]
  BY DEF RaysOf, MapThenSumSet, MapThenFoldSet, Pick
<1>2. \A s \in SUBSET S : s # {} => Pick(s) \in s /\ s \ {Pick(s)} \in SUBSET S
  BY DEF Pick
<1>3. Cardinality(RaysIn({}, limit)) = 0
  <2>1. RaysIn({}, limit) = {}
    BY DEF RaysIn
  <2> QED
    BY <2>1, FS_EmptySet
<1>4. ASSUME NEW s \in SUBSET S, s # {}
      PROVE  /\ count[s] \in Nat
             /\ count[s] = Pick(s).rays + count[s \ {Pick(s)}]
  <2>1. IsFiniteSet(s) /\ \A r \in s : r.rays \in 0..limit
    BY FS_Subset
  <2> QED
    BY <1>2, <1>4, <2>1, OneBatchMore
<1>5. Sums(count)
  <2>1. ASSUME NEW s \in SUBSET S
        PROVE  count[s] = IF s = {} THEN 0 ELSE Pick(s).rays + count[s \ {Pick(s)}]
    <3>1. CASE s = {}
      BY <1>3, <3>1
    <3>2. CASE s # {}
      <4> HIDE DEF count
      <4> QED
        BY <1>4, <3>2
    <3> QED
      BY <3>1, <3>2
  <2>2. count = [s \in SUBSET S |-> count[s]]
    OBVIOUS
  <2>3. [s \in SUBSET S |-> count[s]]
        = [s \in SUBSET S |-> IF s = {} THEN 0 ELSE Pick(s).rays + count[s \ {Pick(s)}]]
    <3> HIDE DEF count
    <3> QED
      BY <2>1
  <2> HIDE DEF count
  <2> QED
    BY <2>2, <2>3
<1>6. Sums(fold)
  <2> HIDE DEF Sums
  <2> QED
    BY <1>5
<1>7. ASSUME NEW s \in SUBSET S
      PROVE  fold[s] = IF s = {} THEN 0 ELSE Pick(s).rays + fold[s \ {Pick(s)}]
  <2> HIDE DEF fold
  <2> QED
    BY <1>6
<1> HIDE DEF fold
<1>8. \A s \in SUBSET S : fold[s] = count[s]
  <2> DEFINE Differ == {n \in Nat : \E s \in SUBSET S :
                           Cardinality(s) = n /\ fold[s] # count[s]}
  <2>1. SUFFICES Differ = {}
    <3>1. \A s \in SUBSET S : Cardinality(s) \in Nat
      BY FS_Subset, FS_CardinalityType
    <3> HIDE DEF count
    <3> QED
      BY <3>1
  <2>2. SUFFICES ASSUME Differ # {} PROVE FALSE
    OBVIOUS
  <2>3. PICK n \in Differ : \A k \in Differ : n <= k
    <3>1. Differ \in SUBSET Nat
      OBVIOUS
    <3> HIDE DEF Differ
    <3> QED
      BY <2>2, <3>1, LeastOf
  <2>4. PICK s \in SUBSET S : Cardinality(s) = n /\ fold[s] # count[s]
    <3> HIDE DEF count
    <3> QED
      OBVIOUS
  <2>5. s # {}
    BY <1>3, <1>7, <2>4
  <2> DEFINE t == s \ {Pick(s)}
  <2>6. Cardinality(t) = n - 1 /\ t \in SUBSET S /\ n - 1 \in Nat
    <3>1. IsFiniteSet(s) /\ IsFiniteSet(t)
      BY FS_Subset
    <3>2. Cardinality(t) = Cardinality(s) - 1
      BY <1>2, <2>5, <3>1, FS_RemoveElement
    <3>3. Cardinality(t) \in Nat
      BY <3>1, FS_CardinalityType
    <3> QED
      BY <2>4, <3>2, <3>3
  <2>7. fold[t] # count[t]
    <3> HIDE DEF count
    <3> QED
      BY <1>4, <1>7, <2>4, <2>5
  <2>8. n - 1 \in Differ
    <3> HIDE DEF t, count
    <3> QED
      BY <2>6, <2>7
  <2>9. n \in Nat
    <3> HIDE DEF count
    <3> QED
      OBVIOUS
  <2>10. n <= n - 1
    <3> HIDE DEF Differ
    <3> QED
      BY <2>3, <2>8
  <2> QED
    BY <2>9, <2>10
<1>9. RaysOf(S) = Cardinality(RaysIn(S, limit))
  BY <1>1, <1>8
<1>10. Cardinality(RaysIn(S, limit)) \in Nat
  <2>1. S \in SUBSET S
    OBVIOUS
  <2>2. CASE S = {}
    BY <1>3, <2>2
  <2>3. CASE S # {}
    <3>1. count[S] \in Nat
      BY <1>4, <2>1, <2>3
    <3> QED
      BY <2>1, <3>1
  <2> QED
    BY <2>2, <2>3
<1> QED
  BY <1>9, <1>10
-----------------------------------------------------------------------------
(* Division with a remainder.                                              *)

\* What \div and % return.
LEMMA DivMod ==
    ASSUME NEW a \in Int, NEW n \in Nat \ {0}
    PROVE  /\ a = (n * (a \div n)) + (a % n)
           /\ a % n \in 0..(n - 1)
           /\ a \div n \in Int
OBVIOUS

\* Quotient and remainder are the only ones.
LEMMA DivModUnique ==
    ASSUME NEW n \in Nat \ {0}, NEW q \in Int, NEW p \in Int,
           NEW m \in 0..(n - 1), NEW k \in 0..(n - 1), n * q + m = n * p + k
    PROVE  q = p /\ m = k
OBVIOUS

\* A number below n is its own remainder.
LEMMA ModSmall ==
    ASSUME NEW n \in Nat \ {0}, NEW a \in 0..(n - 1)
    PROVE  a % n = a
OBVIOUS

\* The remainder repeats every n numbers.
LEMMA ModShift ==
    ASSUME NEW n \in Nat \ {0}, NEW a \in Int
    PROVE  (a + n) % n = a % n
<1> DEFINE q == a \div n
          m == a % n
          p == (a + n) \div n
          k == (a + n) % n
<1>1. a = n * q + m /\ m \in 0..(n - 1) /\ q \in Int
  BY DivMod
<1>2. a + n = n * p + k /\ k \in 0..(n - 1) /\ p \in Int
  BY a + n \in Int, DivMod
<1> HIDE DEF q, m, p, k
<1>3. n * (q + 1) + m = n * p + k /\ q + 1 \in Int
  BY <1>1, <1>2
<1>4. m = k
  BY <1>1, <1>2, <1>3, DivModUnique
<1> QED
  BY <1>4 DEF m, k

\* Less than n apart, two numbers with the same remainder are the same.
LEMMA SameRemainder ==
    ASSUME NEW n \in Nat \ {0}, NEW a \in Nat, NEW b \in Nat, a % n = b % n,
           a <= b, b < a + n
    PROVE  a = b
<1> DEFINE q == a \div n
           p == b \div n
           m == a % n
<1>1. a = n * q + m /\ b = n * p + m /\ q \in Int /\ p \in Int /\ m \in 0..(n - 1)
  BY DivMod
<1> HIDE DEF q, p, m
<1>2. b - a = n * (p - q) /\ p - q \in Int /\ b - a \in 0..(n - 1)
  BY <1>1
<1>3. n * (p - q) + 0 = n * 0 + (b - a)
  BY <1>2
<1>4. 0 = b - a
  BY <1>2, <1>3, DivModUnique
<1> QED
  BY <1>4
-----------------------------------------------------------------------------
(* The batches of a launch.                                                *)

\* There is a batch, and at least one per worker.
LEMMA Sizes ==
    /\ NumWorkers \in Nat \ {0} /\ BatchCount \in Nat \ {0} /\ NumWorkers <= BatchCount
    /\ UnsignedRange \in Nat \ {0}
    /\ Workers \subseteq Batches
    /\ \A w \in Workers : w \in Nat /\ w < NumWorkers /\ w % NumWorkers = w
    /\ \A b \in Batches : b \in Nat /\ b < BatchCount /\ b % NumWorkers \in Workers
<1>1. /\ NumWorkers \in Nat \ {0} /\ BatchCount \in Nat \ {0} /\ NumWorkers <= BatchCount
      /\ UnsignedRange \in Nat \ {0}
      /\ Workers \subseteq Batches
  BY NumWorkersAssumption, DefaultBatchesAssumption, RayLimitsAssumption
     DEF BatchCount, Workers, Batches
<1>2. ASSUME NEW w \in Workers
      PROVE  w \in Nat /\ w < NumWorkers /\ w % NumWorkers = w
  BY <1>1, ModSmall DEF Workers
<1>3. ASSUME NEW b \in Batches
      PROVE  b \in Nat /\ b < BatchCount /\ b % NumWorkers \in Workers
  <2>1. b \in Nat /\ b < BatchCount /\ b \in Int
    BY <1>1 DEF Batches
  <2> QED
    BY <1>1, <2>1, DivMod DEF Workers
<1> QED
  BY <1>1, <1>2, <1>3

\* The i-th ray of batch b is the ray (i - 1) * BatchCount + b of the launch: a batch
\* has as many rays as the launch has numbers of this form.
LEMMA RaysOfABatch ==
    ASSUME NEW rays \in Nat, NEW b \in Batches
    PROVE  /\ BatchRays(rays, b) \in 0..rays
           /\ \A i \in Nat \ {0} :
                  i <= BatchRays(rays, b) <=> BatchCount * (i - 1) + b < rays
<1> DEFINE n == BatchCount
<1>1. n \in Nat \ {0} /\ b \in 0..(n - 1)
  BY Sizes DEF Batches
<1>2. CASE ~(b < rays)
  <2>1. BatchRays(rays, b) = 0
    BY <1>2 DEF BatchRays
  <2> HIDE DEF n
  <2>2. \A i \in Nat \ {0} : n * (i - 1) \in Nat
    BY <1>1
  <2>3. \A i \in Nat \ {0} : ~(n * (i - 1) + b < rays)
    BY <1>1, <1>2, <2>2
  <2> QED
    BY <2>1, <2>3 DEF n
<1>3. CASE b < rays
  <2> DEFINE q == (rays - 1 - b) \div n
             m == (rays - 1 - b) % n
  <2>1. BatchRays(rays, b) = 1 + q
    BY <1>3 DEF BatchRays
  <2>2. rays - 1 - b \in Nat /\ rays - 1 - b \in Int
    BY <1>1, <1>3
  <2> HIDE DEF n
  <2>3. rays - 1 - b = n * q + m /\ m \in 0..(n - 1) /\ q \in Int
    BY <1>1, <2>2, DivMod
  <2> HIDE DEF q, m
  <2>4. q \in Nat /\ n * q >= q
    BY <1>1, <2>2, <2>3
  <2>5. 1 + q \in 0..rays
    BY <1>1, <1>3, <2>3, <2>4
  <2>6. ASSUME NEW i \in Nat \ {0}
        PROVE  i <= 1 + q <=> n * (i - 1) + b < rays
    <3>1. CASE i - 1 <= q
      <4>1. n * (i - 1) <= n * q /\ n * (i - 1) \in Nat /\ n * q \in Nat
        BY <1>1, <2>4, <3>1
      <4> QED
        BY <1>1, <2>3, <3>1, <4>1
    <3>2. CASE i - 1 >= q + 1
      <4>1. n * (i - 1) >= n * (q + 1) /\ n * (q + 1) = n * q + n /\ n * (i - 1) \in Nat
            /\ n * q \in Nat
        BY <1>1, <2>4, <3>2
      <4> QED
        BY <1>1, <2>3, <3>2, <4>1
    <3> QED
      BY <2>4, <3>1, <3>2
  <2> QED
    BY <2>1, <2>5, <2>6 DEF n
<1> QED
  BY <1>2, <1>3

\* All batches of a launch, each once and with its share, make up the launch: as
\* many results as batches, and as many rays as the launch has.
LEMMA WholeLaunch ==
    ASSUME NEW S \in SUBSET BatchResults, NEW rays \in 0..UnsignedRange, Shares(S, rays),
           \A b \in Batches : \E r \in S : r.index = b
    PROVE  /\ IsFiniteSet(S) /\ Cardinality(S) = BatchCount
           /\ {r.index : r \in S} = Batches
           /\ RaysOf(S) = rays
<1> DEFINE n == BatchCount
           of == [b \in Batches |-> CHOOSE r \in S : r.index = b]
<1>1. \A b \in Batches : of[b] \in S /\ of[b].index = b
  OBVIOUS
<1>2. \A r \in S : r.index \in Batches /\ r.rays \in 0..UnsignedRange
  BY DEF BatchResults
<1>3. \A r \in S : of[r.index] = r
  BY <1>1, <1>2 DEF Shares
<1>4. n \in Nat \ {0} /\ Batches = 0..(n - 1) /\ rays \in Nat
  BY Sizes DEF Batches
<1>5. IsFiniteSet(Batches) /\ Cardinality(Batches) = n
  <2>1. 0 \in Int /\ n - 1 \in Int /\ (IF 0 > n - 1 THEN 0 ELSE n - 1 - 0 + 1) = n
    BY <1>4
  <2>2. /\ IsFiniteSet(0..(n - 1))
        /\ Cardinality(0..(n - 1)) = IF 0 > n - 1 THEN 0 ELSE n - 1 - 0 + 1
    BY <2>1, FS_Interval
  <2> QED
    BY <1>4, <2>1, <2>2
<1>6. of \in Bijection(Batches, S)
  <2>1. of \in [Batches -> S]
    OBVIOUS
  <2>2. \A b, c \in Batches : of[b] = of[c] => b = c
    BY <1>1
  <2>3. \A r \in S : \E b \in Batches : of[b] = r
    BY <1>2, <1>3
  <2> HIDE DEF of
  <2> QED
    BY <2>1, <2>2, <2>3 DEF Bijection, Injection, Surjection, IsInjective
<1>7. IsFiniteSet(S) /\ Cardinality(S) = n
  BY <1>5, <1>6, FS_Bijection DEF ExistsBijection
<1>8. {r.index : r \in S} = Batches
  BY <1>2
<1>9. RaysOf(S) = Cardinality(RaysIn(S, UnsignedRange))
  BY <1>2, <1>7, Sizes, RaysAddUp
<1> HIDE DEF n
<1>10. Cardinality(RaysIn(S, UnsignedRange)) = rays
  <2> DEFINE N == 0..(rays - 1)
             ray == [j \in N |-> <<of[j % n], (j \div n) + 1>>]
  <2>1. ASSUME NEW j \in N
        PROVE  /\ j % n \in Batches /\ (j \div n) + 1 \in 1..UnsignedRange
               /\ j = n * (j \div n) + (j % n) /\ j \div n \in Nat
    <3>1. j \in Nat /\ j < rays
      BY <1>4
    <3> DEFINE q == j \div n
               m == j % n
    <3>2. j = n * q + m /\ m \in 0..(n - 1) /\ q \in Int
      BY <1>4, <3>1, DivMod
    <3> HIDE DEF q, m
    <3>3. q \in Nat /\ q <= j
      BY <1>4, <3>1, <3>2
    <3>4. q + 1 \in 1..UnsignedRange
      BY <3>1, <3>3, Sizes
    <3> QED
      BY <1>4, <3>2, <3>3, <3>4 DEF q, m
  <2>2. ASSUME NEW r \in S, NEW i \in 1..UnsignedRange
        PROVE  <<r, i>> \in RaysIn(S, UnsignedRange) <=> n * (i - 1) + r.index < rays
    <3>1. i \in Nat \ {0} /\ r.index \in Batches /\ r.rays = BatchRays(rays, r.index)
      BY <1>2 DEF Shares
    <3>2. i <= r.rays <=> n * (i - 1) + r.index < rays
      BY <1>4, <3>1, RaysOfABatch DEF n
    <3> QED
      BY <3>2 DEF RaysIn
  <2>3. ray \in [N -> RaysIn(S, UnsignedRange)]
    <3>1. ASSUME NEW j \in N PROVE ray[j] \in RaysIn(S, UnsignedRange)
      <4> DEFINE b == j % n
                 q == j \div n
                 i == q + 1
      <4>1. /\ b \in Batches /\ i \in 1..UnsignedRange /\ q \in Nat
            /\ j = n * q + b /\ j < rays
        <5>1. j < rays
          BY <1>4
        <5> HIDE DEF N
        <5>2. j \in N
          OBVIOUS
        <5> QED
          BY <2>1, <5>1, <5>2
      <4>2. b \in Batches /\ i \in 1..UnsignedRange /\ n * (i - 1) + b < rays
        <5>1. i - 1 = q
          BY <4>1
        <5> HIDE DEF b, q, i
        <5> QED
          BY <4>1, <5>1
      <4>3. ray[j] = <<of[b], i>> /\ of[b] \in S /\ of[b].index = b
        BY <1>1, <4>2
      <4> HIDE DEF b, q, i, ray, of
      <4> QED
        BY <2>2, <4>2, <4>3
    <3> QED
      BY <3>1
  <2>4. ASSUME NEW j \in N, NEW k \in N, ray[j] = ray[k]
        PROVE  j = k
    <3>1. of[j % n] = of[k % n] /\ (j \div n) + 1 = (k \div n) + 1
      <4>1. \A l \in N : ray[l] = <<of[l % n], (l \div n) + 1>>
        OBVIOUS
      <4> DEFINE bj == of[j % n]
                 bk == of[k % n]
                 ij == (j \div n) + 1
                 ik == (k \div n) + 1
      <4>2. <<bj, ij>> = <<bk, ik>>
        <5> HIDE DEF ray, of
        <5> QED
          BY <2>4, <4>1
      <4> HIDE DEF bj, bk, ij, ik
      <4>3. bj = bk /\ ij = ik
        BY <4>2
      <4> QED
        BY <4>3 DEF bj, bk, ij, ik
    <3>2. j % n = k % n
      BY <1>1, <2>1, <3>1
    <3>3. j \div n = k \div n
      BY <2>1, <3>1
    <3> QED
      BY <2>1, <3>2, <3>3
  <2>5. ASSUME NEW x \in RaysIn(S, UnsignedRange)
        PROVE  \E j \in N : ray[j] = x
    <3>1. PICK r \in S, i \in 1..UnsignedRange : x = <<r, i>>
      BY DEF RaysIn
    <3> DEFINE j == n * (i - 1) + r.index
    <3>2. j < rays
      BY <2>2, <2>5, <3>1
    <3>3. r.index \in 0..(n - 1) /\ i - 1 \in Nat /\ i \in Int
      BY <1>2, <1>4
    <3>4. j \in N
      <4>1. n * (i - 1) \in Nat
        BY <1>4, <3>3
      <4> QED
        BY <1>4, <3>2, <3>3, <4>1
    <3>5. j \div n = i - 1 /\ j % n = r.index
      <4> DEFINE q == j \div n
                 m == j % n
      <4>1. j \in Int
        BY <1>4, <3>4
      <4>2. n * q + m = j /\ m \in 0..(n - 1) /\ q \in Int
        <5> HIDE DEF j
        <5> QED
          BY <1>4, <4>1, DivMod
      <4> HIDE DEF q, m
      <4>3. n * q + m = n * (i - 1) + r.index
        BY <4>2
      <4>4. q = i - 1 /\ m = r.index
        BY <1>4, <3>3, <4>2, <4>3, DivModUnique
      <4> QED
        BY <4>4 DEF q, m
    <3>6. ray[j] = <<of[r.index], i>>
      <4>1. ray[j] = <<of[j % n], (j \div n) + 1>>
        BY <3>4
      <4>2. (i - 1) + 1 = i
        BY <3>3
      <4> HIDE DEF j, ray, of
      <4> QED
        BY <3>5, <4>1, <4>2
    <3>7. ray[j] = x
      BY <1>3, <3>1, <3>6
    <3> QED
      BY <3>4, <3>7
  <2>6. ray \in Bijection(N, RaysIn(S, UnsignedRange))
    <3> HIDE DEF ray, N
    <3> QED
      BY <2>3, <2>4, <2>5 DEF Bijection, Injection, Surjection, IsInjective
  <2>7. IsFiniteSet(N) /\ Cardinality(N) = rays
    <3>1. 0 \in Int /\ rays - 1 \in Int
          /\ (IF 0 > rays - 1 THEN 0 ELSE rays - 1 - 0 + 1) = rays
      BY <1>4
    <3>2. /\ IsFiniteSet(0..(rays - 1))
          /\ Cardinality(0..(rays - 1)) = IF 0 > rays - 1 THEN 0 ELSE rays - 1 - 0 + 1
      BY <3>1, FS_Interval
    <3> QED
      BY <3>1, <3>2
  <2> HIDE DEF N, ray
  <2> QED
    BY <2>6, <2>7, FS_Bijection DEF ExistsBijection
<1> QED
  BY <1>7, <1>8, <1>9, <1>10 DEF n
-----------------------------------------------------------------------------
(* The schedule of ray targets.                                            *)

\* A finite set of natural numbers has a greatest element.
LEMMA GreatestOf ==
    ASSUME NEW S \in SUBSET Nat, S # {}, IsFiniteSet(S)
    PROVE  \E m \in S : \A n \in S : m >= n
<1> DEFINE Greatest(T) == \E m \in T : \A n \in T : m >= n
           Without == {k \in Nat : \E T \in SUBSET S :
                          Cardinality(T) = k /\ T # {} /\ ~Greatest(T)}
<1>1. \A T \in SUBSET S : IsFiniteSet(T) /\ Cardinality(T) \in Nat
  BY FS_Subset, FS_CardinalityType
<1>2. SUFFICES ASSUME ~Greatest(S) PROVE FALSE
  OBVIOUS
<1>3. Without # {} /\ Without \in SUBSET Nat
  BY <1>1, <1>2
<1>4. PICK k \in Without : \A l \in Without : k <= l
  <2> HIDE DEF Without
  <2> QED
    BY <1>3, LeastOf
<1>5. PICK T \in SUBSET S : Cardinality(T) = k /\ T # {} /\ ~Greatest(T)
  OBVIOUS
<1>6. PICK x \in T : TRUE
  BY <1>5
<1> DEFINE U == T \ {x}
<1>7. Cardinality(U) = k - 1 /\ Cardinality(U) \in Nat /\ U \in SUBSET S /\ k \in Nat
  <2>1. U \in SUBSET S
    OBVIOUS
  <2>2. Cardinality(U) = Cardinality(T) - 1
    BY <1>1, FS_RemoveElement
  <2>3. k \in Nat
    OBVIOUS
  <2> QED
    BY <1>1, <1>5, <2>1, <2>2, <2>3
<1>8. k - 1 \notin Without
  <2> HIDE DEF Without, U
  <2> QED
    BY <1>4, <1>7
<1>9. U = {} \/ Greatest(U)
  <2> HIDE DEF Greatest, U
  <2> QED
    BY <1>7, <1>8
<1>10. CASE U = {}
  <2>1. T = {x} /\ x \in Nat
    BY <1>10
  <2> QED
    BY <1>5, <2>1
<1>11. CASE Greatest(U)
  <2>1. PICK m \in U : \A n \in U : m >= n
    BY <1>11
  <2>2. m \in Nat /\ x \in Nat /\ \A n \in T : n \in Nat
    OBVIOUS
  <2>3. \A n \in T : n = x \/ n \in U
    OBVIOUS
  <2>4. CASE m >= x
    BY <1>5, <2>1, <2>2, <2>3, <2>4
  <2>5. CASE x > m
    <3>1. \A n \in T : x >= n
      <4> HIDE DEF U
      <4> QED
        BY <2>1, <2>2, <2>3, <2>5
    <3> QED
      BY <1>5, <3>1
  <2> QED
    BY <2>2, <2>4, <2>5
<1> QED
  BY <1>9, <1>10, <1>11

\* The number of launches that is counted.
LEMMA Cap ==
    MaxSteps \in Nat /\ LaunchCap \in Nat \ {0}
<1>1. \E m \in StepCounts : \A n \in StepCounts : m >= n
  BY StepCountsAssumption, GreatestOf
<1>2. MaxSteps \in StepCounts
  BY <1>1 DEF MaxSteps, Max
<1> QED
  BY <1>2, StepCountsAssumption DEF LaunchCap

\* The lesser and the greater of two numbers.
LEMMA OfTwo ==
    ASSUME NEW a \in Int, NEW b \in Int
    PROVE  /\ Min({a, b}) = IF a <= b THEN a ELSE b
           /\ Max({a, b}) = IF a >= b THEN a ELSE b
<1>1. CASE a <= b
  BY <1>1 DEF Min, Max
<1>2. CASE b <= a
  BY <1>2 DEF Min, Max
<1> QED
  BY <1>1, <1>2

\* Whatever a step's power and its rounding come to, the target is within the
\* limits, or the fixed number of rays.
LEMMA TargetInRange ==
    ASSUME NEW e \in Experiments, NEW k \in Nat
    PROVE  /\ AdaptiveRayTarget(e, k) \in 0..(UnsignedRange - 1)
           /\ e.forwardRayCount # 0 => AdaptiveRayTarget(e, k) = e.forwardRayCount
           /\ e.forwardRayCount = 0 => AdaptiveRayTarget(e, k) \in e.minRays..e.maxRays
<1> DEFINE lo == e.minRays
           hi == e.maxRays
           fixed == e.forwardRayCount
           t == GeometricSteps(lo, hi, e.adaptiveSteps, k)
<1>1. /\ lo \in 1..(UnsignedRange - 1) /\ hi \in 1..(UnsignedRange - 1) /\ lo <= hi
      /\ fixed \in 0..(UnsignedRange - 1)
      /\ UnsignedRange \in Nat
  <2>1. lo \in RayLimits /\ hi \in RayLimits /\ lo <= hi /\ fixed \in FixedRayCounts
    BY DEF Experiments
  <2> QED
    BY <2>1, RayLimitsAssumption
<1>2. t \in lo..hi
  <2> DEFINE Candidates == {hi} \union {u \in lo..hi : Reaches(u, lo, hi, e.adaptiveSteps, k)}
  <2>1. Candidates \in SUBSET Nat /\ Candidates # {} /\ Candidates \subseteq lo..hi
    BY <1>1
  <2>2. t = Min(Candidates)
    BY DEF GeometricSteps
  <2> HIDE DEF Candidates, t
  <2>3. \E m \in Candidates : \A n \in Candidates : m <= n
    BY <2>1, LeastOf
  <2>4. Min(Candidates) \in Candidates
    BY <2>3 DEF Min
  <2> QED
    BY <2>1, <2>2, <2>4
<1>3. Ceiling(lo, hi, e.adaptiveSteps, k) \in Int
  <2>1. Ceiling(lo, hi, e.adaptiveSteps, k) \in {t, t + 1}
    BY DEF Ceiling
  <2> HIDE DEF t
  <2> QED
    BY <1>1, <1>2, <2>1
<1> HIDE DEF t
<1>4. \A c \in Int : Clamp(c, lo, hi) \in lo..hi
  <2> TAKE c \in Int
  <2>1. Min({c, hi}) = IF c <= hi THEN c ELSE hi
    BY <1>1, OfTwo
  <2> DEFINE b == Min({c, hi})
  <2>2. b \in Int /\ b <= hi /\ lo \in Int
    BY <1>1, <2>1
  <2> HIDE DEF b
  <2>3. Max({lo, b}) = IF lo >= b THEN lo ELSE b
    BY <2>2, OfTwo
  <2>4. Max({lo, b}) \in lo..hi
    BY <1>1, <2>2, <2>3
  <2> QED
    BY <2>4 DEF Clamp, b
<1>5. CASE IsFixed(e)
  <2>1. AdaptiveRayTarget(e, k) = IF fixed = 0 THEN lo ELSE fixed
    BY <1>5 DEF AdaptiveRayTarget
  <2> QED
    BY <1>1, <2>1
<1>6. CASE ~IsFixed(e)
  <2>1. fixed = 0
    BY <1>6 DEF IsFixed
  <2>2. \/ AdaptiveRayTarget(e, k) = hi
        \/ AdaptiveRayTarget(e, k) = Clamp(Ceiling(lo, hi, e.adaptiveSteps, k), lo, hi)
    BY <1>6 DEF AdaptiveRayTarget
  <2>3. AdaptiveRayTarget(e, k) \in lo..hi
    BY <1>1, <1>3, <1>4, <2>2
  <2> QED
    BY <1>1, <2>1, <2>3
<1> QED
  BY <1>5, <1>6

\* A launch traces what its target has more than the rays already counted, modulo
\* the range of unsigned; adding it gives the target.
LEMMA LaunchSize ==
    ASSUME Types, NEW w \in Workers
    PROVE  /\ Target(w) \in 0..(UnsignedRange - 1)
           /\ LaunchRays(w) \in 0..(UnsignedRange - 1)
           /\ (raw[w].rayCount + LaunchRays(w)) % UnsignedRange = Target(w)
           /\ raw[w].rayCount = 0 => LaunchRays(w) = Target(w)
<1> DEFINE n == UnsignedRange
           c == raw[w].rayCount
           t == Target(w)
<1>1. n \in Nat \ {0} /\ c \in 0..(n - 1)
  BY Sizes DEF Types, RawResults
<1>2. launches[w] \in Nat
  BY Cap DEF Types, TypeOK
<1>3. t \in 0..(n - 1)
  BY <1>2, TargetInRange DEF Types, TypeOK, Target
<1>4. LaunchRays(w) = (t - c) % n
  BY DEF LaunchRays
<1> HIDE DEF n, c, t
<1>5. CASE t >= c
  <2>1. t - c \in 0..(n - 1) /\ c + (t - c) = t
    BY <1>1, <1>3, <1>5
  <2>2. (t - c) % n = t - c /\ t % n = t
    BY <1>1, <1>3, <2>1, ModSmall
  <2>3. c = 0 => t - c = t
    BY <1>3
  <2> QED
    BY <1>3, <1>4, <2>1, <2>2, <2>3 DEF n, c, t
<1>6. CASE t < c
  <2>1. t - c \in Int /\ (t - c) + n \in 0..(n - 1) /\ c + ((t - c) + n) = t + n /\ t \in Int
    BY <1>1, <1>3, <1>6
  <2>2. (t - c) % n = (t - c) + n
    BY <1>1, <2>1, ModSmall, ModShift
  <2>3. (t + n) % n = t
    BY <1>1, <1>3, <2>1, ModSmall, ModShift
  <2>4. c # 0
    BY <1>3, <1>6
  <2> QED
    BY <1>3, <1>4, <2>1, <2>2, <2>3, <2>4 DEF n, c, t
<1> QED
  BY <1>1, <1>3, <1>5, <1>6
-----------------------------------------------------------------------------
(* The steps.                                                              *)

\* Everything starts with nothing traced.
LEMMA Starts ==
    Init => AdaptiveInv
<1> SUFFICES ASSUME Init PROVE AdaptiveInv
  OBVIOUS
<1>1. ASSUME NEW w \in Workers
      PROVE  FirstBatch(w) = w /\ w \in Nat /\ w < NumWorkers /\ w % NumWorkers = w
  <2>1. w \in Int /\ BatchCount \in Int /\ w <= BatchCount
    BY Sizes
  <2> QED
    BY <2>1, Sizes, OfTwo DEF FirstBatch
<1>2. [b \in Batches |-> 0] \in [Batches -> Nat] /\ 0 \in 0..(UnsignedRange - 1)
      /\ 0 \in 0..LaunchCap
  BY Sizes, Cap
<1>3. \A w \in Workers : raw[w] = [batches |-> NoBatches, rayCount |-> 0, srm |-> {}]
  BY DEF Init
<1>4. raw \in [Workers -> RawResults]
  <2>1. [batches |-> NoBatches, rayCount |-> 0, srm |-> {}] \in RawResults
    BY <1>2 DEF NoBatches, RawResults
  <2> QED
    BY <2>1 DEF Init
<1>5. Types
  <2>1. TypeOK
    BY <1>1, <1>2, <1>3 DEF Init, TypeOK, NoBatches
  <2> QED
    BY <1>4, <2>1 DEF Init, Types
<1>6. NoAccountingError
  BY DEF Init, NoAccountingError
<1>7. ASSUME NEW w \in Workers
      PROVE  Holds(w) /\ Complete(w) /\ Stopped(w) /\ FirstLaunch(w)
  <2>1. pc[w] = "tracing" /\ next[w] = w /\ local[w] = {} /\ raw[w].rayCount = 0
    BY <1>1, <1>3 DEF Init
  <2>2. \A b \in Batches : ~(b % NumWorkers = w /\ b < next[w])
    <3> TAKE b \in Batches
    <3>1. SUFFICES ASSUME b < w, b % NumWorkers = w PROVE FALSE
      BY <2>1
    <3>2. b \in 0..(NumWorkers - 1)
      BY <1>1, <3>1, Sizes
    <3>3. b % NumWorkers = b
      BY <3>2, Sizes, ModSmall
    <3> QED
      BY <1>1, <3>1, <3>2, <3>3
  <2>3. Shares(local[w], LaunchRays(w))
    BY <2>1 DEF Shares
  <2> QED
    BY <1>1, <2>1, <2>2, <2>3 DEF Holds, Complete, Stopped, FirstLaunch
<1>8. ASSUME NEW w \in Workers, NEW v \in Workers
      PROVE  Agree(w, v)
  BY DEF Init, Agree, Phase, SameState
<1>9. StatusIsCurrent
  BY <1>1, <1>3 DEF Init, StatusIsCurrent
<1> QED
  BY <1>5, <1>6, <1>7, <1>8, <1>9 DEF AdaptiveInv

\* The target of a worker, and the rays of its launch, depend on its own counts.
LEMMA SameTarget ==
    ASSUME UNCHANGED <<experiment, roundUp>>, NEW w, launches'[w] = launches[w]
    PROVE  /\ Target(w)' = Target(w)
           /\ raw'[w] = raw[w] => LaunchRays(w)' = LaunchRays(w)
<1>1. Target(w)' = Target(w)
  BY DEF Target, AdaptiveRayTarget, IsFixed, Ceiling
<1> QED
  BY <1>1 DEF LaunchRays

\* And so does what it will decide.
LEMMA SameDecision ==
    ASSUME UNCHANGED <<experiment, roundUp, gathered, met>>, NEW w,
           launches'[w] = launches[w], raw'[w] = raw[w], convergence'[w] = convergence[w]
    PROVE  /\ Decision(w)' = Decision(w)
           /\ Counted(w)' = Counted(w)
           /\ Merged(raw[w])' = Merged(raw[w])
           /\ StopCondition(w)' = StopCondition(w)
<1>1. Target(w)' = Target(w)
  BY SameTarget
<1>2. StopCondition(w)' = StopCondition(w)
  BY <1>1 DEF StopCondition
<1>3. Decision(w)' = Decision(w)
  BY <1>2 DEF Decision
<1>4. Counted(w)' = Counted(w)
  BY <1>1 DEF Counted, NewlyConverged
<1>5. Merged(raw[w])' = Merged(raw[w])
  BY DEF Merged
<1> QED
  BY <1>2, <1>3, <1>4, <1>5

\* Workers go on agreeing while they only trace and offer.
LEMMA AgreeingGoesOn ==
    ASSUME UNCHANGED <<experiment, roundUp, gathered, met, launches, raw, convergence>>,
           NEW w, NEW v, Agree(w, v),
           pc'[w] = "merging" <=> pc[w] = "merging", Phase(w)' = Phase(w),
           pc'[v] = "merging" <=> pc[v] = "merging", Phase(v)' = Phase(v)
    PROVE  Agree(w, v)'
<1>1. Decision(w)' = Decision(w) /\ Counted(w)' = Counted(w)
      /\ Merged(raw[w])' = Merged(raw[w])
  BY SameDecision
<1>2. SameState(w, v)' <=> SameState(w, v)
  BY DEF SameState
<1>3. Behind(w, v)' <=> Behind(w, v)
  BY <1>1 DEF Behind
<1> QED
  BY <1>2, <1>3 DEF Agree

\* Tracing a batch.
LEMMA TraceKeeps ==
    ASSUME AdaptiveInv, NEW w \in Workers, Trace(w)
    PROVE  AdaptiveInv'
<1> DEFINE rays == BatchRays(LaunchRays(w), next[w])
           srm == BatchSrm(w, rays)
           new == [index |-> next[w], rays |-> rays, srm |-> srm]
<1>1. /\ pc[w] = "tracing" /\ next[w] < BatchCount
      /\ deviceSrm' = [deviceSrm EXCEPT ![w] = srm]
      /\ local' = [local EXCEPT ![w] = @ \union {new}]
      /\ next' = [next EXCEPT ![w] = @ + NumWorkers]
      /\ UNCHANGED <<experiment, roundUp, pc, gathered, met, dropped, launches,
                     raw, convergence>>
  BY DEF Trace
<1>2. next[w] \in Batches /\ next[w] \in Nat
  <2>1. next[w] \in Nat
    BY DEF AdaptiveInv, Types, TypeOK
  <2> QED
    BY <1>1, <2>1, Sizes DEF Batches
<1>3. LaunchRays(w) \in 0..(UnsignedRange - 1) /\ LaunchRays(w) \in Nat
  BY Sizes, LaunchSize DEF AdaptiveInv
<1>4. rays \in 0..UnsignedRange
  <2>1. rays \in 0..LaunchRays(w)
    BY <1>2, <1>3, RaysOfABatch
  <2> HIDE DEF rays
  <2> QED
    BY <1>3, <2>1, Sizes
<1>5. srm \in {"earlier", "current"}
  BY DEF BatchSrm, AdaptiveInv, Types, TypeOK
<1> HIDE DEF rays, srm
<1>6. new \in BatchResults
  BY <1>2, <1>4, <1>5 DEF BatchResults
<1>7. \A v \in Workers : local'[v] = IF v = w THEN local[w] \union {new} ELSE local[v]
  BY <1>1 DEF AdaptiveInv, Types
<1>8. \A v \in Workers : next'[v] = IF v = w THEN next[w] + NumWorkers ELSE next[v]
  BY <1>1 DEF AdaptiveInv, Types, TypeOK
<1>9. \A v \in Workers : Target(v)' = Target(v) /\ LaunchRays(v)' = LaunchRays(v)
  BY <1>1, SameTarget
<1>10. Types'
  <2>1. local' \in [Workers -> SUBSET BatchResults]
    BY <1>1, <1>6 DEF AdaptiveInv, Types
  <2>2. next' \in [Workers -> Nat]
    BY <1>1, <1>2, Sizes DEF AdaptiveInv, Types, TypeOK
  <2>3. deviceSrm' \in [Workers -> {"earlier", "current"}]
    BY <1>1, <1>5 DEF AdaptiveInv, Types, TypeOK
  <2>4. \A v \in Workers : local'[v] \subseteq BatchResults
    BY <2>1
  <2>5. TypeOK'
    BY <1>1, <2>2, <2>3, <2>4 DEF AdaptiveInv, Types, TypeOK, BatchResults
  <2> QED
    BY <1>1, <2>1, <2>5 DEF AdaptiveInv, Types
<1>11. NoAccountingError'
  BY <1>1 DEF AdaptiveInv, NoAccountingError
<1>12. Holds(w)'
  <2>1. /\ next[w] % NumWorkers = w
        /\ Shares(local[w], LaunchRays(w))
        /\ \A r \in local[w] : r.index % NumWorkers = w /\ r.index < next[w]
        /\ \A b \in Batches : b % NumWorkers = w /\ b < next[w] =>
               \E r \in local[w] : r.index = b
    BY <1>1 DEF AdaptiveInv, Holds
  <2>2. next'[w] = next[w] + NumWorkers /\ local'[w] = local[w] \union {new}
        /\ pc'[w] = "tracing"
    BY <1>1, <1>7, <1>8
  <2>3. (next[w] + NumWorkers) % NumWorkers = w
    <3>1. next[w] \in Int
      BY <1>2
    <3> QED
      BY <2>1, <3>1, Sizes, ModShift
  <2>4. \A r \in local[w] : r.index \in Nat
    BY Sizes DEF AdaptiveInv, Types, BatchResults
  <2>5. new.index = next[w] /\ new.rays = BatchRays(LaunchRays(w), next[w])
    BY DEF rays
  <2> HIDE DEF new
  <2>6. Shares(local[w] \union {new}, LaunchRays(w))
    <3>1. \A r \in local[w] : r.index # new.index
      BY <1>2, <2>1, <2>4, <2>5
    <3> QED
      BY <2>1, <2>5, <3>1 DEF Shares
  <2>7. \A r \in local[w] \union {new} :
            r.index % NumWorkers = w /\ r.index < next[w] + NumWorkers
    BY <1>2, <2>1, <2>4, <2>5, Sizes
  <2>8. ASSUME NEW b \in Batches, b % NumWorkers = w, b < next[w] + NumWorkers
        PROVE  \E r \in local[w] \union {new} : r.index = b
    <3>1. CASE b < next[w]
      BY <2>1, <2>8, <3>1
    <3>2. CASE next[w] <= b
      <4>1. next[w] = b
        BY <1>2, <2>1, <2>8, <3>2, Sizes, SameRemainder
      <4> QED
        BY <2>5, <4>1
    <3> QED
      BY <1>2, <3>1, <3>2, Sizes
  <2>9. LaunchRays(w)' = LaunchRays(w)
    BY <1>9
  <2>10. Shares(local[w], LaunchRays(w))' <=> Shares(local'[w], LaunchRays(w)')
    BY DEF Shares
  <2> QED
    BY <2>2, <2>3, <2>6, <2>7, <2>8, <2>9, <2>10 DEF Holds
<1>13. ASSUME NEW v \in Workers, v # w
       PROVE  Holds(v)'
  <2>1. next'[v] = next[v] /\ local'[v] = local[v] /\ pc'[v] = pc[v]
        /\ LaunchRays(v)' = LaunchRays(v)
    BY <1>1, <1>7, <1>8, <1>9, <1>13
  <2>2. Holds(v)
    BY DEF AdaptiveInv
  <2>3. Shares(local[v], LaunchRays(v))' <=> Shares(local'[v], LaunchRays(v)')
    BY DEF Shares
  <2> QED
    BY <2>1, <2>2, <2>3 DEF Holds
<1>14. ASSUME NEW v \in Workers
       PROVE  Complete(v)' /\ Stopped(v)' /\ FirstLaunch(v)'
  <2>1. Complete(v) /\ Stopped(v) /\ FirstLaunch(v)
    BY DEF AdaptiveInv
  <2>2. StopCondition(v)' = StopCondition(v)
    BY <1>1, SameDecision
  <2>3. Shares(gathered, LaunchRays(v))' <=> Shares(gathered', LaunchRays(v)')
    BY DEF Shares
  <2> QED
    BY <1>1, <1>9, <2>1, <2>2, <2>3 DEF Complete, Stopped, FirstLaunch
<1>15. ASSUME NEW u \in Workers, NEW v \in Workers
       PROVE  Agree(u, v)'
  <2>1. Agree(u, v) /\ Phase(u)' = Phase(u) /\ Phase(v)' = Phase(v)
    BY <1>1 DEF AdaptiveInv, Phase
  <2> QED
    BY <1>1, <2>1, AgreeingGoesOn
<1>16. StatusIsCurrent'
  <2>1. AdaptiveRayTarget(experiment, 0)' = AdaptiveRayTarget(experiment, 0)
    BY <1>1 DEF AdaptiveRayTarget, IsFixed, Ceiling
  <2>2. SUFFICES ASSUME AdaptiveRayTarget(experiment, 0) >= NumWorkers
                 PROVE  StatusIsCurrent'
    BY <2>1 DEF StatusIsCurrent
  <2>3. /\ \A r \in gathered : r.srm = "current"
        /\ \A v \in Workers :
              /\ \/ deviceSrm[v] = "current"
                 \/ launches[v] = 0 /\ pc[v] = "tracing" /\ next[v] = v
              /\ \A r \in local[v] : r.srm = "current"
              /\ raw[v].srm \subseteq {"current"}
    BY <2>2 DEF AdaptiveInv, StatusIsCurrent
  <2>4. srm = "current"
    <3>1. CASE deviceSrm[w] = "current"
      BY <3>1 DEF srm, BatchSrm
    <3>2. CASE launches[w] = 0 /\ next[w] = w
      <4>1. raw[w].rayCount = 0
        BY <1>1, <3>2 DEF AdaptiveInv, FirstLaunch
      <4>2. LaunchRays(w) = AdaptiveRayTarget(experiment, 0)
        BY <3>2, <4>1, LaunchSize DEF AdaptiveInv, Target
      <4>3. w < LaunchRays(w) /\ w \in Batches /\ BatchCount * (1 - 1) + w = w
        BY <1>3, <2>2, <4>2, Sizes
      <4>4. 1 <= BatchRays(LaunchRays(w), w)
        BY <1>3, <4>3, RaysOfABatch
      <4>5. rays # 0
        BY <1>4, <3>2, <4>4 DEF rays
      <4> QED
        BY <4>5 DEF srm, BatchSrm
    <3> QED
      BY <2>3, <3>1, <3>2
  <2>5. \A v \in Workers : deviceSrm'[v] = IF v = w THEN srm ELSE deviceSrm[v]
    BY <1>1 DEF AdaptiveInv, Types, TypeOK
  <2>6. \A v \in Workers : \A r \in local'[v] : r.srm = "current"
    BY <1>7, <2>3, <2>4
  <2>7. \A v \in Workers :
            \/ deviceSrm'[v] = "current"
            \/ launches'[v] = 0 /\ pc'[v] = "tracing" /\ next'[v] = v
    BY <1>1, <1>8, <2>3, <2>4, <2>5
  <2> QED
    BY <1>1, <2>3, <2>6, <2>7 DEF StatusIsCurrent
<1> QED
  BY <1>10, <1>11, <1>12, <1>13, <1>14, <1>15, <1>16 DEF AdaptiveInv

\* Having traced its last batch.
LEMMA OfferKeeps ==
    ASSUME AdaptiveInv, NEW w \in Workers, OfferBatches(w)
    PROVE  AdaptiveInv'
<1>1. /\ pc[w] = "tracing" /\ next[w] >= BatchCount
      /\ pc' = [pc EXCEPT ![w] = "gathering"]
      /\ UNCHANGED <<experiment, roundUp, next, local, gathered, met, dropped,
                     deviceSrm, launches, raw, convergence>>
  BY DEF OfferBatches
<1>2. \A v \in Workers : pc'[v] = IF v = w THEN "gathering" ELSE pc[v]
  BY <1>1 DEF AdaptiveInv, Types, TypeOK
<1>3. \A v \in Workers : Target(v)' = Target(v) /\ LaunchRays(v)' = LaunchRays(v)
                         /\ StopCondition(v)' = StopCondition(v)
  BY <1>1, SameTarget, SameDecision
<1>4. Types'
  <2>1. pc' \in [Workers -> {"tracing", "gathering", "merging", "done", "thrown"}]
    BY <1>1 DEF AdaptiveInv, Types, TypeOK
  <2> QED
    BY <1>1, <2>1 DEF AdaptiveInv, Types, TypeOK
<1>5. NoAccountingError'
  BY <1>2 DEF AdaptiveInv, NoAccountingError
<1>6. ASSUME NEW v \in Workers
      PROVE  Holds(v)' /\ Complete(v)' /\ Stopped(v)' /\ FirstLaunch(v)'
  <2>1. Holds(v) /\ Complete(v) /\ Stopped(v) /\ FirstLaunch(v)
    BY DEF AdaptiveInv
  <2>2. /\ Shares(gathered, LaunchRays(v))' <=> Shares(gathered', LaunchRays(v)')
        /\ Shares(local[v], LaunchRays(v))' <=> Shares(local'[v], LaunchRays(v)')
    BY DEF Shares
  <2>3. Holds(v)'
    <3>1. CASE v = w
      BY <1>1, <1>2, <1>3, <2>1, <2>2, <3>1 DEF Holds
    <3>2. CASE v # w
      BY <1>1, <1>2, <1>3, <2>1, <2>2, <3>2 DEF Holds
    <3> QED
      BY <3>1, <3>2
  <2>4. Complete(v)' /\ Stopped(v)' /\ FirstLaunch(v)'
    BY <1>1, <1>2, <1>3, <2>1, <2>2 DEF Complete, Stopped, FirstLaunch
  <2> QED
    BY <2>3, <2>4
<1>7. ASSUME NEW u \in Workers, NEW v \in Workers
      PROVE  Agree(u, v)'
  <2>1. Agree(u, v) /\ Phase(u)' = Phase(u) /\ Phase(v)' = Phase(v)
    BY <1>1, <1>2 DEF AdaptiveInv, Phase
  <2>2. /\ pc'[u] = "merging" <=> pc[u] = "merging"
        /\ pc'[v] = "merging" <=> pc[v] = "merging"
    BY <1>1, <1>2
  <2> QED
    BY <1>1, <2>1, <2>2, AgreeingGoesOn
<1>8. StatusIsCurrent'
  <2>1. AdaptiveRayTarget(experiment, 0)' = AdaptiveRayTarget(experiment, 0)
    BY <1>1 DEF AdaptiveRayTarget, IsFixed, Ceiling
  <2>2. w \in Nat /\ w < NumWorkers /\ NumWorkers <= BatchCount
        /\ NumWorkers \in Nat /\ BatchCount \in Nat
    BY Sizes
  <2>3. next[w] # w
    BY <1>1, <2>2
  <2> QED
    BY <1>1, <1>2, <2>1, <2>3 DEF AdaptiveInv, StatusIsCurrent
<1> QED
  BY <1>4, <1>5, <1>6, <1>7, <1>8 DEF AdaptiveInv

\* The gather: what the workers hold is the whole launch.
LEMMA GatherKeeps ==
    ASSUME AdaptiveInv, Gather
    PROVE  AdaptiveInv'
<1>1. /\ \A w \in Workers : pc[w] = "gathering"
      /\ gathered' = UNION {local[w] : w \in Workers}
      /\ pc' = [w \in Workers |-> "merging"]
      /\ UNCHANGED <<experiment, roundUp, next, local, deviceSrm, launches, raw,
                     convergence>>
  BY DEF Gather
<1>2. met' \subseteq Cells /\ dropped' \subseteq Cells
  <2>1. CASE \A r \in gathered' : r.rays = 0
    BY <2>1 DEF Gather, AdaptiveInv, Types, TypeOK
  <2>2. CASE ~\A r \in gathered' : r.rays = 0
    BY <2>2 DEF Gather, AdaptiveInv, Types, TypeOK
  <2> QED
    BY <2>1, <2>2
<1>3. \A r : r \in gathered' <=> \E w \in Workers : r \in local[w]
  BY <1>1
<1>4. \A w \in Workers : Target(w)' = Target(w) /\ LaunchRays(w)' = LaunchRays(w)
  BY <1>1, SameTarget
<1>5. ASSUME NEW w \in Workers, NEW v \in Workers
      PROVE  SameState(w, v) /\ LaunchRays(w) = LaunchRays(v)
  <2>1. SameState(w, v)
    BY <1>1 DEF AdaptiveInv, Agree
  <2> QED
    BY <2>1 DEF SameState, LaunchRays, Target
<1>6. Types'
  <2>1. gathered' \in SUBSET BatchResults
    BY <1>3 DEF AdaptiveInv, Types
  <2>2. pc' \in [Workers -> {"tracing", "gathering", "merging", "done", "thrown"}]
    BY <1>1
  <2>3. TypeOK'
    BY <1>1, <1>2, <2>2 DEF AdaptiveInv, Types, TypeOK
  <2> QED
    BY <1>1, <2>1, <2>3 DEF AdaptiveInv, Types
<1>7. NoAccountingError'
  BY <1>1 DEF NoAccountingError
<1>8. ASSUME NEW w \in Workers
      PROVE  Complete(w)'
  <2>1. \A v \in Workers :
            /\ next[v] >= BatchCount
            /\ Shares(local[v], LaunchRays(v))
            /\ \A r \in local[v] : r.index % NumWorkers = v
            /\ \A b \in Batches : b % NumWorkers = v /\ b < next[v] =>
                   \E r \in local[v] : r.index = b
    BY <1>1 DEF AdaptiveInv, Holds
  <2>2. Shares(gathered', LaunchRays(w))
    <3>1. ASSUME NEW r \in gathered'
          PROVE  r.rays = BatchRays(LaunchRays(w), r.index)
      BY <1>3, <1>5, <2>1 DEF Shares
    <3>2. ASSUME NEW r \in gathered', NEW q \in gathered', r.index = q.index
          PROVE  r = q
      <4>1. PICK v \in Workers : r \in local[v]
        BY <1>3
      <4>2. PICK u \in Workers : q \in local[u]
        BY <1>3
      <4>3. u = v
        BY <2>1, <3>2, <4>1, <4>2
      <4> QED
        BY <2>1, <3>2, <4>1, <4>2, <4>3 DEF Shares
    <3> QED
      BY <3>1, <3>2 DEF Shares
  <2>3. ASSUME NEW b \in Batches
        PROVE  \E r \in gathered' : r.index = b
    <3>1. b % NumWorkers \in Workers /\ b \in Nat /\ b < BatchCount /\ BatchCount \in Nat
      BY Sizes
    <3>2. \A v \in Workers : next[v] \in Nat
      BY DEF AdaptiveInv, Types, TypeOK
    <3>3. b < next[b % NumWorkers]
      BY <2>1, <3>1, <3>2
    <3>4. \E r \in local[b % NumWorkers] : r.index = b
      BY <2>1, <3>1, <3>3
    <3> QED
      BY <1>3, <3>1, <3>4
  <2>4. Shares(gathered, LaunchRays(w))' <=> Shares(gathered', LaunchRays(w)')
    BY DEF Shares
  <2> QED
    BY <1>4, <2>2, <2>3, <2>4 DEF Complete
<1>9. ASSUME NEW w \in Workers
      PROVE  Holds(w)' /\ Stopped(w)' /\ FirstLaunch(w)'
  <2>1. FirstLaunch(w)
    BY DEF AdaptiveInv
  <2> QED
    BY <1>1, <2>1 DEF Holds, Stopped, FirstLaunch
<1>10. ASSUME NEW w \in Workers, NEW v \in Workers
       PROVE  Agree(w, v)'
  <2>1. SameState(w, v)'
    BY <1>1, <1>5 DEF SameState
  <2> QED
    BY <1>1, <2>1 DEF Agree
<1>11. StatusIsCurrent'
  <2>1. AdaptiveRayTarget(experiment, 0)' = AdaptiveRayTarget(experiment, 0)
    BY <1>1 DEF AdaptiveRayTarget, IsFixed, Ceiling
  <2> QED
    BY <1>1, <1>3, <2>1 DEF AdaptiveInv, StatusIsCurrent
<1> QED
  BY <1>6, <1>7, <1>8, <1>9, <1>10, <1>11 DEF AdaptiveInv

\* The checks that follow a merge hold: all batches are there, once, and the rays
\* add up to the target.
LEMMA Accounted ==
    ASSUME AdaptiveInv, NEW w \in Workers, pc[w] = "merging"
    PROVE  /\ EveryBatchOnce
           /\ Merged(raw[w]).rayCount = Target(w)
           /\ Merged(raw[w]) \in RawResults
<1>1. /\ Shares(gathered, LaunchRays(w))
      /\ \A b \in Batches : \E r \in gathered : r.index = b
      /\ gathered \in SUBSET BatchResults
  BY DEF AdaptiveInv, Complete, Types
<1>2. LaunchRays(w) \in 0..UnsignedRange
  <2>1. LaunchRays(w) \in 0..(UnsignedRange - 1)
    BY LaunchSize DEF AdaptiveInv
  <2> QED
    BY <2>1, Sizes
<1>3. /\ IsFiniteSet(gathered) /\ Cardinality(gathered) = BatchCount
      /\ {r.index : r \in gathered} = Batches
      /\ RaysOf(gathered) = LaunchRays(w)
  BY <1>1, <1>2, WholeLaunch
<1>4. EveryBatchOnce
  BY <1>3 DEF EveryBatchOnce
<1>5. Merged(raw[w]).rayCount = Target(w)
  BY <1>3, LaunchSize DEF AdaptiveInv, Merged
<1>6. \A b \in Batches : RaysOf({g \in gathered : g.index = b}) \in Nat
  <2> TAKE b \in Batches
  <2> DEFINE T == {g \in gathered : g.index = b}
  <2>1. T \in SUBSET gathered
    OBVIOUS
  <2>2. IsFiniteSet(T)
    BY <1>3, <2>1, FS_Subset
  <2>3. \A r \in T : r.rays \in 0..UnsignedRange
    BY <1>1 DEF BatchResults
  <2>4. UnsignedRange \in Nat
    BY Sizes
  <2> HIDE DEF T
  <2>5. RaysOf(T) \in Nat
    BY <2>2, <2>3, <2>4, RaysAddUp
  <2> QED
    BY <2>5 DEF T
<1>7. raw[w] \in RawResults
  BY DEF AdaptiveInv, Types
<1>8. Merged(raw[w]).batches \in [Batches -> Nat]
  <2>1. \A b \in Batches : raw[w].batches[b] \in Nat
    BY <1>7 DEF RawResults
  <2> DEFINE sum == [b \in Batches |->
                        raw[w].batches[b] + RaysOf({g \in gathered : g.index = b})]
  <2>2. sum \in [Batches -> Nat]
    BY <1>6, <2>1
  <2>3. Merged(raw[w]).batches = sum
    BY DEF Merged
  <2> HIDE DEF sum
  <2> QED
    BY <2>2, <2>3
<1>9. Merged(raw[w]).rayCount \in 0..(UnsignedRange - 1)
  BY <1>5, LaunchSize DEF AdaptiveInv
<1>10. Merged(raw[w]).srm \in SUBSET {"earlier", "current"}
  <2>1. Merged(raw[w]).srm = raw[w].srm \union {g.srm : g \in gathered}
    BY DEF Merged
  <2>2. raw[w].srm \in SUBSET {"earlier", "current"}
    BY <1>7 DEF RawResults
  <2>3. \A g \in gathered : g.srm \in {"earlier", "current"}
    BY <1>1 DEF BatchResults
  <2> QED
    BY <2>1, <2>2, <2>3
<1>11. Merged(raw[w]) \in RawResults
  <2>1. Merged(raw[w]) = [batches |-> Merged(raw[w]).batches,
                          rayCount |-> Merged(raw[w]).rayCount,
                          srm |-> Merged(raw[w]).srm]
    BY DEF Merged
  <2> QED
    BY <1>8, <1>9, <1>10, <2>1 DEF RawResults
<1> QED
  BY <1>4, <1>5, <1>11

\* A worker merges, records and decides: it is then where the others are that have,
\* or what the others that have not will be.
LEMMA MergeKeeps ==
    ASSUME AdaptiveInv, NEW w \in Workers, MergeAndDecide(w)
    PROVE  AdaptiveInv'
<1> DEFINE sum == Merged(raw[w])
<1>1. /\ pc[w] = "merging"
      /\ raw' = [raw EXCEPT ![w] = sum]
      /\ UNCHANGED <<experiment, roundUp, gathered, met, dropped, deviceSrm>>
  BY DEF MergeAndDecide
<1>2. /\ EveryBatchOnce /\ sum.rayCount = Target(w) /\ sum \in RawResults
  BY <1>1, Accounted
<1>3. convergence' = [convergence EXCEPT ![w] = Counted(w)]
  <2>1. convergence' = [convergence EXCEPT ![w] =
            [c \in Cells |-> IF NewlyConverged(w, c) THEN Target(w) ELSE convergence[w][c]]]
    BY <1>2 DEF MergeAndDecide
  <2> QED
    BY <2>1 DEF Counted
<1>4. Decision(w) = "done" => Leave(w, "done")
  BY <1>2 DEF MergeAndDecide, Decision
<1>5. Decision(w) = "again" => NextLaunch(w)
  BY <1>2 DEF MergeAndDecide, Decision
<1> HIDE DEF sum
<1>6. Decision(w) \in {"done", "again"} /\ (Decision(w) = "done" <=> StopCondition(w))
  BY DEF Decision
<1>7. launches[w] \in 0..LaunchCap /\ LaunchCap \in Nat \ {0}
  BY Cap DEF AdaptiveInv, Types, TypeOK
<1> DEFINE more == IF Decision(w) = "done" THEN launches[w]
                   ELSE Min({launches[w] + 1, LaunchCap})
<1>8. Min({launches[w] + 1, LaunchCap}) \in 0..LaunchCap
      /\ Min({launches[w] + 1, LaunchCap}) # 0
  <2>1. launches[w] + 1 \in Int /\ LaunchCap \in Int
    BY <1>7
  <2>2. Min({launches[w] + 1, LaunchCap})
        = IF launches[w] + 1 <= LaunchCap THEN launches[w] + 1 ELSE LaunchCap
    BY <2>1, OfTwo
  <2> QED
    BY <1>7, <2>2
<1>9. /\ pc' = [pc EXCEPT ![w] = IF Decision(w) = "done" THEN "done" ELSE "tracing"]
      /\ launches' = [launches EXCEPT ![w] = more]
      /\ next' = [next EXCEPT ![w] = IF Decision(w) = "done" THEN @ ELSE w]
      /\ local' = [local EXCEPT ![w] = IF Decision(w) = "done" THEN @ ELSE {}]
  <2>1. CASE Decision(w) = "done"
    BY <1>4, <2>1 DEF Leave, AdaptiveInv, Types, TypeOK
  <2>2. CASE Decision(w) = "again"
    <3>1. w \in Int /\ BatchCount \in Int /\ w <= BatchCount
      BY Sizes
    <3>2. FirstBatch(w) = w
      BY <3>1, OfTwo DEF FirstBatch
    <3> QED
      BY <1>5, <2>2, <3>2 DEF NextLaunch
  <2> QED
    BY <1>6, <2>1, <2>2
<1>10. ASSUME NEW v \in Workers, v # w
       PROVE  /\ raw'[v] = raw[v] /\ convergence'[v] = convergence[v] /\ pc'[v] = pc[v]
              /\ launches'[v] = launches[v] /\ next'[v] = next[v] /\ local'[v] = local[v]
  BY <1>1, <1>3, <1>9, <1>10 DEF AdaptiveInv, Types, TypeOK
<1>11. /\ raw'[w] = sum /\ convergence'[w] = Counted(w) /\ launches'[w] = more
       /\ pc'[w] = IF Decision(w) = "done" THEN "done" ELSE "tracing"
       /\ Decision(w) # "done" => next'[w] = w /\ local'[w] = {}
  BY <1>1, <1>3, <1>9 DEF AdaptiveInv, Types, TypeOK
<1>12. Types'
  <2>1. raw' \in [Workers -> RawResults]
    BY <1>1, <1>2 DEF AdaptiveInv, Types
  <2>2. Counted(w) \in [Cells -> Nat]
    <3>1. Target(w) \in Nat
      <4>1. Target(w) \in 0..(UnsignedRange - 1)
        BY LaunchSize DEF AdaptiveInv
      <4> QED
        BY <4>1, Sizes
    <3>2. \A c \in Cells : convergence[w][c] \in Nat
      BY DEF AdaptiveInv, Types
    <3> QED
      BY <3>1, <3>2 DEF Counted
  <2>3. convergence' \in [Workers -> [Cells -> Nat]]
    BY <1>3, <2>2 DEF AdaptiveInv, Types
  <2>4. launches' \in [Workers -> 0..LaunchCap]
    BY <1>7, <1>8, <1>9 DEF AdaptiveInv, Types, TypeOK
  <2>5. pc' \in [Workers -> {"tracing", "gathering", "merging", "done", "thrown"}]
    BY <1>9 DEF AdaptiveInv, Types, TypeOK
  <2>6. next' \in [Workers -> Nat]
    BY <1>9, Sizes DEF AdaptiveInv, Types, TypeOK
  <2>7. local' \in [Workers -> SUBSET BatchResults]
    BY <1>9 DEF AdaptiveInv, Types
  <2>8. \A v \in Workers : local'[v] \subseteq BatchResults
    BY <2>7
  <2>9. \A v \in Workers :
            /\ raw'[v].batches \in [Batches -> Nat]
            /\ raw'[v].rayCount \in 0..(UnsignedRange - 1)
            /\ raw'[v].srm \subseteq {"earlier", "current"}
    BY <2>1 DEF RawResults
  <2>10. TypeOK'
    BY <1>1, <2>3, <2>4, <2>5, <2>6, <2>8, <2>9
       DEF AdaptiveInv, Types, TypeOK, BatchResults
  <2> QED
    BY <1>1, <2>1, <2>3, <2>7, <2>10 DEF AdaptiveInv, Types
<1>13. NoAccountingError'
  <2>1. ASSUME NEW v \in Workers
        PROVE  pc'[v] # "thrown"
    BY <1>10, <1>11 DEF AdaptiveInv, NoAccountingError
  <2> QED
    BY <2>1 DEF NoAccountingError
<1>14. ASSUME NEW v \in Workers, v # w
       PROVE  Holds(v)' /\ Complete(v)' /\ Stopped(v)' /\ FirstLaunch(v)'
  <2>1. Holds(v) /\ Complete(v) /\ Stopped(v) /\ FirstLaunch(v)
    BY DEF AdaptiveInv
  <2>2. /\ Shares(gathered, LaunchRays(v))' <=> Shares(gathered', LaunchRays(v)')
        /\ Shares(local[v], LaunchRays(v))' <=> Shares(local'[v], LaunchRays(v)')
    BY DEF Shares
  <2>3. Target(v)' = Target(v) /\ LaunchRays(v)' = LaunchRays(v)
        /\ StopCondition(v)' = StopCondition(v)
    BY <1>1, <1>10, <1>14, SameTarget, SameDecision
  <2> QED
    BY <1>1, <1>10, <1>14, <2>1, <2>2, <2>3 DEF Holds, Complete, Stopped, FirstLaunch
<1>15. Complete(w)'
  BY <1>11 DEF Complete
<1>16. Stopped(w)'
  <2>1. CASE Decision(w) = "done"
    <3>1. launches'[w] = launches[w]
      BY <1>11, <2>1
    <3>2. Target(w)' = Target(w)
      BY <1>1, <3>1, SameTarget
    <3>3. StopCondition(w)'
      BY <1>1, <1>6, <2>1, <3>2 DEF StopCondition
    <3> QED
      BY <1>2, <1>11, <3>2, <3>3 DEF Stopped
  <2>2. CASE Decision(w) # "done"
    BY <1>11, <2>2 DEF Stopped
  <2> QED
    BY <2>1, <2>2
<1>17. FirstLaunch(w)'
  BY <1>6, <1>8, <1>11 DEF FirstLaunch
<1>18. Holds(w)'
  <2>1. CASE Decision(w) = "done"
    BY <1>11, <2>1 DEF Holds
  <2>2. CASE Decision(w) # "done"
    <3>1. pc'[w] = "tracing" /\ next'[w] = w /\ local'[w] = {} /\ w % NumWorkers = w
          /\ w \in Nat /\ w < NumWorkers
      BY <1>11, <2>2, Sizes
    <3>2. \A b \in Batches : ~(b % NumWorkers = w /\ b < w)
      <4> TAKE b \in Batches
      <4>1. SUFFICES ASSUME b < w, b % NumWorkers = w PROVE FALSE
        OBVIOUS
      <4>2. b \in 0..(NumWorkers - 1)
        BY <3>1, <4>1, Sizes
      <4>3. b % NumWorkers = b
        BY <4>2, Sizes, ModSmall
      <4> QED
        BY <3>1, <4>1, <4>2, <4>3
    <3>3. Shares(local[w], LaunchRays(w))'
      BY <3>1 DEF Shares
    <3> QED
      BY <3>1, <3>2, <3>3 DEF Holds
  <2> QED
    BY <2>1, <2>2
<1>19. \A v \in Workers \ {w} :
           /\ Decision(v)' = Decision(v) /\ Counted(v)' = Counted(v)
           /\ Merged(raw[v])' = Merged(raw[v])
  BY <1>1, <1>10, SameDecision
<1>20. Phase(w)' = Decision(w)
  BY <1>6, <1>11 DEF Phase
<1>21. ASSUME NEW v \in Workers, v # w
       PROVE  Agree(v, w)' /\ Agree(w, v)'
  <2>1. Agree(v, w) /\ Agree(w, v)
    BY DEF AdaptiveInv
  <2>2. pc'[w] # "merging"
    BY <1>11
  <2>3. CASE pc[v] = "merging"
    <3>1. SameState(w, v)
      BY <1>1, <2>1, <2>3 DEF Agree
    <3>2. Target(v) = Target(w)
      BY <3>1 DEF SameState, Target
    <3>3. Decision(v) = Decision(w)
      BY <3>2 DEF Decision, StopCondition
    <3>4. Counted(v) = Counted(w)
      BY <3>1, <3>2 DEF SameState, Counted, NewlyConverged
    <3>5. Merged(raw[v]) = sum /\ launches[v] = launches[w]
      BY <3>1 DEF SameState, sum
    <3>6. Behind(v, w)'
      BY <1>10, <1>11, <1>19, <1>20, <1>21, <3>3, <3>4, <3>5 DEF Behind
    <3> QED
      BY <1>10, <1>21, <2>2, <2>3, <3>6 DEF Agree
  <2>4. CASE pc[v] # "merging"
    <3>1. Behind(w, v)
      BY <1>1, <2>1, <2>4 DEF Agree
    <3>2. Phase(v)' = Phase(v)
      BY <1>10, <1>21 DEF Phase
    <3>3. Phase(v)' = Phase(w)'
      BY <1>20, <3>1, <3>2 DEF Behind
    <3>4. SameState(v, w)' /\ SameState(w, v)'
      BY <1>10, <1>11, <1>21, <3>1 DEF Behind, SameState, sum
    <3> QED
      BY <1>10, <1>21, <2>2, <2>4, <3>3, <3>4 DEF Agree
  <2> QED
    BY <2>3, <2>4
<1>22. Agree(w, w)'
  BY <1>11 DEF Agree, SameState
<1>23. ASSUME NEW u \in Workers, NEW v \in Workers, u # w, v # w
       PROVE  Agree(u, v)'
  <2>1. Agree(u, v)
    BY DEF AdaptiveInv
  <2>2. Phase(u)' = Phase(u) /\ Phase(v)' = Phase(v)
    BY <1>10, <1>23 DEF Phase
  <2>3. SameState(u, v)' <=> SameState(u, v)
    BY <1>10, <1>23 DEF SameState
  <2>4. Behind(u, v)' <=> Behind(u, v)
    BY <1>10, <1>19, <1>23, <2>2 DEF Behind
  <2> QED
    BY <1>10, <1>23, <2>1, <2>2, <2>3, <2>4 DEF Agree
<1>24. StatusIsCurrent'
  <2>1. AdaptiveRayTarget(experiment, 0)' = AdaptiveRayTarget(experiment, 0)
    BY <1>1 DEF AdaptiveRayTarget, IsFixed, Ceiling
  <2>2. SUFFICES ASSUME AdaptiveRayTarget(experiment, 0) >= NumWorkers
                 PROVE  StatusIsCurrent'
    BY <2>1 DEF StatusIsCurrent
  <2>3. /\ \A r \in gathered : r.srm = "current"
        /\ \A v \in Workers :
              /\ \/ deviceSrm[v] = "current"
                 \/ launches[v] = 0 /\ pc[v] = "tracing" /\ next[v] = v
              /\ \A r \in local[v] : r.srm = "current"
              /\ raw[v].srm \subseteq {"current"}
    BY <2>2 DEF AdaptiveInv, StatusIsCurrent
  <2>4. sum.srm \subseteq {"current"}
    <3>1. sum.srm = raw[w].srm \union {g.srm : g \in gathered}
      BY DEF sum, Merged
    <3> QED
      BY <2>3, <3>1
  <2>5. deviceSrm[w] = "current"
    BY <1>1, <2>3
  <2>6. \A r \in local'[w] : r.srm = "current"
    BY <1>9, <2>3 DEF AdaptiveInv, Types
  <2>7. ASSUME NEW v \in Workers
        PROVE  /\ \/ deviceSrm'[v] = "current"
                  \/ launches'[v] = 0 /\ pc'[v] = "tracing" /\ next'[v] = v
               /\ \A r \in local'[v] : r.srm = "current"
               /\ raw'[v].srm \subseteq {"current"}
    <3>1. CASE v = w
      BY <1>1, <1>11, <2>4, <2>5, <2>6, <3>1
    <3>2. CASE v # w
      BY <1>1, <1>10, <2>3, <3>2
    <3> QED
      BY <3>1, <3>2
  <2> QED
    BY <1>1, <2>3, <2>7 DEF StatusIsCurrent
<1>25. \A v \in Workers : Holds(v)' /\ Complete(v)' /\ Stopped(v)' /\ FirstLaunch(v)'
  BY <1>14, <1>15, <1>16, <1>17, <1>18
<1>26. \A u, v \in Workers : Agree(u, v)'
  BY <1>21, <1>22, <1>23
<1> QED
  BY <1>12, <1>13, <1>24, <1>25, <1>26 DEF AdaptiveInv

\* Nothing else happens to the variables.
LEMMA StutterKeeps ==
    ASSUME AdaptiveInv, UNCHANGED vars
    PROVE  AdaptiveInv'
<1>1. UNCHANGED <<experiment, roundUp, pc, next, local, gathered, met, dropped,
                  deviceSrm, launches, raw, convergence>>
  BY DEF vars
<1>2. Types'
  BY <1>1 DEF AdaptiveInv, Types, TypeOK
<1>3. NoAccountingError'
  BY <1>1 DEF AdaptiveInv, NoAccountingError
<1>4. ASSUME NEW v \in Workers
      PROVE  Holds(v)' /\ Complete(v)' /\ Stopped(v)' /\ FirstLaunch(v)'
  <2>1. Holds(v) /\ Complete(v) /\ Stopped(v) /\ FirstLaunch(v)
    BY DEF AdaptiveInv
  <2>2. /\ Shares(gathered, LaunchRays(v))' <=> Shares(gathered', LaunchRays(v)')
        /\ Shares(local[v], LaunchRays(v))' <=> Shares(local'[v], LaunchRays(v)')
    BY DEF Shares
  <2>3. Target(v)' = Target(v) /\ LaunchRays(v)' = LaunchRays(v)
        /\ StopCondition(v)' = StopCondition(v)
    BY <1>1, SameTarget, SameDecision
  <2> QED
    BY <1>1, <2>1, <2>2, <2>3 DEF Holds, Complete, Stopped, FirstLaunch
<1>5. ASSUME NEW u \in Workers, NEW v \in Workers
      PROVE  Agree(u, v)'
  <2>1. Agree(u, v) /\ Phase(u)' = Phase(u) /\ Phase(v)' = Phase(v)
    BY <1>1 DEF AdaptiveInv, Phase
  <2> QED
    BY <1>1, <2>1, AgreeingGoesOn
<1>6. StatusIsCurrent'
  <2>1. AdaptiveRayTarget(experiment, 0)' = AdaptiveRayTarget(experiment, 0)
    BY <1>1 DEF AdaptiveRayTarget, IsFixed, Ceiling
  <2> QED
    BY <1>1, <2>1 DEF AdaptiveInv, StatusIsCurrent
<1> QED
  BY <1>2, <1>3, <1>4, <1>5, <1>6 DEF AdaptiveInv
-----------------------------------------------------------------------------
(* The theorems.                                                           *)

\* The invariant holds in every state, for any number of workers and batches.
THEOREM AdaptiveInvariant ==
    Spec => []AdaptiveInv
<1>1. AdaptiveInv /\ [Next]_vars => AdaptiveInv'
  <2> SUFFICES ASSUME AdaptiveInv, [Next]_vars PROVE AdaptiveInv'
    OBVIOUS
  <2>1. CASE Gather
    BY <2>1, GatherKeeps
  <2>2. CASE Terminated
    BY <2>2, StutterKeeps DEF Terminated
  <2>3. ASSUME NEW w \in Workers, WorkerStep(w)
        PROVE  AdaptiveInv'
    BY <2>3, TraceKeeps, OfferKeeps, MergeKeeps DEF WorkerStep
  <2>4. CASE UNCHANGED vars
    BY <2>4, StutterKeeps
  <2> QED
    BY <2>1, <2>2, <2>3, <2>4 DEF Next
<1> QED
  BY <1>1, Starts, PTL DEF Spec

\* Every variable of the adaptive loop keeps its type: in particular no ray count
\* leaves the range of unsigned, and no launch is counted beyond the cap.
THEOREM AdaptiveTypeCorrect ==
    Spec => []TypeOK
<1>1. AdaptiveInv => TypeOK
  BY DEF AdaptiveInv, Types
<1> QED
  BY <1>1, AdaptiveInvariant, PTL

\* The consistency checks of the loop never throw: whatever the number of workers,
\* batches and rays, every batch is gathered once and the rays add up to the target.
THEOREM AccountingHolds ==
    Spec => []NoAccountingError
<1>1. AdaptiveInv => NoAccountingError
  BY DEF AdaptiveInv
<1> QED
  BY <1>1, AdaptiveInvariant, PTL

\* Workers that decide on their own stop after the same launch with the same result.
THEOREM WorkersStayTogether ==
    Spec => []WorkersAgree
<1>1. ASSUME AdaptiveInv, NEW w \in Workers, NEW v \in Workers, pc[w] = "done"
      PROVE  /\ pc[v] \in {"merging", "done"}
             /\ launches[v] = launches[w]
             /\ pc[v] = "done" => raw[v] = raw[w] /\ convergence[v] = convergence[w]
  <2>1. Agree(v, w) /\ Agree(w, v) /\ Phase(w) = "done"
    BY <1>1 DEF AdaptiveInv, Phase
  <2>2. CASE pc[v] = "merging"
    BY <1>1, <2>1, <2>2 DEF Agree, Behind
  <2>3. CASE pc[v] # "merging"
    <3>1. Phase(v) = "done" /\ SameState(w, v)
      BY <1>1, <2>1, <2>3 DEF Agree
    <3>2. pc[v] = "done"
      BY <3>1 DEF Phase
    <3> QED
      BY <3>1, <3>2 DEF SameState
  <2> QED
    BY <2>2, <2>3
<1>2. AdaptiveInv => WorkersAgree
  BY <1>1 DEF WorkersAgree
<1> QED
  BY <1>2, AdaptiveInvariant, PTL

\* A worker that is done has the rays the user asked for, or rays within the limits
\* and fewer than the most allowed only when every cell meets the threshold.
THEOREM StopsWithAReason ==
    Spec => []StopsForAReason
<1>1. ASSUME AdaptiveInv, NEW w \in Workers, pc[w] = "done"
      PROVE  IF experiment.forwardRayCount # 0
             THEN raw[w].rayCount = experiment.forwardRayCount
             ELSE /\ raw[w].rayCount \in experiment.minRays..experiment.maxRays
                  /\ raw[w].rayCount < experiment.maxRays => met = Cells
  <2>1. raw[w].rayCount = Target(w) /\ StopCondition(w)
    BY <1>1 DEF AdaptiveInv, Stopped
  <2>2. launches[w] \in Nat /\ experiment \in Experiments
    BY <1>1, Cap DEF AdaptiveInv, Types, TypeOK
  <2>3. /\ experiment.forwardRayCount # 0 => Target(w) = experiment.forwardRayCount
        /\ experiment.forwardRayCount = 0 =>
               Target(w) \in experiment.minRays..experiment.maxRays
    BY <2>2, TargetInRange DEF Target
  <2>4. experiment.maxRays \in Nat
    <3>1. experiment.maxRays \in RayLimits
      BY <2>2 DEF Experiments
    <3>2. RayLimits \subseteq Nat
      BY RayLimitsAssumption
    <3> QED
      BY <3>1, <3>2
  <2>5. Target(w) < experiment.maxRays => Target(w) # experiment.maxRays
    BY <2>4
  <2> QED
    BY <2>1, <2>3, <2>5 DEF StopCondition
<1>2. AdaptiveInv => StopsForAReason
  BY <1>1 DEF StopsForAReason
<1> QED
  BY <1>2, AdaptiveInvariant, PTL

\* When the first launch has a ray for every worker's first batch, no result carries
\* the SRM status an earlier evaluation left on the device.
THEOREM StatusStaysCurrent ==
    Spec => []SrmStatusIsCurrent
<1>1. AdaptiveInv => SrmStatusIsCurrent
  BY DEF AdaptiveInv, StatusIsCurrent, SrmStatusIsCurrent
<1> QED
  BY <1>1, AdaptiveInvariant, PTL

\* A cell's convergence count is written once.
THEOREM ConvergenceIsFirst ==
    Spec => ConvergenceKept
<1> DEFINE Kept == \A w \in Workers, c \in Cells :
                       convergence[w][c] # 0 => convergence'[w][c] = convergence[w][c]
<1>1. AdaptiveInv /\ [Next]_vars => [Kept]_vars
  <2> SUFFICES ASSUME AdaptiveInv, Next, NEW w \in Workers, NEW c \in Cells,
                      convergence[w][c] # 0
               PROVE  convergence'[w][c] = convergence[w][c]
    OBVIOUS
  <2>1. CASE Gather \/ Terminated
    BY <2>1 DEF Gather, Terminated, vars
  <2>2. ASSUME NEW v \in Workers, Trace(v) \/ OfferBatches(v)
        PROVE  convergence' = convergence
    BY <2>2 DEF Trace, OfferBatches
  <2>3. ASSUME NEW v \in Workers, MergeAndDecide(v)
        PROVE  convergence'[w][c] = convergence[w][c]
    <3> DEFINE accounted == EveryBatchOnce /\ Merged(raw[v]).rayCount = Target(v)
    <3>1. convergence' = [convergence EXCEPT ![v] = [d \in Cells |->
              IF accounted /\ NewlyConverged(v, d) THEN Target(v) ELSE convergence[v][d]]]
      BY <2>3 DEF MergeAndDecide
    <3>2. v = w => ~NewlyConverged(v, c)
      BY DEF NewlyConverged
    <3> HIDE DEF accounted
    <3>3. convergence \in [Workers -> [Cells -> Nat]]
      BY DEF AdaptiveInv, Types
    <3> QED
      BY <3>1, <3>2, <3>3
  <2> QED
    BY <2>1, <2>2, <2>3 DEF Next, WorkerStep
<1> QED
  BY <1>1, AdaptiveInvariant, PTL DEF Spec, ConvergenceKept
=============================================================================

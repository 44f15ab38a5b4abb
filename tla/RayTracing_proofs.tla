-------------------------- MODULE RayTracing_proofs --------------------------
(***************************************************************************)
(* Proofs about RayTracing, for any mesh, rays, relays and bounds.         *)
(*                                                                         *)
(* First the types, with what the geometry owes to them; then where points *)
(* are, and that a ray is always in its cell (InsideInv); last the cache   *)
(* of the pump source, along the route of its ray (RouteInv).              *)
(***************************************************************************)
EXTENDS RayTracing, FiniteSetTheorems, WellFoundedInduction, TLAPS

-----------------------------------------------------------------------------
(* Least numbers and elements.                                             *)

LEMMA Least ==
    ASSUME NEW T, T \subseteq Nat, T # {}
    PROVE  \E n \in T : \A m \in T : ~(m < n)
<1> DEFINE R == OpToRel(<, Nat)
<1>1. \E x \in T : \A y \in T : ~ (<<y, x>> \in R)
  <2>1. IsWellFoundedOn(R, Nat)
    BY NatLessThanWellFounded
  <2> HIDE DEF R
  <2> QED
    BY <2>1, WFMin
<1>2. \A x, y \in Nat : y < x => <<y, x>> \in R
  BY DEF OpToRel
<1> QED
  BY <1>1, <1>2

LEMMA MinIs ==
    ASSUME NEW T, T \subseteq Nat, T # {}
    PROVE  Min(T) \in T /\ \A x \in T : Min(T) <= x
<1>1. PICK n \in T : \A m \in T : ~(m < n)
  BY Least
<1>2. \A m \in T : n <= m
  BY <1>1
<1> QED
  BY <1>2 DEF Min

-----------------------------------------------------------------------------
(* Greatest common divisors.                                               *)

Divides(d, m) == \E k \in Int : m = d * k

\* What Gcd computes, without recursion.
Divisors(p) == {d \in Nat \ {0} : Divides(d, p[1]) /\ Divides(d, p[2])}
GreatestOf(ds) == CHOOSE d \in ds : \A e \in ds : e <= d
Greatest(p) == IF p[2] = 0 THEN p[1] ELSE GreatestOf(Divisors(p))

LEMMA GreatestDivisor ==
    ASSUME NEW m \in Nat \ {0}
    PROVE  /\ m \in Divisors(<<m, 0>>)
           /\ \A e \in Divisors(<<m, 0>>) : e <= m
<1>1. Divides(m, m) /\ Divides(m, 0)
  <2>1. m = m * 1 /\ 0 = m * 0 /\ 1 \in Int /\ 0 \in Int
    OBVIOUS
  <2> QED
    BY <2>1 DEF Divides
<1>2. ASSUME NEW e \in Nat \ {0}, Divides(e, m)
      PROVE  e <= m
  <2>1. PICK k \in Int : m = e * k
    BY <1>2 DEF Divides
  <2>2. k >= 1
    BY <2>1
  <2> QED
    BY <2>1, <2>2
<1> QED
  BY <1>1, <1>2 DEF Divisors

LEMMA SameDivisors ==
    ASSUME NEW m \in Nat, NEW n \in Nat \ {0}
    PROVE  Divisors(<<m, n>>) = Divisors(<<n, m % n>>)
<1> DEFINE q == m \div n
           r == m % n
<1>1. q \in Nat /\ r \in 0 .. (n - 1) /\ m = n * q + r
  OBVIOUS
<1> HIDE DEF q, r
<1>2. ASSUME NEW d \in Nat \ {0}, Divides(d, n), Divides(d, r)
      PROVE  Divides(d, m)
  <2>1. PICK k \in Int : n = d * k
    BY <1>2 DEF Divides
  <2>2. PICK l \in Int : r = d * l
    BY <1>2 DEF Divides
  <2>3. m = d * (k * q + l) /\ k * q + l \in Int
    BY <2>1, <2>2, <1>1
  <2> QED
    BY <2>3 DEF Divides
<1>3. ASSUME NEW d \in Nat \ {0}, Divides(d, n), Divides(d, m)
      PROVE  Divides(d, r)
  <2>1. PICK k \in Int : n = d * k
    BY <1>3 DEF Divides
  <2>2. PICK l \in Int : m = d * l
    BY <1>3 DEF Divides
  <2>3. r = d * (l - k * q) /\ l - k * q \in Int
    BY <2>1, <2>2, <1>1
  <2> QED
    BY <2>3 DEF Divides
<1>4. Divisors(<<m, n>>) = Divisors(<<n, r>>)
  BY <1>2, <1>3 DEF Divisors
<1> QED
  BY <1>4 DEF r

LEMMA GcdIs ==
    /\ \A m \in Nat : Gcd[<<m, 0>>] = m
    /\ \A m \in Nat, n \in Nat \ {0} : Gcd[<<m, n>>] = Gcd[<<n, m % n>>]
<1> DEFINE Def(g) == g = [p \in Nat \X Nat |-> IF p[2] = 0 THEN p[1] ELSE g[<<p[2], p[1] % p[2]>>]]
           G == [p \in Nat \X Nat |-> Greatest(p)]
<1>1. Def(G)
  <2>1. ASSUME NEW m \in Nat, NEW n \in Nat \ {0}
        PROVE  Greatest(<<m, n>>) = Greatest(<<n, m % n>>)
    <3>1. m % n \in Nat
      OBVIOUS
    <3>2. CASE m % n = 0
      <4>1. Divisors(<<m, n>>) = Divisors(<<n, 0>>)
        BY SameDivisors, <3>2
      <4>2. n \in Divisors(<<n, 0>>) /\ \A e \in Divisors(<<n, 0>>) : e <= n
        BY GreatestDivisor
      <4>3. \A d \in Divisors(<<n, 0>>) : (\A e \in Divisors(<<n, 0>>) : e <= d) => d = n
        BY <4>2 DEF Divisors
      <4>4. Greatest(<<m, n>>) = n
        <5>1. GreatestOf(Divisors(<<n, 0>>)) = n
          BY <4>2, <4>3 DEF GreatestOf
        <5> QED
          BY <4>1, <5>1 DEF Greatest
      <4>5. Greatest(<<n, 0>>) = n
        BY DEF Greatest
      <4> QED
        BY <4>4, <4>5, <3>2
    <3>3. CASE m % n # 0
      <4>1. Divisors(<<m, n>>) = Divisors(<<n, m % n>>)
        BY SameDivisors
      <4>2. Greatest(<<m, n>>) = GreatestOf(Divisors(<<m, n>>))
        BY DEF Greatest
      <4>3. Greatest(<<n, m % n>>) = GreatestOf(Divisors(<<n, m % n>>))
        BY <3>3 DEF Greatest
      <4> QED
        BY <4>1, <4>2, <4>3
    <3> QED
      BY <3>2, <3>3
  <2>2. ASSUME NEW p \in Nat \X Nat
        PROVE  Greatest(p) = IF p[2] = 0 THEN p[1] ELSE G[<<p[2], p[1] % p[2]>>]
    <3>1. PICK m \in Nat, n \in Nat : p = <<m, n>>
      OBVIOUS
    <3>2. CASE n = 0
      BY <3>1, <3>2 DEF Greatest
    <3>3. CASE n # 0
      <4>1. m % n \in Nat
        BY <3>3
      <4>2. G[<<n, m % n>>] = Greatest(<<n, m % n>>)
        BY <4>1
      <4>3. Greatest(<<m, n>>) = Greatest(<<n, m % n>>)
        BY <2>1, <3>3
      <4> QED
        BY <3>1, <3>3, <4>2, <4>3
    <3> QED
      BY <3>2, <3>3
  <2> QED
    BY <2>2
<1> HIDE DEF G
<1>2. Gcd = CHOOSE g : Def(g)
  BY DEF Gcd
<1>3. Def(Gcd)
  BY <1>1, <1>2
<1>4. \A p \in Nat \X Nat : Gcd[p] = IF p[2] = 0 THEN p[1] ELSE Gcd[<<p[2], p[1] % p[2]>>]
  BY <1>3
<1>5. \A m \in Nat : Gcd[<<m, 0>>] = m
  BY <1>4
<1>6. ASSUME NEW m \in Nat, NEW n \in Nat \ {0}
      PROVE  Gcd[<<m, n>>] = Gcd[<<n, m % n>>]
  <2>1. <<m, n>> \in Nat \X Nat
    OBVIOUS
  <2>2. Gcd[<<m, n>>] = IF n = 0 THEN m ELSE Gcd[<<n, m % n>>]
    BY <1>4, <2>1
  <2> QED
    BY <2>2
<1> QED
  BY <1>5, <1>6

\* The greatest common divisor is a natural number that divides both; it is 0 only
\* where both are.
IsCommonDivisor(g, m, n) ==
    /\ g \in Nat
    /\ Divides(g, m) /\ Divides(g, n)
    /\ (m > 0 \/ n > 0) => g > 0

LEMMA GcdDivides ==
    ASSUME NEW m \in Nat, NEW n \in Nat
    PROVE  IsCommonDivisor(Gcd[<<m, n>>], m, n)
<1> DEFINE T == {k \in Nat : \E l \in Nat : ~IsCommonDivisor(Gcd[<<l, k>>], l, k)}
<1>1. SUFFICES ASSUME T # {}
               PROVE  FALSE
  OBVIOUS
<1>2. T \subseteq Nat
  OBVIOUS
<1>3. \A k \in T : \E l \in Nat : ~IsCommonDivisor(Gcd[<<l, k>>], l, k)
  OBVIOUS
<1>4. \A k \in Nat \ T, l \in Nat : IsCommonDivisor(Gcd[<<l, k>>], l, k)
  OBVIOUS
<1> HIDE DEF T
<1>5. PICK k \in T : \A j \in T : ~(j < k)
  BY <1>1, <1>2, Least
<1>6. PICK l \in Nat : ~IsCommonDivisor(Gcd[<<l, k>>], l, k)
  BY <1>3
<1>7. k \in Nat
  BY <1>2
<1>8. CASE k = 0
  <2>1. Gcd[<<l, k>>] = l
    BY GcdIs, <1>8
  <2>2. l = l * 1 /\ 0 = l * 0 /\ 1 \in Int /\ 0 \in Int
    OBVIOUS
  <2>3. Divides(l, l) /\ Divides(l, 0)
    BY <2>2 DEF Divides
  <2> QED
    BY <2>1, <2>3, <1>6, <1>8 DEF IsCommonDivisor
<1>9. CASE k # 0
  <2> DEFINE r == l % k
             q == l \div k
             g == Gcd[<<k, r>>]
  <2>1. q \in Nat /\ r \in Nat /\ r < k /\ l = k * q + r
    BY <1>7, <1>9
  <2>2. Gcd[<<l, k>>] = g
    BY GcdIs, <1>7, <1>9
  <2> HIDE DEF q, r
  <2>3. r \notin T
    BY <1>5, <2>1
  <2>4. IsCommonDivisor(g, k, r)
    BY <1>4, <2>1, <2>3, <1>7
  <2> HIDE DEF g
  <2>5. PICK i \in Int : k = g * i
    BY <2>4 DEF IsCommonDivisor, Divides
  <2>6. PICK j \in Int : r = g * j
    BY <2>4 DEF IsCommonDivisor, Divides
  <2>7. g \in Nat /\ g > 0
    BY <2>4, <1>7, <1>9 DEF IsCommonDivisor
  <2>8. l = g * (i * q + j) /\ i * q + j \in Int
    BY <2>1, <2>5, <2>6, <2>7
  <2>9. Divides(g, l) /\ Divides(g, k)
    BY <2>5, <2>8 DEF Divides
  <2> QED
    BY <2>2, <2>7, <2>9, <1>6 DEF IsCommonDivisor
<1> QED
  BY <1>8, <1>9

-----------------------------------------------------------------------------
(* Vectors and points.                                                     *)

LEMMA VectorIs ==
    ASSUME NEW a \in Vectors
    PROVE  /\ a = <<a[1], a[2], a[3]>>
           /\ a[1] \in Int /\ a[2] \in Int /\ a[3] \in Int
  BY DEF Vectors

LEMMA VectorTypes ==
    ASSUME NEW a \in Vectors, NEW b \in Vectors, NEW k \in Int
    PROVE  /\ Dot(a, b) \in Int
           /\ Plus(a, b) \in Vectors /\ Minus(a, b) \in Vectors
           /\ Times(k, a) \in Vectors /\ Cross(a, b) \in Vectors
  BY DEF Vectors, Dot, Plus, Minus, Times, Cross

LEMMA TimesIsVector ==
    ASSUME NEW k \in Int, NEW a \in Vectors
    PROVE  Times(k, a) \in Vectors
  BY DEF Vectors, Times

LEMMA ExactQuotient ==
    ASSUME NEW g \in Nat \ {0}, NEW k \in Int
    PROVE  (g * k) \div g = k
<1> DEFINE m == g * k
           q == m \div g
           r == m % g
<1>1. m \in Int
  OBVIOUS
<1> HIDE DEF m
<1>2. q \in Int /\ r \in Int /\ 0 <= r /\ r < g /\ m = g * q + r
  BY <1>1
<1> HIDE DEF q, r
<1>3. g * (k - q) = r
  BY <1>2 DEF m
<1>4. ~(k - q >= 1)
  <2>1. k - q >= 1 => g * (k - q) >= g
    BY <1>2
  <2> QED
    BY <2>1, <1>2, <1>3
<1>5. ~(k - q <= -1)
  <2>1. k - q <= -1 => g * (k - q) <= -g
    BY <1>2
  <2> QED
    BY <2>1, <1>2, <1>3
<1>6. k = q
  BY <1>2, <1>4, <1>5
<1> QED
  BY <1>6 DEF m, q

LEMMA DividesMagnitude ==
    ASSUME NEW d \in Int, NEW m \in Int, Divides(d, Magnitude(m))
    PROVE  Divides(d, m)
<1>1. PICK k \in Int : Magnitude(m) = d * k
  BY DEF Divides
<1>2. (m = d * k \/ m = d * (-k)) /\ -k \in Int
  BY <1>1 DEF Magnitude
<1>3. \E l \in Int : m = d * l
  BY <1>2
<1> QED
  BY <1>3 DEF Divides

LEMMA DividesThrough ==
    ASSUME NEW d \in Int, NEW e \in Int, NEW m \in Int, Divides(d, e), Divides(e, m)
    PROVE  Divides(d, m)
<1>1. PICK k \in Int : e = d * k
  BY DEF Divides
<1>2. PICK l \in Int : m = e * l
  BY DEF Divides
<1>3. m = d * (k * l) /\ k * l \in Int
  BY <1>1, <1>2
<1> QED
  BY <1>3 DEF Divides

LEMMA CommonDivides ==
    ASSUME NEW a \in Vectors
    PROVE  /\ Common(a) \in Nat
           /\ Divides(Common(a), a[1]) /\ Divides(Common(a), a[2]) /\ Divides(Common(a), a[3])
<1>1. a[1] \in Int /\ a[2] \in Int /\ a[3] \in Int
  BY VectorIs
<1> DEFINE m1 == Magnitude(a[1])
           m2 == Magnitude(a[2])
           m3 == Magnitude(a[3])
           inner == Gcd[<<m2, m3>>]
           outer == Gcd[<<m1, inner>>]
<1>2. m1 \in Nat /\ m2 \in Nat /\ m3 \in Nat
  BY <1>1 DEF Magnitude
<1>3. Common(a) = outer
  BY DEF Common
<1> HIDE DEF m1, m2, m3
<1>4. IsCommonDivisor(inner, m2, m3)
  BY <1>2, GcdDivides
<1>5. inner \in Nat
  BY <1>4 DEF IsCommonDivisor
<1> HIDE DEF inner
<1>6. IsCommonDivisor(outer, m1, inner)
  BY <1>2, <1>5, GcdDivides
<1> HIDE DEF outer
<1>7. outer \in Nat /\ Divides(outer, m1) /\ Divides(outer, inner)
  BY <1>6 DEF IsCommonDivisor
<1>8. Divides(outer, m2) /\ Divides(outer, m3)
  BY <1>2, <1>4, <1>5, <1>7, DividesThrough DEF IsCommonDivisor
<1>9. Divides(outer, a[1]) /\ Divides(outer, a[2]) /\ Divides(outer, a[3])
  BY <1>1, <1>7, <1>8, DividesMagnitude DEF m1, m2, m3
<1> QED
  BY <1>3, <1>7, <1>9

\* Reducing a point leaves it where it is.
LEMMA PointIs ==
    ASSUME NEW v \in Vectors, NEW w \in Nat \ {0}
    PROVE  /\ Point(v, w) \in Positions
           /\ \E g \in Nat \ {0} : /\ v = Times(g, Point(v, w).v)
                                   /\ w = g * Point(v, w).w
<1> DEFINE c == Common(v)
           g == Gcd[<<w, c>>]
<1>1. /\ c \in Nat
      /\ Divides(c, v[1]) /\ Divides(c, v[2]) /\ Divides(c, v[3])
  BY CommonDivides
<1>2. v = <<v[1], v[2], v[3]>> /\ v[1] \in Int /\ v[2] \in Int /\ v[3] \in Int
  BY VectorIs
<1> HIDE DEF c
<1>3. IsCommonDivisor(g, w, c)
  BY <1>1, GcdDivides
<1>4. Point(v, w) = [v |-> <<v[1] \div g, v[2] \div g, v[3] \div g>>, w |-> w \div g]
  BY DEF Point, c
<1> HIDE DEF g
<1>5. g \in Nat \ {0} /\ Divides(g, w) /\ Divides(g, c)
  BY <1>3 DEF IsCommonDivisor
<1>6. Divides(g, v[1]) /\ Divides(g, v[2]) /\ Divides(g, v[3])
  BY <1>1, <1>2, <1>5, DividesThrough
<1>7. PICK k1 \in Int, k2 \in Int, k3 \in Int :
          v[1] = g * k1 /\ v[2] = g * k2 /\ v[3] = g * k3
  BY <1>6 DEF Divides
<1>8. PICK k \in Int : w = g * k
  BY <1>5 DEF Divides
<1>9. Point(v, w) = [v |-> <<k1, k2, k3>>, w |-> k]
  BY <1>4, <1>5, <1>7, <1>8, ExactQuotient
<1>10. k > 0
  BY <1>5, <1>8
<1>11. Point(v, w) \in Positions
  BY <1>9, <1>10 DEF Positions, Vectors
<1>12. v = Times(g, Point(v, w).v) /\ w = g * Point(v, w).w
  BY <1>2, <1>7, <1>8, <1>9 DEF Times
<1> QED
  BY <1>5, <1>11, <1>12

-----------------------------------------------------------------------------
(* Cells and faces.                                                        *)

LEMMA BoundaryIs ==
    ASSUME NEW cell \in Cells, NEW k \in Faces
    PROVE  /\ <<cell, k>> \in Boundary <=> NeighborCell[cell][k] = None
           /\ NeighborCell[cell][k] # None =>
                  /\ NeighborCell[cell][k] \in Cells
                  /\ NeighborFace[cell][k] \in Faces
<1>1. <<cell, k>> \in Boundary <=> NeighborCell[cell][k] = None
  BY DEF Boundary
<1> QED
  BY <1>1, NeighborAssumption

LEMMA CornersAre ==
    ASSUME NEW cell \in Cells, NEW k \in Faces
    PROVE  /\ \A i \in 1 .. 3 : CellFaces[cell][k][i] \in DOMAIN Points
           /\ \A i \in 1 .. 3 : Corner(cell, k, i) \in Vectors
           /\ \A i \in 1 .. 3 : CellFaces[cell][k][i] \in CornersOf(cell, k)
<1>1. CellFaces[cell][k] \in Seq(DOMAIN Points) /\ Len(CellFaces[cell][k]) = 3
  BY PointsAssumption
<1>2. \A i \in 1 .. 3 : CellFaces[cell][k][i] \in DOMAIN Points
  BY <1>1
<1> QED
  BY <1>2, PointsAssumption DEF Corner, CornersOf

\* The vertex that is not on the face.
Apex(cell, k) == CHOOSE p \in VerticesOf(cell) : p \notin CornersOf(cell, k)

LEMMA ApexIs ==
    ASSUME NEW cell \in Cells, NEW k \in Faces
    PROVE  /\ Apex(cell, k) \in VerticesOf(cell)
           /\ CornersOf(cell, k) = VerticesOf(cell) \ {Apex(cell, k)}
           /\ Opposite(cell, k) = Points[Apex(cell, k)]
           /\ Opposite(cell, k) \in Vectors
<1>1. PICK v \in VerticesOf(cell) : CornersOf(cell, k) = VerticesOf(cell) \ {v}
  <2>1. CornersOf(cell, k) \in {CornersOf(cell, j) : j \in Faces}
    OBVIOUS
  <2> QED
    BY <2>1, CellAssumption
<1>2. \A p \in VerticesOf(cell) : p \notin CornersOf(cell, k) <=> p = v
  BY <1>1
<1>3. Apex(cell, k) = v
  BY <1>2 DEF Apex
<1>4. Opposite(cell, k) = Points[Apex(cell, k)]
  BY DEF Opposite, Apex
<1>5. v \in DOMAIN Points
  BY PointsAssumption DEF VerticesOf, Faces
<1>6. Points[v] \in Vectors
  BY <1>5, PointsAssumption
<1> QED
  BY <1>1, <1>3, <1>4, <1>6

Gradient(cell, k) == FacePlanes[cell][k].gradient
Offset(cell, k) == FacePlanes[cell][k].offset

LEMMA PlaneIs ==
    ASSUME NEW cell \in Cells, NEW k \in Faces,
           NEW a, NEW b, NEW c, NEW d, NEW normal,
           a = Corner(cell, k, 1), b = Corner(cell, k, 2), c = Corner(cell, k, 3),
           d = Opposite(cell, k), normal = Cross(Minus(b, a), Minus(c, a))
    PROVE  /\ Gradient(cell, k) = IF Dot(normal, Minus(d, a)) > 0 THEN normal ELSE Times(-1, normal)
           /\ Offset(cell, k) = -Dot(Gradient(cell, k), a)
<1>1. FacePlanes[cell][k] = Plane(a, b, c, d)
  BY DEF FacePlanes
<1> QED
  BY <1>1 DEF Plane, Gradient, Offset

LEMMA PlaneTypes ==
    ASSUME NEW cell \in Cells, NEW k \in Faces
    PROVE  Gradient(cell, k) \in Vectors /\ Offset(cell, k) \in Int
<1>1. PICK a \in Vectors, b \in Vectors, c \in Vectors, d \in Vectors :
          /\ a = Corner(cell, k, 1) /\ b = Corner(cell, k, 2) /\ c = Corner(cell, k, 3)
          /\ d = Opposite(cell, k)
  BY CornersAre, ApexIs
<1>2. PICK normal \in Vectors : normal = Cross(Minus(b, a), Minus(c, a))
  BY VectorTypes
<1>3. /\ Gradient(cell, k) = IF Dot(normal, Minus(d, a)) > 0 THEN normal ELSE Times(-1, normal)
      /\ Offset(cell, k) = -Dot(Gradient(cell, k), a)
  BY <1>1, <1>2, PlaneIs
<1>4. Times(-1, normal) \in Vectors
  BY VectorTypes
<1>5. Gradient(cell, k) \in Vectors
  BY <1>3, <1>4
<1>6. Dot(Gradient(cell, k), a) \in Int
  BY <1>5, VectorTypes
<1> QED
  BY <1>3, <1>5, <1>6

LEMMA CoordinateTypes ==
    ASSUME NEW cell \in Cells, NEW k \in Faces
    PROVE  /\ \A point \in Positions :
                  /\ Coordinate(cell, k, point) \in Int
                  /\ Coordinate(cell, k, point)
                        = Dot(Gradient(cell, k), point.v) + Offset(cell, k) * point.w
           /\ \A direction \in Vectors :
                  /\ DirectionalChange(cell, k, direction) \in Int
                  /\ DirectionalChange(cell, k, direction) = Dot(Gradient(cell, k), direction)
           /\ OutwardFaceNormal(cell, k) = Times(-1, Gradient(cell, k))
           /\ OutwardFaceNormal(cell, k) \in Vectors
<1>1. ASSUME NEW point \in Positions
      PROVE  /\ Coordinate(cell, k, point) \in Int
             /\ Coordinate(cell, k, point)
                  = Dot(Gradient(cell, k), point.v) + Offset(cell, k) * point.w
  <2>1. point.v \in Vectors /\ point.w \in Nat
    BY DEF Positions
  <2>2. Dot(Gradient(cell, k), point.v) \in Int /\ Offset(cell, k) \in Int
    BY <2>1, PlaneTypes, VectorTypes
  <2>3. Coordinate(cell, k, point) = Dot(Gradient(cell, k), point.v) + Offset(cell, k) * point.w
    BY DEF Coordinate, Gradient, Offset
  <2> QED
    BY <2>1, <2>2, <2>3
<1>2. ASSUME NEW direction \in Vectors
      PROVE  /\ DirectionalChange(cell, k, direction) \in Int
             /\ DirectionalChange(cell, k, direction) = Dot(Gradient(cell, k), direction)
  BY PlaneTypes, VectorTypes DEF DirectionalChange, Gradient
<1>3. OutwardFaceNormal(cell, k) = Times(-1, Gradient(cell, k))
  BY DEF OutwardFaceNormal, Gradient
<1>4. Times(-1, Gradient(cell, k)) \in Vectors
  <2>1. Gradient(cell, k) \in Vectors /\ -1 \in Int
    BY PlaneTypes
  <2> QED
    BY <2>1, VectorTypes
<1> QED
  BY <1>1, <1>2, <1>3, <1>4

-----------------------------------------------------------------------------
(* The face a ray reaches first.                                           *)

\* The order of the lengths x / a for numerators x and positive denominators a.
LEMMA LengthsCompare ==
    ASSUME NEW x \in Nat, NEW a \in Nat \ {0}, NEW y \in Nat, NEW b \in Nat \ {0},
           NEW z \in Nat, NEW c \in Nat \ {0}, x * b <= y * a, y * c <= z * b
    PROVE  x * c <= z * a
<1>1. (x * b) * c <= (y * a) * c
  OBVIOUS
<1>2. (y * c) * a <= (z * b) * a
  OBVIOUS
<1>3. (x * c) * b <= (z * a) * b
  BY <1>1, <1>2
<1>4. x * c \in Nat /\ z * a \in Nat
  OBVIOUS
<1> DEFINE m == x * c
           n == z * a
<1>5. m \in Nat /\ n \in Nat /\ m * b <= n * b
  BY <1>3, <1>4
<1> HIDE DEF m, n
<1>6. m <= n
  BY <1>5
<1> QED
  BY <1>6 DEF m, n

\* Among finitely many lengths there is a shortest.
LEMMA ShortestExists ==
    ASSUME NEW C, NEW R, C \in [Faces -> Int], R \in [Faces -> Int],
           NEW S, S \subseteq Faces, S # {}, \A k \in S : C[k] > 0 /\ R[k] > 0
    PROVE  \E k \in S : \A l \in S : C[k] * R[l] <= C[l] * R[k]
<1> DEFINE Leq(k, l) == C[k] * R[l] <= C[l] * R[k]
<1>1. \A k \in S : Leq(k, k)
  OBVIOUS
<1>2. \A k, l \in S : Leq(k, l) \/ Leq(l, k)
  <2>1. ASSUME NEW k \in S, NEW l \in S
        PROVE  Leq(k, l) \/ Leq(l, k)
    <3>1. C[k] * R[l] \in Int /\ C[l] * R[k] \in Int
      OBVIOUS
    <3> QED
      BY <3>1
  <2> QED
    BY <2>1
<1>3. \A j, k, l \in S : Leq(j, k) /\ Leq(k, l) => Leq(j, l)
  <2>1. ASSUME NEW j \in S, NEW k \in S, NEW l \in S, Leq(j, k), Leq(k, l)
        PROVE  Leq(j, l)
    <3>1. /\ C[j] \in Nat /\ C[k] \in Nat /\ C[l] \in Nat
          /\ R[j] \in Nat \ {0} /\ R[k] \in Nat \ {0} /\ R[l] \in Nat \ {0}
      OBVIOUS
    <3> QED
      BY <3>1, <2>1, LengthsCompare
  <2> QED
    BY <2>1
<1> HIDE DEF Leq
<1> DEFINE Best(n, k) == k \in S /\ k <= n /\ \A l \in S : l <= n => Leq(k, l)
<1>4. ASSUME NEW n \in 0 .. 2, \E k : Best(n, k)
      PROVE  \E k : Best(n + 1, k)
  <2>1. PICK k : Best(n, k)
    BY <1>4
  <2>2. \A l \in S : l \in Int /\ (l <= n + 1 <=> l <= n \/ l = n + 1)
    BY DEF Faces
  <2>3. CASE n + 1 \notin S
    <3>1. Best(n + 1, k)
      BY <2>1, <2>2, <2>3
    <3> QED
      BY <3>1
  <2>4. CASE n + 1 \in S /\ Leq(k, n + 1)
    <3>1. Best(n + 1, k)
      BY <2>1, <2>2, <2>4
    <3> QED
      BY <3>1
  <2>5. CASE n + 1 \in S /\ Leq(n + 1, k)
    <3>1. \A l \in S : l <= n => Leq(n + 1, l)
      BY <2>1, <2>5, <1>3
    <3>2. Leq(n + 1, n + 1)
      BY <2>5, <1>1
    <3>3. Best(n + 1, n + 1)
      BY <2>2, <2>5, <3>1, <3>2
    <3> QED
      BY <3>3
  <2> QED
    BY <2>1, <2>3, <2>4, <2>5, <1>2
<1>5. ASSUME NEW n \in 0 .. 2, n + 1 \in S, \A l \in S : ~(l <= n)
      PROVE  \E k : Best(n + 1, k)
  <2>1. \A l \in S : l <= n + 1 => l = n + 1
    BY <1>5 DEF Faces
  <2>2. Best(n + 1, n + 1)
    BY <2>1, <1>1, <1>5
  <2> QED
    BY <2>2
<1>6. 0 \in S => Best(0, 0)
  BY <1>1 DEF Faces
<1>7. (\E k : Best(0, k)) \/ \A l \in S : ~(l <= 0)
  BY <1>6 DEF Faces
<1>8. ASSUME NEW n \in 0 .. 2, (\E k : Best(n, k)) \/ \A l \in S : ~(l <= n)
      PROVE  (\E k : Best(n + 1, k)) \/ \A l \in S : ~(l <= n + 1)
  <2>1. CASE \E k : Best(n, k)
    BY <2>1, <1>4
  <2>2. CASE \A l \in S : ~(l <= n)
    <3>1. CASE n + 1 \in S
      BY <2>2, <3>1, <1>5
    <3>2. CASE n + 1 \notin S
      BY <2>2, <3>2 DEF Faces
    <3> QED
      BY <3>1, <3>2
  <2> QED
    BY <2>1, <2>2, <1>8
<1> DEFINE Done(n) == (\E k : Best(n, k)) \/ \A l \in S : ~(l <= n)
<1>9. Done(0) /\ \A n \in 0 .. 2 : Done(n) => Done(n + 1)
  BY <1>7, <1>8
<1> HIDE DEF Done
<1>10. Done(1) /\ Done(2) /\ Done(3)
  <2>1. Done(0 + 1)
    BY <1>9
  <2>2. Done(1)
    BY <2>1
  <2>3. Done(1 + 1)
    BY <1>9, <2>2
  <2>4. Done(2)
    BY <2>3
  <2>5. Done(2 + 1)
    BY <1>9, <2>4
  <2>6. Done(3)
    BY <2>5
  <2> QED
    BY <2>2, <2>4, <2>6
<1>11. \A l \in S : l <= 3
  BY DEF Faces
<1>12. PICK k : Best(3, k)
  <2>1. ~(\A l \in S : ~(l <= 3))
    BY <1>11
  <2> HIDE DEF Best
  <2> QED
    BY <1>10, <2>1 DEF Done
<1>13. k \in S /\ \A l \in S : Leq(k, l)
  BY <1>11, <1>12
<1> QED
  BY <1>13 DEF Leq

\* The faces ahead at the shortest length.
Nearest(cell, point, direction, forbidden) ==
    LET ahead == {k \in Decreasing(cell, direction, forbidden) : Coordinate(cell, k, point) > 0}
    IN  {k \in ahead : \A l \in ahead :
            Coordinate(cell, k, point) * (-DirectionalChange(cell, l, direction))
                <= Coordinate(cell, l, point) * (-DirectionalChange(cell, k, direction))}

\* The faces through which a ray leaves where it stands.
Here(cell, point, direction, forbidden) ==
    {k \in Decreasing(cell, direction, forbidden) : Coordinate(cell, k, point) = 0}

LEMMA NearestExists ==
    ASSUME NEW cell \in Cells, NEW point \in Positions, NEW direction \in Vectors, NEW forbidden,
           NEW k \in Decreasing(cell, direction, forbidden), Coordinate(cell, k, point) > 0
    PROVE  /\ Nearest(cell, point, direction, forbidden) # {}
           /\ Nearest(cell, point, direction, forbidden) \subseteq Faces
<1> DEFINE C == [l \in Faces |-> Coordinate(cell, l, point)]
           R == [l \in Faces |-> -DirectionalChange(cell, l, direction)]
           S == {l \in Decreasing(cell, direction, forbidden) : Coordinate(cell, l, point) > 0}
<1>1. C \in [Faces -> Int] /\ R \in [Faces -> Int]
  BY CoordinateTypes
<1>2. S \subseteq Faces /\ S # {} /\ \A l \in S : C[l] > 0 /\ R[l] > 0
  BY CoordinateTypes DEF Decreasing
<1>3. Nearest(cell, point, direction, forbidden) = {l \in S : \A j \in S : C[l] * R[j] <= C[j] * R[l]}
  BY <1>2 DEF Nearest
<1> HIDE DEF C, R, S
<1>4. \E l \in S : \A j \in S : C[l] * R[j] <= C[j] * R[l]
  BY <1>1, <1>2, ShortestExists
<1> QED
  BY <1>2, <1>3, <1>4

\* What nextFaceIntersection may return.
LEMMA IntersectionIs ==
    ASSUME NEW cell \in Cells, NEW point \in Positions, NEW direction \in Vectors, NEW forbidden,
           NEW hit \in NextFaceIntersections(cell, point, direction, forbidden) \ {NoIntersection}
    PROVE  \E tied :
              /\ tied # {} /\ tied \subseteq Decreasing(cell, direction, forbidden)
              /\ hit = Intersection(cell, point, direction, tied)
              /\ \/ tied \subseteq Here(cell, point, direction, forbidden)
                 \/ tied = Nearest(cell, point, direction, forbidden)
<1> DEFINE exits == Decreasing(cell, direction, forbidden)
           ahead == {k \in exits : Coordinate(cell, k, point) > 0}
           here == Here(cell, point, direction, forbidden)
           nearest == Nearest(cell, point, direction, forbidden)
<1>1. NextFaceIntersections(cell, point, direction, forbidden)
          = {Intersection(cell, point, direction, tied) : tied \in (SUBSET here) \ {{}}}
                \cup {IF ahead = {} THEN NoIntersection
                      ELSE Intersection(cell, point, direction, nearest)}
  BY DEF NextFaceIntersections, Here, Nearest
<1>2. here \subseteq exits /\ nearest \subseteq exits
  BY DEF Here, Nearest
<1>3. ahead # {} => nearest # {}
  BY NearestExists
<1> HIDE DEF exits, ahead, here, nearest
<1>4. CASE \E tied \in (SUBSET here) \ {{}} : hit = Intersection(cell, point, direction, tied)
  <2>1. PICK tied \in (SUBSET here) \ {{}} : hit = Intersection(cell, point, direction, tied)
    BY <1>4
  <2>2. tied # {} /\ tied \subseteq exits /\ tied \subseteq here
    BY <1>2
  <2> QED
    BY <2>1, <2>2 DEF exits, here
<1>5. CASE ahead # {} /\ hit = Intersection(cell, point, direction, nearest)
  BY <1>2, <1>3, <1>5 DEF exits, nearest
<1> QED
  BY <1>1, <1>4, <1>5

LEMMA TiedIs ==
    ASSUME NEW cell \in Cells, NEW point \in Positions, NEW direction \in Vectors, NEW forbidden,
           NEW tied, tied # {}, tied \subseteq Decreasing(cell, direction, forbidden),
           NEW hit, hit = Intersection(cell, point, direction, tied)
    PROVE  /\ hit.localFace \in tied /\ hit.localFace \in Faces
           /\ hit.num = Coordinate(cell, hit.localFace, point) /\ hit.num \in Int
           /\ hit.den = -DirectionalChange(cell, hit.localFace, direction)
           /\ hit.den \in Nat \ {0}
           /\ hit.tied = tied
<1>1. tied \subseteq Faces /\ \A k \in tied : DirectionalChange(cell, k, direction) < 0
  BY DEF Decreasing
<1>2. tied \subseteq Nat
  BY <1>1 DEF Faces
<1>3. Min(tied) \in tied
  BY <1>2, MinIs
<1> DEFINE k == Min(tied)
<1>4. hit = [localFace |-> k, num |-> Coordinate(cell, k, point),
             den |-> -DirectionalChange(cell, k, direction), tied |-> tied]
  BY DEF Intersection
<1> HIDE DEF k
<1>5. k \in tied /\ k \in Faces
  BY <1>1, <1>3 DEF k
<1>6. Coordinate(cell, k, point) \in Int /\ -DirectionalChange(cell, k, direction) \in Nat \ {0}
  BY <1>1, <1>5, CoordinateTypes
<1> QED
  BY <1>4, <1>5, <1>6

LEMMA AdvanceIs ==
    ASSUME NEW point \in Positions, NEW direction \in Vectors, NEW hit,
           hit.num \in Int, hit.den \in Nat \ {0}
    PROVE  /\ Advance(point, direction, hit) \in Positions
           /\ \E g \in Nat \ {0} :
                 /\ Plus(Times(hit.den, point.v), Times(hit.num, direction))
                        = Times(g, Advance(point, direction, hit).v)
                 /\ point.w * hit.den = g * Advance(point, direction, hit).w
<1> DEFINE v == Plus(Times(hit.den, point.v), Times(hit.num, direction))
           w == point.w * hit.den
<1>1. point.v \in Vectors /\ point.w \in Nat \ {0} /\ hit.den \in Int
  BY DEF Positions
<1>2. Times(hit.den, point.v) \in Vectors /\ Times(hit.num, direction) \in Vectors
  BY <1>1, VectorTypes
<1>3. v \in Vectors /\ w \in Nat \ {0}
  BY <1>1, <1>2, VectorTypes
<1>4. Advance(point, direction, hit) = Point(v, w)
  BY DEF Advance
<1> HIDE DEF v, w
<1>5. /\ Point(v, w) \in Positions
      /\ \E g \in Nat \ {0} : v = Times(g, Point(v, w).v) /\ w = g * Point(v, w).w
  BY <1>3, PointIs
<1> QED
  BY <1>4, <1>5 DEF v, w

-----------------------------------------------------------------------------
(* The recovery around edges and vertices.                                 *)

\* Crossings is defined at every step.  The definition is recursive; that there is
\* such a function goes by the smallest number of steps for which there is none.
LEMMA CrossingsAre ==
    ASSUME NEW cell, NEW firstExit, NEW point, NEW direction,
           NEW f, f = Crossings(cell, firstExit, point, direction)
    PROVE  /\ f[0] = [cell |-> cell, exit |-> firstExit, recent |-> <<cell, None, None>>,
                      result |-> Transition("failed", cell, None, None)]
           /\ \A n \in 1 .. MaxImmediateFaceTransitions :
                 f[n] = IF f[n - 1].result.status = "failed"
                        THEN CrossExit(f[n - 1], point, direction) ELSE f[n - 1]
<1> DEFINE M == MaxImmediateFaceTransitions
           from == [cell |-> cell, exit |-> firstExit, recent |-> <<cell, None, None>>,
                    result |-> Transition("failed", cell, None, None)]
           Then(at) == IF at.result.status = "failed" THEN CrossExit(at, point, direction) ELSE at
           Def(g) == g = [n \in 0 .. M |-> IF n = 0 THEN from ELSE Then(g[n - 1])]
<1>1. M \in Nat \ {0}
  BY BoundsAssumption
<1>2. f = CHOOSE g : Def(g)
  BY DEF Crossings
<1> HIDE DEF M, from, Then, Def
<1> DEFINE Upto(g, n) == g[0] = from /\ \A m \in 1 .. n : g[m] = Then(g[m - 1])
           T == {n \in 0 .. M : ~\E g : Upto(g, n)}
<1>3. T = {}
  <2>1. SUFFICES ASSUME T # {}
                 PROVE  FALSE
    OBVIOUS
  <2>2. T \subseteq Nat
    BY <1>1
  <2>3. (\A n \in T : n \in 0 .. M /\ ~\E g : Upto(g, n)) /\ \A n \in 0 .. M \ T : \E g : Upto(g, n)
    OBVIOUS
  <2> HIDE DEF T
  <2>4. PICK n \in T : \A m \in T : ~(m < n)
    BY <2>1, <2>2, Least
  <2>5. n \in 0 .. M /\ ~\E g : Upto(g, n)
    BY <2>3
  <2>6. CASE n = 0
    <3>1. Upto([m \in {0} |-> from], 0)
      OBVIOUS
    <3> QED
      BY <2>5, <2>6, <3>1
  <2>7. CASE n # 0
    <3>1. n - 1 \in 0 .. M /\ n - 1 \notin T
      BY <1>1, <2>4, <2>5, <2>7
    <3>2. PICK g : Upto(g, n - 1)
      BY <2>3, <3>1
    <3> DEFINE h == [m \in 0 .. n |-> IF m = n THEN Then(g[n - 1]) ELSE g[m]]
    <3>3. h[0] = from
      BY <1>1, <2>5, <2>7, <3>2
    <3>4. ASSUME NEW m \in 1 .. n
          PROVE  h[m] = Then(h[m - 1])
      <4>1. h[m - 1] = g[m - 1]
        BY <1>1, <2>5
      <4>2. m # n => h[m] = g[m] /\ m \in 1 .. (n - 1)
        BY <1>1, <2>5
      <4>3. m = n => h[m] = Then(g[n - 1])
        BY <1>1, <2>5
      <4> QED
        BY <4>1, <4>2, <4>3, <3>2
    <3> HIDE DEF h
    <3>5. Upto(h, n)
      BY <3>3, <3>4
    <3> QED
      BY <2>5, <3>5
  <2> QED
    BY <2>6, <2>7
<1>4. PICK g : Upto(g, M)
  <2>1. M \in 0 .. M
    BY <1>1
  <2>2. ~(M \in 0 .. M /\ ~\E g : Upto(g, M))
    BY <1>3
  <2> QED
    BY <2>1, <2>2
<1> DEFINE h == [n \in 0 .. M |-> g[n]]
<1>5. Def(h)
  <2>1. \A n \in 0 .. M : h[n] = IF n = 0 THEN from ELSE Then(h[n - 1])
    <3>1. ASSUME NEW n \in 0 .. M, n # 0
          PROVE  g[n] = Then(g[n - 1]) /\ h[n - 1] = g[n - 1]
      <4>1. n \in 1 .. M /\ n - 1 \in 0 .. M
        BY <1>1, <3>1
      <4> QED
        BY <1>4, <4>1
    <3>2. \A n \in 0 .. M : h[n] = g[n]
      OBVIOUS
    <3>3. g[0] = from
      BY <1>4
    <3> QED
      BY <3>1, <3>2, <3>3
  <2>2. h = [n \in 0 .. M |-> IF n = 0 THEN from ELSE Then(h[n - 1])]
    BY <2>1
  <2> HIDE DEF h
  <2> QED
    BY <2>2 DEF Def
<1>6. Def(f)
  BY <1>2, <1>5
<1>7. f = [n \in 0 .. M |-> IF n = 0 THEN from ELSE Then(f[n - 1])]
  BY <1>6 DEF Def
<1>8. f[0] = from
  BY <1>1, <1>7
<1>9. ASSUME NEW n \in 1 .. M
      PROVE  f[n] = Then(f[n - 1])
  <2>1. n \in 0 .. M /\ n # 0
    BY <1>1
  <2> QED
    BY <1>7, <2>1
<1> QED
  BY <1>8, <1>9 DEF M, from, Then

\* What holds at the start and is kept by every crossing holds of the result.
LEMMA RecoveryKeeps ==
    ASSUME NEW cell, NEW firstExit, NEW point, NEW direction, NEW J,
           [cell |-> cell, exit |-> firstExit, recent |-> <<cell, None, None>>,
            result |-> Transition("failed", cell, None, None)] \in J,
           \A at \in J : at.result.status = "failed" => CrossExit(at, point, direction) \in J
    PROVE  \E at \in J : RecoverFaceTransition(cell, firstExit, point, direction) = at.result
<1> DEFINE M == MaxImmediateFaceTransitions
           f == Crossings(cell, firstExit, point, direction)
           T == {n \in 0 .. M : f[n] \notin J}
<1>1. M \in Nat
  BY BoundsAssumption
<1>2. /\ f[0] \in J
      /\ \A n \in 1 .. M : f[n] = IF f[n - 1].result.status = "failed"
                                THEN CrossExit(f[n - 1], point, direction) ELSE f[n - 1]
  BY CrossingsAre
<1>3. RecoverFaceTransition(cell, firstExit, point, direction) = f[M].result
  BY DEF RecoverFaceTransition
<1> HIDE DEF M, f
<1>4. T = {}
  <2>1. SUFFICES ASSUME T # {}
                 PROVE  FALSE
    OBVIOUS
  <2>2. T \subseteq Nat
    BY <1>1
  <2>3. (\A n \in T : n \in 0 .. M /\ f[n] \notin J) /\ \A n \in 0 .. M \ T : f[n] \in J
    OBVIOUS
  <2> HIDE DEF T
  <2>4. PICK n \in T : \A m \in T : ~(m < n)
    BY <2>1, <2>2, Least
  <2>5. n \in 0 .. M /\ f[n] \notin J
    BY <2>3
  <2>6. n # 0
    BY <1>2, <2>5
  <2>7. n \in 1 .. M /\ n - 1 \in 0 .. M \ T
    BY <1>1, <2>4, <2>5, <2>6
  <2>8. f[n - 1] \in J
    BY <2>3, <2>7
  <2>9. f[n] \in J
    BY <1>2, <2>7, <2>8
  <2> QED
    BY <2>5, <2>9
<1>5. M \in 0 .. M
  BY <1>1
<1>6. f[M] \in J
  BY <1>4, <1>5
<1> QED
  BY <1>3, <1>6

Transitions == [status : {"reachedBoundary", "enteredCell", "failed"}, cell : Cells,
                forbiddenFace : Faces \cup {None}, boundaryFace : Faces \cup {None}]

\* A transition to the surface is at a boundary face.
IsTransition(t) ==
    /\ t \in Transitions
    /\ t.status = "reachedBoundary" =>
          t.boundaryFace \in Faces /\ <<t.cell, t.boundaryFace>> \in Boundary

LEMMA NextExitIs ==
    ASSUME NEW cell, NEW exits, exits \subseteq Faces, NEW recent
    PROVE  NextExit(cell, exits, recent) \in exits \cup {None}
<1> DEFINE preferred == {k \in exits : NeighborCell[cell][k] # None /\ NeighborCell[cell][k] \notin recent}
<1>1. NextExit(cell, exits, recent) = IF preferred # {} THEN Min(preferred)
                                      ELSE IF exits # {} THEN Min(exits) ELSE None
  BY DEF NextExit
<1>2. preferred \subseteq exits /\ exits \subseteq Nat
  BY DEF Faces
<1> HIDE DEF preferred
<1>3. preferred # {} => Min(preferred) \in exits
  BY <1>2, MinIs
<1>4. exits # {} => Min(exits) \in exits
  BY <1>2, MinIs
<1> QED
  BY <1>1, <1>3, <1>4

LEMMA NextExitIsNone ==
    ASSUME NEW cell, NEW exits, exits \subseteq Faces, NEW recent,
           NextExit(cell, exits, recent) = None
    PROVE  exits = {}
<1> DEFINE preferred == {k \in exits : NeighborCell[cell][k] # None /\ NeighborCell[cell][k] \notin recent}
<1>1. NextExit(cell, exits, recent) = IF preferred # {} THEN Min(preferred)
                                      ELSE IF exits # {} THEN Min(exits) ELSE None
  BY DEF NextExit
<1>2. preferred \subseteq exits /\ exits \subseteq Nat
  BY DEF Faces
<1> HIDE DEF preferred
<1>3. preferred # {} => Min(preferred) \in Nat
  BY <1>2, MinIs
<1>4. exits # {} => Min(exits) \in Nat
  BY <1>2, MinIs
<1>5. None \notin Nat
  BY DEF None
<1> QED
  BY <1>1, <1>3, <1>4, <1>5

\* A crossing in progress: the ray is in a cell and goes on through an exit of it.
Recents == (Cells \cup {None}) \X (Cells \cup {None}) \X (Cells \cup {None})
CrossingStates == [cell : Cells, exit : Faces \cup {None}, recent : Recents, result : Transitions]
IsCrossing(at) ==
    /\ at \in CrossingStates
    /\ IsTransition(at.result)
    /\ at.result.status = "failed" => at.exit \in Faces

LEMMA ProbeExitsAreFaces ==
    ASSUME NEW cell, NEW point, NEW direction
    PROVE  ProbeExits(cell, point, direction) \subseteq Faces
  BY DEF ProbeExits

\* The two ways of a crossing: out of the mesh, and into the next cell.
LEMMA CrossExitIs ==
    ASSUME NEW at, NEW point, NEW direction, IsCrossing(at), at.exit \in Faces,
           NEW next, next = NeighborCell[at.cell][at.exit]
    PROVE  /\ next = None =>
                CrossExit(at, point, direction)
                  = [cell |-> at.cell, exit |-> at.exit, recent |-> at.recent,
                     result |-> Transition("reachedBoundary", at.cell, None, at.exit)]
           /\ next # None => \E exit, recent, seen :
                /\ recent \in Recents
                /\ exit = NextExit(next, ProbeExits(next, point, direction), seen)
                /\ CrossExit(at, point, direction)
                     = [cell |-> next, exit |-> exit, recent |-> recent,
                        result |-> Transition(IF exit = None THEN "enteredCell" ELSE "failed",
                                              next, NeighborFace[at.cell][at.exit], None)]
<1>1. at = [cell |-> at.cell, exit |-> at.exit, recent |-> at.recent, result |-> at.result]
  BY DEF IsCrossing, CrossingStates
<1>2. CASE next = None
  <2>1. CrossExit(at, point, direction)
          = [at EXCEPT !.result = Transition("reachedBoundary", at.cell, None, at.exit)]
    BY <1>2 DEF CrossExit
  <2> DEFINE t == Transition("reachedBoundary", at.cell, None, at.exit)
  <2> HIDE DEF t
  <2>2. [at EXCEPT !.result = t]
          = [cell |-> at.cell, exit |-> at.exit, recent |-> at.recent, result |-> t]
    BY <1>1
  <2> QED
    BY <1>2, <2>1, <2>2 DEF t
<1>3. CASE next # None
  <2> DEFINE recent == <<next, at.recent[1], at.recent[2]>>
             seen == {recent[i] : i \in 1 .. 3}
             exit == NextExit(next, ProbeExits(next, point, direction), seen)
  <2>1. CrossExit(at, point, direction)
          = [cell |-> next, exit |-> exit, recent |-> recent,
             result |-> Transition(IF exit = None THEN "enteredCell" ELSE "failed",
                                   next, NeighborFace[at.cell][at.exit], None)]
    BY <1>3 DEF CrossExit
  <2>3. recent \in Recents
    <3>1. next \in Cells
      BY <1>3, BoundaryIs DEF IsCrossing, CrossingStates
    <3> QED
      BY <3>1 DEF IsCrossing, CrossingStates, Recents
  <2> HIDE DEF recent, seen
  <2>2. exit = NextExit(next, ProbeExits(next, point, direction), seen)
    OBVIOUS
  <2> HIDE DEF exit
  <2> QED
    BY <1>3, <2>1, <2>2, <2>3
<1> QED
  BY <1>2, <1>3

LEMMA CrossExitTypes ==
    ASSUME NEW at, NEW point, NEW direction, IsCrossing(at), at.result.status = "failed"
    PROVE  IsCrossing(CrossExit(at, point, direction))
<1> DEFINE next == NeighborCell[at.cell][at.exit]
           back == NeighborFace[at.cell][at.exit]
           then == CrossExit(at, point, direction)
<1> SUFFICES IsCrossing(then)
  OBVIOUS
<1>1. at.cell \in Cells /\ at.exit \in Faces /\ at.recent \in Recents
  BY DEF IsCrossing, CrossingStates
<1>2. /\ <<at.cell, at.exit>> \in Boundary <=> next = None
      /\ next # None => next \in Cells /\ back \in Faces
  BY <1>1, BoundaryIs
<1>3. CASE next = None
  <2>1. then = [cell |-> at.cell, exit |-> at.exit, recent |-> at.recent,
                result |-> Transition("reachedBoundary", at.cell, None, at.exit)]
    BY <1>1, <1>3, CrossExitIs
  <2> HIDE DEF then, next
  <2>2. IsTransition(then.result)
    BY <1>1, <1>2, <1>3, <2>1 DEF IsTransition, Transitions, Transition
  <2> QED
    BY <1>1, <2>1, <2>2 DEF IsCrossing, CrossingStates, IsTransition, Transition
<1>4. CASE next # None
  <2>1. PICK exit, recent, seen :
          /\ recent \in Recents
          /\ exit = NextExit(next, ProbeExits(next, point, direction), seen)
          /\ then = [cell |-> next, exit |-> exit, recent |-> recent,
                     result |-> Transition(IF exit = None THEN "enteredCell" ELSE "failed",
                                           next, back, None)]
    BY <1>1, <1>4, CrossExitIs
  <2>2. exit \in Faces \cup {None}
    BY <2>1, NextExitIs, ProbeExitsAreFaces
  <2> HIDE DEF then, next, back
  <2>3. IsTransition(then.result)
    BY <1>2, <1>4, <2>1 DEF IsTransition, Transitions, Transition
  <2>4. then.result.status = "failed" => exit \in Faces
    BY <2>1, <2>2 DEF Transition
  <2> QED
    BY <1>2, <1>4, <2>1, <2>2, <2>3, <2>4 DEF IsCrossing, CrossingStates, IsTransition
<1> QED
  BY <1>3, <1>4

LEMMA FirstCrossing ==
    ASSUME NEW cell \in Cells, NEW k \in Faces,
           NEW at, at = [cell |-> cell, exit |-> k, recent |-> <<cell, None, None>>,
                         result |-> Transition("failed", cell, None, None)]
    PROVE  IsCrossing(at)
<1>1. IsTransition(at.result)
  BY DEF IsTransition, Transitions, Transition
<1>2. <<cell, None, None>> \in Recents
  BY DEF Recents
<1> QED
  BY <1>1, <1>2 DEF IsCrossing, CrossingStates, IsTransition

LEMMA RecoveryTypes ==
    ASSUME NEW cell \in Cells, NEW k \in Faces, NEW point, NEW direction
    PROVE  IsTransition(RecoverFaceTransition(cell, k, point, direction))
<1> DEFINE first == [cell |-> cell, exit |-> k, recent |-> <<cell, None, None>>,
                     result |-> Transition("failed", cell, None, None)]
           J == {at \in CrossingStates : IsCrossing(at)}
<1>1. \A at : at \in J <=> IsCrossing(at)
  BY DEF IsCrossing
<1>2. first \in J
  BY <1>1, FirstCrossing
<1>3. \A at \in J : at.result.status = "failed" => CrossExit(at, point, direction) \in J
  BY <1>1, CrossExitTypes
<1> HIDE DEF J
<1>4. \E at \in J : RecoverFaceTransition(cell, k, point, direction) = at.result
  BY <1>2, <1>3, RecoveryKeeps
<1> QED
  BY <1>1, <1>4 DEF IsCrossing

LEMMA TransitionTypes ==
    ASSUME NEW cell \in Cells, NEW hit, hit.localFace \in Faces, NEW point, NEW direction
    PROVE  IsTransition(TransitionAcrossIntersection(cell, hit, point, direction))
<1> DEFINE k == hit.localFace
           next == NeighborCell[cell][k]
           back == NeighborFace[cell][k]
<1>1. k \in Faces
  OBVIOUS
<1>2. TransitionAcrossIntersection(cell, hit, point, direction)
        = IF Cardinality(hit.tied) > 1 THEN RecoverFaceTransition(cell, k, point, direction)
          ELSE IF next = None THEN Transition("reachedBoundary", cell, None, k)
          ELSE Transition("enteredCell", next, back, None)
  BY DEF TransitionAcrossIntersection
<1> HIDE DEF k
<1>3. IsTransition(RecoverFaceTransition(cell, k, point, direction))
  BY <1>1, RecoveryTypes
<1>4. /\ <<cell, k>> \in Boundary <=> next = None
      /\ next # None => next \in Cells /\ back \in Faces
  BY <1>1, BoundaryIs
<1> HIDE DEF next, back
<1>5. next = None => IsTransition(Transition("reachedBoundary", cell, None, k))
  BY <1>1, <1>4 DEF IsTransition, Transitions, Transition
<1>6. next # None => IsTransition(Transition("enteredCell", next, back, None))
  BY <1>1, <1>4 DEF IsTransition, Transitions, Transition
<1> QED
  BY <1>2, <1>3, <1>5, <1>6

-----------------------------------------------------------------------------
(* Face ids.                                                               *)

LEMMA FaceIdIs ==
    ASSUME NEW cell \in Cells, NEW k \in Faces
    PROVE  /\ FaceId(cell, k) \in Nat
           /\ CellOf(FaceId(cell, k)) = cell /\ FaceOf(FaceId(cell, k)) = k
<1>1. cell \in Nat /\ k \in 0 .. 3
  BY PointsAssumption DEF Faces
<1>2. 4 * cell + k \in Nat /\ (4 * cell + k) \div 4 = cell /\ (4 * cell + k) % 4 = k
  BY <1>1
<1> QED
  BY <1>2 DEF FaceId, CellOf, FaceOf

LEMMA BoundaryFaceIs ==
    ASSUME NEW id
    PROVE  /\ id \in BoundaryFaces => /\ id \in Nat /\ CellOf(id) \in Cells /\ FaceOf(id) \in Faces
                                     /\ <<CellOf(id), FaceOf(id)>> \in Boundary
                                     /\ id = FaceId(CellOf(id), FaceOf(id))
           /\ \A cell \in Cells, k \in Faces :
                 <<cell, k>> \in Boundary => FaceId(cell, k) \in BoundaryFaces
<1>1. ASSUME id \in BoundaryFaces
      PROVE  /\ id \in Nat /\ CellOf(id) \in Cells /\ FaceOf(id) \in Faces
             /\ <<CellOf(id), FaceOf(id)>> \in Boundary
             /\ id = FaceId(CellOf(id), FaceOf(id))
  <2>1. PICK at \in Boundary : id = FaceId(at[1], at[2])
    BY <1>1 DEF BoundaryFaces
  <2>2. at[1] \in Cells /\ at[2] \in Faces /\ at = <<at[1], at[2]>>
    BY DEF Boundary
  <2> QED
    BY <2>1, <2>2, FaceIdIs
<1>2. ASSUME NEW cell \in Cells, NEW k \in Faces, <<cell, k>> \in Boundary
      PROVE  FaceId(cell, k) \in BoundaryFaces
  <2>1. FaceId(cell, k) = FaceId(<<cell, k>>[1], <<cell, k>>[2])
    OBVIOUS
  <2> QED
    BY <1>2, <2>1 DEF BoundaryFaces
<1> QED
  BY <1>1, <1>2

LEMMA PumpFacesAreBoundary ==
    ASSUME NEW domains
    PROVE  PumpBoundaryFaces(domains) \subseteq BoundaryFaces
  BY DEF PumpBoundaryFaces, BoundaryFaces

-----------------------------------------------------------------------------
(* Triangles.                                                              *)

\* The square of the length of a cross product.
LEMMA Lagrange ==
    ASSUME NEW a \in Vectors, NEW b \in Vectors
    PROVE  Dot(a, a) * Dot(b, b) - Dot(a, b) * Dot(a, b) = Dot(Cross(a, b), Cross(a, b))
<1>1. PICK a1 \in Int, a2 \in Int, a3 \in Int : a = <<a1, a2, a3>>
  BY VectorIs
<1>2. PICK b1 \in Int, b2 \in Int, b3 \in Int : b = <<b1, b2, b3>>
  BY VectorIs
<1> QED
  BY <1>1, <1>2 DEF Dot, Cross

LEMMA SquareIsPositive ==
    ASSUME NEW a \in Vectors, a # <<0, 0, 0>>
    PROVE  Dot(a, a) \in Nat \ {0}
<1>1. PICK a1 \in Int, a2 \in Int, a3 \in Int : a = <<a1, a2, a3>>
  BY VectorIs
<1>2. a1 * a1 \in Nat /\ a2 * a2 \in Nat /\ a3 * a3 \in Nat
  OBVIOUS
<1>3. (a1 # 0 => a1 * a1 > 0) /\ (a2 # 0 => a2 * a2 > 0) /\ (a3 # 0 => a3 * a3 > 0)
  OBVIOUS
<1>4. a1 # 0 \/ a2 # 0 \/ a3 # 0
  BY <1>1
<1>5. Dot(a, a) = a1 * a1 + a2 * a2 + a3 * a3
  BY <1>1 DEF Dot
<1> QED
  BY <1>2, <1>3, <1>4, <1>5

\* The sides of face k of a cell, and the square of twice its area.
SideA(cell, k) == Minus(Corner(cell, k, 2), Corner(cell, k, 1))
SideB(cell, k) == Minus(Corner(cell, k, 3), Corner(cell, k, 1))
NormalOf(cell, k) == Cross(SideA(cell, k), SideB(cell, k))
Square(cell, k) == Dot(NormalOf(cell, k), NormalOf(cell, k))

LEMMA SidesAre ==
    ASSUME NEW cell \in Cells, NEW k \in Faces
    PROVE  /\ SideA(cell, k) \in Vectors /\ SideB(cell, k) \in Vectors
           /\ NormalOf(cell, k) \in Vectors
           /\ Gradient(cell, k) = NormalOf(cell, k)
              \/ Gradient(cell, k) = Times(-1, NormalOf(cell, k))
           /\ NormalOf(cell, k) # <<0, 0, 0>>
           /\ Square(cell, k) \in Nat \ {0}
<1>1. PICK a \in Vectors, b \in Vectors, c \in Vectors, d \in Vectors :
          /\ a = Corner(cell, k, 1) /\ b = Corner(cell, k, 2) /\ c = Corner(cell, k, 3)
          /\ d = Opposite(cell, k)
  BY CornersAre, ApexIs
<1>2. SideA(cell, k) \in Vectors /\ SideB(cell, k) \in Vectors
  <2>1. Minus(b, a) \in Vectors /\ Minus(c, a) \in Vectors
    BY VectorTypes
  <2> QED
    BY <1>1, <2>1 DEF SideA, SideB
<1>3. PICK normal \in Vectors : normal = NormalOf(cell, k)
  BY <1>2, VectorTypes DEF NormalOf
<1>4. normal = Cross(Minus(b, a), Minus(c, a))
  BY <1>1, <1>3 DEF NormalOf, SideA, SideB
<1>5. /\ Gradient(cell, k) = IF Dot(normal, Minus(d, a)) > 0 THEN normal ELSE Times(-1, normal)
      /\ Offset(cell, k) = -Dot(Gradient(cell, k), a)
  BY <1>1, <1>4, PlaneIs
<1>6. normal # <<0, 0, 0>>
  <2>1. SUFFICES ASSUME normal = <<0, 0, 0>>
                 PROVE  FALSE
    OBVIOUS
  <2>2. Times(-1, normal) = <<0, 0, 0>>
    BY <2>1 DEF Times
  <2>3. Gradient(cell, k) = <<0, 0, 0>>
    BY <1>5, <2>1, <2>2
  <2>4. \A x \in Vectors : Dot(<<0, 0, 0>>, x) = 0
    BY VectorIs DEF Dot
  <2>5. Offset(cell, k) = 0
    BY <1>5, <2>3, <2>4
  <2>6. [v |-> d, w |-> 1] \in Positions
    BY DEF Positions
  <2>7. Coordinate(cell, k, [v |-> d, w |-> 1]) = Dot(Gradient(cell, k), d) + Offset(cell, k) * 1
    BY <2>6, CoordinateTypes
  <2>8. Coordinate(cell, k, [v |-> d, w |-> 1]) = 0
    BY <2>3, <2>4, <2>5, <2>7
  <2>9. Coordinate(cell, k, [v |-> d, w |-> 1]) > 0
    BY <1>1, VolumeAssumption
  <2> QED
    BY <2>8, <2>9
<1>7. Square(cell, k) \in Nat \ {0}
  BY <1>3, <1>6, SquareIsPositive DEF Square
<1> QED
  BY <1>2, <1>3, <1>5, <1>6, <1>7

\* The corners of a face, each as often as the weights say.
CornerSum(cell, k, ws) ==
    Plus(Plus(Times(ws[1], Corner(cell, k, 1)), Times(ws[2], Corner(cell, k, 2))),
         Times(ws[3], Corner(cell, k, 3)))
Sum3(ws) == ws[1] + ws[2] + ws[3]

LEMMA CornerSumIsVector ==
    ASSUME NEW cell \in Cells, NEW k \in Faces, NEW ws \in Vectors
    PROVE  CornerSum(cell, k, ws) \in Vectors
<1>1. PICK a \in Vectors, b \in Vectors, c \in Vectors :
          a = Corner(cell, k, 1) /\ b = Corner(cell, k, 2) /\ c = Corner(cell, k, 3)
  BY CornersAre
<1>2. ws[1] \in Int /\ ws[2] \in Int /\ ws[3] \in Int
  BY VectorIs
<1>3. /\ Times(ws[1], a) \in Vectors /\ Times(ws[2], b) \in Vectors
      /\ Times(ws[3], c) \in Vectors
  BY <1>2, VectorTypes
<1>4. Plus(Times(ws[1], a), Times(ws[2], b)) \in Vectors
  BY <1>3, VectorTypes
<1>5. Plus(Plus(Times(ws[1], a), Times(ws[2], b)), Times(ws[3], c)) \in Vectors
  BY <1>3, <1>4, VectorTypes
<1> QED
  BY <1>1, <1>5 DEF CornerSum

LEMMA WeightedIs ==
    ASSUME NEW cell \in Cells, NEW k \in Faces, NEW ws \in Vectors, Sum3(ws) > 0,
           NEW p, p = Weighted(CellFaces[cell][k], ws)
    PROVE  /\ p \in Positions
           /\ \E g \in Nat \ {0} : CornerSum(cell, k, ws) = Times(g, p.v) /\ Sum3(ws) = g * p.w
<1> DEFINE v == CornerSum(cell, k, ws)
           w == Sum3(ws)
<1>1. Len(CellFaces[cell][k]) = 3
  BY PointsAssumption
<1>2. ws[1] \in Int /\ ws[2] \in Int /\ ws[3] \in Int
  BY VectorIs
<1>3. p = Point(v, w)
  <2>1. p = Point(v, ws[1] + ws[2] + ws[3] + 0)
    BY <1>1 DEF Weighted, CornerSum, Corner
  <2>2. ws[1] + ws[2] + ws[3] + 0 = w
    BY <1>2 DEF Sum3
  <2> QED
    BY <2>1, <2>2
<1>4. v \in Vectors
  BY CornerSumIsVector
<1>5. w \in Nat \ {0}
  BY <1>2 DEF Sum3
<1> HIDE DEF v, w
<1>6. /\ Point(v, w) \in Positions
      /\ \E g \in Nat \ {0} : v = Times(g, Point(v, w).v) /\ w = g * Point(v, w).w
  BY <1>4, <1>5, PointIs
<1> QED
  BY <1>3, <1>6 DEF v, w

\* A vector in the plane of x and y in terms of them.
LEMMA Expand ==
    ASSUME NEW x \in Vectors, NEW y \in Vectors, NEW z \in Vectors,
           Dot(Cross(x, y), z) = 0
    PROVE  Times(Dot(x, x) * Dot(y, y) - Dot(x, y) * Dot(x, y), z)
             = Plus(Times(Dot(y, y) * Dot(z, x) - Dot(x, y) * Dot(z, y), x),
                    Times(Dot(x, x) * Dot(z, y) - Dot(x, y) * Dot(z, x), y))
<1>1. PICK x1 \in Int, x2 \in Int, x3 \in Int : x = <<x1, x2, x3>>
  BY VectorIs
<1>2. PICK y1 \in Int, y2 \in Int, y3 \in Int : y = <<y1, y2, y3>>
  BY VectorIs
<1>3. PICK z1 \in Int, z2 \in Int, z3 \in Int : z = <<z1, z2, z3>>
  BY VectorIs
<1> DEFINE xx == x1 * x1 + x2 * x2 + x3 * x3
           yy == y1 * y1 + y2 * y2 + y3 * y3
           xy == x1 * y1 + x2 * y2 + x3 * y3
           zx == z1 * x1 + z2 * x2 + z3 * x3
           zy == z1 * y1 + z2 * y2 + z3 * y3
           N == xx * yy - xy * xy
           s == yy * zx - xy * zy
           t == xx * zy - xy * zx
           n == (x2 * y3 - x3 * y2) * z1 + (x3 * y1 - x1 * y3) * z2 + (x1 * y2 - x2 * y1) * z3
<1>4. Dot(x, x) = xx /\ Dot(y, y) = yy /\ Dot(x, y) = xy /\ Dot(z, x) = zx /\ Dot(z, y) = zy
  BY <1>1, <1>2, <1>3 DEF Dot
<1>5. n = 0
  BY <1>1, <1>2, <1>3 DEF Dot, Cross
<1>6. /\ N * z1 = s * x1 + t * y1 + n * (x2 * y3 - x3 * y2)
      /\ N * z2 = s * x2 + t * y2 + n * (x3 * y1 - x1 * y3)
      /\ N * z3 = s * x3 + t * y3 + n * (x1 * y2 - x2 * y1)
  OBVIOUS
<1>7. N * z1 = s * x1 + t * y1 /\ N * z2 = s * x2 + t * y2 /\ N * z3 = s * x3 + t * y3
  <2>1. N \in Int /\ s \in Int /\ t \in Int
    OBVIOUS
  <2> HIDE DEF n, N, s, t
  <2> QED
    BY <1>5, <1>6, <2>1
<1>8. /\ N = Dot(x, x) * Dot(y, y) - Dot(x, y) * Dot(x, y)
      /\ s = Dot(y, y) * Dot(z, x) - Dot(x, y) * Dot(z, y)
      /\ t = Dot(x, x) * Dot(z, y) - Dot(x, y) * Dot(z, x)
  BY <1>4
<1> HIDE DEF N, s, t
<1>9. Times(N, z) = Plus(Times(s, x), Times(t, y))
  BY <1>1, <1>2, <1>3, <1>7 DEF Times, Plus
<1> QED
  BY <1>8, <1>9

LEMMA VerticesAre ==
    ASSUME NEW cell \in Cells, NEW k \in Faces
    PROVE  /\ Vertices(FaceId(cell, k)) = CellFaces[cell][k]
           /\ \A i \in 1 .. 3 : Points[Vertices(FaceId(cell, k))[i]] = Corner(cell, k, i)
  BY FaceIdIs DEF Vertices, Corner

\* Two ways to write the same place: one pair is a positive multiple of the other.
SamePlace(v, w, v2, w2) ==
    \E m, n \in Nat \ {0} : Times(m, v) = Times(n, v2) /\ m * w = n * w2

\* The barycentric coordinates of a point: their types, and that they give the point
\* where it is on the face.
LEMMA BarycentricIs ==
    ASSUME NEW cell \in Cells, NEW k \in Faces, NEW point \in Positions,
           NEW at, at = TriangleBarycentric(FaceId(cell, k), point)
    PROVE  /\ at \in [b : Vectors, over : Nat \ {0}]
           /\ Sum3(at.b) = at.over
           /\ Coordinate(cell, k, point) = 0
                 => SamePlace(point.v, point.w, CornerSum(cell, k, at.b), at.over)
<1> DEFINE id == FaceId(cell, k)
<1>1. PICK a \in Vectors, b \in Vectors, c \in Vectors :
          a = Corner(cell, k, 1) /\ b = Corner(cell, k, 2) /\ c = Corner(cell, k, 3)
  BY CornersAre
<1>2. point.v \in Vectors /\ point.w \in Nat \ {0}
  BY DEF Positions
<1>3. PICK x \in Vectors, y \in Vectors, z \in Vectors :
          x = Minus(b, a) /\ y = Minus(c, a) /\ z = Minus(point.v, Times(point.w, a))
  <2>1. Times(point.w, a) \in Vectors
    BY <1>2, VectorTypes
  <2> QED
    BY <1>2, <2>1, VectorTypes
<1> DEFINE N == Dot(x, x) * Dot(y, y) - Dot(x, y) * Dot(x, y)
           over == N * point.w
           second == Dot(y, y) * Dot(z, x) - Dot(x, y) * Dot(z, y)
           third == Dot(x, x) * Dot(z, y) - Dot(x, y) * Dot(z, x)
           first == over - second - third
           reduced == Point(<<first, second, third>>, over)
<1>4. at = [b |-> reduced.v, over |-> reduced.w]
  <2>1. /\ Points[Vertices(id)[1]] = a /\ Points[Vertices(id)[2]] = b
        /\ Points[Vertices(id)[3]] = c
    BY <1>1, VerticesAre
  <2> HIDE DEF id
  <2> QED
    BY <1>3, <2>1 DEF TriangleBarycentric, id
<1>5. N \in Nat \ {0}
  <2>1. N = Dot(Cross(x, y), Cross(x, y))
    BY Lagrange
  <2>2. Cross(x, y) = NormalOf(cell, k)
    BY <1>1, <1>3 DEF NormalOf, SideA, SideB
  <2> QED
    BY <2>1, <2>2, SidesAre DEF Square
<1>6. second \in Int /\ third \in Int
  <2>1. /\ Dot(x, x) \in Int /\ Dot(y, y) \in Int /\ Dot(x, y) \in Int
        /\ Dot(z, x) \in Int /\ Dot(z, y) \in Int
    BY VectorTypes
  <2> QED
    BY <2>1
<1>7. Coordinate(cell, k, point) = 0 => Times(N, z) = Plus(Times(second, x), Times(third, y))
  <2>1. SUFFICES ASSUME Coordinate(cell, k, point) = 0
                 PROVE  Dot(Cross(x, y), z) = 0
    BY Expand
  <2>2. Cross(x, y) = NormalOf(cell, k)
    BY <1>1, <1>3 DEF NormalOf, SideA, SideB
  <2>3. PICK g \in Vectors : g = Gradient(cell, k)
    BY PlaneTypes
  <2>4. PICK d \in Vectors : d = Opposite(cell, k)
    BY ApexIs
  <2>5. Offset(cell, k) = -Dot(g, a)
    BY <1>1, <2>3, <2>4, PlaneIs
  <2>6. Dot(g, point.v) + Offset(cell, k) * point.w = 0
    BY <2>1, <2>3, CoordinateTypes
  <2>7. PICK o \in Int : o = Dot(g, a)
    BY VectorTypes
  <2>8. Dot(g, z) = Dot(g, point.v) - point.w * o
    <3>1. Dot(g, a) = g[1] * a[1] + g[2] * a[2] + g[3] * a[3]
      BY DEF Dot
    <3>2. /\ g[1] \in Int /\ g[2] \in Int /\ g[3] \in Int
          /\ a[1] \in Int /\ a[2] \in Int /\ a[3] \in Int
          /\ point.v[1] \in Int /\ point.v[2] \in Int /\ point.v[3] \in Int
      BY <1>2, VectorIs
    <3>3. /\ z[1] = point.v[1] - point.w * a[1] /\ z[2] = point.v[2] - point.w * a[2]
          /\ z[3] = point.v[3] - point.w * a[3]
      BY <1>2, <1>3, <3>2 DEF Minus, Plus, Times
    <3> QED
      BY <1>2, <2>7, <3>1, <3>2, <3>3 DEF Dot
  <2>9. Dot(g, z) = 0
    <3>1. Dot(g, point.v) \in Int
      BY <1>2, VectorTypes
    <3> QED
      BY <1>2, <2>5, <2>6, <2>7, <2>8, <3>1
  <2>10. g = Cross(x, y) \/ g = Times(-1, Cross(x, y))
    BY <2>2, <2>3, SidesAre
  <2>11. PICK n \in Vectors : n = Cross(x, y)
    BY VectorTypes
  <2>12. Dot(n, z) = Dot(g, z) \/ Dot(n, z) = -Dot(g, z)
    <3>1. PICK n1 \in Int, n2 \in Int, n3 \in Int : n = <<n1, n2, n3>>
      BY VectorIs
    <3>2. PICK z1 \in Int, z2 \in Int, z3 \in Int : z = <<z1, z2, z3>>
      BY VectorIs
    <3> QED
      BY <2>10, <2>11, <3>1, <3>2 DEF Dot, Times
  <2> QED
    BY <2>9, <2>11, <2>12
<1> HIDE DEF second, third, N
<1>8. over \in Nat \ {0} /\ first \in Int
  BY <1>2, <1>5, <1>6
<1>9. <<first, second, third>> \in Vectors
  BY <1>6, <1>8 DEF Vectors
<1>10. first + second + third = over
  BY <1>6, <1>8
<1>11. Coordinate(cell, k, point) = 0 =>
         Times(N, point.v) = Plus(Plus(Times(first, a), Times(second, b)), Times(third, c))
  <2>1. SUFFICES ASSUME Times(N, z) = Plus(Times(second, x), Times(third, y))
                 PROVE  Times(N, point.v) = Plus(Plus(Times(first, a), Times(second, b)), Times(third, c))
    BY <1>7
  <2>2. PICK a1 \in Int, a2 \in Int, a3 \in Int : a = <<a1, a2, a3>>
    BY VectorIs
  <2>3. PICK b1 \in Int, b2 \in Int, b3 \in Int : b = <<b1, b2, b3>>
    BY VectorIs
  <2>4. PICK c1 \in Int, c2 \in Int, c3 \in Int : c = <<c1, c2, c3>>
    BY VectorIs
  <2>5. PICK p1 \in Int, p2 \in Int, p3 \in Int : point.v = <<p1, p2, p3>>
    BY <1>2, VectorIs
  <2>6. PICK w \in Int : w = point.w
    BY <1>2
  <2>7. /\ x = <<b1 - a1, b2 - a2, b3 - a3>> /\ y = <<c1 - a1, c2 - a2, c3 - a3>>
        /\ z = <<p1 - w * a1, p2 - w * a2, p3 - w * a3>>
    BY <1>3, <2>2, <2>3, <2>4, <2>5, <2>6 DEF Minus, Plus, Times
  <2>8. /\ N * (p1 - w * a1) = second * (b1 - a1) + third * (c1 - a1)
        /\ N * (p2 - w * a2) = second * (b2 - a2) + third * (c2 - a2)
        /\ N * (p3 - w * a3) = second * (b3 - a3) + third * (c3 - a3)
    BY <2>1, <2>7 DEF Times, Plus
  <2>9. first = N * w - second - third
    BY <2>6
  <2>10. N \in Int /\ second \in Int /\ third \in Int
    BY <1>5, <1>6
  <2>11. /\ N * p1 = first * a1 + second * b1 + third * c1
         /\ N * p2 = first * a2 + second * b2 + third * c2
         /\ N * p3 = first * a3 + second * b3 + third * c3
    <3> HIDE DEF first
    <3> QED
      BY <2>8, <2>9, <2>10
  <2> HIDE DEF first
  <2> QED
    BY <2>2, <2>3, <2>4, <2>5, <2>11 DEF Times, Plus
<1> DEFINE fst == first
           ovr == over
<1>12. /\ Point(<<fst, second, third>>, ovr) \in Positions
       /\ \E g \in Nat \ {0} : /\ <<fst, second, third>> = Times(g, Point(<<fst, second, third>>, ovr).v)
                               /\ ovr = g * Point(<<fst, second, third>>, ovr).w
  BY <1>8, <1>9, PointIs
<1>13. reduced \in Positions
  BY <1>12
<1>14. PICK g \in Nat \ {0} : <<first, second, third>> = Times(g, reduced.v) /\ over = g * reduced.w
  BY <1>12
<1> HIDE DEF reduced
<1>15. at.b = reduced.v /\ at.over = reduced.w /\ reduced.v \in Vectors /\ reduced.w \in Nat \ {0}
  BY <1>4, <1>13 DEF Positions
<1>16. at \in [b : Vectors, over : Nat \ {0}]
  BY <1>4, <1>15
<1>17. PICK f \in Int, s \in Int, t \in Int : at.b = <<f, s, t>>
  BY <1>15, VectorIs
<1>18. first = g * f /\ second = g * s /\ third = g * t /\ over = g * at.over
  BY <1>14, <1>15, <1>17 DEF Times
<1> HIDE DEF first, over
<1>19. g * (f + s + t) = g * at.over
  BY <1>10, <1>18, <1>15
<1>20. f + s + t = at.over
  <2>1. g \in Nat /\ g > 0 /\ at.over \in Int
    BY <1>15
  <2>2. g * (f + s + t - at.over) = 0
    BY <1>19, <2>1
  <2> DEFINE m == f + s + t - at.over
  <2>3. m \in Int /\ g * m = 0
    BY <2>1, <2>2
  <2> HIDE DEF m
  <2>4. m = 0
    BY <2>1, <2>3
  <2> QED
    BY <2>1, <2>4 DEF m
<1>21. Sum3(at.b) = at.over
  BY <1>17, <1>20 DEF Sum3
<1>22. Coordinate(cell, k, point) = 0 => SamePlace(point.v, point.w, CornerSum(cell, k, at.b), at.over)
  <2>1. SUFFICES ASSUME Coordinate(cell, k, point) = 0
                 PROVE  SamePlace(point.v, point.w, CornerSum(cell, k, at.b), at.over)
    OBVIOUS
  <2>2. Times(N, point.v) = Times(g, CornerSum(cell, k, at.b))
    <3>1. PICK a1 \in Int, a2 \in Int, a3 \in Int : a = <<a1, a2, a3>>
      BY VectorIs
    <3>2. PICK b1 \in Int, b2 \in Int, b3 \in Int : b = <<b1, b2, b3>>
      BY VectorIs
    <3>3. PICK c1 \in Int, c2 \in Int, c3 \in Int : c = <<c1, c2, c3>>
      BY VectorIs
    <3>4. CornerSum(cell, k, at.b) = <<f * a1 + s * b1 + t * c1, f * a2 + s * b2 + t * c2,
                                       f * a3 + s * b3 + t * c3>>
      BY <1>1, <1>17, <3>1, <3>2, <3>3 DEF CornerSum, Times, Plus
    <3>5. Times(N, point.v) = <<g * f * a1 + g * s * b1 + g * t * c1,
                                g * f * a2 + g * s * b2 + g * t * c2,
                                g * f * a3 + g * s * b3 + g * t * c3>>
      BY <1>11, <1>18, <2>1, <3>1, <3>2, <3>3 DEF Times, Plus
    <3>6. /\ g * f * a1 + g * s * b1 + g * t * c1 = g * (f * a1 + s * b1 + t * c1)
          /\ g * f * a2 + g * s * b2 + g * t * c2 = g * (f * a2 + s * b2 + t * c2)
          /\ g * f * a3 + g * s * b3 + g * t * c3 = g * (f * a3 + s * b3 + t * c3)
      OBVIOUS
    <3> QED
      BY <3>4, <3>5, <3>6 DEF Times
  <2>3. N * point.w = g * at.over
    BY <1>18 DEF over
  <2> QED
    BY <1>5, <2>2, <2>3 DEF SamePlace
<1> QED
  BY <1>16, <1>21, <1>22

LEMMA PositionIs ==
    ASSUME NEW cell \in Cells, NEW k \in Faces, NEW at, at.b \in Vectors, Sum3(at.b) > 0,
           NEW p, p = PositionFromTriangle(FaceId(cell, k), at)
    PROVE  /\ p \in Positions
           /\ SamePlace(CornerSum(cell, k, at.b), Sum3(at.b), p.v, p.w)
<1>1. p = Weighted(CellFaces[cell][k], at.b)
  BY VerticesAre DEF PositionFromTriangle
<1>2. PICK b \in Vectors : b = at.b
  OBVIOUS
<1>3. /\ p \in Positions
      /\ \E g \in Nat \ {0} : CornerSum(cell, k, b) = Times(g, p.v) /\ Sum3(b) = g * p.w
  BY <1>1, <1>2, WeightedIs
<1>4. PICK g \in Nat \ {0} : CornerSum(cell, k, b) = Times(g, p.v) /\ Sum3(b) = g * p.w
  BY <1>3
<1>5. CornerSum(cell, k, b) \in Vectors
  BY CornerSumIsVector
<1>6. Times(1, CornerSum(cell, k, b)) = CornerSum(cell, k, b)
  BY <1>5, VectorIs DEF Times
<1>7. 1 * Sum3(b) = Sum3(b)
  BY VectorIs DEF Sum3
<1>8. SamePlace(CornerSum(cell, k, b), Sum3(b), p.v, p.w)
  BY <1>4, <1>6, <1>7 DEF SamePlace
<1> QED
  BY <1>2, <1>3, <1>8

-----------------------------------------------------------------------------
(* Directions after a reflection and after a relay.                        *)

LEMMA NormalIsNotZero ==
    ASSUME NEW cell \in Cells, NEW k \in Faces
    PROVE  /\ OutwardFaceNormal(cell, k) \in Vectors
           /\ OutwardFaceNormal(cell, k) # <<0, 0, 0>>
           /\ Gradient(cell, k) # <<0, 0, 0>>
<1>1. PICK n1 \in Int, n2 \in Int, n3 \in Int : NormalOf(cell, k) = <<n1, n2, n3>>
  BY SidesAre, VectorIs
<1>2. n1 # 0 \/ n2 # 0 \/ n3 # 0
  BY <1>1, SidesAre
<1>3. Gradient(cell, k) = <<n1, n2, n3>> \/ Gradient(cell, k) = <<-n1, -n2, -n3>>
  BY <1>1, SidesAre DEF Times
<1>4. OutwardFaceNormal(cell, k) = <<-n1, -n2, -n3>> \/ OutwardFaceNormal(cell, k) = <<n1, n2, n3>>
  BY <1>3, CoordinateTypes DEF Times
<1> QED
  BY <1>2, <1>3, <1>4, CoordinateTypes

LEMMA ReflectedIsVector ==
    ASSUME NEW direction \in Vectors, NEW normal \in Vectors, normal # <<0, 0, 0>>
    PROVE  ReflectedDirection(direction, normal) \in Vectors
<1> DEFINE square == Dot(normal, normal)
           twice == 2 * Dot(direction, normal)
<1>1. square \in Nat \ {0} /\ twice \in Int
  BY SquareIsPositive, VectorTypes
<1>2. ReflectedDirection(direction, normal)
        = IF twice % square = 0
          THEN Minus(direction, Times(twice \div square, normal))
          ELSE Minus(Times(square, direction), Times(twice, normal))
  BY DEF ReflectedDirection
<1> HIDE DEF square, twice
<1>3. twice \div square \in Int
  BY <1>1
<1>4. Times(twice \div square, normal) \in Vectors
  BY <1>3, VectorTypes
<1>5. Times(square, direction) \in Vectors /\ Times(twice, normal) \in Vectors
  BY <1>1, VectorTypes
<1>6. Minus(direction, Times(twice \div square, normal)) \in Vectors
  BY <1>4, VectorTypes
<1>7. Minus(Times(square, direction), Times(twice, normal)) \in Vectors
  BY <1>5, VectorTypes
<1> QED
  BY <1>2, <1>6, <1>7

LEMMA FrameIs ==
    ASSUME NEW domains \in PumpSurfaces, NEW frame, frame = RelayFrame[domains]
    PROVE  /\ frame.origin \in Positions
           /\ frame.u \in Vectors /\ frame.v \in Vectors /\ frame.normal \in Vectors
<1>1. frame \in [origin : Positions, u : Axes, v : Axes, normal : Axes]
  BY FrameAssumption
<1>2. Axes \subseteq Vectors
  BY DEF Axes, Vectors
<1> QED
  BY <1>1, <1>2

IsRelay(relay) ==
    /\ relay.exit \in PumpSurfaces /\ relay.entry \in PumpSurfaces
    /\ relay.flipU \in Int /\ relay.flipV \in Int
    /\ relay.cosine \in Int /\ relay.sine \in Int
    /\ relay.magnification[1] \in Int /\ relay.magnification[2] \in Nat \ {0}
    /\ relay.offset[1] \in Int /\ relay.offset[2] \in Int /\ relay.offset[3] \in Nat \ {0}

LEMMA RelaysAre ==
    ASSUME NEW kind \in Policies, NEW list \in RelaysOf[kind]
    PROVE  /\ Len(list) \in Nat /\ DOMAIN list = 1 .. Len(list)
           /\ kind = "relay" => \A i \in 1 .. Len(list) : IsRelay(list[i])
<1>1. list \in Seq({list[i] : i \in DOMAIN list})
  BY RelaysAssumption
<1>2. Len(list) \in Nat /\ DOMAIN list = 1 .. Len(list)
  BY <1>1
<1>3. ASSUME kind = "relay", NEW i \in 1 .. Len(list)
      PROVE  IsRelay(list[i])
  <2>1. /\ {list[i].exit, list[i].entry} \subseteq PumpSurfaces
        /\ {list[i].flipU, list[i].flipV, list[i].cosine, list[i].sine} \subseteq Int
        /\ list[i].magnification \in Int \X (Nat \ {0})
        /\ list[i].offset \in Int \X Int \X (Nat \ {0})
    BY <1>2, <1>3, RelaysAssumption
  <2> QED
    BY <2>1 DEF IsRelay
<1> QED
  BY <1>2, <1>3

LEMMA RotatedIs ==
    ASSUME NEW relay, IsRelay(relay), NEW m \in Int, NEW n \in Int
    PROVE  Rotated(relay, m, n)[1] \in Int /\ Rotated(relay, m, n)[2] \in Int
  BY DEF Rotated, IsRelay

LEMMA MappedDirectionIs ==
    ASSUME NEW relay, IsRelay(relay), NEW direction \in Vectors,
           NEW exit, exit = RelayFrame[relay.exit], NEW entry, entry = RelayFrame[relay.entry]
    PROVE  \E m, n \in Int, l \in Nat :
              /\ Times(m, entry.u) \in Vectors /\ Times(n, entry.v) \in Vectors
              /\ MappedDirection(relay, exit, entry, direction)
                    = Minus(Plus(Times(m, entry.u), Times(n, entry.v)), Times(l, entry.normal))
              /\ MappedDirection(relay, exit, entry, direction) \in Vectors
<1>1. /\ exit.u \in Vectors /\ exit.v \in Vectors /\ exit.normal \in Vectors
      /\ entry.u \in Vectors /\ entry.v \in Vectors /\ entry.normal \in Vectors
  BY FrameIs DEF IsRelay
<1> DEFINE turned == Rotated(relay, Dot(direction, exit.u), Dot(direction, exit.v))
           l == Magnitude(Dot(direction, exit.normal))
<1>2. /\ Dot(direction, exit.u) \in Int /\ Dot(direction, exit.v) \in Int
      /\ Dot(direction, exit.normal) \in Int
  BY <1>1, VectorTypes
<1>3. turned[1] \in Int /\ turned[2] \in Int
  BY <1>2, RotatedIs
<1>4. l \in Nat
  BY <1>2 DEF Magnitude
<1>5. MappedDirection(relay, exit, entry, direction)
        = Minus(Plus(Times(turned[1], entry.u), Times(turned[2], entry.v)), Times(l, entry.normal))
  BY DEF MappedDirection
<1> HIDE DEF turned, l
<1>6. /\ Times(turned[1], entry.u) \in Vectors /\ Times(turned[2], entry.v) \in Vectors
      /\ Times(l, entry.normal) \in Vectors
  <2>1. l \in Int
    BY <1>4
  <2> QED
    BY <1>1, <1>3, <2>1, TimesIsVector
<1>7. Plus(Times(turned[1], entry.u), Times(turned[2], entry.v)) \in Vectors
  BY <1>6, VectorTypes
<1>8. MappedDirection(relay, exit, entry, direction) \in Vectors
  BY <1>5, <1>6, <1>7, VectorTypes
<1> QED
  BY <1>3, <1>4, <1>5, <1>6, <1>8

LEMMA MappedPositionIs ==
    ASSUME NEW relay, IsRelay(relay), NEW point \in Positions,
           NEW exit, exit = RelayFrame[relay.exit], NEW entry, entry = RelayFrame[relay.entry]
    PROVE  MappedPosition(relay, exit, entry, point) \in Positions
<1>1. /\ exit.u \in Vectors /\ exit.v \in Vectors /\ entry.u \in Vectors /\ entry.v \in Vectors
      /\ exit.origin \in Positions /\ entry.origin \in Positions
  BY FrameIs DEF IsRelay
<1>2. /\ exit.origin.v \in Vectors /\ exit.origin.w \in Nat \ {0}
      /\ entry.origin.v \in Vectors /\ entry.origin.w \in Nat \ {0}
      /\ point.v \in Vectors /\ point.w \in Nat \ {0}
  BY <1>1 DEF Positions
<1> DEFINE relative == Minus(Times(exit.origin.w, point.v), Times(point.w, exit.origin.v))
           m == relay.magnification
           o == relay.offset
           over == exit.origin.w * point.w * m[2]
           turned == Rotated(relay, m[1] * Dot(relative, exit.u), m[1] * Dot(relative, exit.v))
           mappedU == turned[1] * o[3] + o[1] * over
           mappedV == turned[2] * o[3] + o[2] * over
           v == Plus(Times(over * o[3], entry.origin.v),
                     Times(entry.origin.w, Plus(Times(mappedU, entry.u), Times(mappedV, entry.v))))
           w == over * o[3] * entry.origin.w
<1>3. MappedPosition(relay, exit, entry, point) = Point(v, w)
  BY DEF MappedPosition
<1>4. relative \in Vectors
  <2>1. exit.origin.w \in Int /\ point.w \in Int
    BY <1>2
  <2>2. Times(exit.origin.w, point.v) \in Vectors /\ Times(point.w, exit.origin.v) \in Vectors
    BY <1>2, <2>1, TimesIsVector
  <2> QED
    BY <2>2, VectorTypes
<1>5. /\ m[1] \in Int /\ m[2] \in Nat \ {0}
      /\ o[1] \in Int /\ o[2] \in Int /\ o[3] \in Nat \ {0}
  BY DEF IsRelay
<1> HIDE DEF relative, m, o
<1>6. Dot(relative, exit.u) \in Int /\ Dot(relative, exit.v) \in Int
  BY <1>1, <1>4, VectorTypes
<1>7. turned[1] \in Int /\ turned[2] \in Int
  <2>1. PICK a \in Int, b \in Int : a = Dot(relative, exit.u) /\ b = Dot(relative, exit.v)
    BY <1>6
  <2>2. PICK c \in Int : c = m[1]
    BY <1>5
  <2>3. c * a \in Int /\ c * b \in Int
    OBVIOUS
  <2>4. turned = Rotated(relay, c * a, c * b)
    BY <2>1, <2>2
  <2> HIDE DEF turned
  <2> QED
    BY <2>3, <2>4, RotatedIs
<1> HIDE DEF turned
<1>8. over \in Nat \ {0}
  <2>1. exit.origin.w * point.w \in Nat \ {0}
    BY <1>2
  <2> QED
    BY <1>5, <2>1
<1> HIDE DEF over
<1>9. mappedU \in Int /\ mappedV \in Int
  BY <1>5, <1>7, <1>8
<1> HIDE DEF mappedU, mappedV
<1>10. over * o[3] \in Nat \ {0}
  BY <1>5, <1>8
<1>11. w \in Nat \ {0}
  BY <1>2, <1>10
<1>12. v \in Vectors
  <2>1. Times(mappedU, entry.u) \in Vectors /\ Times(mappedV, entry.v) \in Vectors
    BY <1>1, <1>9, TimesIsVector
  <2>2. Plus(Times(mappedU, entry.u), Times(mappedV, entry.v)) \in Vectors
    BY <2>1, VectorTypes
  <2>3. Times(entry.origin.w, Plus(Times(mappedU, entry.u), Times(mappedV, entry.v))) \in Vectors
    <3>1. entry.origin.w \in Int
      BY <1>2
    <3> QED
      BY <2>2, <3>1, TimesIsVector
  <2>4. Times(over * o[3], entry.origin.v) \in Vectors
    <3>1. over * o[3] \in Int
      BY <1>10
    <3> QED
      BY <1>2, <3>1, TimesIsVector
  <2> QED
    BY <2>3, <2>4, VectorTypes
<1> HIDE DEF v, w
<1>13. Point(v, w) \in Positions
  BY <1>11, <1>12, PointIs
<1> QED
  BY <1>3, <1>13

\* What the cache may hold: nothing yet, that the ray is lost, or a point of a face.
IsFound(e) ==
    \E id \in BoundaryFaces : \E at \in [b : Vectors, over : Nat \ {0}] :
        e = Found(id, at) /\ Sum3(at.b) > 0
IsEntry(e) == e = Unknown \/ e = Vignetted \/ IsFound(e)

LEMMA EntryIs ==
    ASSUME NEW relay, IsRelay(relay), NEW point \in Positions
    PROVE  LET entry == EntryFor(relay, RelayFrame[relay.exit], RelayFrame[relay.entry], point)
           IN  \/ entry = Vignetted
               \/ /\ IsFound(entry) /\ InTriangle(entry.at)
                  /\ entry.target \in PumpBoundaryFaces(relay.entry)
<1> DEFINE faces == PumpBoundaryFaces(relay.entry)
           mapped == MappedPosition(relay, RelayFrame[relay.exit], RelayFrame[relay.entry], point)
           hit == {id \in faces : InTriangle(TriangleBarycentric(id, mapped))}
           entry == EntryFor(relay, RelayFrame[relay.exit], RelayFrame[relay.entry], point)
<1>1. mapped \in Positions
  BY MappedPositionIs
<1>2. entry = EntryAt(faces, mapped)
  BY DEF EntryFor
<1> HIDE DEF mapped, entry
<1>3. entry = IF hit = {} THEN Vignetted ELSE Found(Min(hit), TriangleBarycentric(Min(hit), mapped))
  BY <1>2 DEF EntryAt
<1>4. hit \subseteq faces /\ faces \subseteq BoundaryFaces
  BY PumpFacesAreBoundary
<1>5. BoundaryFaces \subseteq Nat
  BY BoundaryFaceIs
<1>6. CASE hit # {}
  <2>1. Min(hit) \in hit
    BY <1>4, <1>5, <1>6, MinIs
  <2>2. PICK id : id = Min(hit)
    OBVIOUS
  <2>3. id \in faces /\ InTriangle(TriangleBarycentric(id, mapped))
    BY <2>1, <2>2
  <2>4. id \in BoundaryFaces /\ CellOf(id) \in Cells /\ FaceOf(id) \in Faces
        /\ id = FaceId(CellOf(id), FaceOf(id))
    BY <1>4, <2>3, BoundaryFaceIs
  <2>5. PICK at : at = TriangleBarycentric(id, mapped)
    OBVIOUS
  <2>6. at \in [b : Vectors, over : Nat \ {0}] /\ Sum3(at.b) = at.over
    BY <1>1, <2>4, <2>5, BarycentricIs
  <2>7. entry = Found(id, at)
    BY <1>3, <1>6, <2>2, <2>5
  <2>8. Sum3(at.b) > 0
    BY <2>6
  <2>9. entry.at = at /\ entry.target = id
    BY <2>7 DEF Found
  <2> HIDE DEF faces, hit
  <2>10. IsFound(entry)
    BY <2>4, <2>6, <2>7, <2>8 DEF IsFound
  <2> QED
    BY <2>3, <2>5, <2>9, <2>10 DEF entry, faces
<1>7. CASE hit = {}
  BY <1>3, <1>7 DEF entry
<1> QED
  BY <1>6, <1>7

-----------------------------------------------------------------------------
(* Types.                                                                  *)

Places == {"walking", "atBoundary", "counting", "weighing", "storing", "ended", "failed"}
Depositing == {"counting", "weighing", "storing"}
Sigmas == Rays \cup {0}
Slots == [x : Int, y : Int, z : Int, weight : Nat, sigma : Sigmas]
Deposits == [brings : Slots, seen : Nat, slot : SlotIndices \cup {None}, stored : 0 .. 5]
FaceReservoirs == [count : Nat, faceWeight : Nat, slots : [SlotIndices -> Slots]]

LaunchTypes ==
    /\ policy \in Policies /\ relays \in RelaysOf[policy]
    /\ start \in [Rays -> StartsOf[policy]]

RayTypes ==
    /\ pc \in [Rays -> Places]
    /\ ray \in [Rays -> States]
    /\ relayIndex \in [Rays -> 0 .. Len(relays)]
    /\ sigmaIndex \in [Rays -> Sigmas]
    /\ face \in [Rays -> Faces \cup {None}]
    /\ steps \in [Rays -> 0 .. MaxTraversalSteps]
    /\ segment = [r \in Rays |-> segment[r]]
    /\ torn \in [Rays -> BOOLEAN]

\* What a ray's place in the walk says: it may take another step, or it stands on a
\* boundary face.
Placed ==
    \A r \in Rays :
        /\ pc[r] = "walking" => steps[r] < MaxTraversalSteps
        /\ pc[r] \in Depositing \cup {"atBoundary"} =>
              face[r] \in Faces /\ <<ray[r].cell, face[r]>> \in Boundary

StoreTypes ==
    /\ policy = "store" => reservoir \in [BoundaryFaces -> FaceReservoirs]
    /\ deposit \in [Rays -> Deposits]
    /\ \A r \in Rays :
          /\ pc[r] \in Depositing => policy = "store"
          /\ pc[r] = "storing" => deposit[r].stored < 5 /\ deposit[r].slot \in SlotIndices
          /\ deposit[r].stored # 0 => policy = "store" /\ pc[r] \in {"storing", "ended"}

\* A mirror always finds the ray.
CacheTypes ==
    /\ cache = [i \in 1 .. Len(relays) |-> cache[i]]
    /\ \A i \in 1 .. Len(relays) :
          /\ IsEntry(cache[i])
          /\ policy = "reflect" => cache[i] # Vignetted

TypeInv ==
    /\ LaunchTypes /\ pass \in 0 .. (MaxPasses - 1)
    /\ RayTypes /\ Placed /\ StoreTypes /\ CacheTypes

LEMMA BoundsAre ==
    /\ SlotsPerFace \in Nat \ {0} /\ MaxTraversalSteps \in Nat \ {0}
    /\ MaxPasses \in Nat \ {0} /\ ReflectedWeights \subseteq Nat
  BY BoundsAssumption

LEMMA RaysAre ==
    ASSUME RayTypes, NEW r \in Rays
    PROVE  /\ ray[r] = [position |-> ray[r].position, direction |-> ray[r].direction,
                        cell |-> ray[r].cell, forbiddenFace |-> ray[r].forbiddenFace]
           /\ ray[r].position \in Positions /\ ray[r].direction \in Vectors
           /\ ray[r].cell \in Cells /\ ray[r].forbiddenFace \in Faces \cup {None}
<1>1. ray[r] \in States
  BY DEF RayTypes
<1> QED
  BY <1>1 DEF States

\* What Follow does to the ray.
LEMMA FollowIs ==
    ASSUME RayTypes, NEW r \in Rays, NEW t, NEW position, Follow(r, t, position)
    PROVE  LET entered == t.status = "enteredCell"
               lost == t.status = "failed" \/ (entered /\ steps[r] + 1 = MaxTraversalSteps)
           IN  /\ steps' = [steps EXCEPT ![r] = steps[r] + 1]
               /\ ray' = [ray EXCEPT ![r] =
                            [position |-> position, direction |-> ray[r].direction, cell |-> t.cell,
                             forbiddenFace |-> IF entered THEN t.forbiddenFace
                                               ELSE ray[r].forbiddenFace]]
               /\ face' = [face EXCEPT ![r] = IF entered THEN face[r] ELSE t.boundaryFace]
               /\ pc' = [pc EXCEPT ![r] = IF lost THEN "failed"
                                          ELSE IF entered THEN "walking" ELSE "atBoundary"]
  BY DEF Follow, Goto, RayTypes

LEMMA FollowTypes ==
    ASSUME RayTypes, Placed, NEW r \in Rays, NEW t, IsTransition(t), NEW position \in Positions,
           Follow(r, t, position), pc[r] = "walking",
           UNCHANGED <<relays, relayIndex, sigmaIndex, torn>>, segment' = [q \in Rays |-> segment'[q]]
    PROVE  /\ RayTypes' /\ Placed'
           /\ \A q \in Rays : \/ pc'[q] = pc[q]
                 \/ /\ pc[q] = "walking"
                    /\ pc'[q] \in {"failed", "walking", "atBoundary"}
<1> DEFINE entered == t.status = "enteredCell"
           lost == t.status = "failed" \/ (entered /\ steps[r] + 1 = MaxTraversalSteps)
           forbidden == IF entered THEN t.forbiddenFace ELSE ray[r].forbiddenFace
           now == [position |-> position, direction |-> ray[r].direction,
                   cell |-> t.cell, forbiddenFace |-> forbidden]
           place == IF lost THEN "failed" ELSE IF entered THEN "walking" ELSE "atBoundary"
           side == IF entered THEN face[r] ELSE t.boundaryFace
<1>1. /\ steps' = [steps EXCEPT ![r] = steps[r] + 1]
      /\ ray' = [ray EXCEPT ![r] = now]
      /\ face' = [face EXCEPT ![r] = side]
      /\ pc' = [pc EXCEPT ![r] = place]
  BY FollowIs
<1>2. /\ t.status \in {"reachedBoundary", "enteredCell", "failed"} /\ t.cell \in Cells
      /\ t.forbiddenFace \in Faces \cup {None} /\ t.boundaryFace \in Faces \cup {None}
  BY DEF IsTransition, Transitions
<1>3. now \in States
  <2>1. forbidden \in Faces \cup {None}
    BY <1>2, RaysAre
  <2> HIDE DEF forbidden
  <2> QED
    BY <1>2, <2>1, RaysAre DEF States
<1>4. place \in Places /\ place \in {"failed", "walking", "atBoundary"}
  BY DEF Places
<1>5. side \in Faces \cup {None}
  BY <1>2 DEF RayTypes
<1>6. steps[r] + 1 \in 0 .. MaxTraversalSteps
  <2>1. steps[r] \in 0 .. MaxTraversalSteps /\ MaxTraversalSteps \in Nat
    BY BoundsAre DEF RayTypes
  <2>2. steps[r] < MaxTraversalSteps
    BY DEF Placed
  <2> QED
    BY <2>1, <2>2
<1>7. place = "walking" => steps[r] + 1 < MaxTraversalSteps
  BY <1>6, BoundsAre
<1>8. place = "atBoundary" => side \in Faces /\ <<now.cell, side>> \in Boundary
  BY <1>2 DEF IsTransition
<1> HIDE DEF place, side, now, entered, lost
<1>9. RayTypes'
  BY <1>1, <1>3, <1>4, <1>5, <1>6 DEF RayTypes
<1>10. Placed'
  <2>1. SUFFICES ASSUME NEW q \in Rays
                 PROVE  /\ pc'[q] = "walking" => steps'[q] < MaxTraversalSteps
                        /\ pc'[q] \in Depositing \cup {"atBoundary"} =>
                              face'[q] \in Faces /\ <<ray'[q].cell, face'[q]>> \in Boundary
    BY DEF Placed
  <2>2. CASE q # r
    <3>1. pc'[q] = pc[q] /\ steps'[q] = steps[q] /\ face'[q] = face[q] /\ ray'[q] = ray[q]
      BY <1>1, <2>2 DEF RayTypes
    <3> QED
      BY <3>1 DEF Placed
  <2>3. CASE q = r
    <3>1. pc'[q] = place /\ steps'[q] = steps[r] + 1 /\ face'[q] = side /\ ray'[q] = now
      BY <1>1, <2>3 DEF RayTypes
    <3>2. place \in Depositing \cup {"atBoundary"} => place = "atBoundary"
      BY <1>4 DEF Depositing
    <3> QED
      BY <3>1, <3>2, <1>7, <1>8
  <2> QED
    BY <2>2, <2>3
<1>11. \A q \in Rays : \/ pc'[q] = pc[q]
                 \/ /\ pc[q] = "walking"
                    /\ pc'[q] \in {"failed", "walking", "atBoundary"}
  BY <1>1, <1>4 DEF RayTypes
<1> QED
  BY <1>9, <1>10, <1>11

\* A step that moves a ray to another place and leaves it where it is.
LEMMA PlaceTypes ==
    ASSUME RayTypes, Placed, NEW r \in Rays, NEW place \in Places, pc' = [pc EXCEPT ![r] = place],
           place # "walking",
           place \in Depositing \cup {"atBoundary"} => pc[r] \in Depositing \cup {"atBoundary"},
           UNCHANGED <<relays, ray, relayIndex, sigmaIndex, face, steps, segment, torn>>
    PROVE  /\ RayTypes' /\ Placed'
           /\ \A q \in Rays : pc'[q] = IF q = r THEN place ELSE pc[q]
<1>1. \A q \in Rays : pc'[q] = IF q = r THEN place ELSE pc[q]
  BY DEF RayTypes
<1>2. RayTypes'
  BY DEF RayTypes
<1>3. Placed'
  BY <1>1 DEF Placed
<1> QED
  BY <1>1, <1>2, <1>3

\* Steps that leave the reservoirs alone keep what is known of them.
LEMMA StoreKept ==
    ASSUME StoreTypes, UNCHANGED <<policy, reservoir, deposit>>,
           \A q \in Rays :
              \/ pc'[q] = pc[q]
              \/ /\ pc[q] \in {"walking", "atBoundary"}
                 /\ pc'[q] \in {"failed", "walking", "atBoundary", "ended"}
    PROVE  StoreTypes'
<1>1. \A q \in Rays : pc'[q] \in Depositing => pc'[q] = pc[q]
  BY DEF Depositing
<1>2. \A q \in Rays : pc'[q] = "storing" => pc'[q] = pc[q]
  OBVIOUS
<1> QED
  BY <1>1, <1>2 DEF StoreTypes

LEMMA CacheKept ==
    ASSUME CacheTypes, UNCHANGED <<policy, relays, cache>>
    PROVE  CacheTypes'
  BY DEF CacheTypes

LEMMA LaunchKept ==
    ASSUME LaunchTypes, UNCHANGED launchVars
    PROVE  LaunchTypes'
  BY DEF LaunchTypes, launchVars

\* The walk.
LEMMA CrossCellTypes ==
    ASSUME TypeInv, NEW r \in Rays, CrossCell(r)
    PROVE  TypeInv'
<1>1. /\ RayTypes /\ Placed /\ StoreTypes /\ CacheTypes /\ LaunchTypes /\ pass \in 0 .. (MaxPasses - 1)
  BY DEF TypeInv
<1>2. /\ pc[r] = "walking"
      /\ UNCHANGED <<policy, relays, start, pass, torn, reservoir, deposit, cache, relayIndex, sigmaIndex>>
  BY DEF CrossCell, launchVars, sharedVars
<1> DEFINE cell == ray[r].cell
           point == ray[r].position
           direction == ray[r].direction
           To(hit) == Advance(point, direction, hit)
<1>3. cell \in Cells /\ point \in Positions /\ direction \in Vectors
  BY <1>1, RaysAre
<1>4. PICK hit \in Ahead(r) \ {NoIntersection} :
         /\ segment' = [segment EXCEPT ![r] = [cell |-> cell, from |-> point, to |-> To(hit)]]
         /\ Follow(r, TransitionAcrossIntersection(cell, hit, To(hit), direction), To(hit))
  BY DEF CrossCell
<1>5. hit \in NextFaceIntersections(cell, point, direction, ray[r].forbiddenFace) \ {NoIntersection}
  BY <1>4 DEF Ahead
<1> HIDE DEF cell, point, direction
<1>6. hit.localFace \in Faces /\ hit.num \in Int /\ hit.den \in Nat \ {0}
  BY <1>3, <1>5, IntersectionIs, TiedIs
<1>7. To(hit) \in Positions
  BY <1>3, <1>6, AdvanceIs
<1> HIDE DEF To
<1>8. IsTransition(TransitionAcrossIntersection(cell, hit, To(hit), direction))
  BY <1>3, <1>6, TransitionTypes
<1>9. segment' = [q \in Rays |-> segment'[q]]
  BY <1>1, <1>4 DEF RayTypes
<1>10. /\ RayTypes' /\ Placed'
       /\ \A q \in Rays : \/ pc'[q] = pc[q]
                 \/ /\ pc[q] = "walking"
                    /\ pc'[q] \in {"failed", "walking", "atBoundary"}
  BY <1>1, <1>2, <1>4, <1>7, <1>8, <1>9, FollowTypes
<1>11. StoreTypes' /\ CacheTypes'
  BY <1>1, <1>2, <1>10, StoreKept, CacheKept
<1>12. LaunchTypes' /\ pass' \in 0 .. (MaxPasses - 1)
  BY <1>1, <1>2 DEF LaunchTypes
<1> QED
  BY <1>10, <1>11, <1>12 DEF TypeInv

LEMMA RecoverFaceTypes ==
    ASSUME TypeInv, NEW r \in Rays, RecoverFace(r)
    PROVE  TypeInv'
<1>1. /\ RayTypes /\ Placed /\ StoreTypes /\ CacheTypes /\ LaunchTypes /\ pass \in 0 .. (MaxPasses - 1)
  BY DEF TypeInv
<1>2. /\ pc[r] = "walking"
      /\ UNCHANGED <<policy, relays, start, pass, torn, reservoir, deposit, cache,
                     relayIndex, sigmaIndex, segment>>
  BY DEF RecoverFace, launchVars, sharedVars
<1> DEFINE at == ray[r]
           exits == {k \in Decreasing(at.cell, at.direction, at.forbiddenFace) :
                        Coordinate(at.cell, k, at.position) = 0}
           exit == IF IsNearFace(at.cell, at.position)
                   THEN ImmediateExitFace(at.cell, at.position, at.direction, at.forbiddenFace)
                   ELSE None
<1>3. at.cell \in Cells /\ at.position \in Positions /\ at.direction \in Vectors
  BY <1>1, RaysAre
<1>4. exit \in Faces \cup {None}
  <2>1. exits \subseteq Faces /\ exits \subseteq Nat
    BY DEF Decreasing, Faces
  <2>2. ImmediateExitFace(at.cell, at.position, at.direction, at.forbiddenFace)
          = IF exits = {} THEN None ELSE Min(exits)
    BY DEF ImmediateExitFace
  <2> HIDE DEF exits
  <2>3. exits # {} => Min(exits) \in Faces
    BY <2>1, MinIs
  <2> QED
    BY <2>2, <2>3
<1>5. \/ exit = None /\ Goto(r, "failed") /\ UNCHANGED <<ray, face, steps>>
      \/ /\ exit # None
         /\ Follow(r, RecoverFaceTransition(at.cell, exit, at.position, at.direction), at.position)
  BY DEF RecoverFace
<1> HIDE DEF at, exit
<1>6. CASE exit = None /\ Goto(r, "failed") /\ UNCHANGED <<ray, face, steps>>
  <2>1. /\ RayTypes' /\ Placed'
        /\ \A q \in Rays : pc'[q] = IF q = r THEN "failed" ELSE pc[q]
    BY <1>1, <1>2, <1>6, PlaceTypes DEF Goto, Places, Depositing
  <2>2. StoreTypes' /\ CacheTypes'
    BY <1>1, <1>2, <2>1, StoreKept, CacheKept
  <2>3. LaunchTypes' /\ pass' \in 0 .. (MaxPasses - 1)
    BY <1>1, <1>2 DEF LaunchTypes
  <2> QED
    BY <2>1, <2>2, <2>3 DEF TypeInv
<1>7. CASE /\ exit # None
           /\ Follow(r, RecoverFaceTransition(at.cell, exit, at.position, at.direction), at.position)
  <2>1. IsTransition(RecoverFaceTransition(at.cell, exit, at.position, at.direction))
    BY <1>3, <1>4, <1>7, RecoveryTypes
  <2>2. segment' = [q \in Rays |-> segment'[q]]
    BY <1>1, <1>2 DEF RayTypes
  <2>3. /\ RayTypes' /\ Placed'
        /\ \A q \in Rays : \/ pc'[q] = pc[q]
                 \/ /\ pc[q] = "walking"
                    /\ pc'[q] \in {"failed", "walking", "atBoundary"}
    BY <1>1, <1>2, <1>3, <1>7, <2>1, <2>2, FollowTypes
  <2>4. StoreTypes' /\ CacheTypes'
    BY <1>1, <1>2, <2>3, StoreKept, CacheKept
  <2>5. LaunchTypes' /\ pass' \in 0 .. (MaxPasses - 1)
    BY <1>1, <1>2 DEF LaunchTypes
  <2> QED
    BY <2>3, <2>4, <2>5 DEF TypeInv
<1> QED
  BY <1>5, <1>6, <1>7

\* The steps that end a ray and do nothing else.
LEMMA EndTypes ==
    ASSUME TypeInv, NEW r \in Rays, Absorbed(r) \/ Escape(r) \/ PumpEnds(r)
    PROVE  TypeInv'
<1>1. /\ RayTypes /\ Placed /\ StoreTypes /\ CacheTypes /\ LaunchTypes /\ pass \in 0 .. (MaxPasses - 1)
  BY DEF TypeInv
<1>2. /\ pc[r] \in {"walking", "atBoundary"} /\ pc' = [pc EXCEPT ![r] = "ended"]
      /\ UNCHANGED <<policy, relays, start, pass, torn, reservoir, deposit, cache,
                     ray, relayIndex, sigmaIndex, face, steps, segment>>
  BY DEF Absorbed, Escape, PumpEnds, Goto, launchVars, sharedVars
<1>3. /\ RayTypes' /\ Placed'
      /\ \A q \in Rays : pc'[q] = IF q = r THEN "ended" ELSE pc[q]
  BY <1>1, <1>2, PlaceTypes DEF Places, Depositing
<1>4. StoreTypes' /\ CacheTypes'
  BY <1>1, <1>2, <1>3, StoreKept, CacheKept
<1>5. LaunchTypes' /\ pass' \in 0 .. (MaxPasses - 1)
  BY <1>1, <1>2 DEF LaunchTypes
<1> QED
  BY <1>3, <1>4, <1>5 DEF TypeInv

\* The deposit.
LEMMA FaceOfRayIs ==
    ASSUME RayTypes, Placed, NEW r \in Rays, pc[r] \in Depositing \cup {"atBoundary"}
    PROVE  /\ ray[r].cell \in Cells /\ face[r] \in Faces
           /\ <<ray[r].cell, face[r]>> \in Boundary
           /\ FaceOfRay(r) = FaceId(ray[r].cell, face[r])
           /\ FaceOfRay(r) \in BoundaryFaces
           /\ CellOf(FaceOfRay(r)) = ray[r].cell /\ FaceOf(FaceOfRay(r)) = face[r]
<1>1. ray[r].cell \in Cells /\ face[r] \in Faces /\ <<ray[r].cell, face[r]>> \in Boundary
  BY RaysAre DEF Placed
<1> QED
  BY <1>1, FaceIdIs, BoundaryFaceIs DEF FaceOfRay

\* A step of the deposit: the place of the ray, its deposit and the reservoirs.
LEMMA DepositTypes ==
    ASSUME TypeInv, NEW r \in Rays, pc[r] \in Depositing \cup {"atBoundary"}, policy = "store",
           pc' \in [Rays -> Places], pc'[r] \in Depositing \cup {"ended"},
           deposit' \in [Rays -> Deposits],
           \A q \in Rays : q # r => pc'[q] = pc[q] /\ deposit'[q] = deposit[q],
           pc'[r] = "storing" => deposit'[r].stored < 5 /\ deposit'[r].slot \in SlotIndices,
           deposit'[r].stored # 0 => pc'[r] \in {"storing", "ended"},
           reservoir' \in [BoundaryFaces -> FaceReservoirs],
           UNCHANGED <<policy, relays, start, pass, torn, cache,
                       ray, relayIndex, sigmaIndex, face, steps, segment>>
    PROVE  TypeInv'
<1>1. /\ RayTypes /\ Placed /\ StoreTypes /\ CacheTypes /\ LaunchTypes /\ pass \in 0 .. (MaxPasses - 1)
  BY DEF TypeInv
<1>2. RayTypes'
  BY <1>1 DEF RayTypes
<1>3. Placed'
  <2>1. SUFFICES ASSUME NEW q \in Rays
                 PROVE  /\ pc'[q] = "walking" => steps'[q] < MaxTraversalSteps
                        /\ pc'[q] \in Depositing \cup {"atBoundary"} =>
                              face'[q] \in Faces /\ <<ray'[q].cell, face'[q]>> \in Boundary
    BY DEF Placed
  <2>2. CASE q # r
    BY <1>1, <2>2 DEF Placed
  <2>3. CASE q = r
    <3>1. pc'[q] # "walking"
      BY <2>3 DEF Depositing
    <3> QED
      BY <1>1, <2>3, <3>1 DEF Placed
  <2> QED
    BY <2>2, <2>3
<1>4. StoreTypes'
  BY <1>1 DEF StoreTypes
<1>5. CacheTypes'
  BY <1>1, CacheKept
<1>6. LaunchTypes' /\ pass' \in 0 .. (MaxPasses - 1)
  BY <1>1 DEF LaunchTypes
<1> QED
  BY <1>2, <1>3, <1>4, <1>5, <1>6 DEF TypeInv

LEMMA DepositIs ==
    ASSUME StoreTypes, NEW r \in Rays
    PROVE  /\ deposit[r] \in Deposits
           /\ deposit[r].brings \in Slots /\ deposit[r].seen \in Nat
           /\ deposit[r].slot \in SlotIndices \cup {None} /\ deposit[r].stored \in 0 .. 5
<1>1. deposit[r] \in Deposits
  BY DEF StoreTypes
<1> QED
  BY <1>1 DEF Deposits

LEMMA DepositUpdates ==
    ASSUME NEW d \in Deposits, NEW x
    PROVE  /\ [d EXCEPT !.brings = x]
                = [brings |-> x, seen |-> d.seen, slot |-> d.slot, stored |-> d.stored]
           /\ [d EXCEPT !.seen = x]
                = [brings |-> d.brings, seen |-> x, slot |-> d.slot, stored |-> d.stored]
           /\ [d EXCEPT !.slot = x]
                = [brings |-> d.brings, seen |-> d.seen, slot |-> x, stored |-> d.stored]
           /\ [d EXCEPT !.stored = x]
                = [brings |-> d.brings, seen |-> d.seen, slot |-> d.slot, stored |-> x]
<1>1. d = [brings |-> d.brings, seen |-> d.seen, slot |-> d.slot, stored |-> d.stored]
  BY DEF Deposits
<1>2. [d EXCEPT !.brings = x]
        = [brings |-> x, seen |-> d.seen, slot |-> d.slot, stored |-> d.stored]
  BY <1>1
<1>3. [d EXCEPT !.seen = x]
        = [brings |-> d.brings, seen |-> x, slot |-> d.slot, stored |-> d.stored]
  BY <1>1
<1>4. [d EXCEPT !.slot = x]
        = [brings |-> d.brings, seen |-> d.seen, slot |-> x, stored |-> d.stored]
  BY <1>1
<1>5. [d EXCEPT !.stored = x]
        = [brings |-> d.brings, seen |-> d.seen, slot |-> d.slot, stored |-> x]
  BY <1>1
<1> QED
  BY <1>2, <1>3, <1>4, <1>5

LEMMA ReservoirUpdates ==
    ASSUME NEW f \in FaceReservoirs, NEW x
    PROVE  /\ [f EXCEPT !.count = x]
                = [count |-> x, faceWeight |-> f.faceWeight, slots |-> f.slots]
           /\ [f EXCEPT !.faceWeight = x]
                = [count |-> f.count, faceWeight |-> x, slots |-> f.slots]
           /\ [f EXCEPT !.slots = x]
                = [count |-> f.count, faceWeight |-> f.faceWeight, slots |-> x]
<1>1. f = [count |-> f.count, faceWeight |-> f.faceWeight, slots |-> f.slots]
  BY DEF FaceReservoirs
<1>2. [f EXCEPT !.count = x] = [count |-> x, faceWeight |-> f.faceWeight, slots |-> f.slots]
  BY <1>1
<1>3. [f EXCEPT !.faceWeight = x] = [count |-> f.count, faceWeight |-> x, slots |-> f.slots]
  BY <1>1
<1>4. [f EXCEPT !.slots = x] = [count |-> f.count, faceWeight |-> f.faceWeight, slots |-> x]
  BY <1>1
<1> QED
  BY <1>2, <1>3, <1>4

\* What a reflection leaves behind.
ReflectionOf(r) ==
    ReflectedDirection(ray[r].direction, OutwardFaceNormal(ray[r].cell, face[r]))
Brought(d, weight, sigma) ==
    [x |-> d[1], y |-> d[2], z |-> d[3], weight |-> weight, sigma |-> sigma]

LEMMA BringsIs ==
    ASSUME TypeInv, NEW r \in Rays, pc[r] = "atBoundary", NEW weight \in ReflectedWeights
    PROVE  /\ ReflectionOf(r) \in Vectors
           /\ Brought(ReflectionOf(r), weight, sigmaIndex[r]) \in Slots
<1>1. RayTypes /\ Placed
  BY DEF TypeInv
<1>2. /\ OutwardFaceNormal(ray[r].cell, face[r]) \in Vectors
      /\ OutwardFaceNormal(ray[r].cell, face[r]) # <<0, 0, 0>>
  BY <1>1, FaceOfRayIs, NormalIsNotZero
<1>3. ReflectionOf(r) \in Vectors
  BY <1>1, <1>2, RaysAre, ReflectedIsVector DEF ReflectionOf
<1>4. weight \in Nat /\ sigmaIndex[r] \in Sigmas
  BY <1>1, BoundsAre DEF RayTypes
<1>5. Brought(ReflectionOf(r), weight, sigmaIndex[r]) \in Slots
  BY <1>3, <1>4, VectorIs DEF Brought, Slots
<1> QED
  BY <1>3, <1>5

\* Reflect in two halves.
LEMMA ReflectIs ==
    ASSUME TypeInv, NEW r \in Rays, Reflect(r)
    PROVE  \E weight \in ReflectedWeights :
              \/ /\ weight = 0 /\ pc' = [pc EXCEPT ![r] = "ended"] /\ deposit' = deposit
              \/ /\ weight # 0 /\ pc' = [pc EXCEPT ![r] = "counting"]
                 /\ deposit' = [deposit EXCEPT ![r] =
                        [brings |-> Brought(ReflectionOf(r), weight, sigmaIndex[r]),
                         seen |-> deposit[r].seen, slot |-> deposit[r].slot,
                         stored |-> deposit[r].stored]]
<1>1. StoreTypes
  BY DEF TypeInv
<1>2. PICK weight \in ReflectedWeights :
        IF weight = 0
        THEN Goto(r, "ended") /\ UNCHANGED deposit
        ELSE /\ Goto(r, "counting")
             /\ deposit' = [deposit EXCEPT ![r].brings =
                               Brought(ReflectionOf(r), weight, sigmaIndex[r])]
  BY DEF Reflect, Brought, ReflectionOf
<1>3. \A b : [deposit EXCEPT ![r].brings = b]
              = [deposit EXCEPT ![r] = [deposit[r] EXCEPT !.brings = b]]
  BY Zenon
<1>4. deposit[r] \in Deposits
  BY <1>1 DEF StoreTypes
<1>5. \A b : [deposit[r] EXCEPT !.brings = b]
              = [brings |-> b, seen |-> deposit[r].seen,
                 slot |-> deposit[r].slot, stored |-> deposit[r].stored]
  BY <1>4, DepositUpdates
<1> QED
  BY <1>2, <1>3, <1>5, Zenon DEF Goto

LEMMA ReflectTypes ==
    ASSUME TypeInv, NEW r \in Rays, Reflect(r)
    PROVE  TypeInv'
<1>1. /\ RayTypes /\ Placed /\ StoreTypes
  BY DEF TypeInv
<1>2. /\ pc[r] = "atBoundary" /\ deposit[r].stored = 0 /\ policy = "store"
      /\ UNCHANGED <<policy, relays, start, pass, torn, reservoir, cache,
                     ray, relayIndex, sigmaIndex, face, steps, segment>>
  BY <1>1 DEF Reflect, launchVars, StoreTypes
<1>3. reservoir' \in [BoundaryFaces -> FaceReservoirs]
  BY <1>1, <1>2 DEF StoreTypes
<1>4. PICK weight \in ReflectedWeights :
              \/ /\ weight = 0 /\ pc' = [pc EXCEPT ![r] = "ended"] /\ deposit' = deposit
              \/ /\ weight # 0 /\ pc' = [pc EXCEPT ![r] = "counting"]
                 /\ deposit' = [deposit EXCEPT ![r] =
                        [brings |-> Brought(ReflectionOf(r), weight, sigmaIndex[r]),
                         seen |-> deposit[r].seen, slot |-> deposit[r].slot,
                         stored |-> deposit[r].stored]]
  BY ReflectIs
<1>5. CASE pc' = [pc EXCEPT ![r] = "ended"] /\ deposit' = deposit
  <2>1. /\ pc' \in [Rays -> Places] /\ pc'[r] = "ended"
        /\ deposit' \in [Rays -> Deposits] /\ deposit'[r].stored = 0
        /\ \A q \in Rays : q # r => pc'[q] = pc[q] /\ deposit'[q] = deposit[q]
    BY <1>1, <1>2, <1>5 DEF StoreTypes, RayTypes, Places
  <2> QED
    BY <1>2, <1>3, <2>1, DepositTypes
<1>6. CASE /\ pc' = [pc EXCEPT ![r] = "counting"]
           /\ deposit' = [deposit EXCEPT ![r] =
                        [brings |-> Brought(ReflectionOf(r), weight, sigmaIndex[r]),
                         seen |-> deposit[r].seen, slot |-> deposit[r].slot,
                         stored |-> deposit[r].stored]]
  <2>1. Brought(ReflectionOf(r), weight, sigmaIndex[r]) \in Slots
    BY <1>2, BringsIs
  <2>2. [brings |-> Brought(ReflectionOf(r), weight, sigmaIndex[r]),
         seen |-> deposit[r].seen, slot |-> deposit[r].slot,
         stored |-> deposit[r].stored] \in Deposits
    BY <1>1, <2>1, DepositIs DEF Deposits
  <2> DEFINE d == [brings |-> Brought(ReflectionOf(r), weight, sigmaIndex[r]),
                   seen |-> deposit[r].seen, slot |-> deposit[r].slot,
                   stored |-> deposit[r].stored]
  <2>4. d \in Deposits /\ d.stored = 0 /\ deposit' = [deposit EXCEPT ![r] = d]
    BY <1>2, <1>6, <2>2
  <2> HIDE DEF d
  <2>3. /\ pc' \in [Rays -> Places] /\ pc'[r] = "counting"
        /\ deposit' \in [Rays -> Deposits] /\ deposit'[r].stored = 0
        /\ \A q \in Rays : q # r => pc'[q] = pc[q] /\ deposit'[q] = deposit[q]
    BY <1>1, <1>6, <2>4 DEF StoreTypes, RayTypes, Places
  <2> QED
    BY <1>2, <1>3, <2>3, DepositTypes DEF Depositing
<1> QED
  BY <1>4, <1>5, <1>6

LEMMA ReservoirIs ==
    ASSUME StoreTypes, policy = "store", NEW id \in BoundaryFaces
    PROVE  /\ DOMAIN reservoir = BoundaryFaces
           /\ reservoir[id] \in FaceReservoirs
           /\ reservoir[id] = [count |-> reservoir[id].count, faceWeight |-> reservoir[id].faceWeight,
                               slots |-> reservoir[id].slots]
           /\ reservoir[id].count \in Nat /\ reservoir[id].faceWeight \in Nat
           /\ reservoir[id].slots \in [SlotIndices -> Slots]
<1>1. reservoir[id] \in FaceReservoirs /\ DOMAIN reservoir = BoundaryFaces
  BY DEF StoreTypes
<1> QED
  BY <1>1 DEF FaceReservoirs

LEMMA CountIs ==
    ASSUME TypeInv, NEW r \in Rays, Count(r), NEW id, id = FaceOfRay(r)
    PROVE  /\ policy = "store" /\ id \in BoundaryFaces
           /\ deposit' = [deposit EXCEPT ![r] =
                 [brings |-> deposit[r].brings, seen |-> reservoir[id].count,
                  slot |-> deposit[r].slot, stored |-> deposit[r].stored]]
           /\ reservoir' = [reservoir EXCEPT ![id] =
                 [count |-> reservoir[id].count + 1, faceWeight |-> reservoir[id].faceWeight,
                  slots |-> reservoir[id].slots]]
<1>1. /\ RayTypes /\ Placed /\ StoreTypes
  BY DEF TypeInv
<1>2. pc[r] = "counting"
  BY DEF Count
<1>3. policy = "store" /\ id \in BoundaryFaces
  BY <1>1, <1>2, FaceOfRayIs DEF StoreTypes, Depositing
<1>4. deposit' = [deposit EXCEPT ![r].seen = reservoir[id].count]
  BY DEF Count
<1>5. reservoir' = [reservoir EXCEPT ![id].count = reservoir[id].count + 1]
  BY DEF Count
<1>6. deposit[r] \in Deposits /\ reservoir[id] \in FaceReservoirs
  BY <1>1, <1>3, DepositIs, ReservoirIs
<1>7. deposit' = [deposit EXCEPT ![r] =
                 [brings |-> deposit[r].brings, seen |-> reservoir[id].count,
                  slot |-> deposit[r].slot, stored |-> deposit[r].stored]]
  <2>1. deposit' = [deposit EXCEPT ![r] = [deposit[r] EXCEPT !.seen = reservoir[id].count]]
    BY <1>4, Zenon
  <2>2. [deposit[r] EXCEPT !.seen = reservoir[id].count]
          = [brings |-> deposit[r].brings, seen |-> reservoir[id].count,
             slot |-> deposit[r].slot, stored |-> deposit[r].stored]
    BY <1>6, DepositUpdates
  <2> QED
    BY <2>1, <2>2, Zenon
<1>8. reservoir' = [reservoir EXCEPT ![id] =
                 [count |-> reservoir[id].count + 1, faceWeight |-> reservoir[id].faceWeight,
                  slots |-> reservoir[id].slots]]
  <2>1. reservoir' = [reservoir EXCEPT ![id] =
                         [reservoir[id] EXCEPT !.count = reservoir[id].count + 1]]
    BY <1>5, Zenon
  <2>2. [reservoir[id] EXCEPT !.count = reservoir[id].count + 1]
          = [count |-> reservoir[id].count + 1, faceWeight |-> reservoir[id].faceWeight,
             slots |-> reservoir[id].slots]
    BY <1>6, ReservoirUpdates
  <2> QED
    BY <2>1, <2>2, Zenon
<1> QED
  BY <1>3, <1>7, <1>8

LEMMA CountTypes ==
    ASSUME TypeInv, NEW r \in Rays, Count(r)
    PROVE  TypeInv'
<1>1. /\ RayTypes /\ Placed /\ StoreTypes
  BY DEF TypeInv
<1>2. /\ pc[r] = "counting" /\ deposit[r].stored = 0 /\ pc' = [pc EXCEPT ![r] = "weighing"]
      /\ UNCHANGED <<policy, relays, start, pass, torn, cache,
                     ray, relayIndex, sigmaIndex, face, steps, segment>>
  BY <1>1 DEF Count, Goto, launchVars, StoreTypes
<1>3. PICK id : id = FaceOfRay(r)
  OBVIOUS
<1> DEFINE d == [brings |-> deposit[r].brings, seen |-> reservoir[id].count,
                 slot |-> deposit[r].slot, stored |-> deposit[r].stored]
           f == [count |-> reservoir[id].count + 1, faceWeight |-> reservoir[id].faceWeight,
                 slots |-> reservoir[id].slots]
<1>4. /\ policy = "store" /\ id \in BoundaryFaces
      /\ deposit' = [deposit EXCEPT ![r] = d]
      /\ reservoir' = [reservoir EXCEPT ![id] = f]
  BY <1>3, CountIs
<1>5. d \in Deposits
  BY <1>1, <1>4, DepositIs, ReservoirIs DEF Deposits
<1>6. f \in FaceReservoirs
  <2>1. PICK n, w, t : n = reservoir[id].count /\ w = reservoir[id].faceWeight
                       /\ t = reservoir[id].slots
    OBVIOUS
  <2>2. n \in Nat /\ w \in Nat /\ t \in [SlotIndices -> Slots]
    BY <1>1, <1>4, <2>1, ReservoirIs
  <2>3. [count |-> n + 1, faceWeight |-> w, slots |-> t] \in FaceReservoirs
    BY <2>2 DEF FaceReservoirs
  <2> QED
    BY <2>1, <2>3
<1> HIDE DEF d, f
<1>7. reservoir' \in [BoundaryFaces -> FaceReservoirs]
  BY <1>1, <1>4, <1>6 DEF StoreTypes
<1>8. d.stored = 0
  BY <1>2 DEF d
<1>9. /\ pc' \in [Rays -> Places] /\ pc'[r] = "weighing"
      /\ deposit' \in [Rays -> Deposits] /\ deposit'[r].stored = 0
      /\ \A q \in Rays : q # r => pc'[q] = pc[q] /\ deposit'[q] = deposit[q]
  BY <1>1, <1>2, <1>4, <1>5, <1>8 DEF StoreTypes, RayTypes, Places
<1> QED
  BY <1>2, <1>4, <1>7, <1>9, DepositTypes DEF Depositing

\* Weigh: the weight is counted, and the ray has a slot or is turned away.
LEMMA WeighIs ==
    ASSUME TypeInv, NEW r \in Rays, Weigh(r), NEW id, id = FaceOfRay(r)
    PROVE  /\ policy = "store" /\ id \in BoundaryFaces
           /\ reservoir' = [reservoir EXCEPT ![id] =
                 [count |-> reservoir[id].count,
                  faceWeight |-> reservoir[id].faceWeight + deposit[r].brings.weight,
                  slots |-> reservoir[id].slots]]
           /\ \/ /\ pc' = [pc EXCEPT ![r] = "ended"] /\ deposit' = deposit
              \/ /\ pc' = [pc EXCEPT ![r] = "storing"]
                 /\ \E slot \in SlotIndices :
                       /\ deposit[r].seen < SlotsPerFace => slot = deposit[r].seen
                       /\ deposit' = [deposit EXCEPT ![r] =
                             [brings |-> deposit[r].brings, seen |-> deposit[r].seen,
                              slot |-> slot, stored |-> deposit[r].stored]]
<1>1. /\ RayTypes /\ Placed /\ StoreTypes
  BY DEF TypeInv
<1>2. pc[r] = "weighing"
  BY DEF Weigh
<1>3. policy = "store" /\ id \in BoundaryFaces
  BY <1>1, <1>2, FaceOfRayIs DEF StoreTypes, Depositing
<1>4. deposit[r] \in Deposits /\ reservoir[id] \in FaceReservoirs /\ deposit[r].seen \in Nat
  BY <1>1, <1>3, DepositIs, ReservoirIs
<1>5. reservoir' = [reservoir EXCEPT ![id].faceWeight =
                       reservoir[id].faceWeight + deposit[r].brings.weight]
  BY DEF Weigh
<1>6. reservoir' = [reservoir EXCEPT ![id] =
                 [count |-> reservoir[id].count,
                  faceWeight |-> reservoir[id].faceWeight + deposit[r].brings.weight,
                  slots |-> reservoir[id].slots]]
  <2>1. reservoir' = [reservoir EXCEPT ![id] = [reservoir[id] EXCEPT !.faceWeight =
                         reservoir[id].faceWeight + deposit[r].brings.weight]]
    BY <1>5, Zenon
  <2>2. [reservoir[id] EXCEPT !.faceWeight = reservoir[id].faceWeight + deposit[r].brings.weight]
          = [count |-> reservoir[id].count,
             faceWeight |-> reservoir[id].faceWeight + deposit[r].brings.weight,
             slots |-> reservoir[id].slots]
    BY <1>4, ReservoirUpdates
  <2> QED
    BY <2>1, <2>2, Zenon
<1>7. \A slot : [deposit EXCEPT ![r].slot = slot]
                  = [deposit EXCEPT ![r] =
                        [brings |-> deposit[r].brings, seen |-> deposit[r].seen,
                         slot |-> slot, stored |-> deposit[r].stored]]
  <2>1. \A slot : [deposit EXCEPT ![r].slot = slot]
                    = [deposit EXCEPT ![r] = [deposit[r] EXCEPT !.slot = slot]]
    BY Zenon
  <2>2. \A slot : [deposit[r] EXCEPT !.slot = slot]
                    = [brings |-> deposit[r].brings, seen |-> deposit[r].seen,
                       slot |-> slot, stored |-> deposit[r].stored]
    BY <1>4, DepositUpdates
  <2> QED
    BY <2>1, <2>2, Zenon
<1>8. \/ pc' = [pc EXCEPT ![r] = "ended"] /\ deposit' = deposit
      \/ /\ pc' = [pc EXCEPT ![r] = "storing"]
         /\ \E slot : /\ \/ slot = deposit[r].seen /\ deposit[r].seen < SlotsPerFace
                         \/ slot \in SlotIndices /\ ~(deposit[r].seen < SlotsPerFace)
                      /\ deposit' = [deposit EXCEPT ![r].slot = slot]
  BY DEF Weigh, Goto, FirstIn
<1>9. CASE pc' = [pc EXCEPT ![r] = "ended"] /\ deposit' = deposit
  BY <1>3, <1>6, <1>9
<1>10. CASE /\ pc' = [pc EXCEPT ![r] = "storing"]
            /\ \E slot : /\ \/ slot = deposit[r].seen /\ deposit[r].seen < SlotsPerFace
                            \/ slot \in SlotIndices /\ ~(deposit[r].seen < SlotsPerFace)
                         /\ deposit' = [deposit EXCEPT ![r].slot = slot]
  <2>1. PICK slot : /\ \/ slot = deposit[r].seen /\ deposit[r].seen < SlotsPerFace
                       \/ slot \in SlotIndices /\ ~(deposit[r].seen < SlotsPerFace)
                    /\ deposit' = [deposit EXCEPT ![r].slot = slot]
    BY <1>10
  <2>2. /\ slot \in SlotIndices
        /\ deposit[r].seen < SlotsPerFace => slot = deposit[r].seen
    BY <1>4, <2>1, BoundsAre DEF SlotIndices
  <2>3. deposit' = [deposit EXCEPT ![r] =
                             [brings |-> deposit[r].brings, seen |-> deposit[r].seen,
                              slot |-> slot, stored |-> deposit[r].stored]]
    BY <2>1, <1>7, Zenon
  <2> QED
    BY <1>3, <1>6, <1>10, <2>2, <2>3
<1> QED
  BY <1>8, <1>9, <1>10

LEMMA WeighTypes ==
    ASSUME TypeInv, NEW r \in Rays, Weigh(r)
    PROVE  TypeInv'
<1>1. /\ RayTypes /\ Placed /\ StoreTypes
  BY DEF TypeInv
<1>2. /\ pc[r] = "weighing" /\ deposit[r].stored = 0
      /\ UNCHANGED <<policy, relays, start, pass, torn, cache,
                     ray, relayIndex, sigmaIndex, face, steps, segment>>
  BY <1>1 DEF Weigh, launchVars, StoreTypes
<1>3. PICK id : id = FaceOfRay(r)
  OBVIOUS
<1> DEFINE f == [count |-> reservoir[id].count,
                 faceWeight |-> reservoir[id].faceWeight + deposit[r].brings.weight,
                 slots |-> reservoir[id].slots]
<1>4. /\ policy = "store" /\ id \in BoundaryFaces
      /\ reservoir' = [reservoir EXCEPT ![id] = f]
  BY <1>3, WeighIs
<1>5. f \in FaceReservoirs
  <2>1. PICK n, w, t, b : n = reservoir[id].count /\ w = reservoir[id].faceWeight
                          /\ t = reservoir[id].slots /\ b = deposit[r].brings.weight
    OBVIOUS
  <2>2. n \in Nat /\ w \in Nat /\ t \in [SlotIndices -> Slots]
    BY <1>1, <1>4, <2>1, ReservoirIs
  <2>3. b \in Nat
    BY <1>1, <2>1, DepositIs DEF Slots
  <2>4. [count |-> n, faceWeight |-> w + b, slots |-> t] \in FaceReservoirs
    BY <2>2, <2>3 DEF FaceReservoirs
  <2> QED
    BY <2>1, <2>4
<1> HIDE DEF f
<1>6. reservoir' \in [BoundaryFaces -> FaceReservoirs]
  BY <1>1, <1>4, <1>5 DEF StoreTypes
<1>7. CASE pc' = [pc EXCEPT ![r] = "ended"] /\ deposit' = deposit
  <2>1. /\ pc' \in [Rays -> Places] /\ pc'[r] = "ended"
        /\ deposit' \in [Rays -> Deposits] /\ deposit'[r].stored = 0
        /\ \A q \in Rays : q # r => pc'[q] = pc[q] /\ deposit'[q] = deposit[q]
    BY <1>1, <1>2, <1>7 DEF StoreTypes, RayTypes, Places
  <2> QED
    BY <1>2, <1>4, <1>6, <2>1, DepositTypes DEF Depositing
<1>8. ASSUME pc' = [pc EXCEPT ![r] = "storing"], NEW slot \in SlotIndices,
             deposit' = [deposit EXCEPT ![r] =
                             [brings |-> deposit[r].brings, seen |-> deposit[r].seen,
                              slot |-> slot, stored |-> deposit[r].stored]]
      PROVE  TypeInv'
  <2> DEFINE d == [brings |-> deposit[r].brings, seen |-> deposit[r].seen,
                   slot |-> slot, stored |-> deposit[r].stored]
  <2>1. d \in Deposits /\ d.stored = 0 /\ d.slot \in SlotIndices
        /\ deposit' = [deposit EXCEPT ![r] = d]
    BY <1>1, <1>2, <1>8, DepositIs DEF Deposits
  <2> HIDE DEF d
  <2>2. /\ pc' \in [Rays -> Places] /\ pc'[r] = "storing"
        /\ deposit' \in [Rays -> Deposits] /\ deposit'[r].stored = 0
        /\ deposit'[r].slot \in SlotIndices
        /\ \A q \in Rays : q # r => pc'[q] = pc[q] /\ deposit'[q] = deposit[q]
    BY <1>1, <1>8, <2>1 DEF StoreTypes, RayTypes, Places
  <2> QED
    BY <1>2, <1>4, <1>6, <2>2, DepositTypes DEF Depositing
<1> QED
  BY <1>3, <1>7, <1>8, WeighIs

\* A slot after the store of field k of what a ray brings.
Stored(slot, brings, k) ==
    [x |-> IF k = 1 THEN brings.x ELSE slot.x,
     y |-> IF k = 2 THEN brings.y ELSE slot.y,
     z |-> IF k = 3 THEN brings.z ELSE slot.z,
     weight |-> IF k = 4 THEN brings.weight ELSE slot.weight,
     sigma |-> IF k = 5 THEN brings.sigma ELSE slot.sigma]

LEMMA StoredIs ==
    ASSUME NEW slot \in Slots, NEW brings \in Slots, NEW k \in 1 .. 5
    PROVE  /\ [slot EXCEPT ![Fields[k]] = brings[Fields[k]]] = Stored(slot, brings, k)
           /\ Stored(slot, brings, k) \in Slots
<1>1. slot = [x |-> slot.x, y |-> slot.y, z |-> slot.z, weight |-> slot.weight, sigma |-> slot.sigma]
  BY DEF Slots
<1>2. k = 1 \/ k = 2 \/ k = 3 \/ k = 4 \/ k = 5
  OBVIOUS
<1>3. Stored(slot, brings, k) \in Slots
  BY DEF Stored, Slots
<1>4. CASE k = 1
  <2>1. Fields[k] = "x"
    BY <1>4 DEF Fields
  <2>2. Stored(slot, brings, k)
          = [x |-> brings.x, y |-> slot.y, z |-> slot.z, weight |-> slot.weight, sigma |-> slot.sigma]
    BY <1>4 DEF Stored
  <2>3. [slot EXCEPT !.x = brings.x]
          = [x |-> brings.x, y |-> slot.y, z |-> slot.z, weight |-> slot.weight, sigma |-> slot.sigma]
    BY <1>1
  <2> QED
    BY <1>3, <2>1, <2>2, <2>3, Zenon
<1>5. CASE k = 2
  <2>1. Fields[k] = "y"
    BY <1>5 DEF Fields
  <2>2. Stored(slot, brings, k)
          = [x |-> slot.x, y |-> brings.y, z |-> slot.z, weight |-> slot.weight, sigma |-> slot.sigma]
    BY <1>5 DEF Stored
  <2>3. [slot EXCEPT !.y = brings.y]
          = [x |-> slot.x, y |-> brings.y, z |-> slot.z, weight |-> slot.weight, sigma |-> slot.sigma]
    BY <1>1
  <2> QED
    BY <1>3, <2>1, <2>2, <2>3, Zenon
<1>6. CASE k = 3
  <2>1. Fields[k] = "z"
    BY <1>6 DEF Fields
  <2>2. Stored(slot, brings, k)
          = [x |-> slot.x, y |-> slot.y, z |-> brings.z, weight |-> slot.weight, sigma |-> slot.sigma]
    BY <1>6 DEF Stored
  <2>3. [slot EXCEPT !.z = brings.z]
          = [x |-> slot.x, y |-> slot.y, z |-> brings.z, weight |-> slot.weight, sigma |-> slot.sigma]
    BY <1>1
  <2> QED
    BY <1>3, <2>1, <2>2, <2>3, Zenon
<1>7. CASE k = 4
  <2>1. Fields[k] = "weight"
    BY <1>7 DEF Fields
  <2>2. Stored(slot, brings, k)
          = [x |-> slot.x, y |-> slot.y, z |-> slot.z, weight |-> brings.weight, sigma |-> slot.sigma]
    BY <1>7 DEF Stored
  <2>3. [slot EXCEPT !.weight = brings.weight]
          = [x |-> slot.x, y |-> slot.y, z |-> slot.z, weight |-> brings.weight, sigma |-> slot.sigma]
    BY <1>1
  <2> QED
    BY <1>3, <2>1, <2>2, <2>3, Zenon
<1>8. CASE k = 5
  <2>1. Fields[k] = "sigma"
    BY <1>8 DEF Fields
  <2>2. Stored(slot, brings, k)
          = [x |-> slot.x, y |-> slot.y, z |-> slot.z, weight |-> slot.weight, sigma |-> brings.sigma]
    BY <1>8 DEF Stored
  <2>3. [slot EXCEPT !.sigma = brings.sigma]
          = [x |-> slot.x, y |-> slot.y, z |-> slot.z, weight |-> slot.weight, sigma |-> brings.sigma]
    BY <1>1
  <2> QED
    BY <1>3, <2>1, <2>2, <2>3, Zenon
<1> QED
  BY <1>2, <1>4, <1>5, <1>6, <1>7, <1>8

LEMMA StoreFieldIs ==
    ASSUME TypeInv, NEW r \in Rays, StoreField(r), NEW id, id = FaceOfRay(r),
           NEW i, i = deposit[r].slot, NEW k, k = deposit[r].stored + 1
    PROVE  /\ policy = "store" /\ id \in BoundaryFaces /\ i \in SlotIndices /\ k \in 1 .. 5
           /\ pc[r] = "storing" /\ pc' = [pc EXCEPT ![r] = IF k = 5 THEN "ended" ELSE "storing"]
           /\ deposit' = [deposit EXCEPT ![r] =
                 [brings |-> deposit[r].brings, seen |-> deposit[r].seen,
                  slot |-> deposit[r].slot, stored |-> k]]
           /\ reservoir' = [reservoir EXCEPT ![id] =
                 [count |-> reservoir[id].count, faceWeight |-> reservoir[id].faceWeight,
                  slots |-> [reservoir[id].slots EXCEPT ![i] =
                                Stored(reservoir[id].slots[i], deposit[r].brings, k)]]]
<1>1. /\ RayTypes /\ Placed /\ StoreTypes
  BY DEF TypeInv
<1>2. pc[r] = "storing"
  BY DEF StoreField
<1>3. policy = "store" /\ id \in BoundaryFaces /\ i \in SlotIndices
  BY <1>1, <1>2, FaceOfRayIs DEF StoreTypes, Depositing
<1>4. /\ deposit[r] \in Deposits /\ deposit[r].brings \in Slots
      /\ reservoir[id] \in FaceReservoirs /\ reservoir[id].slots \in [SlotIndices -> Slots]
  BY <1>1, <1>3, DepositIs, ReservoirIs
<1>5. k \in 1 .. 5
  <2>1. deposit[r].stored \in 0 .. 5 /\ deposit[r].stored < 5
    BY <1>1, <1>2, DepositIs DEF StoreTypes
  <2> QED
    BY <2>1
<1>6. pc' = [pc EXCEPT ![r] = IF k = 5 THEN "ended" ELSE "storing"]
  <2>1. Len(Fields) = 5
    BY DEF Fields
  <2> QED
    BY <2>1 DEF StoreField, Goto
<1>7. deposit' = [deposit EXCEPT ![r] =
                 [brings |-> deposit[r].brings, seen |-> deposit[r].seen,
                  slot |-> deposit[r].slot, stored |-> k]]
  <2>1. deposit' = [deposit EXCEPT ![r].stored = k]
    BY DEF StoreField
  <2>2. deposit' = [deposit EXCEPT ![r] = [deposit[r] EXCEPT !.stored = k]]
    BY <2>1, Zenon
  <2>3. [deposit[r] EXCEPT !.stored = k]
          = [brings |-> deposit[r].brings, seen |-> deposit[r].seen,
             slot |-> deposit[r].slot, stored |-> k]
    BY <1>4, DepositUpdates
  <2> QED
    BY <2>2, <2>3, Zenon
<1>8. reservoir' = [reservoir EXCEPT ![id] =
                 [count |-> reservoir[id].count, faceWeight |-> reservoir[id].faceWeight,
                  slots |-> [reservoir[id].slots EXCEPT ![i] =
                                Stored(reservoir[id].slots[i], deposit[r].brings, k)]]]
  <2>1. reservoir' = [reservoir EXCEPT ![id].slots[i][Fields[k]] = deposit[r].brings[Fields[k]]]
    BY DEF StoreField
  <2>2. reservoir' = [reservoir EXCEPT ![id] = [reservoir[id] EXCEPT !.slots =
                        [reservoir[id].slots EXCEPT ![i] =
                           [reservoir[id].slots[i] EXCEPT ![Fields[k]] =
                                                    deposit[r].brings[Fields[k]]]]]]
    BY <2>1, Zenon
  <2>3. [reservoir[id].slots[i] EXCEPT ![Fields[k]] = deposit[r].brings[Fields[k]]]
          = Stored(reservoir[id].slots[i], deposit[r].brings, k)
    <3>1. reservoir[id].slots[i] \in Slots
      BY <1>3, <1>4
    <3>2. PICK slot : slot = reservoir[id].slots[i]
      OBVIOUS
    <3>3. PICK brings : brings = deposit[r].brings
      OBVIOUS
    <3>4. [slot EXCEPT ![Fields[k]] = brings[Fields[k]]] = Stored(slot, brings, k)
      <4>1. slot \in Slots /\ brings \in Slots
        BY <1>4, <3>1, <3>2, <3>3
      <4> QED
        BY <1>5, <4>1, StoredIs, Zenon
    <3> QED
      BY <3>2, <3>3, <3>4, Zenon
  <2>4. [reservoir[id] EXCEPT !.slots =
                        [reservoir[id].slots EXCEPT ![i] =
                           Stored(reservoir[id].slots[i], deposit[r].brings, k)]]
          = [count |-> reservoir[id].count, faceWeight |-> reservoir[id].faceWeight,
                  slots |-> [reservoir[id].slots EXCEPT ![i] =
                                Stored(reservoir[id].slots[i], deposit[r].brings, k)]]
    BY <1>4, ReservoirUpdates
  <2> QED
    BY <2>2, <2>3, <2>4, Zenon
<1> QED
  BY <1>2, <1>3, <1>5, <1>6, <1>7, <1>8

LEMMA StoreFieldTypes ==
    ASSUME TypeInv, NEW r \in Rays, StoreField(r)
    PROVE  TypeInv'
<1>1. /\ RayTypes /\ Placed /\ StoreTypes
  BY DEF TypeInv
<1>2. UNCHANGED <<policy, relays, start, pass, torn, cache,
                  ray, relayIndex, sigmaIndex, face, steps, segment>>
  BY DEF StoreField, launchVars
<1>3. PICK id, i, k : id = FaceOfRay(r) /\ i = deposit[r].slot /\ k = deposit[r].stored + 1
  OBVIOUS
<1> DEFINE d == [brings |-> deposit[r].brings, seen |-> deposit[r].seen,
                 slot |-> deposit[r].slot, stored |-> k]
           t == [reservoir[id].slots EXCEPT ![i] =
                    Stored(reservoir[id].slots[i], deposit[r].brings, k)]
           f == [count |-> reservoir[id].count, faceWeight |-> reservoir[id].faceWeight,
                 slots |-> t]
           place == IF k = 5 THEN "ended" ELSE "storing"
<1>4. /\ policy = "store" /\ id \in BoundaryFaces /\ i \in SlotIndices /\ k \in 1 .. 5
      /\ pc[r] = "storing" /\ pc' = [pc EXCEPT ![r] = place]
      /\ deposit' = [deposit EXCEPT ![r] = d] /\ reservoir' = [reservoir EXCEPT ![id] = f]
  BY <1>3, StoreFieldIs
<1>5. d \in Deposits /\ d.stored = k /\ d.slot \in SlotIndices
  <2>1. k \in 0 .. 5
    BY <1>4
  <2> QED
    BY <1>1, <1>3, <1>4, <2>1, DepositIs DEF Deposits
<1>6. f \in FaceReservoirs
  <2>1. reservoir[id].slots \in [SlotIndices -> Slots] /\ deposit[r].brings \in Slots
    BY <1>1, <1>4, ReservoirIs, DepositIs
  <2>2. reservoir[id].slots[i] \in Slots
    BY <1>4, <2>1
  <2>3. t \in [SlotIndices -> Slots]
    BY <1>4, <2>1, <2>2, StoredIs
  <2> HIDE DEF t
  <2>4. PICK n, w : n = reservoir[id].count /\ w = reservoir[id].faceWeight
    OBVIOUS
  <2>5. n \in Nat /\ w \in Nat
    BY <1>1, <1>4, <2>4, ReservoirIs
  <2>6. [count |-> n, faceWeight |-> w, slots |-> t] \in FaceReservoirs
    BY <2>3, <2>5 DEF FaceReservoirs
  <2> QED
    BY <2>4, <2>6
<1> HIDE DEF f, d
<1>7. reservoir' \in [BoundaryFaces -> FaceReservoirs]
  BY <1>1, <1>4, <1>6 DEF StoreTypes
<1>8. /\ place \in {"storing", "ended"} /\ place \in Places
      /\ place = "storing" => k < 5
  BY <1>4 DEF Places
<1> HIDE DEF place
<1>9. /\ pc' \in [Rays -> Places] /\ pc'[r] = place
      /\ deposit' \in [Rays -> Deposits] /\ deposit'[r].stored = k
      /\ deposit'[r].slot \in SlotIndices
      /\ \A q \in Rays : q # r => pc'[q] = pc[q] /\ deposit'[q] = deposit[q]
  BY <1>1, <1>4, <1>5, <1>8 DEF StoreTypes, RayTypes
<1>10. pc'[r] \in Depositing \cup {"ended"}
  BY <1>8, <1>9 DEF Depositing
<1> QED
  BY <1>2, <1>4, <1>7, <1>8, <1>9, <1>10, DepositTypes DEF Depositing

-----------------------------------------------------------------------------
(* Relays and reflections.                                                 *)

LEMMA RelayIndexIs ==
    ASSUME LaunchTypes, RayTypes, NEW r \in Rays, ~LeavesPump(r),
           NEW n, n = relayIndex[r] + 1
    PROVE  /\ n \in 1 .. Len(relays) /\ CacheIndex(relayIndex[r]) = n
           /\ IsExit(relays[n], FaceOfRay(r))
           /\ policy = "relay" => IsRelay(relays[n])
<1>1. /\ policy \in Policies /\ relays \in RelaysOf[policy]
  BY DEF LaunchTypes
<1>2. /\ Len(relays) \in Nat
      /\ policy = "relay" => \A i \in 1 .. Len(relays) : IsRelay(relays[i])
  BY <1>1, RelaysAre
<1>3. relayIndex[r] \in 0 .. Len(relays)
  BY DEF RayTypes
<1>4. relayIndex[r] < Len(relays) /\ IsExit(relays[n], FaceOfRay(r))
  BY DEF LeavesPump
<1>5. n \in 1 .. Len(relays)
  BY <1>2, <1>3, <1>4
<1> QED
  BY <1>2, <1>4, <1>5 DEF CacheIndex

\* A point of a face, as a position.
LEMMA PointOfFace ==
    ASSUME NEW id \in BoundaryFaces, NEW at \in [b : Vectors, over : Nat \ {0}], Sum3(at.b) > 0,
           NEW direction \in Vectors
    PROVE  FromFace(id, PositionFromTriangle(id, at), direction) \in States
<1>1. /\ CellOf(id) \in Cells /\ FaceOf(id) \in Faces
      /\ id = FaceId(CellOf(id), FaceOf(id))
  BY BoundaryFaceIs
<1>2. at.b \in Vectors
  OBVIOUS
<1>3. PositionFromTriangle(id, at) \in Positions
  BY <1>1, <1>2, PositionIs
<1> QED
  BY <1>1, <1>3 DEF FromFace, States

LEMMA ExitIs ==
    ASSUME RayTypes, Placed, NEW r \in Rays, pc[r] = "atBoundary",
           NEW id, id = FaceOfRay(r), NEW at, at = TriangleBarycentric(id, ray[r].position)
    PROVE  /\ id \in BoundaryFaces
           /\ at \in [b : Vectors, over : Nat \ {0}] /\ Sum3(at.b) = at.over /\ Sum3(at.b) > 0
           /\ ExitPosition(r) = PositionFromTriangle(id, at) /\ ExitPosition(r) \in Positions
           /\ IsFound(Found(id, at))
<1>1. /\ ray[r].cell \in Cells /\ face[r] \in Faces /\ id \in BoundaryFaces
      /\ id = FaceId(ray[r].cell, face[r])
  BY FaceOfRayIs
<1>2. ray[r].position \in Positions
  BY RaysAre
<1>3. at \in [b : Vectors, over : Nat \ {0}] /\ Sum3(at.b) = at.over
  BY <1>1, <1>2, BarycentricIs
<1>4. at.b \in Vectors /\ Sum3(at.b) > 0
  BY <1>3
<1>5. ExitPosition(r) = PositionFromTriangle(id, at)
  BY DEF ExitPosition
<1>6. PositionFromTriangle(id, at) \in Positions
  BY <1>1, <1>4, PositionIs
<1>7. IsFound(Found(id, at))
  BY <1>1, <1>3, <1>4 DEF IsFound
<1> QED
  BY <1>1, <1>3, <1>4, <1>5, <1>6, <1>7

LEMMA EntriesDiffer ==
    ASSUME NEW id, NEW at
    PROVE  /\ Found(id, at) # Unknown /\ Found(id, at) # Vignetted /\ Unknown # Vignetted
           /\ Found(id, at).target = id /\ Found(id, at).at = at
<1>1. Found(id, at).state = 1 /\ Unknown.state = 0 /\ Vignetted.state = 2
  BY DEF Found, Unknown, Vignetted
<1>2. Found(id, at).target = id /\ Found(id, at).at = at
  BY DEF Found
<1> QED
  BY <1>1, <1>2

\* The relay: the entry it takes, and where the ray comes in.
LEMMA RelayRayIs ==
    ASSUME TypeInv, NEW r \in Rays, RelayRay(r),
           NEW n, n = relayIndex[r] + 1, NEW relay, relay = relays[n],
           NEW entry, entry = (IF cache[n] = Unknown THEN Lookup(r, relay) ELSE cache[n])
    PROVE  /\ policy = "relay" /\ pc[r] = "atBoundary" /\ n \in 1 .. Len(relays) /\ IsRelay(relay)
           /\ entry = Vignetted \/ IsFound(entry)
           /\ cache' = [cache EXCEPT ![n] = entry]
           /\ \/ entry = Vignetted /\ Goto(r, "ended") /\ UNCHANGED <<ray, relayIndex>>
              \/ /\ IsFound(entry) /\ GoOn(r)
                 /\ ray' = [ray EXCEPT ![r] =
                       FromFace(entry.target, PositionFromTriangle(entry.target, entry.at),
                                MappedDirection(relay, RelayFrame[relay.exit],
                                                RelayFrame[relay.entry], ray[r].direction))]
<1>1. LaunchTypes /\ RayTypes /\ Placed /\ CacheTypes
  BY DEF TypeInv
<1>2. pc[r] = "atBoundary" /\ policy = "relay" /\ ~LeavesPump(r)
  BY DEF RelayRay
<1>3. n \in 1 .. Len(relays) /\ CacheIndex(relayIndex[r]) = n /\ IsRelay(relay)
  BY <1>1, <1>2, RelayIndexIs
<1>4. Enter(r, relay, entry)
  BY <1>3 DEF RelayRay
<1>5. entry = Vignetted \/ IsFound(entry)
  <2>1. IsEntry(cache[n])
    BY <1>1, <1>3 DEF CacheTypes
  <2>2. ExitPosition(r) \in Positions
    BY <1>1, <1>2, ExitIs
  <2>3. Lookup(r, relay) = Vignetted \/ IsFound(Lookup(r, relay))
    BY <1>3, <2>2, EntryIs DEF Lookup
  <2> QED
    BY <2>1, <2>3 DEF IsEntry
<1>6. /\ cache' = [cache EXCEPT ![n] = entry]
      /\ IF entry = Vignetted
         THEN Goto(r, "ended") /\ UNCHANGED <<ray, relayIndex>>
         ELSE /\ ray' = [ray EXCEPT ![r] =
                       FromFace(entry.target, PositionFromTriangle(entry.target, entry.at),
                                MappedDirection(relay, RelayFrame[relay.exit],
                                                RelayFrame[relay.entry], ray[r].direction))]
              /\ GoOn(r)
  BY <1>3, <1>4 DEF Enter, Continued
<1> QED
  BY <1>2, <1>3, <1>5, <1>6

\* The mirror: the entry is the point the ray is at, or the ray ends.
LEMMA ReflectRayIs ==
    ASSUME TypeInv, NEW r \in Rays, ReflectRay(r),
           NEW n, n = relayIndex[r] + 1, NEW id, id = FaceOfRay(r),
           NEW entry, entry = (IF cache[n] = Unknown
                               THEN Found(id, TriangleBarycentric(id, ray[r].position))
                               ELSE cache[n])
    PROVE  /\ policy = "reflect" /\ pc[r] = "atBoundary" /\ n \in 1 .. Len(relays)
           /\ id \in BoundaryFaces /\ IsFound(entry)
           /\ cache' = [cache EXCEPT ![n] = entry]
           /\ \/ Goto(r, "ended") /\ UNCHANGED <<ray, relayIndex>>
              \/ /\ entry.target = id /\ GoOn(r)
                 /\ ray' = [ray EXCEPT ![r] =
                       FromFace(id, PositionFromTriangle(id, entry.at), ReflectionOf(r))]
<1>1. LaunchTypes /\ RayTypes /\ Placed /\ CacheTypes
  BY DEF TypeInv
<1>2. pc[r] = "atBoundary" /\ policy = "reflect" /\ ~LeavesPump(r)
  BY DEF ReflectRay
<1>3. n \in 1 .. Len(relays) /\ CacheIndex(relayIndex[r]) = n
  BY <1>1, <1>2, RelayIndexIs
<1>4. /\ id \in BoundaryFaces
      /\ IsFound(Found(id, TriangleBarycentric(id, ray[r].position)))
  BY <1>1, <1>2, ExitIs
<1>5. IsEntry(cache[n]) /\ cache[n] # Vignetted
  BY <1>1, <1>2, <1>3 DEF CacheTypes
<1>6. IsFound(entry)
  BY <1>4, <1>5 DEF IsEntry
<1>7. /\ cache' = [cache EXCEPT ![n] = entry]
      /\ IF entry.target # id
         THEN Goto(r, "ended") /\ UNCHANGED <<ray, relayIndex>>
         ELSE /\ ray' = [ray EXCEPT ![r] =
                       FromFace(id, PositionFromTriangle(id, entry.at), ReflectionOf(r))]
              /\ GoOn(r)
  BY <1>3 DEF ReflectRay, Continued, ReflectionOf
<1> QED
  BY <1>2, <1>3, <1>4, <1>6, <1>7

\* A ray that goes on.
LEMMA GoOnIs ==
    ASSUME TypeInv, NEW r \in Rays, GoOn(r), relayIndex[r] + 1 \in 1 .. Len(relays),
           UNCHANGED <<relays, steps>>
    PROVE  /\ relayIndex' \in [Rays -> 0 .. Len(relays)]
           /\ \E place \in {"ended", "failed", "walking"} :
                 /\ pc' = [pc EXCEPT ![r] = place]
                 /\ place = "walking" => steps[r] < MaxTraversalSteps
<1>1. RayTypes
  BY DEF TypeInv
<1>2. PICK ends \in BOOLEAN :
        Goto(r, IF ends THEN "ended" ELSE IF steps[r] = MaxTraversalSteps THEN "failed" ELSE "walking")
  BY DEF GoOn
<1> DEFINE place == IF ends THEN "ended"
                    ELSE IF steps[r] = MaxTraversalSteps THEN "failed" ELSE "walking"
<1>3. pc' = [pc EXCEPT ![r] = place]
  BY <1>2 DEF Goto
<1>4. place \in {"ended", "failed", "walking"}
  OBVIOUS
<1>5. place = "walking" => steps[r] < MaxTraversalSteps
  <2>1. steps[r] \in 0 .. MaxTraversalSteps /\ MaxTraversalSteps \in Nat
    BY <1>1, BoundsAre DEF RayTypes
  <2> QED
    BY <2>1
<1> HIDE DEF place
<1>6. relayIndex' \in [Rays -> 0 .. Len(relays)]
  <2>1. relayIndex' = [relayIndex EXCEPT ![r] = relayIndex[r] + 1]
    BY DEF GoOn
  <2>2. relayIndex[r] + 1 \in 0 .. Len(relays)
    OBVIOUS
  <2> QED
    BY <1>1, <2>1, <2>2 DEF RayTypes
<1> QED
  BY <1>3, <1>4, <1>5, <1>6

LEMMA CameInTypes ==
    ASSUME TypeInv, NEW r \in Rays, pc[r] = "atBoundary",
           NEW n \in 1 .. Len(relays), n = relayIndex[r] + 1, NEW entry, IsEntry(entry),
           policy = "reflect" => entry # Vignetted, cache' = [cache EXCEPT ![n] = entry],
           UNCHANGED <<policy, relays, start, pass, torn, reservoir, deposit,
                       sigmaIndex, face, steps, segment>>,
           NEW now \in States,
           \/ Goto(r, "ended") /\ UNCHANGED <<ray, relayIndex>>
           \/ GoOn(r) /\ ray' = [ray EXCEPT ![r] = now]
    PROVE  TypeInv'
<1>1. LaunchTypes /\ RayTypes /\ Placed /\ StoreTypes /\ CacheTypes /\ pass \in 0 .. (MaxPasses - 1)
  BY DEF TypeInv
<1>2. \E place \in {"ended", "failed", "walking"} :
         /\ pc' = [pc EXCEPT ![r] = place]
         /\ place = "walking" => steps[r] < MaxTraversalSteps
  BY GoOnIs DEF Goto
<1>3. relayIndex' \in [Rays -> 0 .. Len(relays)] /\ ray' \in [Rays -> States]
  BY <1>1, GoOnIs DEF RayTypes
<1>4. PICK place \in {"ended", "failed", "walking"} :
         /\ pc' = [pc EXCEPT ![r] = place]
         /\ place = "walking" => steps[r] < MaxTraversalSteps
  BY <1>2
<1>5. \A q \in Rays : q # r => pc'[q] = pc[q] /\ ray'[q] = ray[q]
  BY <1>1, <1>4 DEF RayTypes
<1>6. pc' \in [Rays -> Places] /\ pc'[r] = place
  BY <1>1, <1>4 DEF RayTypes, Places
<1>7. RayTypes'
  BY <1>1, <1>3, <1>6 DEF RayTypes
<1>8. Placed'
  <2>1. SUFFICES ASSUME NEW q \in Rays
                 PROVE  /\ pc'[q] = "walking" => steps'[q] < MaxTraversalSteps
                        /\ pc'[q] \in Depositing \cup {"atBoundary"} =>
                              face'[q] \in Faces /\ <<ray'[q].cell, face'[q]>> \in Boundary
    BY DEF Placed
  <2>2. CASE q # r
    BY <1>1, <1>5, <2>2 DEF Placed
  <2>3. CASE q = r
    BY <1>4, <1>6, <2>3 DEF Depositing
  <2> QED
    BY <2>2, <2>3
<1>9. StoreTypes'
  <2>1. \A q \in Rays : \/ pc'[q] = pc[q]
                        \/ /\ pc[q] \in {"walking", "atBoundary"}
                           /\ pc'[q] \in {"failed", "walking", "atBoundary", "ended"}
    BY <1>4, <1>5, <1>6
  <2> QED
    BY <1>1, <2>1, StoreKept
<1>10. CacheTypes'
  <2>1. \A i \in 1 .. Len(relays) : cache'[i] = IF i = n THEN entry ELSE cache[i]
    BY <1>1 DEF CacheTypes
  <2>2. cache' = [i \in 1 .. Len(relays) |-> cache'[i]]
    BY <1>1 DEF CacheTypes
  <2> QED
    BY <1>1, <2>1, <2>2 DEF CacheTypes
<1>11. LaunchTypes' /\ pass' \in 0 .. (MaxPasses - 1)
  BY <1>1 DEF LaunchTypes
<1> QED
  BY <1>7, <1>8, <1>9, <1>10, <1>11 DEF TypeInv

LEMMA RelayRayTypes ==
    ASSUME TypeInv, NEW r \in Rays, RelayRay(r)
    PROVE  TypeInv'
<1>1. RayTypes
  BY DEF TypeInv
<1>2. PICK n, relay : n = relayIndex[r] + 1 /\ relay = relays[n]
  OBVIOUS
<1>3. PICK entry : entry = (IF cache[n] = Unknown THEN Lookup(r, relay) ELSE cache[n])
  OBVIOUS
<1> DEFINE d == MappedDirection(relay, RelayFrame[relay.exit], RelayFrame[relay.entry],
                                ray[r].direction)
           now == FromFace(entry.target, PositionFromTriangle(entry.target, entry.at), d)
<1>4. /\ policy = "relay" /\ pc[r] = "atBoundary" /\ n \in 1 .. Len(relays) /\ IsRelay(relay)
      /\ entry = Vignetted \/ IsFound(entry)
      /\ cache' = [cache EXCEPT ![n] = entry]
      /\ \/ entry = Vignetted /\ Goto(r, "ended") /\ UNCHANGED <<ray, relayIndex>>
         \/ IsFound(entry) /\ GoOn(r) /\ ray' = [ray EXCEPT ![r] = now]
  BY <1>2, <1>3, RelayRayIs
<1>5. IsEntry(entry) /\ (policy = "reflect" => entry # Vignetted)
  BY <1>4 DEF IsEntry
<1>6. UNCHANGED <<policy, relays, start, pass, torn, reservoir, deposit,
                  sigmaIndex, face, steps, segment>>
  BY DEF RelayRay, launchVars
<1>7. ray[r].direction \in Vectors /\ ray[r] \in States
  BY <1>1, RaysAre DEF RayTypes
<1>8. d \in Vectors
  BY <1>4, <1>7, MappedDirectionIs
<1> HIDE DEF d
<1>9. IsFound(entry) => now \in States
  <2>1. SUFFICES ASSUME IsFound(entry) PROVE now \in States
    OBVIOUS
  <2>2. PICK id \in BoundaryFaces, at \in [b : Vectors, over : Nat \ {0}] :
          entry = Found(id, at) /\ Sum3(at.b) > 0
    BY <2>1 DEF IsFound
  <2>3. entry.target = id /\ entry.at = at
    BY <2>2, EntriesDiffer
  <2> QED
    BY <1>8, <2>2, <2>3, PointOfFace
<1> HIDE DEF now
<1>10. CASE entry = Vignetted /\ Goto(r, "ended") /\ UNCHANGED <<ray, relayIndex>>
  BY <1>2, <1>4, <1>5, <1>6, <1>7, <1>10, CameInTypes
<1>11. CASE IsFound(entry) /\ GoOn(r) /\ ray' = [ray EXCEPT ![r] = now]
  BY <1>2, <1>4, <1>5, <1>6, <1>9, <1>11, CameInTypes
<1> QED
  BY <1>4, <1>10, <1>11

LEMMA ReflectionIsVector ==
    ASSUME RayTypes, Placed, NEW r \in Rays, pc[r] = "atBoundary"
    PROVE  ReflectionOf(r) \in Vectors
<1>1. /\ OutwardFaceNormal(ray[r].cell, face[r]) \in Vectors
      /\ OutwardFaceNormal(ray[r].cell, face[r]) # <<0, 0, 0>>
  BY FaceOfRayIs, NormalIsNotZero
<1> QED
  BY <1>1, RaysAre, ReflectedIsVector DEF ReflectionOf

LEMMA ReflectRayTypes ==
    ASSUME TypeInv, NEW r \in Rays, ReflectRay(r)
    PROVE  TypeInv'
<1>1. RayTypes /\ Placed
  BY DEF TypeInv
<1>2. PICK n, id : n = relayIndex[r] + 1 /\ id = FaceOfRay(r)
  OBVIOUS
<1>3. PICK entry : entry = (IF cache[n] = Unknown
                            THEN Found(id, TriangleBarycentric(id, ray[r].position))
                            ELSE cache[n])
  OBVIOUS
<1> DEFINE now == FromFace(id, PositionFromTriangle(id, entry.at), ReflectionOf(r))
<1>4. /\ policy = "reflect" /\ pc[r] = "atBoundary" /\ n \in 1 .. Len(relays)
      /\ id \in BoundaryFaces /\ IsFound(entry)
      /\ cache' = [cache EXCEPT ![n] = entry]
      /\ \/ Goto(r, "ended") /\ UNCHANGED <<ray, relayIndex>>
         \/ entry.target = id /\ GoOn(r) /\ ray' = [ray EXCEPT ![r] = now]
  BY <1>2, <1>3, ReflectRayIs
<1>5. PICK b \in BoundaryFaces, at \in [b : Vectors, over : Nat \ {0}] :
        entry = Found(b, at) /\ Sum3(at.b) > 0
  BY <1>4 DEF IsFound
<1>6. IsEntry(entry) /\ entry # Vignetted /\ entry.at = at
  BY <1>4, <1>5, EntriesDiffer DEF IsEntry
<1>7. UNCHANGED <<policy, relays, start, pass, torn, reservoir, deposit,
                  sigmaIndex, face, steps, segment>>
  BY DEF ReflectRay, launchVars
<1>8. ReflectionOf(r) \in Vectors
  BY <1>1, <1>4, ReflectionIsVector
<1>9. now \in States
  BY <1>4, <1>5, <1>6, <1>8, PointOfFace
<1> HIDE DEF now
<1>10. \/ Goto(r, "ended") /\ UNCHANGED <<ray, relayIndex>>
       \/ GoOn(r) /\ ray' = [ray EXCEPT ![r] = now]
  BY <1>4
<1> QED
  BY <1>2, <1>4, <1>6, <1>7, <1>9, <1>10, CameInTypes

-----------------------------------------------------------------------------
(* Launches.                                                               *)

LEMMA LaunchedTypes ==
    ASSUME TypeInv, NEW starts \in [Rays -> States], Launch(starts),
           UNCHANGED <<policy, relays, start>>,
           sigmaIndex' \in [Rays -> Sigmas], torn' \in [Rays -> BOOLEAN]
    PROVE  /\ LaunchTypes' /\ RayTypes' /\ Placed'
           /\ \A r \in Rays : pc'[r] \in {"walking", "ended"}
<1>1. /\ ray' = starts
      /\ pc' = [r \in Rays |-> IF r = Min(Rays) THEN "walking" ELSE "ended"]
      /\ relayIndex' = [r \in Rays |-> 0]
      /\ face' = [r \in Rays |-> None]
      /\ steps' = [r \in Rays |-> 0]
      /\ segment' = [r \in Rays |-> NoSegment]
  BY DEF Launch
<1>2. Len(relays) \in Nat /\ LaunchTypes'
  BY RelaysAre DEF TypeInv, LaunchTypes
<1>3. \A r \in Rays : pc'[r] \in {"walking", "ended"}
  BY <1>1
<1>4. RayTypes'
  <2>1. pc' \in [Rays -> Places] /\ ray' \in [Rays -> States]
    BY <1>1 DEF Places
  <2>2. relayIndex' \in [Rays -> 0 .. Len(relays')]
    BY <1>1, <1>2
  <2>3. face' \in [Rays -> Faces \cup {None}]
    BY <1>1
  <2>4. steps' \in [Rays -> 0 .. MaxTraversalSteps]
    BY <1>1, BoundsAre
  <2>5. segment' = [r \in Rays |-> segment'[r]]
    BY <1>1
  <2> QED
    BY <2>1, <2>2, <2>3, <2>4, <2>5 DEF RayTypes
<1>5. Placed'
  BY <1>1, <1>3, BoundsAre DEF Placed, Depositing
<1> QED
  BY <1>2, <1>3, <1>4, <1>5

LEMMA EmptyTypes ==
    /\ EmptySlot \in Slots /\ NoDeposit \in Deposits /\ NoDeposit.stored = 0
    /\ EmptyReservoir \in [BoundaryFaces -> FaceReservoirs]
<1>1. EmptySlot \in Slots
  BY DEF EmptySlot, Slots, Sigmas
<1>2. NoDeposit \in Deposits /\ NoDeposit.stored = 0
  BY <1>1 DEF NoDeposit, Deposits
<1>3. [i \in SlotIndices |-> EmptySlot] \in [SlotIndices -> Slots]
  BY <1>1
<1> DEFINE t == [i \in SlotIndices |-> EmptySlot]
<1> HIDE DEF t
<1>4. [count |-> 0, faceWeight |-> 0, slots |-> t] \in FaceReservoirs
  BY <1>3 DEF FaceReservoirs, t
<1>5. EmptyReservoir = [id \in BoundaryFaces |-> [count |-> 0, faceWeight |-> 0, slots |-> t]]
  BY DEF EmptyReservoir, t
<1> QED
  BY <1>1, <1>2, <1>4, <1>5

LEMMA NextStageTypes ==
    ASSUME TypeInv, NextStage
    PROVE  TypeInv'
<1>1. LaunchTypes /\ RayTypes /\ Placed /\ StoreTypes /\ CacheTypes /\ pass \in 0 .. (MaxPasses - 1)
  BY DEF TypeInv
<1>2. /\ policy \in {"relay", "reflect"} /\ pass + 1 < MaxPasses /\ pass' = pass + 1 /\ Launch(start)
      /\ UNCHANGED <<policy, relays, start, sigmaIndex, torn, reservoir, deposit, cache>>
  BY DEF NextStage, launchVars
<1>3. start \in [Rays -> States]
  BY <1>1, StartsAssumption DEF LaunchTypes
<1>4. sigmaIndex' \in [Rays -> Sigmas] /\ torn' \in [Rays -> BOOLEAN]
  BY <1>1, <1>2 DEF RayTypes
<1>5. /\ LaunchTypes' /\ RayTypes' /\ Placed'
      /\ \A r \in Rays : pc'[r] \in {"walking", "ended"}
  BY <1>2, <1>3, <1>4, LaunchedTypes
<1>6. StoreTypes'
  BY <1>1, <1>2, <1>5 DEF StoreTypes, Depositing
<1>7. CacheTypes' /\ pass' \in 0 .. (MaxPasses - 1)
  BY <1>1, <1>2, CacheKept, BoundsAre
<1> QED
  BY <1>5, <1>6, <1>7 DEF TypeInv

\* A ray of the next pass: from the centroid of a face, in the direction of a slot.
LEMMA NextReflectedPassIs ==
    ASSUME TypeInv, NextReflectedPass
    PROVE  /\ policy = "store"
           /\ \E id \in BoundaryFaces, i \in SlotIndices :
                 LET slot == reservoir[id].slots[i]
                     from == FromFace(id, FaceCentroid(CellOf(id), FaceOf(id)),
                                      <<slot.x, slot.y, slot.z>>)
                 IN  /\ slot \in Slots /\ from \in States
                     /\ reservoir[id].faceWeight > 0 /\ i < reservoir[id].count
                     /\ Launch([ray EXCEPT ![Min(Rays)] = from])
                     /\ sigmaIndex' = [sigmaIndex EXCEPT ![Min(Rays)] = slot.sigma]
                     /\ torn' = [torn EXCEPT ![Min(Rays)] =
                                    @ \/ slot \notin {deposit[r].brings : r \in Rays}]
<1>1. StoreTypes /\ policy = "store"
  BY DEF TypeInv, NextReflectedPass
<1>2. PICK id \in {b \in BoundaryFaces : reservoir[b].faceWeight > 0} :
        \E i \in 0 .. (Min({reservoir[id].count, SlotsPerFace}) - 1) :
          LET slot == reservoir[id].slots[i]
              from == FromFace(id, FaceCentroid(CellOf(id), FaceOf(id)),
                               <<slot.x, slot.y, slot.z>>)
          IN  /\ Launch([ray EXCEPT ![Min(Rays)] = from])
              /\ sigmaIndex' = [sigmaIndex EXCEPT ![Min(Rays)] = slot.sigma]
              /\ torn' = [torn EXCEPT ![Min(Rays)] =
                             @ \/ slot \notin {deposit[r].brings : r \in Rays}]
  BY DEF NextReflectedPass
<1>3. PICK i \in 0 .. (Min({reservoir[id].count, SlotsPerFace}) - 1) :
          LET slot == reservoir[id].slots[i]
              from == FromFace(id, FaceCentroid(CellOf(id), FaceOf(id)),
                               <<slot.x, slot.y, slot.z>>)
          IN  /\ Launch([ray EXCEPT ![Min(Rays)] = from])
              /\ sigmaIndex' = [sigmaIndex EXCEPT ![Min(Rays)] = slot.sigma]
              /\ torn' = [torn EXCEPT ![Min(Rays)] =
                             @ \/ slot \notin {deposit[r].brings : r \in Rays}]
  BY <1>2
<1>4. id \in BoundaryFaces /\ reservoir[id].faceWeight > 0
  BY <1>2
<1>5. i \in SlotIndices /\ i < reservoir[id].count
  <2>1. reservoir[id].count \in Nat /\ SlotsPerFace \in Nat
    BY <1>1, <1>4, ReservoirIs, BoundsAre
  <2> DEFINE T == {reservoir[id].count, SlotsPerFace}
  <2>2. T \subseteq Nat /\ T # {}
    BY <2>1
  <2>3. Min(T) \in T /\ \A x \in T : Min(T) <= x
    BY <2>2, MinIs
  <2>4. Min(T) \in Nat /\ Min(T) <= reservoir[id].count /\ Min(T) <= SlotsPerFace
    BY <2>2, <2>3
  <2> HIDE DEF T
  <2>5. i \in 0 .. (Min(T) - 1)
    BY DEF T
  <2> QED
    BY <2>1, <2>4, <2>5 DEF SlotIndices
<1> DEFINE slot == reservoir[id].slots[i]
           centre == FaceCentroid(CellOf(id), FaceOf(id))
           from == FromFace(id, centre, <<slot.x, slot.y, slot.z>>)
<1>6. slot \in Slots
  BY <1>1, <1>4, <1>5, ReservoirIs
<1>7. from \in States
  <2>1. /\ CellOf(id) \in Cells /\ FaceOf(id) \in Faces
    BY <1>4, BoundaryFaceIs
  <2>2. <<1, 1, 1>> \in Vectors /\ Sum3(<<1, 1, 1>>) > 0
    BY DEF Vectors, Sum3
  <2>3. centre \in Positions
    BY <2>1, <2>2, WeightedIs DEF FaceCentroid
  <2>4. slot.x \in Int /\ slot.y \in Int /\ slot.z \in Int
    BY <1>6 DEF Slots
  <2> HIDE DEF slot, centre
  <2>5. <<slot.x, slot.y, slot.z>> \in Vectors
    BY <2>4 DEF Vectors
  <2>6. from = [position |-> centre, direction |-> <<slot.x, slot.y, slot.z>>,
                cell |-> CellOf(id), forbiddenFace |-> FaceOf(id)]
    BY DEF FromFace
  <2> QED
    BY <2>1, <2>3, <2>5, <2>6 DEF States
<1> QED
  BY <1>1, <1>3, <1>4, <1>5, <1>6, <1>7

LEMMA NextReflectedPassTypes ==
    ASSUME TypeInv, NextReflectedPass
    PROVE  TypeInv'
<1>1. LaunchTypes /\ RayTypes /\ StoreTypes /\ CacheTypes /\ pass \in 0 .. (MaxPasses - 1)
  BY DEF TypeInv
<1>2. /\ pass + 1 < MaxPasses /\ pass' = pass + 1
      /\ reservoir' = EmptyReservoir /\ deposit' = [r \in Rays |-> NoDeposit]
      /\ UNCHANGED <<policy, relays, start, cache>>
  BY DEF NextReflectedPass, launchVars
<1>3. PICK slot \in Slots, from \in States :
         /\ Launch([ray EXCEPT ![Min(Rays)] = from])
         /\ sigmaIndex' = [sigmaIndex EXCEPT ![Min(Rays)] = slot.sigma]
         /\ torn' = [torn EXCEPT ![Min(Rays)] =
                        @ \/ slot \notin {deposit[r].brings : r \in Rays}]
  BY NextReflectedPassIs
<1>4. [ray EXCEPT ![Min(Rays)] = from] \in [Rays -> States]
  BY <1>1 DEF RayTypes
<1>5. sigmaIndex' \in [Rays -> Sigmas]
  BY <1>1, <1>3 DEF RayTypes, Slots
<1>6. torn' \in [Rays -> BOOLEAN]
  BY <1>1, <1>3 DEF RayTypes
<1>7. /\ LaunchTypes' /\ RayTypes' /\ Placed'
      /\ \A r \in Rays : pc'[r] \in {"walking", "ended"}
  BY <1>2, <1>3, <1>4, <1>5, <1>6, LaunchedTypes
<1>8. StoreTypes'
  BY <1>2, <1>7, EmptyTypes DEF StoreTypes, Depositing
<1>9. CacheTypes' /\ pass' \in 0 .. (MaxPasses - 1)
  BY <1>1, <1>2, CacheKept, BoundsAre
<1> QED
  BY <1>7, <1>8, <1>9 DEF TypeInv

LEMMA InitTypes == Init => TypeInv
<1> SUFFICES ASSUME Init PROVE TypeInv
  OBVIOUS
<1>1. /\ policy \in Policies /\ relays \in RelaysOf[policy] /\ pass = 0 /\ ray = start
      /\ pc = [r \in Rays |-> IF Active(r) THEN "walking" ELSE "ended"]
      /\ relayIndex = [r \in Rays |-> 0] /\ sigmaIndex = [r \in Rays |-> r]
      /\ face = [r \in Rays |-> None] /\ steps = [r \in Rays |-> 0]
      /\ segment = [r \in Rays |-> NoSegment] /\ torn = [r \in Rays |-> FALSE]
      /\ reservoir = IF policy = "store" THEN EmptyReservoir ELSE <<>>
      /\ deposit = [r \in Rays |-> NoDeposit]
      /\ cache = [i \in 1 .. Len(relays) |-> Unknown]
  BY DEF Init
<1>2. start \in [Rays -> StartsOf[policy]]
  BY DEF Init
<1>3. start \in [Rays -> States] /\ Len(relays) \in Nat
  BY <1>1, <1>2, StartsAssumption, RelaysAre
<1>4. LaunchTypes /\ pass \in 0 .. (MaxPasses - 1)
  BY <1>1, <1>2, BoundsAre DEF LaunchTypes
<1>5. \A r \in Rays : pc[r] \in {"walking", "ended"}
  BY <1>1
<1>6. RayTypes
  <2>1. pc \in [Rays -> Places] /\ ray \in [Rays -> States] /\ face \in [Rays -> Faces \cup {None}]
    BY <1>1, <1>3 DEF Places
  <2>2. relayIndex \in [Rays -> 0 .. Len(relays)] /\ steps \in [Rays -> 0 .. MaxTraversalSteps]
    BY <1>1, <1>3, BoundsAre
  <2>3. sigmaIndex \in [Rays -> Sigmas] /\ torn \in [Rays -> BOOLEAN]
    BY <1>1 DEF Sigmas
  <2>4. segment = [r \in Rays |-> segment[r]]
    BY <1>1
  <2> QED
    BY <2>1, <2>2, <2>3, <2>4 DEF RayTypes
<1>7. Placed
  BY <1>1, <1>5, BoundsAre DEF Placed, Depositing
<1>8. StoreTypes
  BY <1>1, <1>5, EmptyTypes DEF StoreTypes, Depositing
<1>9. CacheTypes
  <2>1. Unknown # Vignetted
    BY EntriesDiffer
  <2> QED
    BY <1>1, <2>1 DEF CacheTypes, IsEntry
<1> QED
  BY <1>4, <1>6, <1>7, <1>8, <1>9 DEF TypeInv

LEMMA NextTypes == TypeInv /\ [Next]_vars => TypeInv'
<1> SUFFICES ASSUME TypeInv, [Next]_vars PROVE TypeInv'
  OBVIOUS
<1>1. CASE UNCHANGED vars
  BY <1>1 DEF TypeInv, LaunchTypes, RayTypes, Placed, StoreTypes, CacheTypes,
              vars, launchVars, rayVars, sharedVars
<1>2. CASE NextReflectedPass
  BY <1>2, NextReflectedPassTypes
<1>3. CASE NextStage
  BY <1>3, NextStageTypes
<1>4. ASSUME NEW r \in Rays, RayStep(r)
      PROVE  TypeInv'
  <2>1. CASE CrossCell(r)
    BY <2>1, CrossCellTypes
  <2>2. CASE Absorbed(r) \/ Escape(r) \/ PumpEnds(r)
    BY <2>2, EndTypes
  <2>3. CASE RecoverFace(r)
    BY <2>3, RecoverFaceTypes
  <2>4. CASE Reflect(r)
    BY <2>4, ReflectTypes
  <2>5. CASE Count(r)
    BY <2>5, CountTypes
  <2>6. CASE Weigh(r)
    BY <2>6, WeighTypes
  <2>7. CASE StoreField(r)
    BY <2>7, StoreFieldTypes
  <2>8. CASE RelayRay(r)
    BY <2>8, RelayRayTypes
  <2>9. CASE ReflectRay(r)
    BY <2>9, ReflectRayTypes
  <2> QED
    BY <1>4, <2>1, <2>2, <2>3, <2>4, <2>5, <2>6, <2>7, <2>8, <2>9 DEF RayStep
<1> QED
  BY <1>1, <1>2, <1>3, <1>4 DEF Next, Terminated

LEMMA TypesAreOK == TypeInv => TypeOK
<1> SUFFICES ASSUME TypeInv PROVE TypeOK
  OBVIOUS
<1>1. LaunchTypes /\ RayTypes /\ StoreTypes /\ pass \in 0 .. (MaxPasses - 1)
  BY DEF TypeInv
<1>2. ASSUME NEW r \in Rays
      PROVE  /\ pc[r] \in Places
             /\ ray[r].cell \in Cells
             /\ ray[r].forbiddenFace \in Faces \cup {None}
             /\ face[r] \in Faces \cup {None}
             /\ steps[r] \in 0 .. MaxTraversalSteps
             /\ relayIndex[r] \in 0 .. Len(relays)
             /\ deposit[r].slot \in SlotIndices \cup {None}
             /\ pc[r] = "storing" => deposit[r].stored < Len(Fields)
  <2>1. ray[r].cell \in Cells /\ ray[r].forbiddenFace \in Faces \cup {None}
    BY <1>1, RaysAre
  <2>2. deposit[r].slot \in SlotIndices \cup {None}
    BY <1>1, DepositIs
  <2>3. pc[r] = "storing" => deposit[r].stored < Len(Fields)
    <3>1. Len(Fields) = 5
      BY DEF Fields
    <3> QED
      BY <1>1, <3>1 DEF StoreTypes
  <2> QED
    BY <1>1, <2>1, <2>2, <2>3 DEF RayTypes
<1> QED
  BY <1>1, <1>2 DEF TypeOK, LaunchTypes, Places

\* Every ray is in a cell of the mesh with a position in rational coordinates, its
\* steps, relays and slots are within their bounds, and a store has a slot.
THEOREM RayTypeCorrect == Spec => []TypeOK
<1>1. Spec => []TypeInv
  BY InitTypes, NextTypes, PTL DEF Spec
<1> QED
  BY <1>1, TypesAreOK, PTL

-----------------------------------------------------------------------------
(* Where a point is.  The height of the point v / w over a face is w times *)
(* its barycentric coordinate: 0 on the face, positive towards the apex.   *)

Height(cell, k, v, w) == Dot(Gradient(cell, k), v) + Offset(cell, k) * w

LEMMA HeightTypes ==
    ASSUME NEW cell \in Cells, NEW k \in Faces, NEW v \in Vectors, NEW w \in Int
    PROVE  Height(cell, k, v, w) \in Int
<1>1. Gradient(cell, k) \in Vectors /\ Offset(cell, k) \in Int
  BY PlaneTypes
<1>2. Dot(Gradient(cell, k), v) \in Int
  BY <1>1, VectorTypes
<1> QED
  BY <1>1, <1>2 DEF Height

LEMMA HeightOfPoint ==
    ASSUME NEW cell \in Cells, NEW k \in Faces, NEW point \in Positions
    PROVE  Coordinate(cell, k, point) = Height(cell, k, point.v, point.w)
  BY CoordinateTypes DEF Height

LEMMA HeightScales ==
    ASSUME NEW cell \in Cells, NEW k \in Faces, NEW v \in Vectors, NEW w \in Int, NEW m \in Int
    PROVE  Height(cell, k, Times(m, v), m * w) = m * Height(cell, k, v, w)
<1>1. PICK g, o : g = Gradient(cell, k) /\ o = Offset(cell, k)
  OBVIOUS
<1>2. g \in Vectors /\ o \in Int
  BY <1>1, PlaneTypes
<1>3. PICK g1 \in Int, g2 \in Int, g3 \in Int : g = <<g1, g2, g3>>
  BY <1>2, VectorIs
<1>4. PICK v1 \in Int, v2 \in Int, v3 \in Int : v = <<v1, v2, v3>>
  BY VectorIs
<1>5. Height(cell, k, Times(m, v), m * w)
        = g1 * (m * v1) + g2 * (m * v2) + g3 * (m * v3) + o * (m * w)
  BY <1>1, <1>3, <1>4 DEF Height, Dot, Times
<1>6. Height(cell, k, v, w) = g1 * v1 + g2 * v2 + g3 * v3 + o * w
  BY <1>1, <1>3, <1>4 DEF Height, Dot
<1>7. g1 * (m * v1) + g2 * (m * v2) + g3 * (m * v3) + o * (m * w)
        = m * (g1 * v1 + g2 * v2 + g3 * v3 + o * w)
  BY <1>2
<1> QED
  BY <1>5, <1>6, <1>7

LEMMA ScaledSigns ==
    ASSUME NEW m \in Nat \ {0}, NEW h \in Int, NEW n \in Nat \ {0}, NEW l \in Int, m * h = n * l
    PROVE  (h >= 0 <=> l >= 0) /\ (h = 0 <=> l = 0) /\ (h > 0 <=> l > 0)
<1>1. /\ l > 0 => n * l > 0
      /\ l < 0 => n * l < 0
      /\ l = 0 => n * l = 0
  OBVIOUS
<1>2. /\ h > 0 => m * h > 0
      /\ h < 0 => m * h < 0
      /\ h = 0 => m * h = 0
  OBVIOUS
<1> QED
  BY <1>1, <1>2

\* Which side of a face a point is on does not depend on how it is written.
LEMMA SamePlaceSigns ==
    ASSUME NEW cell \in Cells, NEW k \in Faces, NEW v \in Vectors, NEW w \in Int,
           NEW v2 \in Vectors, NEW w2 \in Int, SamePlace(v, w, v2, w2)
    PROVE  /\ Height(cell, k, v, w) >= 0 <=> Height(cell, k, v2, w2) >= 0
           /\ Height(cell, k, v, w) = 0 <=> Height(cell, k, v2, w2) = 0
<1>1. PICK m, n \in Nat \ {0} : Times(m, v) = Times(n, v2) /\ m * w = n * w2
  BY DEF SamePlace
<1>2. m \in Int /\ n \in Int
  BY <1>1
<1>3. /\ Height(cell, k, Times(m, v), m * w) = m * Height(cell, k, v, w)
      /\ Height(cell, k, Times(n, v2), n * w2) = n * Height(cell, k, v2, w2)
  BY <1>2, HeightScales
<1>4. m * Height(cell, k, v, w) = n * Height(cell, k, v2, w2)
  BY <1>1, <1>3
<1>5. Height(cell, k, v, w) \in Int /\ Height(cell, k, v2, w2) \in Int
  BY HeightTypes
<1>6. PICK h, l : h = Height(cell, k, v, w) /\ l = Height(cell, k, v2, w2)
  OBVIOUS
<1>7. h \in Int /\ l \in Int /\ m * h = n * l
  BY <1>4, <1>5, <1>6
<1>8. (h >= 0 <=> l >= 0) /\ (h = 0 <=> l = 0)
  BY <1>1, <1>7, ScaledSigns
<1> QED
  BY <1>6, <1>8

\* A face passes through its corners.
LEMMA HeightOfCorner ==
    ASSUME NEW cell \in Cells, NEW k \in Faces, NEW i \in 1 .. 3
    PROVE  Height(cell, k, Corner(cell, k, i), 1) = 0
<1>1. PICK a, b, c : a = Corner(cell, k, 1) /\ b = Corner(cell, k, 2) /\ c = Corner(cell, k, 3)
  OBVIOUS
<1>2. a \in Vectors /\ b \in Vectors /\ c \in Vectors
  BY <1>1, CornersAre
<1>3. PICK a1 \in Int, a2 \in Int, a3 \in Int : a = <<a1, a2, a3>>
  BY <1>2, VectorIs
<1>4. PICK b1 \in Int, b2 \in Int, b3 \in Int : b = <<b1, b2, b3>>
  BY <1>2, VectorIs
<1>5. PICK c1 \in Int, c2 \in Int, c3 \in Int : c = <<c1, c2, c3>>
  BY <1>2, VectorIs
<1>6. Minus(b, a) = <<b1 - a1, b2 - a2, b3 - a3>> /\ Minus(c, a) = <<c1 - a1, c2 - a2, c3 - a3>>
  BY <1>3, <1>4, <1>5 DEF Minus, Plus, Times
<1>7. PICK u1 \in Int, u2 \in Int, u3 \in Int : u1 = b1 - a1 /\ u2 = b2 - a2 /\ u3 = b3 - a3
  OBVIOUS
<1>8. PICK w1 \in Int, w2 \in Int, w3 \in Int : w1 = c1 - a1 /\ w2 = c2 - a2 /\ w3 = c3 - a3
  OBVIOUS
<1>9. PICK n1 \in Int, n2 \in Int, n3 \in Int :
        n1 = u2 * w3 - u3 * w2 /\ n2 = u3 * w1 - u1 * w3 /\ n3 = u1 * w2 - u2 * w1
  OBVIOUS
<1>10. Cross(Minus(b, a), Minus(c, a)) = <<n1, n2, n3>>
  BY <1>6, <1>7, <1>8, <1>9 DEF Cross
<1>11. PICK s \in {1, -1} : Gradient(cell, k) = <<s * n1, s * n2, s * n3>>
  <2>1. \/ Gradient(cell, k) = <<n1, n2, n3>>
        \/ Gradient(cell, k) = Times(-1, <<n1, n2, n3>>)
    BY <1>1, <1>10, PlaneIs
  <2>2. Times(-1, <<n1, n2, n3>>) = <<(-1) * n1, (-1) * n2, (-1) * n3>>
    BY DEF Times
  <2>3. <<n1, n2, n3>> = <<1 * n1, 1 * n2, 1 * n3>>
    OBVIOUS
  <2> QED
    BY <2>1, <2>2, <2>3
<1>12. PICK o \in Int : o = -((s * n1) * a1 + (s * n2) * a2 + (s * n3) * a3)
  OBVIOUS
<1>13. Offset(cell, k) = o
  <2>1. Offset(cell, k) = -Dot(Gradient(cell, k), a)
    BY <1>1, PlaneIs
  <2>2. Dot(<<s * n1, s * n2, s * n3>>, <<a1, a2, a3>>) = (s * n1) * a1 + (s * n2) * a2 + (s * n3) * a3
    BY DEF Dot
  <2> QED
    BY <1>3, <1>11, <1>12, <2>1, <2>2
<1>14. \A p1, p2, p3 \in Int :
          Height(cell, k, <<p1, p2, p3>>, 1) = (s * n1) * p1 + (s * n2) * p2 + (s * n3) * p3 + o
  BY <1>11, <1>12, <1>13 DEF Height, Dot
<1>15. CASE i = 1
  BY <1>1, <1>3, <1>12, <1>14, <1>15
<1>16. CASE i = 2
  <2>1. (s * n1) * b1 + (s * n2) * b2 + (s * n3) * b3 + o = s * (n1 * u1 + n2 * u2 + n3 * u3)
    BY <1>7, <1>12
  <2>2. n1 * u1 + n2 * u2 + n3 * u3 = 0
    BY <1>9
  <2> QED
    BY <1>1, <1>4, <1>14, <1>16, <2>1, <2>2
<1>17. CASE i = 3
  <2>1. (s * n1) * c1 + (s * n2) * c2 + (s * n3) * c3 + o = s * (n1 * w1 + n2 * w2 + n3 * w3)
    BY <1>8, <1>12
  <2>2. n1 * w1 + n2 * w2 + n3 * w3 = 0
    BY <1>9
  <2> QED
    BY <1>1, <1>5, <1>14, <1>17, <2>1, <2>2
<1> QED
  BY <1>15, <1>16, <1>17

\* The vertices of a cell and its faces: each is a corner of a face, or its apex.
LEMMA HeightOfVertex ==
    ASSUME NEW cell \in Cells, NEW k \in Faces, NEW p \in VerticesOf(cell)
    PROVE  /\ Points[p] \in Vectors
           /\ p \in CornersOf(cell, k) => Height(cell, k, Points[p], 1) = 0
           /\ p \notin CornersOf(cell, k) => Height(cell, k, Points[p], 1) > 0
           /\ Height(cell, k, Points[p], 1) >= 0
<1>1. Points[p] \in Vectors
  BY PointsAssumption DEF VerticesOf
<1>2. ASSUME p \in CornersOf(cell, k) PROVE Height(cell, k, Points[p], 1) = 0
  <2>1. PICK i \in 1 .. 3 : p = CellFaces[cell][k][i]
    BY <1>2 DEF CornersOf
  <2>2. Points[p] = Corner(cell, k, i)
    BY <2>1 DEF Corner
  <2> QED
    BY <2>2, HeightOfCorner
<1>3. ASSUME p \notin CornersOf(cell, k) PROVE Height(cell, k, Points[p], 1) > 0
  <2>1. p = Apex(cell, k) /\ Points[p] = Opposite(cell, k)
    BY <1>3, ApexIs
  <2> DEFINE apex == [v |-> Opposite(cell, k), w |-> 1]
  <2>2. apex \in Positions /\ apex.v = Points[p] /\ apex.w = 1
    BY <1>1, <2>1 DEF Positions
  <2>3. Coordinate(cell, k, apex) > 0
    BY VolumeAssumption
  <2> HIDE DEF apex
  <2>4. Coordinate(cell, k, apex) = Height(cell, k, Points[p], 1)
    BY <2>2, HeightOfPoint
  <2> QED
    BY <2>3, <2>4
<1>4. Height(cell, k, Points[p], 1) >= 0
  BY <1>1, <1>2, <1>3, HeightTypes
<1> QED
  BY <1>1, <1>2, <1>3, <1>4

\* The corners of a face are three vertices of its cell.
LEMMA CornersAreVertices ==
    ASSUME NEW cell \in Cells, NEW k \in Faces, NEW i \in 1 .. 3
    PROVE  CellFaces[cell][k][i] \in VerticesOf(cell)
  BY CornersAre, ApexIs

LEMMA CornersDiffer ==
    ASSUME NEW cell \in Cells, NEW k \in Faces, NEW i \in 1 .. 3, NEW j \in 1 .. 3,
           CellFaces[cell][k][i] = CellFaces[cell][k][j]
    PROVE  i = j
<1>1. SUFFICES ASSUME i # j PROVE FALSE
  OBVIOUS
<1>2. PICK a, b, c : a = Corner(cell, k, 1) /\ b = Corner(cell, k, 2) /\ c = Corner(cell, k, 3)
  OBVIOUS
<1>3. a = b \/ a = c \/ b = c
  BY <1>1, <1>2 DEF Corner
<1>4. a \in Vectors /\ b \in Vectors /\ c \in Vectors
  BY <1>2, CornersAre
<1>5. PICK a1 \in Int, a2 \in Int, a3 \in Int : a = <<a1, a2, a3>>
  BY <1>4, VectorIs
<1>6. PICK b1 \in Int, b2 \in Int, b3 \in Int : b = <<b1, b2, b3>>
  BY <1>4, VectorIs
<1>7. PICK c1 \in Int, c2 \in Int, c3 \in Int : c = <<c1, c2, c3>>
  BY <1>4, VectorIs
<1>8. Minus(b, a) = <<b1 - a1, b2 - a2, b3 - a3>> /\ Minus(c, a) = <<c1 - a1, c2 - a2, c3 - a3>>
  BY <1>5, <1>6, <1>7 DEF Minus, Plus, Times
<1>9. NormalOf(cell, k) = <<(b2 - a2) * (c3 - a3) - (b3 - a3) * (c2 - a2),
                            (b3 - a3) * (c1 - a1) - (b1 - a1) * (c3 - a3),
                            (b1 - a1) * (c2 - a2) - (b2 - a2) * (c1 - a1)>>
  BY <1>2, <1>8 DEF NormalOf, SideA, SideB, Cross
<1>10. \/ a1 = b1 /\ a2 = b2 /\ a3 = b3
       \/ a1 = c1 /\ a2 = c2 /\ a3 = c3
       \/ b1 = c1 /\ b2 = c2 /\ b3 = c3
  BY <1>3, <1>5, <1>6, <1>7
<1>11. /\ (b2 - a2) * (c3 - a3) - (b3 - a3) * (c2 - a2) = 0
       /\ (b3 - a3) * (c1 - a1) - (b1 - a1) * (c3 - a3) = 0
       /\ (b1 - a1) * (c2 - a2) - (b2 - a2) * (c1 - a1) = 0
  BY <1>10
<1>12. NormalOf(cell, k) = <<0, 0, 0>>
  BY <1>9, <1>11
<1> QED
  BY <1>12, SidesAre

\* The height of a weighted point over any face is the sum of what its corners have.
LEMMA HeightOfSum ==
    ASSUME NEW cell \in Cells, NEW k \in Faces, NEW other \in Cells, NEW l \in Faces,
           NEW ws \in Vectors
    PROVE  Height(cell, k, CornerSum(other, l, ws), Sum3(ws))
             = ws[1] * Height(cell, k, Corner(other, l, 1), 1)
                 + ws[2] * Height(cell, k, Corner(other, l, 2), 1)
                 + ws[3] * Height(cell, k, Corner(other, l, 3), 1)
<1>1. PICK g, o : g = Gradient(cell, k) /\ o = Offset(cell, k)
  OBVIOUS
<1>2. g \in Vectors /\ o \in Int
  BY <1>1, PlaneTypes
<1>3. PICK g1 \in Int, g2 \in Int, g3 \in Int : g = <<g1, g2, g3>>
  BY <1>2, VectorIs
<1>4. PICK a, b, c : a = Corner(other, l, 1) /\ b = Corner(other, l, 2) /\ c = Corner(other, l, 3)
  OBVIOUS
<1>5. a \in Vectors /\ b \in Vectors /\ c \in Vectors
  BY <1>4, CornersAre
<1>6. PICK a1 \in Int, a2 \in Int, a3 \in Int : a = <<a1, a2, a3>>
  BY <1>5, VectorIs
<1>7. PICK b1 \in Int, b2 \in Int, b3 \in Int : b = <<b1, b2, b3>>
  BY <1>5, VectorIs
<1>8. PICK c1 \in Int, c2 \in Int, c3 \in Int : c = <<c1, c2, c3>>
  BY <1>5, VectorIs
<1>9. PICK x \in Int, y \in Int, z \in Int : ws = <<x, y, z>>
  BY VectorIs
<1>10. CornerSum(other, l, ws) = <<x * a1 + y * b1 + z * c1, x * a2 + y * b2 + z * c2,
                                   x * a3 + y * b3 + z * c3>>
  BY <1>4, <1>6, <1>7, <1>8, <1>9 DEF CornerSum, Plus, Times
<1>11. Sum3(ws) = x + y + z
  BY <1>9 DEF Sum3
<1>12. Height(cell, k, CornerSum(other, l, ws), Sum3(ws))
         = g1 * (x * a1 + y * b1 + z * c1) + g2 * (x * a2 + y * b2 + z * c2)
             + g3 * (x * a3 + y * b3 + z * c3) + o * (x + y + z)
  BY <1>1, <1>3, <1>10, <1>11 DEF Height, Dot
<1>13. /\ Height(cell, k, a, 1) = g1 * a1 + g2 * a2 + g3 * a3 + o
       /\ Height(cell, k, b, 1) = g1 * b1 + g2 * b2 + g3 * b3 + o
       /\ Height(cell, k, c, 1) = g1 * c1 + g2 * c2 + g3 * c3 + o
  BY <1>1, <1>2, <1>3, <1>6, <1>7, <1>8 DEF Height, Dot
<1>14. g1 * (x * a1 + y * b1 + z * c1) + g2 * (x * a2 + y * b2 + z * c2)
             + g3 * (x * a3 + y * b3 + z * c3) + o * (x + y + z)
         = x * (g1 * a1 + g2 * a2 + g3 * a3 + o) + y * (g1 * b1 + g2 * b2 + g3 * b3 + o)
             + z * (g1 * c1 + g2 * c2 + g3 * c3 + o)
  BY <1>2
<1> QED
  BY <1>4, <1>9, <1>12, <1>13, <1>14

\* A point with weights that are not negative is in every cell that has the corners.
LEMMA WeightedIsInside ==
    ASSUME NEW cell \in Cells, NEW k \in Faces, NEW other \in Cells, NEW l \in Faces,
           CornersOf(other, l) \subseteq VerticesOf(cell),
           NEW ws \in Vectors, \A i \in 1 .. 3 : ws[i] >= 0
    PROVE  Height(cell, k, CornerSum(other, l, ws), Sum3(ws)) >= 0
<1>1. PICK a, b, c : /\ a = Height(cell, k, Corner(other, l, 1), 1)
                     /\ b = Height(cell, k, Corner(other, l, 2), 1)
                     /\ c = Height(cell, k, Corner(other, l, 3), 1)
  OBVIOUS
<1>2. \A i \in 1 .. 3 : /\ Corner(other, l, i) \in Vectors
                        /\ Height(cell, k, Corner(other, l, i), 1) >= 0
  <2>1. SUFFICES ASSUME NEW i \in 1 .. 3
                 PROVE  /\ Corner(other, l, i) \in Vectors
                        /\ Height(cell, k, Corner(other, l, i), 1) >= 0
    OBVIOUS
  <2>2. CellFaces[other][l][i] \in VerticesOf(cell)
    BY CornersAre
  <2> QED
    BY <2>2, HeightOfVertex DEF Corner
<1>3. a \in Int /\ b \in Int /\ c \in Int
  BY <1>1, <1>2, HeightTypes
<1>4. a >= 0 /\ b >= 0 /\ c >= 0
  BY <1>1, <1>2
<1>5. PICK x \in Int, y \in Int, z \in Int : x = ws[1] /\ y = ws[2] /\ z = ws[3]
  BY VectorIs
<1>6. x >= 0 /\ y >= 0 /\ z >= 0
  BY <1>5
<1>7. x * a >= 0 /\ y * b >= 0 /\ z * c >= 0
  BY <1>3, <1>4, <1>6
<1>8. Height(cell, k, CornerSum(other, l, ws), Sum3(ws)) = x * a + y * b + z * c
  BY <1>1, <1>5, HeightOfSum
<1>9. x * a + y * b + z * c >= 0
  <2>1. x * a \in Int /\ y * b \in Int /\ z * c \in Int
    BY <1>3
  <2> QED
    BY <1>7, <2>1
<1> QED
  BY <1>8, <1>9

\* It lies on the face of the corners.
LEMMA WeightedIsOnFace ==
    ASSUME NEW cell \in Cells, NEW k \in Faces, NEW ws \in Vectors
    PROVE  Height(cell, k, CornerSum(cell, k, ws), Sum3(ws)) = 0
<1>1. /\ Height(cell, k, Corner(cell, k, 1), 1) = 0
      /\ Height(cell, k, Corner(cell, k, 2), 1) = 0
      /\ Height(cell, k, Corner(cell, k, 3), 1) = 0
  BY HeightOfCorner
<1>2. PICK x \in Int, y \in Int, z \in Int : x = ws[1] /\ y = ws[2] /\ z = ws[3]
  BY VectorIs
<1>3. Height(cell, k, CornerSum(cell, k, ws), Sum3(ws)) = x * 0 + y * 0 + z * 0
  BY <1>1, <1>2, HeightOfSum
<1> QED
  BY <1>3

\* The other way around: a point of the face that is in the cell has weights that
\* are not negative, since the face opposite to a corner sees only that corner.
LEMMA OppositeFace ==
    ASSUME NEW cell \in Cells, NEW p \in VerticesOf(cell)
    PROVE  \E k \in Faces : CornersOf(cell, k) = VerticesOf(cell) \ {p}
<1>1. (VerticesOf(cell) \ {p}) \in {CornersOf(cell, k) : k \in Faces}
  BY CellAssumption
<1> QED
  BY <1>1

LEMMA WeightOfCorner ==
    ASSUME NEW cell \in Cells, NEW k \in Faces, NEW ws \in Vectors, NEW i \in 1 .. 3,
           \A j \in Faces : Height(cell, j, CornerSum(cell, k, ws), Sum3(ws)) >= 0
    PROVE  ws[i] >= 0
<1> DEFINE P(n) == CellFaces[cell][k][n]
<1>1. P(i) \in VerticesOf(cell)
  BY CornersAreVertices
<1>2. PICK j \in Faces : CornersOf(cell, j) = VerticesOf(cell) \ {P(i)}
  BY <1>1, OppositeFace
<1> DEFINE h(n) == Height(cell, j, Corner(cell, k, n), 1)
<1>3. ASSUME NEW n \in 1 .. 3
      PROVE  /\ h(n) \in Int
             /\ n = i => h(n) > 0
             /\ n # i => h(n) = 0
  <2>1. P(n) \in VerticesOf(cell) /\ Points[P(n)] = Corner(cell, k, n)
    BY CornersAreVertices DEF Corner
  <2>2. Corner(cell, k, n) \in Vectors
    BY CornersAre
  <2>3. n # i => P(n) # P(i)
    BY CornersDiffer
  <2>4. n # i => P(n) \in CornersOf(cell, j)
    BY <1>2, <2>1, <2>3
  <2>5. n = i => P(n) \notin CornersOf(cell, j)
    BY <1>2
  <2> QED
    BY <2>1, <2>2, <2>4, <2>5, HeightTypes, HeightOfVertex
<1>4. PICK a, b, c : a = h(1) /\ b = h(2) /\ c = h(3)
  OBVIOUS
<1>5. PICK x \in Int, y \in Int, z \in Int : x = ws[1] /\ y = ws[2] /\ z = ws[3]
  BY VectorIs
<1>6. x * a + y * b + z * c >= 0
  BY <1>4, <1>5, HeightOfSum
<1> HIDE DEF h, P
<1>7. CASE i = 1
  <2>1. a \in Int /\ a > 0 /\ b = 0 /\ c = 0
    BY <1>3, <1>4, <1>7
  <2>2. x * a >= 0
    BY <1>6, <2>1
  <2>3. x >= 0
    BY <2>1, <2>2
  <2> QED
    BY <1>5, <1>7, <2>3
<1>8. CASE i = 2
  <2>1. b \in Int /\ b > 0 /\ a = 0 /\ c = 0
    BY <1>3, <1>4, <1>8
  <2>2. y * b >= 0
    BY <1>6, <2>1
  <2>3. y >= 0
    BY <2>1, <2>2
  <2> QED
    BY <1>5, <1>8, <2>3
<1>9. CASE i = 3
  <2>1. c \in Int /\ c > 0 /\ a = 0 /\ b = 0
    BY <1>3, <1>4, <1>9
  <2>2. z * c >= 0
    BY <1>6, <2>1
  <2>3. z >= 0
    BY <2>1, <2>2
  <2> QED
    BY <1>5, <1>9, <2>3
<1> QED
  BY <1>7, <1>8, <1>9

LEMMA InsideTriangle ==
    ASSUME NEW cell \in Cells, NEW k \in Faces, NEW point \in Positions,
           InCell(cell, point), Coordinate(cell, k, point) = 0,
           NEW at, at = TriangleBarycentric(FaceId(cell, k), point)
    PROVE  InTriangle(at)
<1>1. /\ at \in [b : Vectors, over : Nat \ {0}]
      /\ Sum3(at.b) = at.over
      /\ SamePlace(point.v, point.w, CornerSum(cell, k, at.b), at.over)
  BY BarycentricIs
<1>2. PICK ws : ws = at.b
  OBVIOUS
<1>3. ws \in Vectors /\ CornerSum(cell, k, ws) \in Vectors /\ Sum3(ws) \in Int
  BY <1>1, <1>2, CornerSumIsVector
<1>4. point.v \in Vectors /\ point.w \in Int
  BY DEF Positions
<1>5. ASSUME NEW j \in Faces
      PROVE  Height(cell, j, CornerSum(cell, k, ws), Sum3(ws)) >= 0
  <2>1. Height(cell, j, point.v, point.w) >= 0
    BY HeightOfPoint DEF InCell
  <2> QED
    BY <1>1, <1>2, <1>3, <1>4, <2>1, SamePlaceSigns
<1>6. \A i \in 1 .. 3 : ws[i] >= 0
  BY <1>3, <1>5, WeightOfCorner
<1> QED
  BY <1>2, <1>6 DEF InTriangle

\* A position from such weights is in the cell, on the face.
LEMMA TriangleIsInside ==
    ASSUME NEW cell \in Cells, NEW k \in Faces,
           NEW at, at.b \in Vectors, Sum3(at.b) > 0, InTriangle(at),
           NEW p, p = PositionFromTriangle(FaceId(cell, k), at)
    PROVE  InCell(cell, p) /\ Coordinate(cell, k, p) = 0
<1>1. /\ p \in Positions
      /\ SamePlace(CornerSum(cell, k, at.b), Sum3(at.b), p.v, p.w)
  BY PositionIs
<1>2. PICK ws : ws = at.b
  OBVIOUS
<1>3. /\ ws \in Vectors /\ CornerSum(cell, k, ws) \in Vectors /\ Sum3(ws) \in Int
      /\ \A i \in 1 .. 3 : ws[i] >= 0
  BY <1>2, CornerSumIsVector, VectorIs DEF InTriangle, Sum3
<1>4. p.v \in Vectors /\ p.w \in Int
  BY <1>1 DEF Positions
<1>5. CornersOf(cell, k) \subseteq VerticesOf(cell)
  BY ApexIs
<1>6. ASSUME NEW j \in Faces
      PROVE  Coordinate(cell, j, p) >= 0
  <2>1. Height(cell, j, CornerSum(cell, k, ws), Sum3(ws)) >= 0
    BY <1>3, <1>5, WeightedIsInside
  <2>2. Height(cell, j, p.v, p.w) >= 0
    BY <1>1, <1>2, <1>3, <1>4, <2>1, SamePlaceSigns
  <2> QED
    BY <1>1, <2>2, HeightOfPoint
<1>7. Coordinate(cell, k, p) = 0
  <2>1. Height(cell, k, CornerSum(cell, k, ws), Sum3(ws)) = 0
    BY <1>3, WeightedIsOnFace
  <2>2. Height(cell, k, p.v, p.w) = 0
    BY <1>1, <1>2, <1>3, <1>4, <2>1, SamePlaceSigns
  <2> QED
    BY <1>1, <2>2, HeightOfPoint
<1> QED
  BY <1>6, <1>7 DEF InCell

-----------------------------------------------------------------------------
(* From one cell into the next.                                            *)

LEMMA NeighborIs ==
    ASSUME NEW cell \in Cells, NEW k \in Faces, NeighborCell[cell][k] # None,
           NEW next, next = NeighborCell[cell][k], NEW back, back = NeighborFace[cell][k]
    PROVE  /\ next \in Cells /\ back \in Faces
           /\ CornersOf(next, back) = CornersOf(cell, k)
           /\ Coordinate(next, back, [v |-> Opposite(cell, k), w |-> 1]) < 0
<1>1. <<cell, k>> \notin Boundary
  BY BoundaryIs
<1> QED
  BY <1>1, NeighborAssumption, VolumeAssumption

\* A point of a face that is in the cell is in the cell behind the face.
LEMMA SharedFace ==
    ASSUME NEW cell \in Cells, NEW k \in Faces, NeighborCell[cell][k] # None,
           NEW next, next = NeighborCell[cell][k],
           NEW point \in Positions, InCell(cell, point), Coordinate(cell, k, point) = 0
    PROVE  InCell(next, point)
<1>1. PICK back : back = NeighborFace[cell][k]
  OBVIOUS
<1>2. next \in Cells /\ back \in Faces /\ CornersOf(next, back) = CornersOf(cell, k)
  <2>1. <<cell, k>> \notin Boundary
    BY BoundaryIs
  <2> QED
    BY <1>1, <2>1, NeighborAssumption
<1>3. CornersOf(cell, k) \subseteq VerticesOf(next)
  BY <1>2, ApexIs
<1>4. PICK at : at = TriangleBarycentric(FaceId(cell, k), point)
  OBVIOUS
<1>5. /\ at \in [b : Vectors, over : Nat \ {0}]
      /\ Sum3(at.b) = at.over
      /\ SamePlace(point.v, point.w, CornerSum(cell, k, at.b), at.over)
  BY <1>4, BarycentricIs
<1>6. InTriangle(at)
  BY <1>4, InsideTriangle
<1>7. PICK ws : ws = at.b
  OBVIOUS
<1>8. /\ ws \in Vectors /\ CornerSum(cell, k, ws) \in Vectors /\ Sum3(ws) \in Int
      /\ \A i \in 1 .. 3 : ws[i] >= 0
  BY <1>5, <1>6, <1>7, CornerSumIsVector DEF InTriangle
<1>9. point.v \in Vectors /\ point.w \in Int
  BY DEF Positions
<1>10. ASSUME NEW j \in Faces
       PROVE  Coordinate(next, j, point) >= 0
  <2>1. Height(next, j, CornerSum(cell, k, ws), Sum3(ws)) >= 0
    BY <1>2, <1>3, <1>8, WeightedIsInside
  <2>2. Height(next, j, point.v, point.w) >= 0
    BY <1>2, <1>5, <1>7, <1>8, <1>9, <2>1, SamePlaceSigns
  <2> QED
    BY <1>2, <2>2, HeightOfPoint
<1> QED
  BY <1>10 DEF InCell

\* The gradient of a plane through the corners of a face is a multiple of its normal.
LEMMA Parallel ==
    ASSUME NEW a \in Vectors, NEW b \in Vectors, NEW g \in Vectors, NEW d \in Vectors,
           Dot(g, a) = 0, Dot(g, b) = 0,
           NEW n, n = Cross(a, b)
    PROVE  Dot(n, n) * Dot(g, d) = Dot(n, g) * Dot(n, d)
<1>1. PICK a1 \in Int, a2 \in Int, a3 \in Int : a = <<a1, a2, a3>>
  BY VectorIs
<1>2. PICK b1 \in Int, b2 \in Int, b3 \in Int : b = <<b1, b2, b3>>
  BY VectorIs
<1>3. PICK g1 \in Int, g2 \in Int, g3 \in Int : g = <<g1, g2, g3>>
  BY VectorIs
<1>4. PICK d1 \in Int, d2 \in Int, d3 \in Int : d = <<d1, d2, d3>>
  BY VectorIs
<1>5. PICK n1 \in Int, n2 \in Int, n3 \in Int :
        n1 = a2 * b3 - a3 * b2 /\ n2 = a3 * b1 - a1 * b3 /\ n3 = a1 * b2 - a2 * b1
  OBVIOUS
<1>6. n = <<n1, n2, n3>>
  BY <1>1, <1>2, <1>5 DEF Cross
<1>7. /\ Dot(n, n) = n1 * n1 + n2 * n2 + n3 * n3
      /\ Dot(g, d) = g1 * d1 + g2 * d2 + g3 * d3
      /\ Dot(n, g) = n1 * g1 + n2 * g2 + n3 * g3
      /\ Dot(n, d) = n1 * d1 + n2 * d2 + n3 * d3
  BY <1>3, <1>4, <1>6 DEF Dot
<1>8. g1 * a1 + g2 * a2 + g3 * a3 = 0 /\ g1 * b1 + g2 * b2 + g3 * b3 = 0
  BY <1>1, <1>2, <1>3 DEF Dot
\* n \X g = b (g . a) - a (g . b) = 0
<1>9. /\ n2 * g3 - n3 * g2 = b1 * (g1 * a1 + g2 * a2 + g3 * a3) - a1 * (g1 * b1 + g2 * b2 + g3 * b3)
      /\ n3 * g1 - n1 * g3 = b2 * (g1 * a1 + g2 * a2 + g3 * a3) - a2 * (g1 * b1 + g2 * b2 + g3 * b3)
      /\ n1 * g2 - n2 * g1 = b3 * (g1 * a1 + g2 * a2 + g3 * a3) - a3 * (g1 * b1 + g2 * b2 + g3 * b3)
  BY <1>5
<1>10. n2 * g3 - n3 * g2 = 0 /\ n3 * g1 - n1 * g3 = 0 /\ n1 * g2 - n2 * g1 = 0
  BY <1>8, <1>9
<1>11. (n1 * n1 + n2 * n2 + n3 * n3) * (g1 * d1 + g2 * d2 + g3 * d3)
           - (n1 * g1 + n2 * g2 + n3 * g3) * (n1 * d1 + n2 * d2 + n3 * d3)
         = (n2 * g3 - n3 * g2) * (n2 * d3 - n3 * d2)
             + (n3 * g1 - n1 * g3) * (n3 * d1 - n1 * d3)
             + (n1 * g2 - n2 * g1) * (n1 * d2 - n2 * d1)
  OBVIOUS
<1> QED
  BY <1>7, <1>10, <1>11

\* The heights of two points over a face differ by the gradient along their difference.
LEMMA HeightDifference ==
    ASSUME NEW cell \in Cells, NEW k \in Faces, NEW p \in Vectors, NEW q \in Vectors
    PROVE  Dot(Gradient(cell, k), Minus(p, q)) = Height(cell, k, p, 1) - Height(cell, k, q, 1)
<1>1. PICK g, o : g = Gradient(cell, k) /\ o = Offset(cell, k)
  OBVIOUS
<1>2. g \in Vectors /\ o \in Int
  BY <1>1, PlaneTypes
<1>3. PICK g1 \in Int, g2 \in Int, g3 \in Int : g = <<g1, g2, g3>>
  BY <1>2, VectorIs
<1>4. PICK p1 \in Int, p2 \in Int, p3 \in Int : p = <<p1, p2, p3>>
  BY VectorIs
<1>5. PICK q1 \in Int, q2 \in Int, q3 \in Int : q = <<q1, q2, q3>>
  BY VectorIs
<1>6. Minus(p, q) = <<p1 - q1, p2 - q2, p3 - q3>>
  BY <1>4, <1>5 DEF Minus, Plus, Times
<1>7. /\ Dot(g, Minus(p, q)) = g1 * (p1 - q1) + g2 * (p2 - q2) + g3 * (p3 - q3)
      /\ Height(cell, k, p, 1) = g1 * p1 + g2 * p2 + g3 * p3 + o
      /\ Height(cell, k, q, 1) = g1 * q1 + g2 * q2 + g3 * q3 + o
  BY <1>1, <1>2, <1>3, <1>4, <1>5, <1>6 DEF Dot, Height
<1>8. g1 * (p1 - q1) + g2 * (p2 - q2) + g3 * (p3 - q3)
        = (g1 * p1 + g2 * p2 + g3 * p3 + o) - (g1 * q1 + g2 * q2 + g3 * q3 + o)
  BY <1>2
<1> QED
  BY <1>1, <1>7, <1>8

\* What leaves a cell through a face enters the cell behind it.
LEMMA Onwards ==
    ASSUME NEW cell \in Cells, NEW k \in Faces, NeighborCell[cell][k] # None,
           NEW direction \in Vectors, DirectionalChange(cell, k, direction) < 0
    PROVE  DirectionalChange(NeighborCell[cell][k], NeighborFace[cell][k], direction) > 0
<1>1. PICK next, back : next = NeighborCell[cell][k] /\ back = NeighborFace[cell][k]
  OBVIOUS
<1>2. /\ next \in Cells /\ back \in Faces /\ CornersOf(next, back) = CornersOf(cell, k)
      /\ Coordinate(next, back, [v |-> Opposite(cell, k), w |-> 1]) < 0
  BY <1>1, NeighborIs
<1>3. PICK a, b, c, d : /\ a = Corner(cell, k, 1) /\ b = Corner(cell, k, 2)
                        /\ c = Corner(cell, k, 3) /\ d = Opposite(cell, k)
  OBVIOUS
<1>4. a \in Vectors /\ b \in Vectors /\ c \in Vectors /\ d \in Vectors
  BY <1>3, CornersAre, ApexIs
<1>5. PICK g, f : g = Gradient(cell, k) /\ f = Gradient(next, back)
  OBVIOUS
<1>6. g \in Vectors /\ f \in Vectors
  BY <1>2, <1>5, PlaneTypes
<1>7. PICK u, w : u = Minus(b, a) /\ w = Minus(c, a)
  OBVIOUS
<1>8. u \in Vectors /\ w \in Vectors /\ Minus(d, a) \in Vectors
  BY <1>4, <1>7, VectorTypes
<1>9. PICK n : n = Cross(u, w)
  OBVIOUS
<1>10. n = NormalOf(cell, k) /\ n \in Vectors /\ Dot(n, n) \in Nat \ {0}
       /\ (g = n \/ g = Times(-1, n))
  BY <1>3, <1>5, <1>7, <1>9, SidesAre DEF NormalOf, SideA, SideB, Square
\* The corners of the face are on the face of the next cell too, the apex behind it.
<1>11. Dot(f, u) = 0 /\ Dot(f, w) = 0 /\ Dot(f, Minus(d, a)) < 0
  <2>1. ASSUME NEW i \in 1 .. 3
        PROVE  Height(next, back, Corner(cell, k, i), 1) = 0
    <3>1. CellFaces[cell][k][i] \in CornersOf(next, back)
      BY <1>2, CornersAre
    <3>2. CellFaces[cell][k][i] \in VerticesOf(next)
      BY <1>2, <3>1, ApexIs
    <3> QED
      BY <1>2, <3>1, <3>2, HeightOfVertex DEF Corner
  <2>2. Height(next, back, a, 1) = 0 /\ Height(next, back, b, 1) = 0 /\ Height(next, back, c, 1) = 0
    BY <1>3, <2>1
  <2>3. Height(next, back, d, 1) < 0
    <3> DEFINE apex == [v |-> Opposite(cell, k), w |-> 1]
    <3>1. apex \in Positions /\ apex.v = d /\ apex.w = 1
      BY <1>3, <1>4 DEF Positions
    <3>2. Coordinate(next, back, apex) < 0
      BY <1>2
    <3> HIDE DEF apex
    <3> QED
      BY <1>2, <3>1, <3>2, HeightOfPoint
  <2>4. /\ Dot(f, u) = Height(next, back, b, 1) - Height(next, back, a, 1)
        /\ Dot(f, w) = Height(next, back, c, 1) - Height(next, back, a, 1)
        /\ Dot(f, Minus(d, a)) = Height(next, back, d, 1) - Height(next, back, a, 1)
    BY <1>2, <1>4, <1>5, <1>7, HeightDifference
  <2>5. Height(next, back, d, 1) \in Int
    BY <1>2, <1>4, HeightTypes
  <2> QED
    BY <2>2, <2>3, <2>4, <2>5
<1>12. Dot(g, Minus(d, a)) > 0
  <2>1. Height(cell, k, a, 1) = 0
    BY <1>3, HeightOfCorner
  <2>2. Height(cell, k, d, 1) > 0
    <3> DEFINE apex == [v |-> Opposite(cell, k), w |-> 1]
    <3>1. apex \in Positions /\ apex.v = d /\ apex.w = 1
      BY <1>3, <1>4 DEF Positions
    <3>2. Coordinate(cell, k, apex) > 0
      BY VolumeAssumption
    <3> HIDE DEF apex
    <3> QED
      BY <3>1, <3>2, HeightOfPoint
  <2>3. Dot(g, Minus(d, a)) = Height(cell, k, d, 1) - Height(cell, k, a, 1)
    BY <1>4, <1>5, HeightDifference
  <2>4. Height(cell, k, d, 1) \in Int
    BY <1>4, HeightTypes
  <2> QED
    BY <2>1, <2>2, <2>3, <2>4
<1>13. Dot(g, direction) < 0
  BY <1>5, CoordinateTypes
\* f is a multiple of n, and so is g: the two factors have opposite signs.
<1>14. /\ Dot(n, n) * Dot(f, direction) = Dot(n, f) * Dot(n, direction)
       /\ Dot(n, n) * Dot(f, Minus(d, a)) = Dot(n, f) * Dot(n, Minus(d, a))
  BY <1>6, <1>8, <1>9, <1>11, Parallel
<1>15. PICK s \in {1, -1} : /\ Dot(g, direction) = s * Dot(n, direction)
                            /\ Dot(g, Minus(d, a)) = s * Dot(n, Minus(d, a))
  <2>1. ASSUME NEW e \in Vectors
        PROVE  Dot(Times(-1, n), e) = (-1) * Dot(n, e) /\ Dot(n, e) = 1 * Dot(n, e)
    <3>1. PICK n1 \in Int, n2 \in Int, n3 \in Int : n = <<n1, n2, n3>>
      BY <1>10, VectorIs
    <3>2. PICK e1 \in Int, e2 \in Int, e3 \in Int : e = <<e1, e2, e3>>
      BY VectorIs
    <3> QED
      BY <3>1, <3>2 DEF Dot, Times
  <2> QED
    BY <1>8, <1>10, <2>1
<1>16. PICK x, y, z, t, q : /\ x = Dot(n, n) /\ y = Dot(f, direction) /\ z = Dot(n, f)
                            /\ t = Dot(n, direction) /\ q = Dot(n, Minus(d, a))
  OBVIOUS
<1>17. x \in Nat \ {0} /\ y \in Int /\ z \in Int /\ t \in Int /\ q \in Int
  BY <1>6, <1>8, <1>10, <1>16, VectorTypes
<1>18. PICK l : l = Dot(f, Minus(d, a))
  OBVIOUS
<1>19. l \in Int /\ l < 0
  BY <1>6, <1>8, <1>11, <1>18, VectorTypes
<1>20. x * y = z * t /\ x * l = z * q /\ s * t < 0 /\ s * q > 0
  BY <1>12, <1>13, <1>14, <1>15, <1>16, <1>18
<1>21. x * l < 0
  BY <1>17, <1>19
<1>22. z * q < 0
  BY <1>20, <1>21
<1>23. y > 0
  <2>1. CASE s = 1
    <3>1. q > 0 /\ t < 0
      BY <1>17, <1>20, <2>1
    <3>2. z < 0
      BY <1>17, <1>22, <3>1
    <3>3. z * t > 0
      BY <1>17, <3>1, <3>2
    <3> QED
      BY <1>17, <1>20, <3>3
  <2>2. CASE s = -1
    <3>1. q < 0 /\ t > 0
      BY <1>17, <1>20, <2>2
    <3>2. z > 0
      BY <1>17, <1>22, <3>1
    <3>3. z * t > 0
      BY <1>17, <3>1, <3>2
    <3> QED
      BY <1>17, <1>20, <3>3
  <2> QED
    BY <2>1, <2>2
<1> QED
  BY <1>1, <1>2, <1>5, <1>16, <1>23, CoordinateTypes

\* A mirror turns a direction that leaves into one that enters.
LEMMA MirrorTurns ==
    ASSUME NEW cell \in Cells, NEW k \in Faces, NEW direction \in Vectors,
           DirectionalChange(cell, k, direction) < 0
    PROVE  DirectionalChange(cell, k, ReflectedDirection(direction, OutwardFaceNormal(cell, k))) > 0
<1>1. PICK g, n : g = Gradient(cell, k) /\ n = OutwardFaceNormal(cell, k)
  OBVIOUS
<1>2. g \in Vectors /\ g # <<0, 0, 0>> /\ n = Times(-1, g) /\ n \in Vectors /\ n # <<0, 0, 0>>
  BY <1>1, PlaneTypes, NormalIsNotZero, CoordinateTypes
<1>3. PICK g1 \in Int, g2 \in Int, g3 \in Int : g = <<g1, g2, g3>>
  BY <1>2, VectorIs
<1>4. PICK d1 \in Int, d2 \in Int, d3 \in Int : direction = <<d1, d2, d3>>
  BY VectorIs
<1>5. n = <<-g1, -g2, -g3>>
  BY <1>2, <1>3 DEF Times
<1>6. PICK s \in Int, t \in Int, e \in Int :
        /\ s = g1 * g1 + g2 * g2 + g3 * g3
        /\ e = g1 * d1 + g2 * d2 + g3 * d3
        /\ t = 2 * (-e)
  OBVIOUS
<1>7. /\ Dot(n, n) = (-g1) * (-g1) + (-g2) * (-g2) + (-g3) * (-g3)
      /\ Dot(direction, n) = d1 * (-g1) + d2 * (-g2) + d3 * (-g3)
  BY <1>4, <1>5 DEF Dot
<1>8. Dot(n, n) = s /\ 2 * Dot(direction, n) = t
  <2>1. (-g1) * (-g1) + (-g2) * (-g2) + (-g3) * (-g3) = s
    BY <1>6
  <2>2. 2 * (d1 * (-g1) + d2 * (-g2) + d3 * (-g3)) = t
    BY <1>6
  <2> QED
    BY <1>7, <2>1, <2>2
<1>9. s \in Nat \ {0}
  BY <1>2, <1>8, SquareIsPositive
<1>10. e < 0
  <2>1. Dot(g, direction) < 0
    BY <1>1, CoordinateTypes
  <2> QED
    BY <1>3, <1>4, <1>6, <2>1 DEF Dot
<1>11. ReflectedDirection(direction, n) = IF t % s = 0 THEN Minus(direction, Times(t \div s, n))
                                          ELSE Minus(Times(s, direction), Times(t, n))
  BY <1>8 DEF ReflectedDirection
<1>12. PICK q : q = t \div s
  OBVIOUS
<1>13. t % s = 0 => t = s * q
  BY <1>9, <1>12
<1>14. q \in Int
  BY <1>9, <1>12
<1>15. \A h \in Int, l \in Int :
          /\ Minus(Times(h, direction), Times(l, n)) \in Vectors
          /\ Dot(g, Minus(Times(h, direction), Times(l, n))) = h * e + l * s
  <2>1. SUFFICES ASSUME NEW h \in Int, NEW l \in Int
                 PROVE  /\ Minus(Times(h, direction), Times(l, n)) \in Vectors
                        /\ Dot(g, Minus(Times(h, direction), Times(l, n))) = h * e + l * s
    OBVIOUS
  <2>2. Minus(Times(h, direction), Times(l, n))
          = <<h * d1 + (-1) * (l * (-g1)), h * d2 + (-1) * (l * (-g2)), h * d3 + (-1) * (l * (-g3))>>
    BY <1>4, <1>5 DEF Minus, Plus, Times
  <2>3. Dot(g, Minus(Times(h, direction), Times(l, n)))
          = g1 * (h * d1 + (-1) * (l * (-g1))) + g2 * (h * d2 + (-1) * (l * (-g2)))
              + g3 * (h * d3 + (-1) * (l * (-g3)))
    BY <1>3, <2>2 DEF Dot
  <2>4. g1 * (h * d1 + (-1) * (l * (-g1))) + g2 * (h * d2 + (-1) * (l * (-g2)))
              + g3 * (h * d3 + (-1) * (l * (-g3))) = h * e + l * s
    BY <1>6
  <2>5. Minus(Times(h, direction), Times(l, n)) \in Vectors
    BY <1>2, VectorTypes
  <2> QED
    BY <2>3, <2>4, <2>5
<1>16. CASE t % s = 0
  <2>1. Times(1, direction) = direction
    BY <1>4 DEF Times
  <2>2. ReflectedDirection(direction, n) = Minus(Times(1, direction), Times(q, n))
    BY <1>11, <1>12, <1>16, <2>1
  <2>3. 1 * e + q * s > 0
    BY <1>6, <1>9, <1>10, <1>13, <1>14, <1>16
  <2>4. ReflectedDirection(direction, n) \in Vectors /\ Dot(g, ReflectedDirection(direction, n)) > 0
    BY <1>14, <1>15, <2>2, <2>3
  <2> QED
    BY <1>1, <2>4, CoordinateTypes
<1>17. CASE t % s # 0
  <2>1. ReflectedDirection(direction, n) = Minus(Times(s, direction), Times(t, n))
    BY <1>11, <1>17
  <2>2. s * e + t * s = -(s * e)
    BY <1>6
  <2>3. s * e < 0
    BY <1>9, <1>10
  <2>4. s * e + t * s > 0
    BY <2>2, <2>3
  <2>5. ReflectedDirection(direction, n) \in Vectors /\ Dot(g, ReflectedDirection(direction, n)) > 0
    BY <1>9, <1>15, <2>1, <2>4
  <2> QED
    BY <1>1, <2>5, CoordinateTypes
<1> QED
  BY <1>16, <1>17

\* A ray that comes in from a relay goes away from each face of the entry surface.
LEMMA MappedComesIn ==
    ASSUME NEW relay, IsRelay(relay), NEW direction \in Vectors,
           NEW cell \in Cells, NEW k \in Faces, FaceId(cell, k) \in PumpBoundaryFaces(relay.entry),
           NEW d, d = MappedDirection(relay, RelayFrame[relay.exit], RelayFrame[relay.entry], direction)
    PROVE  DirectionalChange(cell, k, d) >= 0
<1>1. PICK exit, entry : exit = RelayFrame[relay.exit] /\ entry = RelayFrame[relay.entry]
  OBVIOUS
<1>2. relay.entry \in PumpSurfaces /\ relay.exit \in PumpSurfaces
  BY DEF IsRelay
<1>3. PICK u, v, w : u = entry.u /\ v = entry.v /\ w = entry.normal
  OBVIOUS
<1>4. u \in Vectors /\ v \in Vectors /\ w \in Vectors
  BY <1>1, <1>2, <1>3, FrameIs
<1>5. PICK m \in Int, n \in Int, l \in Nat :
        d = Minus(Plus(Times(m, u), Times(n, v)), Times(l, w)) /\ d \in Vectors
  <2> DEFINE turned == Rotated(relay, Dot(direction, exit.u), Dot(direction, exit.v))
  <2>1. /\ exit.u \in Vectors /\ exit.v \in Vectors /\ exit.normal \in Vectors
    BY <1>1, <1>2, FrameIs
  <2>2. /\ Dot(direction, exit.u) \in Int /\ Dot(direction, exit.v) \in Int
        /\ Dot(direction, exit.normal) \in Int
    BY <2>1, VectorTypes
  <2>3. turned[1] \in Int /\ turned[2] \in Int
    BY <2>2, RotatedIs
  <2>4. Magnitude(Dot(direction, exit.normal)) \in Nat
    BY <2>2 DEF Magnitude
  <2>5. d = Minus(Plus(Times(turned[1], u), Times(turned[2], v)),
                  Times(Magnitude(Dot(direction, exit.normal)), w))
    BY <1>1, <1>3 DEF MappedDirection
  <2>6. d \in Vectors
    BY MappedDirectionIs
  <2> HIDE DEF turned
  <2> QED
    BY <2>3, <2>4, <2>5, <2>6
<1>6. PICK g : g = Gradient(cell, k)
  OBVIOUS
<1>7. g \in Vectors /\ OutwardFaceNormal(cell, k) = Times(-1, g)
  BY <1>6, PlaneTypes, CoordinateTypes
<1>8. /\ Dot(Times(-1, g), u) = 0 /\ Dot(Times(-1, g), v) = 0 /\ Dot(Times(-1, g), w) > 0
  <2>1. CellOf(FaceId(cell, k)) = cell /\ FaceOf(FaceId(cell, k)) = k
    BY FaceIdIs
  <2> QED
    BY <1>1, <1>2, <1>3, <1>7, <2>1, FrameAssumption
<1>9. PICK g1 \in Int, g2 \in Int, g3 \in Int : g = <<g1, g2, g3>>
  BY <1>7, VectorIs
<1>10. PICK u1 \in Int, u2 \in Int, u3 \in Int : u = <<u1, u2, u3>>
  BY <1>4, VectorIs
<1>11. PICK v1 \in Int, v2 \in Int, v3 \in Int : v = <<v1, v2, v3>>
  BY <1>4, VectorIs
<1>12. PICK w1 \in Int, w2 \in Int, w3 \in Int : w = <<w1, w2, w3>>
  BY <1>4, VectorIs
<1>13. PICK a \in Int, b \in Int, c \in Int : /\ a = g1 * u1 + g2 * u2 + g3 * u3
                                             /\ b = g1 * v1 + g2 * v2 + g3 * v3
                                             /\ c = g1 * w1 + g2 * w2 + g3 * w3
  OBVIOUS
<1>14. a = 0 /\ b = 0 /\ c < 0
  <2>1. /\ Dot(Times(-1, g), u) = ((-1) * g1) * u1 + ((-1) * g2) * u2 + ((-1) * g3) * u3
        /\ Dot(Times(-1, g), v) = ((-1) * g1) * v1 + ((-1) * g2) * v2 + ((-1) * g3) * v3
        /\ Dot(Times(-1, g), w) = ((-1) * g1) * w1 + ((-1) * g2) * w2 + ((-1) * g3) * w3
    BY <1>9, <1>10, <1>11, <1>12 DEF Dot, Times
  <2>2. /\ ((-1) * g1) * u1 + ((-1) * g2) * u2 + ((-1) * g3) * u3 = -a
        /\ ((-1) * g1) * v1 + ((-1) * g2) * v2 + ((-1) * g3) * v3 = -b
        /\ ((-1) * g1) * w1 + ((-1) * g2) * w2 + ((-1) * g3) * w3 = -c
    BY <1>13
  <2>3. -a = 0 /\ -b = 0 /\ -c > 0
    BY <1>8, <2>1, <2>2
  <2> QED
    BY <2>3
<1>15. Dot(g, d) = m * a + n * b - l * c
  <2>1. d = <<m * u1 + n * v1 + (-1) * (l * w1), m * u2 + n * v2 + (-1) * (l * w2),
              m * u3 + n * v3 + (-1) * (l * w3)>>
    BY <1>5, <1>10, <1>11, <1>12 DEF Minus, Plus, Times
  <2>2. Dot(g, d) = g1 * (m * u1 + n * v1 + (-1) * (l * w1))
                      + g2 * (m * u2 + n * v2 + (-1) * (l * w2))
                      + g3 * (m * u3 + n * v3 + (-1) * (l * w3))
    BY <1>9, <2>1 DEF Dot
  <2>3. g1 * (m * u1 + n * v1 + (-1) * (l * w1)) + g2 * (m * u2 + n * v2 + (-1) * (l * w2))
          + g3 * (m * u3 + n * v3 + (-1) * (l * w3)) = m * a + n * b - l * c
    BY <1>13
  <2> QED
    BY <2>2, <2>3
<1>16. m * a + n * b - l * c >= 0
  <2>1. l * c <= 0
    BY <1>14
  <2>2. m * a = 0 /\ n * b = 0 /\ l * c \in Int
    BY <1>14
  <2> QED
    BY <2>1, <2>2
<1> QED
  BY <1>5, <1>6, <1>15, <1>16, CoordinateTypes

-----------------------------------------------------------------------------
(* Where a walk takes a ray.  A ray that walks is in its cell and does not *)
(* leave it through the face it came in by; at the boundary it stands on   *)
(* the face and leaves through it.                                         *)

WalksFrom(cell, point, direction, forbidden) ==
    /\ InCell(cell, point)
    /\ forbidden # None => DirectionalChange(cell, forbidden, direction) >= 0
LeavesThrough(cell, k, point, direction) ==
    /\ InCell(cell, point)
    /\ Coordinate(cell, k, point) = 0
    /\ DirectionalChange(cell, k, direction) < 0
\* Some face it leaves through is under it, another one ahead.
SkipsFace(cell, point, direction, forbidden) ==
    \E k, j \in Decreasing(cell, direction, forbidden) :
        Coordinate(cell, k, point) = 0 /\ Coordinate(cell, j, point) > 0

LEMMA InCellIs ==
    ASSUME NEW cell \in Cells, NEW point \in Positions, InCell(cell, point), NEW k \in Faces
    PROVE  Coordinate(cell, k, point) \in Int /\ Coordinate(cell, k, point) >= 0
  BY CoordinateTypes DEF InCell

\* The coordinate of the point the ray comes to, times a positive factor.
LEMMA CoordinateAhead ==
    ASSUME NEW cell \in Cells, NEW j \in Faces, NEW point \in Positions, NEW direction \in Vectors,
           NEW hit, hit.num \in Int, hit.den \in Nat \ {0},
           NEW to, to = Advance(point, direction, hit)
    PROVE  /\ to \in Positions
           /\ \E g \in Nat \ {0} :
                 g * Coordinate(cell, j, to) = hit.den * Coordinate(cell, j, point)
                                                 + hit.num * DirectionalChange(cell, j, direction)
<1>1. PICK n, m : n = hit.num /\ m = hit.den
  OBVIOUS
<1>2. n \in Int /\ m \in Nat \ {0}
  BY <1>1
<1>3. to \in Positions
  BY AdvanceIs
<1>4. PICK g \in Nat \ {0} : /\ Plus(Times(m, point.v), Times(n, direction)) = Times(g, to.v)
                             /\ point.w * m = g * to.w
  BY <1>1, AdvanceIs
<1>5. /\ point.v \in Vectors /\ point.w \in Int /\ to.v \in Vectors /\ to.w \in Int
  BY <1>3 DEF Positions
<1>6. PICK p1 \in Int, p2 \in Int, p3 \in Int : point.v = <<p1, p2, p3>>
  BY <1>5, VectorIs
<1>7. PICK d1 \in Int, d2 \in Int, d3 \in Int : direction = <<d1, d2, d3>>
  BY VectorIs
<1>8. PICK t1 \in Int, t2 \in Int, t3 \in Int : to.v = <<t1, t2, t3>>
  BY <1>5, VectorIs
<1>9. PICK f, o : f = Gradient(cell, j) /\ o = Offset(cell, j)
  OBVIOUS
<1>10. f \in Vectors /\ o \in Int
  BY <1>9, PlaneTypes
<1>11. PICK f1 \in Int, f2 \in Int, f3 \in Int : f = <<f1, f2, f3>>
  BY <1>10, VectorIs
<1>12. PICK w, v : w = point.w /\ v = to.w
  OBVIOUS
<1>13. w \in Int /\ v \in Int
  BY <1>5, <1>12
<1>14. m * p1 + n * d1 = g * t1 /\ m * p2 + n * d2 = g * t2 /\ m * p3 + n * d3 = g * t3
  <2>1. Plus(Times(m, point.v), Times(n, direction))
          = <<m * p1 + n * d1, m * p2 + n * d2, m * p3 + n * d3>>
    BY <1>6, <1>7 DEF Plus, Times
  <2>2. Times(g, to.v) = <<g * t1, g * t2, g * t3>>
    BY <1>8 DEF Times
  <2>3. <<m * p1 + n * d1, m * p2 + n * d2, m * p3 + n * d3>> = <<g * t1, g * t2, g * t3>>
    BY <1>4, <2>1, <2>2
  <2> QED
    BY <2>3
<1>15. w * m = g * v
  BY <1>4, <1>12
<1>16. /\ Coordinate(cell, j, to) = f1 * t1 + f2 * t2 + f3 * t3 + o * v
       /\ Coordinate(cell, j, point) = f1 * p1 + f2 * p2 + f3 * p3 + o * w
       /\ DirectionalChange(cell, j, direction) = f1 * d1 + f2 * d2 + f3 * d3
  <2>1. /\ Coordinate(cell, j, to) = Dot(f, to.v) + o * v
        /\ Coordinate(cell, j, point) = Dot(f, point.v) + o * w
        /\ DirectionalChange(cell, j, direction) = Dot(f, direction)
    BY <1>3, <1>9, <1>12, CoordinateTypes
  <2>2. /\ Dot(f, to.v) = f1 * t1 + f2 * t2 + f3 * t3
        /\ Dot(f, point.v) = f1 * p1 + f2 * p2 + f3 * p3
        /\ Dot(f, direction) = f1 * d1 + f2 * d2 + f3 * d3
    BY <1>6, <1>7, <1>8, <1>11 DEF Dot
  <2> QED
    BY <2>1, <2>2
<1>17. g * (f1 * t1 + f2 * t2 + f3 * t3 + o * v)
         = m * (f1 * p1 + f2 * p2 + f3 * p3 + o * w) + n * (f1 * d1 + f2 * d2 + f3 * d3)
  <2>1. g * (f1 * t1 + f2 * t2 + f3 * t3 + o * v)
          = f1 * (g * t1) + f2 * (g * t2) + f3 * (g * t3) + o * (g * v)
    BY <1>10, <1>13
  <2>2. f1 * (m * p1 + n * d1) + f2 * (m * p2 + n * d2) + f3 * (m * p3 + n * d3) + o * (w * m)
          = m * (f1 * p1 + f2 * p2 + f3 * p3 + o * w) + n * (f1 * d1 + f2 * d2 + f3 * d3)
    BY <1>2, <1>10, <1>13
  <2> QED
    BY <1>14, <1>15, <2>1, <2>2
<1> QED
  BY <1>1, <1>3, <1>16, <1>17

LEMMA SignOfProduct ==
    ASSUME NEW g \in Nat \ {0}, NEW x \in Int
    PROVE  (g * x >= 0 => x >= 0) /\ (g * x = 0 => x = 0)
  OBVIOUS

\* The nearest face ahead is reached first: the ray comes to a point of the cell, on
\* the face it goes on through.
LEMMA AdvanceStaysInside ==
    ASSUME NEW cell \in Cells, NEW point \in Positions, NEW direction \in Vectors,
           NEW forbidden \in Faces \cup {None}, WalksFrom(cell, point, direction, forbidden),
           ~SkipsFace(cell, point, direction, forbidden),
           NEW hit \in NextFaceIntersections(cell, point, direction, forbidden) \ {NoIntersection},
           NEW to, to = Advance(point, direction, hit)
    PROVE  /\ to \in Positions /\ hit.localFace \in Faces
           /\ LeavesThrough(cell, hit.localFace, to, direction)
<1> DEFINE C(j) == Coordinate(cell, j, point)
           D(j) == DirectionalChange(cell, j, direction)
<1>1. PICK tied : /\ tied # {} /\ tied \subseteq Decreasing(cell, direction, forbidden)
                  /\ hit = Intersection(cell, point, direction, tied)
                  /\ \/ tied \subseteq Here(cell, point, direction, forbidden)
                     \/ tied = Nearest(cell, point, direction, forbidden)
  BY IntersectionIs
<1>2. PICK k : k = hit.localFace
  OBVIOUS
<1>3. k \in tied /\ k \in Faces /\ hit.num = C(k) /\ hit.num \in Int
      /\ hit.den = -D(k) /\ hit.den \in Nat \ {0}
  BY <1>1, <1>2, TiedIs
<1>4. \A j \in Faces : C(j) \in Int /\ D(j) \in Int /\ C(j) >= 0
  BY CoordinateTypes, InCellIs DEF WalksFrom
<1>5. to \in Positions
  BY <1>3, AdvanceIs
<1>6. D(k) < 0
  BY <1>3, <1>4
<1> HIDE DEF C, D
<1>7. ASSUME NEW j \in Faces
      PROVE  /\ (-D(k)) * C(j) + C(k) * D(j) >= 0
             /\ j = k => (-D(k)) * C(j) + C(k) * D(j) = 0
  <2>1. PICK c, d, x, e : c = C(j) /\ d = D(j) /\ x = C(k) /\ e = -D(k)
    OBVIOUS
  <2>2. c \in Int /\ d \in Int /\ x \in Int /\ e \in Int /\ c >= 0 /\ x >= 0 /\ e > 0
    BY <1>3, <1>4, <2>1
  <2>3. e * c >= 0
    BY <2>2
  <2>4. CASE d >= 0
    <3>1. x * d >= 0
      BY <2>2, <2>4
    <3>2. e * c \in Int /\ x * d \in Int
      BY <2>2
    <3>3. e * c + x * d >= 0
      BY <2>3, <3>1, <3>2
    <3>4. j # k
      BY <1>6, <2>1, <2>2, <2>4
    <3> QED
      BY <2>1, <3>3, <3>4
  <2>5. CASE d < 0
    <3>1. j \in Decreasing(cell, direction, forbidden)
      <4>1. j # forbidden
        <5>1. j # None
          BY DEF Faces, None
        <5>2. forbidden # None => D(forbidden) >= 0
          BY DEF WalksFrom, D
        <5> QED
          BY <1>4, <2>1, <2>5, <5>1, <5>2
      <4> QED
        BY <2>1, <2>5, <4>1 DEF Decreasing, D
    <3>2. CASE tied \subseteq Here(cell, point, direction, forbidden)
      <4>1. x = 0
        BY <1>3, <2>1, <3>2 DEF Here, C
      <4>2. e * c + 0 * d >= 0
        BY <2>2, <2>3
      <4>3. ASSUME j = k PROVE e * c + 0 * d = 0
        <5>1. c = 0
          BY <2>1, <4>1, <4>3
        <5> QED
          BY <2>2, <5>1
      <4> QED
        BY <2>1, <4>1, <4>2, <4>3
    <3>3. CASE tied = Nearest(cell, point, direction, forbidden)
      <4>1. k \in Decreasing(cell, direction, forbidden) /\ x > 0
        BY <1>3, <2>1, <3>3 DEF Nearest, C
      <4>2. c > 0
        <5>1. c # 0
          BY <2>1, <3>1, <4>1 DEF SkipsFace, C
        <5> QED
          BY <2>2, <5>1
      <4>3. x * (-d) <= c * e
        BY <1>3, <2>1, <3>1, <3>3, <4>2 DEF Nearest, C, D
      <4>4. e * c + x * d >= 0
        BY <2>2, <4>3
      <4>5. j = k => e * c + x * d = 0
        BY <2>1, <2>2, <1>4
      <4> QED
        BY <2>1, <4>4, <4>5
    <3> QED
      BY <1>1, <3>2, <3>3
  <2> QED
    BY <2>2, <2>4, <2>5
<1>8. ASSUME NEW j \in Faces
      PROVE  Coordinate(cell, j, to) >= 0 /\ (j = k => Coordinate(cell, j, to) = 0)
  <2>1. PICK g \in Nat \ {0} : g * Coordinate(cell, j, to) = hit.den * C(j) + hit.num * D(j)
    BY <1>3, CoordinateAhead DEF C, D
  <2>2. Coordinate(cell, j, to) \in Int
    BY <1>5, CoordinateTypes
  <2>3. g * Coordinate(cell, j, to) = (-D(k)) * C(j) + C(k) * D(j)
    BY <1>3, <2>1
  <2> QED
    BY <1>7, <2>2, <2>3, SignOfProduct
<1> QED
  BY <1>2, <1>3, <1>5, <1>6, <1>8 DEF LeavesThrough, InCell, D

\* Where a transition leaves the ray.
Arrives(t, point, direction) ==
    /\ t.status = "reachedBoundary" => LeavesThrough(t.cell, t.boundaryFace, point, direction)
    /\ t.status = "enteredCell" => WalksFrom(t.cell, point, direction, t.forbiddenFace)

LEMMA TransitionIs ==
    ASSUME NEW status, NEW cell, NEW forbidden, NEW k,
           NEW t, t = Transition(status, cell, forbidden, k)
    PROVE  t.status = status /\ t.cell = cell /\ t.forbiddenFace = forbidden /\ t.boundaryFace = k
  BY DEF Transition

\* One transition through a face the ray stands on and leaves through.
LEMMA CrossesInto ==
    ASSUME NEW cell \in Cells, NEW k \in Faces, NEW point \in Positions, NEW direction \in Vectors,
           LeavesThrough(cell, k, point, direction), NeighborCell[cell][k] # None
    PROVE  WalksFrom(NeighborCell[cell][k], point, direction, NeighborFace[cell][k])
<1>1. PICK next, back : next = NeighborCell[cell][k] /\ back = NeighborFace[cell][k]
  OBVIOUS
<1>2. next \in Cells /\ back \in Faces
  BY <1>1, BoundaryIs
<1>3. InCell(next, point)
  BY <1>1, SharedFace DEF LeavesThrough
<1>4. DirectionalChange(next, back, direction) > 0 /\ DirectionalChange(next, back, direction) \in Int
  BY <1>1, <1>2, Onwards, CoordinateTypes DEF LeavesThrough
<1> QED
  BY <1>1, <1>3, <1>4 DEF WalksFrom

\* The recovery goes around an edge or a vertex, always on the faces it crosses.
LEMMA RecoveryArrives ==
    ASSUME NEW cell \in Cells, NEW k \in Faces, NEW point \in Positions, NEW direction \in Vectors,
           LeavesThrough(cell, k, point, direction)
    PROVE  Arrives(RecoverFaceTransition(cell, k, point, direction), point, direction)
<1> DEFINE OnItsWay(at) ==
        /\ IsCrossing(at)
        /\ at.result.status = "failed" => LeavesThrough(at.cell, at.exit, point, direction)
        /\ Arrives(at.result, point, direction)
    J == {at \in CrossingStates : OnItsWay(at)}
<1>1. PICK first : first = [cell |-> cell, exit |-> k, recent |-> <<cell, None, None>>,
                            result |-> Transition("failed", cell, None, None)]
  OBVIOUS
<1>2. first \in J
  <2>1. IsCrossing(first)
    BY <1>1, FirstCrossing
  <2>2. first.cell = cell /\ first.exit = k /\ first.result = Transition("failed", cell, None, None)
    BY <1>1
  <2>3. first.result.status = "failed"
    BY <2>2, TransitionIs
  <2>4. Arrives(first.result, point, direction)
    BY <2>3 DEF Arrives
  <2> QED
    BY <2>1, <2>2, <2>4 DEF IsCrossing
<1>3. ASSUME NEW at \in J, at.result.status = "failed"
      PROVE  CrossExit(at, point, direction) \in J
  <2>1. PICK after : after = CrossExit(at, point, direction)
    OBVIOUS
  <2>2. IsCrossing(at) /\ LeavesThrough(at.cell, at.exit, point, direction)
        /\ at.cell \in Cells /\ at.exit \in Faces
    BY <1>3 DEF IsCrossing, CrossingStates
  <2>3. IsCrossing(after)
    BY <1>3, <2>1, <2>2, CrossExitTypes
  <2>4. PICK next : next = NeighborCell[at.cell][at.exit]
    OBVIOUS
  <2>5. CASE next = None
    <3>1. after = [cell |-> at.cell, exit |-> at.exit, recent |-> at.recent,
                   result |-> Transition("reachedBoundary", at.cell, None, at.exit)]
      BY <2>1, <2>2, <2>4, <2>5, CrossExitIs
    <3>2. after.result = Transition("reachedBoundary", at.cell, None, at.exit)
      BY <3>1
    <3>3. after.result.status = "reachedBoundary" /\ after.result.cell = at.cell
          /\ after.result.boundaryFace = at.exit
      BY <3>2, TransitionIs
    <3>4. Arrives(after.result, point, direction)
      BY <2>2, <3>3 DEF Arrives
    <3> QED
      BY <2>1, <2>3, <3>3, <3>4 DEF IsCrossing
  <2>6. CASE next # None
    <3>1. PICK exit, recent, seen :
            /\ exit = NextExit(next, ProbeExits(next, point, direction), seen)
            /\ after = [cell |-> next, exit |-> exit, recent |-> recent,
                        result |-> Transition(IF exit = None THEN "enteredCell" ELSE "failed",
                                              next, NeighborFace[at.cell][at.exit], None)]
      BY <2>1, <2>2, <2>4, <2>6, CrossExitIs
    <3>2. /\ after.cell = next /\ after.exit = exit
          /\ after.result = Transition(IF exit = None THEN "enteredCell" ELSE "failed",
                                       next, NeighborFace[at.cell][at.exit], None)
      BY <3>1
    <3>3. /\ after.result.status = (IF exit = None THEN "enteredCell" ELSE "failed")
          /\ after.result.cell = next
          /\ after.result.forbiddenFace = NeighborFace[at.cell][at.exit]
      BY <3>2, TransitionIs
    <3>4. next \in Cells /\ WalksFrom(next, point, direction, NeighborFace[at.cell][at.exit])
      BY <2>2, <2>4, <2>6, BoundaryIs, CrossesInto
    <3>5. Arrives(after.result, point, direction)
      BY <3>3, <3>4 DEF Arrives
    <3>6. after.result.status = "failed" => LeavesThrough(next, exit, point, direction)
      <4>1. SUFFICES ASSUME exit # None PROVE LeavesThrough(next, exit, point, direction)
        BY <3>3
      <4>2. exit \in ProbeExits(next, point, direction)
        BY <3>1, <4>1, NextExitIs, ProbeExitsAreFaces
      <4>3. exit \in Faces
        BY <4>2, ProbeExitsAreFaces
      <4>4. InCell(next, point) /\ Coordinate(next, exit, point) \in Int
            /\ Coordinate(next, exit, point) >= 0
        BY <3>4, <4>3, InCellIs DEF WalksFrom
      <4> QED
        BY <4>2, <4>4 DEF ProbeExits, LeavesThrough
    <3> QED
      BY <2>1, <2>3, <3>2, <3>5, <3>6 DEF IsCrossing
  <2> QED
    BY <2>5, <2>6
<1> HIDE DEF J
<1>4. \E at \in J : RecoverFaceTransition(cell, k, point, direction) = at.result
  BY <1>1, <1>2, <1>3, RecoveryKeeps
<1> QED
  BY <1>4 DEF J

LEMMA TransitionArrives ==
    ASSUME NEW cell \in Cells, NEW point \in Positions, NEW direction \in Vectors,
           NEW hit, hit.localFace \in Faces, LeavesThrough(cell, hit.localFace, point, direction)
    PROVE  Arrives(TransitionAcrossIntersection(cell, hit, point, direction), point, direction)
<1>1. PICK k, t : /\ k = hit.localFace
                  /\ t = TransitionAcrossIntersection(cell, hit, point, direction)
  OBVIOUS
<1>2. k \in Faces /\ LeavesThrough(cell, k, point, direction)
  BY <1>1
<1>3. \/ t = RecoverFaceTransition(cell, k, point, direction)
      \/ NeighborCell[cell][k] = None /\ t = Transition("reachedBoundary", cell, None, k)
      \/ /\ NeighborCell[cell][k] # None
         /\ t = Transition("enteredCell", NeighborCell[cell][k], NeighborFace[cell][k], None)
  BY <1>1 DEF TransitionAcrossIntersection
<1>4. CASE t = RecoverFaceTransition(cell, k, point, direction)
  BY <1>1, <1>2, <1>4, RecoveryArrives
<1>5. CASE t = Transition("reachedBoundary", cell, None, k)
  <2>1. t.status = "reachedBoundary" /\ t.cell = cell /\ t.boundaryFace = k
    BY <1>5, TransitionIs
  <2> QED
    BY <1>1, <1>2, <2>1 DEF Arrives
<1>6. CASE /\ NeighborCell[cell][k] # None
           /\ t = Transition("enteredCell", NeighborCell[cell][k], NeighborFace[cell][k], None)
  <2>1. t.status = "enteredCell" /\ t.cell = NeighborCell[cell][k]
        /\ t.forbiddenFace = NeighborFace[cell][k]
    BY <1>6, TransitionIs
  <2>2. WalksFrom(NeighborCell[cell][k], point, direction, NeighborFace[cell][k])
    BY <1>2, <1>6, CrossesInto
  <2> QED
    BY <1>1, <2>1, <2>2 DEF Arrives
<1> QED
  BY <1>3, <1>4, <1>5, <1>6

\* The centroid of a face, where the rays of the next pass start.
LEMMA CentroidIsInside ==
    ASSUME NEW cell \in Cells, NEW k \in Faces
    PROVE  InCell(cell, FaceCentroid(cell, k))
<1>1. PICK ws, p : ws = <<1, 1, 1>> /\ p = FaceCentroid(cell, k)
  OBVIOUS
<1>2. ws \in Vectors /\ Sum3(ws) = 3 /\ \A i \in 1 .. 3 : ws[i] >= 0
  BY <1>1 DEF Vectors, Sum3
<1>3. p = Weighted(CellFaces[cell][k], ws)
  BY <1>1 DEF FaceCentroid
<1>4. p \in Positions
      /\ \E g \in Nat \ {0} : CornerSum(cell, k, ws) = Times(g, p.v) /\ Sum3(ws) = g * p.w
  BY <1>2, <1>3, WeightedIs
<1>5. PICK g \in Nat \ {0} : CornerSum(cell, k, ws) = Times(g, p.v) /\ Sum3(ws) = g * p.w
  BY <1>4
<1>6. p.v \in Vectors /\ p.w \in Int
  BY <1>4 DEF Positions
<1>7. CornersOf(cell, k) \subseteq VerticesOf(cell)
  BY ApexIs
<1>8. ASSUME NEW j \in Faces
      PROVE  Coordinate(cell, j, p) >= 0
  <2>1. Height(cell, j, CornerSum(cell, k, ws), Sum3(ws)) >= 0
    BY <1>2, <1>7, WeightedIsInside
  <2>2. Height(cell, j, CornerSum(cell, k, ws), Sum3(ws)) = g * Height(cell, j, p.v, p.w)
    BY <1>5, <1>6, HeightScales
  <2>3. Height(cell, j, p.v, p.w) \in Int
    BY <1>6, HeightTypes
  <2>4. Height(cell, j, p.v, p.w) >= 0
    BY <2>1, <2>2, <2>3, SignOfProduct
  <2> QED
    BY <1>4, <2>4, HeightOfPoint
<1> QED
  BY <1>1, <1>8 DEF InCell

-----------------------------------------------------------------------------
(* The invariant: rays stay inside.  Of the rays whose slot was not torn:  *)
(* where they walk, where they have come out and what they have booked.    *)

IsInside(place, at, k, booked) ==
    /\ place = "walking" => WalksFrom(at.cell, at.position, at.direction, at.forbiddenFace)
    /\ place = "atBoundary" => LeavesThrough(at.cell, k, at.position, at.direction)
    /\ booked # NoSegment =>
          InCell(booked.cell, booked.from) /\ InCell(booked.cell, booked.to)

RaysInside == \A r \in Rays : ~torn[r] => IsInside(pc[r], ray[r], face[r], segment[r])

\* An entry that the cache holds is a point of its face, and the face one of the relay's.
CacheInside ==
    \A i \in 1 .. Len(relays) : IsFound(cache[i]) =>
        /\ InTriangle(cache[i].at)
        /\ policy = "relay" => cache[i].target \in PumpBoundaryFaces(relays[i].entry)

OnlyMoves(r) ==
    \A q \in Rays : q # r => /\ pc'[q] = pc[q] /\ ray'[q] = ray[q]
                             /\ face'[q] = face[q] /\ segment'[q] = segment[q]

LEMMA OneRayMoves ==
    ASSUME RaysInside, NEW r \in Rays, torn' = torn, OnlyMoves(r),
           ~torn[r] => IsInside(pc'[r], ray'[r], face'[r], segment'[r])
    PROVE  RaysInside'
<1>1. SUFFICES ASSUME NEW q \in Rays, ~torn'[q]
               PROVE  IsInside(pc'[q], ray'[q], face'[q], segment'[q])
  BY DEF RaysInside
<1>2. CASE q = r
  BY <1>1, <1>2
<1>3. CASE q # r
  <2>1. /\ pc'[q] = pc[q] /\ ray'[q] = ray[q] /\ face'[q] = face[q] /\ segment'[q] = segment[q]
    BY <1>3 DEF OnlyMoves
  <2>2. IsInside(pc[q], ray[q], face[q], segment[q])
    BY <1>1 DEF RaysInside
  <2> QED
    BY <2>1, <2>2
<1> QED
  BY <1>2, <1>3

\* A step that books nothing and after which the ray neither walks nor is at the boundary.
LEMMA RayRests ==
    ASSUME RaysInside, NEW r \in Rays, torn' = torn, OnlyMoves(r),
           pc'[r] \notin {"walking", "atBoundary"}, segment'[r] = segment[r]
    PROVE  RaysInside'
<1>1. ASSUME ~torn[r] PROVE IsInside(pc'[r], ray'[r], face'[r], segment'[r])
  <2>1. IsInside(pc[r], ray[r], face[r], segment[r])
    BY <1>1 DEF RaysInside
  <2> QED
    BY <2>1 DEF IsInside
<1> QED
  BY <1>1, OneRayMoves

\* The ray after a transition.
LEMMA FollowArrives ==
    ASSUME RayTypes, NEW r \in Rays, NEW t, IsTransition(t), NEW position, Follow(r, t, position),
           Arrives(t, position, ray[r].direction), NEW booked,
           booked # NoSegment => InCell(booked.cell, booked.from) /\ InCell(booked.cell, booked.to)
    PROVE  IsInside(pc'[r], ray'[r], face'[r], booked)
<1> DEFINE entered == t.status = "enteredCell"
           lost == t.status = "failed" \/ (entered /\ steps[r] + 1 = MaxTraversalSteps)
           now == [position |-> position, direction |-> ray[r].direction, cell |-> t.cell,
                   forbiddenFace |-> IF entered THEN t.forbiddenFace ELSE ray[r].forbiddenFace]
<1>1. /\ ray' = [ray EXCEPT ![r] = now]
      /\ face' = [face EXCEPT ![r] = IF entered THEN face[r] ELSE t.boundaryFace]
      /\ pc' = [pc EXCEPT ![r] = IF lost THEN "failed"
                                 ELSE IF entered THEN "walking" ELSE "atBoundary"]
  BY FollowIs
<1>2. /\ ray'[r] = now
      /\ face'[r] = (IF entered THEN face[r] ELSE t.boundaryFace)
      /\ pc'[r] = (IF lost THEN "failed" ELSE IF entered THEN "walking" ELSE "atBoundary")
  BY <1>1 DEF RayTypes
<1>3. t.status \in {"reachedBoundary", "enteredCell", "failed"}
  BY DEF IsTransition, Transitions
<1>4. pc'[r] = "walking" => entered
  BY <1>2
<1>5. pc'[r] = "atBoundary" => t.status = "reachedBoundary"
  BY <1>2, <1>3
<1>6. /\ ray'[r].cell = t.cell /\ ray'[r].position = position
      /\ ray'[r].direction = ray[r].direction
      /\ entered => ray'[r].forbiddenFace = t.forbiddenFace
  BY <1>2
<1>7. t.status = "reachedBoundary" => face'[r] = t.boundaryFace
  BY <1>2
<1> HIDE DEF now, lost
<1>8. pc'[r] = "walking" =>
        WalksFrom(ray'[r].cell, ray'[r].position, ray'[r].direction, ray'[r].forbiddenFace)
  BY <1>4, <1>6 DEF Arrives
<1>9. pc'[r] = "atBoundary" =>
        LeavesThrough(ray'[r].cell, face'[r], ray'[r].position, ray'[r].direction)
  BY <1>5, <1>6, <1>7 DEF Arrives
<1> QED
  BY <1>8, <1>9 DEF IsInside

LEMMA FollowOnlyMoves ==
    ASSUME RayTypes, NEW r \in Rays, NEW t, NEW position, Follow(r, t, position),
           \A q \in Rays : q # r => segment'[q] = segment[q]
    PROVE  OnlyMoves(r)
<1>1. PICK at, k, place : /\ ray' = [ray EXCEPT ![r] = at] /\ face' = [face EXCEPT ![r] = k]
                          /\ pc' = [pc EXCEPT ![r] = place]
  BY FollowIs
<1> QED
  BY <1>1 DEF OnlyMoves, RayTypes

LEMMA CrossCellInside ==
    ASSUME TypeInv, RaysInside, NEW r \in Rays, CrossCell(r), ~PassesOver(r)
    PROVE  RaysInside' /\ OnlyMoves(r)
<1>1. RayTypes /\ pc[r] = "walking" /\ torn' = torn
  BY DEF TypeInv, CrossCell, sharedVars
<1> DEFINE cell == ray[r].cell
           point == ray[r].position
           direction == ray[r].direction
           forbidden == ray[r].forbiddenFace
           To(hit) == Advance(point, direction, hit)
<1>2. cell \in Cells /\ point \in Positions /\ direction \in Vectors
      /\ forbidden \in Faces \cup {None}
  BY <1>1, RaysAre
<1>3. PICK hit \in Ahead(r) \ {NoIntersection} :
         /\ segment' = [segment EXCEPT ![r] = [cell |-> cell, from |-> point, to |-> To(hit)]]
         /\ Follow(r, TransitionAcrossIntersection(cell, hit, To(hit), direction), To(hit))
  BY DEF CrossCell
<1>4. hit \in NextFaceIntersections(cell, point, direction, forbidden) \ {NoIntersection}
  BY <1>3 DEF Ahead
<1>5. ~torn[r] => /\ WalksFrom(cell, point, direction, forbidden)
                  /\ ~SkipsFace(cell, point, direction, forbidden)
  BY <1>1 DEF RaysInside, IsInside, PassesOver, SkipsFace
<1>6. segment'[r] = [cell |-> cell, from |-> point, to |-> To(hit)]
      /\ \A q \in Rays : q # r => segment'[q] = segment[q]
  BY <1>1, <1>3 DEF RayTypes
<1>7. ray[r].direction = direction
  OBVIOUS
<1> HIDE DEF cell, point, direction, forbidden
<1>8. PICK to : to = To(hit)
  OBVIOUS
<1>9. to = Advance(point, direction, hit)
  BY <1>8
<1> HIDE DEF To
<1>10. OnlyMoves(r)
  BY <1>1, <1>3, <1>6, FollowOnlyMoves
<1>11. ASSUME ~torn[r] PROVE IsInside(pc'[r], ray'[r], face'[r], segment'[r])
  <2>1. hit.localFace \in Faces /\ LeavesThrough(cell, hit.localFace, to, direction)
    BY <1>2, <1>4, <1>5, <1>9, <1>11, AdvanceStaysInside
  <2>2. to \in Positions
    BY <1>2, <1>4, <1>5, <1>9, <1>11, AdvanceStaysInside
  <2> DEFINE t == TransitionAcrossIntersection(cell, hit, to, direction)
  <2>3. Arrives(t, to, direction) /\ IsTransition(t)
    BY <1>2, <2>1, <2>2, TransitionArrives, TransitionTypes
  <2>4. Follow(r, t, to)
    BY <1>3, <1>8
  <2> HIDE DEF t
  <2>5. InCell(cell, point) /\ InCell(cell, to)
    BY <1>5, <1>11, <2>1 DEF WalksFrom, LeavesThrough
  <2>6. segment'[r].cell = cell /\ segment'[r].from = point /\ segment'[r].to = to
    BY <1>6, <1>8
  <2> QED
    BY <1>1, <1>7, <2>3, <2>4, <2>5, <2>6, FollowArrives
<1> QED
  BY <1>1, <1>10, <1>11, OneRayMoves

LEMMA RecoverFaceInside ==
    ASSUME TypeInv, RaysInside, NEW r \in Rays, RecoverFace(r)
    PROVE  RaysInside' /\ OnlyMoves(r)
<1>1. RayTypes /\ pc[r] = "walking" /\ torn' = torn /\ segment' = segment
  BY DEF TypeInv, RecoverFace, sharedVars
<1> DEFINE at == ray[r]
           exits == {k \in Decreasing(at.cell, at.direction, at.forbiddenFace) :
                        Coordinate(at.cell, k, at.position) = 0}
           exit == IF IsNearFace(at.cell, at.position)
                   THEN ImmediateExitFace(at.cell, at.position, at.direction, at.forbiddenFace)
                   ELSE None
<1>2. at.cell \in Cells /\ at.position \in Positions /\ at.direction \in Vectors
  BY <1>1, RaysAre
<1>3. exit # None => exit \in exits
  <2>1. exits \subseteq Nat
    BY DEF Decreasing, Faces
  <2>2. ImmediateExitFace(at.cell, at.position, at.direction, at.forbiddenFace)
          = IF exits = {} THEN None ELSE Min(exits)
    BY DEF ImmediateExitFace
  <2> HIDE DEF exits
  <2>3. exits # {} => Min(exits) \in exits
    BY <2>1, MinIs
  <2> QED
    BY <2>2, <2>3
<1>4. exit # None => /\ exit \in Faces /\ Coordinate(at.cell, exit, at.position) = 0
                     /\ DirectionalChange(at.cell, exit, at.direction) < 0
  BY <1>3 DEF Decreasing
<1>5. \/ exit = None /\ Goto(r, "failed") /\ UNCHANGED <<ray, face, steps>>
      \/ /\ exit # None
         /\ Follow(r, RecoverFaceTransition(at.cell, exit, at.position, at.direction), at.position)
  BY DEF RecoverFace
<1>6. ~torn[r] => InCell(at.cell, at.position) /\ IsInside(pc[r], at, face[r], segment[r])
  BY <1>1 DEF RaysInside, IsInside, WalksFrom
<1>7. at.direction = ray[r].direction
  OBVIOUS
<1> HIDE DEF at, exit
<1>8. CASE exit = None /\ Goto(r, "failed") /\ UNCHANGED <<ray, face, steps>>
  <2>1. OnlyMoves(r) /\ pc'[r] = "failed"
    BY <1>1, <1>8 DEF OnlyMoves, Goto, RayTypes
  <2> QED
    BY <1>1, <2>1, RayRests
<1>9. CASE /\ exit # None
           /\ Follow(r, RecoverFaceTransition(at.cell, exit, at.position, at.direction), at.position)
  <2>1. OnlyMoves(r)
    BY <1>1, <1>9, FollowOnlyMoves
  <2>2. ASSUME ~torn[r] PROVE IsInside(pc'[r], ray'[r], face'[r], segment'[r])
    <3> DEFINE t == RecoverFaceTransition(at.cell, exit, at.position, at.direction)
    <3>1. LeavesThrough(at.cell, exit, at.position, at.direction)
      BY <1>4, <1>6, <1>9, <2>2 DEF LeavesThrough
    <3>2. Arrives(t, at.position, at.direction) /\ IsTransition(t)
      BY <1>2, <1>4, <1>9, <3>1, RecoveryArrives, RecoveryTypes
    <3>3. Follow(r, t, at.position)
      BY <1>9
    <3> HIDE DEF t
    <3>4. segment'[r] # NoSegment => /\ InCell(segment'[r].cell, segment'[r].from)
                                     /\ InCell(segment'[r].cell, segment'[r].to)
      BY <1>1, <1>6, <2>2 DEF IsInside
    <3> QED
      BY <1>1, <1>7, <3>2, <3>3, <3>4, FollowArrives
  <2> QED
    BY <1>1, <2>1, <2>2, OneRayMoves
<1> QED
  BY <1>5, <1>8, <1>9

\* The steps that end a ray, and those of a deposit.
LEMMA RestingInside ==
    ASSUME TypeInv, RaysInside, NEW r \in Rays,
           NEW place, place \notin {"walking", "atBoundary"}, pc' = [pc EXCEPT ![r] = place],
           UNCHANGED <<torn, ray, face, segment>>
    PROVE  RaysInside' /\ OnlyMoves(r)
<1>1. OnlyMoves(r) /\ pc'[r] = place /\ segment'[r] = segment[r]
  BY DEF OnlyMoves, TypeInv, RayTypes
<1> QED
  BY <1>1, RayRests

LEMMA EndInside ==
    ASSUME TypeInv, RaysInside, NEW r \in Rays, Absorbed(r) \/ Escape(r) \/ PumpEnds(r)
    PROVE  RaysInside' /\ OnlyMoves(r)
<1>1. pc' = [pc EXCEPT ![r] = "ended"] /\ UNCHANGED <<torn, ray, face, segment>>
  BY DEF Absorbed, Escape, PumpEnds, Goto, sharedVars
<1> QED
  BY <1>1, RestingInside

LEMMA DepositStepInside ==
    ASSUME TypeInv, RaysInside, NEW r \in Rays,
           Reflect(r) \/ Count(r) \/ Weigh(r) \/ StoreField(r)
    PROVE  RaysInside' /\ OnlyMoves(r)
<1>1. UNCHANGED <<torn, ray, face, segment>>
  BY DEF Reflect, Count, Weigh, StoreField
<1>2. \E place \in {"ended", "counting", "weighing", "storing"} : pc' = [pc EXCEPT ![r] = place]
  <2>1. CASE Reflect(r)
    BY <2>1, ReflectIs
  <2>2. CASE Count(r)
    BY <2>2 DEF Count, Goto
  <2>3. CASE Weigh(r)
    <3>1. PICK id : id = FaceOfRay(r)
      OBVIOUS
    <3> QED
      BY <2>3, <3>1, WeighIs
  <2>4. CASE StoreField(r)
    BY <2>4 DEF StoreField, Goto
  <2> QED
    BY <2>1, <2>2, <2>3, <2>4
<1>3. PICK place \in {"ended", "counting", "weighing", "storing"} : pc' = [pc EXCEPT ![r] = place]
  BY <1>2
<1>4. place \notin {"walking", "atBoundary"}
  BY <1>3
<1> QED
  BY <1>1, <1>3, <1>4, RestingInside

\* A ray that goes on from a face of the boundary.
LEMMA StartsInside ==
    ASSUME NEW id \in BoundaryFaces, NEW position, NEW direction \in Vectors,
           InCell(CellOf(id), position),
           DirectionalChange(CellOf(id), FaceOf(id), direction) >= 0,
           NEW now, now = FromFace(id, position, direction)
    PROVE  WalksFrom(now.cell, now.position, now.direction, now.forbiddenFace)
<1>1. /\ now.cell = CellOf(id) /\ now.position = position /\ now.direction = direction
      /\ now.forbiddenFace = FaceOf(id)
  BY DEF FromFace
<1> QED
  BY <1>1 DEF WalksFrom

LEMMA CameInInside ==
    ASSUME TypeInv, RaysInside, NEW r \in Rays, relayIndex[r] + 1 \in 1 .. Len(relays),
           UNCHANGED <<relays, steps, torn, face, segment>>,
           NEW now \in States,
           ~torn[r] => WalksFrom(now.cell, now.position, now.direction, now.forbiddenFace),
           \/ Goto(r, "ended") /\ UNCHANGED <<ray, relayIndex>>
           \/ GoOn(r) /\ ray' = [ray EXCEPT ![r] = now]
    PROVE  RaysInside' /\ OnlyMoves(r)
<1>1. RayTypes
  BY DEF TypeInv
<1>2. CASE Goto(r, "ended") /\ UNCHANGED <<ray, relayIndex>>
  <2>1. pc' = [pc EXCEPT ![r] = "ended"]
    BY <1>2 DEF Goto
  <2> QED
    BY <1>2, <2>1, RestingInside
<1>3. CASE GoOn(r) /\ ray' = [ray EXCEPT ![r] = now]
  <2>1. PICK place \in {"ended", "failed", "walking"} : pc' = [pc EXCEPT ![r] = place]
    BY <1>3, GoOnIs
  <2>2. OnlyMoves(r) /\ ray'[r] = now /\ pc'[r] = place /\ segment'[r] = segment[r]
    BY <1>1, <1>3, <2>1 DEF OnlyMoves, RayTypes
  <2>3. ASSUME ~torn[r] PROVE IsInside(pc'[r], ray'[r], face'[r], segment'[r])
    <3>1. IsInside(pc[r], ray[r], face[r], segment[r])
      BY <2>3 DEF RaysInside
    <3>2. pc'[r] # "atBoundary"
      BY <2>1, <2>2
    <3> QED
      BY <2>2, <2>3, <3>1, <3>2 DEF IsInside
  <2> QED
    BY <2>2, <2>3, OneRayMoves
<1> QED
  BY <1>2, <1>3

\* The relay or mirror a ray is at: the entry it takes, as CacheInside has it.
EntryIsInside(entry, n) ==
    IsFound(entry) => /\ InTriangle(entry.at)
                      /\ policy = "relay" => entry.target \in PumpBoundaryFaces(relays[n].entry)

LEMMA CacheGetsEntry ==
    ASSUME CacheTypes, CacheInside, NEW n \in 1 .. Len(relays), NEW entry, EntryIsInside(entry, n),
           cache' = [cache EXCEPT ![n] = entry], UNCHANGED <<policy, relays>>
    PROVE  CacheInside'
<1>1. SUFFICES ASSUME NEW i \in 1 .. Len(relays), IsFound(cache'[i])
               PROVE  /\ InTriangle(cache'[i].at)
                      /\ policy = "relay" =>
                            cache'[i].target \in PumpBoundaryFaces(relays[i].entry)
  BY DEF CacheInside
<1>2. CASE i = n
  <2>1. cache'[i] = entry
    BY <1>2 DEF CacheTypes
  <2> QED
    BY <1>1, <1>2, <2>1 DEF EntryIsInside
<1>3. CASE i # n
  <2>1. cache'[i] = cache[i]
    BY <1>3 DEF CacheTypes
  <2> QED
    BY <1>1, <2>1 DEF CacheInside
<1> QED
  BY <1>2, <1>3

LEMMA RelayRayInside ==
    ASSUME TypeInv, RaysInside, CacheInside, NEW r \in Rays, RelayRay(r)
    PROVE  RaysInside' /\ CacheInside' /\ OnlyMoves(r)
<1>1. RayTypes /\ Placed /\ CacheTypes
  BY DEF TypeInv
<1>2. PICK n : n = relayIndex[r] + 1
  OBVIOUS
<1>3. PICK relay : relay = relays[n]
  OBVIOUS
<1>4. PICK entry : entry = (IF cache[n] = Unknown THEN Lookup(r, relay) ELSE cache[n])
  OBVIOUS
<1> DEFINE d == MappedDirection(relay, RelayFrame[relay.exit], RelayFrame[relay.entry],
                                ray[r].direction)
           now == FromFace(entry.target, PositionFromTriangle(entry.target, entry.at), d)
<1>5. /\ policy = "relay" /\ pc[r] = "atBoundary" /\ n \in 1 .. Len(relays) /\ IsRelay(relay)
      /\ entry = Vignetted \/ IsFound(entry)
      /\ cache' = [cache EXCEPT ![n] = entry]
      /\ \/ entry = Vignetted /\ Goto(r, "ended") /\ UNCHANGED <<ray, relayIndex>>
         \/ IsFound(entry) /\ GoOn(r) /\ ray' = [ray EXCEPT ![r] = now]
  BY <1>2, <1>3, <1>4, RelayRayIs
<1>6. UNCHANGED <<policy, relays, torn, face, steps, segment>>
  BY DEF RelayRay, launchVars
<1>7. ray[r].direction \in Vectors
  BY <1>1, RaysAre
<1>8. d \in Vectors
  BY <1>5, <1>7, MappedDirectionIs
<1>9. EntryIsInside(entry, n)
  <2>1. SUFFICES ASSUME IsFound(entry)
                 PROVE  /\ InTriangle(entry.at)
                        /\ entry.target \in PumpBoundaryFaces(relay.entry)
    BY <1>3 DEF EntryIsInside
  <2>2. CASE cache[n] = Unknown
    <3>1. PICK id, at : id = FaceOfRay(r) /\ at = TriangleBarycentric(id, ray[r].position)
      OBVIOUS
    <3>2. ExitPosition(r) \in Positions
      BY <1>1, <1>5, <3>1, ExitIs
    <3>3. entry = EntryFor(relay, RelayFrame[relay.exit], RelayFrame[relay.entry], ExitPosition(r))
      BY <1>4, <2>2 DEF Lookup
    <3>4. entry # Vignetted
      BY <2>1, EntriesDiffer DEF IsFound
    <3> QED
      BY <1>5, <3>2, <3>3, <3>4, EntryIs
  <2>3. CASE cache[n] # Unknown
    <3>1. entry = cache[n]
      BY <1>4, <2>3
    <3> QED
      BY <1>3, <1>5, <2>1, <3>1 DEF CacheInside
  <2> QED
    BY <2>2, <2>3
<1>10. CacheInside'
  BY <1>1, <1>5, <1>6, <1>9, CacheGetsEntry
<1>11. ASSUME IsFound(entry)
       PROVE  /\ now \in States
              /\ WalksFrom(now.cell, now.position, now.direction, now.forbiddenFace)
  <2>1. PICK id \in BoundaryFaces, at \in [b : Vectors, over : Nat \ {0}] :
          entry = Found(id, at) /\ Sum3(at.b) > 0
    BY <1>11 DEF IsFound
  <2>2. entry.target = id /\ entry.at = at
    BY <2>1, EntriesDiffer
  <2>3. InTriangle(at) /\ id \in PumpBoundaryFaces(relay.entry)
    BY <1>3, <1>5, <1>9, <1>11, <2>2 DEF EntryIsInside
  <2>4. CellOf(id) \in Cells /\ FaceOf(id) \in Faces /\ id = FaceId(CellOf(id), FaceOf(id))
    BY BoundaryFaceIs
  <2>5. PICK cell, k : cell = CellOf(id) /\ k = FaceOf(id)
    OBVIOUS
  <2>6. cell \in Cells /\ k \in Faces /\ id = FaceId(cell, k)
    BY <2>4, <2>5
  <2>7. PICK p : p = PositionFromTriangle(FaceId(cell, k), at)
    OBVIOUS
  <2>8. InCell(cell, p)
    BY <2>1, <2>3, <2>6, <2>7, TriangleIsInside
  <2>9. PICK dd : dd = d
    OBVIOUS
  <2>10. DirectionalChange(cell, k, dd) >= 0
    BY <1>5, <1>7, <2>3, <2>6, <2>9, MappedComesIn
  <2>11. now = FromFace(id, p, dd) /\ dd \in Vectors
    BY <1>8, <2>2, <2>6, <2>7, <2>9
  <2> HIDE DEF now, d
  <2>12. WalksFrom(now.cell, now.position, now.direction, now.forbiddenFace)
    BY <2>5, <2>8, <2>10, <2>11, StartsInside
  <2>13. now \in States
    BY <2>1, <2>6, <2>7, <2>11, PointOfFace
  <2> QED
    BY <2>12, <2>13
<1> HIDE DEF now, d
<1>12. CASE entry = Vignetted /\ Goto(r, "ended") /\ UNCHANGED <<ray, relayIndex>>
  <2>1. pc' = [pc EXCEPT ![r] = "ended"]
    BY <1>12 DEF Goto
  <2> QED
    BY <1>6, <1>10, <1>12, <2>1, RestingInside
<1>13. CASE IsFound(entry) /\ GoOn(r) /\ ray' = [ray EXCEPT ![r] = now]
  <2>1. RaysInside' /\ OnlyMoves(r)
    BY <1>2, <1>5, <1>6, <1>11, <1>13, CameInInside
  <2> QED
    BY <1>10, <2>1
<1> QED
  BY <1>5, <1>12, <1>13

LEMMA ReflectRayInside ==
    ASSUME TypeInv, RaysInside, CacheInside, NEW r \in Rays, ReflectRay(r)
    PROVE  RaysInside' /\ (~torn[r] => CacheInside') /\ OnlyMoves(r)
<1>1. RayTypes /\ Placed /\ CacheTypes
  BY DEF TypeInv
<1>2. PICK n, id : n = relayIndex[r] + 1 /\ id = FaceOfRay(r)
  OBVIOUS
<1>3. PICK entry : entry = (IF cache[n] = Unknown
                            THEN Found(id, TriangleBarycentric(id, ray[r].position)) ELSE cache[n])
  OBVIOUS
<1> DEFINE now == FromFace(id, PositionFromTriangle(id, entry.at), ReflectionOf(r))
<1>4. /\ policy = "reflect" /\ pc[r] = "atBoundary" /\ n \in 1 .. Len(relays)
      /\ id \in BoundaryFaces /\ IsFound(entry)
      /\ cache' = [cache EXCEPT ![n] = entry]
      /\ \/ Goto(r, "ended") /\ UNCHANGED <<ray, relayIndex>>
         \/ entry.target = id /\ GoOn(r) /\ ray' = [ray EXCEPT ![r] = now]
  BY <1>2, <1>3, ReflectRayIs
<1>5. UNCHANGED <<policy, relays, torn, face, steps, segment>>
  BY DEF ReflectRay, launchVars
<1>6. /\ ray[r].cell \in Cells /\ face[r] \in Faces /\ id = FaceId(ray[r].cell, face[r])
      /\ CellOf(id) = ray[r].cell /\ FaceOf(id) = face[r]
  BY <1>1, <1>2, <1>4, FaceOfRayIs DEF Depositing
<1>7. ray[r].position \in Positions /\ ray[r].direction \in Vectors
  BY <1>1, RaysAre
<1>8. ~torn[r] => LeavesThrough(ray[r].cell, face[r], ray[r].position, ray[r].direction)
  BY <1>4 DEF RaysInside, IsInside
<1>9. ReflectionOf(r) \in Vectors
  BY <1>1, <1>4, ReflectionIsVector
<1>10. ~torn[r] => EntryIsInside(entry, n)
  <2>1. SUFFICES ASSUME ~torn[r] PROVE InTriangle(entry.at)
    BY <1>4 DEF EntryIsInside
  <2>2. CASE cache[n] = Unknown
    <3>1. PICK at : at = TriangleBarycentric(FaceId(ray[r].cell, face[r]), ray[r].position)
      OBVIOUS
    <3>2. entry.at = at
      BY <1>3, <1>6, <2>2, <3>1, EntriesDiffer
    <3>3. InTriangle(at)
      BY <1>6, <1>7, <1>8, <2>1, <3>1, InsideTriangle DEF LeavesThrough
    <3> QED
      BY <3>2, <3>3
  <2>3. CASE cache[n] # Unknown
    BY <1>3, <1>4, <2>3 DEF CacheInside
  <2> QED
    BY <2>2, <2>3
<1>11. ~torn[r] => CacheInside'
  BY <1>1, <1>4, <1>5, <1>10, CacheGetsEntry
<1>12. ASSUME entry.target = id
       PROVE  /\ now \in States
              /\ ~torn[r] => WalksFrom(now.cell, now.position, now.direction, now.forbiddenFace)
  <2>1. PICK found \in BoundaryFaces, at \in [b : Vectors, over : Nat \ {0}] :
          entry = Found(found, at) /\ Sum3(at.b) > 0
    BY <1>4 DEF IsFound
  <2>2. entry.at = at
    BY <2>1, EntriesDiffer
  <2>3. PICK p, d : p = PositionFromTriangle(id, at) /\ d = ReflectionOf(r)
    OBVIOUS
  <2>4. now = FromFace(id, p, d) /\ d \in Vectors
    BY <1>9, <2>2, <2>3
  <2> HIDE DEF now
  <2>5. now \in States
    BY <1>4, <2>1, <2>3, <2>4, PointOfFace
  <2>6. ASSUME ~torn[r]
        PROVE  WalksFrom(now.cell, now.position, now.direction, now.forbiddenFace)
    <3>1. InTriangle(at)
      BY <1>4, <1>10, <2>2, <2>6 DEF EntryIsInside
    <3>2. InCell(CellOf(id), p)
      BY <1>6, <2>1, <2>3, <3>1, TriangleIsInside
    <3>3. d = ReflectedDirection(ray[r].direction, OutwardFaceNormal(ray[r].cell, face[r]))
      BY <2>3 DEF ReflectionOf
    <3>4. DirectionalChange(ray[r].cell, face[r], d) > 0
      BY <1>6, <1>7, <1>8, <2>6, <3>3, MirrorTurns DEF LeavesThrough
    <3>5. DirectionalChange(CellOf(id), FaceOf(id), d) >= 0
      BY <1>6, <2>4, <3>4, CoordinateTypes
    <3> QED
      BY <1>4, <2>4, <3>2, <3>5, StartsInside
  <2> QED
    BY <2>5, <2>6
<1> HIDE DEF now
<1>13. CASE Goto(r, "ended") /\ UNCHANGED <<ray, relayIndex>>
  <2>1. pc' = [pc EXCEPT ![r] = "ended"]
    BY <1>13 DEF Goto
  <2>2. RaysInside' /\ OnlyMoves(r)
    BY <1>5, <1>13, <2>1, RestingInside
  <2> QED
    BY <1>11, <2>2
<1>14. CASE entry.target = id /\ GoOn(r) /\ ray' = [ray EXCEPT ![r] = now]
  <2>1. RaysInside' /\ OnlyMoves(r)
    BY <1>2, <1>4, <1>5, <1>12, <1>14, CameInInside
  <2> QED
    BY <1>11, <2>1
<1> QED
  BY <1>4, <1>13, <1>14

-----------------------------------------------------------------------------
(* The invariant: what the reservoirs hold.  A ray of the next pass starts *)
(* at the face a slot belongs to, in the direction the slot holds; it must *)
(* point away from that face, so the slot must hold what one ray brought   *)
(* to this face.                                                           *)

Deposited(r) == deposit[r].brings.weight # 0
BringsOf(r) == <<deposit[r].brings.x, deposit[r].brings.y, deposit[r].brings.z>>
Counted(r) == Deposited(r) /\ pc[r] # "counting"

\* Who brings a reflection, and that it points away from the face.
DepositsInside ==
    \A r \in Rays :
        /\ pc[r] \in Depositing => Deposited(r)
        /\ Deposited(r) =>
              /\ policy = "store" /\ pc[r] \in Depositing \cup {"ended"}
              /\ face[r] \in Faces /\ <<ray[r].cell, face[r]>> \in Boundary
              /\ deposit[r].brings.sigma = sigmaIndex[r]
              /\ ~torn[r] => DirectionalChange(ray[r].cell, face[r], BringsOf(r)) > 0

\* The spectral bins tell the rays of pass 0 apart; after it there is one ray.
Alone ==
    \A r \in Rays :
        /\ torn[r] => r = Min(Rays) /\ pass # 0 /\ policy = "store"
        /\ pass = 0 => sigmaIndex[r] = r
        /\ pass # 0 /\ r # Min(Rays) => pc[r] = "ended" /\ ~Deposited(r)

\* The first rays that come to a face have the slots in turn, and fill them.
SlotsInTurn ==
    \A r \in Rays :
        Deposited(r) /\ pc[r] \in {"storing", "ended"} /\ deposit[r].seen < SlotsPerFace =>
            /\ deposit[r].slot = deposit[r].seen
            /\ pc[r] = "ended" => deposit[r].stored = 5

\* Each slot below the count of its face has such a ray.
FirstOnesCounted ==
    policy = "store" =>
        \A id \in BoundaryFaces, i \in SlotIndices : i < reservoir[id].count =>
            \E r \in Rays : Counted(r) /\ FaceOfRay(r) = id /\ deposit[r].seen = i

\* A slot that a ray has filled has a weight, and the bin of a ray at the same face,
\* this one's or another's.
HasSigma(id, slot) ==
    \E q \in Rays : Deposited(q) /\ FaceOfRay(q) = id /\ slot.sigma = deposit[q].brings.sigma
SlotsHold ==
    \A r \in Rays : Deposited(r) /\ deposit[r].stored >= 4 =>
        /\ deposit[r].slot \in SlotIndices
        /\ LET slot == reservoir[FaceOfRay(r)].slots[deposit[r].slot]
           IN  slot.weight # 0 /\ (deposit[r].stored = 5 => HasSigma(FaceOfRay(r), slot))

StoreInv == DepositsInside /\ Alone /\ SlotsInTurn /\ FirstOnesCounted /\ SlotsHold

LEMMA DepositedAt ==
    ASSUME TypeInv, DepositsInside, NEW r \in Rays, Deposited(r)
    PROVE  /\ policy = "store" /\ FaceOfRay(r) \in BoundaryFaces
           /\ CellOf(FaceOfRay(r)) = ray[r].cell /\ FaceOf(FaceOfRay(r)) = face[r]
           /\ pc[r] \in Depositing \cup {"ended"}
<1>1. /\ policy = "store" /\ pc[r] \in Depositing \cup {"ended"}
      /\ face[r] \in Faces /\ <<ray[r].cell, face[r]>> \in Boundary
  BY DEF DepositsInside
<1>2. ray[r].cell \in Cells
  BY RaysAre DEF TypeInv
<1> QED
  BY <1>1, <1>2, FaceIdIs, BoundaryFaceIs DEF FaceOfRay

\* The walk has nothing to do with the reservoirs.
LEMMA WalkKeepsStore ==
    ASSUME TypeInv, StoreInv, NEW r \in Rays, pc[r] \in {"walking", "atBoundary"},
           pc'[r] \notin Depositing, OnlyMoves(r),
           UNCHANGED <<policy, pass, torn, reservoir, deposit, sigmaIndex>>
    PROVE  StoreInv'
<1>1. /\ DepositsInside /\ Alone /\ SlotsInTurn /\ FirstOnesCounted /\ SlotsHold
  BY DEF StoreInv
<1>2. ~Deposited(r) /\ pc[r] # "ended"
  BY <1>1 DEF DepositsInside, Depositing
<1>3. \A q \in Rays : Deposited(q)' <=> Deposited(q)
  BY DEF Deposited
<1>4. \A q \in Rays : q # r => pc'[q] = pc[q] /\ ray'[q] = ray[q] /\ face'[q] = face[q]
  BY DEF OnlyMoves
<1>5. \A q \in Rays : Deposited(q) =>
         /\ q # r /\ pc'[q] = pc[q] /\ ray'[q] = ray[q] /\ face'[q] = face[q]
         /\ FaceOfRay(q)' = FaceOfRay(q) /\ (Counted(q)' <=> Counted(q))
         /\ BringsOf(q)' = BringsOf(q)
  BY <1>2, <1>3, <1>4 DEF FaceOfRay, Counted, BringsOf
<1>6. DepositsInside'
  <2>1. SUFFICES ASSUME NEW q \in Rays
                 PROVE  /\ pc'[q] \in Depositing => Deposited(q)'
                        /\ Deposited(q)' =>
                              /\ policy' = "store" /\ pc'[q] \in Depositing \cup {"ended"}
                              /\ face'[q] \in Faces /\ <<ray'[q].cell, face'[q]>> \in Boundary
                              /\ deposit'[q].brings.sigma = sigmaIndex'[q]
                              /\ ~torn'[q] => DirectionalChange(ray'[q].cell, face'[q], BringsOf(q)') > 0
    BY DEF DepositsInside
  <2>2. pc'[q] \in Depositing => Deposited(q)'
    BY <1>1, <1>3, <1>4 DEF DepositsInside
  <2>3. ASSUME Deposited(q)'
        PROVE  /\ policy' = "store" /\ pc'[q] \in Depositing \cup {"ended"}
               /\ face'[q] \in Faces /\ <<ray'[q].cell, face'[q]>> \in Boundary
               /\ deposit'[q].brings.sigma = sigmaIndex'[q]
               /\ ~torn'[q] => DirectionalChange(ray'[q].cell, face'[q], BringsOf(q)') > 0
    <3>1. Deposited(q)
      BY <1>3, <2>3
    <3> QED
      BY <1>1, <1>5, <3>1 DEF DepositsInside
  <2> QED
    BY <2>2, <2>3
<1>7. Alone'
  <2>1. SUFFICES ASSUME NEW q \in Rays
                 PROVE  /\ torn'[q] => q = Min(Rays) /\ pass' # 0 /\ policy' = "store"
                        /\ pass' = 0 => sigmaIndex'[q] = q
                        /\ pass' # 0 /\ q # Min(Rays) => pc'[q] = "ended" /\ ~Deposited(q)'
    BY DEF Alone
  <2>2. pass # 0 => r = Min(Rays)
    BY <1>1, <1>2 DEF Alone
  <2> QED
    BY <1>1, <1>3, <1>4, <2>2 DEF Alone
<1>8. SlotsInTurn'
  BY <1>1, <1>3, <1>5 DEF SlotsInTurn
<1>9. FirstOnesCounted'
  <2>1. SUFFICES ASSUME policy' = "store", NEW id \in BoundaryFaces, NEW i \in SlotIndices,
                        i < reservoir'[id].count
                 PROVE  \E q \in Rays : Counted(q)' /\ FaceOfRay(q)' = id /\ deposit'[q].seen = i
    BY DEF FirstOnesCounted
  <2>2. PICK q \in Rays : Counted(q) /\ FaceOfRay(q) = id /\ deposit[q].seen = i
    BY <1>1, <2>1 DEF FirstOnesCounted
  <2>3. Deposited(q)
    BY <2>2 DEF Counted
  <2> QED
    BY <1>5, <2>2, <2>3
<1>10. SlotsHold'
  <2>1. SUFFICES ASSUME NEW q \in Rays, Deposited(q)', deposit'[q].stored >= 4, NEW slot,
                        slot = reservoir'[FaceOfRay(q)'].slots[deposit'[q].slot]
                 PROVE  /\ deposit'[q].slot \in SlotIndices /\ slot.weight # 0
                        /\ deposit'[q].stored = 5 =>
                              \E p \in Rays : /\ Deposited(p)' /\ FaceOfRay(p)' = FaceOfRay(q)'
                                              /\ slot.sigma = deposit'[p].brings.sigma
    BY DEF SlotsHold, HasSigma
  <2>2. Deposited(q) /\ deposit[q].stored >= 4 /\ FaceOfRay(q)' = FaceOfRay(q)
    BY <1>3, <1>5, <2>1
  <2>3. /\ deposit[q].slot \in SlotIndices /\ slot.weight # 0
        /\ deposit[q].stored = 5 => HasSigma(FaceOfRay(q), slot)
    BY <1>1, <2>1, <2>2 DEF SlotsHold
  <2>4. HasSigma(FaceOfRay(q), slot) =>
           \E p \in Rays : /\ Deposited(p)' /\ FaceOfRay(p)' = FaceOfRay(q)'
                           /\ slot.sigma = deposit'[p].brings.sigma
    BY <1>3, <1>5, <2>2 DEF HasSigma
  <2> QED
    BY <2>3, <2>4
<1> QED
  BY <1>6, <1>7, <1>8, <1>9, <1>10 DEF StoreInv

\* A step of a deposit after the first: who brings what stays.
LEMMA DepositsStay ==
    ASSUME TypeInv, StoreInv, NEW r \in Rays, pc[r] \in Depositing,
           pc'[r] \in Depositing \cup {"ended"}, OnlyMoves(r),
           UNCHANGED <<policy, pass, torn, ray, sigmaIndex, face>>,
           \A q \in Rays : q # r => deposit'[q] = deposit[q],
           deposit'[r].brings = deposit[r].brings
    PROVE  /\ DepositsInside' /\ Alone' /\ Deposited(r)
           /\ \A q \in Rays : /\ Deposited(q)' <=> Deposited(q)
                              /\ deposit'[q].brings = deposit[q].brings
                              /\ FaceOfRay(q)' = FaceOfRay(q)
                              /\ q # r => pc'[q] = pc[q]
<1>1. DepositsInside /\ Alone
  BY DEF StoreInv
<1>2. \A q \in Rays : deposit'[q].brings = deposit[q].brings
  OBVIOUS
<1>3. \A q \in Rays : /\ Deposited(q)' <=> Deposited(q)
                      /\ BringsOf(q)' = BringsOf(q) /\ FaceOfRay(q)' = FaceOfRay(q)
  BY <1>2 DEF Deposited, BringsOf, FaceOfRay
<1>4. \A q \in Rays : q # r => pc'[q] = pc[q]
  BY DEF OnlyMoves
<1>5. Deposited(r)
  BY <1>1 DEF DepositsInside
<1>6. DepositsInside'
  <2>1. SUFFICES ASSUME NEW q \in Rays
                 PROVE  /\ pc'[q] \in Depositing => Deposited(q)'
                        /\ Deposited(q)' =>
                              /\ policy' = "store" /\ pc'[q] \in Depositing \cup {"ended"}
                              /\ face'[q] \in Faces /\ <<ray'[q].cell, face'[q]>> \in Boundary
                              /\ deposit'[q].brings.sigma = sigmaIndex'[q]
                              /\ ~torn'[q] => DirectionalChange(ray'[q].cell, face'[q], BringsOf(q)') > 0
    BY DEF DepositsInside
  <2>2. pc'[q] \in Depositing => Deposited(q)'
    BY <1>1, <1>3, <1>4, <1>5 DEF DepositsInside
  <2>3. Deposited(q)' => pc'[q] \in Depositing \cup {"ended"}
    BY <1>1, <1>3, <1>4 DEF DepositsInside
  <2>4. ASSUME Deposited(q)'
        PROVE  /\ policy' = "store"
               /\ face'[q] \in Faces /\ <<ray'[q].cell, face'[q]>> \in Boundary
               /\ deposit'[q].brings.sigma = sigmaIndex'[q]
               /\ ~torn'[q] => DirectionalChange(ray'[q].cell, face'[q], BringsOf(q)') > 0
    <3>1. Deposited(q)
      BY <1>3, <2>4
    <3> QED
      BY <1>1, <1>2, <1>3, <3>1 DEF DepositsInside
  <2> QED
    BY <2>2, <2>3, <2>4
<1>7. Alone'
  <2>1. SUFFICES ASSUME NEW q \in Rays
                 PROVE  /\ torn'[q] => q = Min(Rays) /\ pass' # 0 /\ policy' = "store"
                        /\ pass' = 0 => sigmaIndex'[q] = q
                        /\ pass' # 0 /\ q # Min(Rays) => pc'[q] = "ended" /\ ~Deposited(q)'
    BY DEF Alone
  <2>2. pass # 0 => r = Min(Rays)
    BY <1>1, <1>5 DEF Alone
  <2> QED
    BY <1>1, <1>3, <1>4, <2>2 DEF Alone
<1> QED
  BY <1>2, <1>3, <1>4, <1>5, <1>6, <1>7

\* Steps that store nothing.
LEMMA SlotsStay ==
    ASSUME TypeInv, DepositsInside, SlotsHold, NEW r \in Rays,
           \A q \in Rays : /\ Deposited(q)' <=> Deposited(q)
                           /\ deposit'[q].brings = deposit[q].brings
                           /\ FaceOfRay(q)' = FaceOfRay(q),
           \A q \in Rays : q # r => deposit'[q] = deposit[q],
           deposit'[r].stored = 0,
           \A id \in BoundaryFaces : reservoir'[id].slots = reservoir[id].slots
    PROVE  SlotsHold'
<1>1. SUFFICES ASSUME NEW q \in Rays, Deposited(q)', deposit'[q].stored >= 4, NEW slot,
                      slot = reservoir'[FaceOfRay(q)'].slots[deposit'[q].slot]
               PROVE  /\ deposit'[q].slot \in SlotIndices /\ slot.weight # 0
                      /\ deposit'[q].stored = 5 =>
                            \E p \in Rays : /\ Deposited(p)' /\ FaceOfRay(p)' = FaceOfRay(q)'
                                            /\ slot.sigma = deposit'[p].brings.sigma
  BY DEF SlotsHold, HasSigma
<1>2. q # r /\ deposit'[q] = deposit[q] /\ Deposited(q) /\ FaceOfRay(q)' = FaceOfRay(q)
  BY <1>1
<1>3. FaceOfRay(q) \in BoundaryFaces
  BY <1>2, DepositedAt
<1>4. slot = reservoir[FaceOfRay(q)].slots[deposit[q].slot]
  BY <1>1, <1>2, <1>3
<1>5. /\ deposit[q].slot \in SlotIndices /\ slot.weight # 0
      /\ deposit[q].stored = 5 => HasSigma(FaceOfRay(q), slot)
  BY <1>1, <1>2, <1>4 DEF SlotsHold
<1>6. HasSigma(FaceOfRay(q), slot) =>
         \E p \in Rays : /\ Deposited(p)' /\ FaceOfRay(p)' = FaceOfRay(q)'
                         /\ slot.sigma = deposit'[p].brings.sigma
  BY <1>2 DEF HasSigma
<1> QED
  BY <1>2, <1>5, <1>6

\* Steps that count nobody.
LEMMA CountsStay ==
    ASSUME TypeInv, FirstOnesCounted, policy' = policy,
           \A id \in BoundaryFaces : reservoir'[id].count = reservoir[id].count,
           \A q \in Rays : Counted(q) =>
               Counted(q)' /\ FaceOfRay(q)' = FaceOfRay(q) /\ deposit'[q].seen = deposit[q].seen
    PROVE  FirstOnesCounted'
<1>1. SUFFICES ASSUME policy' = "store", NEW id \in BoundaryFaces, NEW i \in SlotIndices,
                      i < reservoir'[id].count
               PROVE  \E q \in Rays : Counted(q)' /\ FaceOfRay(q)' = id /\ deposit'[q].seen = i
  BY DEF FirstOnesCounted
<1>2. PICK q \in Rays : Counted(q) /\ FaceOfRay(q) = id /\ deposit[q].seen = i
  BY <1>1 DEF FirstOnesCounted
<1> QED
  BY <1>2

\* The other rays keep their turn.
LEMMA TurnsStay ==
    ASSUME SlotsInTurn, NEW r \in Rays, OnlyMoves(r),
           \A q \in Rays : Deposited(q)' <=> Deposited(q) \/ q = r,
           \A q \in Rays : q # r => deposit'[q] = deposit[q],
           pc'[r] \in {"storing", "ended"} /\ deposit'[r].seen < SlotsPerFace =>
               /\ deposit'[r].slot = deposit'[r].seen
               /\ pc'[r] = "ended" => deposit'[r].stored = 5
    PROVE  SlotsInTurn'
<1>1. SUFFICES ASSUME NEW q \in Rays, Deposited(q)', pc'[q] \in {"storing", "ended"},
                      deposit'[q].seen < SlotsPerFace
               PROVE  /\ deposit'[q].slot = deposit'[q].seen
                      /\ pc'[q] = "ended" => deposit'[q].stored = 5
  BY DEF SlotsInTurn
<1>2. CASE q = r
  BY <1>1, <1>2
<1>3. CASE q # r
  <2>1. Deposited(q) /\ deposit'[q] = deposit[q] /\ pc'[q] = pc[q]
    BY <1>1, <1>3 DEF OnlyMoves
  <2> QED
    BY <1>1, <2>1 DEF SlotsInTurn
<1> QED
  BY <1>2, <1>3

LEMMA ReflectStore ==
    ASSUME TypeInv, RaysInside, StoreInv, NEW r \in Rays, Reflect(r), OnlyMoves(r)
    PROVE  StoreInv'
<1>1. /\ RayTypes /\ Placed /\ StoreTypes
      /\ DepositsInside /\ Alone /\ SlotsInTurn /\ FirstOnesCounted /\ SlotsHold
  BY DEF TypeInv, StoreInv
<1>2. /\ pc[r] = "atBoundary" /\ policy = "store"
      /\ UNCHANGED <<policy, pass, torn, reservoir, ray, sigmaIndex, face>>
  BY DEF Reflect, launchVars
<1>3. PICK weight \in ReflectedWeights :
        \/ /\ weight = 0 /\ pc' = [pc EXCEPT ![r] = "ended"] /\ deposit' = deposit
        \/ /\ weight # 0 /\ pc' = [pc EXCEPT ![r] = "counting"]
           /\ deposit' = [deposit EXCEPT ![r] =
                  [brings |-> Brought(ReflectionOf(r), weight, sigmaIndex[r]),
                   seen |-> deposit[r].seen, slot |-> deposit[r].slot,
                   stored |-> deposit[r].stored]]
  BY ReflectIs
<1>4. ~Deposited(r) /\ deposit[r].stored = 0
  BY <1>1, <1>2 DEF DepositsInside, Depositing, StoreTypes
<1>5. CASE weight = 0 /\ pc' = [pc EXCEPT ![r] = "ended"] /\ deposit' = deposit
  <2>1. pc'[r] = "ended"
    BY <1>1, <1>5 DEF RayTypes
  <2>2. pc'[r] \notin Depositing
    BY <2>1 DEF Depositing
  <2> QED
    BY <1>2, <1>5, <2>2, WalkKeepsStore
<1>6. CASE /\ weight # 0 /\ pc' = [pc EXCEPT ![r] = "counting"]
           /\ deposit' = [deposit EXCEPT ![r] =
                  [brings |-> Brought(ReflectionOf(r), weight, sigmaIndex[r]),
                   seen |-> deposit[r].seen, slot |-> deposit[r].slot,
                   stored |-> deposit[r].stored]]
  <2>1. PICK d : d = ReflectionOf(r)
    OBVIOUS
  <2>2. /\ pc'[r] = "counting" /\ deposit'[r].brings = Brought(d, weight, sigmaIndex[r])
        /\ deposit'[r].stored = 0
        /\ \A q \in Rays : q # r => pc'[q] = pc[q] /\ deposit'[q] = deposit[q]
    BY <1>1, <1>4, <1>6, <2>1 DEF RayTypes, StoreTypes
  <2>3. d \in Vectors
    BY <1>1, <1>2, <2>1, ReflectionIsVector
  <2>4. /\ deposit'[r].brings.weight = weight /\ deposit'[r].brings.sigma = sigmaIndex[r]
        /\ BringsOf(r)' = <<d[1], d[2], d[3]>>
    BY <2>2 DEF Brought, BringsOf
  <2>5. BringsOf(r)' = d
    BY <2>3, <2>4, VectorIs
  <2>6. Deposited(r)'
    BY <1>6, <2>4 DEF Deposited
  <2>7. \A q \in Rays : q # r =>
           /\ Deposited(q)' <=> Deposited(q)
           /\ BringsOf(q)' = BringsOf(q) /\ FaceOfRay(q)' = FaceOfRay(q)
           /\ Counted(q)' <=> Counted(q)
    BY <1>2, <2>2 DEF Deposited, BringsOf, FaceOfRay, Counted
  <2>8. DepositsInside'
    <3>1. SUFFICES ASSUME NEW q \in Rays
                   PROVE  /\ pc'[q] \in Depositing => Deposited(q)'
                          /\ Deposited(q)' =>
                                /\ policy' = "store" /\ pc'[q] \in Depositing \cup {"ended"}
                                /\ face'[q] \in Faces /\ <<ray'[q].cell, face'[q]>> \in Boundary
                                /\ deposit'[q].brings.sigma = sigmaIndex'[q]
                                /\ ~torn'[q] => DirectionalChange(ray'[q].cell, face'[q], BringsOf(q)') > 0
      BY DEF DepositsInside
    <3>2. CASE q # r
      <4>1. /\ pc'[q] = pc[q] /\ deposit'[q] = deposit[q] /\ ray'[q] = ray[q]
            /\ face'[q] = face[q] /\ sigmaIndex'[q] = sigmaIndex[q] /\ torn'[q] = torn[q]
            /\ policy' = policy
            /\ Deposited(q)' <=> Deposited(q)
            /\ BringsOf(q)' = BringsOf(q)
        BY <1>2, <2>2, <2>7, <3>2
      <4>2. /\ pc[q] \in Depositing => Deposited(q)
            /\ Deposited(q) =>
                  /\ policy = "store" /\ pc[q] \in Depositing \cup {"ended"}
                  /\ face[q] \in Faces /\ <<ray[q].cell, face[q]>> \in Boundary
                  /\ deposit[q].brings.sigma = sigmaIndex[q]
                  /\ ~torn[q] => DirectionalChange(ray[q].cell, face[q], BringsOf(q)) > 0
        BY <1>1 DEF DepositsInside
      <4> QED
        BY <4>1, <4>2
    <3>3. CASE q = r
      <4>1. /\ ray[r].cell \in Cells /\ face[r] \in Faces /\ <<ray[r].cell, face[r]>> \in Boundary
            /\ ray[r].direction \in Vectors
        BY <1>1, <1>2, RaysAre DEF Placed
      <4>2. d = ReflectedDirection(ray[r].direction, OutwardFaceNormal(ray[r].cell, face[r]))
        BY <2>1 DEF ReflectionOf
      <4>3. ~torn[r] => DirectionalChange(ray[r].cell, face[r], ray[r].direction) < 0
        BY <1>2 DEF RaysInside, IsInside, LeavesThrough
      <4>4. ~torn[r] => DirectionalChange(ray[r].cell, face[r], d) > 0
        BY <4>1, <4>2, <4>3, MirrorTurns
      <4>5. pc'[r] \in Depositing
        BY <2>2 DEF Depositing
      <4> QED
        BY <1>2, <2>4, <2>5, <2>6, <3>3, <4>1, <4>4, <4>5
    <3> QED
      BY <3>2, <3>3
  <2>9. Alone'
    <3>1. SUFFICES ASSUME NEW q \in Rays
                   PROVE  /\ torn'[q] => q = Min(Rays) /\ pass' # 0 /\ policy' = "store"
                          /\ pass' = 0 => sigmaIndex'[q] = q
                          /\ pass' # 0 /\ q # Min(Rays) => pc'[q] = "ended" /\ ~Deposited(q)'
      BY DEF Alone
    <3>2. pass # 0 => r = Min(Rays)
      BY <1>1, <1>2 DEF Alone
    <3>3. torn'[q] => q = Min(Rays) /\ pass' # 0 /\ policy' = "store"
      BY <1>1, <1>2 DEF Alone
    <3>4. pass' = 0 => sigmaIndex'[q] = q
      BY <1>1, <1>2 DEF Alone
    <3>5. pass' # 0 /\ q # Min(Rays) => pc'[q] = "ended" /\ ~Deposited(q)'
      BY <1>1, <1>2, <2>2, <2>7, <3>2 DEF Alone
    <3> QED
      BY <3>3, <3>4, <3>5
  <2>10. SlotsInTurn'
    BY <1>1, <2>2, <2>6, <2>7, TurnsStay
  <2>11. FirstOnesCounted'
    <3>1. ~Counted(r)
      BY <1>4 DEF Counted
    <3>2. \A q \in Rays : Counted(q) =>
             Counted(q)' /\ FaceOfRay(q)' = FaceOfRay(q) /\ deposit'[q].seen = deposit[q].seen
      BY <2>2, <2>7, <3>1
    <3> QED
      BY <1>1, <1>2, <3>2, CountsStay
  <2>12. SlotsHold'
    <3>1. SUFFICES ASSUME NEW q \in Rays, Deposited(q)', deposit'[q].stored >= 4, NEW slot,
                          slot = reservoir'[FaceOfRay(q)'].slots[deposit'[q].slot]
                   PROVE  /\ deposit'[q].slot \in SlotIndices /\ slot.weight # 0
                          /\ deposit'[q].stored = 5 =>
                                \E p \in Rays : /\ Deposited(p)' /\ FaceOfRay(p)' = FaceOfRay(q)'
                                                /\ slot.sigma = deposit'[p].brings.sigma
      BY DEF SlotsHold, HasSigma
    <3>2. q # r /\ deposit'[q] = deposit[q] /\ Deposited(q) /\ FaceOfRay(q)' = FaceOfRay(q)
      BY <2>2, <2>7, <3>1
    <3>3. slot = reservoir[FaceOfRay(q)].slots[deposit[q].slot]
      BY <1>2, <3>1, <3>2
    <3>4. /\ deposit[q].slot \in SlotIndices /\ slot.weight # 0
          /\ deposit[q].stored = 5 => HasSigma(FaceOfRay(q), slot)
      BY <1>1, <3>1, <3>2, <3>3 DEF SlotsHold
    <3>5. HasSigma(FaceOfRay(q), slot) =>
             \E p \in Rays : /\ Deposited(p)' /\ FaceOfRay(p)' = FaceOfRay(q)'
                             /\ slot.sigma = deposit'[p].brings.sigma
      <4>1. \A p \in Rays : Deposited(p) => /\ p # r /\ Deposited(p)'
                                            /\ FaceOfRay(p)' = FaceOfRay(p)
                                            /\ deposit'[p] = deposit[p]
        BY <1>4, <2>2, <2>7
      <4> QED
        BY <3>2, <4>1 DEF HasSigma
    <3> QED
      BY <3>2, <3>4, <3>5
  <2> QED
    BY <2>8, <2>9, <2>10, <2>11, <2>12 DEF StoreInv
<1> QED
  BY <1>3, <1>5, <1>6

LEMMA CountStore ==
    ASSUME TypeInv, StoreInv, NEW r \in Rays, Count(r), OnlyMoves(r)
    PROVE  StoreInv'
<1>1. /\ RayTypes /\ Placed /\ StoreTypes
      /\ DepositsInside /\ SlotsInTurn /\ FirstOnesCounted /\ SlotsHold
  BY DEF TypeInv, StoreInv
<1>2. /\ pc[r] = "counting" /\ pc'[r] = "weighing"
      /\ UNCHANGED <<policy, pass, torn, ray, sigmaIndex, face>>
  BY <1>1 DEF Count, Goto, launchVars, RayTypes
<1>3. pc[r] \in Depositing /\ pc'[r] \in Depositing \cup {"ended"}
  BY <1>2 DEF Depositing
<1>4. PICK id : id = FaceOfRay(r)
  OBVIOUS
<1>5. /\ policy = "store" /\ id \in BoundaryFaces
      /\ deposit' = [deposit EXCEPT ![r] =
            [brings |-> deposit[r].brings, seen |-> reservoir[id].count,
             slot |-> deposit[r].slot, stored |-> deposit[r].stored]]
      /\ reservoir' = [reservoir EXCEPT ![id] =
            [count |-> reservoir[id].count + 1, faceWeight |-> reservoir[id].faceWeight,
             slots |-> reservoir[id].slots]]
  BY <1>4, CountIs
<1>6. /\ deposit'[r].brings = deposit[r].brings /\ deposit'[r].seen = reservoir[id].count
      /\ deposit'[r].stored = deposit[r].stored
      /\ \A q \in Rays : q # r => deposit'[q] = deposit[q]
  BY <1>1, <1>5 DEF StoreTypes
<1>7. /\ reservoir'[id].count = reservoir[id].count + 1
      /\ \A b \in BoundaryFaces : /\ reservoir'[b].slots = reservoir[b].slots
                                  /\ b # id => reservoir'[b] = reservoir[b]
  BY <1>1, <1>5 DEF StoreTypes
<1>8. /\ DepositsInside' /\ Alone' /\ Deposited(r)
      /\ \A q \in Rays : /\ Deposited(q)' <=> Deposited(q)
                         /\ deposit'[q].brings = deposit[q].brings
                         /\ FaceOfRay(q)' = FaceOfRay(q)
                         /\ q # r => pc'[q] = pc[q]
  BY <1>2, <1>3, <1>6, DepositsStay
<1>9. deposit'[r].stored = 0
  BY <1>1, <1>2, <1>6 DEF StoreTypes
<1>10. SlotsHold'
  BY <1>1, <1>6, <1>7, <1>8, <1>9, SlotsStay
<1>11. SlotsInTurn'
  BY <1>1, <1>2, <1>6, <1>8, TurnsStay
<1>12. FirstOnesCounted'
  <2>1. SUFFICES ASSUME NEW b \in BoundaryFaces, NEW i \in SlotIndices, i < reservoir'[b].count
                 PROVE  \E q \in Rays : Counted(q)' /\ FaceOfRay(q)' = b /\ deposit'[q].seen = i
    BY DEF FirstOnesCounted
  <2>2. CASE b = id /\ i = reservoir[id].count
    <3>1. Counted(r)'
      BY <1>2, <1>8 DEF Counted
    <3> QED
      BY <1>4, <1>6, <1>8, <2>2, <3>1
  <2>3. CASE ~(b = id /\ i = reservoir[id].count)
    <3>1. i < reservoir[b].count
      <4>1. reservoir[id].count \in Nat /\ i \in Int
        <5>1. reservoir[id].count \in Nat
          BY <1>1, <1>5, ReservoirIs
        <5>2. i \in Int
          BY DEF SlotIndices
        <5> QED
          BY <5>1, <5>2
      <4>2. CASE b = id
        <5>1. i < reservoir[id].count + 1 /\ i # reservoir[id].count
          BY <1>7, <2>1, <2>3, <4>2
        <5>2. i < reservoir[id].count
          BY <4>1, <5>1
        <5> QED
          BY <4>2, <5>2
      <4>3. CASE b # id
        <5>1. reservoir'[b] = reservoir[b]
          BY <1>7, <4>3
        <5> QED
          BY <2>1, <5>1
      <4> QED
        BY <4>2, <4>3
    <3>2. PICK q \in Rays : Counted(q) /\ FaceOfRay(q) = b /\ deposit[q].seen = i
      BY <1>1, <1>5, <3>1 DEF FirstOnesCounted
    <3>3. q # r /\ Deposited(q) /\ pc[q] # "counting"
      BY <1>2, <3>2 DEF Counted
    <3>4. Counted(q)'
      BY <1>8, <3>3 DEF Counted
    <3> QED
      BY <1>6, <1>8, <3>2, <3>3, <3>4
  <2> QED
    BY <2>2, <2>3
<1> QED
  BY <1>8, <1>10, <1>11, <1>12 DEF StoreInv

LEMMA WeighStore ==
    ASSUME TypeInv, StoreInv, NEW r \in Rays, Weigh(r), OnlyMoves(r)
    PROVE  StoreInv'
<1>1. /\ RayTypes /\ Placed /\ StoreTypes
      /\ DepositsInside /\ SlotsInTurn /\ FirstOnesCounted /\ SlotsHold
  BY DEF TypeInv, StoreInv
<1>2. /\ pc[r] = "weighing"
      /\ UNCHANGED <<policy, pass, torn, ray, sigmaIndex, face>>
  BY DEF Weigh, launchVars
<1>3. PICK id : id = FaceOfRay(r)
  OBVIOUS
<1>4. /\ policy = "store" /\ id \in BoundaryFaces
      /\ reservoir' = [reservoir EXCEPT ![id] =
            [count |-> reservoir[id].count,
             faceWeight |-> reservoir[id].faceWeight + deposit[r].brings.weight,
             slots |-> reservoir[id].slots]]
      /\ \/ /\ pc' = [pc EXCEPT ![r] = "ended"] /\ deposit' = deposit
         \/ /\ pc' = [pc EXCEPT ![r] = "storing"]
            /\ \E slot \in SlotIndices :
                  /\ deposit[r].seen < SlotsPerFace => slot = deposit[r].seen
                  /\ deposit' = [deposit EXCEPT ![r] =
                        [brings |-> deposit[r].brings, seen |-> deposit[r].seen,
                         slot |-> slot, stored |-> deposit[r].stored]]
  BY <1>3, WeighIs
<1>5. \A b \in BoundaryFaces : /\ reservoir'[b].slots = reservoir[b].slots
                               /\ reservoir'[b].count = reservoir[b].count
  BY <1>1, <1>4 DEF StoreTypes
\* The first ones are never turned away.
<1>6. deposit[r].seen < SlotsPerFace => pc' = [pc EXCEPT ![r] = "storing"]
  BY DEF Weigh, FirstIn, Goto
<1>7. /\ pc'[r] \in {"storing", "ended"}
      /\ deposit'[r].brings = deposit[r].brings /\ deposit'[r].seen = deposit[r].seen
      /\ deposit'[r].stored = deposit[r].stored
      /\ \A q \in Rays : q # r => deposit'[q] = deposit[q]
      /\ deposit[r].seen < SlotsPerFace =>
            pc'[r] = "storing" /\ deposit'[r].slot = deposit[r].seen
  <2>1. CASE pc' = [pc EXCEPT ![r] = "ended"] /\ deposit' = deposit
    <3>1. pc'[r] = "ended"
      BY <1>1, <2>1 DEF RayTypes
    <3>2. ~(deposit[r].seen < SlotsPerFace)
      <4>1. deposit[r].seen < SlotsPerFace => pc'[r] = "storing"
        BY <1>1, <1>6 DEF RayTypes
      <4> QED
        BY <3>1, <4>1
    <3> QED
      BY <2>1, <3>1, <3>2
  <2>2. CASE /\ pc' = [pc EXCEPT ![r] = "storing"]
             /\ \E slot \in SlotIndices :
                  /\ deposit[r].seen < SlotsPerFace => slot = deposit[r].seen
                  /\ deposit' = [deposit EXCEPT ![r] =
                        [brings |-> deposit[r].brings, seen |-> deposit[r].seen,
                         slot |-> slot, stored |-> deposit[r].stored]]
    <3>1. pc'[r] = "storing"
      BY <1>1, <2>2 DEF RayTypes
    <3>2. PICK slot \in SlotIndices :
                  /\ deposit[r].seen < SlotsPerFace => slot = deposit[r].seen
                  /\ deposit' = [deposit EXCEPT ![r] =
                        [brings |-> deposit[r].brings, seen |-> deposit[r].seen,
                         slot |-> slot, stored |-> deposit[r].stored]]
      BY <2>2
    <3>3. /\ deposit'[r] = [brings |-> deposit[r].brings, seen |-> deposit[r].seen,
                            slot |-> slot, stored |-> deposit[r].stored]
          /\ \A q \in Rays : q # r => deposit'[q] = deposit[q]
      BY <1>1, <3>2 DEF StoreTypes
    <3> QED
      BY <3>1, <3>2, <3>3
  <2> QED
    BY <1>4, <2>1, <2>2
<1>8. pc[r] \in Depositing /\ pc'[r] \in Depositing \cup {"ended"}
  BY <1>2, <1>7 DEF Depositing
<1>9. /\ DepositsInside' /\ Alone' /\ Deposited(r)
      /\ \A q \in Rays : /\ Deposited(q)' <=> Deposited(q)
                         /\ deposit'[q].brings = deposit[q].brings
                         /\ FaceOfRay(q)' = FaceOfRay(q)
                         /\ q # r => pc'[q] = pc[q]
  BY <1>2, <1>7, <1>8, DepositsStay
<1>10. deposit'[r].stored = 0
  BY <1>1, <1>2, <1>7 DEF StoreTypes
<1>11. SlotsHold'
  BY <1>1, <1>5, <1>7, <1>9, <1>10, SlotsStay
<1>12. SlotsInTurn'
  <2>1. pc'[r] \in {"storing", "ended"} /\ deposit'[r].seen < SlotsPerFace =>
           /\ deposit'[r].slot = deposit'[r].seen
           /\ pc'[r] = "ended" => deposit'[r].stored = 5
    BY <1>7
  <2>2. \A q \in Rays : Deposited(q)' <=> Deposited(q) \/ q = r
    BY <1>9
  <2> QED
    BY <1>1, <1>7, <2>1, <2>2, TurnsStay
<1>13. FirstOnesCounted'
  <2>1. \A q \in Rays : Counted(q) =>
           Counted(q)' /\ FaceOfRay(q)' = FaceOfRay(q) /\ deposit'[q].seen = deposit[q].seen
    <3>1. \A q \in Rays : deposit'[q].seen = deposit[q].seen
      BY <1>7
    <3>2. \A q \in Rays : pc[q] # "counting" => pc'[q] # "counting"
      BY <1>7, <1>9
    <3> QED
      BY <1>9, <3>1, <3>2 DEF Counted
  <2> QED
    BY <1>1, <1>2, <1>5, <2>1, CountsStay
<1> QED
  BY <1>9, <1>11, <1>12, <1>13 DEF StoreInv

LEMMA StoreFieldStore ==
    ASSUME TypeInv, StoreInv, NEW r \in Rays, StoreField(r), OnlyMoves(r)
    PROVE  StoreInv'
<1>1. /\ RayTypes /\ Placed /\ StoreTypes
      /\ DepositsInside /\ SlotsInTurn /\ FirstOnesCounted /\ SlotsHold
  BY DEF TypeInv, StoreInv
<1>2. UNCHANGED <<policy, pass, torn, ray, sigmaIndex, face>>
  BY DEF StoreField, launchVars
<1>3. PICK id, i, k : id = FaceOfRay(r) /\ i = deposit[r].slot /\ k = deposit[r].stored + 1
  OBVIOUS
<1>4. PICK brings : brings = deposit[r].brings
  OBVIOUS
<1> DEFINE filled == Stored(reservoir[id].slots[i], brings, k)
<1>5. /\ policy = "store" /\ id \in BoundaryFaces /\ i \in SlotIndices /\ k \in 1 .. 5
      /\ pc[r] = "storing" /\ pc' = [pc EXCEPT ![r] = IF k = 5 THEN "ended" ELSE "storing"]
      /\ deposit' = [deposit EXCEPT ![r] =
            [brings |-> brings, seen |-> deposit[r].seen, slot |-> deposit[r].slot, stored |-> k]]
      /\ reservoir' = [reservoir EXCEPT ![id] =
            [count |-> reservoir[id].count, faceWeight |-> reservoir[id].faceWeight,
             slots |-> [reservoir[id].slots EXCEPT ![i] = filled]]]
  BY <1>3, <1>4, StoreFieldIs
<1>6. /\ pc'[r] = (IF k = 5 THEN "ended" ELSE "storing")
      /\ deposit'[r].brings = brings /\ deposit'[r].seen = deposit[r].seen
      /\ deposit'[r].slot = i /\ deposit'[r].stored = k
      /\ \A q \in Rays : q # r => deposit'[q] = deposit[q]
  BY <1>1, <1>3, <1>5 DEF StoreTypes, RayTypes
<1>7. /\ filled.weight = (IF k = 4 THEN brings.weight ELSE reservoir[id].slots[i].weight)
      /\ filled.sigma = (IF k = 5 THEN brings.sigma ELSE reservoir[id].slots[i].sigma)
  BY DEF Stored
<1> HIDE DEF filled
<1>8. /\ \A b \in BoundaryFaces : /\ reservoir'[b].count = reservoir[b].count
                                  /\ b # id => reservoir'[b] = reservoir[b]
      /\ reservoir'[id].slots[i] = filled
      /\ \A j \in SlotIndices : j # i => reservoir'[id].slots[j] = reservoir[id].slots[j]
  <2>1. reservoir \in [BoundaryFaces -> FaceReservoirs] /\ reservoir[id].slots \in [SlotIndices -> Slots]
    BY <1>1, <1>5, ReservoirIs DEF StoreTypes
  <2>2. reservoir'[id] = [count |-> reservoir[id].count, faceWeight |-> reservoir[id].faceWeight,
                          slots |-> [reservoir[id].slots EXCEPT ![i] = filled]]
        /\ \A b \in BoundaryFaces : b # id => reservoir'[b] = reservoir[b]
    BY <1>5, <2>1
  <2>3. reservoir'[id].slots = [reservoir[id].slots EXCEPT ![i] = filled]
        /\ reservoir'[id].count = reservoir[id].count
    BY <2>2
  <2> QED
    BY <1>5, <2>1, <2>2, <2>3
<1>9. pc[r] \in Depositing /\ pc'[r] \in Depositing \cup {"ended"}
  BY <1>5, <1>6 DEF Depositing
<1>10. /\ DepositsInside' /\ Alone' /\ Deposited(r)
       /\ \A q \in Rays : /\ Deposited(q)' <=> Deposited(q)
                          /\ deposit'[q].brings = deposit[q].brings
                          /\ FaceOfRay(q)' = FaceOfRay(q)
                          /\ q # r => pc'[q] = pc[q]
  BY <1>2, <1>4, <1>6, <1>9, DepositsStay
<1>11. SlotsInTurn'
  <2>1. pc'[r] \in {"storing", "ended"} /\ deposit'[r].seen < SlotsPerFace =>
           /\ deposit'[r].slot = deposit'[r].seen
           /\ pc'[r] = "ended" => deposit'[r].stored = 5
    <3>1. deposit[r].seen < SlotsPerFace => deposit[r].slot = deposit[r].seen
      BY <1>1, <1>5, <1>10 DEF SlotsInTurn
    <3> QED
      BY <1>3, <1>6, <3>1
  <2>2. \A q \in Rays : Deposited(q)' <=> Deposited(q) \/ q = r
    BY <1>10
  <2> QED
    BY <1>1, <1>6, <2>1, <2>2, TurnsStay
<1>12. FirstOnesCounted'
  <2>1. \A q \in Rays : Counted(q) =>
           Counted(q)' /\ FaceOfRay(q)' = FaceOfRay(q) /\ deposit'[q].seen = deposit[q].seen
    <3>1. \A q \in Rays : deposit'[q].seen = deposit[q].seen
      BY <1>6
    <3>2. \A q \in Rays : pc[q] # "counting" => pc'[q] # "counting"
      BY <1>6, <1>10
    <3> QED
      BY <1>10, <3>1, <3>2 DEF Counted
  <2> QED
    BY <1>1, <1>2, <1>8, <2>1, CountsStay
<1>13. SlotsHold'
  <2>1. SUFFICES ASSUME NEW q \in Rays, Deposited(q)', deposit'[q].stored >= 4,
                        NEW slot, slot = reservoir'[FaceOfRay(q)'].slots[deposit'[q].slot]
                 PROVE  /\ deposit'[q].slot \in SlotIndices /\ slot.weight # 0
                        /\ deposit'[q].stored = 5 =>
                              \E p \in Rays : /\ Deposited(p)' /\ FaceOfRay(p)' = FaceOfRay(q)'
                                              /\ slot.sigma = deposit'[p].brings.sigma
    BY DEF SlotsHold, HasSigma
  <2>2. PICK b, j : b = FaceOfRay(q) /\ j = deposit'[q].slot
    OBVIOUS
  <2>3. Deposited(q) /\ FaceOfRay(q)' = b /\ b \in BoundaryFaces
    BY <1>1, <1>10, <2>1, <2>2, DepositedAt
  <2>4. PICK old : old = reservoir[b].slots[j]
    OBVIOUS
\* What the ray's slot held before, if the ray had filled it that far.
  <2>5. deposit[q].stored >= 4 => /\ deposit[q].slot \in SlotIndices
                                  /\ deposit[q].slot = j => old.weight # 0
                                  /\ deposit[q].stored = 5 /\ deposit[q].slot = j => HasSigma(b, old)
    BY <1>1, <2>2, <2>3, <2>4 DEF SlotsHold
  <2>6. deposit[q].slot = j
    BY <1>3, <1>6, <2>2
  <2>7. \A t : HasSigma(b, t) => \E p \in Rays : /\ Deposited(p)' /\ FaceOfRay(p)' = FaceOfRay(q)'
                                                 /\ t.sigma = deposit'[p].brings.sigma
    BY <1>10, <2>3 DEF HasSigma
  <2>8. brings.weight # 0
    BY <1>4, <1>10 DEF Deposited
  <2>9. b = id => HasSigma(b, brings)
    BY <1>3, <1>4, <1>10 DEF HasSigma
  <2>10. j \in SlotIndices
    <3>1. q = r => j = i
      BY <1>6, <2>2
    <3>2. q # r => deposit[q].stored >= 4
      BY <1>6, <2>1
    <3> QED
      BY <1>5, <2>5, <2>6, <3>1, <3>2
  <2>11. slot = reservoir'[b].slots[j]
    BY <2>1, <2>2, <2>3
  <2>12. CASE b = id /\ j = i
    <3>1. slot = filled /\ old = reservoir[id].slots[i]
      BY <1>8, <2>4, <2>11, <2>12
    <3>2. slot.weight = (IF k = 4 THEN brings.weight ELSE old.weight)
          /\ slot.sigma = (IF k = 5 THEN brings.sigma ELSE old.sigma)
      BY <1>7, <3>1
    <3>3. k # 4 => deposit[q].stored >= 4
      <4>1. CASE q = r
        <5>1. k >= 4 /\ deposit[r].stored \in 0 .. 5
          BY <1>1, <1>6, <2>1, <4>1, DepositIs
        <5> QED
          BY <1>3, <1>5, <4>1, <5>1
      <4>2. CASE q # r
        BY <1>6, <2>1, <4>2
      <4> QED
        BY <4>1, <4>2
    <3>4. slot.weight # 0
      BY <2>5, <2>6, <2>8, <3>2, <3>3
    <3>5. ASSUME deposit'[q].stored = 5 PROVE HasSigma(b, slot)
      <4>1. CASE k = 5
        BY <2>9, <2>12, <3>2, <4>1 DEF HasSigma
      <4>2. CASE k # 5
        <5>1. q # r
          BY <1>6, <3>5, <4>2
        <5>2. HasSigma(b, old)
          BY <1>6, <2>5, <2>6, <3>5, <5>1
        <5> QED
          BY <3>2, <4>2, <5>2 DEF HasSigma
      <4> QED
        BY <4>1, <4>2
    <3> QED
      BY <2>2, <2>7, <2>10, <3>4, <3>5
  <2>13. CASE ~(b = id /\ j = i)
    <3>1. slot = old
      BY <1>8, <2>3, <2>4, <2>10, <2>11, <2>13
    <3>2. q # r
      BY <1>3, <1>6, <2>2, <2>13
    <3>3. deposit[q] = deposit'[q]
      BY <1>6, <3>2
    <3>4. slot.weight # 0 /\ (deposit'[q].stored = 5 => HasSigma(b, slot))
      BY <2>1, <2>5, <2>6, <3>1, <3>3
    <3> QED
      BY <2>2, <2>7, <2>10, <3>4
  <2> QED
    BY <2>12, <2>13
<1> QED
  BY <1>10, <1>11, <1>12, <1>13 DEF StoreInv

-----------------------------------------------------------------------------
(* The kernels, and the whole invariant.                                   *)

InsideInv == TypeInv /\ RaysInside /\ CacheInside /\ StoreInv

LEMMA StartIsInside ==
    ASSUME LaunchTypes, NEW r \in Rays
    PROVE  WalksFrom(start[r].cell, start[r].position, start[r].direction, start[r].forbiddenFace)
<1>1. start[r] \in StartsOf[policy] /\ policy \in Policies
  BY DEF LaunchTypes
<1> QED
  BY <1>1, StartsAssumption DEF WalksFrom

\* What Launch does: one ray walks, none has booked anything.
LEMMA LaunchIs ==
    ASSUME NEW starts, Launch(starts)
    PROVE  /\ ray' = starts
           /\ \A r \in Rays : /\ pc'[r] = IF r = Min(Rays) THEN "walking" ELSE "ended"
                              /\ segment'[r] = NoSegment
  BY DEF Launch

LEMMA NextStageInside ==
    ASSUME InsideInv, NextStage
    PROVE  RaysInside' /\ CacheInside' /\ StoreInv'
<1>1. /\ TypeInv /\ LaunchTypes /\ RayTypes /\ RaysInside /\ CacheInside
      /\ DepositsInside /\ Alone
  BY DEF InsideInv, StoreInv, TypeInv
<1>2. /\ policy \in {"relay", "reflect"} /\ pass' = pass + 1 /\ Launch(start)
      /\ UNCHANGED <<policy, relays, start, sigmaIndex, torn, reservoir, deposit, cache>>
  BY DEF NextStage, launchVars
<1>3. policy # "store" /\ pass \in Nat
  BY <1>1, <1>2 DEF TypeInv
<1>4. /\ ray' = start
      /\ \A r \in Rays : /\ pc'[r] = IF r = Min(Rays) THEN "walking" ELSE "ended"
                         /\ segment'[r] = NoSegment
  BY <1>2, LaunchIs
<1>5. RaysInside'
  <2>1. SUFFICES ASSUME NEW r \in Rays PROVE IsInside(pc'[r], ray'[r], face'[r], segment'[r])
    BY DEF RaysInside
  <2>2. WalksFrom(ray'[r].cell, ray'[r].position, ray'[r].direction, ray'[r].forbiddenFace)
    BY <1>1, <1>4, StartIsInside
  <2>3. pc'[r] # "atBoundary" /\ segment'[r] = NoSegment
    BY <1>4
  <2> QED
    BY <2>2, <2>3 DEF IsInside
<1>6. CacheInside'
  BY <1>1, <1>2 DEF CacheInside
<1>7. \A r \in Rays : ~Deposited(r)' /\ ~Deposited(r) /\ ~torn[r] /\ pc'[r] \notin Depositing
  <2>1. SUFFICES ASSUME NEW r \in Rays
                 PROVE  ~Deposited(r)' /\ ~Deposited(r) /\ ~torn[r] /\ pc'[r] \notin Depositing
    OBVIOUS
  <2>2. ~Deposited(r) /\ ~torn[r]
    BY <1>1, <1>3 DEF DepositsInside, Alone
  <2>3. pc'[r] \notin Depositing
    BY <1>4 DEF Depositing
  <2> QED
    BY <1>2, <2>2, <2>3 DEF Deposited
<1>8. DepositsInside' /\ SlotsInTurn' /\ FirstOnesCounted' /\ SlotsHold'
  <2>1. DepositsInside'
    BY <1>7 DEF DepositsInside
  <2>2. SlotsInTurn' /\ SlotsHold'
    BY <1>7 DEF SlotsInTurn, SlotsHold
  <2>3. FirstOnesCounted'
    BY <1>2, <1>3 DEF FirstOnesCounted
  <2> QED
    BY <2>1, <2>2, <2>3
<1>9. Alone'
  <2>1. pass' # 0
    BY <1>2, <1>3
  <2> QED
    BY <1>2, <1>4, <1>7, <2>1 DEF Alone
<1> QED
  BY <1>5, <1>6, <1>8, <1>9 DEF StoreInv

\* What slot i of face id holds came from one ray of the pass, if it is whole: the
\* ray that has its bin is at this face.
LEMMA WholeSlotPointsInside ==
    ASSUME InsideInv, policy = "store", KernelEnded, NEW id \in BoundaryFaces, NEW i \in SlotIndices,
           i < reservoir[id].count, NEW slot, slot = reservoir[id].slots[i],
           NEW q \in Rays, slot = deposit[q].brings, ~torn[Min(Rays)]
    PROVE  DirectionalChange(CellOf(id), FaceOf(id), <<slot.x, slot.y, slot.z>>) > 0
<1>1. /\ TypeInv /\ RayTypes /\ DepositsInside /\ Alone /\ SlotsInTurn
      /\ FirstOnesCounted /\ SlotsHold
  BY DEF InsideInv, StoreInv, TypeInv
<1>2. PICK w \in Rays : Counted(w) /\ FaceOfRay(w) = id /\ deposit[w].seen = i
  BY <1>1 DEF FirstOnesCounted
<1>3. Deposited(w) /\ pc[w] = "ended"
  <2>1. Deposited(w) /\ pc[w] \in Depositing \cup {"ended"}
    BY <1>1, <1>2, DepositedAt DEF Counted
  <2>2. pc[w] \in {"ended", "failed"}
    BY DEF KernelEnded
  <2> QED
    BY <2>1, <2>2 DEF Depositing
<1>4. deposit[w].slot = i /\ deposit[w].stored = 5
  <2>1. i < SlotsPerFace
    BY BoundsAre DEF SlotIndices
  <2> QED
    BY <1>1, <1>2, <1>3, <2>1 DEF SlotsInTurn
<1>5. slot.weight # 0 /\ HasSigma(id, slot)
  <2>1. Deposited(w) /\ deposit[w].stored >= 4
    BY <1>3, <1>4
  <2>2. /\ reservoir[FaceOfRay(w)].slots[deposit[w].slot].weight # 0
        /\ HasSigma(FaceOfRay(w), reservoir[FaceOfRay(w)].slots[deposit[w].slot])
    BY <1>1, <1>4, <2>1, Zenon DEF SlotsHold
  <2>3. reservoir[FaceOfRay(w)].slots[deposit[w].slot] = slot
    BY <1>2, <1>4
  <2> QED
    BY <1>2, <2>2, <2>3
<1>6. PICK p \in Rays : Deposited(p) /\ FaceOfRay(p) = id /\ slot.sigma = deposit[p].brings.sigma
  BY <1>5 DEF HasSigma
<1>7. Deposited(q)
  BY <1>5 DEF Deposited
<1>8. sigmaIndex[q] = sigmaIndex[p]
  BY <1>1, <1>6, <1>7 DEF DepositsInside
<1>9. q = p
  <2>1. CASE pass = 0
    BY <1>1, <1>8, <2>1 DEF Alone
  <2>2. CASE pass # 0
    BY <1>1, <1>6, <1>7, <2>2 DEF Alone
  <2> QED
    BY <2>1, <2>2
<1>10. ~torn[q]
  BY <1>1 DEF Alone
<1>11. CellOf(id) = ray[q].cell /\ FaceOf(id) = face[q]
  BY <1>1, <1>6, <1>7, <1>9, DepositedAt
<1> QED
  BY <1>1, <1>7, <1>10, <1>11 DEF DepositsInside, BringsOf

LEMMA NextReflectedPassInside ==
    ASSUME InsideInv, NextReflectedPass, RayTypes'
    PROVE  RaysInside' /\ CacheInside' /\ StoreInv'
<1>1. /\ TypeInv /\ RayTypes /\ RaysInside /\ CacheInside /\ DepositsInside /\ Alone
      /\ LaunchTypes
  BY DEF InsideInv, StoreInv, TypeInv
<1>2. PICK id \in BoundaryFaces, i \in SlotIndices :
         LET slot == reservoir[id].slots[i]
             from == FromFace(id, FaceCentroid(CellOf(id), FaceOf(id)),
                              <<slot.x, slot.y, slot.z>>)
         IN  /\ slot \in Slots /\ from \in States
             /\ reservoir[id].faceWeight > 0 /\ i < reservoir[id].count
             /\ Launch([ray EXCEPT ![Min(Rays)] = from])
             /\ sigmaIndex' = [sigmaIndex EXCEPT ![Min(Rays)] = slot.sigma]
             /\ torn' = [torn EXCEPT ![Min(Rays)] =
                            @ \/ slot \notin {deposit[r].brings : r \in Rays}]
  BY <1>1, NextReflectedPassIs
<1>3. PICK slot : slot = reservoir[id].slots[i]
  OBVIOUS
<1>4. PICK direction : direction = <<slot.x, slot.y, slot.z>>
  OBVIOUS
<1>5. PICK from : from = FromFace(id, FaceCentroid(CellOf(id), FaceOf(id)), direction)
  OBVIOUS
<1>6. /\ slot \in Slots /\ i < reservoir[id].count
      /\ Launch([ray EXCEPT ![Min(Rays)] = from])
      /\ torn' = [torn EXCEPT ![Min(Rays)] =
                    torn[Min(Rays)] \/ slot \notin {deposit[r].brings : r \in Rays}]
  BY <1>2, <1>3, <1>4, <1>5
<1>7. /\ policy = "store" /\ KernelEnded /\ pass' = pass + 1 /\ reservoir' = EmptyReservoir
      /\ deposit' = [r \in Rays |-> NoDeposit]
      /\ UNCHANGED <<policy, relays, start, cache>>
  BY DEF NextReflectedPass, launchVars
<1>8. pass \in Nat /\ pass' # 0
  BY <1>1, <1>7 DEF TypeInv
<1>9. /\ ray' = [ray EXCEPT ![Min(Rays)] = from]
      /\ \A r \in Rays : /\ pc'[r] = IF r = Min(Rays) THEN "walking" ELSE "ended"
                         /\ segment'[r] = NoSegment
  BY <1>6, LaunchIs
<1>10. direction \in Vectors
  BY <1>4, <1>6 DEF Slots, Vectors
<1>11. ASSUME Min(Rays) \in Rays, ~torn'[Min(Rays)]
       PROVE  WalksFrom(from.cell, from.position, from.direction, from.forbiddenFace)
  <2>1. ~torn[Min(Rays)] /\ slot \in {deposit[r].brings : r \in Rays}
    BY <1>1, <1>6, <1>11 DEF RayTypes
  <2>2. PICK q \in Rays : slot = deposit[q].brings
    BY <2>1
  <2>3. DirectionalChange(CellOf(id), FaceOf(id), direction) > 0
    BY <1>3, <1>4, <1>6, <1>7, <2>1, <2>2, WholeSlotPointsInside
  <2>4. CellOf(id) \in Cells /\ FaceOf(id) \in Faces
    BY BoundaryFaceIs
  <2>5. DirectionalChange(CellOf(id), FaceOf(id), direction) >= 0
    BY <1>10, <2>3, <2>4, CoordinateTypes
  <2>6. InCell(CellOf(id), FaceCentroid(CellOf(id), FaceOf(id)))
    BY <2>4, CentroidIsInside
  <2> QED
    BY <1>5, <1>10, <2>5, <2>6, StartsInside
<1>12. RaysInside'
  <2>1. SUFFICES ASSUME NEW r \in Rays, ~torn'[r]
                 PROVE  IsInside(pc'[r], ray'[r], face'[r], segment'[r])
    BY DEF RaysInside
  <2>2. pc'[r] # "atBoundary" /\ segment'[r] = NoSegment
    BY <1>9
  <2>3. CASE r = Min(Rays)
    <3>1. ray'[r] = from
      BY <1>1, <1>9, <2>3 DEF RayTypes
    <3>2. WalksFrom(from.cell, from.position, from.direction, from.forbiddenFace)
      BY <1>11, <2>1, <2>3
    <3> QED
      BY <2>2, <3>1, <3>2 DEF IsInside
  <2>4. CASE r # Min(Rays)
    BY <1>9, <2>2, <2>4 DEF IsInside
  <2> QED
    BY <2>3, <2>4
<1>13. CacheInside'
  BY <1>1, <1>7 DEF CacheInside
<1>14. \A r \in Rays : ~Deposited(r)' /\ pc'[r] \notin Depositing
  BY <1>7, <1>9 DEF Deposited, NoDeposit, EmptySlot, Depositing
<1>15. DepositsInside' /\ SlotsInTurn' /\ SlotsHold'
  <2>1. DepositsInside'
    BY <1>14 DEF DepositsInside
  <2>2. SlotsInTurn' /\ SlotsHold'
    BY <1>14 DEF SlotsInTurn, SlotsHold
  <2> QED
    BY <2>1, <2>2
<1>16. FirstOnesCounted'
  <2>1. SUFFICES ASSUME NEW b \in BoundaryFaces, NEW j \in SlotIndices, j < reservoir'[b].count
                 PROVE  FALSE
    BY DEF FirstOnesCounted
  <2>2. reservoir'[b].count = 0
    BY <1>7 DEF EmptyReservoir
  <2>3. j >= 0 /\ j \in Int
    BY DEF SlotIndices
  <2> QED
    BY <2>1, <2>2, <2>3
<1>17. Alone'
  <2>1. SUFFICES ASSUME NEW r \in Rays
                 PROVE  /\ torn'[r] => r = Min(Rays) /\ policy' = "store"
                        /\ r # Min(Rays) => pc'[r] = "ended" /\ ~Deposited(r)'
    BY <1>8 DEF Alone
  <2>2. torn'[r] => r = Min(Rays)
    BY <1>1, <1>6 DEF Alone, RayTypes
  <2> QED
    BY <1>7, <1>9, <1>14, <2>2
<1> QED
  BY <1>12, <1>13, <1>15, <1>16, <1>17 DEF StoreInv

LEMMA InitInside == Init => InsideInv
<1> SUFFICES ASSUME Init PROVE InsideInv
  OBVIOUS
<1>1. TypeInv
  BY InitTypes
<1>2. LaunchTypes
  BY <1>1 DEF TypeInv
<1>3. /\ ray = start /\ pass = 0 /\ deposit = [r \in Rays |-> NoDeposit]
      /\ pc = [r \in Rays |-> IF Active(r) THEN "walking" ELSE "ended"]
      /\ sigmaIndex = [r \in Rays |-> r] /\ torn = [r \in Rays |-> FALSE]
      /\ segment = [r \in Rays |-> NoSegment]
      /\ reservoir = (IF policy = "store" THEN EmptyReservoir ELSE <<>>)
      /\ cache = [i \in 1 .. Len(relays) |-> Unknown]
  BY DEF Init
<1>4. RaysInside
  <2>1. SUFFICES ASSUME NEW r \in Rays PROVE IsInside(pc[r], ray[r], face[r], segment[r])
    BY DEF RaysInside
  <2>2. WalksFrom(ray[r].cell, ray[r].position, ray[r].direction, ray[r].forbiddenFace)
    BY <1>2, <1>3, StartIsInside
  <2>3. pc[r] # "atBoundary" /\ segment[r] = NoSegment
    BY <1>3
  <2> QED
    BY <2>2, <2>3 DEF IsInside
<1>5. CacheInside
  <2>1. SUFFICES ASSUME NEW i \in 1 .. Len(relays), IsFound(cache[i]) PROVE FALSE
    BY DEF CacheInside
  <2>2. cache[i] = Unknown
    BY <1>3
  <2> QED
    BY <2>1, <2>2, EntriesDiffer DEF IsFound
<1>6. \A r \in Rays : ~Deposited(r) /\ pc[r] \notin Depositing /\ ~torn[r]
  BY <1>3 DEF Deposited, NoDeposit, EmptySlot, Depositing
<1>7. DepositsInside /\ SlotsInTurn /\ SlotsHold
  BY <1>6 DEF DepositsInside, SlotsInTurn, SlotsHold
<1>8. Alone
  BY <1>3, <1>6 DEF Alone
<1>9. FirstOnesCounted
  <2>1. SUFFICES ASSUME policy = "store", NEW b \in BoundaryFaces, NEW j \in SlotIndices,
                        j < reservoir[b].count
                 PROVE  FALSE
    BY DEF FirstOnesCounted
  <2>2. reservoir[b].count = 0
    BY <1>3, <2>1 DEF EmptyReservoir
  <2>3. j >= 0 /\ j \in Int
    BY DEF SlotIndices
  <2> QED
    BY <2>1, <2>2, <2>3
<1> QED
  BY <1>1, <1>4, <1>5, <1>7, <1>8, <1>9 DEF InsideInv, StoreInv

LEMMA RayStepInside ==
    ASSUME InsideInv, NEW r \in Rays, ~PassesOver(r), RayStep(r)
    PROVE  RaysInside' /\ CacheInside' /\ StoreInv'
<1>1. TypeInv /\ RaysInside /\ CacheInside /\ StoreInv /\ RayTypes
  BY DEF InsideInv, TypeInv
\* The steps of the walk: the cache is for those of the pump, the reservoirs stay.
<1>2. ASSUME NEW place, place \notin Depositing, pc'[r] = place, pc[r] \in {"walking", "atBoundary"},
             OnlyMoves(r), UNCHANGED <<policy, pass, torn, reservoir, deposit, sigmaIndex>>
      PROVE  StoreInv'
  BY <1>1, <1>2, WalkKeepsStore
<1>3. UNCHANGED <<policy, relays, cache>> => CacheInside'
  BY <1>1 DEF CacheInside
<1>4. CASE CrossCell(r)
  <2>1. RaysInside' /\ OnlyMoves(r)
    BY <1>1, <1>4, CrossCellInside
  <2>2. /\ pc[r] \in {"walking", "atBoundary"}
        /\ UNCHANGED <<policy, relays, pass, torn, reservoir, deposit, sigmaIndex, cache>>
    BY <1>4 DEF CrossCell, launchVars, sharedVars
  <2>3. \E place \in {"failed", "walking", "atBoundary"} : pc' = [pc EXCEPT ![r] = place]
    BY <1>4 DEF CrossCell, Follow, Goto
  <2>4. pc'[r] \notin Depositing
    BY <1>1, <2>3 DEF RayTypes, Depositing
  <2> QED
    BY <1>2, <1>3, <2>1, <2>2, <2>4
<1>5. CASE RecoverFace(r)
  <2>1. RaysInside' /\ OnlyMoves(r)
    BY <1>1, <1>5, RecoverFaceInside
  <2>2. /\ pc[r] \in {"walking", "atBoundary"}
        /\ UNCHANGED <<policy, relays, pass, torn, reservoir, deposit, sigmaIndex, cache>>
    BY <1>5 DEF RecoverFace, launchVars, sharedVars
  <2>3. \E place \in {"failed", "walking", "atBoundary"} : pc' = [pc EXCEPT ![r] = place]
    BY <1>5 DEF RecoverFace, Follow, Goto
  <2>4. pc'[r] \notin Depositing
    BY <1>1, <2>3 DEF RayTypes, Depositing
  <2> QED
    BY <1>2, <1>3, <2>1, <2>2, <2>4
<1>6. CASE Absorbed(r) \/ Escape(r) \/ PumpEnds(r)
  <2>1. RaysInside' /\ OnlyMoves(r)
    BY <1>1, <1>6, EndInside
  <2>2. /\ pc[r] \in {"walking", "atBoundary"} /\ pc' = [pc EXCEPT ![r] = "ended"]
        /\ UNCHANGED <<policy, relays, pass, torn, reservoir, deposit, sigmaIndex, cache>>
    BY <1>6 DEF Absorbed, Escape, PumpEnds, Goto, launchVars, sharedVars
  <2>3. pc'[r] \notin Depositing
    BY <1>1, <2>2 DEF RayTypes, Depositing
  <2> QED
    BY <1>2, <1>3, <2>1, <2>2, <2>3
<1>7. CASE Reflect(r) \/ Count(r) \/ Weigh(r) \/ StoreField(r)
  <2>1. RaysInside' /\ OnlyMoves(r)
    BY <1>1, <1>7, DepositStepInside
  <2>2. UNCHANGED <<policy, relays, cache>>
    BY <1>7 DEF Reflect, Count, Weigh, StoreField, launchVars
  <2>3. StoreInv'
    BY <1>1, <1>7, <2>1, ReflectStore, CountStore, WeighStore, StoreFieldStore
  <2> QED
    BY <1>3, <2>1, <2>2, <2>3
<1>8. CASE RelayRay(r) \/ ReflectRay(r)
  <2>1. policy # "store" /\ pc[r] = "atBoundary"
    BY <1>8 DEF RelayRay, ReflectRay
  <2>2. ~torn[r]
    BY <1>1, <2>1 DEF StoreInv, Alone
  <2>3. RaysInside' /\ CacheInside' /\ OnlyMoves(r)
    BY <1>1, <1>8, <2>2, RelayRayInside, ReflectRayInside
  <2>4. UNCHANGED <<policy, pass, torn, reservoir, deposit, sigmaIndex>>
    BY <1>8 DEF RelayRay, ReflectRay, launchVars
  <2>5. \E place \in {"ended", "failed", "walking"} : pc' = [pc EXCEPT ![r] = place]
    BY <1>8 DEF RelayRay, ReflectRay, Enter, GoOn, Goto
  <2>6. pc'[r] \notin Depositing
    BY <1>1, <2>5 DEF RayTypes, Depositing
  <2> QED
    BY <1>2, <2>1, <2>3, <2>4, <2>6
<1> QED
  BY <1>4, <1>5, <1>6, <1>7, <1>8 DEF RayStep

LEMMA NextInside ==
    InsideInv /\ (\A r \in Rays : ~PassesOver(r)) /\ [Next]_vars => InsideInv'
<1> SUFFICES ASSUME InsideInv, \A r \in Rays : ~PassesOver(r), [Next]_vars PROVE InsideInv'
  OBVIOUS
<1>1. TypeInv'
  BY NextTypes DEF InsideInv
<1>2. CASE UNCHANGED vars
  <2>1. UNCHANGED <<policy, relays, pc, ray, face, segment, pass, torn, reservoir, deposit, cache,
                    sigmaIndex>>
    BY <1>2 DEF vars, launchVars, rayVars, sharedVars
  <2>2. RaysInside' /\ CacheInside'
    BY <2>1 DEF InsideInv, RaysInside, CacheInside
  <2>3. DepositsInside' /\ Alone'
    BY <2>1 DEF InsideInv, StoreInv, DepositsInside, Alone, Deposited, BringsOf
  <2>4. SlotsInTurn' /\ FirstOnesCounted'
    BY <2>1 DEF InsideInv, StoreInv, SlotsInTurn, FirstOnesCounted, Counted, Deposited, FaceOfRay
  <2>5. SlotsHold'
    BY <2>1 DEF InsideInv, StoreInv, SlotsHold, HasSigma, Deposited, FaceOfRay
  <2> QED
    BY <1>1, <2>2, <2>3, <2>4, <2>5 DEF InsideInv, StoreInv
<1>3. CASE NextReflectedPass
  BY <1>1, <1>3, NextReflectedPassInside DEF InsideInv, TypeInv
<1>4. CASE NextStage
  BY <1>1, <1>4, NextStageInside DEF InsideInv
<1>5. CASE \E r \in Rays : RayStep(r)
  BY <1>1, <1>5, RayStepInside DEF InsideInv
<1> QED
  BY <1>2, <1>3, <1>4, <1>5 DEF Next, Terminated

-----------------------------------------------------------------------------
(* What holds of every segment, as long as no walk passes over a face. *)

NonePassedOver == \A r \in Rays : ~PassesOver(r)

LEMMA InsideStays == Spec /\ []NonePassedOver => []InsideInv
<1>1. Init => InsideInv
  BY InitInside
<1>2. InsideInv /\ NonePassedOver /\ [Next]_vars => InsideInv'
  BY NextInside DEF NonePassedOver
<1> QED
  BY <1>1, <1>2, PTL DEF Spec

\* Every segment is booked in the cell it lies in, at both ends: through faces,
\* edges and vertices, with what relays map, mirrors turn and reservoirs keep.  The
\* hypothesis is what RaysComeOut says of every walk: it does not go by a face that
\* its direction leaves through because it already stands on it.
THEOREM SegmentsStayInside == Spec /\ []NonePassedOver => []SegmentsInside
<1>1. InsideInv => SegmentsInside
  <2> SUFFICES ASSUME InsideInv, NEW r \in Rays, segment[r] # NoSegment, ~torn[r]
               PROVE  /\ InCell(segment[r].cell, segment[r].from)
                      /\ InCell(segment[r].cell, segment[r].to)
    BY DEF SegmentsInside
  <2>1. IsInside(pc[r], ray[r], face[r], segment[r])
    BY DEF InsideInv, RaysInside
  <2> QED
    BY <2>1 DEF IsInside
<1> QED
  BY <1>1, InsideStays, PTL

\* The boundary policy is only asked for a ray on a face of the surface, and one that
\* its direction leaves through: never a ray that stopped inside of the mesh, or that
\* goes along the surface or away from it.
ComeOutAtSurface == \A r \in Rays : ~torn[r] /\ pc[r] = "atBoundary" => LeavesAtSurface(r)

THEOREM RaysLeaveAtSurface == Spec /\ []NonePassedOver => []ComeOutAtSurface
<1>1. InsideInv => ComeOutAtSurface
  <2> SUFFICES ASSUME InsideInv, NEW r \in Rays, ~torn[r], pc[r] = "atBoundary"
               PROVE  LeavesAtSurface(r)
    BY DEF ComeOutAtSurface
  <2>1. <<ray[r].cell, face[r]>> \in Boundary
    BY DEF InsideInv, TypeInv, Placed
  <2>2. IsInside(pc[r], ray[r], face[r], segment[r])
    BY DEF InsideInv, RaysInside
  <2>3. LeavesThrough(ray[r].cell, face[r], ray[r].position, ray[r].direction)
    BY <2>2 DEF IsInside
  <2> QED
    BY <2>1, <2>3 DEF LeavesAtSurface, LeavesThrough
<1> QED
  BY <1>1, InsideStays, PTL

\* What a search has left in the cache is a point of the face it names, and with a
\* pump source that face is one of the relay's entry surface.
THEOREM CacheStaysOnFaces == Spec /\ []NonePassedOver => []CacheInside
<1>1. InsideInv => CacheInside
  BY DEF InsideInv
<1> QED
  BY <1>1, InsideStays, PTL

-----------------------------------------------------------------------------
(* The cache of the pump source.  A stage traces the rays of the stage     *)
(* before over again, so a ray comes to the same places in the same order, *)
(* as far as its power lasts: its route is a set of places, of which each  *)
(* but the last one reached has the next one in it.  The first number of a *)
(* relay it goes through belongs to one place only.                        *)

Pumped == {"relay", "reflect"}
OnTheWay == {"walking", "atBoundary"}

\* Where ray r is.
PlaceOf(r) == [ray |-> ray[r], index |-> relayIndex[r], face |-> face[r],
               steps |-> steps[r], place |-> pc[r]]
AtStart(from) == [ray |-> from, index |-> 0, face |-> None, steps |-> 0, place |-> "walking"]

Followed(s, transition, position) ==
    LET entered == transition.status = "enteredCell"
    IN  [ray |-> [position |-> position, direction |-> s.ray.direction, cell |-> transition.cell,
                  forbiddenFace |-> IF entered THEN transition.forbiddenFace
                                    ELSE s.ray.forbiddenFace],
         index |-> s.index,
         face |-> IF entered THEN s.face ELSE transition.boundaryFace,
         steps |-> s.steps + 1,
         place |-> IF entered THEN "walking" ELSE "atBoundary"]

AheadOf(at) == NextFaceIntersections(at.cell, at.position, at.direction, at.forbiddenFace)
Crossed(s, hit) ==
    LET to == Advance(s.ray.position, s.ray.direction, hit)
    IN  Followed(s, TransitionAcrossIntersection(s.ray.cell, hit, to, s.ray.direction), to)
ExitOf(at) ==
    IF IsNearFace(at.cell, at.position)
    THEN ImmediateExitFace(at.cell, at.position, at.direction, at.forbiddenFace)
    ELSE None
Recovered(s) ==
    Followed(s, RecoverFaceTransition(s.ray.cell, ExitOf(s.ray), s.ray.position, s.ray.direction),
             s.ray.position)

\* What a search finds for a ray at place s of the boundary, and where it comes in.
FoundAt(kind, list, s) ==
    LET relay == list[s.index + 1]
        id == FaceId(s.ray.cell, s.face)
        at == TriangleBarycentric(id, s.ray.position)
    IN  IF kind = "relay"
        THEN EntryFor(relay, RelayFrame[relay.exit], RelayFrame[relay.entry],
                      PositionFromTriangle(id, at))
        ELSE Found(id, at)
ComesIn(kind, list, s) ==
    LET relay == list[s.index + 1]
        entry == FoundAt(kind, list, s)
        direction == IF kind = "relay"
                     THEN MappedDirection(relay, RelayFrame[relay.exit], RelayFrame[relay.entry],
                                          s.ray.direction)
                     ELSE ReflectedDirection(s.ray.direction,
                                             OutwardFaceNormal(s.ray.cell, s.face))
    IN  [ray |-> FromFace(entry.target, PositionFromTriangle(entry.target, entry.at), direction),
         index |-> s.index + 1, face |-> s.face, steps |-> s.steps, place |-> "walking"]

GoesTo(kind, list, s) ==
    IF s.place = "walking"
    THEN IF NoIntersection \in AheadOf(s.ray) THEN Recovered(s)
         ELSE Crossed(s, CHOOSE hit \in AheadOf(s.ray) : TRUE)
    ELSE ComesIn(kind, list, s)

IsRoute(V, last, kind, list) ==
    /\ last \in V
    /\ \A s \in V : s # last => GoesTo(kind, list, s) \in V
    /\ \A s \in V : s.index \in Nat /\ s.index <= last.index
    /\ \A s \in V : s.place = "atBoundary" /\ s # last => s.index < last.index
    /\ \A s, t \in V : s.place = "atBoundary" /\ t.place = "atBoundary" /\ s.index = t.index => s = t

RouteInv ==
    policy \in Pumped =>
        \E V :
            /\ \E last : IsRoute(V, last, policy, relays)
            /\ AtStart(start[Min(Rays)]) \in V
            /\ \A r \in Rays : pc[r] \in OnTheWay => r = Min(Rays) /\ PlaceOf(r) \in V
            /\ \A i \in 1 .. Len(relays) : cache[i] # Unknown =>
                  \E s \in V : /\ s.place = "atBoundary" /\ s.index + 1 = i
                               /\ cache[i] = FoundAt(policy, relays, s)

\* A route goes on from where it has come to.
LEMMA RouteGoesOn ==
    ASSUME NEW V, NEW last, NEW kind, NEW list, IsRoute(V, last, kind, list), NEW s \in V,
           NEW t, t = GoesTo(kind, list, s), t.index \in Nat, s.index <= t.index,
           s.place = "atBoundary" => t.index = s.index + 1
    PROVE  \E W : t \in W /\ V \subseteq W /\ \E end : IsRoute(W, end, kind, list)
<1>1. CASE s # last
  <2>1. t \in V
    BY <1>1 DEF IsRoute
  <2> QED
    BY <2>1
<1>2. CASE s = last
  <2> DEFINE W == V \cup {t}
  <2>1. \A a \in V : a.index \in Nat /\ a.index <= t.index
    <3> SUFFICES ASSUME NEW a \in V PROVE a.index \in Nat /\ a.index <= t.index
      OBVIOUS
    <3>1. a.index \in Nat /\ a.index <= s.index /\ s.index \in Nat
      BY <1>2 DEF IsRoute
    <3> QED
      BY <3>1
  <2>2. \A a \in V : a.place = "atBoundary" => a.index < t.index
    <3> SUFFICES ASSUME NEW a \in V, a.place = "atBoundary" PROVE a.index < t.index
      OBVIOUS
    <3>1. a.index \in Nat /\ s.index \in Nat /\ s.index <= t.index
      BY DEF IsRoute
    <3>2. CASE a = s
      BY <3>1, <3>2
    <3>3. CASE a # s
      <4>1. a.index < s.index
        BY <1>2, <3>3 DEF IsRoute
      <4> QED
        BY <3>1, <4>1
    <3> QED
      BY <3>2, <3>3
  <2>3. \A a \in W : a # t => GoesTo(kind, list, a) \in W
    <3> SUFFICES ASSUME NEW a \in V PROVE GoesTo(kind, list, a) \in W
      OBVIOUS
    <3>1. CASE a = last
      BY <1>2, <3>1
    <3>2. CASE a # last
      BY <3>2 DEF IsRoute
    <3> QED
      BY <3>1, <3>2
  <2>4. \A a \in W : a.index \in Nat /\ a.index <= t.index
    BY <2>1
  <2>5. \A a, b \in W :
           a.place = "atBoundary" /\ b.place = "atBoundary" /\ a.index = b.index => a = b
    <3> SUFFICES ASSUME NEW a \in W, NEW b \in W, a.place = "atBoundary", b.place = "atBoundary",
                        a.index = b.index
                 PROVE  a = b
      OBVIOUS
    <3>1. CASE a \in V /\ b \in V
      BY <3>1 DEF IsRoute
    <3>2. CASE a \in V /\ b = t
      <4>1. a.index < a.index /\ a.index \in Nat
        BY <2>1, <2>2, <3>2
      <4> QED
        BY <4>1
    <3>3. CASE a = t /\ b \in V
      <4>1. b.index < b.index /\ b.index \in Nat
        BY <2>1, <2>2, <3>3
      <4> QED
        BY <4>1
    <3>4. CASE a = t /\ b = t
      BY <3>4
    <3> QED
      BY <3>1, <3>2, <3>3, <3>4
  <2>6. \A a \in W : a.place = "atBoundary" /\ a # t => a.index < t.index
    BY <2>2
  <2>7. t \in W /\ V \subseteq W
    OBVIOUS
  <2> HIDE DEF W
  <2>8. IsRoute(W, t, kind, list)
    BY <2>3, <2>4, <2>5, <2>6, <2>7 DEF IsRoute
  <2> QED
    BY <2>7, <2>8
<1> QED
  BY <1>1, <1>2

\* What the cache has for the relay the ray is at is what a search would find.
LEMMA CachedIsFound ==
    ASSUME RouteInv, policy \in Pumped, NEW r \in Rays, pc[r] = "atBoundary",
           NEW n, n = relayIndex[r] + 1, n \in 1 .. Len(relays), relayIndex[r] \in Nat,
           cache[n] # Unknown
    PROVE  cache[n] = FoundAt(policy, relays, PlaceOf(r))
<1>1. PICK V :
        /\ \E last : IsRoute(V, last, policy, relays)
        /\ \A q \in Rays : pc[q] \in OnTheWay => q = Min(Rays) /\ PlaceOf(q) \in V
        /\ \A i \in 1 .. Len(relays) : cache[i] # Unknown =>
              \E s \in V : /\ s.place = "atBoundary" /\ s.index + 1 = i
                           /\ cache[i] = FoundAt(policy, relays, s)
  BY DEF RouteInv
<1>2. PICK s \in V : /\ s.place = "atBoundary" /\ s.index + 1 = n
                     /\ cache[n] = FoundAt(policy, relays, s)
  BY <1>1
<1>3. PlaceOf(r) \in V /\ PlaceOf(r).place = "atBoundary" /\ PlaceOf(r).index = relayIndex[r]
  BY <1>1 DEF OnTheWay, PlaceOf
<1>4. s.index \in Nat
  BY <1>1 DEF IsRoute
<1>5. s.index = PlaceOf(r).index
  BY <1>2, <1>3, <1>4
<1>6. s = PlaceOf(r)
  BY <1>1, <1>2, <1>3, <1>5 DEF IsRoute
<1> QED
  BY <1>2, <1>6

LEMMA RelayIndexTypes ==
    ASSUME TypeInv, NEW r \in Rays
    PROVE  relayIndex[r] \in Nat /\ Len(relays) \in Nat
<1>1. LaunchTypes /\ RayTypes
  BY DEF TypeInv
<1>2. Len(relays) \in Nat
  BY <1>1, RelaysAre DEF LaunchTypes
<1> QED
  BY <1>1, <1>2 DEF RayTypes

\* A step of a ray on its way is a step along its route, as long as it goes on.
LEMMA RouteStep ==
    ASSUME RouteInv, policy \in Pumped, UNCHANGED launchVars, NEW r \in Rays, pc[r] \in OnTheWay,
           \A q \in Rays : q # r => pc'[q] = pc[q],
           NEW t, t = GoesTo(policy, relays, PlaceOf(r)), relayIndex[r] \in Nat,
           pc'[r] \in OnTheWay =>
              /\ PlaceOf(r)' = t
              /\ t.index = IF pc[r] = "atBoundary" THEN relayIndex[r] + 1 ELSE relayIndex[r],
           \A i \in 1 .. Len(relays) :
              \/ cache'[i] = cache[i]
              \/ /\ pc[r] = "atBoundary" /\ relayIndex[r] + 1 = i
                 /\ cache'[i] = FoundAt(policy, relays, PlaceOf(r))
    PROVE  RouteInv'
<1>1. PICK V :
        /\ \E last : IsRoute(V, last, policy, relays)
        /\ AtStart(start[Min(Rays)]) \in V
        /\ \A q \in Rays : pc[q] \in OnTheWay => q = Min(Rays) /\ PlaceOf(q) \in V
        /\ \A i \in 1 .. Len(relays) : cache[i] # Unknown =>
              \E s \in V : /\ s.place = "atBoundary" /\ s.index + 1 = i
                           /\ cache[i] = FoundAt(policy, relays, s)
  BY DEF RouteInv
<1>2. PICK s : s = PlaceOf(r)
  OBVIOUS
<1>3. s \in V /\ r = Min(Rays) /\ s.index = relayIndex[r] /\ s.place = pc[r]
  BY <1>1, <1>2 DEF PlaceOf
<1>4. \E W : /\ V \subseteq W /\ \E last : IsRoute(W, last, policy, relays)
             /\ pc'[r] \in OnTheWay => t \in W
  <2>1. CASE pc'[r] \in OnTheWay
    <3>1. t.index \in Nat /\ s.index <= t.index /\ (s.place = "atBoundary" => t.index = s.index + 1)
      BY <1>3, <2>1
    <3>2. t = GoesTo(policy, relays, s)
      BY <1>2
    <3> QED
      BY <1>1, <1>3, <3>1, <3>2, RouteGoesOn
  <2>2. CASE pc'[r] \notin OnTheWay
    BY <1>1, <2>2
  <2> QED
    BY <2>1, <2>2
<1>5. PICK W : /\ V \subseteq W /\ \E last : IsRoute(W, last, policy, relays)
               /\ pc'[r] \in OnTheWay => t \in W
  BY <1>4
<1>6. policy' = policy /\ relays' = relays /\ start' = start
  BY DEF launchVars
<1>7. AtStart(start'[Min(Rays)]) \in W
  BY <1>1, <1>5, <1>6
<1>8. \A q \in Rays : pc'[q] \in OnTheWay => q = Min(Rays) /\ PlaceOf(q)' \in W
  BY <1>1, <1>3, <1>5
<1>9. \A i \in 1 .. Len(relays) : cache'[i] # Unknown =>
         \E a \in W : /\ a.place = "atBoundary" /\ a.index + 1 = i
                      /\ cache'[i] = FoundAt(policy, relays, a)
  <2> SUFFICES ASSUME NEW i \in 1 .. Len(relays), cache'[i] # Unknown
               PROVE  \E a \in W : /\ a.place = "atBoundary" /\ a.index + 1 = i
                                   /\ cache'[i] = FoundAt(policy, relays, a)
    OBVIOUS
  <2>1. CASE cache'[i] = cache[i]
    <3>1. PICK a \in V : /\ a.place = "atBoundary" /\ a.index + 1 = i
                         /\ cache[i] = FoundAt(policy, relays, a)
      BY <1>1, <2>1
    <3> QED
      BY <1>5, <2>1, <3>1
  <2>2. CASE /\ pc[r] = "atBoundary" /\ relayIndex[r] + 1 = i
             /\ cache'[i] = FoundAt(policy, relays, PlaceOf(r))
    BY <1>2, <1>3, <1>5, <2>2
  <2> QED
    BY <2>1, <2>2
<1> QED
  BY <1>5, <1>6, <1>7, <1>8, <1>9 DEF RouteInv

\* The same for a step that keeps the cache and the number of the relay.
LEMMA WalkStep ==
    ASSUME RouteInv, policy \in Pumped, UNCHANGED <<launchVars, cache, relayIndex>>,
           NEW r \in Rays, pc[r] \in OnTheWay, \A q \in Rays : q # r => pc'[q] = pc[q],
           relayIndex[r] \in Nat,
           pc'[r] \in OnTheWay =>
              pc[r] = "walking" /\ PlaceOf(r)' = GoesTo(policy, relays, PlaceOf(r))
    PROVE  RouteInv'
<1>1. PICK t : t = GoesTo(policy, relays, PlaceOf(r))
  OBVIOUS
<1>2. pc'[r] \in OnTheWay => t.index = relayIndex[r] /\ pc[r] # "atBoundary"
  BY <1>1 DEF PlaceOf
<1> QED
  BY <1>1, <1>2, RouteStep

\* What Follow does is a step along the route.
LEMMA FollowedIs ==
    ASSUME RayTypes, NEW r \in Rays, NEW t, NEW position, Follow(r, t, position),
           relayIndex' = relayIndex
    PROVE  /\ \A q \in Rays : q # r => pc'[q] = pc[q]
           /\ pc'[r] \in OnTheWay => PlaceOf(r)' = Followed(PlaceOf(r), t, position)
<1> DEFINE entered == t.status = "enteredCell"
           lost == t.status = "failed" \/ (entered /\ steps[r] + 1 = MaxTraversalSteps)
           now == [position |-> position, direction |-> ray[r].direction, cell |-> t.cell,
                   forbiddenFace |-> IF entered THEN t.forbiddenFace ELSE ray[r].forbiddenFace]
           side == IF entered THEN face[r] ELSE t.boundaryFace
<1>1. /\ steps' = [steps EXCEPT ![r] = steps[r] + 1]
      /\ ray' = [ray EXCEPT ![r] = now]
      /\ face' = [face EXCEPT ![r] = side]
      /\ pc' = [pc EXCEPT ![r] = IF lost THEN "failed"
                                 ELSE IF entered THEN "walking" ELSE "atBoundary"]
  BY FollowIs
<1>2. \A q \in Rays : q # r => pc'[q] = pc[q]
  BY <1>1 DEF RayTypes
<1>3. ray'[r] = now /\ face'[r] = side /\ steps'[r] = steps[r] + 1
      /\ pc'[r] = (IF lost THEN "failed" ELSE IF entered THEN "walking" ELSE "atBoundary")
  BY <1>1 DEF RayTypes
<1>4. pc'[r] \in OnTheWay => pc'[r] = (IF entered THEN "walking" ELSE "atBoundary")
  BY <1>3 DEF OnTheWay
<1>5. Followed(PlaceOf(r), t, position) =
        [ray |-> now, index |-> relayIndex[r], face |-> side, steps |-> steps[r] + 1,
         place |-> IF entered THEN "walking" ELSE "atBoundary"]
  BY DEF Followed, PlaceOf
<1> HIDE DEF now, side, lost, entered
<1> QED
  BY <1>2, <1>3, <1>4, <1>5 DEF PlaceOf

LEMMA CrossCellRoute ==
    ASSUME TypeInv, RouteInv, policy \in Pumped, NEW r \in Rays, CrossCell(r), ~Wavers(r)
    PROVE  RouteInv'
<1>1. RayTypes /\ relayIndex[r] \in Nat
  BY RelayIndexTypes DEF TypeInv
<1>2. pc[r] = "walking" /\ UNCHANGED <<launchVars, cache, relayIndex>>
  BY DEF CrossCell, sharedVars
<1>3. PICK hit \in Ahead(r) \ {NoIntersection} : \E to :
         /\ to = Advance(ray[r].position, ray[r].direction, hit)
         /\ Follow(r, TransitionAcrossIntersection(ray[r].cell, hit, to, ray[r].direction), to)
  BY DEF CrossCell
<1>4. PICK to :
         /\ to = Advance(ray[r].position, ray[r].direction, hit)
         /\ Follow(r, TransitionAcrossIntersection(ray[r].cell, hit, to, ray[r].direction), to)
  BY <1>3
<1>5. AheadOf(ray[r]) = Ahead(r)
  BY DEF AheadOf, Ahead
<1>6. Ahead(r) = {hit}
  BY <1>2, <1>3 DEF Wavers
<1>7. NoIntersection \notin AheadOf(ray[r]) /\ (CHOOSE h \in AheadOf(ray[r]) : TRUE) = hit
  BY <1>3, <1>5, <1>6
<1>8. PlaceOf(r).ray = ray[r] /\ PlaceOf(r).place = "walking"
  BY <1>2 DEF PlaceOf
<1>9. GoesTo(policy, relays, PlaceOf(r)) = Crossed(PlaceOf(r), hit)
  BY <1>7, <1>8 DEF GoesTo
<1>10. Crossed(PlaceOf(r), hit) =
        Followed(PlaceOf(r), TransitionAcrossIntersection(ray[r].cell, hit, to, ray[r].direction), to)
  BY <1>4, <1>8 DEF Crossed
<1>11. PICK t : t = TransitionAcrossIntersection(ray[r].cell, hit, to, ray[r].direction)
  OBVIOUS
<1>12. Follow(r, t, to) /\ relayIndex' = relayIndex
  BY <1>2, <1>4, <1>11
<1>13. /\ \A q \in Rays : q # r => pc'[q] = pc[q]
       /\ pc'[r] \in OnTheWay => PlaceOf(r)' = Followed(PlaceOf(r), t, to)
  BY <1>1, <1>12, FollowedIs
<1>14. pc'[r] \in OnTheWay => PlaceOf(r)' = GoesTo(policy, relays, PlaceOf(r))
  BY <1>9, <1>10, <1>11, <1>13
<1>15. pc[r] \in OnTheWay
  BY <1>2 DEF OnTheWay
<1> QED
  BY <1>1, <1>2, <1>13, <1>14, <1>15, WalkStep

LEMMA RecoverFaceRoute ==
    ASSUME TypeInv, RouteInv, policy \in Pumped, NEW r \in Rays, RecoverFace(r)
    PROVE  RouteInv'
<1>1. RayTypes /\ relayIndex[r] \in Nat
  BY RelayIndexTypes DEF TypeInv
<1>2. pc[r] = "walking" /\ UNCHANGED <<launchVars, cache, relayIndex>>
  BY DEF RecoverFace, sharedVars
<1>3. PICK exit : exit = ExitOf(ray[r])
  OBVIOUS
<1>4. \/ Goto(r, "failed")
      \/ Follow(r, RecoverFaceTransition(ray[r].cell, exit, ray[r].position, ray[r].direction),
                ray[r].position)
  BY <1>3 DEF RecoverFace, ExitOf
<1>5. AheadOf(ray[r]) = Ahead(r) /\ NoIntersection \in Ahead(r)
  BY DEF RecoverFace, AheadOf, Ahead
<1>6. PlaceOf(r).ray = ray[r] /\ PlaceOf(r).place = "walking"
  BY <1>2 DEF PlaceOf
<1>7. PICK t : t = RecoverFaceTransition(ray[r].cell, exit, ray[r].position, ray[r].direction)
  OBVIOUS
<1>8. GoesTo(policy, relays, PlaceOf(r)) = Followed(PlaceOf(r), t, ray[r].position)
  BY <1>3, <1>5, <1>6, <1>7 DEF GoesTo, Recovered
<1>9. pc[r] \in OnTheWay
  BY <1>2 DEF OnTheWay
<1>10. CASE Goto(r, "failed")
  <2>1. pc'[r] \notin OnTheWay /\ \A q \in Rays : q # r => pc'[q] = pc[q]
    BY <1>1, <1>10 DEF Goto, OnTheWay, RayTypes
  <2> QED
    BY <1>1, <1>2, <1>9, <2>1, WalkStep
<1>11. CASE Follow(r, t, ray[r].position)
  <2>1. /\ \A q \in Rays : q # r => pc'[q] = pc[q]
        /\ pc'[r] \in OnTheWay => PlaceOf(r)' = Followed(PlaceOf(r), t, ray[r].position)
    BY <1>1, <1>2, <1>11, FollowedIs
  <2>2. pc'[r] \in OnTheWay => PlaceOf(r)' = GoesTo(policy, relays, PlaceOf(r))
    BY <1>8, <2>1
  <2> QED
    BY <1>1, <1>2, <1>9, <2>1, <2>2, WalkStep
<1> QED
  BY <1>4, <1>7, <1>10, <1>11

LEMMA EndRoute ==
    ASSUME TypeInv, RouteInv, policy \in Pumped, NEW r \in Rays, Absorbed(r) \/ PumpEnds(r)
    PROVE  RouteInv'
<1>1. RayTypes /\ relayIndex[r] \in Nat
  BY RelayIndexTypes DEF TypeInv
<1>2. pc[r] \in OnTheWay /\ Goto(r, "ended") /\ UNCHANGED <<launchVars, cache, relayIndex>>
  BY DEF Absorbed, PumpEnds, sharedVars, OnTheWay
<1>3. pc'[r] \notin OnTheWay /\ \A q \in Rays : q # r => pc'[q] = pc[q]
  BY <1>1, <1>2 DEF Goto, OnTheWay, RayTypes
<1> QED
  BY <1>1, <1>2, <1>3, WalkStep

\* A relay or a mirror: the ray comes in where a search would find it, if it goes on.
LEMMA EnterRoute ==
    ASSUME TypeInv, RouteInv, policy \in Pumped, NEW r \in Rays, pc[r] = "atBoundary",
           UNCHANGED <<launchVars, face, steps>>,
           NEW n, n = relayIndex[r] + 1, n \in 1 .. Len(relays),
           NEW entry, entry = FoundAt(policy, relays, PlaceOf(r)),
           cache' = [cache EXCEPT ![n] = entry],
           NEW now, now = ComesIn(policy, relays, PlaceOf(r)).ray,
           \/ Goto(r, "ended")
           \/ GoOn(r) /\ ray' = [ray EXCEPT ![r] = now]
    PROVE  RouteInv'
<1>1. RayTypes /\ CacheTypes /\ relayIndex[r] \in Nat
  BY RelayIndexTypes DEF TypeInv
<1>2. pc[r] \in OnTheWay
  BY DEF OnTheWay
<1>3. PICK t : t = GoesTo(policy, relays, PlaceOf(r))
  OBVIOUS
<1>4. t = ComesIn(policy, relays, PlaceOf(r))
  BY <1>3 DEF GoesTo, PlaceOf
<1>5. t = [ray |-> now, index |-> relayIndex[r] + 1, face |-> face[r], steps |-> steps[r],
           place |-> "walking"]
  BY <1>4 DEF ComesIn, PlaceOf
<1>6. \A i \in 1 .. Len(relays) :
         \/ cache'[i] = cache[i]
         \/ relayIndex[r] + 1 = i /\ cache'[i] = FoundAt(policy, relays, PlaceOf(r))
  BY <1>1 DEF CacheTypes
<1>7. CASE Goto(r, "ended")
  <2>1. pc'[r] \notin OnTheWay /\ \A q \in Rays : q # r => pc'[q] = pc[q]
    BY <1>1, <1>7 DEF Goto, OnTheWay, RayTypes
  <2> QED
    BY <1>1, <1>2, <1>3, <1>6, <2>1, RouteStep
<1>8. CASE GoOn(r) /\ ray' = [ray EXCEPT ![r] = now]
  <2>1. PICK place \in {"ended", "failed", "walking"} : pc' = [pc EXCEPT ![r] = place]
    BY <1>8, GoOnIs DEF launchVars
  <2>2. /\ pc'[r] = place /\ \A q \in Rays : q # r => pc'[q] = pc[q]
        /\ ray'[r] = now /\ face'[r] = face[r] /\ steps'[r] = steps[r]
    BY <1>1, <1>8, <2>1 DEF RayTypes
  <2>3. relayIndex'[r] = relayIndex[r] + 1
    BY <1>1, <1>8 DEF GoOn, RayTypes
  <2>4. pc'[r] \in OnTheWay => pc'[r] = "walking"
    BY <2>1, <2>2 DEF OnTheWay
  <2>5. pc'[r] \in OnTheWay => PlaceOf(r)' = t /\ t.index = relayIndex[r] + 1
    BY <1>5, <2>2, <2>3, <2>4 DEF PlaceOf
  <2> QED
    BY <1>1, <1>2, <1>3, <1>6, <2>2, <2>5, RouteStep
<1> QED
  BY <1>7, <1>8

LEMMA RelayRayRoute ==
    ASSUME TypeInv, RouteInv, NEW r \in Rays, RelayRay(r)
    PROVE  RouteInv'
<1>1. PICK n : n = relayIndex[r] + 1
  OBVIOUS
<1>2. PICK relay : relay = relays[n]
  OBVIOUS
<1>3. PICK entry : entry = (IF cache[n] = Unknown THEN Lookup(r, relay) ELSE cache[n])
  OBVIOUS
<1>4. PICK now : now = FromFace(entry.target, PositionFromTriangle(entry.target, entry.at),
                                MappedDirection(relay, RelayFrame[relay.exit],
                                                RelayFrame[relay.entry], ray[r].direction))
  OBVIOUS
<1>5. /\ policy = "relay" /\ pc[r] = "atBoundary" /\ n \in 1 .. Len(relays)
      /\ cache' = [cache EXCEPT ![n] = entry]
      /\ Goto(r, "ended") \/ (GoOn(r) /\ ray' = [ray EXCEPT ![r] = now])
  BY <1>1, <1>2, <1>3, <1>4, RelayRayIs
<1>6. UNCHANGED <<launchVars, face, steps>> /\ policy \in Pumped
  BY <1>5 DEF RelayRay, Pumped
<1>7. Lookup(r, relay) = FoundAt(policy, relays, PlaceOf(r))
  BY <1>1, <1>2, <1>5 DEF Lookup, ExitPosition, FaceOfRay, FoundAt, PlaceOf
<1>8. entry = FoundAt(policy, relays, PlaceOf(r))
  BY <1>1, <1>3, <1>5, <1>6, <1>7, CachedIsFound, RelayIndexTypes
<1>9. now = ComesIn(policy, relays, PlaceOf(r)).ray
  BY <1>1, <1>2, <1>4, <1>5, <1>8 DEF ComesIn, PlaceOf
<1> QED
  BY <1>1, <1>5, <1>6, <1>8, <1>9, EnterRoute

LEMMA ReflectRayRoute ==
    ASSUME TypeInv, RouteInv, NEW r \in Rays, ReflectRay(r)
    PROVE  RouteInv'
<1>1. PICK n : n = relayIndex[r] + 1
  OBVIOUS
<1>2. PICK id : id = FaceOfRay(r)
  OBVIOUS
<1>3. PICK entry : entry = (IF cache[n] = Unknown
                            THEN Found(id, TriangleBarycentric(id, ray[r].position))
                            ELSE cache[n])
  OBVIOUS
<1>4. PICK now : now = FromFace(id, PositionFromTriangle(id, entry.at), ReflectionOf(r))
  OBVIOUS
<1>5. /\ policy = "reflect" /\ pc[r] = "atBoundary" /\ n \in 1 .. Len(relays)
      /\ cache' = [cache EXCEPT ![n] = entry]
      /\ Goto(r, "ended") \/ (GoOn(r) /\ ray' = [ray EXCEPT ![r] = now])
  BY <1>1, <1>2, <1>3, <1>4, ReflectRayIs
<1>6. UNCHANGED <<launchVars, face, steps>> /\ policy \in Pumped
  BY <1>5 DEF ReflectRay, Pumped
<1>7. /\ PlaceOf(r).ray = ray[r] /\ PlaceOf(r).face = face[r]
      /\ id = FaceId(ray[r].cell, face[r])
  BY <1>2 DEF PlaceOf, FaceOfRay
<1>8. Found(id, TriangleBarycentric(id, ray[r].position)) = FoundAt(policy, relays, PlaceOf(r))
  BY <1>5, <1>7 DEF FoundAt
<1>9. entry = FoundAt(policy, relays, PlaceOf(r))
  BY <1>1, <1>3, <1>5, <1>6, <1>8, CachedIsFound, RelayIndexTypes
<1>10. entry.target = id
  BY <1>8, <1>9, EntriesDiffer
<1>11. now = ComesIn(policy, relays, PlaceOf(r)).ray
  BY <1>4, <1>5, <1>7, <1>9, <1>10 DEF ComesIn, ReflectionOf
<1> QED
  BY <1>1, <1>5, <1>6, <1>9, <1>11, EnterRoute

LEMMA InitRoute == Init => RouteInv
<1> SUFFICES ASSUME Init, policy \in Pumped PROVE RouteInv
  BY DEF RouteInv
<1>1. PICK first : first = AtStart(start[Min(Rays)])
  OBVIOUS
<1>2. /\ ray = start /\ relayIndex = [r \in Rays |-> 0] /\ face = [r \in Rays |-> None]
      /\ steps = [r \in Rays |-> 0]
      /\ pc = [r \in Rays |-> IF Active(r) THEN "walking" ELSE "ended"]
      /\ cache = [i \in 1 .. Len(relays) |-> Unknown]
  BY DEF Init
<1>3. first.index = 0 /\ first.place = "walking"
  BY <1>1 DEF AtStart
<1>4. IsRoute({first}, first, policy, relays)
  BY <1>3 DEF IsRoute
<1>5. \A r \in Rays : pc[r] \in OnTheWay => r = Min(Rays) /\ PlaceOf(r) \in {first}
  <2> SUFFICES ASSUME NEW r \in Rays, pc[r] \in OnTheWay
               PROVE  r = Min(Rays) /\ PlaceOf(r) = first
    OBVIOUS
  <2>1. pc[r] = "walking" /\ r = Min(Rays)
    BY <1>2 DEF Active, OnTheWay, Pumped
  <2> QED
    BY <1>1, <1>2, <2>1 DEF PlaceOf, AtStart
<1> QED
  BY <1>1, <1>2, <1>4, <1>5 DEF RouteInv

\* The next stage starts where the first one did, and keeps the cache.
LEMMA NextStageRoute ==
    ASSUME RouteInv, NextStage
    PROVE  RouteInv'
<1>1. policy \in Pumped /\ UNCHANGED <<policy, relays, start, cache>> /\ Launch(start)
  BY DEF NextStage, launchVars, Pumped
<1>2. PICK V :
        /\ \E last : IsRoute(V, last, policy, relays)
        /\ AtStart(start[Min(Rays)]) \in V
        /\ \A i \in 1 .. Len(relays) : cache[i] # Unknown =>
              \E s \in V : /\ s.place = "atBoundary" /\ s.index + 1 = i
                           /\ cache[i] = FoundAt(policy, relays, s)
  BY <1>1 DEF RouteInv
<1>3. \A r \in Rays : pc'[r] \in OnTheWay => r = Min(Rays) /\ PlaceOf(r)' \in V
  <2> SUFFICES ASSUME NEW r \in Rays, pc'[r] \in OnTheWay
               PROVE  r = Min(Rays) /\ PlaceOf(r)' = AtStart(start[Min(Rays)])
    BY <1>2
  <2>1. pc'[r] = "walking" /\ r = Min(Rays)
    BY <1>1 DEF Launch, OnTheWay
  <2> QED
    BY <1>1, <2>1 DEF Launch, PlaceOf, AtStart
<1> QED
  BY <1>1, <1>2, <1>3 DEF RouteInv

\* The hypothesis: no ray of the pump source stands on a face that it may cross or not.
NoneWavers == \A r \in Rays : policy \in Pumped => ~Wavers(r)

LEMMA NextRoute ==
    TypeInv /\ NoneWavers /\ RouteInv /\ [Next]_vars => RouteInv'
<1> SUFFICES ASSUME TypeInv, NoneWavers, RouteInv, [Next]_vars PROVE RouteInv'
  OBVIOUS
<1>1. CASE UNCHANGED vars
  BY <1>1 DEF vars, launchVars, rayVars, sharedVars, RouteInv, PlaceOf
<1>2. CASE NextReflectedPass
  <2>1. policy' \notin Pumped
    BY <1>2 DEF NextReflectedPass, launchVars, Pumped
  <2> QED
    BY <2>1 DEF RouteInv
<1>3. CASE NextStage
  BY <1>3, NextStageRoute
<1>4. ASSUME NEW r \in Rays, RayStep(r) PROVE RouteInv'
  <2>1. CASE Escape(r) \/ Reflect(r) \/ Count(r) \/ Weigh(r) \/ StoreField(r)
    <3>1. policy' = policy
      BY <2>1 DEF Escape, Reflect, Count, Weigh, StoreField, launchVars
    <3>2. pc[r] \in Depositing => policy = "store"
      BY DEF TypeInv, StoreTypes
    <3>3. policy \in {"escape", "store"}
      BY <2>1, <3>2 DEF Escape, Reflect, Count, Weigh, StoreField, Depositing
    <3> QED
      BY <3>1, <3>3 DEF RouteInv, Pumped
  <2>2. CASE RelayRay(r) \/ ReflectRay(r)
    BY <2>2, RelayRayRoute, ReflectRayRoute
  <2>3. CASE CrossCell(r) \/ RecoverFace(r) \/ Absorbed(r) \/ PumpEnds(r)
    <3>1. CASE policy \in Pumped
      BY <2>3, <3>1, CrossCellRoute, RecoverFaceRoute, EndRoute DEF NoneWavers
    <3>2. CASE policy \notin Pumped
      <4>1. policy' = policy
        BY <2>3 DEF CrossCell, RecoverFace, Absorbed, PumpEnds, launchVars
      <4> QED
        BY <3>2, <4>1 DEF RouteInv
    <3> QED
      BY <3>1, <3>2
  <2> QED
    BY <1>4, <2>1, <2>2, <2>3 DEF RayStep
<1> QED
  BY <1>1, <1>2, <1>3, <1>4 DEF Next, Terminated

\* What the cache holds for a relay is what a search would find for the ray that is
\* there now, in whatever stage and wherever its power ended in the stages before:
\* the entry point can be taken without a search.  The hypothesis is what RaysComeOut
\* says of the rays of the pump source.
THEOREM CacheStaysFresh == Spec /\ []NoneWavers => []CacheIsFresh
<1>1. TypeInv /\ RouteInv => CacheIsFresh
  <2> SUFFICES ASSUME TypeInv, RouteInv, NEW r \in Rays, pc[r] = "atBoundary",
                      policy \in {"relay", "reflect"}, ~LeavesPump(r),
                      cache[CacheIndex(relayIndex[r])] # Unknown
               PROVE  cache[CacheIndex(relayIndex[r])] =
                        IF policy = "relay" THEN Lookup(r, relays[relayIndex[r] + 1])
                        ELSE Found(FaceOfRay(r), TriangleBarycentric(FaceOfRay(r), ray[r].position))
    BY DEF CacheIsFresh
  <2>1. PICK n : n = relayIndex[r] + 1
    OBVIOUS
  <2>2. n \in 1 .. Len(relays) /\ CacheIndex(relayIndex[r]) = n
    BY <2>1, RelayIndexIs DEF TypeInv
  <2>3. cache[n] = FoundAt(policy, relays, PlaceOf(r))
    BY <2>1, <2>2, CachedIsFound, RelayIndexTypes DEF Pumped
  <2>4. FoundAt(policy, relays, PlaceOf(r)) =
           IF policy = "relay" THEN Lookup(r, relays[relayIndex[r] + 1])
           ELSE Found(FaceOfRay(r), TriangleBarycentric(FaceOfRay(r), ray[r].position))
    BY DEF FoundAt, Lookup, ExitPosition, FaceOfRay, PlaceOf
  <2> QED
    BY <2>2, <2>3, <2>4
<1>2. Init => TypeInv /\ RouteInv
  BY InitTypes, InitRoute
<1>3. (TypeInv /\ RouteInv) /\ NoneWavers /\ [Next]_vars => (TypeInv /\ RouteInv)'
  BY NextTypes, NextRoute
<1> QED
  BY <1>1, <1>2, <1>3, PTL DEF Spec

=============================================================================

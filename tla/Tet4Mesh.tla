------------------------------ MODULE Tet4Mesh ------------------------------
(***************************************************************************)
(* How a ray crosses a mesh of tetrahedra: the face planes of              *)
(* HostMesh::precomputeBarycentricFacePlanes and the functions of          *)
(* kernels/forward/rayWalk.hpp and rayTransition.hpp.                      *)
(*                                                                         *)
(* The geometry is exact.  Vertices and directions are vectors of          *)
(* integers, a point is an integer vector over a common denominator, and a *)
(* barycentric coordinate is kept times a positive factor of its cell      *)
(* (its volume and the denominator of the point), which no comparison      *)
(* sees.  The code computes in doubles: a coordinate that is exactly 0     *)
(* comes out as a value within barycentricTraversalTolerance of 0, of      *)
(* either sign, and NextFaceIntersections allows for both; a coordinate    *)
(* that is not 0 is taken to be outside of the tolerance.                  *)
(***************************************************************************)
EXTENDS Integers, Sequences, FiniteSetsExt

CONSTANTS
    Points,         \* vertex -> <<x, y, z>>
    CellPoints,     \* cell -> its four vertices
    CellFaces,      \* cell -> local face -> three of them
    NeighborCell,   \* cell -> local face -> the cell behind it, or None
    NeighborFace,   \* cell -> local face -> the same face in that cell, or None
    FaceBoundary,   \* cell -> local face -> surface domain, 0 inside the mesh
    MaxImmediateFaceTransitions

None == -1
Cells == DOMAIN CellPoints
Faces == 0 .. 3
Boundary == {at \in Cells \X Faces : NeighborCell[at[1]][at[2]] = None}
VerticesOf(cell) == {CellPoints[cell][i] : i \in 1 .. 4}
CornersOf(cell, face) == {CellFaces[cell][face][i] : i \in 1 .. 3}

Vectors == Int \X Int \X Int
Positions == [v : Vectors, w : Nat \ {0}]
ASSUME PointsAssumption ==
    /\ Cells \subseteq Nat
    /\ \A v \in DOMAIN Points : Points[v] \in Vectors
    /\ \A cell \in Cells, face \in Faces :
          /\ CellPoints[cell] \in [1 .. 4 -> DOMAIN Points]
          /\ CellFaces[cell][face] \in Seq(DOMAIN Points)
          /\ Len(CellFaces[cell][face]) = 3

\* Every vertex of a cell has the face of the three others.
ASSUME CellAssumption ==
    \A cell \in Cells :
        {CornersOf(cell, face) : face \in Faces}
            = {VerticesOf(cell) \ {v} : v \in VerticesOf(cell)}

\* Two cells that share a face share its vertices, and each knows the other.
ASSUME NeighborAssumption ==
    \A cell \in Cells, face \in Faces : <<cell, face>> \notin Boundary =>
        LET next == NeighborCell[cell][face]
            back == NeighborFace[cell][face]
        IN  /\ next \in Cells /\ back \in Faces
            /\ NeighborCell[next][back] = cell /\ NeighborFace[next][back] = face
            /\ CornersOf(next, back) = CornersOf(cell, face)

-----------------------------------------------------------------------------
\* Vectors and points.

Dot(a, b) == a[1] * b[1] + a[2] * b[2] + a[3] * b[3]
Plus(a, b) == <<a[1] + b[1], a[2] + b[2], a[3] + b[3]>>
Times(k, a) == <<k * a[1], k * a[2], k * a[3]>>
Minus(a, b) == Plus(a, Times(-1, b))
Cross(a, b) == <<a[2] * b[3] - a[3] * b[2],
                 a[3] * b[1] - a[1] * b[3],
                 a[1] * b[2] - a[2] * b[1]>>

Magnitude(k) == IF k < 0 THEN -k ELSE k
Gcd[p \in Nat \X Nat] == IF p[2] = 0 THEN p[1] ELSE Gcd[<<p[2], p[1] % p[2]>>]
Common(a) == Gcd[<<Magnitude(a[1]), Gcd[<<Magnitude(a[2]), Magnitude(a[3])>>]>>]

\* The point v / w.
Point(v, w) ==
    LET g == Gcd[<<w, Common(v)>>]
    IN  [v |-> <<v[1] \div g, v[2] \div g, v[3] \div g>>, w |-> w \div g]

\* The point of a face or cell with barycentric weights ws / sum(ws).
Weighted(vertices, ws) ==
    LET Term(i) == Times(ws[i], Points[vertices[i]])
    IN  Point(Plus(Plus(Term(1), Term(2)),
                   IF Len(vertices) = 4 THEN Plus(Term(3), Term(4)) ELSE Term(3)),
              ws[1] + ws[2] + ws[3] + IF Len(vertices) = 4 THEN ws[4] ELSE 0)

FaceCentroid(cell, face) == Weighted(CellFaces[cell][face], <<1, 1, 1>>)

Corner(cell, face, i) == Points[CellFaces[cell][face][i]]
Opposite(cell, face) ==
    Points[CHOOSE p \in VerticesOf(cell) : p \notin CornersOf(cell, face)]

\* The plane through a, b and c, its gradient turned to the fourth vertex d.
Plane(a, b, c, d) ==
    LET normal == Cross(Minus(b, a), Minus(c, a))
        inward == IF Dot(normal, Minus(d, a)) > 0 THEN normal ELSE Times(-1, normal)
    IN  [gradient |-> inward, offset |-> -Dot(inward, a)]

FacePlanes ==
    [cell \in Cells |-> [face \in Faces |->
        Plane(Corner(cell, face, 1), Corner(cell, face, 2), Corner(cell, face, 3),
              Opposite(cell, face))]]
\* getFaceBarycentricCoordinate and getFaceBarycentricDirection.
Coordinate(cell, face, point) ==
    LET plane == FacePlanes[cell][face]
    IN  Dot(plane.gradient, point.v) + plane.offset * point.w
DirectionalChange(cell, face, direction) ==
    Dot(FacePlanes[cell][face].gradient, direction)

\* No cell is flat, and two cells with a common face lie on different sides of it.
ASSUME VolumeAssumption ==
    \A cell \in Cells, face \in Faces :
        LET apex == [v |-> Opposite(cell, face), w |-> 1]
        IN  /\ Coordinate(cell, face, apex) > 0
            /\ <<cell, face>> \notin Boundary =>
                  Coordinate(NeighborCell[cell][face], NeighborFace[cell][face], apex) < 0

OutwardFaceNormal(cell, face) == Times(-1, FacePlanes[cell][face].gradient)

\* Scaled so that the length of the direction is kept where the result is integer.
ReflectedDirection(direction, normal) ==
    LET square == Dot(normal, normal)
        twice == 2 * Dot(direction, normal)
    IN  IF twice % square = 0
        THEN Minus(direction, Times(twice \div square, normal))
        ELSE Minus(Times(square, direction), Times(twice, normal))

\* What a point must satisfy to be in the closed cell.
InCell(cell, point) == \A face \in Faces : Coordinate(cell, face, point) >= 0

-----------------------------------------------------------------------------
\* rayWalk.hpp

\* The faces in front of the ray, at the length num / (den * point.w).
NoIntersection == [localFace |-> None, num |-> 0, den |-> 1, tied |-> {}]
Intersection(cell, point, direction, tied) ==
    LET face == Min(tied)
    IN  [localFace |-> face, num |-> Coordinate(cell, face, point),
         den |-> -DirectionalChange(cell, face, direction), tied |-> tied]

Decreasing(cell, direction, forbiddenFace) ==
    {face \in Faces \ {forbiddenFace} : DirectionalChange(cell, face, direction) < 0}

\* The first decreasing coordinate to reach zero.  A face the ray stands on and
\* leaves through has a length of 0 and is passed over, unless rounding makes
\* its coordinate positive.
NextFaceIntersections(cell, point, direction, forbiddenFace) ==
    LET C(face) == Coordinate(cell, face, point)
        Rate(face) == -DirectionalChange(cell, face, direction)
        exits == Decreasing(cell, direction, forbiddenFace)
        ahead == {face \in exits : C(face) > 0}
        here == {face \in exits : C(face) = 0}
        nearest == {face \in ahead :
                       \A other \in ahead : C(face) * Rate(other) <= C(other) * Rate(face)}
    IN  {Intersection(cell, point, direction, tied) : tied \in (SUBSET here) \ {{}}}
        \cup {IF ahead = {} THEN NoIntersection
              ELSE Intersection(cell, point, direction, nearest)}

Advance(point, direction, intersection) ==
    Point(Plus(Times(intersection.den, point.v), Times(intersection.num, direction)),
          point.w * intersection.den)

-----------------------------------------------------------------------------
\* rayTransition.hpp

IsNearFace(cell, point) == \E face \in Faces : Coordinate(cell, face, point) = 0

ImmediateExitFace(cell, point, direction, forbiddenFace) ==
    LET exits == {face \in Decreasing(cell, direction, forbiddenFace) :
                     Coordinate(cell, face, point) = 0}
    IN  IF exits = {} THEN None ELSE Min(exits)

\* A slip: a point on a face is inside, whatever the direction.
ProbeExits_OnFaceInside(cell, point, direction) ==
    {face \in Faces : Coordinate(cell, face, point) < 0}

\* The faces through which point + epsilon * direction lies outside of the cell.
ProbeExits(cell, point, direction) ==
    {face \in Faces :
        \/ Coordinate(cell, face, point) < 0
        \/ Coordinate(cell, face, point) = 0 /\ DirectionalChange(cell, face, direction) < 0}

\* Where a transition leaves the ray.
Transition(status, cell, forbiddenFace, boundaryFace) ==
    [status |-> status, cell |-> cell,
     forbiddenFace |-> forbiddenFace, boundaryFace |-> boundaryFace]

\* The exit to take next: into a cell that is not one of the last three, else
\* the first one.
NextExit(cell, exits, recent) ==
    LET preferred == {face \in exits : /\ NeighborCell[cell][face] # None
                                       /\ NeighborCell[cell][face] \notin recent}
    IN  IF preferred # {} THEN Min(preferred)
        ELSE IF exits # {} THEN Min(exits) ELSE None

\* Through the exit of the cell into the next one, whose exit is the next to take.
CrossExit(at, point, direction) ==
    LET next == NeighborCell[at.cell][at.exit]
        recent == <<next, at.recent[1], at.recent[2]>>
        exit == NextExit(next, ProbeExits(next, point, direction), {recent[i] : i \in 1 .. 3})
    IN  IF next = None
        THEN [at EXCEPT !.result = Transition("reachedBoundary", at.cell, None, at.exit)]
        ELSE [cell |-> next, exit |-> exit, recent |-> recent,
              result |-> Transition(IF exit = None THEN "enteredCell" ELSE "failed",
                                    next, NeighborFace[at.cell][at.exit], None)]

\* From cell to cell around an edge or vertex until one owns the ray; the result
\* is "failed" as long as none does.
Crossings(start, firstExit, point, direction) ==
    LET from == [cell |-> start, exit |-> firstExit, recent |-> <<start, None, None>>,
                 result |-> Transition("failed", start, None, None)]
        after[n \in 0 .. MaxImmediateFaceTransitions] ==
            IF n = 0 THEN from
            ELSE LET at == after[n - 1]
                 IN  IF at.result.status = "failed" THEN CrossExit(at, point, direction) ELSE at
    IN  after

RecoverFaceTransition(start, firstExit, point, direction) ==
    Crossings(start, firstExit, point, direction)[MaxImmediateFaceTransitions].result

\* A slip: the recovery is left out where faces tie.
TransitionAcrossIntersection_NoRecovery(cell, intersection, point, direction) ==
    LET face == intersection.localFace
        next == NeighborCell[cell][face]
    IN  IF next = None THEN Transition("reachedBoundary", cell, None, face)
        ELSE Transition("enteredCell", next, NeighborFace[cell][face], None)

TransitionAcrossIntersection(cell, intersection, point, direction) ==
    LET face == intersection.localFace
        next == NeighborCell[cell][face]
    IN  IF Cardinality(intersection.tied) > 1
        THEN RecoverFaceTransition(cell, face, point, direction)
        ELSE IF next = None THEN Transition("reachedBoundary", cell, None, face)
        ELSE Transition("enteredCell", next, NeighborFace[cell][face], None)
=============================================================================

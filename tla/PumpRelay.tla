------------------------------ MODULE PumpRelay ------------------------------
(***************************************************************************)
(* Where a pump ray that leaves through an exit surface comes in again:    *)
(* makeRelayFrame, preparePumpRelayGeometry and the mapping of             *)
(* DevicePumpRelayBoundary in kernels/generalPump.hpp, and the barycentric *)
(* positions of kernels/forward/policyRay.hpp that it stores.              *)
(*                                                                         *)
(* A relay is a record: exit and entry are sets of surface domains; flipU  *)
(* and flipV are 1 or -1; cosine and sine those of a multiple of 90        *)
(* degrees; magnification <<m, n>> is m / n and offset <<u, v, n>> is      *)
(* (u / n, v / n).  The tilt, an addition to a direction of length 1, is   *)
(* left out.  The frames must be orthonormal in integers.                  *)
(***************************************************************************)
EXTENDS Tet4Mesh

CONSTANT PumpSurfaces   \* the exit and entry surfaces of relays, sets of domains

FaceId(cell, face) == 4 * cell + face
CellOf(id) == id \div 4
FaceOf(id) == id % 4
Vertices(id) == CellFaces[CellOf(id)][FaceOf(id)]

\* pumpBoundaryFaces, by face id; faces.front() is the smallest.
PumpBoundaryFaces(domains) ==
    {FaceId(at[1], at[2]) : at \in {b \in Boundary : FaceBoundary[b[1]][b[2]] \in domains}}

-----------------------------------------------------------------------------
\* Barycentric coordinates b / over of a point on (or projected onto) a face.

TriangleBarycentric(id, point) ==
    LET a == Points[Vertices(id)[1]]
        v0 == Minus(Points[Vertices(id)[2]], a)
        v1 == Minus(Points[Vertices(id)[3]], a)
        v2 == Minus(point.v, Times(point.w, a))
        over == (Dot(v0, v0) * Dot(v1, v1) - Dot(v0, v1) * Dot(v0, v1)) * point.w
        second == Dot(v1, v1) * Dot(v2, v0) - Dot(v0, v1) * Dot(v2, v1)
        third == Dot(v0, v0) * Dot(v2, v1) - Dot(v0, v1) * Dot(v2, v0)
        reduced == Point(<<over - second - third, second, third>>, over)
    IN  [b |-> reduced.v, over |-> reduced.w]

PositionFromTriangle(id, at) == Weighted(Vertices(id), at.b)

InTriangle(at) == \A i \in 1 .. 3 : at.b[i] >= 0

-----------------------------------------------------------------------------
\* The frame of a set of coplanar exterior faces.

\* area * face.normal, times 2: both come from one cross product.
AreaVector(id) ==
    LET a == Points[Vertices(id)[1]]
        vector == Cross(Minus(Points[Vertices(id)[2]], a), Minus(Points[Vertices(id)[3]], a))
    IN  IF Dot(vector, OutwardFaceNormal(CellOf(id), FaceOf(id))) > 0
        THEN vector ELSE Times(-1, vector)

Direction(a) == LET g == Common(a) IN <<a[1] \div g, a[2] \div g, a[3] \div g>>

FrameOf(faces) ==
    LET first == Vertices(Min(faces))
        edge == Minus(Points[first[2]], Points[first[1]])
        normal == Direction(FoldSet(LAMBDA id, sum : Plus(AreaVector(id), sum), <<0, 0, 0>>, faces))
        Area(id) == Dot(AreaVector(id), normal)
        Corners(id) == Plus(Plus(Points[Vertices(id)[1]], Points[Vertices(id)[2]]),
                            Points[Vertices(id)[3]])
        moment == FoldSet(LAMBDA id, sum : Plus(Times(Area(id), Corners(id)), sum),
                          <<0, 0, 0>>, faces)
        u == Direction(Minus(edge, Times(Dot(edge, normal), normal)))
    IN  [origin |-> Point(moment, 3 * FoldSet(LAMBDA id, sum : Area(id) + sum, 0, faces)),
         u |-> u, v |-> Cross(normal, u), normal |-> normal]

RelayFrame == [domains \in PumpSurfaces |-> FrameOf(PumpBoundaryFaces(domains))]

\* The surfaces are such that the frames can be written in integers, and each is in
\* one plane, as makeRelayFrame demands.
Axes == {a \in (-1 .. 1) \X (-1 .. 1) \X (-1 .. 1) : Dot(a, a) = 1}
ASSUME FrameAssumption ==
    /\ RelayFrame \in [PumpSurfaces -> [origin : Positions, u : Axes, v : Axes, normal : Axes]]
    /\ \A domains \in PumpSurfaces : \A id \in PumpBoundaryFaces(domains) :
          LET Along(axis) == Dot(OutwardFaceNormal(CellOf(id), FaceOf(id)), axis)
              frame == RelayFrame[domains]
          IN  Along(frame.u) = 0 /\ Along(frame.v) = 0 /\ Along(frame.normal) > 0

\* exitMask, for one relay.
IsExit(relay, id) ==
    /\ <<CellOf(id), FaceOf(id)>> \in Boundary
    /\ FaceBoundary[CellOf(id)][FaceOf(id)] \in relay.exit

\* Two components in the exit frame, as they are in the entry frame.
Rotated(relay, u, v) ==
    LET fu == relay.flipU * u
        fv == relay.flipV * v
    IN  <<relay.cosine * fu - relay.sine * fv, relay.sine * fu + relay.cosine * fv>>

MappedPosition(relay, exit, entry, exitPosition) ==
    LET relative == Minus(Times(exit.origin.w, exitPosition.v),
                          Times(exitPosition.w, exit.origin.v))
        m == relay.magnification
        o == relay.offset
        over == exit.origin.w * exitPosition.w * m[2]
        turned == Rotated(relay, m[1] * Dot(relative, exit.u), m[1] * Dot(relative, exit.v))
        mappedU == turned[1] * o[3] + o[1] * over
        mappedV == turned[2] * o[3] + o[2] * over
    IN  Point(Plus(Times(over * o[3], entry.origin.v),
                   Times(entry.origin.w, Plus(Times(mappedU, entry.u), Times(mappedV, entry.v)))),
              over * o[3] * entry.origin.w)

MappedDirection(relay, exit, entry, direction) ==
    LET turned == Rotated(relay, Dot(direction, exit.u), Dot(direction, exit.v))
    IN  Minus(Plus(Times(turned[1], entry.u), Times(turned[2], entry.v)),
              Times(Magnitude(Dot(direction, exit.normal)), entry.normal))

\* A cache entry: what the search for the entry face found.
Unknown == [state |-> 0]
Found(id, at) == [state |-> 1, target |-> id, at |-> at]
Vignetted == [state |-> 2]

\* The first entry face that holds the mapped position.
EntryAt(faces, mapped) ==
    LET hit == {id \in faces : InTriangle(TriangleBarycentric(id, mapped))}
    IN  IF hit = {} THEN Vignetted
        ELSE Found(Min(hit), TriangleBarycentric(Min(hit), mapped))

EntryFor(relay, exit, entry, exitPosition) ==
    EntryAt(PumpBoundaryFaces(relay.entry), MappedPosition(relay, exit, entry, exitPosition))
=============================================================================

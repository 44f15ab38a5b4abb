---------------------------- MODULE MCRayTracing ----------------------------
(***************************************************************************)
(* RayTracing for TLC: eight unit cubes of six tetrahedra each, but for    *)
(* the half of two of them that lies beyond the plane x - y = 1.  The mesh *)
(* has 42 cells, an interior vertex <<1, 1, 1>> around which 24 of them    *)
(* meet, and a slanted surface.                                            *)
(***************************************************************************)
EXTENDS RayTracing

-----------------------------------------------------------------------------
\* The mesh: vertex 9x + 3y + z is <<x, y, z>>, and cell 6 * cube + i a path along
\* the edges of its cube, first in the direction of Order[i][1], then in the
\* other two.  The numbers of the missing cells are not used.

Order == [i \in 0 .. 5 |-> <<<<1, 2, 3>>, <<1, 3, 2>>, <<2, 1, 3>>,
                            <<2, 3, 1>>, <<3, 1, 2>>, <<3, 2, 1>>>>[i + 1]]
OrderNumber(o) == CHOOSE i \in 0 .. 5 : Order[i] = o
Step == <<9, 3, 1>>
CubeStep == <<4, 2, 1>>

First(cell) == 9 * (cell \div 24) + 3 * ((cell \div 12) % 2) + ((cell \div 6) % 2)
Path(cell) ==
    LET o == Order[cell % 6]
        v == First(cell)
    IN  <<v, v + Step[o[1]], v + Step[o[1]] + Step[o[2]], v + 13>>

MeshPoints == [v \in 0 .. 26 |-> <<v \div 9, (v \div 3) % 3, v % 3>>]
MeshCells == (0 .. 47) \ {24, 25, 28, 30, 31, 34}
MeshCellPoints == [c \in MeshCells |-> Path(c)]

\* Face k is opposite to vertex k + 1; its first edge is an edge of the cube.
FacesOf(p) == [k \in 0 .. 3 |-> CASE k = 0 -> <<p[2], p[3], p[4]>>
                                  [] k = 1 -> <<p[4], p[3], p[1]>>
                                  [] k = 2 -> <<p[1], p[2], p[4]>>
                                  [] k = 3 -> <<p[1], p[2], p[3]>>]
MeshCellFaces == [c \in MeshCells |-> FacesOf(Path(c))]

\* The cell behind face k of the cell in order o, if its cube is one of the
\* eight, and its number there.
Behind(c, k, o) ==
    LET At(axis) == (c \div (6 * CubeStep[axis])) % 2
        Cell(cube, order) == 6 * cube + OrderNumber(order)
    IN  CASE k = 0 -> IF At(o[1]) = 1 THEN None
                      ELSE Cell(c \div 6 + CubeStep[o[1]], <<o[2], o[3], o[1]>>)
          [] k = 1 -> Cell(c \div 6, <<o[2], o[1], o[3]>>)
          [] k = 2 -> Cell(c \div 6, <<o[1], o[3], o[2]>>)
          [] k = 3 -> IF At(o[3]) = 0 THEN None
                      ELSE Cell(c \div 6 - CubeStep[o[3]], <<o[3], o[1], o[2]>>)
Existing(c) == IF c \in MeshCells THEN c ELSE None
MeshNeighborCell ==
    [c \in MeshCells |-> [k \in 0 .. 3 |-> Existing(Behind(c, k, Order[c % 6]))]]
MeshNeighborFace ==
    [c \in MeshCells |-> [k \in 0 .. 3 |->
        IF MeshNeighborCell[c][k] = None THEN None
        ELSE CASE k = 0 -> 3 [] k = 3 -> 0 [] OTHER -> k]]

\* The sides: 1 and 2 are x = 0 and 2, 3 and 4 y = 0 and 2, 5 and 6 z = 0 and 2;
\* 7 is x - y = 1.
Side(ps) ==
    CASE \A p \in ps : p[1] = 0 -> 1
      [] \A p \in ps : p[1] = 2 -> 2
      [] \A p \in ps : p[2] = 0 -> 3
      [] \A p \in ps : p[2] = 2 -> 4
      [] \A p \in ps : p[3] = 0 -> 5
      [] \A p \in ps : p[3] = 2 -> 6
      [] \A p \in ps : p[1] - p[2] = 1 -> 7
      [] OTHER -> 0
MeshFaceBoundary ==
    [c \in MeshCells |-> [k \in 0 .. 3 |->
        IF MeshNeighborCell[c][k] # None THEN 0
        ELSE Side({MeshPoints[MeshCellFaces[c][k][i]] : i \in 1 .. 3})]]

\* TLC computes a definition without parameters once, but not one that is put in
\* the place of a constant.
MCPoints == MeshPoints
MCCellPoints == MeshCellPoints
MCCellFaces == MeshCellFaces
MCNeighborCell == MeshNeighborCell
MCNeighborFace == MeshNeighborFace
MCFaceBoundary == MeshFaceBoundary

\* The missing cells are those beyond the plane.
ASSUME CellsMatch ==
    \A c \in 0 .. 47 : c \in Cells <=>
        \A i \in 1 .. 4 : MeshPoints[Path(c)[i]][1] - MeshPoints[Path(c)[i]][2] <= 1

-----------------------------------------------------------------------------
\* Where rays start.

From(cell, position, direction, forbiddenFace) ==
    [position |-> position, direction |-> direction, cell |-> cell,
     forbiddenFace |-> forbiddenFace]

Used == {CellPoints[c][i] : c \in Cells, i \in 1 .. 4}

\* Straight at a point: through vertices, along diagonals and across edges.
Targets == {Point(Plus(Points[p], Points[q]), 2) : p \in {13}, q \in Used}
           \cup {Point(Points[p], 1) : p \in Used}
Towards(a, b) == Direction(Minus(Times(a.w, b.v), Times(b.w, a.v)))

InnerStarts ==
    {From(c, Weighted(CellPoints[c], ws), Towards(Weighted(CellPoints[c], ws), target), None) :
        c \in Cells, ws \in {<<1, 1, 1, 1>>, <<1, 2, 3, 5>>}, target \in Targets}

\* On a face, in a direction that leaves the cell through that face only.
OnFaceStarts ==
    {from \in {From(c, Weighted(CellPoints[c], ws), direction, None) :
                   c \in Cells, ws \in {<<0, 1, 2, 4>>, <<4, 0, 1, 2>>, <<2, 4, 0, 1>>, <<1, 2, 4, 0>>},
                   direction \in {<<2, -1, -1>>, <<-1, 2, -1>>, <<-1, -1, 2>>, <<1, -2, 1>>, <<-1, 1, 0>>}} :
        /\ Decreasing(from.cell, from.direction, None) # {}
        /\ \A k \in Decreasing(from.cell, from.direction, None) :
              Coordinate(from.cell, k, from.position) = 0}

VolumeStarts == InnerStarts \cup OnFaceStarts

\* Next to the slanted surface, and towards it.  Two reflections of these make a
\* direction that points outwards, or none at all.
SurfaceStarts ==
    {From(26, Weighted(CellPoints[26], <<8, 1, 8, 8>>), direction, None) :
        direction \in {<<2, 1, 2>>, <<-1, -2, 2>>, <<3, 0, 0>>, <<0, -3, 0>>}}
ASSUME NextToSlanted == FaceBoundary[26][1] = 7

\* From a pump surface inwards.
PumpStarts(side, directions) ==
    {FromFace(id, Weighted(Vertices(id), ws), direction) :
        id \in PumpBoundaryFaces({side}), ws \in {<<23, 5, 9>>},
        direction \in directions}

RelayStarts == PumpStarts(5, {<<0, 0, 1>>, <<3, 1, 13>>, <<-2, 5, 17>>, <<5, 1, 4>>})
MirrorStarts == RelayStarts \cup PumpStarts(1, {<<1, 0, 0>>, <<7, 3, -2>>, <<11, -2, 3>>})

MCStartsOf ==
    [escape |-> VolumeStarts, store |-> SurfaceStarts,
     relay |-> RelayStarts, reflect |-> MirrorStarts]

Relay(exit, entry, flipU, flipV, turn, magnification, offset) ==
    [exit |-> exit, entry |-> entry, flipU |-> flipU, flipV |-> flipV,
     cosine |-> turn[1], sine |-> turn[2], magnification |-> magnification, offset |-> offset]
Straight == Relay({6}, {5}, 1, 1, <<1, 0>>, <<1, 1>>, <<0, 0, 1>>)
Turned == Relay({6}, {5}, 1, -1, <<0, 1>>, <<1, 1>>, <<0, 0, 1>>)
Reduced == Relay({6}, {1}, -1, 1, <<-1, 0>>, <<1, 2>>, <<1, -1, 5>>)
Onwards == Relay({4}, {5}, 1, 1, <<0, -1>>, <<1, 1>>, <<0, 0, 1>>)

Mirror(side) == [exit |-> {side}]
RelayLists == {<<Straight, Turned>>, <<Turned, Reduced>>, <<Reduced, Straight>>,
               <<Onwards, Turned>>}
MirrorLists == {<<Mirror(6), Mirror(5)>>, <<Mirror(7), Mirror(4)>>, <<Mirror(4), Mirror(6)>>}

MCRelaysOf ==
    [escape |-> {<<>>}, store |-> {<<>>}, relay |-> RelayLists, reflect |-> MirrorLists]
Surfaces == UNION {UNION {{list[i].exit, list[i].entry} : i \in 1 .. 2} : list \in RelayLists}
MCPumpSurfaces == Surfaces
=============================================================================

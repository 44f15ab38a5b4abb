----------------------------- MODULE RayTracing -----------------------------
(***************************************************************************)
(* The ray kernels: ray::walk of kernels/forward/policyRay.hpp with the    *)
(* boundary policies it is used with.                                      *)
(*                                                                         *)
(*   escape   ASE without reflections: a ray ends at the surface           *)
(*   store    the surface reservoir method: it leaves its reflection in    *)
(*            the reservoir of the face, and the rays of the next pass     *)
(*            start from what the reservoirs hold                          *)
(*   relay    a pump source with relays, traced again for every stage of   *)
(*            the integrator, with a cache of the entry points             *)
(*   reflect  the pump's reflecting alternative, with the same cache       *)
(*                                                                         *)
(* Rays of a pass run in parallel.  What they share is the scores and      *)
(* counters, which are atomic sums and left out, and the reservoirs: a     *)
(* deposit is two atomic additions and five plain stores, each a step of   *)
(* its own.  Gain and power are left out but for what ends a ray.          *)
(***************************************************************************)
EXTENDS PumpRelay

CONSTANTS
    Rays,               \* the rays of pass 0; Rays[1] of every pass
    StartsOf,           \* policy -> the states a ray may start in
    RelaysOf,           \* policy -> the lists of relays or reflecting surfaces
    ReflectedWeights,   \* incident weight times boundaryReflectance
    SlotsPerFace,
    MaxTraversalSteps,
    MaxPasses           \* bound on reflected passes and on stages of a step

ASSUME BoundsAssumption ==
    /\ {SlotsPerFace, MaxTraversalSteps, MaxPasses, MaxImmediateFaceTransitions} \subseteq Nat \ {0}
    /\ ReflectedWeights \subseteq Nat

Policies == {"escape", "store", "relay", "reflect"}
BoundaryFaces == {FaceId(at[1], at[2]) : at \in Boundary}
SlotIndices == 0 .. (SlotsPerFace - 1)
Fields == <<"x", "y", "z", "weight", "sigma">>

States == [position : Positions, direction : Vectors, cell : Cells,
           forbiddenFace : Faces \cup {None}]

\* A ray starts inside of its cell, or on a face that it does not leave through.
ASSUME StartsAssumption ==
    \A kind \in Policies : \A from \in StartsOf[kind] :
        /\ from \in States
        /\ InCell(from.cell, from.position)
        /\ from.forbiddenFace # None =>
              DirectionalChange(from.cell, from.forbiddenFace, from.direction) >= 0

ASSUME RelaysAssumption ==
    /\ \A kind \in Policies : \A list \in RelaysOf[kind] :
          list \in Seq({list[i] : i \in DOMAIN list})
    /\ \A list \in RelaysOf["relay"] : \A i \in DOMAIN list :
          /\ {list[i].exit, list[i].entry} \subseteq PumpSurfaces
          /\ {list[i].flipU, list[i].flipV, list[i].cosine, list[i].sine} \subseteq Int
          /\ list[i].magnification \in Int \X (Nat \ {0})
          /\ list[i].offset \in Int \X Int \X (Nat \ {0})

VARIABLES
    policy,      \* the boundary policy of the launch
    relays,      \* its relays
    pass,        \* reflectionPass, or the stage that is traced
    pc,          \* pc[r]: where in the walk ray r is
    start,       \* start[r]: originX, directionX, cell, forbiddenFace, ...
    ray,         \* ray[r]: its TraversalState
    relayIndex,  \* relayIndex[r]
    sigmaIndex,  \* sigmaIndex[r]: its spectral bin
    face,        \* face[r]: the local face of the cell it has come out of
    steps,       \* steps[r]: iterations of the loop in walk
    segment,     \* segment[r]: the last one booked, [cell, from, to]
    torn,        \* torn[r]: history, it or a ray before it started from a slot two rays wrote
    reservoir,   \* the reservoir of the pass: counts, faceWeights and slots, by face
    deposit,     \* deposit[r]: the reflection it brings, the slot, stores done
    cache        \* cache[i]: cacheState, cacheTargetFace, ... of relay i

launchVars == <<policy, relays, start>>
rayVars == <<pc, ray, relayIndex, sigmaIndex, face, steps, segment>>
sharedVars == <<pass, torn, reservoir, deposit, cache>>
vars == <<launchVars, rayVars, sharedVars>>

NoSegment == [cell |-> None]
\* clearReservoir resets counts and weights; the slots keep what they held, which
\* nothing reads before it is overwritten, and which is not kept here.
EmptySlot == [x |-> 0, y |-> 0, z |-> 0, weight |-> 0, sigma |-> 0]
EmptyReservoir ==
    [id \in BoundaryFaces |-> [count |-> 0, faceWeight |-> 0,
                               slots |-> [i \in SlotIndices |-> EmptySlot]]]
NoDeposit == [brings |-> EmptySlot, seen |-> 0, slot |-> None, stored |-> 0]

\* A ray that starts on a face, as the pump source's do, goes away from it.
FromFace(id, position, direction) ==
    [position |-> position, direction |-> direction,
     cell |-> CellOf(id), forbiddenFace |-> FaceOf(id)]

\* The rays of the reservoir method race for the slots; one ray shows the others.
Active(r) == policy = "store" \/ r = Min(Rays)

\* Every ray at its start, before the loop of walk.
Launch(starts) ==
    /\ ray' = starts
    /\ pc' = [r \in Rays |-> IF r = Min(Rays) THEN "walking" ELSE "ended"]
    /\ relayIndex' = [r \in Rays |-> 0]
    /\ face' = [r \in Rays |-> None]
    /\ steps' = [r \in Rays |-> 0]
    /\ segment' = [r \in Rays |-> NoSegment]

Init ==
    /\ policy \in Policies
    /\ relays \in RelaysOf[policy]
    /\ pass = 0
    /\ start \in IF policy = "store" THEN [Rays -> StartsOf[policy]]
                ELSE {[r \in Rays |-> from] : from \in StartsOf[policy]}
    /\ ray = start
    /\ pc = [r \in Rays |-> IF Active(r) THEN "walking" ELSE "ended"]
    /\ relayIndex = [r \in Rays |-> 0]
    /\ sigmaIndex = [r \in Rays |-> r]
    /\ face = [r \in Rays |-> None]
    /\ steps = [r \in Rays |-> 0]
    /\ segment = [r \in Rays |-> NoSegment]
    /\ torn = [r \in Rays |-> FALSE]
    /\ reservoir = IF policy = "store" THEN EmptyReservoir ELSE <<>>
    /\ deposit = [r \in Rays |-> NoDeposit]
    /\ cache = [i \in 1 .. Len(relays) |-> Unknown]

-----------------------------------------------------------------------------
\* ray::walk

Goto(r, place) == pc' = [pc EXCEPT ![r] = place]
Ahead(r) ==
    NextFaceIntersections(ray[r].cell, ray[r].position, ray[r].direction, ray[r].forbiddenFace)

\* Where the ray is after a face transition at position.  The loop ends after
\* MaxTraversalSteps faces; the code has 10000.
Follow(r, transition, position) ==
    LET entered == transition.status = "enteredCell"
        lost == \/ transition.status = "failed"
                \/ entered /\ steps[r] + 1 = MaxTraversalSteps
    IN  /\ steps' = [steps EXCEPT ![r] = @ + 1]
        /\ ray' = [ray EXCEPT ![r] =
                     [position |-> position, direction |-> @.direction, cell |-> transition.cell,
                      forbiddenFace |-> IF entered THEN transition.forbiddenFace
                                        ELSE @.forbiddenFace]]
        /\ face' = [face EXCEPT ![r] = IF entered THEN @ ELSE transition.boundaryFace]
        /\ Goto(r, IF lost THEN "failed" ELSE IF entered THEN "walking" ELSE "atBoundary")

\* The cell policy books the segment, the ray advances and changes the cell.
CrossCell(r) ==
    /\ pc[r] = "walking"
    /\ \E intersection \in Ahead(r) \ {NoIntersection} :
          LET to == Advance(ray[r].position, ray[r].direction, intersection)
          IN  /\ segment' = [segment EXCEPT ![r] = [cell |-> ray[r].cell,
                                                    from |-> ray[r].position, to |-> to]]
              /\ Follow(r, TransitionAcrossIntersection(ray[r].cell, intersection, to,
                                                        ray[r].direction), to)
    /\ UNCHANGED <<launchVars, sharedVars, relayIndex, sigmaIndex>>

\* The cell policy of the pump: the power overflows, or is used up in this cell.
Absorbed(r) ==
    /\ pc[r] = "walking"
    /\ policy \in {"relay", "reflect"}
    /\ Ahead(r) # {NoIntersection}
    /\ Goto(r, "ended")
    /\ UNCHANGED <<launchVars, sharedVars, ray, relayIndex, sigmaIndex, face, steps, segment>>

\* No face ahead: a ray that stands on a face may leave through another one.
RecoverFace(r) ==
    /\ pc[r] = "walking"
    /\ NoIntersection \in Ahead(r)
    /\ LET at == ray[r]
           exit == IF IsNearFace(at.cell, at.position)
                   THEN ImmediateExitFace(at.cell, at.position, at.direction, at.forbiddenFace)
                   ELSE None
       IN  IF exit = None
           THEN Goto(r, "failed") /\ UNCHANGED <<ray, face, steps>>
           ELSE Follow(r, RecoverFaceTransition(at.cell, exit, at.position, at.direction),
                       at.position)
    /\ UNCHANGED <<launchVars, sharedVars, relayIndex, sigmaIndex, segment>>

-----------------------------------------------------------------------------
\* BoundaryPolicyEscape and StoreReflectionBoundary.

Escape(r) ==
    /\ pc[r] = "atBoundary"
    /\ policy = "escape"
    /\ Goto(r, "ended")
    /\ UNCHANGED <<launchVars, sharedVars, ray, relayIndex, sigmaIndex, face, steps, segment>>

FaceOfRay(r) == FaceId(ray[r].cell, face[r])

\* depositReflection: nothing is left where nothing is reflected.
Reflect(r) ==
    /\ pc[r] = "atBoundary"
    /\ policy = "store"
    /\ \E weight \in ReflectedWeights :
          LET d == ReflectedDirection(ray[r].direction, OutwardFaceNormal(ray[r].cell, face[r]))
              brings == [x |-> d[1], y |-> d[2], z |-> d[3],
                         weight |-> weight, sigma |-> sigmaIndex[r]]
          IN  IF weight = 0
              THEN Goto(r, "ended") /\ UNCHANGED deposit
              ELSE Goto(r, "counting") /\ deposit' = [deposit EXCEPT ![r].brings = brings]
    /\ UNCHANGED <<launchVars, pass, torn, reservoir, cache,
                   ray, relayIndex, sigmaIndex, face, steps, segment>>

Count(r) ==
    /\ pc[r] = "counting"
    /\ deposit' = [deposit EXCEPT ![r].seen = reservoir[FaceOfRay(r)].count]
    /\ reservoir' = [reservoir EXCEPT ![FaceOfRay(r)].count = @ + 1]
    /\ Goto(r, "weighing")
    /\ UNCHANGED <<launchVars, pass, torn, cache,
                   ray, relayIndex, sigmaIndex, face, steps, segment>>

\* replacementProbability = min(1, slots * weight / (priorWeight + weight)).
MayBeRejected(weight, priorWeight) == SlotsPerFace * weight < priorWeight + weight

\* A slip: one slot more than there is.
FirstIn_OffByOne(seen) == seen <= SlotsPerFace

\* The slots of a face are filled in turn.
FirstIn(seen) == seen < SlotsPerFace

\* The face weight, and the slot: the first ones in turn, then one at random.
Weigh(r) ==
    LET id == FaceOfRay(r)
        weight == deposit[r].brings.weight
    IN  /\ pc[r] = "weighing"
        /\ reservoir' = [reservoir EXCEPT ![id].faceWeight = @ + weight]
        /\ IF FirstIn(deposit[r].seen)
           THEN /\ deposit' = [deposit EXCEPT ![r].slot = deposit[r].seen]
                /\ Goto(r, "storing")
           ELSE \/ /\ MayBeRejected(weight, reservoir[id].faceWeight)
                   /\ Goto(r, "ended") /\ UNCHANGED deposit
                \/ \E slot \in SlotIndices :
                      /\ deposit' = [deposit EXCEPT ![r].slot = slot]
                      /\ Goto(r, "storing")
        /\ UNCHANGED <<launchVars, pass, torn, cache,
                       ray, relayIndex, sigmaIndex, face, steps, segment>>

\* One plain store of the five.
StoreField(r) ==
    LET field == Fields[deposit[r].stored + 1]
    IN  /\ pc[r] = "storing"
        /\ reservoir' = [reservoir EXCEPT ![FaceOfRay(r)].slots[deposit[r].slot][field] =
                            deposit[r].brings[field]]
        /\ deposit' = [deposit EXCEPT ![r].stored = @ + 1]
        /\ Goto(r, IF deposit[r].stored + 1 = Len(Fields) THEN "ended" ELSE "storing")
        /\ UNCHANGED <<launchVars, pass, torn, cache,
                       ray, relayIndex, sigmaIndex, face, steps, segment>>

-----------------------------------------------------------------------------
\* DevicePumpRelayBoundary and PumpBarycentricSrmBoundary.

\* The state the ray goes on in from point at of face id.
Continued(r, id, at, direction) ==
    [ray EXCEPT ![r] = FromFace(id, PositionFromTriangle(id, at), direction)]

\* Its power may be 0 after the relay, by the transmission or by underflow.
GoOn(r) ==
    /\ relayIndex' = [relayIndex EXCEPT ![r] = @ + 1]
    /\ \E ends \in BOOLEAN :
          Goto(r, IF ends THEN "ended"
                  ELSE IF steps[r] = MaxTraversalSteps THEN "failed" ELSE "walking")

\* A slip: the cache is indexed by the ray alone.
CacheIndex_RayOnly(index) == 1

\* The slot of the cache for the relay the ray is at.
CacheIndex(index) == index + 1

\* The last surface of the list is behind it, or this one is not in the list.
LeavesPump(r) ==
    relayIndex[r] < Len(relays) => ~IsExit(relays[relayIndex[r] + 1], FaceOfRay(r))

PumpEnds(r) ==
    /\ pc[r] = "atBoundary"
    /\ policy \in {"relay", "reflect"}
    /\ LeavesPump(r)
    /\ Goto(r, "ended")
    /\ UNCHANGED <<launchVars, sharedVars, ray, relayIndex, sigmaIndex, face, steps, segment>>

\* The point the ray leaves at, captured as coordinates and restored.
ExitPosition(r) ==
    PositionFromTriangle(FaceOfRay(r), TriangleBarycentric(FaceOfRay(r), ray[r].position))

Lookup(r, relay) ==
    EntryFor(relay, RelayFrame[relay.exit], RelayFrame[relay.entry], ExitPosition(r))

\* The ray comes in at entry, which the cache has or gets.
Enter(r, relay, entry) ==
    /\ cache' = [cache EXCEPT ![CacheIndex(relayIndex[r])] = entry]
    /\ IF entry = Vignetted
       THEN Goto(r, "ended") /\ UNCHANGED <<ray, relayIndex>>
       ELSE /\ ray' = Continued(r, entry.target, entry.at,
                                MappedDirection(relay, RelayFrame[relay.exit],
                                                RelayFrame[relay.entry], ray[r].direction))
            /\ GoOn(r)

RelayRay(r) ==
    /\ pc[r] = "atBoundary"
    /\ policy = "relay"
    /\ ~LeavesPump(r)
    /\ LET relay == relays[relayIndex[r] + 1]
           cached == cache[CacheIndex(relayIndex[r])]
       IN  Enter(r, relay, IF cached = Unknown THEN Lookup(r, relay) ELSE cached)
    /\ UNCHANGED <<launchVars, pass, torn, reservoir, deposit,
                   sigmaIndex, face, steps, segment>>

ReflectRay(r) ==
    /\ pc[r] = "atBoundary"
    /\ policy = "reflect"
    /\ ~LeavesPump(r)
    /\ LET id == FaceOfRay(r)
           index == CacheIndex(relayIndex[r])
           here == Found(id, TriangleBarycentric(id, ray[r].position))
           entry == IF cache[index] = Unknown THEN here ELSE cache[index]
       IN  /\ cache' = [cache EXCEPT ![index] = entry]
           /\ IF entry.target # id
              THEN Goto(r, "ended") /\ UNCHANGED <<ray, relayIndex>>
              ELSE /\ ray' = Continued(r, id, entry.at,
                                       ReflectedDirection(ray[r].direction,
                                           OutwardFaceNormal(ray[r].cell, face[r])))
                   /\ GoOn(r)
    /\ UNCHANGED <<launchVars, pass, torn, reservoir, deposit,
                   sigmaIndex, face, steps, segment>>

-----------------------------------------------------------------------------
\* The kernels of a run, one after the other on a queue.

KernelEnded == \A r \in Rays : pc[r] \in {"ended", "failed"}

\* AccumulateReflectedForwardPhiAse: a face by its weight, a slot by its weight,
\* and a ray from the centroid of the face in the direction of the slot.
NextReflectedPass ==
    /\ KernelEnded
    /\ policy = "store"
    /\ pass + 1 < MaxPasses
    /\ \E id \in {b \in BoundaryFaces : reservoir[b].faceWeight > 0} :
       \E i \in 0 .. (Min({reservoir[id].count, SlotsPerFace}) - 1) :
          LET slot == reservoir[id].slots[i]
              from == FromFace(id, FaceCentroid(CellOf(id), FaceOf(id)),
                               <<slot.x, slot.y, slot.z>>)
          IN  /\ Launch([ray EXCEPT ![Min(Rays)] = from])
              /\ sigmaIndex' = [sigmaIndex EXCEPT ![Min(Rays)] = slot.sigma]
              /\ torn' = [torn EXCEPT ![Min(Rays)] =
                             @ \/ slot \notin {deposit[r].brings : r \in Rays}]
    /\ pass' = pass + 1
    /\ reservoir' = EmptyReservoir
    /\ deposit' = [r \in Rays |-> NoDeposit]
    /\ UNCHANGED <<launchVars, cache>>

\* The next stage of the integrator traces the same rays over again.
NextStage ==
    /\ KernelEnded
    /\ policy \in {"relay", "reflect"}
    /\ pass + 1 < MaxPasses
    /\ pass' = pass + 1
    /\ Launch(start)
    /\ UNCHANGED <<launchVars, sigmaIndex, torn, reservoir, deposit, cache>>

Terminated == KernelEnded /\ UNCHANGED vars

RayStep(r) ==
    \/ CrossCell(r) \/ Absorbed(r) \/ RecoverFace(r)
    \/ Escape(r) \/ Reflect(r) \/ Count(r) \/ Weigh(r) \/ StoreField(r)
    \/ PumpEnds(r) \/ RelayRay(r) \/ ReflectRay(r)

Next == NextReflectedPass \/ NextStage \/ Terminated \/ \E r \in Rays : RayStep(r)

Spec == Init /\ [][Next]_vars

-----------------------------------------------------------------------------
\* Types: a ray is in a cell and its slots are those of boundary faces.
TypeOK ==
    /\ policy \in Policies /\ relays \in RelaysOf[policy]
    /\ pass \in 0 .. (MaxPasses - 1)
    /\ \A r \in Rays :
          /\ pc[r] \in {"walking", "atBoundary", "counting", "weighing", "storing",
                        "ended", "failed"}
          /\ ray[r].cell \in Cells
          /\ ray[r].forbiddenFace \in Faces \cup {None}
          /\ face[r] \in Faces \cup {None}
          /\ steps[r] \in 0 .. MaxTraversalSteps
          /\ relayIndex[r] \in 0 .. Len(relays)
          /\ deposit[r].slot \in SlotIndices \cup {None}
          /\ pc[r] = "storing" => deposit[r].stored < Len(Fields)

\* A segment is booked in the cell it lies in, at both ends, however the ray got
\* there: through faces, edges and vertices, relays and reflections.  Only a ray
\* from a slot that two rays wrote at the same time may stray, and what it reflects.
SegmentsInside ==
    \A r \in Rays : segment[r] # NoSegment /\ ~torn[r] =>
        InCell(segment[r].cell, segment[r].from) /\ InCell(segment[r].cell, segment[r].to)

\* The ray stands on a face that it leaves through, and another one is ahead: the
\* first has a length of 0, and the walk goes by the second.
PassesOver(r) ==
    /\ pc[r] = "walking" /\ ~torn[r]
    /\ \E k, j \in Decreasing(ray[r].cell, ray[r].direction, ray[r].forbiddenFace) :
          /\ Coordinate(ray[r].cell, k, ray[r].position) = 0
          /\ Coordinate(ray[r].cell, j, ray[r].position) > 0

\* The walk may go on in two ways: the ray stands on a face, and rounding decides
\* whether it crosses it.
Wavers(r) == pc[r] = "walking" /\ \E one, other \in Ahead(r) : one # other

\* The ray stands on a face of the surface that its direction leaves through.
LeavesAtSurface(r) ==
    /\ <<ray[r].cell, face[r]>> \in Boundary
    /\ Coordinate(ray[r].cell, face[r], ray[r].position) = 0
    /\ DirectionalChange(ray[r].cell, face[r], ray[r].direction) < 0

\* No walk passes over a face, and none fails: within a few steps it has come to the
\* surface, and stands on a boundary face that its direction leaves through.  A ray
\* of the pump source, which starts on a face, goes away from it at once.
RaysComeOut ==
    \A r \in Rays : ~torn[r] =>
        /\ pc[r] # "failed"
        /\ ~PassesOver(r)
        /\ policy \in {"relay", "reflect"} => ~Wavers(r)
        /\ pc[r] = "atBoundary" => LeavesAtSurface(r)

\* What the cache holds for a relay is what a search would find for the ray that
\* is there now: power and stages change, but a ray keeps to its route.
CacheIsFresh ==
    \A r \in Rays :
        /\ pc[r] = "atBoundary"
        /\ policy \in {"relay", "reflect"}
        /\ ~LeavesPump(r)
        /\ cache[CacheIndex(relayIndex[r])] # Unknown
        => cache[CacheIndex(relayIndex[r])] =
              IF policy = "relay" THEN Lookup(r, relays[relayIndex[r] + 1])
              ELSE Found(FaceOfRay(r), TriangleBarycentric(FaceOfRay(r), ray[r].position))
=============================================================================

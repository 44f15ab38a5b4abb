--------------------------- MODULE RequestRecords ---------------------------
(***************************************************************************)
(* What one iteration of the openPMD input series carries, and what        *)
(* hase::openpmd::Parser (src/openpmd/OpenPmdParser.cpp) makes of it: the  *)
(* first iteration gives the complete context, every later one may replace *)
(* beta_volume and nothing else.                                           *)
(*                                                                         *)
(* An iteration is a record:                                               *)
(*   index     its number in the series                                    *)
(*   present   the mesh records and groups of attributes it contains       *)
(*   invalid   those of them whose metadata, extent, type or values the    *)
(*             parser refuses                                              *)
(*   static    haseStaticUpdate                                            *)
(*   listed    the settings validateDynamicOnlyIteration compares          *)
(*   unlisted  the settings and static arrays it does not compare          *)
(*   maxGpus   the attribute max_gpus                                      *)
(*   beta      the contents of beta_volume                                 *)
(***************************************************************************)
EXTENDS Naturals, Sequences, FiniteSetsExt

CONSTANTS
    DeviceCounts,  \* devices of every alpaka backend, in the order of enumeration
    Selected       \* the position of the backend the request names

ASSUME DeviceCountsAssumption == DeviceCounts \in Seq(Nat \ {0}) /\ Selected \in DOMAIN DeviceCounts

TopologyRecords == {"points", "cells_connectivity", "cells_offsets", "cells_types"}
RetiredTopology == {"vertices", "connectivity"}
NeighborRecords == {"cell_faces", "cell_neighbor_cells", "cell_neighbor_local_faces",
                    "cell_face_boundaries"}
MaterialRecords == {"cladding_cell_type", "refractive_index", "reflectivity"}
SpectraRecords == {"lambda_absorption", "lambda_emission", "sigma_absorption", "sigma_emission"}
OptionalRecords == {"surface_reflectivity", "surface_refractive_index_inside",
                    "surface_refractive_index_outside"}
DynamicRecords == {"beta_volume"}
StaticRecords == TopologyRecords \cup NeighborRecords \cup MaterialRecords \cup SpectraRecords
MeshRecords == StaticRecords \cup RetiredTopology \cup OptionalRecords \cup DynamicRecords

\* Attributes by the part of the context they set; "pump" are those that come
\* with pump_schema_version.
AttributeGroups == {"mesh", "experiment", "compute", "pump"}
RequestAttributes == {"mesh", "experiment", "compute"}

\* loadScalar, loadComponent, attribute: all of these are there and accepted.
Loads(it, names) == names \subseteq it.present \ it.invalid

\* loadBetaVolume; its values must be finite and not negative.
LoadsBeta(it) == Loads(it, DynamicRecords)

\* loadOptionalScalar, attributeOr: none of these is there and refused.
LoadsIfPresent(it, names) == names \cap it.present \cap it.invalid = {}
-----------------------------------------------------------------------------
ContainsStaticMeshUpdate(it) == it.present \cap (TopologyRecords \cup RetiredTopology) # {}

\* hasStaticMeshUpdate; it throws for a part of the topology and for the
\* retired records, which is "refused".
StaticMeshUpdate(it) ==
    CASE TopologyRecords \subseteq it.present -> "complete"
      [] TopologyRecords \cap it.present = {} /\ RetiredTopology \cap it.present = {} -> "none"
      [] OTHER -> "refused"

TopologyReadable(it) == Loads(it, TopologyRecords \cup NeighborRecords)

MeshReadable(it) ==
    /\ Loads(it, MaterialRecords \cup {"mesh"})
    /\ LoadsBeta(it)
    /\ LoadsIfPresent(it, OptionalRecords)

SpectraReadable(it) == Loads(it, SpectraRecords)

ExperimentReadable(it) == Loads(it, {"experiment"})

\* validateComputeSettings refuses write_vtk and devices.
ComputeReadable(it) == Loads(it, {"compute"})

\* The run control and the pump; a request has no pump.
RunControlReadable(it) == LoadsIfPresent(it, {"pump"})

\* The iteration gives a whole context.
Readable(it) ==
    /\ StaticMeshUpdate(it) = "complete"
    /\ TopologyReadable(it)
    /\ MeshReadable(it)
    /\ SpectraReadable(it)
    /\ ExperimentReadable(it)
    /\ ComputeReadable(it)
    /\ RunControlReadable(it)

\* readIteration: core::SimulationContext of a readable iteration.
ReadIteration(it) ==
    [listed |-> it.listed, unlisted |-> it.unlisted, numDevices |-> it.maxGpus,
     beta |-> it.beta]

\* A slip in the code that the checked properties must catch, like every
\* definition called a slip: only the number of devices is compared.
Unchanged_DevicesOnly(it, context) ==
    RequestAttributes \subseteq it.present => it.maxGpus = context.numDevices

\* validateUnchangedAttribute, for every attribute that is compared; an
\* attribute the iteration lacks is not compared.
Unchanged(it, context) ==
    RequestAttributes \subseteq it.present =>
        it.listed = context.listed /\ it.maxGpus = context.numDevices

ValidateDynamicOnly(it, context) ==
    /\ it.present \cap MeshRecords \subseteq DynamicRecords
    /\ ~it.static
    /\ LoadsIfPresent(it, {"compute"})
    /\ Unchanged(it, context)

\* A later iteration is accepted.
Updates(it, context) ==
    /\ ~ContainsStaticMeshUpdate(it)
    /\ ValidateDynamicOnly(it, context)
    /\ LoadsBeta(it)

\* updateDynamicIteration
UpdateDynamicIteration(it, context) == [context EXCEPT !.beta = it.beta]
-----------------------------------------------------------------------------
\* startSimulation changes compute.numDevices of the context it is given: zero
\* becomes the number of devices of the backend enumerated first, and more than
\* the selected backend has becomes what it has.
EffectiveDevices(numDevices) ==
    LET asked == IF numDevices = 0 THEN DeviceCounts[1] ELSE numDevices
    IN  Min({asked, DeviceCounts[Selected]})

StartSimulation(context) == [context EXCEPT !.numDevices = EffectiveDevices(@)]

\* A slip: every result is written as iteration 0, as writeResult does.
ResultOf_IterationZero(index, context) ==
    [index |-> 0, beta |-> context.beta, listed |-> context.listed,
     unlisted |-> context.unlisted]

\* writeResultIteration: what the result was computed from, under the number of
\* the request.
ResultOf(index, context) ==
    [index |-> index, beta |-> context.beta, listed |-> context.listed,
     unlisted |-> context.unlisted]
=============================================================================

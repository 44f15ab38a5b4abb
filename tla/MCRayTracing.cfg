SPECIFICATION Spec
CONSTANTS
  Points <- MCPoints
  CellPoints <- MCCellPoints
  CellFaces <- MCCellFaces
  NeighborCell <- MCNeighborCell
  NeighborFace <- MCNeighborFace
  FaceBoundary <- MCFaceBoundary
  MaxImmediateFaceTransitions = 32
  Rays = {1, 2}
  StartsOf <- MCStartsOf
  RelaysOf <- MCRelaysOf
  PumpSurfaces <- MCPumpSurfaces
  ReflectedWeights = {0, 1}
  SlotsPerFace = 1
  MaxTraversalSteps = 40
  MaxPasses = 3
INVARIANTS TypeOK SegmentsInside RaysComeOut CacheIsFresh

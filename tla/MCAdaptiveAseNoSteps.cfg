SPECIFICATION FairSpec
CONSTANTS
    NumWorkers = 2
    DefaultBatches = 3
    UnsignedRange = 16
    Cells = {c1, c2}
    RayLimits = {2, 4}
    FixedRayCounts = {0}
    StepCounts = {0, 2}
PROPERTIES SamplingAlwaysEnds

SPECIFICATION FairSpec
CONSTANTS
    NumWorkers = 2
    DefaultBatches = 3
    UnsignedRange = 16
    Cells = {c1, c2}
    RayLimits = {1, 2, 4, 5, 8}
    FixedRayCounts = {0, 1, 3}
    StepCounts = {0, 1, 2, 3}
INVARIANTS TypeOK NoAccountingError WorkersAgree StopsForAReason SrmStatusIsCurrent
PROPERTIES ConvergenceKept SamplingEnds

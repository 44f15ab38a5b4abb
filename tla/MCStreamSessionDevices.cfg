SPECIFICATION Spec
CONSTANTS
  DeviceCounts <- TwoBackends
  Selected = 2
  MaxRuns = 2
  MaxGpus = 4
INVARIANTS RunFailsForAReason

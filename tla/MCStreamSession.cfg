SPECIFICATION Spec
CONSTANTS
  DeviceCounts <- TwoBackends
  Selected = 2
  MaxRuns = 3
  MaxGpus = 1
INVARIANTS TypeOK AnswersMatch RunFailsForAReason NothingLeftBehind
PROPERTIES CallsReturn

SPECIFICATION Spec
CONSTANTS
    MaxWeight = 6
    Iterations = {0, 1, 4}
    Streaks = {1, 2, 3}
    TolNum = 1
    TolDen = 4
INVARIANTS TypeOK PassFollowsPass StatusIsTruthful

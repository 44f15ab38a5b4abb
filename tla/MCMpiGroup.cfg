SPECIFICATION FairSpec
CONSTANTS
    NumRanks = 3
    NumBatches = 4
    MaxRequests = 2
    MaxLaunches = 2
INVARIANTS TypeOK CallsMatch
PROPERTIES RanksExit ExchangeSpec
CHECK_DEADLOCK FALSE

SPECIFICATION FairSpec
CONSTANTS
    Workers = {w0, w1, w2}
    Root = w0
    MaxLaunches = 3
INVARIANTS TypeOK NoDataRace ResultIsOfThisCall WorkersAgree
PROPERTIES EvaluationEnds CollectivesSpec
CHECK_DEADLOCK FALSE

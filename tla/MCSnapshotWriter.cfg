SPECIFICATION FairSpec
CONSTANTS
    NumSnapshots = 5
    MaxPendingSnapshots = 1
INVARIANTS TypeOK WrittenInOrder BoundedBacklog NothingLostSilently
PROPERTIES FailureIsFinal RunEnds StreamSpec

SPECIFICATION Spec
CONSTANTS
    MaxSeq = 3
    MaxFeed = 1
    MaxTime = 3
    MaxWaits = {1}
    InitialSeq = 1
PROPERTIES SkipOnlyAfterAhead
CHECK_DEADLOCK FALSE

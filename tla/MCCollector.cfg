SPECIFICATION FairSpec
CONSTANTS
    Second = 2
    Durations = {3, 5, 9}
    Warmup = 4
    Timeout = 6
    QueryTimeout = 3
    MaxLate = 1
    MaxWait = 1
    MaxTime = 20
INVARIANTS
    WarmupExcluded
    RowOfOneRound
PROPERTIES
    CollectEnds

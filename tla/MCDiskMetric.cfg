SPECIFICATION DiskSpec
CONSTANTS
    MaxSize = 1
    CollectEvery = 2
    MaxDu = 1
    ScrapeEvery = 1
    StepEvery = 2
    Window = 7
    LookbackDelta = 1
    MaxTime = 13
    MaxChanges = 1
    MaxFailures = 1
CHECK_DEADLOCK FALSE
INVARIANTS
    SustainedIsSeen
    RowWasReal

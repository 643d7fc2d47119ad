SPECIFICATION FairSpec
CONSTANTS
    prometheus = prometheus
    loki = loki
    None = None
    Instruments <- MCInstruments
    LogBackends <- MCLogBackends
    Entry <- MCEntry
    ValidEntries <- MCValidEntries
    Total = 3
    MaxProcs = 2
INVARIANTS
    RowsMeasureTheirTry
    StrayIsExcused
PROPERTIES
    CancelStartsNothingNew
    CancelEnds
    BatchEnds
    ImplementsBatch

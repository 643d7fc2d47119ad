SPECIFICATION FairSpec
CONSTANTS
    Duration = 3
    SvcTimeout = 1
    ProbeTimeout = 1
    QueryTimeout = 3
    MaxBackoff = 2
INVARIANTS
    StopOnce
    AtMostOneQps
    OkAfterDuration
PROPERTIES
    TunnelEnds
    CancelEnds

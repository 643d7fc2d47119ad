SPECIFICATION Spec
CONSTANTS
    Duration = 3
    SvcTimeout = 1
    ProbeTimeout = 1
    QueryTimeout = 3
    MaxBackoff = 2
INVARIANT
    ReadLoadIsConstant

SPECIFICATION FairSpec
CONSTANTS
    pvc = pvc
    depl = depl
    cr = cr
    Objects <- MCObjects
    KindOf <- MCKindOf
    ForceAfter = 2
    Deadline = 5
    MaxCalls = 2
INVARIANTS
    ForcedPatiently
    OrphansReleased
    DeleteOnce
    ErrorIsExcused
PROPERTIES
    ImplementsDeletion
    CallReturns
    ForceUnsticks

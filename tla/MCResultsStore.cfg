SPECIFICATION Spec
CONSTANTS
    Procs = {p1, p2}
    Rows = {l1, l2, r1, r2}
    Legacy = {l1, l2}
    None = None
INVARIANTS
    NoRowLost
    FailureExcused
PROPERTY
    ImplementsTable

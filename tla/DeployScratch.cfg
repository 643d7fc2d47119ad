SPECIFICATION Spec
CONSTANTS
    Nodes = {n1}
    NoNode = NoNode
    MaxDeploys = 2
CHECK_DEADLOCK FALSE
INVARIANT
    FromScratch

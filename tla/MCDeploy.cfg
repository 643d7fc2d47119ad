SPECIFICATION Spec
CONSTANTS
    Nodes = {n1, n2}
    NoNode = NoNode
    MaxDeploys = 3
SYMMETRY Symmetric
CHECK_DEADLOCK FALSE
INVARIANTS
    ErrorsAreFresh
    OneGeneration
    RolesAreRecorded
    OkIsWhole
    ExporterFollowsPod

SPECIFICATION ServerSpec
CONSTANTS
    prometheus = prometheus
    loki = loki
    Subjects = {prometheus, loki}
    Null = Null
    NoReply = NoReply
    Plus <- QAdd
    Minus <- QSub
    Times <- QMul
    Over <- QDiv
    AtMost <- QAtMost
    Whole <- QWhole
    Pow <- MCPow
    Log <- MCLog
    Keys <- MCKeys
    Day = 4
    AlphaFew <- MCAlphaFew
    AlphaNone <- MCAlphaFew
    AlphaMin <- MCAlphaMin
    AlphaMax <- MCAlphaMax
    Rows <- MCRows
    Loads <- MCLoads
    Retentions <- MCRetentions
    MaxRows = 4
INVARIANTS
    Bracketed
    NeverCheaper
    OrderFree
    LeaveOneOut

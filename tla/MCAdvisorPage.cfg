SPECIFICATION FairSpec
CONSTANTS
    Metrics = {prometheus, victoria_metrics}
    Logs = {loki, opensearch}
    MaxEdits = 2
    None = None
INVARIANTS
    SideBySide
    NoEditLost
PROPERTIES
    EditIsShown

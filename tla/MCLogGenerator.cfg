SPECIFICATION Spec
CONSTANTS
    Lps = 5
    Parts = 2
    MaxBatch = 3
    Second = 4
    Timeout = 5
    Pause = 1
    MaxRounds = 2
INVARIANTS
    NeverFaster
    FullUnlessSlow

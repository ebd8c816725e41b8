SPECIFICATION MissFairSpec
CONSTANTS
    PEs = {c1, c2}
    Pages = {p, q, bad}
    BadPages = {bad}
    N = 3
    Kept <- FirstSlice
    MaxDateMh = 2
    Depth = 2
    Overlap = FALSE
    Reenables = FALSE
INVARIANTS
    MissTypeOK
    NeverRefused
    NoMissForgotten
    PinsExact
PROPERTY
    MissAnswered

SPECIFICATION RabSpec
CONSTANTS
    NSlices = 5
    MaxDate = 4
    NConst = 1
    NStriped = 2
    MaxSeg = 2
    MaxReqs = 3
    MaxSwitches = 2
    StrayFlags <- NoStray
    Dating <- ValidDates
    Unaligned = FALSE
CONSTRAINT Explored
CHECK_DEADLOCK FALSE
INVARIANTS
    RabTypeOK
    RefsExact
    UnlocksItsOwn
    HwPinned
    ReleaseUnpins

SPECIFICATION LibSpec
CONSTANTS
    HwDepth = 2
    RingSize = 2
    MaxTransfer = 2
    MaxMsgs = 2
    MaxResets = 0
    MaxRead = 2
    ConcurrentReset = FALSE
    LateService = FALSE
    WordBytes = 4
INVARIANTS
    ReadFillsBuffer

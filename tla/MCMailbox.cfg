SPECIFICATION Spec
CONSTANTS
    HwDepth = 2
    RingSize = 2
    MaxTransfer = 2
    MaxMsgs = 3
    MaxResets = 1
    MaxRead = 2
    ConcurrentReset = FALSE
    LateService = FALSE
INVARIANTS
    TypeOK
    InOrder
    NoLoss
    FramingInSync
    RabSerial
PROPERTY
    ImplementsChannel

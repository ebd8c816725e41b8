SPECIFICATION StripeSpec
CONSTANTS
    P = 2
    MaxSlices = 3
    Ids <- OneId
    Buffers <- SmallBuffers
    Rewinds = FALSE
INVARIANTS
    WindowMapped
    OnlyWindow
    TableCovers
    SlicesSuffice
    AlignedTranslates

SPECIFICATION FairSpec
CONSTANTS
    SizeofWireMbo = 8
    Offset <- SmallOffset
    Width <- SmallWidth
    Files <- SmallFiles
    ShortReads = TRUE
    ReadErrors = FALSE
    ChunkSizes = {1, 3, 8, 20}
INVARIANTS
    TypeOK
    Stitched
    ViewFresh
    BufferBound
    NulloptMeansExhausted
    StatsBalance
    DecodedExactly
PROPERTIES
    NothingSkipped
    ImplementsContract
    ConstructorReturns
    CallReturns

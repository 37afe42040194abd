SPECIFICATION BenchSpec
CONSTANTS
    SizeofWireMbo = 8
    Offset <- SmallOffset
    Width <- SmallWidth
    Files <- BenchFiles
    ShortReads = FALSE
    ReadErrors = TRUE
    ChunkSizes = {3, 20}
    PassArgs = {0, 1, 2}
INVARIANTS
    SubspanInside
    ModesAgree
    GateCatchesLoss
PROPERTY BenchTerminates

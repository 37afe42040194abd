SPECIFICATION ReplaySpec
CONSTANTS
    SizeofWireMbo = 8
    Offset <- SmallOffset
    Width <- SmallWidth
    Files <- SmallFiles
    ShortReads = FALSE
    ReadErrors = FALSE
    ChunkSizes = {5}
INVARIANTS
    SuccessMeansWholeFile
    FailureHasCause
PROPERTIES
    Terminates

SPECIFICATION BenchSpec
CONSTANTS
    SizeofWireMbo = 8
    Offset <- SmallOffset
    Width <- SmallWidth
    Files <- PlainFiles
    ShortReads = FALSE
    ReadErrors = FALSE
    ChunkSizes = {0}
    PassArgs = {1}
PROPERTIES
    BenchTerminates

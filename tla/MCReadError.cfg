SPECIFICATION Spec
CONSTANTS
    SizeofWireMbo = 8
    Offset <- SmallOffset
    Width <- SmallWidth
    Files <- FewFiles
    ShortReads = FALSE
    ReadErrors = TRUE
    ChunkSizes = {5}
INVARIANT NulloptMeansExhausted

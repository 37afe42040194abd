SPECIFICATION Spec
CONSTANTS
    SizeofWireMbo = 8
    Offset <- SmallOffset
    Width <- SmallWidth
    Files <- FewFiles
    ShortReads = FALSE
    ReadErrors = FALSE
    ChunkSizes = {1}
INVARIANT ChecksInAnyOrder

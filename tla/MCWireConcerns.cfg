SPECIFICATION Spec
CONSTANTS
    SizeofWireMbo = 56
    Offset <- DbnV1Offset
    Width <- DbnV1Width
    Files <- V1Files
    ShortReads = FALSE
    ReadErrors = FALSE
    ChunkSizes = {64}
INVARIANT WireConcernsValidated

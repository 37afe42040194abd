SPECIFICATION Spec
CONSTANTS
    SizeofWireMbo = 56
    Offset <- DbnV1Offset
    Width <- DbnV1Width
    Files <- V1Files
    ShortReads = TRUE
    ReadErrors = TRUE
    ChunkSizes = {0, 1, 55, 56, 57, 128}
INVARIANTS
    DecodedExactly
PROPERTIES
    EndIsFinal

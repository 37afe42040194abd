SPECIFICATION Spec
CONSTANTS
    SizeofWireMbo = 8
    Offset <- SmallOffset
    Width <- SmallWidth
    Chunks <- SmallChunks
    MaxFed = 8
INVARIANTS
    NothingLost
    SpansIntact
    DrainBounded
PROPERTIES
    CorruptIsFinal

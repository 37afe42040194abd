SPECIFICATION FairSpec
CONSTANTS
    SizeofWireMbo = 8
    Offset <- SmallOffset
    Width <- SmallWidth
    Files <- SmallFiles
INVARIANTS
    InsideMapping
    DecodedExactly
PROPERTIES
    ImplementsContract
    AlwaysReturns

SPECIFICATION ObjectsSpec
CONSTANTS
    SizeofWireMbo = 8
    Offset <- SmallOffset
    Width <- SmallWidth
    Files <- ObjectFiles
    FileSizes <- ObjectFileSizes
    Objects = {o1, o2, o3}
    Addresses = {a1, a2}
    nullptr = nullptr
INVARIANTS
    SoleOwner
    NoHandleLeak
    CursorInsideView
    MoveKeepsStream
PROPERTIES
    UnmappedOnlyByOwner

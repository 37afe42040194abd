SPECIFICATION TruncatedSpec
CONSTANTS
    SizeofWireMbo = 8
    Offset <- SmallOffset
    Width <- SmallWidth
    Files <- TruncatedFiles
    PageSize = 12
INVARIANTS
    OnlyTheLastIsTouched
    CleanEndHidesOnlyTheLast
PROPERTIES
    ReturnsOrKilled

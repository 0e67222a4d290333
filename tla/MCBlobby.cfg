SPECIFICATION ToolSpec
CONSTANTS
    Base = 2
    Blobs <- MCBlobs
    MaxBlobs = 3
    MaxData = 5
    MaxItems = 14
    Groups = {1, 2, 3, 4, 5, 6}
    Suites <- MCSuites
    KeySizes = {0, 128}
    Fields <- MCFields
INVARIANTS
    TypeOK
    RoundTrip
    ErrorIsLast
    VlqExact
    CasesReadBack
PROPERTIES
    ReadingEnds

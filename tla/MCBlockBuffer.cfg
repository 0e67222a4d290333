SPECIFICATION MCSpec
CONSTANTS
    BlockSize = 3
    Kind = "Eager"
    Data = {0, 7}
    MaxInput = 5
    MaxMsg = 7
INVARIANTS
    PosNeverBreaksInvariant
    StreamConserved
    SavedImageLoads
    ImageIsCanonical
    LazyStreamConserved
    ReaderPosNeverBreaksInvariant
    ReaderStreamConserved
    ReaderSavedImageLoads
    ReaderImageIsCanonical
PROPERTIES
    StreamSpec
    LazyStreamSpec

SPECIFICATION Spec
CONSTANTS
    BlockSize = 2
    Data = {0, 2, 128}
    Spare = 9
    Key = 1
    MaxLen = 4
    MaxSpare = 2
INVARIANTS
    TypeOK
    BlocksIndependent
    StaysInside
    RoundTrip
    StrictUnpadIsExact

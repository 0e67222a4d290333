SPECIFICATION SpecUnwind
CONSTANTS
    BlockSize = 3
    Kind = "Eager"
    Data = {0, 7}
    MaxInput = 4
    MaxMsg = 7
INVARIANT
    PosSurvivesUnwinding

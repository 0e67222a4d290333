SPECIFICATION Spec
CONSTANTS
    MaxLen = 4
    MaxViews = 3
    N = 2
INVARIANTS
    TypeOK
    ViewsDisjoint
    EveryByteXored
    NothingLeftOut

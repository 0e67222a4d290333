SPECIFICATION DeriveSpec
CONSTANTS
    Names = {a, b}
    MaxCells = 4
    FieldKinds = {"vec", "opt_array"}
    FieldCells = 1
    MaxMetas = 1
INVARIANT OnDropReachesFields

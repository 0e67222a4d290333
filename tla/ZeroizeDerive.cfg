SPECIFICATION DeriveSpec
CONSTANTS
    Names = {a, b}
    MaxCells = 4
    FieldKinds = {"vec", "opt_array"}
    FieldCells = 1
    MaxMetas = 2
INVARIANTS
    TypeOK
    SecretsErased
    AttributesChecked
PROPERTIES
    DerivedErases

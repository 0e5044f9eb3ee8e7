CONSTANTS
    Size = 12
    Encodings <- MC_Encodings
    JumpOpcodes = {2}
    NopCounts = {3}
    MaxLabels = 2
    MaxBinds = 2
SPECIFICATION Spec
INVARIANTS
    TypeOK
    JumpsLand
    FixupsAreExact
    FieldsAreApart
PROPERTIES
    OnlyBindMovesJumps
CHECK_DEADLOCK FALSE

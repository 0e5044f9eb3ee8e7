CONSTANTS
    Native = Native
    f = f
    g = g
    Callee = {Native, f, g}
    Symbols = {f}
    Classes = {"const", "binary", "unary", "convert", "call", "load", "store", "brif", "jmp", "ret"}
    MaxArgs = 1
    MaxBlocks = 2
    MaxParams = 1
    MaxBranchArgs = 1
    MaxInstructions = 2
    Ahead = 1
SPECIFICATION Spec
INVARIANTS
    TypeOK
    IdsAreUnique
    CheckedIsAnalysable
    NoFallThrough
CHECK_DEADLOCK FALSE

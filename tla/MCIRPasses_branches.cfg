CONSTANTS
    Native = Native
    f = f
    g = g
    Callee = {Native}
    Symbols = {}
    Classes = {"const", "brif", "ret"}
    MaxArgs = 2
    MaxBlocks = 2
    MaxParams = 1
    MaxBranchArgs = 1
    MaxInstructions = 3
    Ahead = 0
CONSTRAINT Tidy
SPECIFICATION Spec
INVARIANT EndIsLastUse
CHECK_DEADLOCK FALSE

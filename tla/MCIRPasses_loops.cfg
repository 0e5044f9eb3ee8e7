CONSTANTS
    Native = Native
    f = f
    g = g
    Callee = {Native}
    Symbols = {}
    Classes = {"load", "jmp", "ret"}
    MaxArgs = 1
    MaxBlocks = 2
    MaxParams = 1
    MaxBranchArgs = 0
    MaxInstructions = 3
    Ahead = 0
CONSTRAINT Tidy
SPECIFICATION Spec
INVARIANT RangesCoverLoops
CHECK_DEADLOCK FALSE

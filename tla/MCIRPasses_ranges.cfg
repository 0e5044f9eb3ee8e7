CONSTANTS
    Native = Native
    f = f
    g = g
    Callee = {Native}
    Symbols = {}
    Classes = {"load", "brif", "jmp", "ret"}
    MaxArgs = 1
    MaxBlocks = 3
    MaxParams = 1
    MaxBranchArgs = 0
    MaxInstructions = 4
    Ahead = 0
CONSTRAINT Tidy
SPECIFICATION Spec
INVARIANTS
    RangesCoverLiveness
    RangesFitAllocator
    MaxLiveIsPeak
CHECK_DEADLOCK FALSE

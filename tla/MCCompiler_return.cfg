CONSTANTS
    Native = Native
    rax = rax
    rcx = rcx
    rdx = rdx
    r10 = r10
    r11 = r11
    rbp = rbp
    rbx = rbx
    r12 = r12
    NoReg = NoReg
    GENERAL_PURPOSE <- MC_OneRegister
    ARG_REGISTERS <- MC_Arguments
    CALLEE_SAVED <- MC_Saved
    Callee = {Native}
    Symbols = {}
    Classes = {"binary", "ret"}
    MaxArgs = 2
    MaxBlocks = 1
    MaxParams = 2
    MaxBranchArgs = 0
    MaxInstructions = 2
    Ahead = 0
    N = 3
CONSTRAINT OfInterest
SPECIFICATION CompilerSpec
INVARIANTS
    ReturnsToItsCaller
CHECK_DEADLOCK FALSE

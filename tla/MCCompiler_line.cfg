CONSTANTS
    Native = Native
    rax = rax
    rcx = rcx
    rdx = rdx
    r10 = r10
    r11 = r11
    rbp = rbp
    rbx = rbx
    r12 = r12
    NoReg = NoReg
    GENERAL_PURPOSE <- MC_OneRegister
    ARG_REGISTERS <- MC_Arguments
    CALLEE_SAVED <- MC_Saved
    Callee = {Native}
    Symbols = {}
    Classes = {"const", "binary", "shift", "divide", "compare", "unary", "convert", "load", "store", "call", "jmp", "ret"}
    MaxArgs = 2
    MaxBlocks = 2
    MaxParams = 2
    MaxBranchArgs = 0
    MaxInstructions = 3
    Ahead = 0
    N = 4
CONSTRAINT OfInterest
SPECIFICATION CompilerSpec
INVARIANTS
    CompilerTypeOK
    ComputesTheIR
    CallsAreAligned
CHECK_DEADLOCK FALSE

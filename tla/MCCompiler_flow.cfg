CONSTANTS
    Native = Native
    rax = rax
    rcx = rcx
    rdx = rdx
    r10 = r10
    r11 = r11
    rbp = rbp
    rbx = rbx
    r12 = r12
    NoReg = NoReg
    GENERAL_PURPOSE <- MC_Pool
    ARG_REGISTERS <- MC_Arguments
    CALLEE_SAVED <- MC_Saved
    Callee = {Native}
    Symbols = {}
    Classes = {"const", "brif", "jmp", "ret"}
    MaxArgs = 2
    MaxBlocks = 3
    MaxParams = 1
    MaxBranchArgs = 0
    MaxInstructions = 4
    Ahead = 0
    N = 3
CONSTRAINT OfInterest
SPECIFICATION CompilerSpec
INVARIANTS
    RegistersServeInTurn
    ComputesTheIR
    GivesBackItsRegisters
CHECK_DEADLOCK FALSE

CONSTANTS
    rbx = rbx
    r12 = r12
    NoReg = NoReg
    N = 4
    Index = {0, 1, 2, 3}
    Reg = {rbx, r12}
    Hint = {rbx}
    Pool <- MC_Pool
    MaxRuns = 2
SPECIFICATION Spec
INVARIANTS
    TypeOK
    NoInterference
    OneHomeEach
    RegistersConserved
    HoldersAreLive
    SpillsOnlyUnderPressure
PROPERTIES
    SpillsFurthestEnd
    Returns
    IsRegisterAllocator
CHECK_DEADLOCK FALSE

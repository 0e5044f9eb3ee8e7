CONSTANTS
    Numbers <- MC_Numbers
    Shifts = {0, 1, 63}
    Sizes = {0, 8, 16}
    Long = 1
SPECIFICATION Spec
INVARIANTS
    ReadsAsMeant
    EndsBeforeTheNext
CHECK_DEADLOCK FALSE

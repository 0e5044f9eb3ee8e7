CONSTANTS
    Native = Native
    FunctionNames = {"f", "g", "ret"}
    Callee = {Native, "f", "g", "ret"}
    Details <- MC_Details
    Replacements <- MC_Replacements
    Classes = {"const", "binary", "shift", "divide", "compare", "unary", "convert", "call", "load", "store", "brif", "jmp", "ret"}
    MaxArgs = 1
    MaxBlocks = 2
    MaxParams = 2
    MaxBranchArgs = 1
    MaxInstructions = 2
    Ahead = 2
    Modulus = 16
    MaxFunctions = 2
    MaxCut = 4
    Followed = {"iconst", "isext32", "call"}
    MaxEdited = 25
    MaxCompiles = 2
    Linked = 3
CONSTRAINT OfInterest
SPECIFICATION PathSpec
INVARIANTS
    SessionTypeOK
    RoundTrip
    AcceptedPrintsBack
    AcceptedReadsAreDefined
    ResolvesOwnIds
    HandedOutIsWhole
    CallsReachTheNamed
    CompilesInCallOrder
    DiesOnlyAfterHandOut
PROPERTIES
    ReadingEnds
CHECK_DEADLOCK FALSE

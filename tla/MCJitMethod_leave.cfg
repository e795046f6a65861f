CONSTANTS
    TT <- MCTypes
    Locals <- MCLocals
    Instrs <- LeaveInstrs
    Clauses <- SingleFinally
    IlLength = 5
    MaxStackSize = 2
    ReturnType = "void"
    Int32Bits = 4
    NativeBits = 8
SPECIFICATION Spec
INVARIANT LeaveReachesTarget

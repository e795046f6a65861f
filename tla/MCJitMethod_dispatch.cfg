CONSTANTS
    TT <- MCTypes
    Locals <- MCLocals
    Instrs <- ThrowObjectInstrs
    Clauses <- CatchAll
    IlLength = 5
    MaxStackSize = 2
    ReturnType = "void"
    Int32Bits = 4
    NativeBits = 8
SPECIFICATION Spec
INVARIANT ThrowReachesHandler

CONSTANTS
    TT <- MCTypes
    Locals <- MCLocals
    Instrs <- JoinInstrs
    Clauses <- NoClauses
    IlLength = 7
    MaxStackSize = 2
    ReturnType = "void"
    Int32Bits = 4
    NativeBits = 8
SPECIFICATION Spec
INVARIANT JoinSound

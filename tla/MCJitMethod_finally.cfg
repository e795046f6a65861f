CONSTANTS
    TT <- MCTypes
    Locals <- MCLocals
    Instrs <- FinallyInstrs
    Clauses <- SingleFinally
    IlLength = 4
    MaxStackSize = 2
    ReturnType = "void"
    Int32Bits = 4
    NativeBits = 8
SPECIFICATION Spec
PROPERTY EndFinallyByExceptionAccepted

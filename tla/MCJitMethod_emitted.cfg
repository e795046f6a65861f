CONSTANTS
    TT <- MCTypes
    Locals <- MCLocals
    Instrs <- EmittedInstrs
    Clauses <- NoClauses
    IlLength = 5
    MaxStackSize = 3
    ReturnType = "void"
    Int32Bits = 4
    NativeBits = 8
SPECIFICATION Spec
INVARIANT EmittedCodeAgreesWithCli

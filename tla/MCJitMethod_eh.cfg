CONSTANTS
    TT <- MCTypes
    Locals <- MCLocals
    Instrs <- EhInstrs
    Clauses <- NestedClauses
    IlLength = 7
    MaxStackSize = 3
    ReturnType = "void"
    Int32Bits = 4
    NativeBits = 8
SPECIFICATION Spec
INVARIANT RegionDiscipline
INVARIANT ArrayAccessAgreesWithCli
INVARIANT CallArgumentsAgreeWithCli

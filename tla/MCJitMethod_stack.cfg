CONSTANTS
    TT <- MCTypes
    Locals <- MCLocals
    Instrs <- StackInstrs
    Clauses <- NoClauses
    IlLength = 5
    MaxStackSize = 2
    ReturnType = "void"
    Int32Bits = 4
    NativeBits = 8
SPECIFICATION Spec
INVARIANT TypeOK
INVARIANT DepthAgree
INVARIANT ConversionsAgreeWithCli
PROPERTY TranslatedSnapshotsFrozen

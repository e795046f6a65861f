CONSTANTS
    Threads <- MCThreads
    DefName = "G"
    Def <- MCDef
    Params <- MCParams
    Args <- MCArgs
    BaseOf <- MCBaseOf
    NoThread = NoThread
    NullType = NullType
SPECIFICATION Spec
INVARIANT InstanceWellFormed

CONSTANTS
    Threads <- MCThreads
    Types <- MCTypes
    StoreOrder = "fifo"
    NoThread = NoThread
SPECIFICATION Spec
INVARIANT TypeOK
INVARIANT UniqueDerivative
INVARIANT ReturnedFilled
PROPERTY EveryCallReturns
PROPERTY ImplementsAtomicDerivative

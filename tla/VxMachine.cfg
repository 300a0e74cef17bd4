SPECIFICATION Spec
CONSTANTS
    ByteBits = 8
    IntBytes = 2
    MemSize = 128
    MemBase = 1024
    ArgBytes = 4
    StackBase = 2048
    OrderRev <- SomeRev
    NativeResults <- Natives
    Imports <- HelloImports
    Code <- ThreadsCode
    Flow <- ThreadsFlow
    Data <- ZeroData
    Entry = 40
    ForcedArgs <- ThreadsArgs
    FreshFlags <- SomeFlags
    StackInts = 4
    MaxThreads = 6
INVARIANTS BalancedAtReturn OwnStack EveryThreadCountsOnce DivisionTruncatesOrTraps
PROPERTIES FollowsFlow EndsOrHoldsNobody

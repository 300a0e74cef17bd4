SPECIFICATION Spec
CONSTANTS
    ByteBits = 8
    IntBytes = 2
    MemSize = 128
    MemBase = 1024
    ArgBytes = 4
    StackBase = 2048
    OrderRev <- SomeRev
    NativeResults <- Natives
    Imports <- HelloImports
    Code <- HelloCode
    Flow <- HelloFlow
    Data <- HelloData
    Entry = 72
    ForcedArgs <- NoArgs
    FreshFlags <- AllFlags
    StackInts = 8
    MaxThreads = 1
INVARIANTS PrintfGetsItsParameters

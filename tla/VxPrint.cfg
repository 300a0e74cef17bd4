SPECIFICATION PrintSpec
CONSTANTS
    ByteBits = 8
    IntBytes = 2
    MemSize = 1024
    MemBase = 2048
    ArgBytes = 4
    StackBase = 4096
    OrderRev <- SomeRev
    NativeResults <- Natives
    Imports <- PrintImports
    Code <- PrintCode
    Flow <- PrintFlow
    Data <- PrintData
    Entry = 900
    ForcedArgs <- PrintArgs
    FreshFlags <- SomeFlags
    StackInts = 12
    MaxThreads = 1
INVARIANTS PrintsTheDecryptedBytes

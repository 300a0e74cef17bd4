SPECIFICATION LinesSpec
CONSTANTS
    ByteBits = 3
    IntBytes = 2
    MemSize = 4
    MemBase = 16
    ArgBytes = 2
    Imports <- TwoImports
    NativeResults <- NativeWords
    OrderRev = {}
    OtherRev <- AllOps
    Junk = 1
    OtherJunk = 2
    Lines <- AllLines
    StepLines <- SomeLines
    Words <- SomeWords
    StackBytes <- Stack
    MaxSteps = 2
CHECK_DEADLOCK FALSE
INVARIANTS EncodingDoesNotShow JumpsFollowOrder

SPECIFICATION Spec
CONSTANTS
    MemSize = 10
    BaseSize = 1
    IntSize = 1
    NextMod = 32
    DefaultEntry = 77
    TwoOps <- MCTwoOps
    OrderRev <- MCRev
    Junk = 99
    None = None
    Programs <- Sources
INVARIANTS TypeOK InstructionsKept OnlyWaitingPlaceIsLost ChainFollowsSource ReferencesResolved EntryIsMain

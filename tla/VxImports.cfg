SPECIFICATION Spec
CONSTANTS
    Sources <- FewSources
    VmStacks <- FourPushed
    Results <- TwoResults
    SavedEcx = 101
    SavedEdx = 102
    Frame <- HostFrame
    MaxCalls = 2
CHECK_DEADLOCK FALSE
INVARIANTS ParserAtRecord NatvCallsItsImport StacksBalanced ArgumentsArrive

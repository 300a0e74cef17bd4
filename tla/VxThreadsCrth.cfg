SPECIFICATION Spec
CONSTANTS
    Ips <- LoopIps
    Kind <- LoopKind
    Succ <- LoopSucc
    Entry = 0
    Targets <- LoopTargets
    MaxThreads = 8
PROPERTIES CrthCreatesOneThread

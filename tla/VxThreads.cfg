CONSTANTS
    Ips <- LoopIps
    Kind <- LoopKind
    Succ <- LoopSucc
    Entry = 0
    Targets <- LoopTargets
    MaxThreads = 8
SPECIFICATION Spec
INVARIANTS TypeOK RetiredIsIdle WaitIsBounded
PROPERTIES RetiredNeverRuns ImplementsPool NoStarvation

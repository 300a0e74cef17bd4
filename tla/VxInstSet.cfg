SPECIFICATION Spec
CONSTANTS
    Count = 3
    IdRange = 4
    IdJmp = 1
    IdRet = 2
    IdStk = 2
    ByteMod = 5
    Digit = 3
    JunkBytes = {0, 4}
INVARIANTS TypeOK IdsUnique LoadedAsGenerated
PROPERTIES GenerationEnds

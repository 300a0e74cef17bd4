CONSTANTS
    MAX_FILE = 3
    ALGO_LEN = 15
    WordMod = 268435456
    Algorithms <- MCAlgorithms
    Image <- MCImage
SPECIFICATION Spec
INVARIANTS FunctionIsCopiedWhole
PROPERTIES OneLayerOff FlagComesOut

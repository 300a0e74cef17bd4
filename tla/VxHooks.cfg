SPECIFICATION Spec
CONSTANTS
    Functions = {32, 64, 65488}
    FuncSize = 10
    Hooks = {32, 64, 3109, 53317}
    Blocks = {512, 640}
    Sizes = {4, 5, 9}
    MaxPatches = 3
CHECK_DEADLOCK FALSE
INVARIANTS LastPatchDecides

CONSTANTS
    B = 4
    MaxTrial = 1
    MaxBlocks = 2
    RootLabels = {2}
    WithRestore = TRUE
    Xor <- TableXor
SPECIFICATION Spec
INVARIANTS RingsWhole
PROPERTIES HeldUntouched ListsSpec

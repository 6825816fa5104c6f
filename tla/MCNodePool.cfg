CONSTANTS
    B = 4
    MaxTrial = 1
    MaxBlocks = 2
    RootLabels = {1, 2}
    WithRestore = FALSE
    Xor <- TableXor
SPECIFICATION Spec
INVARIANTS TypeOK RingsWhole CountsRight WantedFree
PROPERTIES HeldUntouched ListsSpec

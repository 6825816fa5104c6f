CONSTANTS
    B = 4
    MaxTrial = 1
    MaxBlocks = 8
    MaxTail = 12
    MaxValue = 1
    Values = {1}
    Preload <- Nothing
    Keys <- AllFirst
    WithReload = FALSE
    Xor <- TableXor
SPECIFICATION Spec
INVARIANTS LookupsRight

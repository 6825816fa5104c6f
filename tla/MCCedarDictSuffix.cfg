CONSTANTS
    B = 4
    MaxTrial = 1
    MaxBlocks = 8
    MaxTail = 9
    MaxValue = 1
    MinValue <- Lowest
    Values = {1}
    Stores <- StoredValues
    Deltas <- AddedValues
    InitialCapacity = 1
    Preload <- Nothing
    Keys <- DictKeys
    Queries <- Asked1
    WithReload = TRUE
    Xor <- TableXor
SPECIFICATION DictSpec
INVARIANTS SuffixOfTraversed

CONSTANTS
    B = 4
    MaxTrial = 1
    MaxBlocks = 8
    MaxTail = 13
    MaxValue = 1
    Values = {1}
    Preload <- Crowd
    Keys <- CrowdKeys
    WithReload = FALSE
    Xor <- TableXor
SPECIFICATION Spec
INVARIANTS LookupsRight ChainsMatchChecks TailDisjoint ShrinkFits RingsWhole ZeroSlack

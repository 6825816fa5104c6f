CONSTANTS
    B = 4
    MaxTrial = 1
    MaxBlocks = 8
    MaxTail = 2
    MaxValue = 1
    Values = {1}
    Preload <- Lines
    Keys <- ShortKeys
    Xor <- TableXor
SPECIFICATION Spec
INVARIANTS LookupsRight SlotsEarned ChainsAgree EnumerationRight PrefixesRight

CONSTANTS
    B = 3
    MaxTrial = 2
    MaxBlocks = 4
SPECIFICATION SearchSpec
INVARIANTS TypeOK ListsMatchBlocks HeadsHaveRoom EachOpenTried
PROPERTIES SearchEnds

CONSTANTS
    Header = 2
    ValueCells = 1
    MaxBlocks = 3
    MaxCells = 6
    MaxPlaces = 2
    MaxRest = 1
    Images <- TwoImages
SPECIFICATION Spec
PROPERTIES FailedLoadEmpties
CHECK_DEADLOCK FALSE

SPECIFICATION Spec
CONSTANTS
    NumWorkers = 3
    MaxErrors = 1
    TileHeights <- MCTileHeights
    TileWidths <- MCTileWidths
    ExtraDelay = 0
    LfRows = 2
    LfCols = 3
    LfPlanes = 1
    LfSyncRange = 2
    CdefHeight = 3
    LrRows = 3
    LrCols = 2
    LrPlanes = 1
INVARIANTS
    TypeOK
    RowsAreTakenOnce
    BlocksAreReady
    FlagsConsumed
    NoUnitsTouch
PROPERTIES
    StagesInOrder
    StageEnds
CHECK_DEADLOCK FALSE

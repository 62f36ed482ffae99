SPECIFICATION Spec
CONSTANTS
    Setups <- MCSetups
    MaxErrors = 2
INVARIANTS
    TypeOK
    TopRightEncoded
    RowsAreDisjoint
    FiltersEncodedRows
    OutcomeIsTrue
PROPERTIES
    WavefrontSpec
    FrameEnds
CHECK_DEADLOCK FALSE

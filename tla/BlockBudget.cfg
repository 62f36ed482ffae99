SPECIFICATION BudgetSpec
CONSTANTS
    Coefs = 16
    MaxResidual = 255
    StepNum = 62996
    StepDen = 100000
    LowClass = 5
    HighClass = 11
INVARIANT FrameFits
CHECK_DEADLOCK FALSE

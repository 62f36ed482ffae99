SPECIFICATION Spec
CONSTANTS
    MaxQ = 4
    BitRates <- MCBitRates
    Ranges <- MCRanges
    AlphaFrom = 2
    Counts <- MCCounts
    Total = 100
    Rates = {0, 3}
    Dists = {0, 4, 8, 15}
    Offsets = {0, 3, 9}
    NumModes = 3
    Infinity = 1000
INVARIANTS
    SegmentsMeetRates
    BestOfPlainBlocks
    CostOfTheChosen
CHECK_DEADLOCK FALSE

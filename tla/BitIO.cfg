SPECIFICATION BitSpec
CONSTANTS
    W = 4
    ByteBits = 4
    Capacity = 3
    Widths = {1, 2}
    UeValues <- MCUeValues
    SeValues <- MCSeValues
    MaxElements = 3
INVARIANTS
    RoundTrip
    SizeIsExact
PROPERTY EarlierBitsKept
CHECK_DEADLOCK FALSE

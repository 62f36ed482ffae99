SPECIFICATION Spec
CONSTANTS
    Setups <- MCSetups
    MaxSample = 3
    Mid = 2
    MaxQp = 2
    QpShift = 1
    QpCodes = 4
    QStep <- MCQStep
    Levels <- MCLevels
    MaxLag = 1
INVARIANTS
    PacketConsumed
    SameReference
    ReferenceDecodedFirst
PROPERTIES
    ChannelSpec
    Drains
CHECK_DEADLOCK FALSE

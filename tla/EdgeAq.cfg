SPECIFICATION Spec
CONSTANTS
    NumUnits = 2
    MaxSegment = 1
    BaseQ = {1, 2}
    Sizes = {64, 96}
    Slots = {s1, s2}
    MaxRecodes = 1
INVARIANTS
    SegmentsFit
    DecoderAgrees
    SegmentsPersist

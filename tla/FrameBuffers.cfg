SPECIFICATION Spec
CONSTANTS
    NumSlots = 2
    MaxLayers = 2
    NumBuffers = 5
INVARIANTS
    CountsAreHolders
    NeverExhausted
    MemoryGivenBack

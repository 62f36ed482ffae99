SPECIFICATION Spec
CONSTANTS
    MB = 16
    FrameW = 64
    FrameH = 32
    Scenes <- MCScenes
    Sad <- MCSad
INVARIANTS
    DecoderClipIsIdentity
    LocalMinimum
PROPERTY Returns
CHECK_DEADLOCK FALSE

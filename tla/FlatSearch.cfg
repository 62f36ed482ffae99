SPECIFICATION Spec
CONSTANTS
    MB = 16
    FrameW = 64
    FrameH = 32
    Scenes <- MCScenes
    Sad <- MCSad
INVARIANT FlatSearchesItsRange
CHECK_DEADLOCK FALSE

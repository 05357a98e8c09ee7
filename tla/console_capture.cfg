SPECIFICATION LiveSpec
CONSTANTS
    MAX_FRAME_BYTES = 2
    MaxFragments = 3
    FrameNames = 4
    MaxLine = 2
INVARIANT CaptureIsOneFrame
INVARIANT SessionReleased
PROPERTY CaptureEnds
CHECK_DEADLOCK FALSE

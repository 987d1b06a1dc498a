CONSTANTS
    EndOfMessage = 5
    Pause = 10
    Up = 0
    ChunksUp = 2
    GroundPause = 4
    Down = 1
    PartsDown = 2
    MaxLag = 1
    MaxDrops = 0
SPECIFICATION Spec
INVARIANT NeverFetchesEmpty
CHECK_DEADLOCK FALSE

CONSTANTS
    EndOfMessage = 5
    Pause = 10
    Up = 3
    ChunksUp = 2
    GroundPause = 12
    Down = 0
    PartsDown = 2
    MaxLag = 4
    MaxDrops = 1
SPECIFICATION FairSpec
INVARIANT WholeMessages
PROPERTY CommandsPassedOn
CHECK_DEADLOCK FALSE

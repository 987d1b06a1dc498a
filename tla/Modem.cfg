CONSTANTS
    EndOfMessage = 5
    Pause = 10
    Up = 2
    ChunksUp = 2
    GroundPause = 7
    Down = 2
    PartsDown = 2
    MaxLag = 1
    MaxDrops = 1
SPECIFICATION FairSpec
INVARIANTS
    ModemInv
    HandledOnceInOrder
    FetchedWrittenWhole
PROPERTY DownlinkSent
CHECK_DEADLOCK FALSE

CONSTANTS
    MaxMessages = 4
    MaxRuns = 2
SPECIFICATION FairSpec
INVARIANTS
    NeverFetchesEmpty
    EveryMessageInOrder
    SystemForwarded
    LoggerInv
PROPERTY ImplementsMessageLog

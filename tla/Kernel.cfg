CONSTANTS
    Other = {m1, m2}
    WATCHDOG = WATCHDOG
    None = None
    rate_ms = 2
    IsrCycles = {1}
    TaskCycles = {1, 2}
    MaxBurst = 1
    MaxWaiting = 1
SPECIFICATION FairSpec
INVARIANTS
    NoNullModule
    TaskFiguresExact
    KernelInv
PROPERTY HealthReportedAgain

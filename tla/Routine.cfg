CONSTANTS
    Period = 16
    Stamp = {"startup_time", "last_update", "last_telemetry", "last_on_time",
             "last_flush", "last_request"}
    MaxLag = 2
    MaxDrops = 1
    UpdatePeriod = 2
    TelemetryPeriod = 3
    LockAfter = 5
    RequestPeriod = 4
    OnTime = 3
    BlinkPeriod = 6
    FlushPeriod = 3
    Logged = 2
    Channel = {c1, c2}
    Activated = {c1}
    Limits = {low, high}
    Setpoint = {low, high, beyond}
    Steered = 2
    SetupTimes = {0, 7}
SPECIFICATION Spec
INVARIANTS
    ElapsedIsTicks
    RoutineInv
    RatesKept
    StateReportedOnce
    FileInOrder
    ServoFollows
PROPERTIES
    FlashesLongEnough
    WorkGetsDone
    MessagesGetHandled

CONSTANTS
    MaxLag = 6
    MaxDrops = 1
    CalibPeriod = 2
    OtherNames = {"redraw"}
    Others <- MCOthers
    Faults = {"write", "read", "check"}
    Receivers <- MCReceivers
    UpdatePeriod = 3
    NumCycles = 1
SPECIFICATION Spec
INVARIANTS
    BusExclusive
    MotionInv
    OnlyAddressErrorsUnnoticed
    CountsExact
PROPERTIES
    UpdatesNotCutShort
    KeepsDrawing
    KeepsMeasuring
    ImplementsMotion

CONSTANTS
    MaxLag = 2
    MaxDrops = 1
    CalibPeriod = 2
    OtherNames = {"redraw"}
    Others <- MCOthers
    Faults = {"write"}
    Receivers <- MCReceivers
    UpdatePeriod = 3
    NumCycles = 1
SPECIFICATION Spec
INVARIANT ErrorsReported

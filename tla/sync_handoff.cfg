SPECIFICATION Spec
CONSTANTS
    PerLedger = 1
    PageSize = 1
    Retention = 2
    MovesOn = FALSE
    MaxLedger = 4
    MaxEvents = 8
    Redirect = 1
    Start = Start
    None = None
    Faults = {}
INVARIANT
    HandoffComplete
CHECK_DEADLOCK FALSE

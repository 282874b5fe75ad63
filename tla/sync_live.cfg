SPECIFICATION LiveSpec
CONSTANTS
    PerLedger = 2
    PageSize = 1
    Retention = 2
    MovesOn = TRUE
    MaxLedger = 2
    MaxEvents = 8
    Redirect = 1
    Start = Start
    None = None
    Faults = {"upstream"}
PROPERTIES
    BothCatchUp
CHECK_DEADLOCK FALSE

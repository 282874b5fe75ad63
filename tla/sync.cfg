SPECIFICATION Spec
CONSTANTS
    PerLedger = 2
    PageSize = 2
    Retention = 2
    MovesOn = TRUE
    MaxLedger = 4
    MaxEvents = 4
    Redirect = 1
    Start = Start
    None = None
    Faults = {"reload", "restart", "upstream", "probe"}
INVARIANTS
    CacheFaithful
    NothingMissed
PROPERTIES
    NoStepBack
CHECK_DEADLOCK FALSE

SPECIFICATION AllSpec
CONSTANTS
    e1 = e1
    e2 = e2
    Employees <- MCEmployees
    Wage <- MCWage
    Salts = {s1, s2}
    BatchSize = 2
    Budget = 3
    Funds = 6
    MaxPeriod = 2
    None = None
    Scripts = {t1, t2}
    MaxTimeouts = 2
    ScriptWage = 1
SYMMETRY ScriptSymmetry
INVARIANTS
    DeskPeriodsWithdrawable
    DeskTellsTheTruth
    ScriptsSettle
PROPERTIES
    AreEmployers
CHECK_DEADLOCK FALSE

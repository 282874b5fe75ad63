SPECIFICATION AllSpec
CONSTANTS
    None = None
    TransactionLimit = 4
    IterationLimit = 5000
    Amounts = {1, 2, 5}
    MaxNotes = 5
    MaxSessions = 2
    Users = {alice, bob}
    NoteMax = 3
    ExtMax = 1
    Field = 13
    MaxAmount = 4
    RootHistorySize = 2
    Capacity = 6
    Parts = {0, 1, 2}
    MaxPrepared = 3
    MaxText = 2
    Vks = {v1, v2}
    MaxReceipts = 1
    ReceiptsUntil = 1
    Base = 4
    FieldSize = 2
    MaxItems = 2
    FieldCells = 2
    FileField = 3
    Wires = 4
    Unknown = 9
    HalfFull = 2
    Partial = 3
    Elements = {0, 1, 5, 12}
    Levels = 2
    BatchSize = 2
SYMMETRY SpendSymmetry
INVARIANTS
    BestPlan
    SessionOnTrack
    
    PreparedIsAccepted
    WalletsAddUp
    ReceiptsAreSound
    ProofsAsMeant
CHECK_DEADLOCK FALSE

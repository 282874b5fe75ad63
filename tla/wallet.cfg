SPECIFICATION AllSpec
CONSTANTS
    Accounts = {alice}
    Nobody = Nobody
    FetchLimit = 3
    MaxEvents = 9
    MaxLedger = 3
    MaxRepeats = 1
    MaxCrashes = 1
    None = None
    Flows = {f1, f2}
    Elsewhere = Elsewhere
    Word = 2
    BaseFee = 1
    FeeMax = 3
    ResourceFees = {1, 3}
    AuthExpirationLedgers = 1
    PollAttempts = 2
    LastLedger = 3
    MaxElsewhere = 1
    LimbWord = 2
    Modulus = 11
    TreeCapacity = 4
    IndexWord = 4
    KeyLength = 2
SYMMETRY FlowSymmetry
INVARIANTS
    NothingLost
    
    AnswersAreTrue
    ExecutedAsPrepared
PROPERTIES
    ProvesUnspentNotes
CHECK_DEADLOCK FALSE

SPECIFICATION Spec
CONSTANTS
    Keys = {alice, bob}
    NoteAmounts = {0, 1, 5}
    MaxAmount = 2
    Field = 6
    MaxExt = 1
    MaximumDeposit = 1
    RootHistorySize = 2
    Capacity = 6
SYMMETRY KeySymmetry
INVARIANTS
    TypeOK
    Backed
    OwnersCanWithdraw
PROPERTIES
    OnlyApprovedSpend

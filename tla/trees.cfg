SPECIFICATION TreesSpec
CONSTANTS
    Levels = 3
    ZeroLeaf = ZeroLeaf
    Leaves = {c1, c2}
    RootHistorySize = 3
    MemberLeaves = {k1, k2}
    Callers = {admin1, other}
    KeyBits = 3
    Keys = {0, 1, 2, 4}
    Values = {1}
    SmtLevels = 2
    LibraryValues = {1, 2}
    MaxUpdates = 1
SYMMETRY TreesSymmetry
INVARIANTS
    RootsRebuilt
    BlockedTreeSound
    AbsenceProvable
    SparseTreesSound
CHECK_DEADLOCK FALSE

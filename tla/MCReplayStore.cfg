SPECIFICATION Spec
CONSTANTS
    NumBattles = 4
    PageSize = 1
    Size <- TeamSize
    Viable <- AllViable
INVARIANTS Linked StoredOnce NothingLeftOut

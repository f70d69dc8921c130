SPECIFICATION Spec
CONSTANTS
    p1 = p1
    p2 = p2
    Account <- MCAccount
    NoAdmin = NoAdmin
    MaxU32 = 2
    MaxLedger = 2
SYMMETRY Symmetry
INVARIANTS TypeOK AwardsAreHistory
PROPERTIES RetirementFinal

SPECIFICATION Spec
CONSTANTS
    p1 = p1
    p2 = p2
    Account <- MCAccount
    Signer <- MCAccount
    NoAdmin = NoAdmin
    NoBadge = NoBadge
    MaxU32 = 3
SYMMETRY Symmetry
INVARIANTS TypeOK OwnerIndexExact
PROPERTIES Soulbound

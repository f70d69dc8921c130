SPECIFICATION Spec
CONSTANTS
    p1 = p1
    p2 = p2
    n1 = n1
    n2 = n2
    Account <- MCAccount
    Username <- MCUsername
    NoAdmin = NoAdmin
    NoProfile = NoProfile
    Nobody = Nobody
    GameId = {g1}
    AchievementId = {a1}
    TokenId = {b1}
    MaxU32 = 2
    MaxI128 = 1
SYMMETRY Symmetry
INVARIANTS TypeOK IndexExact WinsArePlayed RecordedOnce
PROPERTIES BanFreezes

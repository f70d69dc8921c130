SPECIFICATION FairSpec
CONSTANTS
    p1 = p1
    p2 = p2
    Account <- MCAccount
    Contract = Contract
    RewardToken = {usdc}
    NoAdmin = NoAdmin
    NoTournament = NoTournament
    Fees <- MCFees
    Amounts <- MCAmounts
    Splits <- MCSplits
    Rankings <- MCRankings
    MaxU32 = 2
    MaxI128 = 20000
    Minted <- MCMinted
INVARIANTS TypeOK Solvent PaidExactly
PROPERTIES PursesAreSeparate DuesDrawn
\* Once every id is used and every tournament is closed nothing is left to do.
CHECK_DEADLOCK FALSE

SPECIFICATION Spec
CONSTANTS
    p1 = p1
    p2 = p2
    Account <- MCAccount
    Minted <- MCMinted
    Pool = Pool
    NoAdmin = NoAdmin
    Achievement = {a1}
    MaxI128 = 3
INVARIANTS TypeOK TotalBacked LedgerBalanced ClaimedOnce
PROPERTIES ClaimsFromDeposits DebitIsPaid

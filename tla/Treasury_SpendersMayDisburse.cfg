SPECIFICATION Spec
CONSTANTS
    p1 = p1
    p2 = p2
    Account <- MCAccount
    Contract = Contract
    TokenContract = {usdc, xlm}
    NoAdmin = NoAdmin
    MaxI128 = 2
    Minted <- MCMinted
SYMMETRY Symmetry
INVARIANT SpendersMayDisburse

SPECIFICATION FairSpec
CONSTANTS
    adm = adm
    p1 = p1
    q1 = q1
    q2 = q2
    q3 = q3
    bad = bad
    h12 = h12
    h3 = h3
    hbad = hbad
    a1 = a1
    a2 = a2
    n1 = n1
    n2 = n2
    Account <- MCAccount
    Players <- MCAccount
    Admin = adm
    RegAdmin = p1
    Orchestrator = Orchestrator
    Pool = Pool
    NoAdmin = NoAdmin
    NoBadge = NoBadge
    NoProfile = NoProfile
    Nobody = Nobody
    NoCall = NoCall
    NoJournal = NoJournal
    Proof <- MCProof
    WellFormed <- MCWellFormed
    Digest <- MCDigest
    Inputs <- MCInputs
    Achievement = {a1, a2}
    Username = {n1, n2}
    GameId = {g1}
    UsernameOf <- MCUsernameOf
    Minted <- MCMinted
    Funds = 2
    RepPerClaim <- MCRepPerClaim
    Requests <- MCRequests
    Retried <- MCRetried
    MaxU32 = 2
    MaxI128 = 3
    MaxOthers = 1
INVARIANTS TypeOK ReceiptBacked ClaimedAtMostOnce PayableNeverRefused
PROPERTIES CommitsWhole ClaimIsAtomic RetriesGetThrough

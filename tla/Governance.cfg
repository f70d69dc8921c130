SPECIFICATION FairSpec
CONSTANTS
    p1 = p1
    p2 = p2
    Account <- MCAccount
    NoAdmin = NoAdmin
    NoProposal = NoProposal
    Configs <- MCConfigs
    MaxU32 = 2
    MaxI128 = 20000
    MaxLedger = 3
    Minted <- MCMinted
INVARIANTS TypeOK TallyExact
PROPERTIES IsBallot ProposalsDecided

SPECIFICATION Spec
CONSTANTS
    q1 = q1
    q2 = q2
    q3 = q3
    q4 = q4
    bad = bad
    h12 = h12
    h3 = h3
    h4 = h4
    hbad = hbad
    Account = {p1, p2}
    NoAdmin = NoAdmin
    Proof <- MCProof
    WellFormed <- MCWellFormed
    Digest <- MCDigest
    Inputs <- MCInputs
    MaxU32 = 2
INVARIANTS TypeOK ProofUsedOnce SpentIsRecorded
PROPERTIES CircuitLifeCycle

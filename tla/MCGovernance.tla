---------------------------- MODULE MCGovernance ----------------------------
\* Two holders of two tokens decide two proposals over four ledgers, so that
\* one whose period ended can miss the first ledger it could be finalised in.
\* The width of i128 lets a tally of two be scaled by 10000, and no more; a
\* token that moves between votes makes larger ones.  One configuration asks
\* for a majority, one for unanimity and a quorum of two; the others are
\* refused.
EXTENDS Governance

CONSTANTS p1, p2

MCAccount == {p1, p2}
MCMinted == [a \in MCAccount |-> IF a = p1 THEN 2 ELSE 0]
Params(q, bps, period) == [quorum |-> q, approval_bps |-> bps, voting_period |-> period]
MCConfigs == {Params(1, 5000, 1), Params(2, 10000, 1),
              Params(0, 5000, 1), Params(1, 10001, 1), Params(1, 5000, 0)}
=============================================================================

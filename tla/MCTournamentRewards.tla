------------------------ MODULE MCTournamentRewards ------------------------
\* Two accounts, either of which may become the admin, hold two tokens and one
\* and share two tournaments of one reward token.  The width of i128 makes a
\* full share of a pool of three overflow; the splits leave a rounding rest, a
\* zero share, too large a sum and too many slots; rankings name a winner
\* twice, and the contract itself.
EXTENDS TournamentRewards

CONSTANTS p1, p2

MCAccount == {p1, p2}
MCMinted == [a \in MCAccount |-> IF a = p1 THEN 2 ELSE 1]
MCFees == {-1, 0, 1}
MCAmounts == {0, 1}
MCSplits == {<<6000, 4000>>, <<10000>>, <<10000, 10000>>, <<>>,
             [r \in 1 .. 21 |-> 0]}
MCRankings == {<<p1, p2>>, <<p2, p2>>, <<Contract, p1>>, <<p1>>}

Common == INSTANCE Shared

\* The checks and the payout of the contract are those of the shared crate.
ASSUME CopiesAgree ==
    /\ \A bps \in Splits : bps \in ValidSplits <=> Common!ValidPayoutBps(bps)
    /\ \A bps \in Splits, pool \in 0 .. 3 : \A r \in DOMAIN bps :
           LET t == [total_pool |-> pool, payout_bps |-> bps]
           IN  Common!BpsComputable(pool, bps[r]) =>
                   Share(t, r) = Common!BpsOf(pool, bps[r])
=============================================================================

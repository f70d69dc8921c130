----------------------------- MODULE MCTreasury -----------------------------
\* Two accounts with one unit each of two tokens; the statistics overflow
\* once the same units have been deposited and disbursed often enough.
EXTENDS Treasury, TLC

CONSTANTS p1, p2

MCAccount == {p1, p2}
MCMinted == [a \in MCAccount |-> 1]
Symmetry == Permutations(MCAccount)
=============================================================================

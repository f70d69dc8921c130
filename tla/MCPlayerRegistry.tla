-------------------------- MODULE MCPlayerRegistry --------------------------
\* Two players and two names, counters up to 2 and reputations in -2 .. 1, so
\* that the counters overflow and reputation saturates at both ends.
EXTENDS PlayerRegistry, TLC

CONSTANTS p1, p2, n1, n2

MCAccount == {p1, p2}
MCUsername == {n1, n2}
Symmetry == Permutations(MCAccount) \cup Permutations(MCUsername)
=============================================================================

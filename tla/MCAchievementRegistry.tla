----------------------- MODULE MCAchievementRegistry -----------------------
\* Two accounts, either of which may become the admin or an awarder, and two
\* achievements over three ledgers.
EXTENDS AchievementRegistry, TLC

CONSTANTS p1, p2

MCAccount == {p1, p2}
Symmetry == Permutations(MCAccount)
=============================================================================

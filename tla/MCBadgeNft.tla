----------------------------- MODULE MCBadgeNft -----------------------------
\* Two addresses, up to three badges of up to three types: mints and burns
\* interleave, and both u32 counters reach their end.
EXTENDS BadgeNft, TLC

CONSTANTS p1, p2

MCAccount == {p1, p2}
Symmetry == Permutations(MCAccount)
=============================================================================

---------------------------- MODULE MCRewardPool ----------------------------
\* Two accounts, either of which may become the admin, share three tokens, the
\* width of i128 as well: enough to deposit, distribute, deposit the proceeds
\* again and overflow a credit, and to spend donated tokens.
EXTENDS RewardPool

CONSTANTS p1, p2

MCAccount == {p1, p2}
MCMinted == [a \in MCAccount |-> IF a = p1 THEN 2 ELSE 1]
=============================================================================

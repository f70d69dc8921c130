------------------------------- MODULE Shared -------------------------------
(***************************************************************************)
(* shared: the helpers of the protocol's common crate that compute or      *)
(* decide something.  They keep no state, and a call that panics is one    *)
(* whose condition here is FALSE.  The contracts do not depend on the      *)
(* crate but carry copies of its rules: ValidSplits and Share of           *)
(* TournamentRewards are held against these (MCTournamentRewards).         *)
(***************************************************************************)
EXTENDS Integers, Sequences

LOCAL INSTANCE Functions

CONSTANT MaxI128        \* largest i128

I128 == -MaxI128 - 1 .. MaxI128

MAX_BPS == 10000
MAX_PAYOUT_SLOTS == 20

\* Division of i128 by a positive number: towards zero, and not downwards.
Quotient(x, d) == IF x >= 0 THEN x \div d ELSE -((-x) \div d)

\* bps_of returns; its product is formed in i128 before it is divided.
BpsComputable(amount, bps) == bps <= MAX_BPS /\ amount * bps \in I128

BpsOf(amount, bps) == Quotient(amount * bps, MAX_BPS)

\* A sum beyond u32 panics as one beyond MAX_BPS does.
ValidPayoutBps(bps) ==
    /\ Len(bps) > 0
    /\ Len(bps) <= MAX_PAYOUT_SLOTS
    /\ FoldFunction(+, 0, bps) <= MAX_BPS

RequirePositive(amount) == amount > 0

RequireIsAdmin(caller, admin) == caller = admin
=============================================================================

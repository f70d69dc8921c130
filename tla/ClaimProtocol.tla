--------------------------- MODULE ClaimProtocol ---------------------------
(***************************************************************************)
(* What the claim orchestrator promises, with no contracts, calls or       *)
(* rollbacks: a successful claim is one indivisible step that consumes a   *)
(* fresh nullifier and a fresh (player, achievement) pair, issues a fresh  *)
(* badge to the player, records the achievement and logs claim_ok.  The    *)
(* four contracts it draws on are used without it as well: a nullifier may *)
(* be spent, a reward paid, a badge issued or an achievement recorded on   *)
(* its own, but never undone.                                              *)
(***************************************************************************)
EXTENDS Integers, Sequences

CONSTANTS Holder, Achievement, Nullifier, BadgeId, Amount

VARIABLES
    spentProofs,    \* nullifiers that cannot be used again
    rewarded,       \* <<player, achievement>> paid by the reward pool
    issued,         \* <<badge, player>> minted, burned ones included
    recorded,       \* <<player, achievement>> in the player registry
    log             \* claim_ok events

vars == <<spentProofs, rewarded, issued, recorded, log>>

TypeOK ==
    /\ spentProofs \subseteq Nullifier
    /\ rewarded \subseteq Holder \X Achievement
    /\ issued \subseteq BadgeId \X Holder
    /\ recorded \subseteq Holder \X Achievement

Init ==
    /\ spentProofs = {}
    /\ rewarded = {}
    /\ issued = {}
    /\ recorded = {}
    /\ log = <<>>

SpendProof(n) ==
    /\ n \notin spentProofs
    /\ spentProofs' = spentProofs \cup {n}

PayReward(p, a) ==
    /\ <<p, a>> \notin rewarded
    /\ rewarded' = rewarded \cup {<<p, a>>}

IssueBadge(i, p) ==
    /\ \A q \in Holder : <<i, q>> \notin issued
    /\ issued' = issued \cup {<<i, p>>}

Record(p, a) == recorded' = recorded \cup {<<p, a>>}

Claim(p, n, a, i, amount) ==
    /\ SpendProof(n)
    /\ PayReward(p, a)
    /\ IssueBadge(i, p)
    /\ Record(p, a)
    /\ log' = Append(log, [player |-> p, achievement |-> a, token |-> i,
                           amount |-> amount])

Next ==
    \/ \E p \in Holder, n \in Nullifier, a \in Achievement, i \in BadgeId,
          amount \in Amount : Claim(p, n, a, i, amount)
    \/ \E n \in Nullifier :
           SpendProof(n) /\ UNCHANGED <<rewarded, issued, recorded, log>>
    \/ \E p \in Holder, a \in Achievement :
           \/ PayReward(p, a) /\ UNCHANGED <<spentProofs, issued, recorded, log>>
           \/ Record(p, a) /\ UNCHANGED <<spentProofs, rewarded, issued, log>>
    \/ \E i \in BadgeId, p \in Holder :
           IssueBadge(i, p) /\ UNCHANGED <<spentProofs, rewarded, recorded, log>>

Spec == Init /\ [][Next]_vars
=============================================================================

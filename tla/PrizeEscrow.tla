---------------------------- MODULE PrizeEscrow ----------------------------
(***************************************************************************)
(* What tournament_rewards promises, with no shared balance, basis points  *)
(* or claim marks: every tournament has a purse of its own, filled until   *)
(* its result is settled and never after.  Settling fixes what each payee  *)
(* is owed, within the purse; from then on money leaves the purse only as  *)
(* payees draw what they are owed, each once.  Before that a payee is owed *)
(* the fee it joined with, which is what calling the tournament off leaves.*)
(***************************************************************************)
EXTENDS Token

CONSTANTS
    Purse,      \* one per tournament
    Payee,      \* those who fund purses and draw from them
    Coin,       \* tokens a purse can be kept in
    Fee,        \* what joining can cost
    Amount      \* what a sponsor can add

VARIABLES
    phase,      \* "none", then "joining", "running" and "settled"
    coin,       \* the token of each purse in use
    members,    \* who joined
    purse,      \* money in each purse
    owed,       \* what each payee may draw from each purse
    wallet      \* money of each payee, per token

vars == <<phase, coin, members, purse, owed, wallet>>

Init ==
    /\ phase = [p \in Purse |-> "none"]
    /\ coin \in [Purse -> Coin]
    /\ members = [p \in Purse |-> {}]
    /\ purse = [p \in Purse |-> 0]
    /\ owed = [p \in Purse |-> [a \in Payee |-> 0]]
    /\ wallet \in [Coin -> [Payee -> Nat]]

Open(p) ==
    /\ phase[p] = "none"
    /\ phase' = [phase EXCEPT ![p] = "joining"]
    /\ \E k \in Coin : coin' = [coin EXCEPT ![p] = k]
    /\ UNCHANGED <<members, purse, owed, wallet>>

\* Payee a moves amount into purse p.
Puts(p, a, amount) ==
    /\ wallet[coin[p]][a] >= amount
    /\ wallet' = [wallet EXCEPT ![coin[p]][a] = @ - amount]
    /\ purse' = [purse EXCEPT ![p] = @ + amount]

Join(p, a, fee) ==
    /\ phase[p] = "joining" /\ a \notin members[p]
    /\ Puts(p, a, fee)
    /\ members' = [members EXCEPT ![p] = @ \cup {a}]
    /\ owed' = [owed EXCEPT ![p][a] = fee]
    /\ UNCHANGED <<phase, coin>>

Sponsor(p, a, amount) ==
    /\ phase[p] \in {"joining", "running"}
    /\ Puts(p, a, amount)
    /\ UNCHANGED <<phase, coin, members, owed>>

Start(p) ==
    /\ phase[p] = "joining"
    /\ phase' = [phase EXCEPT ![p] = "running"]
    /\ UNCHANGED <<coin, members, purse, owed, wallet>>

\* Every fee is returned: what is owed stays as it is.
CallOff(p) ==
    /\ phase[p] \in {"joining", "running"}
    /\ phase' = [phase EXCEPT ![p] = "settled"]
    /\ UNCHANGED <<coin, members, purse, owed, wallet>>

\* Prizes replace the fees, whoever is to get them, within the purse.
Award(p) ==
    /\ phase[p] = "running"
    /\ phase' = [phase EXCEPT ![p] = "settled"]
    /\ owed' = [owed EXCEPT ![p] = owed'[p]]
    /\ Total(owed'[p]) <= purse[p]
    /\ UNCHANGED <<coin, members, purse, wallet>>

Draw(p, a) ==
    /\ phase[p] = "settled" /\ owed[p][a] > 0
    /\ purse' = [purse EXCEPT ![p] = @ - owed[p][a]]
    /\ wallet' = [wallet EXCEPT ![coin[p]][a] = @ + owed[p][a]]
    /\ owed' = [owed EXCEPT ![p][a] = 0]
    /\ UNCHANGED <<phase, coin, members>>

Next ==
    \E p \in Purse :
        \/ Open(p) \/ Start(p) \/ CallOff(p) \/ Award(p)
        \/ \E a \in Payee :
               \/ \E fee \in Fee : Join(p, a, fee)
               \/ \E amount \in Amount : Sponsor(p, a, amount)
               \/ Draw(p, a)

Spec == Init /\ [][Next]_vars
=============================================================================

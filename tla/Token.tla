------------------------------- MODULE Token -------------------------------
(***************************************************************************)
(* The SEP-41 token contract (a Stellar Asset Contract in production) that *)
(* reward_pool, tournament_rewards, treasury and governance call through   *)
(* soroban_sdk::token::Client.  It is not part of the repository: only the *)
(* two calls the repository makes are modelled, balance and transfer.      *)
(*                                                                         *)
(* bal is the token's storage: a function from addresses to amounts.  A    *)
(* transfer panics, and so reverts its caller's transaction, when the      *)
(* sender holds too little; it moves the exact amount (no fee on transfer) *)
(* and leaves a transfer to oneself without effect.                        *)
(***************************************************************************)
EXTENDS Integers, FiniteSets

CanTransfer(bal, from, amount) == amount >= 0 /\ bal[from] >= amount

Transferred(bal, from, to, amount) ==
    LET debited == [bal EXCEPT ![from] = @ - amount]
    IN  [debited EXCEPT ![to] = @ + amount]

(***************************************************************************)
(* The sum of a function with values in Nat, as the number of its units:   *)
(* x contributes the f[x] pairs <<x, 1>> .. <<x, f[x]>>.  This form has no *)
(* recursion, so that facts about it can be proved from those on           *)
(* Cardinality (TokenProofs).                                              *)
(***************************************************************************)
Units(f) == UNION {{x} \X (1 .. f[x]) : x \in DOMAIN f}

Total(f) == Cardinality(Units(f))
=============================================================================

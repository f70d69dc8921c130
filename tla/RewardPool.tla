----------------------------- MODULE RewardPool -----------------------------
(***************************************************************************)
(* reward_pool: depositors fund a pool, its admin pays tokens out of it,   *)
(* either freely (distribute) or once per player and achievement           *)
(* (claim_achievement_reward).                                             *)
(*                                                                         *)
(* A Soroban transaction is serial and all-or-nothing: a handler is one    *)
(* action, a panic (failed assert!, missing authorisation, i128 overflow,  *)
(* failed token transfer) reverts everything and is the absence of a step. *)
(* auth is the set of addresses whose authorisation the invocation carries;*)
(* a.require_auth() is the guard a \in auth.                               *)
(***************************************************************************)
EXTENDS Token

CONSTANTS
    Account,        \* addresses that can sign
    Pool,           \* the address of the contract itself: it never signs
    Achievement,    \* achievement ids
    NoAdmin,        \* value of admin before initialize
    MaxI128,        \* largest i128
    Minted          \* [Account -> Nat], who holds the reward token at first

Address == Account \cup {Pool}

ASSUME AddressAssumption == Pool \notin Account /\ NoAdmin \notin Address
ASSUME WidthAssumption == MaxI128 \in Nat
ASSUME MintedAssumption ==
    /\ IsFiniteSet(Account)
    /\ Minted \in [Account -> 0 .. MaxI128]

VARIABLES
    admin,              \* DataKey::Admin
    tokens,             \* balances kept by the reward token contract
    totalDeposited,     \* DataKey::TotalDeposited
    balances,           \* DataKey::Balances, 0 for an absent depositor
    achievementPool,    \* DataKey::AchievementPool, 0 where not set
    claimed,            \* DataKey::AchievementClaim: <<player, id>> with a flag
    achClm,             \* number of ach_clm events per <<player, id>>
    paid                \* history: sum of all distributions and claims

vars == <<admin, tokens, totalDeposited, balances, achievementPool, claimed,
          achClm, paid>>

I128 == -MaxI128 - 1 .. MaxI128
ClaimKey == Address \X Achievement

TypeOK ==
    /\ admin \in Account \cup {NoAdmin}
    /\ tokens \in [Address -> Nat]
    /\ totalDeposited \in I128
    /\ balances \in [Account -> 0 .. MaxI128]
    /\ achievementPool \in [Achievement -> 0 .. MaxI128]
    /\ claimed \in SUBSET ClaimKey
    /\ achClm \in [ClaimKey -> Nat]
    /\ paid \in Nat

Init ==
    /\ admin = NoAdmin
    /\ tokens = [a \in Address |-> IF a = Pool THEN 0 ELSE Minted[a]]
    /\ totalDeposited = 0
    /\ balances = [a \in Account |-> 0]
    /\ achievementPool = [i \in Achievement |-> 0]
    /\ claimed = {}
    /\ achClm = [k \in ClaimKey |-> 0]
    /\ paid = 0

-----------------------------------------------------------------------------
\* The admin's stored address must exist ("not initialized") and must sign.
RequireAdmin(auth) == admin # NoAdmin /\ admin \in auth

Initialize(auth, a) ==
    /\ admin = NoAdmin
    /\ a \in auth
    /\ admin' = a
    /\ totalDeposited' = 0
    /\ balances' = [x \in Account |-> 0]
    /\ UNCHANGED <<tokens, achievementPool, claimed, achClm, paid>>

\* A mutation of Deposit without the overflow check on the credit.
MutDeposit(auth, from, amount) ==
    /\ from \in auth /\ amount > 0 /\ admin # NoAdmin
    /\ CanTransfer(tokens, from, amount)
    /\ tokens' = Transferred(tokens, from, Pool, amount)
    /\ balances' = [balances EXCEPT ![from] = @ + amount]
    /\ totalDeposited' = totalDeposited + amount
    /\ UNCHANGED <<admin, achievementPool, claimed, achClm, paid>>

Deposit(auth, from, amount) ==
    /\ from \in auth
    /\ amount > 0
    /\ admin # NoAdmin
    /\ CanTransfer(tokens, from, amount)
    /\ balances[from] + amount \in I128
    /\ totalDeposited + amount \in I128
    /\ tokens' = Transferred(tokens, from, Pool, amount)
    /\ balances' = [balances EXCEPT ![from] = @ + amount]
    /\ totalDeposited' = totalDeposited + amount
    /\ UNCHANGED <<admin, achievementPool, claimed, achClm, paid>>

\* The pool pays amount to recipient and takes it off TotalDeposited.
PayOut(recipient, amount) ==
    /\ CanTransfer(tokens, Pool, amount)
    /\ totalDeposited - amount \in I128
    /\ tokens' = Transferred(tokens, Pool, recipient, amount)
    /\ totalDeposited' = totalDeposited - amount

\* A mutation of Distribute that leaves TotalDeposited alone.
MutDistribute(auth, recipient, amount) ==
    /\ RequireAdmin(auth)
    /\ amount > 0
    /\ CanTransfer(tokens, Pool, amount)
    /\ tokens' = Transferred(tokens, Pool, recipient, amount)
    /\ paid' = paid + amount
    /\ UNCHANGED <<admin, totalDeposited, balances, achievementPool, claimed, achClm>>

\* distribute checks neither TotalDeposited nor anyone's balance: all it needs
\* is that the token contract lets the transfer through.
Distribute(auth, recipient, amount) ==
    /\ RequireAdmin(auth)
    /\ amount > 0
    /\ PayOut(recipient, amount)
    /\ paid' = paid + amount
    /\ UNCHANGED <<admin, balances, achievementPool, claimed, achClm>>

\* A mutation of Withdraw that pays without debiting the depositor.
MutWithdraw(auth, from, amount) ==
    /\ from \in auth /\ amount > 0 /\ admin # NoAdmin
    /\ balances[from] >= amount
    /\ PayOut(from, amount)
    /\ UNCHANGED <<admin, balances, achievementPool, claimed, achClm, paid>>

\* A mutation of Withdraw that debits the depositor but pays the admin.
MutWithdrawPayee(auth, from, amount) ==
    /\ from \in auth /\ amount > 0 /\ admin # NoAdmin
    /\ balances[from] >= amount
    /\ balances' = [balances EXCEPT ![from] = @ - amount]
    /\ PayOut(admin, amount)
    /\ UNCHANGED <<admin, achievementPool, claimed, achClm, paid>>

Withdraw(auth, from, amount) ==
    /\ from \in auth
    /\ amount > 0
    /\ admin # NoAdmin
    /\ balances[from] >= amount
    /\ balances' = [balances EXCEPT ![from] = @ - amount]
    /\ PayOut(from, amount)
    /\ UNCHANGED <<admin, achievementPool, claimed, achClm, paid>>

SetAchievementReward(auth, id, amount) ==
    /\ RequireAdmin(auth)
    /\ amount > 0
    /\ achievementPool' = [achievementPool EXCEPT ![id] = amount]
    /\ UNCHANGED <<admin, tokens, totalDeposited, balances, claimed, achClm, paid>>

\* A mutation that remembers only claims of achievements with a reward set.
MutMarkClaimed(recipient, id) ==
    claimed' = IF achievementPool[id] > 0 THEN claimed \cup {<<recipient, id>>}
                                          ELSE claimed

MarkClaimed(recipient, id) == claimed' = claimed \cup {<<recipient, id>>}

\* A mutation that trusts the token contract's own balance check.
MutPoolCovers(amount) == tokens[Pool] >= amount

PoolCovers(amount) == totalDeposited >= amount

\* The achievement's configured reward is not read here: any positive amount
\* the pool's total covers is paid.
ClaimAchievementReward(auth, recipient, id, amount) ==
    /\ RequireAdmin(auth)
    /\ amount > 0
    /\ <<recipient, id>> \notin claimed
    /\ PoolCovers(amount)
    /\ PayOut(recipient, amount)
    /\ MarkClaimed(recipient, id)
    /\ achClm' = [achClm EXCEPT ![<<recipient, id>>] = @ + 1]
    /\ paid' = paid + amount
    /\ UNCHANGED <<admin, balances, achievementPool>>

\* Any holder may move its own tokens at the token contract, to the pool too,
\* without the pool hearing of it.
TokenTransfer(from, to, amount) ==
    /\ CanTransfer(tokens, from, amount)
    /\ tokens' = Transferred(tokens, from, to, amount)
    /\ UNCHANGED <<admin, totalDeposited, balances, achievementPool, claimed,
                   achClm, paid>>

\* Every standalone invocation needs the signature of one address.
Next ==
    \E s \in Account, amount \in I128 :
        \/ \E a \in Account : Initialize({s}, a)
        \/ \E from \in Account :
               Deposit({s}, from, amount) \/ Withdraw({s}, from, amount)
        \/ \E id \in Achievement : SetAchievementReward({s}, id, amount)
        \/ \E to \in Address :
               \/ Distribute({s}, to, amount)
               \/ TokenTransfer(s, to, amount)
               \/ \E id \in Achievement :
                      ClaimAchievementReward({s}, to, id, amount)

Spec == Init /\ [][Next]_vars

-----------------------------------------------------------------------------
(***************************************************************************)
(* TotalDeposited never promises more than the pool's token balance,       *)
(* whatever the mix of deposits, payments, withdrawals and tokens sent     *)
(* past the contract: the check in claim_achievement_reward against        *)
(* TotalDeposited is therefore never weaker than the token's own.          *)
(***************************************************************************)
TotalBacked == totalDeposited <= tokens[Pool]

(***************************************************************************)
(* The books balance: what depositors are credited with is what            *)
(* TotalDeposited still shows plus all that distribute and claims ever     *)
(* paid.  A distribution is therefore a loss nobody is debited for: the    *)
(* credits exceed the total by exactly the amount paid.                    *)
(***************************************************************************)
LedgerBalanced == Total(balances) = totalDeposited + paid

(***************************************************************************)
(* A player is paid at most once per achievement by claim_achievement_     *)
(* reward, and the claim flag says exactly whether that happened.          *)
(***************************************************************************)
ClaimedOnce ==
    \A k \in ClaimKey : achClm[k] = IF k \in claimed THEN 1 ELSE 0

(***************************************************************************)
(* A claim is paid out of deposits only: when an ach_clm event is emitted  *)
(* TotalDeposited has not been driven below zero, even if tokens sent past *)
(* deposit lie in the pool.                                                *)
(***************************************************************************)
ClaimStep ==
    (\E k \in ClaimKey : achClm'[k] > achClm[k]) => totalDeposited' >= 0

ClaimsFromDeposits == [][ClaimStep]_vars

(***************************************************************************)
(* A depositor's credit shrinks only by being paid to that depositor in    *)
(* full: no admin operation, and no other depositor's, can debit it.       *)
(***************************************************************************)
DebitStep ==
    \A a \in Account :
        balances'[a] < balances[a] =>
            tokens'[a] - tokens[a] = balances[a] - balances'[a]

DebitIsPaid == [][DebitStep]_vars

-----------------------------------------------------------------------------
(***************************************************************************)
(* What a comment of the contract says, and the code does not ensure.      *)
(***************************************************************************)

\* lib.rs:182 lists among the "Rules enforced" by a claim that "the
\* achievement must have a reward configured".
ClaimedIsConfigured == \A k \in claimed : achievementPool[k[2]] > 0
=============================================================================

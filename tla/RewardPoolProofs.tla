-------------------------- MODULE RewardPoolProofs --------------------------
(***************************************************************************)
(* The properties of RewardPool, for every set of accounts, every supply   *)
(* of the reward token and every width of i128.                            *)
(*                                                                         *)
(* TypeOK is inductive by itself. TotalBacked and ClaimedOnce are each     *)
(* inductive once TypeOK is known; LedgerBalanced and DebitIsPaid need,    *)
(* for the one step that overwrites the credits (initialize), that nothing *)
(* was deposited before there was an admin: NothingBefore, inductive by    *)
(* TypeOK again.  The four invariants together say when a depositor can    *)
(* still take a credit back (CreditsAreWithdrawable, at the end).          *)
(***************************************************************************)
EXTENDS RewardPool, TokenProofs

(***************************************************************************)
(* What PayOut does, whoever the recipient is.                             *)
(***************************************************************************)
LEMMA PayOutEffect ==
    ASSUME TypeOK, NEW to \in Address, NEW amount \in I128, amount > 0,
           PayOut(to, amount)
    PROVE  /\ tokens' \in [Address -> Nat]
           /\ totalDeposited' \in I128
           /\ totalDeposited' = totalDeposited - amount
           /\ tokens'[Pool] >= tokens[Pool] - amount
           /\ to # Pool => tokens'[to] = tokens[to] + amount
<1>1. amount \in Int /\ tokens[Pool] \in Nat
  BY WidthAssumption DEF TypeOK, I128, Address
<1>2. tokens \in [Address -> Nat] /\ Pool \in Address
  BY DEF TypeOK, Address
<1>3. /\ CanTransfer(tokens, Pool, amount)
      /\ tokens' = Transferred(tokens, Pool, to, amount)
      /\ totalDeposited' = totalDeposited - amount
      /\ totalDeposited - amount \in I128
  BY DEF PayOut
<1>4. /\ tokens' \in [Address -> Nat]
      /\ Pool = to => tokens' = tokens
      /\ Pool # to => /\ tokens'[Pool] = tokens[Pool] - amount
                      /\ tokens'[to] = tokens[to] + amount
  BY <1>1, <1>2, <1>3, TransferEffect
<1> QED BY <1>1, <1>2, <1>3, <1>4

-----------------------------------------------------------------------------
(***************************************************************************)
(* The empty pool has the types: nothing deposited, configured or claimed. *)
(***************************************************************************)
LEMMA InitType == Init => TypeOK
BY AddressAssumption, WidthAssumption, MintedAssumption
   DEF Init, TypeOK, I128, ClaimKey, Address

(***************************************************************************)
(* Every step keeps the types: the overflow checks bound the total and the *)
(* credits, the token contract bounds the tokens.                          *)
(***************************************************************************)
LEMMA StepType == TypeOK /\ [Next]_vars => TypeOK'
<1> SUFFICES ASSUME TypeOK, [Next]_vars PROVE TypeOK'
  OBVIOUS
<1> USE AddressAssumption, WidthAssumption
<1>0. ASSUME NEW n \in I128 PROVE n \in Int
  BY DEF I128
<1>1. ASSUME NEW s \in Account, NEW a \in Account, Initialize({s}, a)
      PROVE  TypeOK'
  BY <1>1 DEF Initialize, TypeOK, I128
<1>2. ASSUME NEW s \in Account, NEW from \in Account, NEW amount \in I128,
             Deposit({s}, from, amount)
      PROVE  TypeOK'
  <2>1. from \in Address /\ Pool \in Address
    BY DEF Address
  <2>2. tokens' \in [Address -> Nat]
    BY <1>0, <1>2, <2>1, TransferEffect DEF Deposit, TypeOK
  <2>3. totalDeposited' \in I128
    BY <1>2 DEF Deposit
  <2>4. balances' \in [Account -> 0 .. MaxI128]
    BY <1>2 DEF Deposit, TypeOK, I128
  <2> QED BY <1>2, <2>2, <2>3, <2>4 DEF Deposit, TypeOK
<1>3. ASSUME NEW s \in Account, NEW from \in Account, NEW amount \in I128,
             Withdraw({s}, from, amount)
      PROVE  TypeOK'
  <2>1. tokens' \in [Address -> Nat] /\ totalDeposited' \in I128
    BY <1>3, PayOutEffect DEF Withdraw, Address
  <2>2. balances' \in [Account -> 0 .. MaxI128]
    BY <1>3 DEF Withdraw, TypeOK, I128
  <2> QED BY <1>3, <2>1, <2>2 DEF Withdraw, TypeOK
<1>4. ASSUME NEW s \in Account, NEW id \in Achievement, NEW amount \in I128,
             SetAchievementReward({s}, id, amount)
      PROVE  TypeOK'
  BY <1>4 DEF SetAchievementReward, TypeOK, I128
<1>5. ASSUME NEW s \in Account, NEW to \in Address, NEW amount \in I128,
             Distribute({s}, to, amount)
      PROVE  TypeOK'
  <2>1. tokens' \in [Address -> Nat] /\ totalDeposited' \in I128
    BY <1>5, PayOutEffect DEF Distribute
  <2>2. paid' \in Nat
    BY <1>5 DEF Distribute, TypeOK, I128
  <2> QED BY <1>5, <2>1, <2>2 DEF Distribute, TypeOK
<1>6. ASSUME NEW s \in Account, NEW to \in Address, NEW amount \in I128,
             TokenTransfer(s, to, amount)
      PROVE  TypeOK'
  <2>1. s \in Address /\ amount \in Int
    BY <1>0 DEF Address
  <2>2. tokens' \in [Address -> Nat]
    BY <1>6, <2>1, TransferEffect DEF TokenTransfer, TypeOK
  <2> QED BY <1>6, <2>2 DEF TokenTransfer, TypeOK
<1>7. ASSUME NEW s \in Account, NEW to \in Address, NEW amount \in I128,
             NEW id \in Achievement, ClaimAchievementReward({s}, to, id, amount)
      PROVE  TypeOK'
  <2>1. tokens' \in [Address -> Nat] /\ totalDeposited' \in I128
    BY <1>7, PayOutEffect DEF ClaimAchievementReward
  <2>2. paid' \in Nat
    BY <1>7 DEF ClaimAchievementReward, TypeOK, I128
  <2>3. claimed' \in SUBSET ClaimKey /\ achClm' \in [ClaimKey -> Nat]
    BY <1>7 DEF ClaimAchievementReward, MarkClaimed, TypeOK, ClaimKey
  <2> QED BY <1>7, <2>1, <2>2, <2>3 DEF ClaimAchievementReward, TypeOK
<1>8. CASE UNCHANGED vars
  BY <1>8 DEF vars, TypeOK
<1> QED BY <1>1, <1>2, <1>3, <1>4, <1>5, <1>6, <1>7, <1>8 DEF Next

(***************************************************************************)
(* Type correctness.  In particular TotalDeposited and every credit stay   *)
(* within i128.                                                            *)
(***************************************************************************)
THEOREM TypeCorrect == Spec => []TypeOK
<1> QED BY InitType, StepType, PTL DEF Spec

-----------------------------------------------------------------------------
(***************************************************************************)
(* A pool with neither deposits nor tokens is backed.                      *)
(***************************************************************************)
LEMMA InitBacked == Init => TotalBacked
BY AddressAssumption DEF Init, TotalBacked, Address

(***************************************************************************)
(* TotalDeposited never rises by more than the tokens that came in, and    *)
(* falls by at least what went out.                                        *)
(***************************************************************************)
LEMMA StepBacked == TypeOK /\ TotalBacked /\ [Next]_vars => TotalBacked'
<1> SUFFICES ASSUME TypeOK, TotalBacked, [Next]_vars PROVE TotalBacked'
  OBVIOUS
<1> USE AddressAssumption, WidthAssumption
<1>0. /\ tokens \in [Address -> Nat] /\ Pool \in Address
      /\ totalDeposited \in Int
      /\ totalDeposited <= tokens[Pool]
      /\ \A n \in I128 : n \in Int
  BY DEF TypeOK, TotalBacked, Address, I128
<1>1. ASSUME NEW s \in Account, NEW a \in Account, Initialize({s}, a)
      PROVE  TotalBacked'
  BY <1>0, <1>1 DEF Initialize, TotalBacked
<1>2. ASSUME NEW s \in Account, NEW from \in Account, NEW amount \in I128,
             Deposit({s}, from, amount)
      PROVE  TotalBacked'
  <2>1. from \in Address /\ from # Pool /\ amount \in Int
    BY <1>0 DEF Address
  <2>2. tokens'[Pool] = tokens[Pool] + amount
    BY <1>0, <1>2, <2>1, TransferEffect DEF Deposit
  <2> QED BY <1>0, <1>2, <2>1, <2>2 DEF Deposit, TotalBacked
<1>3. ASSUME NEW to \in Address, NEW amount \in I128, amount > 0,
             PayOut(to, amount)
      PROVE  TotalBacked'
  <2>1. tokens'[Pool] \in Nat
    BY <1>0, <1>3, PayOutEffect
  <2> QED BY <1>0, <1>3, <2>1, PayOutEffect DEF TotalBacked
<1>4. ASSUME NEW s \in Account, NEW from \in Account, NEW amount \in I128,
             Withdraw({s}, from, amount)
      PROVE  TotalBacked'
  BY <1>3, <1>4 DEF Withdraw, Address
<1>5. ASSUME NEW s \in Account, NEW id \in Achievement, NEW amount \in I128,
             SetAchievementReward({s}, id, amount)
      PROVE  TotalBacked'
  BY <1>5 DEF SetAchievementReward, TotalBacked
<1>6. ASSUME NEW s \in Account, NEW to \in Address, NEW amount \in I128,
             Distribute({s}, to, amount)
      PROVE  TotalBacked'
  BY <1>3, <1>6 DEF Distribute
<1>7. ASSUME NEW s \in Account, NEW to \in Address, NEW amount \in I128,
             TokenTransfer(s, to, amount)
      PROVE  TotalBacked'
  <2>1. s \in Address /\ s # Pool /\ amount \in Int /\ amount >= 0
    BY <1>0, <1>7 DEF Address, TokenTransfer, CanTransfer
  <2>2. tokens'[Pool] >= tokens[Pool]
    BY <1>0, <1>7, <2>1, TransferEffect DEF TokenTransfer
  <2>3. tokens'[Pool] \in Nat
    BY <1>0, <1>7, <2>1, TransferEffect DEF TokenTransfer
  <2> QED BY <1>0, <1>7, <2>2, <2>3 DEF TokenTransfer, TotalBacked
<1>8. ASSUME NEW s \in Account, NEW to \in Address, NEW amount \in I128,
             NEW id \in Achievement, ClaimAchievementReward({s}, to, id, amount)
      PROVE  TotalBacked'
  BY <1>3, <1>8 DEF ClaimAchievementReward
<1>9. CASE UNCHANGED vars
  BY <1>9 DEF vars, TotalBacked
<1> QED BY <1>1, <1>2, <1>4, <1>5, <1>6, <1>7, <1>8, <1>9 DEF Next

(***************************************************************************)
(* The pool's total is always covered by the tokens it holds.              *)
(***************************************************************************)
THEOREM Backed == Spec => []TotalBacked
<1>1. Init => TypeOK /\ TotalBacked
  BY InitType, InitBacked
<1>2. TypeOK /\ TotalBacked /\ [Next]_vars => (TypeOK /\ TotalBacked)'
  BY StepType, StepBacked
<1> QED BY <1>1, <1>2, PTL DEF Spec

-----------------------------------------------------------------------------
(***************************************************************************)
(* The books balance at zero.                                              *)
(***************************************************************************)
LEMMA InitBalanced == Init => LedgerBalanced
BY TotalZero DEF Init, LedgerBalanced

(***************************************************************************)
(* As long as there is no admin nothing was deposited or paid: what        *)
(* LedgerBalanced and DebitIsPaid need of initialize, which empties the    *)
(* credits.                                                                *)
(***************************************************************************)
NothingBefore ==
    admin = NoAdmin => /\ balances = [a \in Account |-> 0]
                       /\ totalDeposited = 0
                       /\ paid = 0

(***************************************************************************)
(* Only initialize runs without an admin, or a token transfer that the     *)
(* pool does not hear of; neither deposits.                                *)
(***************************************************************************)
LEMMA StepNothing == TypeOK /\ NothingBefore /\ [Next]_vars => NothingBefore'
<1> SUFFICES ASSUME TypeOK, NothingBefore, [Next]_vars PROVE NothingBefore'
  OBVIOUS
<1>1. \A a \in Account : a # NoAdmin
  BY AddressAssumption DEF Address
<1>2. ASSUME NEW s \in Account, NEW a \in Account, Initialize({s}, a)
      PROVE  NothingBefore'
  BY <1>1, <1>2 DEF Initialize, NothingBefore
<1>3. CASE UNCHANGED vars
  BY <1>3 DEF vars, NothingBefore
<1>4. CASE admin # NoAdmin /\ UNCHANGED admin
  BY <1>4 DEF NothingBefore
<1>5. CASE UNCHANGED <<admin, balances, totalDeposited, paid>>
  BY <1>5 DEF NothingBefore
<1>6. ASSUME NEW s, NEW amount, NEW x, NEW id,
             \/ Deposit({s}, x, amount) \/ Withdraw({s}, x, amount)
             \/ SetAchievementReward({s}, id, amount)
             \/ Distribute({s}, x, amount)
             \/ ClaimAchievementReward({s}, x, id, amount)
      PROVE  admin # NoAdmin /\ UNCHANGED admin
  BY <1>6 DEF Deposit, Withdraw, SetAchievementReward, Distribute,
              ClaimAchievementReward, RequireAdmin
<1>7. ASSUME NEW s \in Account, NEW amount \in I128, NEW to \in Address,
             TokenTransfer(s, to, amount)
      PROVE  UNCHANGED <<admin, balances, totalDeposited, paid>>
  BY <1>7 DEF TokenTransfer
<1> QED BY <1>2, <1>3, <1>4, <1>5, <1>6, <1>7 DEF Next, Address

(***************************************************************************)
(* Every step moves both sides of the books by the same amount; initialize *)
(* empties credits that are empty already (NothingBefore).                 *)
(***************************************************************************)
LEMMA StepBalanced ==
    TypeOK /\ NothingBefore /\ LedgerBalanced /\ [Next]_vars => LedgerBalanced'
<1> SUFFICES ASSUME TypeOK, NothingBefore, LedgerBalanced, [Next]_vars
             PROVE  LedgerBalanced'
  OBVIOUS
<1> USE WidthAssumption
<1>0. /\ IsFiniteSet(Account) /\ balances \in [Account -> 0 .. MaxI128]
      /\ totalDeposited \in Int /\ paid \in Nat
      /\ Total(balances) = totalDeposited + paid
      /\ \A n \in I128 : n \in Int
  BY MintedAssumption DEF TypeOK, LedgerBalanced, I128
<1>1. ASSUME NEW s \in Account, NEW a \in Account, Initialize({s}, a)
      PROVE  LedgerBalanced'
  BY <1>1, TotalZero DEF Initialize, NothingBefore, LedgerBalanced
<1>2. ASSUME NEW s \in Account, NEW from \in Account, NEW amount \in I128,
             Deposit({s}, from, amount)
      PROVE  LedgerBalanced'
  <2>1. balances[from] + amount \in 0 .. MaxI128 /\ balances[from] \in Int
    BY <1>0, <1>2 DEF Deposit, I128
  <2>2. /\ balances' \in [Account -> 0 .. MaxI128]
        /\ balances'[from] = balances[from] + amount
        /\ \A a \in Account \ {from} : balances'[a] = balances[a]
    BY <1>0, <1>2, <2>1 DEF Deposit
  <2>3. Total(balances') = Total(balances) - balances[from] + balances'[from]
    BY <1>0, <2>2, TotalChange
  <2> QED BY <1>0, <1>2, <2>1, <2>2, <2>3 DEF Deposit, LedgerBalanced
<1>3. ASSUME NEW s \in Account, NEW from \in Account, NEW amount \in I128,
             Withdraw({s}, from, amount)
      PROVE  LedgerBalanced'
  <2>1. balances[from] - amount \in 0 .. MaxI128 /\ balances[from] \in Int
    BY <1>0, <1>3 DEF Withdraw
  <2>2. /\ balances' \in [Account -> 0 .. MaxI128]
        /\ balances'[from] = balances[from] - amount
        /\ \A a \in Account \ {from} : balances'[a] = balances[a]
    BY <1>0, <1>3, <2>1 DEF Withdraw
  <2>3. Total(balances') = Total(balances) - balances[from] + balances'[from]
    BY <1>0, <2>2, TotalChange
  <2> QED BY <1>0, <1>3, <2>1, <2>2, <2>3 DEF Withdraw, PayOut, LedgerBalanced
<1>4. ASSUME NEW s \in Account, NEW id \in Achievement, NEW amount \in I128,
             SetAchievementReward({s}, id, amount)
      PROVE  LedgerBalanced'
  BY <1>4 DEF SetAchievementReward, LedgerBalanced
<1>5. ASSUME NEW s \in Account, NEW to \in Address, NEW amount \in I128,
             Distribute({s}, to, amount)
      PROVE  LedgerBalanced'
  BY <1>0, <1>5 DEF Distribute, PayOut, LedgerBalanced
<1>6. ASSUME NEW s \in Account, NEW to \in Address, NEW amount \in I128,
             TokenTransfer(s, to, amount)
      PROVE  LedgerBalanced'
  BY <1>6 DEF TokenTransfer, LedgerBalanced
<1>7. ASSUME NEW s \in Account, NEW to \in Address, NEW amount \in I128,
             NEW id \in Achievement, ClaimAchievementReward({s}, to, id, amount)
      PROVE  LedgerBalanced'
  BY <1>0, <1>7 DEF ClaimAchievementReward, PayOut, LedgerBalanced
<1>8. CASE UNCHANGED vars
  BY <1>8 DEF vars, LedgerBalanced
<1> QED BY <1>1, <1>2, <1>3, <1>4, <1>5, <1>6, <1>7, <1>8 DEF Next

(***************************************************************************)
(* The credits of all depositors always equal TotalDeposited plus all that *)
(* distributions and claims have paid.                                     *)
(***************************************************************************)
THEOREM BooksBalance == Spec => []LedgerBalanced
<1>1. Init => TypeOK /\ NothingBefore /\ LedgerBalanced
  BY InitType, InitBalanced DEF Init, NothingBefore
<1>2. TypeOK /\ NothingBefore /\ LedgerBalanced /\ [Next]_vars
          => (TypeOK /\ NothingBefore /\ LedgerBalanced)'
  BY StepType, StepNothing, StepBalanced
<1> QED BY <1>1, <1>2, PTL DEF Spec

-----------------------------------------------------------------------------
(***************************************************************************)
(* Only a claim touches flags and events, and it does so for one key that  *)
(* had no flag.                                                            *)
(***************************************************************************)
LEMMA StepOnce == TypeOK /\ ClaimedOnce /\ [Next]_vars => ClaimedOnce'
<1> SUFFICES ASSUME TypeOK, ClaimedOnce, [Next]_vars PROVE ClaimedOnce'
  OBVIOUS
<1>1. ASSUME NEW s \in Account, NEW to \in Address, NEW amount \in I128,
             NEW id \in Achievement, ClaimAchievementReward({s}, to, id, amount)
      PROVE  ClaimedOnce'
  <2> DEFINE key == <<to, id>>
  <2>1. /\ key \in ClaimKey /\ key \notin claimed
        /\ claimed' = claimed \cup {key}
        /\ achClm' = [achClm EXCEPT ![key] = @ + 1]
    BY <1>1 DEF ClaimAchievementReward, MarkClaimed, ClaimKey
  <2>2. achClm \in [ClaimKey -> Nat]
    BY DEF TypeOK
  <2> HIDE DEF key
  <2> QED BY <2>1, <2>2 DEF ClaimedOnce
<1>2. CASE UNCHANGED <<claimed, achClm>>
  BY <1>2 DEF ClaimedOnce
<1>3. ASSUME Next PROVE \/ UNCHANGED <<claimed, achClm>>
                        \/ ClaimedOnce'
  BY <1>1, <1>3
     DEF Next, Initialize, Deposit, Withdraw, SetAchievementReward, Distribute,
         TokenTransfer
<1> QED BY <1>2, <1>3 DEF vars

(***************************************************************************)
(* Each player is paid at most once per achievement.                       *)
(***************************************************************************)
THEOREM PaidOnce == Spec => []ClaimedOnce
<1>1. Init => TypeOK /\ ClaimedOnce
  BY InitType DEF Init, ClaimedOnce
<1>2. TypeOK /\ ClaimedOnce /\ [Next]_vars => (TypeOK /\ ClaimedOnce)'
  BY StepType, StepOnce
<1> QED BY <1>1, <1>2, PTL DEF Spec

-----------------------------------------------------------------------------
(***************************************************************************)
(* Only withdraw debits a depositor, and it pays that depositor.           *)
(***************************************************************************)
LEMMA StepDebit == TypeOK /\ NothingBefore /\ [Next]_vars => DebitStep
<1> SUFFICES ASSUME TypeOK, NothingBefore, [Next]_vars PROVE DebitStep
  OBVIOUS
<1> USE AddressAssumption, WidthAssumption
<1>0. balances \in [Account -> 0 .. MaxI128] /\ \A n \in I128 : n \in Int
  BY DEF TypeOK, I128
<1>1. ASSUME NEW s \in Account, NEW a \in Account, Initialize({s}, a)
      PROVE  DebitStep
  BY <1>1 DEF Initialize, NothingBefore, DebitStep
<1>2. ASSUME NEW s \in Account, NEW from \in Account, NEW amount \in I128,
             Deposit({s}, from, amount)
      PROVE  DebitStep
  BY <1>0, <1>2 DEF Deposit, DebitStep
<1>3. ASSUME NEW s \in Account, NEW from \in Account, NEW amount \in I128,
             Withdraw({s}, from, amount)
      PROVE  DebitStep
  <2>1. from \in Address /\ from # Pool /\ amount \in Int
    BY <1>0 DEF Address
  <2>2. tokens'[from] = tokens[from] + amount /\ tokens[from] \in Nat
    BY <1>3, <2>1, PayOutEffect DEF Withdraw, TypeOK
  <2>3. balances'[from] = balances[from] - amount
        /\ \A a \in Account \ {from} : balances'[a] = balances[a]
    BY <1>0, <1>3 DEF Withdraw
  <2> QED BY <1>0, <2>1, <2>2, <2>3 DEF DebitStep
<1>4. CASE UNCHANGED balances
  BY <1>0, <1>4 DEF DebitStep
<1>5. ASSUME Next PROVE UNCHANGED balances \/ DebitStep
  BY <1>1, <1>2, <1>3, <1>5
     DEF Next, SetAchievementReward, Distribute, TokenTransfer,
         ClaimAchievementReward
<1> QED BY <1>4, <1>5 DEF vars

(***************************************************************************)
(* A depositor's credit shrinks only by a payment to that depositor.       *)
(***************************************************************************)
THEOREM DebitsArePaid == Spec => DebitIsPaid
<1>1. Init => TypeOK /\ NothingBefore
  BY InitType DEF Init, NothingBefore
<1>2. TypeOK /\ NothingBefore /\ [Next]_vars => (TypeOK /\ NothingBefore)'
  BY StepType, StepNothing
<1>3. TypeOK /\ NothingBefore /\ [Next]_vars => [DebitStep]_vars
  BY StepDebit
<1> QED BY <1>1, <1>2, <1>3, PTL DEF Spec, DebitIsPaid

(***************************************************************************)
(* Only a claim emits ach_clm, after its check of TotalDeposited.          *)
(***************************************************************************)
LEMMA StepClaim == TypeOK /\ [Next]_vars => ClaimStep
<1> SUFFICES ASSUME TypeOK, [Next]_vars PROVE ClaimStep
  OBVIOUS
<1>0. achClm \in [ClaimKey -> Nat] /\ totalDeposited \in Int
      /\ \A n \in I128 : n \in Int
  BY WidthAssumption DEF TypeOK, I128
<1>1. ASSUME NEW s \in Account, NEW to \in Address, NEW amount \in I128,
             NEW id \in Achievement, ClaimAchievementReward({s}, to, id, amount)
      PROVE  ClaimStep
  BY <1>0, <1>1 DEF ClaimAchievementReward, PoolCovers, PayOut, ClaimStep
<1>2. CASE UNCHANGED achClm
  BY <1>0, <1>2 DEF ClaimStep
<1>3. ASSUME Next PROVE UNCHANGED achClm \/ ClaimStep
  BY <1>1, <1>3
     DEF Next, Initialize, Deposit, Withdraw, SetAchievementReward, Distribute,
         TokenTransfer
<1> QED BY <1>2, <1>3 DEF vars

(***************************************************************************)
(* An achievement claim never drives TotalDeposited below zero.            *)
(***************************************************************************)
THEOREM ClaimsAreFunded == Spec => ClaimsFromDeposits
<1>1. TypeOK /\ [Next]_vars => [ClaimStep]_vars
  BY StepClaim
<1> QED BY <1>1, InitType, StepType, PTL DEF Spec, ClaimsFromDeposits

-----------------------------------------------------------------------------
(***************************************************************************)
(* All that withdraw checks beyond the depositor's signature, and all that *)
(* the token contract checks when it is asked for the transfer.            *)
(***************************************************************************)
Withdrawable(a, amount) ==
    /\ admin # NoAdmin
    /\ balances[a] >= amount
    /\ CanTransfer(tokens, Pool, amount)
    /\ totalDeposited - amount \in I128

(***************************************************************************)
(* A depositor can take a credit back in full or in part for as long as    *)
(* the credits of all, less what distributions and claims paid, still come *)
(* to the amount: then no check refuses, whatever else has happened.  In   *)
(* particular no credit is out of reach before the first payment, and what *)
(* a distribution costs the depositors together is never more than what it *)
(* paid.                                                                   *)
(***************************************************************************)
THEOREM CreditsAreWithdrawable ==
    Spec => [](\A a \in Account : \A amount \in 1 .. balances[a] :
                   amount + paid <= Total(balances) => Withdrawable(a, amount))
<1>1. ASSUME TypeOK, NothingBefore, TotalBacked, LedgerBalanced,
             NEW a \in Account, NEW amount \in 1 .. balances[a],
             amount + paid <= Total(balances)
      PROVE  Withdrawable(a, amount)
  <2>1. /\ balances \in [Account -> 0 .. MaxI128] /\ balances[a] \in 0 .. MaxI128
        /\ totalDeposited \in Int /\ totalDeposited <= MaxI128 /\ paid \in Nat
        /\ tokens[Pool] \in Nat /\ amount \in Int /\ MaxI128 \in Nat
    BY <1>1, WidthAssumption DEF TypeOK, I128, Address
  <2>2. amount <= totalDeposited /\ totalDeposited <= tokens[Pool]
    BY <1>1, <2>1 DEF LedgerBalanced, TotalBacked
  <2>3. admin # NoAdmin
    <3>1. CASE admin = NoAdmin
      BY <1>1, <2>1, <3>1 DEF NothingBefore
    <3> QED BY <3>1
  <2> QED BY <2>1, <2>2, <2>3 DEF Withdrawable, CanTransfer, I128
<1>2. Init => TypeOK /\ NothingBefore /\ TotalBacked /\ LedgerBalanced
  BY InitType, InitBacked, InitBalanced DEF Init, NothingBefore
<1>3. TypeOK /\ NothingBefore /\ TotalBacked /\ LedgerBalanced /\ [Next]_vars
          => (TypeOK /\ NothingBefore /\ TotalBacked /\ LedgerBalanced)'
  BY StepType, StepNothing, StepBacked, StepBalanced
<1>4. TypeOK /\ NothingBefore /\ TotalBacked /\ LedgerBalanced
          => \A a \in Account : \A amount \in 1 .. balances[a] :
                 amount + paid <= Total(balances) => Withdrawable(a, amount)
  BY <1>1
<1> QED BY <1>2, <1>3, <1>4, PTL DEF Spec
=============================================================================

------------------------------ MODULE Treasury ------------------------------
(***************************************************************************)
(* treasury: anyone deposits whitelisted tokens, the admin disburses them, *)
(* and cumulative statistics are kept per token.  The admin also keeps a   *)
(* list of spenders.  fees_collected is never written and left out.        *)
(***************************************************************************)
EXTENDS Token, Sequences

LOCAL INSTANCE SequencesExt

CONSTANTS
    Account,        \* addresses that can sign
    Contract,       \* the address of the contract itself: it never signs
    TokenContract,  \* addresses of token contracts
    NoAdmin,        \* value of admin before initialize
    MaxI128,        \* largest i128
    Minted          \* [Account -> Nat], who holds each token at first

Address == Account \cup {Contract}
I128 == -MaxI128 - 1 .. MaxI128

ASSUME TreasuryAssumption ==
    /\ Contract \notin Account /\ NoAdmin \notin Address
    /\ MaxI128 \in Nat
    /\ Minted \in [Account -> 0 .. MaxI128]

VARIABLES
    admin,              \* DataKey::Admin
    spenders,           \* DataKey::Spenders: those mapped to true
    supportedTokens,    \* DataKey::SupportedTokens
    totalDeposited,     \* DataKey::TokenStats, total_deposited
    totalDisbursed,     \* DataKey::TokenStats, total_disbursed
    tokens              \* balances kept by each token contract

vars == <<admin, spenders, supportedTokens, totalDeposited, totalDisbursed, tokens>>

TypeOK ==
    /\ admin \in Account \cup {NoAdmin}
    /\ spenders \in SUBSET Address
    /\ supportedTokens \in Seq(TokenContract)
    /\ totalDeposited \in [TokenContract -> 0 .. MaxI128]
    /\ totalDisbursed \in [TokenContract -> 0 .. MaxI128]
    /\ tokens \in [TokenContract -> [Address -> Nat]]

Init ==
    /\ admin = NoAdmin
    /\ spenders = {}
    /\ supportedTokens = <<>>
    /\ totalDeposited = [k \in TokenContract |-> 0]
    /\ totalDisbursed = [k \in TokenContract |-> 0]
    /\ tokens = [k \in TokenContract |->
           [a \in Address |-> IF a = Contract THEN 0 ELSE Minted[a]]]

-----------------------------------------------------------------------------
RequireAdmin(auth) == admin # NoAdmin /\ admin \in auth

Supported(k) == Contains(supportedTokens, k)

Pays(k, from, to, amount) ==
    /\ CanTransfer(tokens[k], from, amount)
    /\ tokens' = [tokens EXCEPT ![k] = Transferred(@, from, to, amount)]

Initialize(auth, a) ==
    /\ admin = NoAdmin
    /\ a \in auth
    /\ admin' = a
    /\ spenders' = {}
    /\ supportedTokens' = <<>>
    /\ UNCHANGED <<totalDeposited, totalDisbursed, tokens>>

AddSupportedToken(auth, k) ==
    /\ RequireAdmin(auth)
    /\ ~Supported(k)
    /\ supportedTokens' = Append(supportedTokens, k)
    /\ UNCHANGED <<admin, spenders, totalDeposited, totalDisbursed, tokens>>

AddSpender(auth, a) ==
    /\ RequireAdmin(auth)
    /\ spenders' = spenders \cup {a}
    /\ UNCHANGED <<admin, supportedTokens, totalDeposited, totalDisbursed, tokens>>

RemoveSpender(auth, a) ==
    /\ RequireAdmin(auth)
    /\ spenders' = spenders \ {a}
    /\ UNCHANGED <<admin, supportedTokens, totalDeposited, totalDisbursed, tokens>>

\* A mutation without the overflow check of the statistics.
MutDeposit(auth, from, k, amount) ==
    /\ from \in auth
    /\ amount > 0
    /\ Supported(k)
    /\ Pays(k, from, Contract, amount)
    /\ totalDeposited' = [totalDeposited EXCEPT ![k] = @ + amount]
    /\ UNCHANGED <<admin, spenders, supportedTokens, totalDisbursed>>

Deposit(auth, from, k, amount) ==
    /\ from \in auth
    /\ amount > 0
    /\ Supported(k)
    /\ Pays(k, from, Contract, amount)
    /\ totalDeposited[k] + amount \in I128
    /\ totalDeposited' = [totalDeposited EXCEPT ![k] = @ + amount]
    /\ UNCHANGED <<admin, spenders, supportedTokens, totalDisbursed>>

\* A mutation of disburse that does not record what it pays.
MutDisburse(auth, k, recipient, amount) ==
    /\ RequireAdmin(auth)
    /\ amount > 0
    /\ Supported(k)
    /\ Pays(k, Contract, recipient, amount)
    /\ UNCHANGED <<admin, spenders, supportedTokens, totalDeposited, totalDisbursed>>

\* Only the admin's authorisation counts, whoever is on the list of spenders.
Disburse(auth, k, recipient, amount) ==
    /\ RequireAdmin(auth)
    /\ amount > 0
    /\ Supported(k)
    /\ Pays(k, Contract, recipient, amount)
    /\ totalDisbursed[k] + amount \in I128
    /\ totalDisbursed' = [totalDisbursed EXCEPT ![k] = @ + amount]
    /\ UNCHANGED <<admin, spenders, supportedTokens, totalDeposited>>

\* Tokens sent at the token contract, to the treasury too.
TokenTransfer(k, from, to, amount) ==
    /\ Pays(k, from, to, amount)
    /\ UNCHANGED <<admin, spenders, supportedTokens, totalDeposited, totalDisbursed>>

Next ==
    \E s \in Account :
        \/ \E a \in Account : Initialize({s}, a)
        \/ \E a \in Address : AddSpender({s}, a) \/ RemoveSpender({s}, a)
        \/ \E k \in TokenContract :
               \/ AddSupportedToken({s}, k)
               \/ \E amount \in I128 :
                      \/ \E a \in Account : Deposit({s}, a, k, amount)
                      \/ \E a \in Address :
                             \/ Disburse({s}, k, a, amount)
                             \/ TokenTransfer(k, s, a, amount)

Spec == Init /\ [][Next]_vars

-----------------------------------------------------------------------------
(***************************************************************************)
(* The statistics can be trusted as a lower bound of the reserves: what    *)
(* was deposited and not disbursed is in the treasury, even though the     *)
(* treasury may pay itself, be sent tokens past deposit and disburse them. *)
(***************************************************************************)
StatsCovered ==
    \A k \in TokenContract :
        totalDeposited[k] - totalDisbursed[k] <= tokens[k][Contract]

(***************************************************************************)
(* Money leaves the treasury only on the books: its balance of a token     *)
(* falls by exactly what total_disbursed rises.                            *)
(***************************************************************************)
OutflowStep ==
    \A k \in TokenContract : tokens'[k][Contract] < tokens[k][Contract] =>
        tokens[k][Contract] - tokens'[k][Contract] = totalDisbursed'[k] - totalDisbursed[k]

OutflowIsBooked == [][OutflowStep]_vars

-----------------------------------------------------------------------------
(***************************************************************************)
(* What comments of the contract say, and the code does not do: lib.rs:94  *)
(* "grant address the right to disburse funds", and disburse is for        *)
(* "admin or spender" (lib.rs:144).  A spender that signs can disburse     *)
(* what the treasury holds.                                                *)
(***************************************************************************)
SpendersMayDisburse ==
    \A s \in spenders \cap Account, k \in TokenContract :
        Supported(k) /\ tokens[k][Contract] > 0 /\ totalDisbursed[k] < MaxI128 =>
            ENABLED Disburse({s}, k, s, 1)
=============================================================================

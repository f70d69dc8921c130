------------------------------ MODULE BadgeNft ------------------------------
(***************************************************************************)
(* badge_nft: soulbound badges.  The admin defines badge types and names   *)
(* minters; the admin and the minters mint; an owner may burn its own.     *)
(*                                                                         *)
(* An address authorises an invocation by signing it or, when it is a      *)
(* contract such as the claim orchestrator, by being the direct caller.    *)
(* A Vec of token ids whose order nothing depends on is the number of      *)
(* times it holds each id.                                                 *)
(***************************************************************************)
EXTENDS Integers, FiniteSets

CONSTANTS
    Account,        \* addresses: players, admins and minting contracts
    Signer,         \* those that start an invocation of this contract alone
    NoAdmin,        \* value of admin before initialize
    NoBadge,        \* value of token where no badge was minted
    MaxU32          \* largest u32

ASSUME BadgeAssumption ==
    NoAdmin \notin Account /\ Signer \subseteq Account /\ MaxU32 \in Nat

TypeId == 0 .. MaxU32 - 1
TokenId == 0 .. MaxU32 - 1
Badge == [badge_type_id : TypeId, owner : Account, alive : BOOLEAN]

ASSUME NoBadgeAssumption == NoBadge \notin Badge

VARIABLES
    admin,          \* DataKey::Admin
    minters,        \* DataKey::Minters: those mapped to true
    nextTypeId,     \* DataKey::NextTypeId
    badgeType,      \* DataKey::BadgeType: absent, or its active flag
    nextTokenId,    \* DataKey::NextTokenId
    token,          \* DataKey::Token
    ownerTokens     \* DataKey::OwnerTokens: how often an id is listed

vars == <<admin, minters, nextTypeId, badgeType, nextTokenId, token, ownerTokens>>

TypeOK ==
    /\ admin \in Account \cup {NoAdmin}
    /\ minters \in SUBSET Account
    /\ nextTypeId \in 0 .. MaxU32
    /\ badgeType \in [TypeId -> {"absent", "active", "inactive"}]
    /\ nextTokenId \in 0 .. MaxU32
    /\ token \in [TokenId -> Badge \cup {NoBadge}]
    /\ ownerTokens \in [Account -> [TokenId -> Nat]]

Init ==
    /\ admin = NoAdmin
    /\ minters = {}
    /\ nextTypeId = 0
    /\ badgeType = [t \in TypeId |-> "absent"]
    /\ nextTokenId = 0
    /\ token = [i \in TokenId |-> NoBadge]
    /\ ownerTokens = [a \in Account |-> [i \in TokenId |-> 0]]

-----------------------------------------------------------------------------
RequireAdmin(auth) == admin # NoAdmin /\ admin \in auth

Initialize(auth, a) ==
    /\ admin = NoAdmin
    /\ a \in auth
    /\ admin' = a
    /\ minters' = {}
    /\ nextTypeId' = 0
    /\ nextTokenId' = 0
    /\ UNCHANGED <<badgeType, token, ownerTokens>>

AddMinter(auth, a) ==
    /\ RequireAdmin(auth)
    /\ minters' = minters \cup {a}
    /\ UNCHANGED <<admin, nextTypeId, badgeType, nextTokenId, token, ownerTokens>>

RemoveMinter(auth, a) ==
    /\ RequireAdmin(auth)
    /\ minters' = minters \ {a}
    /\ UNCHANGED <<admin, nextTypeId, badgeType, nextTokenId, token, ownerTokens>>

\* A mutation of create_badge_type that lets the id counter run over.
MutCreateBadgeType(auth) ==
    /\ RequireAdmin(auth)
    /\ badgeType' = [badgeType EXCEPT ![nextTypeId] = "active"]
    /\ nextTypeId' = nextTypeId + 1
    /\ UNCHANGED <<admin, minters, nextTokenId, token, ownerTokens>>

CreateBadgeType(auth) ==
    /\ RequireAdmin(auth)
    /\ nextTypeId < MaxU32
    /\ badgeType' = [badgeType EXCEPT ![nextTypeId] = "active"]
    /\ nextTypeId' = nextTypeId + 1
    /\ UNCHANGED <<admin, minters, nextTokenId, token, ownerTokens>>

DeactivateBadgeType(auth, t) ==
    /\ RequireAdmin(auth)
    /\ badgeType[t] # "absent"
    /\ badgeType' = [badgeType EXCEPT ![t] = "inactive"]
    /\ UNCHANGED <<admin, minters, nextTypeId, nextTokenId, token, ownerTokens>>

\* A mutation that accepts any badge type that exists.
MutMintable(t) == badgeType[t] # "absent"

Mintable(t) == badgeType[t] = "active"

\* Mint returns the id it used, nextTokenId.
Mint(auth, caller, recipient, t) ==
    /\ caller \in auth
    /\ admin # NoAdmin
    /\ caller = admin \/ caller \in minters
    /\ Mintable(t)
    /\ nextTokenId < MaxU32
    /\ token' = [token EXCEPT ![nextTokenId] =
           [badge_type_id |-> t, owner |-> recipient, alive |-> TRUE]]
    /\ nextTokenId' = nextTokenId + 1
    /\ ownerTokens' = [ownerTokens EXCEPT ![recipient][nextTokenId] = @ + 1]
    /\ UNCHANGED <<admin, minters, nextTypeId, badgeType>>

\* A mutation of the owner's list that forgets to drop the burned id.
MutDelist(owner, i) == ownerTokens

Delist(owner, i) == [ownerTokens EXCEPT ![owner][i] = 0]

Burn(auth, owner, i) ==
    /\ owner \in auth
    /\ token[i] # NoBadge
    /\ token[i].owner = owner
    /\ token[i].alive
    /\ token' = [token EXCEPT ![i].alive = FALSE]
    /\ ownerTokens' = Delist(owner, i)
    /\ UNCHANGED <<admin, minters, nextTypeId, badgeType, nextTokenId>>

Next ==
    \E s \in Signer :
        \/ \E a \in Account :
               Initialize({s}, a) \/ AddMinter({s}, a) \/ RemoveMinter({s}, a)
        \/ CreateBadgeType({s})
        \/ \E t \in TypeId : DeactivateBadgeType({s}, t)
        \/ \E caller, recipient \in Account, t \in TypeId :
               Mint({s}, caller, recipient, t)
        \/ \E owner \in Account, i \in TokenId : Burn({s}, owner, i)

Spec == Init /\ [][Next]_vars

-----------------------------------------------------------------------------
\* The queries: how often the list of owner holds each badge, and the counter.
tokens_of(owner) == ownerTokens[owner]
total_supply == nextTokenId

\* What the list of an owner is to hold: its live badges, once each.
Held(a, i) == token[i] # NoBadge /\ token[i].owner = a /\ token[i].alive

(***************************************************************************)
(* The index over the badges is exact through any mix of mints and burns:  *)
(* tokens_of returns "all live token IDs owned by owner", each once, and   *)
(* total_supply counts "minted tokens (ever)", the ids below it being      *)
(* those minted, burned ones included, so that an id is never reused.      *)
(***************************************************************************)
OwnerIndexExact ==
    /\ \A a \in Account, i \in TokenId : tokens_of(a)[i] = IF Held(a, i) THEN 1 ELSE 0
    /\ \A i \in TokenId : token[i] # NoBadge <=> i < total_supply

(***************************************************************************)
(* A badge is permanently bound to the address it was minted to: from the  *)
(* mint on, owner and type never change, and a burned badge stays burned.  *)
(* A deactivated type is as final: no later mint is of it, whoever holds a *)
(* minter's right and however many types follow.                           *)
(***************************************************************************)
BoundStep ==
    /\ \A i \in TokenId : token[i] # NoBadge =>
           token'[i] \in {token[i], [token[i] EXCEPT !.alive = FALSE]}
    /\ \A i \in TokenId, t \in TypeId :
           badgeType[t] # "active" /\ token'[i] # token[i] /\ token[i] = NoBadge =>
               token'[i].badge_type_id # t
    /\ \A t \in TypeId : badgeType[t] = "inactive" => badgeType'[t] = "inactive"

Soulbound == [][BoundStep]_vars
=============================================================================

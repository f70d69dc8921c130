------------------------ MODULE AchievementRegistry ------------------------
(***************************************************************************)
(* achievement_registry: the admin defines achievements and names awarders;*)
(* the admin and the awarders award them to users, each once.              *)
(*                                                                         *)
(* The registry is not called by the other contracts: achievement ids in   *)
(* reward_pool and player_registry are numbers that it need not know.      *)
(***************************************************************************)
EXTENDS Integers, Sequences

CONSTANTS
    Account,        \* addresses: users, awarders, admins
    NoAdmin,        \* value of admin before initialize
    MaxU32,         \* largest u32 of the id counter
    MaxLedger       \* bound on the ledger sequence number

AchievementId == 0 .. MaxU32 - 1
AwardRecord == [achievement_id : AchievementId, awarded_at_ledger : 0 .. MaxLedger]

ASSUME AwardAssumption ==
    NoAdmin \notin Account /\ MaxU32 \in Nat /\ MaxLedger \in Nat

VARIABLES
    admin,          \* DataKey::Admin
    awarders,       \* DataKey::Awarders: those mapped to true
    nextId,         \* DataKey::NextId
    achievement,    \* DataKey::Achievement: absent, or its active flag
    userAwards,     \* DataKey::UserAwards
    ledger          \* sequence number of the current ledger

vars == <<admin, awarders, nextId, achievement, userAwards, ledger>>

TypeOK ==
    /\ admin \in Account \cup {NoAdmin}
    /\ awarders \in SUBSET Account
    /\ nextId \in 0 .. MaxU32
    /\ achievement \in [AchievementId -> {"absent", "active", "inactive"}]
    /\ userAwards \in [Account -> Seq(AwardRecord)]
    /\ ledger \in 0 .. MaxLedger

Init ==
    /\ admin = NoAdmin
    /\ awarders = {}
    /\ nextId = 0
    /\ achievement = [id \in AchievementId |-> "absent"]
    /\ userAwards = [a \in Account |-> <<>>]
    /\ ledger = 0

-----------------------------------------------------------------------------
RequireAdmin(auth) == admin # NoAdmin /\ admin \in auth

Initialize(auth, a) ==
    /\ admin = NoAdmin
    /\ a \in auth
    /\ admin' = a
    /\ nextId' = 0
    /\ awarders' = {}
    /\ UNCHANGED <<achievement, userAwards, ledger>>

AddAwarder(auth, a) ==
    /\ RequireAdmin(auth)
    /\ awarders' = awarders \cup {a}
    /\ UNCHANGED <<admin, nextId, achievement, userAwards, ledger>>

RemoveAwarder(auth, a) ==
    /\ RequireAdmin(auth)
    /\ awarders' = awarders \ {a}
    /\ UNCHANGED <<admin, nextId, achievement, userAwards, ledger>>

\* A mutation that lets the id counter run over.
MutRegisterAchievement(auth) ==
    /\ RequireAdmin(auth)
    /\ nextId' = nextId + 1
    /\ achievement' = [achievement EXCEPT ![nextId] = "active"]
    /\ UNCHANGED <<admin, awarders, userAwards, ledger>>

RegisterAchievement(auth) ==
    /\ RequireAdmin(auth)
    /\ nextId < MaxU32
    /\ nextId' = nextId + 1
    /\ achievement' = [achievement EXCEPT ![nextId] = "active"]
    /\ UNCHANGED <<admin, awarders, userAwards, ledger>>

DeactivateAchievement(auth, id) ==
    /\ RequireAdmin(auth)
    /\ achievement[id] # "absent"
    /\ achievement' = [achievement EXCEPT ![id] = "inactive"]
    /\ UNCHANGED <<admin, awarders, nextId, userAwards, ledger>>

\* A mutation that accepts an achievement that merely exists.
MutAwardable(id) == achievement[id] # "absent"

Awardable(id) == achievement[id] = "active"

\* A mutation that compares with the last award only.
MutHasAchievement(user, id) ==
    /\ userAwards[user] # <<>>
    /\ userAwards[user][Len(userAwards[user])].achievement_id = id

HasAchievement(user, id) ==
    \E i \in DOMAIN userAwards[user] : userAwards[user][i].achievement_id = id

Award(auth, caller, user, id) ==
    /\ caller \in auth
    /\ admin # NoAdmin
    /\ caller = admin \/ caller \in awarders
    /\ Awardable(id)
    /\ ~HasAchievement(user, id)
    /\ userAwards' = [userAwards EXCEPT ![user] =
           Append(@, [achievement_id |-> id, awarded_at_ledger |-> ledger])]
    /\ UNCHANGED <<admin, awarders, nextId, achievement, ledger>>

\* The network closes a ledger.
Tick ==
    /\ ledger < MaxLedger
    /\ ledger' = ledger + 1
    /\ UNCHANGED <<admin, awarders, nextId, achievement, userAwards>>

Next ==
    \/ \E s \in Account :
           \/ \E a \in Account :
                  Initialize({s}, a) \/ AddAwarder({s}, a) \/ RemoveAwarder({s}, a)
           \/ RegisterAchievement({s})
           \/ \E id \in AchievementId :
                  \/ DeactivateAchievement({s}, id)
                  \/ \E caller, user \in Account : Award({s}, caller, user, id)
    \/ Tick

Spec == Init /\ [][Next]_vars

-----------------------------------------------------------------------------
(***************************************************************************)
(* A user's awards are a history: each achievement stands in it once, in   *)
(* the order of the ledgers in which it was awarded.                       *)
(***************************************************************************)
AwardsAreHistory ==
    \A u \in Account : LET w == userAwards[u] IN
        \A i, j \in DOMAIN w : i < j =>
            /\ w[i].achievement_id # w[j].achievement_id
            /\ w[i].awarded_at_ledger <= w[j].awarded_at_ledger

(***************************************************************************)
(* A deactivated achievement is awarded to nobody any more, and is never   *)
(* active again, but those who have it keep it.                            *)
(***************************************************************************)
RetireStep ==
    /\ \A id \in AchievementId : achievement[id] = "inactive" =>
           /\ achievement'[id] = "inactive"
           /\ \A u \in Account : HasAchievement(u, id)' => HasAchievement(u, id)
    /\ \A u \in Account, id \in AchievementId :
           HasAchievement(u, id) => HasAchievement(u, id)'

RetirementFinal == [][RetireStep]_vars
=============================================================================

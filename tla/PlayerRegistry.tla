--------------------------- MODULE PlayerRegistry ---------------------------
(***************************************************************************)
(* player_registry: the admin registers players under unique usernames,    *)
(* keeps their statistics, bans them, and records the achievements they    *)
(* were rewarded for and the badges they were given.                       *)
(*                                                                         *)
(* Every Vec that the code searches before it pushes is the number of      *)
(* times it holds each element: its order is never used.                   *)
(***************************************************************************)
EXTENDS Integers, FiniteSets

CONSTANTS
    Account,        \* addresses: players and admins
    NoAdmin,        \* value of admin before initialize
    NoProfile,      \* value of profile for an unregistered address
    Nobody,         \* value of usernameOwner for a free name
    Username, GameId, AchievementId, TokenId,
    MaxU32,         \* largest u32
    MaxI128         \* largest i128

I128 == -MaxI128 - 1 .. MaxI128
Profile == [username : Username, reputation : I128, wins : 0 .. MaxU32,
            tournaments_played : 0 .. MaxU32, games : [GameId -> Nat],
            active : BOOLEAN]

ASSUME RegistryAssumption ==
    /\ {NoAdmin, Nobody} \cap Account = {}
    /\ NoProfile \notin Profile
    /\ IsFiniteSet(Account)
    /\ MaxU32 \in Nat
    /\ MaxI128 \in Nat

VARIABLES
    admin,              \* DataKey::Admin
    profile,            \* DataKey::Player
    usernameOwner,      \* DataKey::Username
    playerCount,        \* DataKey::PlayerCount
    playerIndex,        \* DataKey::PlayerIndex: how often a player is listed
    claimedRewards,     \* DataKey::ClaimedRewards: how often an id is listed
    badgeList           \* DataKey::BadgeList: how often an id is listed

vars == <<admin, profile, usernameOwner, playerCount, playerIndex,
          claimedRewards, badgeList>>

TypeOK ==
    /\ admin \in Account \cup {NoAdmin}
    /\ profile \in [Account -> Profile \cup {NoProfile}]
    /\ usernameOwner \in [Username -> Account \cup {Nobody}]
    /\ playerCount \in 0 .. MaxU32
    /\ playerIndex \in [Account -> Nat]
    /\ claimedRewards \in [Account -> [AchievementId -> Nat]]
    /\ badgeList \in [Account -> [TokenId -> Nat]]

Init ==
    /\ admin = NoAdmin
    /\ profile = [p \in Account |-> NoProfile]
    /\ usernameOwner = [n \in Username |-> Nobody]
    /\ playerCount = 0
    /\ playerIndex = [p \in Account |-> 0]
    /\ claimedRewards = [p \in Account |-> [a \in AchievementId |-> 0]]
    /\ badgeList = [p \in Account |-> [i \in TokenId |-> 0]]

-----------------------------------------------------------------------------
RequireAdmin(auth) == admin # NoAdmin /\ admin \in auth

Registered(p) == profile[p] # NoProfile

\* A mutation of load_active_player that forgets the ban.
MutActive(p) == Registered(p)

\* load_active_player: everything but remove_badge, set_active and the
\* queries panics for a player that is banned or unknown.
Active(p) == Registered(p) /\ profile[p].active

\* A mutation of saturating_add: plain addition.
MutSaturated(x) == x

Saturated(x) == IF x > MaxI128 THEN MaxI128
                ELSE IF x < -MaxI128 - 1 THEN -MaxI128 - 1 ELSE x

\* A mutation that pushes without searching first.
MutPushed(list, id) == [list EXCEPT ![id] = @ + 1]

\* Push id unless the list has it: the search returns early on a match.
Pushed(list, id) == IF list[id] > 0 THEN list ELSE [list EXCEPT ![id] = 1]

Initialize(auth, a) ==
    /\ admin = NoAdmin
    /\ a \in auth
    /\ admin' = a
    /\ playerCount' = 0
    /\ playerIndex' = [p \in Account |-> 0]
    /\ UNCHANGED <<profile, usernameOwner, claimedRewards, badgeList>>

\* A mutation of register_player's guards: the same wallet twice.
MutMayRegister(p, name) == usernameOwner[name] = Nobody

MayRegister(p, name) == ~Registered(p) /\ usernameOwner[name] = Nobody

RegisterPlayer(auth, p, name) ==
    /\ RequireAdmin(auth)
    /\ MayRegister(p, name)
    /\ playerCount < MaxU32
    /\ profile' = [profile EXCEPT ![p] =
           [username |-> name, reputation |-> 0, wins |-> 0,
            tournaments_played |-> 0, games |-> [g \in GameId |-> 0],
            active |-> TRUE]]
    /\ usernameOwner' = [usernameOwner EXCEPT ![name] = p]
    /\ playerCount' = playerCount + 1
    /\ playerIndex' = [playerIndex EXCEPT ![p] = @ + 1]
    /\ UNCHANGED <<admin, claimedRewards, badgeList>>

\* The admin rewrites the profile of an active player.
UpdateActive(auth, p, new) ==
    /\ RequireAdmin(auth)
    /\ Active(p)
    /\ profile' = [profile EXCEPT ![p] = new]
    /\ UNCHANGED <<admin, usernameOwner, playerCount, playerIndex,
                   claimedRewards, badgeList>>

\* A mutation of record_win that counts a win, but no tournament.
MutRecordWin(auth, p) ==
    /\ Active(p)
    /\ profile[p].wins < MaxU32
    /\ UpdateActive(auth, p, [profile[p] EXCEPT !.wins = @ + 1])

\* Both counters overflow with a panic, which reverts both.
RecordWin(auth, p) ==
    /\ Active(p)
    /\ profile[p].wins < MaxU32
    /\ profile[p].tournaments_played < MaxU32
    /\ UpdateActive(auth, p, [profile[p] EXCEPT
           !.wins = @ + 1, !.tournaments_played = @ + 1])

RecordParticipation(auth, p) ==
    /\ Active(p)
    /\ profile[p].tournaments_played < MaxU32
    /\ UpdateActive(auth, p, [profile[p] EXCEPT !.tournaments_played = @ + 1])

AddReputation(auth, p, delta) ==
    /\ Active(p)
    /\ UpdateActive(auth, p, [profile[p] EXCEPT !.reputation = Saturated(@ + delta)])

AddGame(auth, p, g) ==
    /\ Active(p)
    /\ UpdateActive(auth, p, [profile[p] EXCEPT !.games = Pushed(@, g)])

AddClaimedReward(auth, p, a) ==
    /\ RequireAdmin(auth)
    /\ Active(p)
    /\ claimedRewards' = [claimedRewards EXCEPT ![p] = Pushed(@, a)]
    /\ UNCHANGED <<admin, profile, usernameOwner, playerCount, playerIndex,
                   badgeList>>

AddBadge(auth, p, i) ==
    /\ RequireAdmin(auth)
    /\ Active(p)
    /\ badgeList' = [badgeList EXCEPT ![p] = Pushed(@, i)]
    /\ UNCHANGED <<admin, profile, usernameOwner, playerCount, playerIndex,
                   claimedRewards>>

\* remove_badge alone does not look the player up: it works for a banned one,
\* and writes an empty list for an unknown one.
RemoveBadge(auth, p, i) ==
    /\ RequireAdmin(auth)
    /\ badgeList' = [badgeList EXCEPT ![p][i] = 0]
    /\ UNCHANGED <<admin, profile, usernameOwner, playerCount, playerIndex,
                   claimedRewards>>

SetActive(auth, p, active) ==
    /\ RequireAdmin(auth)
    /\ Registered(p)
    /\ profile' = [profile EXCEPT ![p].active = active]
    /\ UNCHANGED <<admin, usernameOwner, playerCount, playerIndex,
                   claimedRewards, badgeList>>

Next ==
    \E s, p \in Account :
        \/ Initialize({s}, p)
        \/ \E name \in Username : RegisterPlayer({s}, p, name)
        \/ RecordWin({s}, p)
        \/ RecordParticipation({s}, p)
        \/ \E delta \in I128 : AddReputation({s}, p, delta)
        \/ \E g \in GameId : AddGame({s}, p, g)
        \/ \E a \in AchievementId : AddClaimedReward({s}, p, a)
        \/ \E i \in TokenId : AddBadge({s}, p, i) \/ RemoveBadge({s}, p, i)
        \/ \E active \in BOOLEAN : SetActive({s}, p, active)

Spec == Init /\ [][Next]_vars

-----------------------------------------------------------------------------
\* The queries: lookup_username panics for a free name.
lookup_username(name) == usernameOwner[name]
player_list == playerIndex
player_count == playerCount

RegisteredPlayers == {p \in Account : Registered(p)}

(***************************************************************************)
(* All indices over the players agree with the profiles: a username leads  *)
(* to the one player whose profile carries it and to nobody otherwise,     *)
(* player_list holds every registered player once, and player_count is its *)
(* length.                                                                 *)
(***************************************************************************)
IndexExact ==
    /\ \A n \in Username, p \in Account :
           lookup_username(n) = p <=> Registered(p) /\ profile[p].username = n
    /\ \A p \in Account : player_list[p] = IF Registered(p) THEN 1 ELSE 0
    /\ player_count = Cardinality(RegisteredPlayers)

(***************************************************************************)
(* No player has won more tournaments than it played.                      *)
(***************************************************************************)
WinsArePlayed ==
    \A p \in RegisteredPlayers : profile[p].wins <= profile[p].tournaments_played

(***************************************************************************)
(* What is recorded for a player is recorded once, and only for a          *)
(* registered one.                                                         *)
(***************************************************************************)
RecordedOnce ==
    \A p \in Account :
        /\ \A a \in AchievementId : claimedRewards[p][a] <= IF Registered(p) THEN 1 ELSE 0
        /\ \A i \in TokenId : badgeList[p][i] <= IF Registered(p) THEN 1 ELSE 0
        /\ Registered(p) => \A g \in GameId : profile[p].games[g] <= 1

(***************************************************************************)
(* A ban freezes a player: as long as it is banned nothing is added to     *)
(* its record, the one thing left to the admin being to unban it or to     *)
(* take badges off its list.                                               *)
(***************************************************************************)
BanStep ==
    \A p \in RegisteredPlayers : ~profile[p].active =>
        /\ claimedRewards'[p] = claimedRewards[p]
        /\ \A i \in TokenId : badgeList'[p][i] <= badgeList[p][i]
        /\ [profile'[p] EXCEPT !.active = FALSE] = profile[p]

BanFreezes == [][BanStep]_vars
=============================================================================

------------------------ MODULE PlayerRegistryProofs ------------------------
(***************************************************************************)
(* The properties of PlayerRegistry, for every set of accounts, usernames, *)
(* games, achievements and badges and every width of the counters.         *)
(*                                                                         *)
(* Each is inductive with the types, but for one step: initialize sets the *)
(* count and the list of players back, and finds them at zero because only *)
(* an admin registers players (Empty).                                     *)
(***************************************************************************)
EXTENDS PlayerRegistry, FiniteSetTheorems, TLAPS

LEMMA Words ==
    /\ MaxU32 \in Nat /\ MaxI128 \in Nat /\ IsFiniteSet(Account)
    /\ NoProfile \notin Profile /\ NoAdmin \notin Account /\ Nobody \notin Account
BY RegistryAssumption

(***************************************************************************)
(* Additions to reputation stay within i128, and to a list within one of   *)
(* each element.                                                           *)
(***************************************************************************)
LEMMA SaturatedType ==
    ASSUME NEW x \in Int
    PROVE  Saturated(x) \in I128
BY Words DEF Saturated, I128

LEMMA PushedType ==
    ASSUME NEW S, NEW list \in [S -> Nat], NEW id \in S
    PROVE  /\ Pushed(list, id) \in [S -> Nat]
           /\ \A i \in S : /\ list[i] <= 1 => Pushed(list, id)[i] <= 1
                           /\ list[i] <= Pushed(list, id)[i]
           /\ Pushed(list, id)[id] > 0
BY DEF Pushed

(***************************************************************************)
(* What the admin may make of a profile: the name stays, the wins stay     *)
(* within the tournaments played, the games are listed once, and a banned  *)
(* profile changes in nothing but the ban.                                 *)
(***************************************************************************)
Rewrites(p, new) ==
    /\ profile[p] \in Profile /\ new \in Profile
    /\ new.username = profile[p].username
    /\ profile[p].wins <= profile[p].tournaments_played
           => new.wins <= new.tournaments_played
    /\ \A g \in GameId : profile[p].games[g] <= 1 => new.games[g] <= 1
    /\ ~profile[p].active => [new EXCEPT !.active = FALSE] = profile[p]
    /\ profile' = [profile EXCEPT ![p] = new]
    /\ UNCHANGED <<admin, usernameOwner, playerCount, playerIndex,
                   claimedRewards, badgeList>>

LEMMA WinEffect ==
    ASSUME TypeOK, NEW s \in Account, NEW p \in Account, RecordWin({s}, p)
    PROVE  \E new : Rewrites(p, new)
<1> DEFINE old == profile[p]
           new == [old EXCEPT !.wins = @ + 1, !.tournaments_played = @ + 1]
<1>1. /\ old \in Profile /\ old.active
      /\ old.wins < MaxU32 /\ old.tournaments_played < MaxU32
      /\ profile' = [profile EXCEPT ![p] = new]
      /\ UNCHANGED <<admin, usernameOwner, playerCount, playerIndex,
                     claimedRewards, badgeList>>
  BY DEF RecordWin, UpdateActive, Active, Registered, TypeOK
<1> HIDE DEF old
<1>2. new \in Profile
  <2>1. old.wins + 1 \in 0 .. MaxU32 /\ old.tournaments_played + 1 \in 0 .. MaxU32
    BY <1>1, Words DEF Profile
  <2>2. new = [old EXCEPT !.wins = old.wins + 1,
                          !.tournaments_played = old.tournaments_played + 1]
    BY <1>1 DEF Profile
  <2> HIDE DEF new
  <2> QED BY <1>1, <2>1, <2>2 DEF Profile
<1>3. /\ new.username = old.username /\ new.games = old.games
      /\ new.wins = old.wins + 1 /\ new.tournaments_played = old.tournaments_played + 1
      /\ old.wins \in Nat /\ old.tournaments_played \in Nat
  BY <1>1, Words DEF Profile
<1> HIDE DEF new
<1>4. Rewrites(p, new)
  BY <1>1, <1>2, <1>3 DEF Rewrites, old
<1> QED BY <1>4

LEMMA ParticipationEffect ==
    ASSUME TypeOK, NEW s \in Account, NEW p \in Account, RecordParticipation({s}, p)
    PROVE  \E new : Rewrites(p, new)
<1> DEFINE old == profile[p]
           new == [old EXCEPT !.tournaments_played = @ + 1]
<1>1. /\ old \in Profile /\ old.active
      /\ old.tournaments_played < MaxU32
      /\ profile' = [profile EXCEPT ![p] = new]
      /\ UNCHANGED <<admin, usernameOwner, playerCount, playerIndex,
                     claimedRewards, badgeList>>
  BY DEF RecordParticipation, UpdateActive, Active, Registered, TypeOK
<1> HIDE DEF old
<1>2. new \in Profile
  BY <1>1, Words DEF Profile
<1>3. /\ new.username = old.username /\ new.games = old.games
      /\ new.wins = old.wins /\ new.tournaments_played = old.tournaments_played + 1
      /\ old.wins \in Nat /\ old.tournaments_played \in Nat
  BY <1>1, Words DEF Profile
<1> HIDE DEF new
<1>4. Rewrites(p, new)
  BY <1>1, <1>2, <1>3 DEF Rewrites, old
<1> QED BY <1>4

LEMMA ReputationEffect ==
    ASSUME TypeOK, NEW s \in Account, NEW p \in Account, NEW delta \in Int,
           AddReputation({s}, p, delta)
    PROVE  \E new : Rewrites(p, new)
<1> DEFINE old == profile[p]
           new == [old EXCEPT !.reputation = Saturated(@ + delta)]
<1>1. /\ old \in Profile /\ old.active
      /\ profile' = [profile EXCEPT ![p] = new]
      /\ UNCHANGED <<admin, usernameOwner, playerCount, playerIndex,
                     claimedRewards, badgeList>>
  BY DEF AddReputation, UpdateActive, Active, Registered, TypeOK
<1> HIDE DEF old
<1>2. Saturated(old.reputation + delta) \in I128
  <2>1. old.reputation \in Int
    BY <1>1 DEF Profile, I128
  <2> QED BY <2>1, SaturatedType
<1>3. new \in Profile
  BY <1>1, <1>2 DEF Profile
<1>4. /\ new.username = old.username /\ new.games = old.games
      /\ new.wins = old.wins /\ new.tournaments_played = old.tournaments_played
  BY <1>1 DEF Profile
<1> HIDE DEF new
<1>5. Rewrites(p, new)
  BY <1>1, <1>3, <1>4 DEF Rewrites, old
<1> QED BY <1>5

LEMMA GameEffect ==
    ASSUME TypeOK, NEW s \in Account, NEW p \in Account, NEW g \in GameId,
           AddGame({s}, p, g)
    PROVE  \E new : Rewrites(p, new)
<1> DEFINE old == profile[p]
           new == [old EXCEPT !.games = Pushed(@, g)]
<1>1. /\ old \in Profile /\ old.active
      /\ profile' = [profile EXCEPT ![p] = new]
      /\ UNCHANGED <<admin, usernameOwner, playerCount, playerIndex,
                     claimedRewards, badgeList>>
  BY DEF AddGame, UpdateActive, Active, Registered, TypeOK
<1> HIDE DEF old
<1>2. PICK games : games = old.games /\ games \in [GameId -> Nat]
  BY <1>1 DEF Profile
<1>3. PICK after : /\ after = Pushed(games, g) /\ after \in [GameId -> Nat]
                   /\ \A i \in GameId : games[i] <= 1 => after[i] <= 1
  BY <1>2, PushedType
<1>4. new \in Profile
  BY <1>1, <1>2, <1>3 DEF Profile
<1>5. /\ new.username = old.username /\ new.games = after
      /\ new.wins = old.wins /\ new.tournaments_played = old.tournaments_played
  BY <1>1, <1>2, <1>3 DEF Profile
<1> HIDE DEF new
<1>6. Rewrites(p, new)
  BY <1>1, <1>2, <1>3, <1>4, <1>5 DEF Rewrites, old
<1> QED BY <1>6

LEMMA ActiveEffect ==
    ASSUME TypeOK, NEW s \in Account, NEW p \in Account, NEW active \in BOOLEAN,
           SetActive({s}, p, active)
    PROVE  \E new : Rewrites(p, new)
<1> DEFINE old == profile[p]
           new == [old EXCEPT !.active = active]
<1>1. /\ old \in Profile
      /\ profile' = [profile EXCEPT ![p] = new]
      /\ UNCHANGED <<admin, usernameOwner, playerCount, playerIndex,
                     claimedRewards, badgeList>>
  BY DEF SetActive, Registered, TypeOK
<1> HIDE DEF old
<1>2. new \in Profile
  BY <1>1 DEF Profile
<1>3. /\ new.username = old.username /\ new.games = old.games
      /\ new.wins = old.wins /\ new.tournaments_played = old.tournaments_played
  BY <1>1 DEF Profile
<1>4. ~old.active => [new EXCEPT !.active = FALSE] = old
  BY <1>1 DEF Profile
<1> HIDE DEF new
<1>5. Rewrites(p, new)
  BY <1>1, <1>2, <1>3, <1>4 DEF Rewrites, old
<1> QED BY <1>5

\* The other writes: a new player, and the lists of one.
Enlists(p, name) ==
    /\ ~Registered(p) /\ usernameOwner[name] = Nobody /\ playerCount < MaxU32
    /\ \E new \in Profile :
           /\ new.username = name /\ new.wins = 0 /\ new.tournaments_played = 0
           /\ \A g \in GameId : new.games[g] = 0
           /\ profile' = [profile EXCEPT ![p] = new]
    /\ usernameOwner' = [usernameOwner EXCEPT ![name] = p]
    /\ playerCount' = playerCount + 1
    /\ playerIndex' = [playerIndex EXCEPT ![p] = @ + 1]
    /\ admin # NoAdmin
    /\ UNCHANGED <<admin, claimedRewards, badgeList>>

LEMMA RegisterEffect ==
    ASSUME NEW s \in Account, NEW p \in Account, NEW name \in Username,
           RegisterPlayer({s}, p, name)
    PROVE  Enlists(p, name)
<1> DEFINE new == [username |-> name, reputation |-> 0, wins |-> 0,
                   tournaments_played |-> 0, games |-> [g \in GameId |-> 0], active |-> TRUE]
<1>1. 0 \in I128 /\ 0 \in 0 .. MaxU32
  BY Words DEF I128
<1>2. new \in Profile
  BY <1>1 DEF Profile
<1>3. /\ new.username = name /\ new.wins = 0 /\ new.tournaments_played = 0
      /\ \A g \in GameId : new.games[g] = 0
      /\ profile' = [profile EXCEPT ![p] = new]
  BY DEF RegisterPlayer
<1> HIDE DEF new
<1> QED BY <1>2, <1>3 DEF RegisterPlayer, MayRegister, RequireAdmin, Enlists

Lists(p) ==
    /\ claimedRewards' \in [Account -> [AchievementId -> Nat]]
    /\ badgeList' \in [Account -> [TokenId -> Nat]]
    /\ \A q \in Account \ {p} : /\ claimedRewards'[q] = claimedRewards[q]
                                /\ badgeList'[q] = badgeList[q]
    /\ \A a \in AchievementId : claimedRewards[p][a] <= 1 => claimedRewards'[p][a] <= 1
    /\ \A i \in TokenId : badgeList[p][i] <= 1 => badgeList'[p][i] <= 1
    /\ \/ Active(p)
       \/ /\ claimedRewards' = claimedRewards
          /\ \A i \in TokenId : badgeList'[p][i] <= badgeList[p][i]
    /\ UNCHANGED <<admin, profile, usernameOwner, playerCount, playerIndex>>

LEMMA ClaimedEffect ==
    ASSUME TypeOK, NEW s \in Account, NEW p \in Account, NEW a \in AchievementId,
           AddClaimedReward({s}, p, a)
    PROVE  Lists(p)
<1>1. PICK list : list = claimedRewards[p] /\ list \in [AchievementId -> Nat]
  BY DEF TypeOK
<1>2. PICK after : /\ after = Pushed(list, a) /\ after \in [AchievementId -> Nat]
                   /\ \A i \in AchievementId : list[i] <= 1 => after[i] <= 1
  BY <1>1, PushedType
<1>3. claimedRewards' = [claimedRewards EXCEPT ![p] = after]
  BY <1>1, <1>2 DEF AddClaimedReward
<1> QED BY <1>1, <1>2, <1>3 DEF AddClaimedReward, Lists, TypeOK

LEMMA BadgeEffect ==
    ASSUME TypeOK, NEW s \in Account, NEW p \in Account, NEW b \in TokenId,
           AddBadge({s}, p, b)
    PROVE  Lists(p)
<1>1. PICK list : list = badgeList[p] /\ list \in [TokenId -> Nat]
  BY DEF TypeOK
<1>2. PICK after : /\ after = Pushed(list, b) /\ after \in [TokenId -> Nat]
                   /\ \A i \in TokenId : list[i] <= 1 => after[i] <= 1
  BY <1>1, PushedType
<1>3. badgeList' = [badgeList EXCEPT ![p] = after]
  BY <1>1, <1>2 DEF AddBadge
<1> QED BY <1>1, <1>2, <1>3 DEF AddBadge, Lists, TypeOK

LEMMA RemoveEffect ==
    ASSUME TypeOK, NEW s \in Account, NEW p \in Account, NEW b \in TokenId,
           RemoveBadge({s}, p, b)
    PROVE  Lists(p)
<1>1. PICK list : list = badgeList[p] /\ list \in [TokenId -> Nat]
  BY DEF TypeOK
<1>2. PICK after : after = [list EXCEPT ![b] = 0]
  OBVIOUS
<1>3. /\ after \in [TokenId -> Nat]
      /\ \A i \in TokenId : after[i] <= list[i] /\ (list[i] <= 1 => after[i] <= 1)
  BY <1>1, <1>2
<1>4. badgeList' = [badgeList EXCEPT ![p] = after]
  BY <1>1, <1>2 DEF RemoveBadge, TypeOK
<1> QED BY <1>1, <1>3, <1>4 DEF RemoveBadge, Lists, TypeOK

(***************************************************************************)
(* What every step amounts to.                                             *)
(***************************************************************************)
Resets(a) ==
    /\ admin = NoAdmin /\ admin' = a
    /\ playerCount' = 0 /\ playerIndex' = [p \in Account |-> 0]
    /\ UNCHANGED <<profile, usernameOwner, claimedRewards, badgeList>>

LEMMA StepIs ==
    ASSUME TypeOK, [Next]_vars
    PROVE  \/ \E a \in Account : Resets(a)
           \/ \E p \in Account, name \in Username : Enlists(p, name)
           \/ \E p \in Account : \E new : Rewrites(p, new)
           \/ \E p \in Account : Lists(p)
           \/ UNCHANGED vars
<1>1. ASSUME NEW s \in Account, NEW p \in Account, Initialize({s}, p)
      PROVE  Resets(p)
  BY <1>1 DEF Initialize, Resets
<1>2. ASSUME NEW s \in Account, NEW p \in Account,
             \/ RecordWin({s}, p)
             \/ RecordParticipation({s}, p)
             \/ \E delta \in I128 : AddReputation({s}, p, delta)
             \/ \E g \in GameId : AddGame({s}, p, g)
             \/ \E active \in BOOLEAN : SetActive({s}, p, active)
      PROVE  \E new : Rewrites(p, new)
  BY <1>2, WinEffect, ParticipationEffect, ReputationEffect, GameEffect, ActiveEffect, Words
     DEF I128
<1>3. ASSUME NEW s \in Account, NEW p \in Account,
             \/ \E a \in AchievementId : AddClaimedReward({s}, p, a)
             \/ \E i \in TokenId : AddBadge({s}, p, i) \/ RemoveBadge({s}, p, i)
      PROVE  Lists(p)
  BY <1>3, ClaimedEffect, BadgeEffect, RemoveEffect
<1> QED BY <1>1, <1>2, <1>3, RegisterEffect DEF Next

-----------------------------------------------------------------------------
(***************************************************************************)
(* The invariant.                                                          *)
(***************************************************************************)
Empty == admin = NoAdmin => \A p \in Account : ~Registered(p)

IInv == TypeOK /\ Empty /\ IndexExact /\ WinsArePlayed /\ RecordedOnce

LEMMA InitInv == Init => IInv
<1> SUFFICES ASSUME Init PROVE IInv
  OBVIOUS
<1>1. TypeOK
  BY Words DEF Init, TypeOK
<1>2. Empty /\ WinsArePlayed /\ RecordedOnce
  BY DEF Init, Empty, WinsArePlayed, RecordedOnce, Registered, RegisteredPlayers
<1>3. IndexExact
  <2>1. RegisteredPlayers = {}
    BY DEF Init, RegisteredPlayers, Registered
  <2>2. Cardinality(RegisteredPlayers) = 0
    BY <2>1, FS_EmptySet
  <2> QED BY <2>2, Words DEF Init, IndexExact, Registered, lookup_username, player_list,
                              player_count
<1> QED BY <1>1, <1>2, <1>3 DEF IInv

LEMMA StepType == TypeOK /\ [Next]_vars => TypeOK'
<1> SUFFICES ASSUME TypeOK, [Next]_vars PROVE TypeOK'
  OBVIOUS
<1>1. ASSUME NEW a \in Account, Resets(a) PROVE TypeOK'
  BY <1>1, Words DEF Resets, TypeOK
<1>2. ASSUME NEW p \in Account, NEW name \in Username, Enlists(p, name) PROVE TypeOK'
  <2>1. playerCount' \in 0 .. MaxU32
    BY <1>2, Words DEF Enlists, TypeOK
  <2>2. playerIndex' \in [Account -> Nat]
    BY <1>2 DEF Enlists, TypeOK
  <2>3. /\ profile' \in [Account -> Profile \cup {NoProfile}]
        /\ usernameOwner' \in [Username -> Account \cup {Nobody}]
    BY <1>2 DEF Enlists, TypeOK
  <2> QED BY <1>2, <2>1, <2>2, <2>3 DEF Enlists, TypeOK
<1>3. ASSUME NEW p \in Account, NEW new, Rewrites(p, new) PROVE TypeOK'
  BY <1>3 DEF Rewrites, TypeOK
<1>4. ASSUME NEW p \in Account, Lists(p) PROVE TypeOK'
  BY <1>4 DEF Lists, TypeOK
<1>5. CASE UNCHANGED vars
  BY <1>5 DEF vars, TypeOK
<1> QED BY <1>1, <1>2, <1>3, <1>4, <1>5, StepIs

\* Who is registered stays so, and the new player alone is added.
LEMMA StillRegistered ==
    ASSUME TypeOK, [Next]_vars, NEW p \in Account, Registered(p)
    PROVE  Registered(p)'
<1>1. ASSUME NEW q \in Account, NEW name \in Username, Enlists(q, name)
      PROVE  Registered(p)'
  BY <1>1, Words DEF Enlists, TypeOK, Registered
<1>2. ASSUME NEW q \in Account, NEW new, Rewrites(q, new) PROVE Registered(p)'
  BY <1>2, Words DEF Rewrites, TypeOK, Registered
<1>3. ASSUME UNCHANGED profile PROVE Registered(p)'
  BY <1>3 DEF Registered
<1> QED BY <1>1, <1>2, <1>3, StepIs DEF Resets, Lists, vars

LEMMA StepIndex == TypeOK /\ Empty /\ IndexExact /\ [Next]_vars => Empty' /\ IndexExact'
<1> SUFFICES ASSUME TypeOK, Empty, IndexExact, [Next]_vars PROVE Empty' /\ IndexExact'
  OBVIOUS
<1> USE DEF lookup_username, player_list, player_count
<1>1. ASSUME NEW a \in Account, Resets(a) PROVE Empty' /\ IndexExact'
  <2>1. UNCHANGED <<profile, usernameOwner>> /\ playerCount' = 0 /\ admin' # NoAdmin
        /\ \A p \in Account : ~Registered(p) /\ playerIndex'[p] = 0
    BY <1>1, Words DEF Resets, Empty
  <2>2. RegisteredPlayers' = {} /\ Cardinality({}) = 0
    BY <2>1, FS_EmptySet DEF RegisteredPlayers, Registered
  <2> QED BY <2>1, <2>2 DEF Empty, IndexExact, Registered
<1>2. ASSUME NEW p \in Account, NEW name \in Username, Enlists(p, name)
      PROVE  Empty' /\ IndexExact'
  <2>1. PICK new \in Profile : /\ new.username = name
                               /\ profile' = [profile EXCEPT ![p] = new]
    BY <1>2 DEF Enlists
  <2>2. /\ profile'[p] = new /\ new # NoProfile
        /\ \A q \in Account \ {p} : profile'[q] = profile[q]
    BY <2>1, Words DEF TypeOK
  <2>3. /\ ~Registered(p) /\ usernameOwner[name] = Nobody
        /\ usernameOwner'[name] = p
        /\ \A n \in Username \ {name} : usernameOwner'[n] = usernameOwner[n]
        /\ playerCount' = playerCount + 1
        /\ playerIndex'[p] = playerIndex[p] + 1
        /\ \A q \in Account \ {p} : playerIndex'[q] = playerIndex[q]
        /\ admin' # NoAdmin
    BY <1>2 DEF Enlists, TypeOK
  <2>4. \A n \in Username, q \in Account :
            usernameOwner'[n] = q <=> Registered(q)' /\ profile'[q].username = n
    <3> SUFFICES ASSUME NEW n \in Username, NEW q \in Account
                 PROVE  usernameOwner'[n] = q <=> Registered(q)' /\ profile'[q].username = n
      OBVIOUS
    <3>1. usernameOwner[n] = q <=> Registered(q) /\ profile[q].username = n
      BY DEF IndexExact
    <3>2. usernameOwner[name] # q /\ usernameOwner[name] # p
      BY <2>3, Words
    <3>3. ~(Registered(q) /\ profile[q].username = name)
      BY <3>2 DEF IndexExact
    <3>4. CASE q = p
      BY <2>1, <2>2, <2>3, <3>1, <3>4 DEF Registered
    <3>5. CASE q # p
      <4>1. Registered(q)' <=> Registered(q)
        BY <2>2, <3>5 DEF Registered
      <4>2. profile'[q] = profile[q]
        BY <2>2, <3>5
      <4> QED BY <2>3, <3>1, <3>3, <3>5, <4>1, <4>2
    <3> QED BY <3>4, <3>5
  <2>5. \A q \in Account : playerIndex'[q] = IF Registered(q)' THEN 1 ELSE 0
    <3>1. \A q \in Account : playerIndex[q] = IF Registered(q) THEN 1 ELSE 0
      BY DEF IndexExact
    <3>2. \A q \in Account : Registered(q)' <=> q = p \/ Registered(q)
      BY <2>2 DEF Registered
    <3> QED BY <2>3, <3>1, <3>2
  <2>6. playerCount' = Cardinality(RegisteredPlayers')
    <3>1. RegisteredPlayers' = RegisteredPlayers \cup {p} /\ p \notin RegisteredPlayers
      BY <2>2, <2>3 DEF RegisteredPlayers, Registered
    <3>2. IsFiniteSet(RegisteredPlayers)
      BY Words, FS_Subset DEF RegisteredPlayers
    <3>3. Cardinality(RegisteredPlayers \cup {p}) = Cardinality(RegisteredPlayers) + 1
      BY <3>1, <3>2, FS_AddElement
    <3>4. playerCount = Cardinality(RegisteredPlayers)
      BY DEF IndexExact
    <3> QED BY <2>3, <3>1, <3>3, <3>4
  <2> QED BY <2>3, <2>4, <2>5, <2>6 DEF Empty, IndexExact
<1>3. ASSUME NEW p \in Account, NEW new, Rewrites(p, new) PROVE Empty' /\ IndexExact'
  <2>1. /\ \A q \in Account : Registered(q)' <=> Registered(q)
        /\ \A q \in Account : profile'[q] = IF q = p THEN new ELSE profile[q]
        /\ new.username = profile[p].username
        /\ UNCHANGED <<admin, usernameOwner, playerCount, playerIndex>>
    BY <1>3, Words DEF Rewrites, Registered, TypeOK
  <2>2. RegisteredPlayers' = RegisteredPlayers
    BY <2>1 DEF RegisteredPlayers
  <2>3. \A q \in Account : profile'[q].username = profile[q].username
    BY <2>1
  <2> QED BY <2>1, <2>2, <2>3 DEF Empty, IndexExact
<1>4. ASSUME UNCHANGED <<admin, profile, usernameOwner, playerCount, playerIndex>>
      PROVE  Empty' /\ IndexExact'
  BY <1>4 DEF Empty, IndexExact, Registered, RegisteredPlayers
<1> QED BY <1>1, <1>2, <1>3, <1>4, StepIs DEF Lists, vars

LEMMA StepWins == TypeOK /\ WinsArePlayed /\ [Next]_vars => WinsArePlayed'
<1> SUFFICES ASSUME TypeOK, WinsArePlayed, [Next]_vars,
                    NEW p \in Account, Registered(p)'
             PROVE  profile'[p].wins <= profile'[p].tournaments_played
  BY DEF WinsArePlayed, RegisteredPlayers
<1>1. ASSUME NEW q \in Account, NEW name \in Username, Enlists(q, name)
      PROVE  profile'[p].wins <= profile'[p].tournaments_played
  BY <1>1 DEF Enlists, TypeOK, WinsArePlayed, RegisteredPlayers, Registered
<1>2. ASSUME NEW q \in Account, NEW new, Rewrites(q, new)
      PROVE  profile'[p].wins <= profile'[p].tournaments_played
  BY <1>2, Words DEF Rewrites, TypeOK, WinsArePlayed, RegisteredPlayers, Registered
<1>3. ASSUME UNCHANGED profile
      PROVE  profile'[p].wins <= profile'[p].tournaments_played
  BY <1>3 DEF WinsArePlayed, RegisteredPlayers, Registered
<1> QED BY <1>1, <1>2, <1>3, StepIs DEF Resets, Lists, vars

LEMMA StepRecorded == TypeOK /\ RecordedOnce /\ [Next]_vars => RecordedOnce'
<1> SUFFICES ASSUME TypeOK, RecordedOnce, [Next]_vars, NEW p \in Account
             PROVE  (/\ \A a \in AchievementId :
                            claimedRewards[p][a] <= IF Registered(p) THEN 1 ELSE 0
                     /\ \A i \in TokenId : badgeList[p][i] <= IF Registered(p) THEN 1 ELSE 0
                     /\ Registered(p) => \A g \in GameId : profile[p].games[g] <= 1)'
  BY DEF RecordedOnce
<1>a. /\ \A a \in AchievementId :
             /\ claimedRewards[p][a] \in Nat
             /\ claimedRewards[p][a] <= IF Registered(p) THEN 1 ELSE 0
      /\ \A i \in TokenId :
             /\ badgeList[p][i] \in Nat
             /\ badgeList[p][i] <= IF Registered(p) THEN 1 ELSE 0
      /\ Registered(p) => \A g \in GameId : profile[p].games[g] <= 1
  BY DEF RecordedOnce, TypeOK
<1>b. Registered(p) => Registered(p)'
  BY StillRegistered
<1>1. ASSUME NEW q \in Account, NEW name \in Username, Enlists(q, name)
      PROVE  (/\ \A a \in AchievementId :
                     claimedRewards[p][a] <= IF Registered(p) THEN 1 ELSE 0
              /\ \A i \in TokenId : badgeList[p][i] <= IF Registered(p) THEN 1 ELSE 0
              /\ Registered(p) => \A g \in GameId : profile[p].games[g] <= 1)'
  <2>1. PICK new : /\ \A g \in GameId : new.games[g] = 0
                   /\ profile' = [profile EXCEPT ![q] = new]
    BY <1>1 DEF Enlists
  <2>2. UNCHANGED <<claimedRewards, badgeList>>
    BY <1>1 DEF Enlists
  <2>3. profile'[p] = IF p = q THEN new ELSE profile[p]
    BY <2>1 DEF TypeOK
  <2>4. Registered(p)' => \A g \in GameId : profile'[p].games[g] <= 1
    BY <1>a, <2>1, <2>3 DEF Registered
  <2> QED BY <1>a, <1>b, <2>2, <2>4
<1>2. ASSUME NEW q \in Account, NEW new, Rewrites(q, new)
      PROVE  (/\ \A a \in AchievementId :
                     claimedRewards[p][a] <= IF Registered(p) THEN 1 ELSE 0
              /\ \A i \in TokenId : badgeList[p][i] <= IF Registered(p) THEN 1 ELSE 0
              /\ Registered(p) => \A g \in GameId : profile[p].games[g] <= 1)'
  <2>1. UNCHANGED <<claimedRewards, badgeList>>
    BY <1>2 DEF Rewrites
  <2>2. profile'[p] = IF p = q THEN new ELSE profile[p]
    BY <1>2 DEF Rewrites, TypeOK
  <2>3. Registered(p)' => \A g \in GameId : profile'[p].games[g] <= 1
    <3>1. CASE p = q
      <4>1. Registered(p) /\ \A g \in GameId : profile[p].games[g] <= 1 => new.games[g] <= 1
        BY <1>2, <3>1, Words DEF Rewrites, Registered
      <4> QED BY <1>a, <2>2, <3>1, <4>1
    <3>2. CASE p # q
      BY <1>a, <2>2, <3>2 DEF Registered
    <3> QED BY <3>1, <3>2
  <2> QED BY <1>a, <1>b, <2>1, <2>3
<1>3. ASSUME NEW q \in Account, Lists(q)
      PROVE  (/\ \A a \in AchievementId :
                     claimedRewards[p][a] <= IF Registered(p) THEN 1 ELSE 0
              /\ \A i \in TokenId : badgeList[p][i] <= IF Registered(p) THEN 1 ELSE 0
              /\ Registered(p) => \A g \in GameId : profile[p].games[g] <= 1)'
  <2>1. (Registered(p)' <=> Registered(p)) /\ UNCHANGED profile
    BY <1>3 DEF Lists, Registered
  <2>2. CASE p # q
    BY <1>3, <1>a, <2>1, <2>2 DEF Lists
  <2>3. CASE p = q /\ Active(q)
    <3>1. Registered(p)
      BY <2>3 DEF Active
    <3>2. /\ \A a \in AchievementId : claimedRewards'[p][a] <= 1
          /\ \A i \in TokenId : badgeList'[p][i] <= 1
      BY <1>3, <1>a, <2>3, <3>1 DEF Lists
    <3> QED BY <1>a, <2>1, <3>1, <3>2
  <2>4. CASE p = q /\ ~Active(q)
    <3>1. /\ claimedRewards' = claimedRewards
          /\ \A i \in TokenId : badgeList'[p][i] <= badgeList[p][i] /\ badgeList'[p][i] \in Nat
      BY <1>3, <2>4 DEF Lists
    <3>2. \A i \in TokenId : badgeList'[p][i] <= IF Registered(p) THEN 1 ELSE 0
      BY <1>a, <3>1
    <3> QED BY <1>a, <2>1, <3>1, <3>2
  <2> QED BY <2>2, <2>3, <2>4
<1>4. ASSUME UNCHANGED <<profile, claimedRewards, badgeList>>
      PROVE  (/\ \A a \in AchievementId :
                     claimedRewards[p][a] <= IF Registered(p) THEN 1 ELSE 0
              /\ \A i \in TokenId : badgeList[p][i] <= IF Registered(p) THEN 1 ELSE 0
              /\ Registered(p) => \A g \in GameId : profile[p].games[g] <= 1)'
  BY <1>4, <1>a DEF Registered
<1> QED BY <1>1, <1>2, <1>3, <1>4, StepIs DEF Resets, vars

LEMMA StepInv == IInv /\ [Next]_vars => IInv'
BY StepType, StepIndex, StepWins, StepRecorded DEF IInv

-----------------------------------------------------------------------------
(***************************************************************************)
(* Every operation keeps the types of what the registry stores.            *)
(***************************************************************************)
THEOREM TypeCorrect == Spec => []TypeOK
<1>1. IInv => TypeOK
  BY DEF IInv
<1> QED BY <1>1, InitInv, StepInv, PTL DEF Spec

(***************************************************************************)
(* Usernames, player list and player count always agree with the profiles. *)
(***************************************************************************)
THEOREM IndexIsExact == Spec => []IndexExact
<1>1. IInv => IndexExact
  BY DEF IInv
<1> QED BY <1>1, InitInv, StepInv, PTL DEF Spec

(***************************************************************************)
(* No player has won more tournaments than it played.                      *)
(***************************************************************************)
THEOREM WinsWerePlayed == Spec => []WinsArePlayed
<1>1. IInv => WinsArePlayed
  BY DEF IInv
<1> QED BY <1>1, InitInv, StepInv, PTL DEF Spec

(***************************************************************************)
(* Achievements, badges and games are listed once, of registered players.  *)
(***************************************************************************)
THEOREM RecordsAreUnique == Spec => []RecordedOnce
<1>1. IInv => RecordedOnce
  BY DEF IInv
<1> QED BY <1>1, InitInv, StepInv, PTL DEF Spec

(***************************************************************************)
(* Nothing is added to the record of a banned player.                      *)
(***************************************************************************)
THEOREM BansFreeze == Spec => BanFreezes
<1>1. TypeOK /\ [Next]_vars => [BanStep]_vars
  <2> SUFFICES ASSUME TypeOK, [Next]_vars, NEW p \in Account, Registered(p),
                      ~profile[p].active
               PROVE  /\ claimedRewards'[p] = claimedRewards[p]
                      /\ \A i \in TokenId : badgeList'[p][i] <= badgeList[p][i]
                      /\ [profile'[p] EXCEPT !.active = FALSE] = profile[p]
    BY DEF BanStep, RegisteredPlayers
  <2>a. /\ [profile[p] EXCEPT !.active = FALSE] = profile[p] /\ profile[p] \in Profile
        /\ \A i \in TokenId : badgeList[p][i] \in Nat
    BY DEF TypeOK, Registered, Profile
  <2> DEFINE Frozen == /\ claimedRewards'[p] = claimedRewards[p]
                       /\ \A i \in TokenId : badgeList'[p][i] <= badgeList[p][i]
                       /\ [profile'[p] EXCEPT !.active = FALSE] = profile[p]
  <2>1. ASSUME NEW q \in Account, NEW name \in Username, Enlists(q, name)
        PROVE  Frozen
    <3>1. profile'[p] = profile[p] /\ UNCHANGED <<claimedRewards, badgeList>>
      BY <2>1 DEF Enlists, TypeOK, Registered
    <3> QED BY <2>a, <3>1
  <2>2. ASSUME NEW q \in Account, NEW new, Rewrites(q, new)
        PROVE  Frozen
    <3>1. [profile'[p] EXCEPT !.active = FALSE] = profile[p]
      <4>1. CASE p = q
        BY <2>2, <4>1 DEF Rewrites, TypeOK
      <4>2. CASE p # q
        BY <2>2, <2>a, <4>2 DEF Rewrites, TypeOK
      <4> QED BY <4>1, <4>2
    <3>2. UNCHANGED <<claimedRewards, badgeList>>
      BY <2>2 DEF Rewrites
    <3> QED BY <2>a, <3>1, <3>2
  <2>3. ASSUME NEW q \in Account, Lists(q)
        PROVE  Frozen
    <3>1. /\ profile' = profile /\ claimedRewards'[p] = claimedRewards[p]
          /\ \A i \in TokenId : badgeList'[p][i] <= badgeList[p][i]
      BY <2>3, <2>a DEF Lists, Active
    <3> QED BY <2>a, <3>1
  <2>4. ASSUME UNCHANGED <<profile, claimedRewards, badgeList>>
        PROVE  Frozen
    BY <2>4, <2>a
  <2>5. ASSUME NEW a \in Account, Resets(a)
        PROVE  Frozen
    BY <2>4, <2>5 DEF Resets
  <2>6. UNCHANGED vars => Frozen
    BY <2>4 DEF vars
  <2> HIDE DEF Frozen
  <2>7. Frozen
    BY <2>1, <2>2, <2>3, <2>5, <2>6, StepIs
  <2> QED BY <2>7 DEF Frozen
<1>2. IInv => TypeOK
  BY DEF IInv
<1> QED BY <1>1, <1>2, InitInv, StepInv, PTL DEF Spec, BanFreezes
=============================================================================

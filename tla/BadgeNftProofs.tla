--------------------------- MODULE BadgeNftProofs ---------------------------
(***************************************************************************)
(* The properties of BadgeNft, for every set of accounts and every width   *)
(* of the two id counters.                                                 *)
(*                                                                         *)
(* OwnerIndexExact needs no more than the types, but for the one step that *)
(* sets the counters back: nothing exists before initialize (NoneBefore).  *)
(* Soulbound needs as much of the badge types: those at and above their    *)
(* counter do not exist yet (FreshTypes).                                  *)
(***************************************************************************)
EXTENDS BadgeNft, TLAPS

NoneBefore == admin = NoAdmin => nextTypeId = 0 /\ nextTokenId = 0

FreshTypes == \A t \in TypeId : t >= nextTypeId => badgeType[t] = "absent"

IInv == TypeOK /\ NoneBefore /\ FreshTypes /\ OwnerIndexExact

(***************************************************************************)
(* What mint and burn make of a badge: a new live one, and the same dead.  *)
(***************************************************************************)
LEMMA MintedBadge ==
    ASSUME NEW t \in TypeId, NEW a \in Account
    PROVE  LET b == [badge_type_id |-> t, owner |-> a, alive |-> TRUE] IN
           /\ b \in Badge /\ b # NoBadge
           /\ b.badge_type_id = t /\ b.owner = a /\ b.alive
<1> DEFINE b == [badge_type_id |-> t, owner |-> a, alive |-> TRUE]
<1>1. b \in Badge
  BY DEF Badge
<1>2. b.badge_type_id = t /\ b.owner = a /\ b.alive = TRUE
  OBVIOUS
<1> HIDE DEF b
<1>3. b # NoBadge
  BY <1>1, NoBadgeAssumption
<1>4. b \in Badge /\ b # NoBadge /\ b.badge_type_id = t /\ b.owner = a /\ b.alive
  BY <1>1, <1>2, <1>3, Zenon
<1> QED BY <1>4 DEF b

Burned(b) == [b EXCEPT !.alive = FALSE]

LEMMA BurnedBadge ==
    ASSUME NEW b \in Badge
    PROVE  Burned(b) \in Badge /\ Burned(b) # NoBadge /\ ~Burned(b).alive
BY NoBadgeAssumption DEF Badge, Burned

(***************************************************************************)
(* What mint and burn write, badge by badge and list by list.              *)
(***************************************************************************)
MintWrites(recipient, t) ==
    /\ nextTokenId \in TokenId
    /\ token' \in [TokenId -> Badge \cup {NoBadge}]
    /\ token'[nextTokenId] # NoBadge
    /\ token'[nextTokenId].badge_type_id = t
    /\ token'[nextTokenId].owner = recipient
    /\ token'[nextTokenId].alive
    /\ \A i \in TokenId \ {nextTokenId} : token'[i] = token[i]
    /\ ownerTokens' \in [Account -> [TokenId -> Nat]]
    /\ \A a \in Account, i \in TokenId :
           ownerTokens'[a][i] = IF a = recipient /\ i = nextTokenId
                                THEN ownerTokens[a][i] + 1 ELSE ownerTokens[a][i]

BurnWrites(owner, k) ==
    /\ token' \in [TokenId -> Badge \cup {NoBadge}]
    /\ token[k].owner = owner
    /\ token'[k] = Burned(token[k])
    /\ token'[k] # NoBadge /\ ~token'[k].alive
    /\ \A i \in TokenId \ {k} : token'[i] = token[i]
    /\ ownerTokens' \in [Account -> [TokenId -> Nat]]
    /\ \A a \in Account, i \in TokenId :
           ownerTokens'[a][i] = IF a = owner /\ i = k THEN 0 ELSE ownerTokens[a][i]

LEMMA MintEffect ==
    ASSUME TypeOK, NEW auth, NEW caller, NEW recipient \in Account, NEW t \in TypeId,
           Mint(auth, caller, recipient, t)
    PROVE  MintWrites(recipient, t)
<1>1. nextTokenId \in TokenId
  BY BadgeAssumption DEF Mint, TypeOK, TokenId
<1>2. PICK b : /\ b = [badge_type_id |-> t, owner |-> recipient, alive |-> TRUE]
               /\ b \in Badge /\ b # NoBadge
               /\ b.badge_type_id = t /\ b.owner = recipient /\ b.alive
  BY MintedBadge
<1>3. token' = [token EXCEPT ![nextTokenId] = b]
  BY <1>2 DEF Mint
<1>4. token \in [TokenId -> Badge \cup {NoBadge}]
  BY DEF TypeOK
<1>5. /\ token' \in [TokenId -> Badge \cup {NoBadge}]
      /\ token'[nextTokenId] = b
      /\ \A i \in TokenId \ {nextTokenId} : token'[i] = token[i]
  BY <1>1, <1>2, <1>3, <1>4
<1>6. /\ ownerTokens \in [Account -> [TokenId -> Nat]]
      /\ ownerTokens' = [ownerTokens EXCEPT ![recipient][nextTokenId] = @ + 1]
  BY DEF Mint, TypeOK
<1>7. ownerTokens' \in [Account -> [TokenId -> Nat]]
  BY <1>1, <1>6
<1>8. \A a \in Account, i \in TokenId :
          ownerTokens'[a][i] = IF a = recipient /\ i = nextTokenId
                               THEN ownerTokens[a][i] + 1 ELSE ownerTokens[a][i]
  BY <1>1, <1>6
<1> QED BY <1>1, <1>2, <1>5, <1>7, <1>8 DEF MintWrites

LEMMA BurnEffect ==
    ASSUME TypeOK, NEW auth, NEW owner \in Account, NEW i \in TokenId,
           Burn(auth, owner, i)
    PROVE  BurnWrites(owner, i)
<1>1. /\ token \in [TokenId -> Badge \cup {NoBadge}]
      /\ token[i] \in Badge /\ token[i].owner = owner
  BY DEF Burn, TypeOK
<1>2. PICK b : /\ b = Burned(token[i])
               /\ b \in Badge /\ b # NoBadge /\ ~b.alive
  BY <1>1, BurnedBadge
<1>3. token' = [token EXCEPT ![i] = b]
  BY <1>1, <1>2 DEF Burn, Burned
<1>4. /\ token' \in [TokenId -> Badge \cup {NoBadge}]
      /\ token'[i] = b
      /\ \A j \in TokenId \ {i} : token'[j] = token[j]
  BY <1>1, <1>2, <1>3
<1>5. /\ ownerTokens \in [Account -> [TokenId -> Nat]]
      /\ ownerTokens' = [ownerTokens EXCEPT ![owner][i] = 0]
  BY DEF Burn, Delist, TypeOK
<1>6. ownerTokens' \in [Account -> [TokenId -> Nat]]
  BY <1>5
<1>7. \A a \in Account, j \in TokenId :
          ownerTokens'[a][j] = IF a = owner /\ j = i THEN 0 ELSE ownerTokens[a][j]
  BY <1>5
<1> QED BY <1>1, <1>2, <1>4, <1>6, <1>7 DEF BurnWrites

-----------------------------------------------------------------------------
(***************************************************************************)
(* Before initialize there are the types, no badges and no lists.          *)
(***************************************************************************)
LEMMA InitInv == Init => IInv
BY BadgeAssumption, NoBadgeAssumption
   DEF Init, IInv, TypeOK, NoneBefore, FreshTypes, OwnerIndexExact, Held,
       tokens_of, total_supply, TypeId, TokenId

(***************************************************************************)
(* Every step keeps the types: the guards bound both counters.             *)
(***************************************************************************)
LEMMA StepType == TypeOK /\ [Next]_vars => TypeOK'
<1> SUFFICES ASSUME TypeOK, [Next]_vars PROVE TypeOK'
  OBVIOUS
<1> USE BadgeAssumption
<1>0. ASSUME NEW s \in Signer PROVE s \in Account
  OBVIOUS
<1>1. ASSUME NEW s \in Signer, NEW a \in Account,
             Initialize({s}, a) \/ AddMinter({s}, a) \/ RemoveMinter({s}, a)
      PROVE  TypeOK'
  BY <1>1 DEF Initialize, AddMinter, RemoveMinter, TypeOK
<1>2. ASSUME NEW s \in Signer, CreateBadgeType({s})
      PROVE  TypeOK'
  BY <1>2 DEF CreateBadgeType, TypeOK, TypeId
<1>3. ASSUME NEW s \in Signer, NEW t \in TypeId, DeactivateBadgeType({s}, t)
      PROVE  TypeOK'
  BY <1>3 DEF DeactivateBadgeType, TypeOK
<1>4. ASSUME NEW s \in Signer, NEW caller \in Account, NEW recipient \in Account,
             NEW t \in TypeId, Mint({s}, caller, recipient, t)
      PROVE  TypeOK'
  <2>0. MintWrites(recipient, t)
    BY <1>4, MintEffect
  <2>1. /\ token' \in [TokenId -> Badge \cup {NoBadge}]
        /\ ownerTokens' \in [Account -> [TokenId -> Nat]]
    BY <2>0 DEF MintWrites
  <2>2. nextTokenId' \in 0 .. MaxU32
    BY <1>4 DEF Mint, TypeOK
  <2> QED BY <1>4, <2>1, <2>2 DEF Mint, TypeOK
<1>5. ASSUME NEW s \in Signer, NEW owner \in Account, NEW i \in TokenId,
             Burn({s}, owner, i)
      PROVE  TypeOK'
  <2>0. BurnWrites(owner, i)
    BY <1>5, BurnEffect
  <2>1. /\ token' \in [TokenId -> Badge \cup {NoBadge}]
        /\ ownerTokens' \in [Account -> [TokenId -> Nat]]
    BY <2>0 DEF BurnWrites
  <2> QED BY <1>5, <2>1 DEF Burn, TypeOK
<1>6. CASE UNCHANGED vars
  BY <1>6 DEF vars, TypeOK
<1> QED BY <1>1, <1>2, <1>3, <1>4, <1>5, <1>6 DEF Next

(***************************************************************************)
(* Badge types are created at their counter, which then moves past them;   *)
(* all that creates or mints needs an admin.                               *)
(***************************************************************************)
LEMMA StepFresh ==
    TypeOK /\ NoneBefore /\ FreshTypes /\ [Next]_vars => (NoneBefore /\ FreshTypes)'
<1> SUFFICES ASSUME TypeOK, NoneBefore, FreshTypes, [Next]_vars
             PROVE  (NoneBefore /\ FreshTypes)'
  OBVIOUS
<1> USE BadgeAssumption DEF TypeOK, NoneBefore, FreshTypes, TypeId
<1>1. ASSUME NEW s \in Signer, NEW a \in Account,
             Initialize({s}, a) \/ AddMinter({s}, a) \/ RemoveMinter({s}, a)
      PROVE  (NoneBefore /\ FreshTypes)'
  BY <1>1 DEF Initialize, AddMinter, RemoveMinter
<1>2. ASSUME NEW s \in Signer, CreateBadgeType({s})
      PROVE  (NoneBefore /\ FreshTypes)'
  BY <1>2 DEF CreateBadgeType, RequireAdmin
<1>3. ASSUME NEW s \in Signer, NEW t \in TypeId, DeactivateBadgeType({s}, t)
      PROVE  (NoneBefore /\ FreshTypes)'
  BY <1>3 DEF DeactivateBadgeType
<1>4. CASE UNCHANGED <<admin, nextTypeId, badgeType>>
           /\ (nextTokenId' = nextTokenId \/ admin # NoAdmin)
  BY <1>4
<1> QED BY <1>1, <1>2, <1>3, <1>4 DEF Next, vars, Mint, Burn

(***************************************************************************)
(* Mint lists the next id, which nobody lists and which is no badge yet;   *)
(* burn takes the id off the one list it is on.                            *)
(***************************************************************************)
LEMMA StepIndex ==
    TypeOK /\ NoneBefore /\ OwnerIndexExact /\ [Next]_vars => OwnerIndexExact'
<1> SUFFICES ASSUME TypeOK, NoneBefore, OwnerIndexExact, [Next]_vars
             PROVE  OwnerIndexExact'
  OBVIOUS
<1> USE BadgeAssumption
<1>0. /\ \A a \in Account, i \in TokenId :
             ownerTokens[a][i] = IF Held(a, i) THEN 1 ELSE 0
      /\ \A i \in TokenId : token[i] # NoBadge <=> i < nextTokenId
      /\ nextTokenId \in Nat
  BY DEF OwnerIndexExact, tokens_of, total_supply, TypeOK
<1>1. ASSUME NEW s \in Signer, NEW caller \in Account, NEW recipient \in Account,
             NEW t \in TypeId, Mint({s}, caller, recipient, t)
      PROVE  OwnerIndexExact'
  <2> DEFINE n == nextTokenId
  <2>0. MintWrites(recipient, t)
    BY <1>1, MintEffect
  <2>1. /\ n \in TokenId /\ token[n] = NoBadge
        /\ token'[n] # NoBadge /\ token'[n].owner = recipient /\ token'[n].alive
        /\ \A i \in TokenId \ {n} : token'[i] = token[i]
        /\ \A a \in Account, i \in TokenId :
               ownerTokens'[a][i] = IF a = recipient /\ i = n
                                    THEN ownerTokens[a][i] + 1 ELSE ownerTokens[a][i]
    BY <1>0, <2>0 DEF MintWrites
  <2>2. nextTokenId' = n + 1
    BY <1>1 DEF Mint
  <2>3. ASSUME NEW a \in Account, NEW i \in TokenId
        PROVE  ownerTokens'[a][i] = IF Held(a, i)' THEN 1 ELSE 0
    <3>1. CASE i = n
      <4>1. ownerTokens[a][n] = 0
        BY <1>0, <2>1 DEF Held
      <4> QED BY <2>1, <3>1, <4>1 DEF Held
    <3>2. CASE i # n
      <4>1. Held(a, i)' <=> Held(a, i)
        BY <2>1, <3>2 DEF Held
      <4> QED BY <1>0, <2>1, <3>2, <4>1
    <3> QED BY <3>1, <3>2
  <2>4. ASSUME NEW i \in TokenId PROVE token'[i] # NoBadge <=> i < nextTokenId'
    BY <1>0, <2>1, <2>2 DEF TokenId
  <2> QED BY <2>3, <2>4 DEF OwnerIndexExact, tokens_of, total_supply
<1>2. ASSUME NEW s \in Signer, NEW owner \in Account, NEW k \in TokenId,
             Burn({s}, owner, k)
      PROVE  OwnerIndexExact'
  <2>0. BurnWrites(owner, k)
    BY <1>2, BurnEffect
  <2>1. /\ token[k].owner = owner
        /\ token'[k] # NoBadge /\ ~token'[k].alive
        /\ \A i \in TokenId \ {k} : token'[i] = token[i]
        /\ \A a \in Account, i \in TokenId :
               ownerTokens'[a][i] = IF a = owner /\ i = k
                                    THEN 0 ELSE ownerTokens[a][i]
    BY <2>0 DEF BurnWrites
  <2>2. nextTokenId' = nextTokenId /\ token[k] # NoBadge
    BY <1>2 DEF Burn
  <2>3. ASSUME NEW a \in Account, NEW i \in TokenId
        PROVE  ownerTokens'[a][i] = IF Held(a, i)' THEN 1 ELSE 0
    <3>1. CASE i = k
      <4>1. a # owner => ownerTokens[a][k] = 0
        BY <1>0, <2>1 DEF Held
      <4> QED BY <2>1, <3>1, <4>1 DEF Held
    <3>2. CASE i # k
      <4>1. Held(a, i)' <=> Held(a, i)
        BY <2>1, <3>2 DEF Held
      <4> QED BY <1>0, <2>1, <3>2, <4>1
    <3> QED BY <3>1, <3>2
  <2>4. ASSUME NEW i \in TokenId PROVE token'[i] # NoBadge <=> i < nextTokenId'
    BY <1>0, <2>1, <2>2
  <2> QED BY <2>3, <2>4 DEF OwnerIndexExact, tokens_of, total_supply
<1>3. CASE UNCHANGED <<token, ownerTokens>> /\ nextTokenId' = nextTokenId
  BY <1>3 DEF OwnerIndexExact, tokens_of, total_supply, Held
<1>4. ASSUME NEW s \in Signer, NEW a \in Account, Initialize({s}, a)
      PROVE  UNCHANGED <<token, ownerTokens>> /\ nextTokenId' = nextTokenId
  BY <1>4 DEF Initialize, NoneBefore
<1> QED BY <1>1, <1>2, <1>3, <1>4
        DEF Next, vars, AddMinter, RemoveMinter, CreateBadgeType, DeactivateBadgeType

LEMMA StepInv == IInv /\ [Next]_vars => IInv'
BY StepType, StepFresh, StepIndex DEF IInv

(***************************************************************************)
(* Type correctness: both id counters stop at the end of the u32.          *)
(***************************************************************************)
THEOREM TypeCorrect == Spec => []TypeOK
<1>1. IInv => TypeOK
  BY DEF IInv
<1> QED BY <1>1, InitInv, StepInv, PTL DEF Spec

(***************************************************************************)
(* tokens_of lists each live badge once with its owner and nothing else,   *)
(* and the ids ever minted are those below total_supply.                   *)
(***************************************************************************)
THEOREM IndexIsExact == Spec => []OwnerIndexExact
<1>1. IInv => OwnerIndexExact
  BY DEF IInv
<1> QED BY <1>1, InitInv, StepInv, PTL DEF Spec

-----------------------------------------------------------------------------
(***************************************************************************)
(* Of the steps that write badges, mint writes where there is none, of an  *)
(* active type, and burn only ends a badge; of those that write types,     *)
(* creation writes where there is none.                                    *)
(***************************************************************************)
LEMMA StepBound == IInv /\ [Next]_vars => BoundStep
<1> SUFFICES ASSUME TypeOK, IInv, [Next]_vars PROVE BoundStep
  BY DEF IInv
<1> USE BadgeAssumption
<1>0. /\ \A i \in TokenId : token[i] # NoBadge <=> i < nextTokenId
      /\ \A t \in TypeId : t >= nextTypeId => badgeType[t] = "absent"
  BY DEF IInv, OwnerIndexExact, total_supply, FreshTypes
<1>1. ASSUME NEW s \in Signer, NEW caller \in Account, NEW recipient \in Account,
             NEW t \in TypeId, Mint({s}, caller, recipient, t)
      PROVE  BoundStep
  <2>1. badgeType[t] = "active" /\ badgeType' = badgeType
    BY <1>1 DEF Mint, Mintable
  <2>0. MintWrites(recipient, t)
    BY <1>1, MintEffect
  <2>2. /\ nextTokenId \in TokenId
        /\ \A i \in TokenId \ {nextTokenId} : token'[i] = token[i]
        /\ token'[nextTokenId].badge_type_id = t
    BY <2>0 DEF MintWrites
  <2>3. token[nextTokenId] = NoBadge
    BY <1>0, <2>2 DEF TypeOK, TokenId
  <2> QED BY <2>1, <2>2, <2>3 DEF BoundStep
<1>2. ASSUME NEW s \in Signer, NEW owner \in Account, NEW k \in TokenId,
             Burn({s}, owner, k)
      PROVE  BoundStep
  <2>1. badgeType' = badgeType /\ token[k] # NoBadge
    BY <1>2 DEF Burn
  <2>0. BurnWrites(owner, k)
    BY <1>2, BurnEffect
  <2>2. /\ token'[k] = Burned(token[k])
        /\ \A i \in TokenId \ {k} : token'[i] = token[i]
    BY <2>0 DEF BurnWrites
  <2> QED BY <2>1, <2>2 DEF Burned, BoundStep
<1>3. ASSUME NEW s \in Signer, CreateBadgeType({s})
      PROVE  BoundStep
  <2>1. nextTypeId \in TypeId /\ badgeType[nextTypeId] = "absent" /\ token' = token
    BY <1>0, <1>3 DEF CreateBadgeType, TypeOK, TypeId
  <2>2. \A t \in TypeId \ {nextTypeId} : badgeType'[t] = badgeType[t]
    BY <1>0, <1>3 DEF CreateBadgeType, TypeOK
  <2> QED BY <2>1, <2>2 DEF BoundStep
<1>4. ASSUME NEW s \in Signer, NEW t \in TypeId, DeactivateBadgeType({s}, t)
      PROVE  BoundStep
  BY <1>4 DEF DeactivateBadgeType, TypeOK, BoundStep
<1>5. CASE UNCHANGED <<token, badgeType>>
  BY <1>5 DEF BoundStep
<1> QED BY <1>1, <1>2, <1>3, <1>4, <1>5
        DEF Next, vars, Initialize, AddMinter, RemoveMinter

(***************************************************************************)
(* Badges are bound to the address they were minted to, burned for good,   *)
(* and never minted of a type that is retired or does not exist.           *)
(***************************************************************************)
THEOREM BadgesAreBound == Spec => Soulbound
<1>1. IInv /\ [Next]_vars => [BoundStep]_vars
  BY StepBound
<1> QED BY <1>1, InitInv, StepInv, PTL DEF Spec, Soulbound
=============================================================================

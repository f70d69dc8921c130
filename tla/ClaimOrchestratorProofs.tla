---------------------- MODULE ClaimOrchestratorProofs ----------------------
(***************************************************************************)
(* The properties of ClaimOrchestrator, for every set of accounts, proofs, *)
(* achievements and requests, every digest and every width of the types,   *)
(* and however many other transactions come in between.                    *)
(*                                                                         *)
(* The invariant has four parts.  The storage of the four contracts called *)
(* satisfies the invariants proved of each of them (Callees), for a call   *)
(* is a step of its module; so does the journal while a claim runs, or a   *)
(* rollback would lose them (Journaled).  The storage differs from the     *)
(* journal by exactly what the calls made so far have written, and these   *)
(* found their checks met (Progress).  And what is committed backs every   *)
(* event (Receipts), an invariant of ClaimProtocol, which each step of the *)
(* orchestrator is shown to implement.                                     *)
(*                                                                         *)
(* PayableNeverRefused is stated with ENABLED, for which there is no       *)
(* prover.  In its place stand the guards it amounts to.  Then: that an    *)
(* aborted claim leaves nothing behind and takes nobody the chance of      *)
(* another; and that the four contracts keep here what their own modules   *)
(* prove of them (Kept).                                                   *)
(***************************************************************************)
EXTENDS ClaimOrchestrator, FiniteSetTheorems, TLAPS

VP == INSTANCE ZkVerifierProofs WITH admin <- zkAdmin
RP == INSTANCE RewardPoolProofs WITH admin <- poolAdmin
\* The orchestrator counts among those that act on badge_nft.
BP == INSTANCE BadgeNftProofs WITH
    admin <- badgeAdmin, Account <- Account \cup {Orchestrator},
    Signer <- Account \cup {Orchestrator}
GP == INSTANCE PlayerRegistryProofs WITH
    admin <- regAdmin, AchievementId <- Achievement, TokenId <- Badges!TokenId

\* The same of the storage in the journal.
VJ == INSTANCE ZkVerifier WITH
    admin <- zkAdmin, spent <- journal.spent, userRecords <- journal.userRecords
RJ == INSTANCE RewardPool WITH
    admin <- poolAdmin, tokens <- journal.tokens,
    totalDeposited <- journal.totalDeposited, claimed <- journal.claimed,
    achClm <- journal.achClm, paid <- journal.paid
BJ == INSTANCE BadgeNftProofs WITH
    admin <- badgeAdmin, Account <- Account \cup {Orchestrator},
    Signer <- Account \cup {Orchestrator}, nextTokenId <- journal.nextTokenId,
    token <- journal.token, ownerTokens <- journal.ownerTokens
GJ == INSTANCE PlayerRegistry WITH
    admin <- regAdmin, AchievementId <- Achievement, TokenId <- Badges!TokenId,
    profile <- journal.profile, claimedRewards <- journal.claimedRewards,
    badgeList <- journal.badgeList

-----------------------------------------------------------------------------
(***************************************************************************)
(* What the modules of the contracts assume of their constants holds here. *)
(***************************************************************************)
LEMMA Deployed ==
    /\ MaxU32 \in Nat /\ MaxU32 > 0 /\ MaxI128 \in Nat /\ MaxOthers \in Nat
    /\ IsFiniteSet(Account) /\ Admin \in Account /\ RegAdmin \in Account
    /\ Players \subseteq Account
    /\ NoAdmin \notin Account /\ Orchestrator \notin Account /\ Pool \notin Account
    /\ NoAdmin # Orchestrator /\ NoAdmin # Pool /\ Nobody \notin Account
    /\ NoAdmin \notin Account \cup {Orchestrator}
    /\ NoAdmin \notin Account \cup {Pool}
    /\ WellFormed \subseteq Proof /\ DOMAIN Digest = Proof
BY DeploymentAssumption

LEMMA PoolMinted == Minted \in [Account -> 0 .. MaxI128]
BY DeploymentAssumption

\* The instances carry the definition of finiteness along.
LEMMA FiniteAccounts == RP!IsFiniteSet(Account) /\ GP!IsFiniteSet(Account)
BY Deployed DEF IsFiniteSet, RP!IsFiniteSet, GP!IsFiniteSet

LEMMA Requested ==
    ASSUME NEW c \in Requests
    PROVE  /\ c.player \in Account /\ c.circuit \in Verifier!CircuitId
           /\ c.proof \in Proof /\ c.inputs \in Inputs
           /\ c.achievement \in Achievement /\ c.amount \in 0 .. MaxI128
           /\ c.badgeType \in Badges!TypeId /\ c.auth \in SUBSET Account
BY RequestsAssumption DEF Request

-----------------------------------------------------------------------------
(***************************************************************************)
(* The invariants of the contracts, and of what the journal holds.         *)
(***************************************************************************)
PoolSound == RP!TypeOK /\ RP!ClaimedOnce
RegistrySound == GP!TypeOK /\ GP!RecordedOnce
Callees == VP!TypeOK /\ PoolSound /\ BP!IInv /\ RegistrySound

Journaled ==
    call # NoCall =>
        /\ VJ!TypeOK
        /\ RJ!TypeOK /\ RJ!ClaimedOnce
        /\ BJ!IInv
        /\ GJ!TypeOK /\ GJ!RecordedOnce

(***************************************************************************)
(* The types of each module are those of its instance in the orchestrator. *)
(***************************************************************************)
LEMMA VerifierTypes == Verifier!TypeOK <=> VP!TypeOK
BY DEF Verifier!TypeOK, VP!TypeOK, Verifier!CircuitId, VP!CircuitId,
       Verifier!Nullifier, VP!Nullifier, Verifier!Record, VP!Record

LEMMA PoolTypes == Rewards!TypeOK <=> RP!TypeOK
BY DEF Rewards!TypeOK, RP!TypeOK, Rewards!Address, RP!Address, Rewards!I128, RP!I128,
       Rewards!ClaimKey, RP!ClaimKey

LEMMA BadgeTypes == Badges!TypeOK <=> BP!TypeOK
BY DEF Badges!TypeOK, BP!TypeOK, Badges!TypeId, BP!TypeId, Badges!TokenId, BP!TokenId,
       Badges!Badge, BP!Badge

LEMMA RegistryTypes == Registry!TypeOK <=> GP!TypeOK
BY DEF Registry!TypeOK, GP!TypeOK, Registry!Profile, GP!Profile, Registry!I128, GP!I128

(***************************************************************************)
(* An operation of a contract keeps that contract's invariant.             *)
(***************************************************************************)
LEMMA VerifierKept == VP!TypeOK /\ [VP!Next]_(VP!vars) => VP!TypeOK'
BY VP!StepType, Deployed

LEMMA PoolKept == PoolSound /\ [RP!Next]_(RP!vars) => PoolSound'
<1>1. RP!TypeOK /\ [RP!Next]_(RP!vars) => RP!TypeOK'
  BY RP!StepType, Deployed, PoolMinted, FiniteAccounts DEF RP!Address
<1>2. RP!TypeOK /\ RP!ClaimedOnce /\ [RP!Next]_(RP!vars) => RP!ClaimedOnce'
  BY RP!StepOnce, Deployed, PoolMinted, FiniteAccounts DEF RP!Address
<1> QED BY <1>1, <1>2 DEF PoolSound

LEMMA BadgesKept == BP!IInv /\ [BP!Next]_(BP!vars) => BP!IInv'
<1>1. NoBadge \notin BP!Badge
  BY NoValueAssumption DEF Badges!Badge, BP!Badge, Badges!TypeId, BP!TypeId
<1>2. Account \cup {Orchestrator} \subseteq Account \cup {Orchestrator}
  OBVIOUS
<1> QED BY <1>1, <1>2, BP!StepInv, Deployed

LEMMA RegistryKept == RegistrySound /\ [GP!Next]_(GP!vars) => RegistrySound'
<1>1. NoProfile \notin GP!Profile
  BY NoValueAssumption DEF Registry!Profile, GP!Profile, Registry!I128, GP!I128
<1>2. {NoAdmin, Nobody} \cap Account = {}
  BY Deployed
<1>3. GP!TypeOK /\ [GP!Next]_(GP!vars) => GP!TypeOK'
  BY <1>1, <1>2, GP!StepType, Deployed, FiniteAccounts
<1>4. GP!TypeOK /\ GP!RecordedOnce /\ [GP!Next]_(GP!vars) => GP!RecordedOnce'
  BY <1>1, <1>2, GP!StepRecorded, Deployed, FiniteAccounts
<1> QED BY <1>3, <1>4 DEF RegistrySound

-----------------------------------------------------------------------------
(***************************************************************************)
(* The operations others call are operations of the contracts' modules.    *)
(***************************************************************************)
LEMMA VerifierStep == Verifier!Next => VP!Next
BY DEF Verifier!Next, VP!Next, Verifier!CircuitId, VP!CircuitId,
       Verifier!Initialize, VP!Initialize, Verifier!RegisterCircuit,
       VP!RegisterCircuit, Verifier!DeactivateCircuit, VP!DeactivateCircuit,
       Verifier!Verify, VP!Verify, Verifier!RequireAdmin, VP!RequireAdmin,
       Verifier!Accepting, VP!Accepting, Verifier!Unspent, VP!Unspent,
       Verifier!Spend, VP!Spend, Verifier!is_nullifier_used, VP!is_nullifier_used

LEMMA PoolStep == Rewards!Next => RP!Next
BY DEF Rewards!Next, RP!Next, Rewards!I128, RP!I128, Rewards!Address, RP!Address,
       Rewards!Initialize, RP!Initialize, Rewards!Deposit, RP!Deposit,
       Rewards!Withdraw, RP!Withdraw, Rewards!SetAchievementReward,
       RP!SetAchievementReward, Rewards!Distribute, RP!Distribute,
       Rewards!TokenTransfer, RP!TokenTransfer, Rewards!ClaimAchievementReward,
       RP!ClaimAchievementReward, Rewards!RequireAdmin, RP!RequireAdmin,
       Rewards!PayOut, RP!PayOut, Rewards!CanTransfer, RP!CanTransfer,
       Rewards!Transferred, RP!Transferred, Rewards!PoolCovers, RP!PoolCovers,
       Rewards!MarkClaimed, RP!MarkClaimed

LEMMA BadgeStep == Badges!Next => BP!Next
BY DEF Badges!Next, BP!Next, Badges!TypeId, BP!TypeId, Badges!TokenId, BP!TokenId,
       Badges!Initialize, BP!Initialize, Badges!AddMinter, BP!AddMinter,
       Badges!RemoveMinter, BP!RemoveMinter, Badges!CreateBadgeType,
       BP!CreateBadgeType, Badges!DeactivateBadgeType, BP!DeactivateBadgeType,
       Badges!Mint, BP!Mint, Badges!Burn, BP!Burn, Badges!RequireAdmin,
       BP!RequireAdmin, Badges!Mintable, BP!Mintable, Badges!Delist, BP!Delist

LEMMA RegistryStep == Registry!Next => GP!Next
BY DEF Registry!Next, GP!Next, Registry!I128, GP!I128, Registry!Initialize,
       GP!Initialize, Registry!RegisterPlayer, GP!RegisterPlayer,
       Registry!RecordWin, GP!RecordWin, Registry!RecordParticipation,
       GP!RecordParticipation, Registry!AddReputation, GP!AddReputation,
       Registry!AddGame, GP!AddGame, Registry!AddClaimedReward,
       GP!AddClaimedReward, Registry!AddBadge, GP!AddBadge, Registry!RemoveBadge,
       GP!RemoveBadge, Registry!SetActive, GP!SetActive, Registry!RequireAdmin,
       GP!RequireAdmin, Registry!Active, GP!Active, Registry!Registered,
       GP!Registered, Registry!MayRegister, GP!MayRegister, Registry!UpdateActive,
       GP!UpdateActive, Registry!Saturated, GP!Saturated, Registry!Pushed, GP!Pushed

(***************************************************************************)
(* So are the calls of a claim, whoever else signed: the one signature     *)
(* each of them asks for would have been enough.                           *)
(***************************************************************************)
LEMMA VerifyCall ==
    ASSUME NEW auth, NEW p \in Account, NEW c \in Verifier!CircuitId,
           NEW q \in Proof, NEW i \in Inputs, Verifier!Verify(auth, p, c, q, i)
    PROVE  VP!Next
<1>1. VP!Verify({p}, p, c, q, i) /\ c \in VP!CircuitId
  BY DEF Verifier!Verify, VP!Verify, Verifier!Accepting, VP!Accepting,
         Verifier!Unspent, VP!Unspent, Verifier!Spend, VP!Spend,
         Verifier!is_nullifier_used, VP!is_nullifier_used, Verifier!CircuitId,
         VP!CircuitId
<1> QED BY <1>1 DEF VP!Next

LEMMA RewardCall ==
    ASSUME RP!TypeOK, NEW auth, NEW p \in Account, NEW a \in Achievement,
           NEW n \in 0 .. MaxI128, Rewards!ClaimAchievementReward(auth, p, a, n)
    PROVE  RP!Next
<1>1. poolAdmin \in Account
  BY Deployed DEF RP!TypeOK, Rewards!ClaimAchievementReward, Rewards!RequireAdmin
<1>2. PICK s \in Account : s = poolAdmin
  BY <1>1
<1>3. RP!ClaimAchievementReward({s}, p, a, n)
  <2>1. RP!RequireAdmin({s})
    BY <1>2 DEF Rewards!ClaimAchievementReward, Rewards!RequireAdmin, RP!RequireAdmin
  <2>2. Rewards!PayOut(p, n) => RP!PayOut(p, n)
    BY DEF Rewards!PayOut, RP!PayOut, Rewards!CanTransfer, RP!CanTransfer,
           Rewards!Transferred, RP!Transferred, Rewards!I128, RP!I128
  <2> QED BY <2>1, <2>2
     DEF Rewards!ClaimAchievementReward, RP!ClaimAchievementReward,
         Rewards!PoolCovers, RP!PoolCovers, Rewards!MarkClaimed, RP!MarkClaimed
<1>4. n \in RP!I128 /\ p \in RP!Address
  BY Deployed DEF RP!I128, RP!Address
<1> QED BY <1>3, <1>4 DEF RP!Next

LEMMA MintCall ==
    ASSUME NEW auth, NEW p \in Account, NEW t \in Badges!TypeId,
           Badges!Mint(auth, Orchestrator, p, t)
    PROVE  BP!Next
<1>1. BP!Mint({Orchestrator}, Orchestrator, p, t) /\ t \in BP!TypeId
  BY DEF Badges!Mint, BP!Mint, Badges!Mintable, BP!Mintable, Badges!TypeId, BP!TypeId
<1>2. PICK o \in Account \cup {Orchestrator}, r \in Account \cup {Orchestrator} :
          o = Orchestrator /\ r = p
  OBVIOUS
<1>3. BP!Mint({o}, o, r, t)
  BY <1>1, <1>2
<1> QED BY <1>1, <1>3 DEF BP!Next

LEMMA RegistryCall ==
    ASSUME GP!TypeOK, NEW auth, NEW p \in Account,
           \/ \E a \in Achievement : Registry!AddClaimedReward(auth, p, a)
           \/ \E i \in Badges!TokenId : Registry!AddBadge(auth, p, i)
           \/ \E d \in 0 .. MaxI128 : Registry!AddReputation(auth, p, d)
    PROVE  GP!Next
<1>1. regAdmin \in Account
  BY Deployed DEF GP!TypeOK, Registry!AddClaimedReward, Registry!AddBadge,
         Registry!AddReputation, Registry!UpdateActive, Registry!RequireAdmin
<1>2. PICK s \in Account : s = regAdmin
  BY <1>1
<1>3. \A d \in 0 .. MaxI128 : d \in GP!I128
  BY Deployed DEF GP!I128
<1>4. \/ \E a \in Achievement : GP!AddClaimedReward({s}, p, a)
      \/ \E i \in Badges!TokenId : GP!AddBadge({s}, p, i)
      \/ \E d \in GP!I128 : GP!AddReputation({s}, p, d)
  BY <1>2, <1>3
     DEF Registry!AddClaimedReward, GP!AddClaimedReward, Registry!AddBadge,
         GP!AddBadge, Registry!AddReputation, GP!AddReputation,
         Registry!UpdateActive, GP!UpdateActive, Registry!RequireAdmin,
         GP!RequireAdmin, Registry!Active, GP!Active, Registry!Registered,
         GP!Registered, Registry!Saturated, GP!Saturated, Registry!Pushed, GP!Pushed
<1> QED BY <1>4 DEF GP!Next

-----------------------------------------------------------------------------
(***************************************************************************)
(* The orchestrator's own variables.                                       *)
(***************************************************************************)
OwnTypes ==
    /\ orcAdmin \in Account \cup {NoAdmin}
    /\ reputationPerClaim \in 0 .. MaxI128
    /\ call \in Call \cup {NoCall} /\ journal \in Journal \cup {NoJournal}
    /\ call = NoCall <=> journal = NoJournal
    /\ claimOk \in Seq(Receipt)
    /\ others \in 0 .. MaxOthers

Calls ==
    \/ VerifyProof \/ ReleaseReward \/ MintBadge \/ RecordClaim \/ RecordBadge
    \/ AwardReputation

Others == call = NoCall /\ Other

Configures ==
    /\ call = NoCall
    /\ UNCHANGED <<zkVars, poolVars, badgeVars, regVars, claimOk, call, journal, others>>
    /\ orcAdmin' \in Account /\ reputationPerClaim' \in 0 .. MaxI128

\* What can happen, by what becomes of the claim in progress.
LEMMA StepIs ==
    ASSUME [Next]_vars
    PROVE  \/ Configures
           \/ \E c \in Requests : Begin(c)
           \/ Calls \/ Emit \/ Rollback \/ Others
           \/ UNCHANGED vars
<1>1. ASSUME NEW s \in Account, NEW a \in Account, NEW delta \in RepPerClaim,
             Initialize({s}, a, delta)
      PROVE  Configures
  <2>1. delta \in 0 .. MaxI128
    BY <1>1, DeploymentAssumption DEF Initialize
  <2> QED BY <1>1, <2>1 DEF Initialize, Configures
<1>2. Advance => Calls \/ Emit
  BY DEF Advance, Calls
<1>3. Refuse \/ OutOfBudget => Rollback
  BY DEF Refuse, OutOfBudget
<1>4. Other => Others
  BY DEF Other, Others
<1> QED BY <1>1, <1>2, <1>3, <1>4 DEF Next

(***************************************************************************)
(* A call moves the claim on to its next step and leaves the rest of it.   *)
(***************************************************************************)
MovesOn(s, t) ==
    /\ call \in Call /\ call' \in Call /\ call # NoCall /\ call' # NoCall
    /\ call.step = s /\ call'.step = t
    /\ call'.req = call.req /\ call'.delta = call.delta
    /\ call'.payable = call.payable
    /\ UNCHANGED <<orcVars, claimOk, journal, others>>

LEMMA GoesOn ==
    ASSUME OwnTypes, NEW s, NEW t \in Step, Goes(s, t)
    PROVE  MovesOn(s, t) /\ call'.token = call.token
<1>1. call \in Call /\ call' = [call EXCEPT !.step = t] /\ call.step = s
  BY DEF Goes, OwnTypes
<1>2. /\ call' \in Call /\ call'.step = t /\ call'.req = call.req
      /\ call'.delta = call.delta /\ call'.payable = call.payable
      /\ call'.token = call.token
  BY <1>1 DEF Call
<1>3. call' # NoCall /\ call # NoCall
  BY <1>1, <1>2, NoValueAssumption
<1> QED BY <1>1, <1>2, <1>3 DEF Goes, MovesOn

LEMMA MintGoesOn ==
    ASSUME OwnTypes, BP!TypeOK, MintBadge
    PROVE  /\ MovesOn("mint", "record")
           /\ call'.token = nextTokenId
<1>1. /\ call \in Call /\ call.step = "mint"
      /\ call' = [call EXCEPT !.step = "record", !.token = nextTokenId]
  BY DEF MintBadge, OwnTypes
<1>2. nextTokenId \in Badges!TokenId
  BY Deployed DEF MintBadge, Badges!Mint, BP!TypeOK, Badges!TokenId
<1>3. /\ call' \in Call /\ call'.step = "record" /\ call'.req = call.req
      /\ call'.delta = call.delta /\ call'.payable = call.payable
      /\ call'.token = nextTokenId
  BY <1>1, <1>2 DEF Call, Step
<1>4. call' # NoCall /\ call # NoCall
  BY <1>1, <1>3, NoValueAssumption
<1> QED BY <1>1, <1>3, <1>4 DEF MintBadge, MovesOn

-----------------------------------------------------------------------------
(***************************************************************************)
(* Every step but a rollback is, for each contract, one of its operations  *)
(* or none.                                                                *)
(***************************************************************************)
EachSteps ==
    /\ [VP!Next]_(VP!vars) /\ [RP!Next]_(RP!vars)
    /\ [BP!Next]_(BP!vars) /\ [GP!Next]_(GP!vars)

LEMMA Untouched ==
    /\ UNCHANGED zkVars => UNCHANGED VP!vars
    /\ UNCHANGED poolVars => UNCHANGED RP!vars
    /\ UNCHANGED badgeVars => UNCHANGED BP!vars
    /\ UNCHANGED regVars => UNCHANGED GP!vars
BY DEF zkVars, poolVars, badgeVars, regVars, VP!vars, RP!vars, BP!vars, GP!vars

LEMMA CallSteps ==
    ASSUME OwnTypes, Callees, Calls
    PROVE  EachSteps
<1>1. call \in Call /\ call.req \in Requests /\ call.delta \in 0 .. MaxI128
      /\ call.token \in Badges!TokenId
  BY DEF OwnTypes, Calls, VerifyProof, ReleaseReward, MintBadge, RecordClaim,
         RecordBadge, AwardReputation, Goes, Call
<1>2. PICK c \in Requests : c = call.req
  BY <1>1
<1>3. /\ c.player \in Account /\ c.circuit \in Verifier!CircuitId
      /\ c.proof \in Proof /\ c.inputs \in Inputs
      /\ c.achievement \in Achievement /\ c.amount \in 0 .. MaxI128
      /\ c.badgeType \in Badges!TypeId
  BY Requested
<1>4. VP!TypeOK /\ RP!TypeOK /\ BP!TypeOK /\ GP!TypeOK
  BY DEF Callees, PoolSound, RegistrySound, BP!IInv
<1>5. CASE VerifyProof
  <2>1. VP!Next
    BY <1>2, <1>3, <1>5, VerifyCall DEF VerifyProof
  <2> QED BY <1>5, <2>1, Untouched DEF VerifyProof, EachSteps
<1>6. CASE ReleaseReward
  <2>1. RP!Next
    BY <1>2, <1>3, <1>4, <1>6, RewardCall DEF ReleaseReward
  <2> QED BY <1>6, <2>1, Untouched DEF ReleaseReward, EachSteps
<1>7. CASE MintBadge
  <2>1. BP!Next
    BY <1>2, <1>3, <1>7, MintCall DEF MintBadge
  <2> QED BY <1>7, <2>1, Untouched DEF MintBadge, EachSteps
<1>8. CASE RecordClaim
  <2>1. GP!Next
    BY <1>2, <1>3, <1>4, <1>8, RegistryCall DEF RecordClaim
  <2> QED BY <1>8, <2>1, Untouched DEF RecordClaim, EachSteps
<1>9. CASE RecordBadge
  <2>1. GP!Next
    BY <1>1, <1>2, <1>3, <1>4, <1>9, RegistryCall DEF RecordBadge
  <2> QED BY <1>9, <2>1, Untouched DEF RecordBadge, EachSteps
<1>10. CASE AwardReputation
  <2>1. [GP!Next]_(GP!vars)
    BY <1>1, <1>2, <1>3, <1>4, <1>10, RegistryCall, Untouched DEF AwardReputation
  <2> QED BY <1>10, <2>1, Untouched DEF AwardReputation, EachSteps
<1> QED BY <1>5, <1>6, <1>7, <1>8, <1>9, <1>10 DEF Calls

LEMMA OtherSteps ==
    ASSUME Others
    PROVE  /\ EachSteps
           /\ UNCHANGED <<claimOk, call, journal>>
           /\ others' \in 0 .. MaxOthers \/ others \notin 0 .. MaxOthers
           /\ \/ UNCHANGED orcVars
              \/ orcAdmin' = orcAdmin /\ reputationPerClaim' \in 0 .. MaxI128
<1>1. /\ UNCHANGED <<claimOk, call, journal>>
      /\ others' \in 0 .. MaxOthers \/ others \notin 0 .. MaxOthers
  BY Deployed DEF Others, Other
<1>2. EachSteps
  BY Untouched, VerifierStep, PoolStep, BadgeStep, RegistryStep
     DEF Others, Other, EachSteps, SetReputationPerClaim
<1>3. \/ UNCHANGED orcVars
      \/ orcAdmin' = orcAdmin /\ reputationPerClaim' \in 0 .. MaxI128
  BY DeploymentAssumption DEF Others, Other, SetReputationPerClaim
<1> QED BY <1>1, <1>2, <1>3

LEMMA ContractSteps ==
    ASSUME OwnTypes, Callees, [Next]_vars
    PROVE  Rollback \/ EachSteps
<1>1. Configures \/ Emit \/ UNCHANGED vars => EachSteps
  BY Untouched DEF Configures, Emit, vars, EachSteps
<1>2. ASSUME NEW c \in Requests, Begin(c) PROVE EachSteps
  BY <1>2, Untouched DEF Begin, EachSteps
<1> QED BY <1>1, <1>2, CallSteps, OtherSteps, StepIs

(***************************************************************************)
(* The journal is a copy of the storage when a claim begins ...            *)
(***************************************************************************)
Copied ==
    /\ journal'.spent = spent /\ journal'.userRecords = userRecords
    /\ journal'.tokens = tokens /\ journal'.totalDeposited = totalDeposited
    /\ journal'.claimed = claimed /\ journal'.achClm = achClm
    /\ journal'.paid = paid /\ journal'.nextTokenId = nextTokenId
    /\ journal'.token = token /\ journal'.ownerTokens = ownerTokens
    /\ journal'.claimedRewards = claimedRewards
    /\ journal'.badgeList = badgeList /\ journal'.profile = profile
    /\ UNCHANGED <<zkVars, poolVars, badgeVars, regVars>>

LEMMA CopySound ==
    ASSUME Callees, Copied
    PROVE  VJ!TypeOK' /\ (RJ!TypeOK /\ RJ!ClaimedOnce)' /\ BJ!IInv'
           /\ (GJ!TypeOK /\ GJ!RecordedOnce)'
<1> USE DEF zkVars, poolVars, badgeVars, regVars
<1>1. VJ!TypeOK'
  BY DEF Callees, Copied, VJ!TypeOK, VP!TypeOK, VJ!CircuitId, VP!CircuitId, VJ!Nullifier,
         VP!Nullifier, VJ!Record, VP!Record
<1>2. (RJ!TypeOK /\ RJ!ClaimedOnce)'
  BY DEF Callees, Copied, PoolSound, RJ!TypeOK, RP!TypeOK, RJ!ClaimedOnce, RP!ClaimedOnce,
         RJ!Address, RP!Address, RJ!I128, RP!I128, RJ!ClaimKey, RP!ClaimKey
<1>3. BJ!IInv'
  BY DEF Callees, Copied, BJ!IInv, BP!IInv, BJ!TypeOK, BP!TypeOK, BJ!NoneBefore,
         BP!NoneBefore, BJ!FreshTypes, BP!FreshTypes, BJ!OwnerIndexExact,
         BP!OwnerIndexExact, BJ!Held, BP!Held, BJ!tokens_of, BP!tokens_of,
         BJ!total_supply, BP!total_supply, BJ!TokenId, BP!TokenId, BJ!TypeId,
         BP!TypeId, BJ!Badge, BP!Badge
<1>4. (GJ!TypeOK /\ GJ!RecordedOnce)'
  BY DEF Callees, Copied, RegistrySound, GJ!TypeOK, GP!TypeOK, GJ!RecordedOnce,
         GP!RecordedOnce, GJ!Registered, GP!Registered, GJ!Profile, GP!Profile,
         GJ!I128, GP!I128
<1> QED BY <1>1, <1>2, <1>3, <1>4

(***************************************************************************)
(* ... and the storage a copy of the journal when one is rolled back.      *)
(***************************************************************************)
LEMMA RollbackSound ==
    ASSUME Journaled, Rollback
    PROVE  Callees'
<1>0. /\ call # NoCall
      /\ VJ!TypeOK /\ RJ!TypeOK /\ RJ!ClaimedOnce /\ BJ!IInv
      /\ GJ!TypeOK /\ GJ!RecordedOnce
  BY DEF Rollback, Journaled
<1>1. VP!TypeOK'
  BY <1>0 DEF Rollback, VJ!TypeOK, VP!TypeOK, VJ!CircuitId, VP!CircuitId, VJ!Nullifier,
         VP!Nullifier, VJ!Record, VP!Record
<1>2. PoolSound'
  BY <1>0 DEF Rollback, PoolSound, RJ!TypeOK, RP!TypeOK, RJ!ClaimedOnce, RP!ClaimedOnce,
         RJ!Address, RP!Address, RJ!I128, RP!I128, RJ!ClaimKey, RP!ClaimKey
<1>3. BP!IInv'
  BY <1>0 DEF Rollback, BJ!IInv, BP!IInv, BJ!TypeOK, BP!TypeOK, BJ!NoneBefore,
         BP!NoneBefore, BJ!FreshTypes, BP!FreshTypes, BJ!OwnerIndexExact,
         BP!OwnerIndexExact, BJ!Held, BP!Held, BJ!tokens_of, BP!tokens_of,
         BJ!total_supply, BP!total_supply, BJ!TokenId, BP!TokenId, BJ!TypeId,
         BP!TypeId, BJ!Badge, BP!Badge
<1>4. RegistrySound'
  BY <1>0 DEF Rollback, RegistrySound, GJ!TypeOK, GP!TypeOK, GJ!RecordedOnce,
         GP!RecordedOnce, GJ!Registered, GP!Registered, GJ!Profile, GP!Profile,
         GJ!I128, GP!I128
<1> QED BY <1>1, <1>2, <1>3, <1>4 DEF Callees

LEMMA StepCallees == OwnTypes /\ Callees /\ Journaled /\ [Next]_vars => Callees'
<1> SUFFICES ASSUME OwnTypes, Callees, Journaled, [Next]_vars PROVE Callees'
  OBVIOUS
<1>1. CASE Rollback
  BY <1>1, RollbackSound
<1>2. CASE EachSteps
  BY <1>2, VerifierKept, PoolKept, BadgesKept, RegistryKept DEF EachSteps, Callees
<1> QED BY <1>1, <1>2, ContractSteps

(***************************************************************************)
(* What no call of a claim writes.                                         *)
(***************************************************************************)
Steady ==
    UNCHANGED <<zkAdmin, nextCircuitId, circuit, poolAdmin, balances,
                achievementPool, badgeAdmin, minters, nextTypeId, badgeType,
                regAdmin, usernameOwner, playerCount, playerIndex, orcVars,
                claimOk, journal, others>>

LEMMA CallsSteady == Calls => Steady
<1> USE DEF zkVars, poolVars, badgeVars, regVars, orcVars, Steady, Goes
<1>1. VerifyProof => Steady
  BY DEF VerifyProof, Verifier!Verify
<1>2. ReleaseReward => Steady
  BY DEF ReleaseReward, Rewards!ClaimAchievementReward
<1>3. MintBadge => Steady
  BY DEF MintBadge, Badges!Mint
<1>4. RecordClaim => Steady
  BY DEF RecordClaim, Registry!AddClaimedReward
<1>5. RecordBadge => Steady
  BY DEF RecordBadge, Registry!AddBadge
<1>6. AwardReputation => Steady
  BY DEF AwardReputation, Registry!AddReputation, Registry!UpdateActive
<1> QED BY <1>1, <1>2, <1>3, <1>4, <1>5, <1>6 DEF Calls

LEMMA SteadySound ==
    ASSUME Steady
    PROVE  /\ VJ!TypeOK => VJ!TypeOK'
           /\ RJ!TypeOK /\ RJ!ClaimedOnce => (RJ!TypeOK /\ RJ!ClaimedOnce)'
           /\ BJ!IInv => BJ!IInv'
           /\ GJ!TypeOK /\ GJ!RecordedOnce => (GJ!TypeOK /\ GJ!RecordedOnce)'
<1>1. VJ!TypeOK => VJ!TypeOK'
  BY DEF Steady, VJ!TypeOK
<1>2. RJ!TypeOK /\ RJ!ClaimedOnce => (RJ!TypeOK /\ RJ!ClaimedOnce)'
  BY DEF Steady, RJ!TypeOK, RJ!ClaimedOnce
<1>3. BJ!IInv => BJ!IInv'
  BY DEF Steady, BJ!IInv, BJ!TypeOK, BJ!NoneBefore, BJ!FreshTypes,
         BJ!OwnerIndexExact, BJ!Held, BJ!tokens_of, BJ!total_supply
<1>4. GJ!TypeOK /\ GJ!RecordedOnce => (GJ!TypeOK /\ GJ!RecordedOnce)'
  BY DEF Steady, GJ!TypeOK, GJ!RecordedOnce, GJ!Registered
<1> QED BY <1>1, <1>2, <1>3, <1>4

LEMMA StepJournaled == OwnTypes /\ Callees /\ Journaled /\ [Next]_vars => Journaled'
<1> SUFFICES ASSUME OwnTypes, Callees, Journaled, [Next]_vars PROVE Journaled'
  OBVIOUS
<1>1. ASSUME NEW c \in Requests, Begin(c) PROVE Journaled'
  <2>1. Copied
    BY <1>1 DEF Begin, Touched, Copied
  <2> QED BY <2>1, CopySound DEF Journaled
<1>2. ASSUME Steady, call # NoCall \/ call' = NoCall PROVE Journaled'
  BY <1>2, SteadySound DEF Journaled
<1>3. Calls => Journaled'
  <2>1. Calls => call # NoCall
    BY DEF Calls, VerifyProof, ReleaseReward, MintBadge, RecordClaim, RecordBadge,
           AwardReputation, Goes
  <2> QED BY <1>2, <2>1, CallsSteady
<1>4. Emit \/ Rollback \/ Others => Journaled'
  BY OtherSteps DEF Emit, Rollback, Others, Journaled
<1>5. ASSUME UNCHANGED <<zkVars, poolVars, badgeVars, regVars, call, journal>>
      PROVE  Journaled'
  <2>1. call # NoCall =>
            /\ VJ!TypeOK' /\ (RJ!TypeOK /\ RJ!ClaimedOnce)'
            /\ BJ!IInv' /\ (GJ!TypeOK /\ GJ!RecordedOnce)'
    BY <1>5 DEF zkVars, poolVars, badgeVars, regVars, Journaled, VJ!TypeOK, RJ!TypeOK,
           RJ!ClaimedOnce, BJ!IInv, BJ!TypeOK, BJ!NoneBefore, BJ!FreshTypes,
           BJ!OwnerIndexExact, BJ!Held, BJ!tokens_of, BJ!total_supply, GJ!TypeOK,
           GJ!RecordedOnce, GJ!Registered
  <2> QED BY <1>5, <2>1 DEF Journaled
<1>6. Configures \/ UNCHANGED vars => Journaled'
  BY <1>5 DEF Configures, vars
<1> QED BY <1>1, <1>3, <1>4, <1>6, StepIs

-----------------------------------------------------------------------------
(***************************************************************************)
(* How far the claim has come: for each contract, that nothing was written *)
(* yet, or that the call's checks were met by what the journal holds and   *)
(* exactly its writes were made.                                           *)
(***************************************************************************)
Entered == call.req.player \in call.req.auth /\ call.req.amount > 0

VerifierPart ==
    LET c == call.req IN
    IF call.step = "verify"
    THEN spent = journal.spent
    ELSE /\ circuit[c.circuit] = "active" /\ c.proof \in WellFormed /\ c.inputs # <<>>
         /\ Digest[c.proof] \notin journal.spent
         /\ spent = journal.spent \cup {Digest[c.proof]}

PoolPart ==
    LET c == call.req
        key == <<c.player, c.achievement>>
    IN
    IF call.step \in {"verify", "release"}
    THEN /\ claimed = journal.claimed
         /\ tokens = journal.tokens /\ totalDeposited = journal.totalDeposited
    ELSE /\ poolAdmin \in c.auth
         /\ key \notin journal.claimed /\ journal.totalDeposited >= c.amount
         /\ claimed = journal.claimed \cup {key}
         /\ tokens = Rewards!Transferred(journal.tokens, Pool, c.player, c.amount)
         /\ totalDeposited = journal.totalDeposited - c.amount

BadgePart ==
    LET c == call.req IN
    IF call.step \in {"verify", "release", "mint"}
    THEN token = journal.token /\ nextTokenId = journal.nextTokenId
    ELSE /\ Orchestrator \in minters /\ badgeType[c.badgeType] = "active"
         /\ journal.nextTokenId < MaxU32
         /\ call.token = journal.nextTokenId
         /\ token = [journal.token EXCEPT ![call.token] =
                [badge_type_id |-> c.badgeType, owner |-> c.player, alive |-> TRUE]]

RecordPart ==
    LET c == call.req IN
    IF call.step \in {"verify", "release", "mint", "record"}
    THEN claimedRewards = journal.claimedRewards
    ELSE /\ regAdmin \in c.auth /\ GJ!Active(c.player)
         /\ ListedPairs(claimedRewards) =
                ListedPairs(journal.claimedRewards) \cup {<<c.player, c.achievement>>}

ListPart ==
    call.step \in {"reputation", "emit"} => badgeList[call.req.player][call.token] > 0

ProfilePart ==
    LET p == call.req.player
        before == journal.profile[p].reputation
    IN
    IF call.step # "emit"
    THEN profile = journal.profile
    ELSE /\ profile[p].reputation \in {before + call.delta, MaxI128}
         /\ profile[p].reputation <= before + call.delta

PayableThen ==
    LET c == call.req IN
    /\ {c.player, poolAdmin, regAdmin} \subseteq c.auth
    /\ circuit[c.circuit] = "active"
    /\ c.proof \in WellFormed /\ c.inputs # <<>>
    /\ Digest[c.proof] \notin journal.spent
    /\ <<c.player, c.achievement>> \notin journal.claimed
    /\ journal.totalDeposited >= c.amount
    /\ Orchestrator \in minters
    /\ badgeType[c.badgeType] = "active" /\ journal.nextTokenId < MaxU32
    /\ GJ!Active(c.player)

Progress ==
    call # NoCall =>
        /\ Entered /\ VerifierPart /\ PoolPart /\ BadgePart
        /\ RecordPart /\ ListPart /\ ProfilePart
        /\ PayableThen <=> call.payable

(***************************************************************************)
(* A step that leaves a contract and the claim's place before or after it  *)
(* alone leaves its part alone.                                            *)
(***************************************************************************)
SamePlace(S) ==
    /\ call'.req = call.req /\ journal' = journal
    /\ call.step \in S <=> call'.step \in S

LEMMA VerifierFrame ==
    ASSUME SamePlace({"verify"}), UNCHANGED <<circuit, spent>>, VerifierPart
    PROVE  VerifierPart'
BY DEF SamePlace, VerifierPart

LEMMA PoolFrame ==
    ASSUME SamePlace({"verify", "release"}), PoolPart,
           UNCHANGED <<poolAdmin, claimed, tokens, totalDeposited>>
    PROVE  PoolPart'
BY DEF SamePlace, PoolPart

LEMMA BadgeFrame ==
    ASSUME SamePlace({"verify", "release", "mint"}), BadgePart,
           call'.token = call.token,
           UNCHANGED <<minters, badgeType, token, nextTokenId>>
    PROVE  BadgePart'
BY DEF SamePlace, BadgePart

LEMMA RecordFrame ==
    ASSUME SamePlace({"verify", "release", "mint", "record"}), RecordPart,
           UNCHANGED <<regAdmin, claimedRewards>>
    PROVE  RecordPart'
BY DEF SamePlace, RecordPart, GJ!Active, GJ!Registered

LEMMA ListFrame ==
    ASSUME SamePlace({"reputation", "emit"}), ListPart, UNCHANGED badgeList,
           call'.token = call.token \/ call.step \notin {"reputation", "emit"}
    PROVE  ListPart'
BY DEF SamePlace, ListPart

LEMMA ProfileFrame ==
    ASSUME SamePlace({"emit"}), ProfilePart, UNCHANGED profile,
           call'.delta = call.delta
    PROVE  ProfilePart'
BY DEF SamePlace, ProfilePart

LEMMA PayableFrame ==
    ASSUME Steady, call'.req = call.req, call'.payable = call.payable,
           PayableThen <=> call.payable
    PROVE  (PayableThen <=> call.payable)'
BY DEF Steady, PayableThen, GJ!Active, GJ!Registered

\* The parts that do not concern the contract called.
LEMMA Moved ==
    ASSUME NEW s, NEW t, MovesOn(s, t), Progress, Steady
    PROVE  /\ Entered /\ Entered' /\ (PayableThen <=> call.payable)'
           /\ VerifierPart /\ PoolPart /\ BadgePart /\ RecordPart /\ ListPart
           /\ ProfilePart
           /\ call.step = s /\ call'.step = t /\ call'.req = call.req
           /\ journal' = journal /\ call'.delta = call.delta
<1>1. /\ Entered /\ VerifierPart /\ PoolPart /\ BadgePart /\ RecordPart /\ ListPart
      /\ ProfilePart /\ (PayableThen <=> call.payable)
  BY DEF Progress, MovesOn
<1>2. Entered'
  BY <1>1 DEF Entered, MovesOn
<1>3. (PayableThen <=> call.payable)'
  BY <1>1, PayableFrame DEF MovesOn
<1> QED BY <1>1, <1>2, <1>3 DEF MovesOn

LEMMA VerifyProgress ==
    ASSUME OwnTypes, Progress, VerifyProof
    PROVE  Progress'
<1>1. MovesOn("verify", "release") /\ call'.token = call.token
  BY GoesOn DEF VerifyProof, Step
<1>2. Steady
  BY CallsSteady DEF Calls
<1>3. /\ Entered /\ Entered' /\ (PayableThen <=> call.payable)'
      /\ VerifierPart /\ PoolPart /\ BadgePart /\ RecordPart /\ ListPart
      /\ ProfilePart
      /\ call.step = "verify" /\ call'.step = "release" /\ call'.req = call.req
      /\ journal' = journal /\ call'.delta = call.delta
  BY <1>1, <1>2, Moved
<1>4. VerifierPart'
  BY <1>3 DEF VerifierPart, VerifyProof, Verifier!Verify, Verifier!Accepting,
              Verifier!Unspent, Verifier!is_nullifier_used, Verifier!Spend
<1>5. PoolPart' /\ BadgePart' /\ RecordPart' /\ ListPart' /\ ProfilePart'
  <2>1. /\ SamePlace({"verify", "release"}) /\ SamePlace({"verify", "release", "mint"})
        /\ SamePlace({"verify", "release", "mint", "record"})
        /\ SamePlace({"reputation", "emit"}) /\ SamePlace({"emit"})
    BY <1>3 DEF SamePlace
  <2>2. UNCHANGED <<poolVars, badgeVars, regVars>>
    BY DEF VerifyProof
  <2> QED BY <1>1, <1>3, <2>1, <2>2, PoolFrame, BadgeFrame, RecordFrame, ListFrame,
             ProfileFrame
          DEF poolVars, badgeVars, regVars
<1> QED BY <1>3, <1>4, <1>5 DEF Progress

LEMMA ReleaseProgress ==
    ASSUME OwnTypes, Progress, ReleaseReward
    PROVE  Progress'
<1>1. MovesOn("release", "mint") /\ call'.token = call.token
  BY GoesOn DEF ReleaseReward, Step
<1>2. Steady
  BY CallsSteady DEF Calls
<1>3. /\ Entered /\ Entered' /\ (PayableThen <=> call.payable)'
      /\ VerifierPart /\ PoolPart /\ BadgePart /\ RecordPart /\ ListPart
      /\ ProfilePart
      /\ call.step = "release" /\ call'.step = "mint" /\ call'.req = call.req
      /\ journal' = journal /\ call'.delta = call.delta
  BY <1>1, <1>2, Moved
<1>4. PoolPart'
  BY <1>3 DEF PoolPart, ReleaseReward, Rewards!ClaimAchievementReward,
              Rewards!RequireAdmin, Rewards!PoolCovers, Rewards!PayOut,
              Rewards!MarkClaimed
<1>5. VerifierPart' /\ BadgePart' /\ RecordPart' /\ ListPart' /\ ProfilePart'
  <2>1. /\ SamePlace({"verify"}) /\ SamePlace({"verify", "release", "mint"})
        /\ SamePlace({"verify", "release", "mint", "record"})
        /\ SamePlace({"reputation", "emit"}) /\ SamePlace({"emit"})
    BY <1>3 DEF SamePlace
  <2>2. UNCHANGED <<zkVars, badgeVars, regVars>>
    BY DEF ReleaseReward
  <2> QED BY <1>1, <1>3, <2>1, <2>2, VerifierFrame, BadgeFrame, RecordFrame,
             ListFrame, ProfileFrame
          DEF zkVars, badgeVars, regVars
<1> QED BY <1>3, <1>4, <1>5 DEF Progress

LEMMA MintProgress ==
    ASSUME OwnTypes, BP!TypeOK, badgeAdmin = Admin, Progress, MintBadge
    PROVE  Progress'
<1>1. MovesOn("mint", "record") /\ call'.token = nextTokenId
  BY MintGoesOn
<1>2. Steady
  BY CallsSteady DEF Calls
<1>3. /\ Entered /\ Entered' /\ (PayableThen <=> call.payable)'
      /\ VerifierPart /\ PoolPart /\ BadgePart /\ RecordPart /\ ListPart
      /\ ProfilePart
      /\ call.step = "mint" /\ call'.step = "record" /\ call'.req = call.req
      /\ journal' = journal /\ call'.delta = call.delta
  BY <1>1, <1>2, Moved
<1>4. BadgePart'
  <2>1. Orchestrator \in minters
    BY Deployed DEF MintBadge, Badges!Mint
  <2> QED BY <1>1, <1>3, <2>1 DEF BadgePart, MintBadge, Badges!Mint, Badges!Mintable
<1>5. VerifierPart' /\ PoolPart' /\ RecordPart' /\ ListPart' /\ ProfilePart'
  <2>1. /\ SamePlace({"verify"}) /\ SamePlace({"verify", "release"})
        /\ SamePlace({"verify", "release", "mint", "record"})
        /\ SamePlace({"reputation", "emit"}) /\ SamePlace({"emit"})
        /\ call.step \notin {"reputation", "emit"}
    BY <1>3 DEF SamePlace
  <2>2. UNCHANGED <<zkVars, poolVars, regVars>>
    BY DEF MintBadge
  <2> QED BY <1>1, <1>3, <2>1, <2>2, VerifierFrame, PoolFrame, RecordFrame,
             ListFrame, ProfileFrame
          DEF zkVars, poolVars, regVars
<1> QED BY <1>3, <1>4, <1>5 DEF Progress

\* A push adds the one pair to those listed, if it was not there.
LEMMA ListedGrow ==
    ASSUME NEW f \in [Account -> [Achievement -> Nat]], NEW p \in Account,
           NEW a \in Achievement
    PROVE  ListedPairs([f EXCEPT ![p] = Registry!Pushed(@, a)])
               = ListedPairs(f) \cup {<<p, a>>}
<1> DEFINE g == [f EXCEPT ![p] = Registry!Pushed(@, a)]
<1>1. \A q \in Account, b \in Achievement :
          g[q][b] > 0 <=> f[q][b] > 0 \/ (q = p /\ b = a)
  BY DEF Registry!Pushed
<1> HIDE DEF g
<1>2. \A q \in Account, b \in Achievement :
          <<q, b>> \in ListedPairs(g) <=> <<q, b>> \in ListedPairs(f) \cup {<<p, a>>}
  BY <1>1 DEF ListedPairs
<1>3. /\ ListedPairs(g) \subseteq Account \X Achievement
      /\ ListedPairs(f) \cup {<<p, a>>} \subseteq Account \X Achievement
  BY DEF ListedPairs
<1>4. ListedPairs(g) = ListedPairs(f) \cup {<<p, a>>}
  BY <1>2, <1>3
<1> QED BY <1>4 DEF g

LEMMA RecordProgress ==
    ASSUME OwnTypes, GP!TypeOK, Progress, RecordClaim
    PROVE  Progress'
<1>1. MovesOn("record", "badge") /\ call'.token = call.token
  BY GoesOn DEF RecordClaim, Step
<1>2. Steady
  BY CallsSteady DEF Calls
<1>3. /\ Entered /\ Entered' /\ (PayableThen <=> call.payable)'
      /\ VerifierPart /\ PoolPart /\ BadgePart /\ RecordPart /\ ListPart
      /\ ProfilePart
      /\ call.step = "record" /\ call'.step = "badge" /\ call'.req = call.req
      /\ journal' = journal /\ call'.delta = call.delta
  BY <1>1, <1>2, Moved
<1>4. RecordPart'
  <2>1. /\ call.req.player \in Account /\ call.req.achievement \in Achievement
        /\ claimedRewards \in [Account -> [Achievement -> Nat]]
    BY <1>1, Requested DEF MovesOn, Call, GP!TypeOK
  <2>2. PICK f, g, p, a :
            /\ f = claimedRewards /\ g = claimedRewards'
            /\ p = call.req.player /\ a = call.req.achievement
    OBVIOUS
  <2>3. g = [f EXCEPT ![p] = Registry!Pushed(@, a)]
    BY <2>2 DEF RecordClaim, Registry!AddClaimedReward
  <2>4. ListedPairs(g) = ListedPairs(f) \cup {<<p, a>>}
    <3>1. f \in [Account -> [Achievement -> Nat]] /\ p \in Account /\ a \in Achievement
      BY <2>1, <2>2
    <3>2. ListedPairs([f EXCEPT ![p] = Registry!Pushed(@, a)])
              = ListedPairs(f) \cup {<<p, a>>}
      BY <3>1, ListedGrow
    <3> QED BY <2>3, <3>2
  <2>5. /\ ListedPairs(claimedRewards)' = ListedPairs(claimedRewards)
                \cup {<<call.req.player, call.req.achievement>>}
        /\ claimedRewards = journal.claimedRewards /\ profile = journal.profile
    BY <1>3, <2>2, <2>4 DEF ListedPairs, RecordPart, ProfilePart
  <2>6. regAdmin \in call.req.auth /\ GJ!Active(call.req.player)
    BY <2>5 DEF RecordClaim, Registry!AddClaimedReward, Registry!RequireAdmin,
           Registry!Active, Registry!Registered, GJ!Active, GJ!Registered
  <2>7. (regAdmin \in call.req.auth /\ GJ!Active(call.req.player))'
    BY <1>2, <1>3, <2>6 DEF Steady, GJ!Active, GJ!Registered
  <2>8. (ListedPairs(journal.claimedRewards)
             \cup {<<call.req.player, call.req.achievement>>})'
            = ListedPairs(claimedRewards)
                  \cup {<<call.req.player, call.req.achievement>>}
    BY <1>3, <2>5 DEF ListedPairs
  <2> QED BY <1>3, <2>5, <2>7, <2>8 DEF RecordPart
<1>5. VerifierPart' /\ PoolPart' /\ BadgePart' /\ ListPart' /\ ProfilePart'
  <2>1. /\ SamePlace({"verify"}) /\ SamePlace({"verify", "release"})
        /\ SamePlace({"verify", "release", "mint"})
        /\ SamePlace({"reputation", "emit"}) /\ SamePlace({"emit"})
    BY <1>3 DEF SamePlace
  <2>2. UNCHANGED <<zkVars, poolVars, badgeVars>> /\ UNCHANGED <<profile, badgeList>>
    BY DEF RecordClaim, Registry!AddClaimedReward
  <2> QED BY <1>1, <1>3, <2>1, <2>2, VerifierFrame, PoolFrame, BadgeFrame,
             ListFrame, ProfileFrame
          DEF zkVars, poolVars, badgeVars
<1> QED BY <1>3, <1>4, <1>5 DEF Progress

LEMMA BadgeProgress ==
    ASSUME OwnTypes, GP!TypeOK, Progress, RecordBadge
    PROVE  Progress'
<1>1. MovesOn("badge", "reputation") /\ call'.token = call.token
  BY GoesOn DEF RecordBadge, Step
<1>2. Steady
  BY CallsSteady DEF Calls
<1>3. /\ Entered /\ Entered' /\ (PayableThen <=> call.payable)'
      /\ VerifierPart /\ PoolPart /\ BadgePart /\ RecordPart /\ ListPart
      /\ ProfilePart
      /\ call.step = "badge" /\ call'.step = "reputation" /\ call'.req = call.req
      /\ journal' = journal /\ call'.delta = call.delta
  BY <1>1, <1>2, Moved
<1>4. ListPart'
  <2>1. /\ call.req.player \in Account /\ call.token \in Badges!TokenId
        /\ badgeList \in [Account -> [Badges!TokenId -> Nat]]
    BY <1>1, Requested DEF MovesOn, Call, GP!TypeOK
  <2>2. badgeList' = [badgeList EXCEPT ![call.req.player] =
                          Registry!Pushed(@, call.token)]
    BY DEF RecordBadge, Registry!AddBadge
  <2>3. badgeList'[call.req.player] = Registry!Pushed(badgeList[call.req.player],
                                                      call.token)
    BY <2>1, <2>2
  <2>4. badgeList'[call.req.player][call.token] > 0
    BY <2>1, <2>3 DEF Registry!Pushed
  <2> QED BY <1>1, <1>3, <2>4 DEF ListPart
<1>5. VerifierPart' /\ PoolPart' /\ BadgePart' /\ RecordPart' /\ ProfilePart'
  <2>1. /\ SamePlace({"verify"}) /\ SamePlace({"verify", "release"})
        /\ SamePlace({"verify", "release", "mint"})
        /\ SamePlace({"verify", "release", "mint", "record"}) /\ SamePlace({"emit"})
    BY <1>3 DEF SamePlace
  <2>2. /\ UNCHANGED <<zkVars, poolVars, badgeVars>>
        /\ UNCHANGED <<profile, claimedRewards, regAdmin>>
    BY DEF RecordBadge, Registry!AddBadge
  <2> QED BY <1>1, <1>3, <2>1, <2>2, VerifierFrame, PoolFrame, BadgeFrame,
             RecordFrame, ProfileFrame
          DEF zkVars, poolVars, badgeVars
<1> QED BY <1>3, <1>4, <1>5 DEF Progress

LEMMA ReputationProgress ==
    ASSUME OwnTypes, GP!TypeOK, Progress, AwardReputation
    PROVE  Progress'
<1>1. MovesOn("reputation", "emit") /\ call'.token = call.token
  BY GoesOn DEF AwardReputation, Step
<1>2. Steady
  BY CallsSteady DEF Calls
<1>3. /\ Entered /\ Entered' /\ (PayableThen <=> call.payable)'
      /\ VerifierPart /\ PoolPart /\ BadgePart /\ RecordPart /\ ListPart
      /\ ProfilePart
      /\ call.step = "reputation" /\ call'.step = "emit" /\ call'.req = call.req
      /\ journal' = journal /\ call'.delta = call.delta
  BY <1>1, <1>2, Moved
<1> DEFINE p == call.req.player
           old == profile[p]
<1>4. ProfilePart'
  <2>1. /\ p \in Account /\ call.delta \in 0 .. MaxI128 /\ MaxI128 \in Nat
        /\ profile \in [Account -> GP!Profile \cup {NoProfile}]
    BY <1>1, Requested, Deployed DEF MovesOn, Call, GP!TypeOK
  <2>2. GJ!Active(p) /\ profile = journal.profile
    BY <1>3 DEF RecordPart, ProfilePart
  <2>3. old \in GP!Profile
    BY <2>1, <2>2 DEF GJ!Active, GJ!Registered
  <2>4. old.reputation \in Int /\ old.reputation <= MaxI128
        /\ old.reputation >= -MaxI128 - 1
    BY <2>1, <2>3 DEF GP!Profile, GP!I128
  <2>5. profile'[p].reputation = Registry!Saturated(old.reputation + call.delta)
    <3>1. CASE call.delta > 0
      <4>1. profile' = [profile EXCEPT ![p] =
                [old EXCEPT !.reputation = Registry!Saturated(@ + call.delta)]]
        BY <3>1 DEF AwardReputation, Registry!AddReputation, Registry!UpdateActive
      <4>2. profile'[p] = [old EXCEPT !.reputation = Registry!Saturated(@ + call.delta)]
        BY <2>1, <4>1
      <4> QED BY <2>3, <4>2 DEF GP!Profile
    <3>2. CASE ~(call.delta > 0)
      <4>1. profile' = profile /\ call.delta = 0
        BY <2>1, <3>2 DEF AwardReputation, regVars
      <4> QED BY <2>1, <2>4, <4>1 DEF Registry!Saturated
    <3> QED BY <3>1, <3>2
  <2>6. Registry!Saturated(old.reputation + call.delta)
            \in {old.reputation + call.delta, MaxI128}
        /\ Registry!Saturated(old.reputation + call.delta) <= old.reputation + call.delta
    BY <2>1, <2>4 DEF Registry!Saturated
  <2> QED BY <1>3, <2>2, <2>5, <2>6 DEF ProfilePart
<1>5. VerifierPart' /\ PoolPart' /\ BadgePart' /\ RecordPart' /\ ListPart'
  <2>1. /\ SamePlace({"verify"}) /\ SamePlace({"verify", "release"})
        /\ SamePlace({"verify", "release", "mint"})
        /\ SamePlace({"verify", "release", "mint", "record"})
        /\ SamePlace({"reputation", "emit"})
    BY <1>3 DEF SamePlace
  <2>2. UNCHANGED <<zkVars, poolVars, badgeVars>>
    BY DEF AwardReputation
  <2>3. UNCHANGED <<badgeList, claimedRewards, regAdmin>>
    BY DEF AwardReputation, Registry!AddReputation, Registry!UpdateActive, regVars
  <2> QED BY <1>1, <1>3, <2>1, <2>2, <2>3, VerifierFrame, PoolFrame, BadgeFrame,
             RecordFrame, ListFrame
          DEF zkVars, poolVars, badgeVars
<1> QED BY <1>3, <1>4, <1>5 DEF Progress

LEMMA BeginProgress ==
    ASSUME NEW c \in Requests, Begin(c)
    PROVE  Progress'
<1>1. /\ call' = [req |-> c, step |-> "verify", delta |-> reputationPerClaim,
                  token |-> 0, payable |-> Payable(c)]
      /\ Copied
  BY DEF Begin, Copied, Touched
<1>2. /\ call'.req = c /\ call'.step = "verify" /\ call'.payable = Payable(c)
      /\ UNCHANGED <<circuit, spent, poolAdmin, claimed, tokens, totalDeposited,
                     minters, badgeType, token, nextTokenId, regAdmin, profile,
                     claimedRewards, badgeList>>
  BY <1>1 DEF Copied, zkVars, poolVars, badgeVars, regVars
<1>3. Entered'
  BY <1>2 DEF Begin, Entered
<1>4. VerifierPart' /\ PoolPart' /\ BadgePart' /\ RecordPart' /\ ListPart' /\ ProfilePart'
  BY <1>1, <1>2 DEF Copied, VerifierPart, PoolPart, BadgePart, RecordPart, ListPart,
     ProfilePart
<1>5. PayableThen' <=> Payable(c)
  BY <1>1, <1>2 DEF Copied, PayableThen, Payable, GJ!Active, GJ!Registered,
     Registry!Active, Registry!Registered
<1>6. (PayableThen <=> call.payable)'
  BY <1>2, <1>5
<1> QED BY <1>3, <1>4, <1>6 DEF Progress

LEMMA StepProgress ==
    OwnTypes /\ Callees /\ badgeAdmin = Admin /\ Progress /\ [Next]_vars => Progress'
<1> SUFFICES ASSUME OwnTypes, Callees, badgeAdmin = Admin, Progress, [Next]_vars
             PROVE  Progress'
  OBVIOUS
<1>1. BP!TypeOK /\ GP!TypeOK
  BY DEF Callees, BP!IInv, RegistrySound
<1>2. Calls => Progress'
  BY <1>1, VerifyProgress, ReleaseProgress, MintProgress, RecordProgress,
     BadgeProgress, ReputationProgress DEF Calls
<1>3. Emit \/ Rollback \/ Others => Progress'
  BY OtherSteps DEF Emit, Rollback, Others, Progress
<1>4. Configures \/ UNCHANGED vars => Progress'
  BY DEF Configures, vars, zkVars, poolVars, badgeVars, regVars, Progress, Entered,
     VerifierPart, PoolPart, BadgePart, RecordPart, ListPart, ProfilePart,
     PayableThen, GJ!Active, GJ!Registered
<1> QED BY <1>2, <1>3, <1>4, BeginProgress, StepIs

(***************************************************************************)
(* The admin of badge_nft stays who it is: the orchestrator mints as a     *)
(* minter.                                                                 *)
(***************************************************************************)
LEMMA StepAdmin ==
    ASSUME badgeAdmin = Admin, Rollback \/ EachSteps
    PROVE  badgeAdmin' = Admin
<1>1. BP!Next => badgeAdmin' = badgeAdmin
  BY Deployed DEF BP!Next, BP!Initialize, BP!AddMinter, BP!RemoveMinter,
     BP!CreateBadgeType, BP!DeactivateBadgeType, BP!Mint, BP!Burn
<1> QED BY <1>1 DEF Rollback, EachSteps, BP!vars

-----------------------------------------------------------------------------
(***************************************************************************)
(* The orchestrator's own variables keep their types.                      *)
(***************************************************************************)
LEMMA BeginTypes ==
    ASSUME OwnTypes, Callees, NEW c \in Requests, Begin(c)
    PROVE  OwnTypes' /\ call' # NoCall
<1>1. call' \in Call
  <2>1. Payable(c) \in BOOLEAN
    BY DEF Payable, Registry!Active
  <2>2. 0 \in Badges!TokenId
    BY Deployed DEF Badges!TokenId
  <2> QED BY <2>1, <2>2 DEF Begin, OwnTypes, Call, Step
<1>2. journal' \in Journal
  <2>1. /\ spent \in SUBSET Verifier!Nullifier
        /\ userRecords \in [Account -> Seq(Verifier!Record)]
    BY VerifierTypes DEF Callees, Verifier!TypeOK
  <2>2. /\ tokens \in [Rewards!Address -> Nat] /\ totalDeposited \in Rewards!I128
        /\ claimed \in SUBSET Rewards!ClaimKey
        /\ achClm \in [Rewards!ClaimKey -> Nat] /\ paid \in Nat
    BY PoolTypes DEF Callees, PoolSound, Rewards!TypeOK
  <2>3. /\ nextTokenId \in 0 .. MaxU32
        /\ token \in [Badges!TokenId -> Badges!Badge \cup {NoBadge}]
        /\ ownerTokens \in [Account \cup {Orchestrator} -> [Badges!TokenId -> Nat]]
    BY BadgeTypes DEF Callees, BP!IInv, Badges!TypeOK
  <2>4. /\ claimedRewards \in [Account -> [Achievement -> Nat]]
        /\ badgeList \in [Account -> [Badges!TokenId -> Nat]]
        /\ profile \in [Account -> Registry!Profile \cup {NoProfile}]
    BY RegistryTypes DEF Callees, RegistrySound, Registry!TypeOK
  <2>5. journal' = Touched
    BY DEF Begin
  <2> QED BY <2>1, <2>2, <2>3, <2>4, <2>5 DEF Touched, Journal
<1>3. call' # NoCall /\ journal' # NoJournal
  BY <1>1, <1>2, NoValueAssumption
<1> QED BY <1>1, <1>2, <1>3 DEF Begin, orcVars, OwnTypes

LEMMA EmitTypes ==
    ASSUME OwnTypes, Progress, Emit
    PROVE  OwnTypes'
<1>1. call \in Call /\ Entered
  BY DEF Emit, OwnTypes, Progress
<1>2. /\ call.req.player \in Account /\ call.req.achievement \in Achievement
      /\ call.token \in Badges!TokenId /\ call.req.amount \in 1 .. MaxI128
  BY <1>1, Requested, Deployed DEF Call, Entered
<1>3. [player |-> call.req.player, achievement |-> call.req.achievement,
       token |-> call.token, amount |-> call.req.amount] \in Receipt
  BY <1>2 DEF Receipt
<1>4. claimOk' \in Seq(Receipt)
  BY <1>3 DEF Emit, OwnTypes
<1> QED BY <1>4 DEF Emit, orcVars, OwnTypes

LEMMA StepOwnTypes ==
    OwnTypes /\ Callees /\ Progress /\ [Next]_vars => OwnTypes'
<1> SUFFICES ASSUME OwnTypes, Callees, Progress, [Next]_vars PROVE OwnTypes'
  OBVIOUS
<1>1. Calls => OwnTypes'
  <2>1. ASSUME NEW s, NEW t, MovesOn(s, t) PROVE OwnTypes'
    <3>1. journal # NoJournal
      BY <2>1 DEF MovesOn, OwnTypes
    <3> QED BY <2>1, <3>1 DEF MovesOn, orcVars, OwnTypes
  <2>2. BP!TypeOK
    BY DEF Callees, BP!IInv
  <2> QED BY <2>1, <2>2, GoesOn, MintGoesOn
     DEF Calls, VerifyProof, ReleaseReward, RecordClaim, RecordBadge,
         AwardReputation, Step
<1>2. Rollback => OwnTypes'
  BY DEF Rollback, orcVars, OwnTypes
<1>3. Others => OwnTypes'
  <2>1. Others => others' \in 0 .. MaxOthers
    BY Deployed DEF Others, Other, OwnTypes
  <2> QED BY <2>1, OtherSteps DEF orcVars, OwnTypes
<1>4. Configures \/ UNCHANGED vars => OwnTypes'
  BY DEF Configures, vars, orcVars, OwnTypes
<1> QED BY <1>1, <1>2, <1>3, <1>4, BeginTypes, EmitTypes, StepIs

-----------------------------------------------------------------------------
(***************************************************************************)
(* Of a deployment everything holds that its contracts will keep.          *)
(***************************************************************************)
Sound == OwnTypes /\ badgeAdmin = Admin /\ Callees /\ Journaled /\ Progress

LEMMA InitVerifier == Init => VP!TypeOK
BY Deployed DEF Init, VP!TypeOK, VP!CircuitId, Verifier!CircuitId, VP!Nullifier, VP!Record

LEMMA InitPool == Init => PoolSound
<1> SUFFICES ASSUME Init PROVE PoolSound
  OBVIOUS
<1>0. /\ Funds \in 0 .. Minted[Admin] /\ Minted \in [Account -> 0 .. MaxI128]
      /\ Minted[Admin] \in 0 .. MaxI128
  BY DeploymentAssumption, Deployed
<1>1. tokens \in [RP!Address -> Nat]
  <2>1. \A a \in Account \cup {Pool} :
            (CASE a = Pool -> Funds [] a = Admin -> Minted[a] - Funds
               [] OTHER -> Minted[a]) \in Nat
    BY <1>0, Deployed
  <2> QED BY <2>1 DEF Init, RP!Address
<1>2. balances \in [Account -> 0 .. MaxI128]
  BY <1>0, Deployed DEF Init
<1>3. totalDeposited \in RP!I128
  BY <1>0, Deployed DEF Init, RP!I128
<1>4. achClm \in [RP!ClaimKey -> Nat]
  BY DEF Init, RP!ClaimKey, RP!Address, Rewards!ClaimKey, Rewards!Address
<1>5. RP!TypeOK
  BY <1>1, <1>2, <1>3, <1>4, Deployed DEF Init, RP!TypeOK
<1>6. RP!ClaimedOnce
  BY DEF Init, RP!ClaimedOnce, RP!ClaimKey, RP!Address, Rewards!ClaimKey, Rewards!Address
<1> QED BY <1>5, <1>6 DEF PoolSound

LEMMA InitBadges == Init => BP!IInv
<1> SUFFICES ASSUME Init PROVE BP!IInv
  OBVIOUS
<1> USE Deployed DEF Init, BP!TypeId, BP!TokenId, Badges!TypeId, Badges!TokenId
<1>1. BP!TypeOK
  BY DEF BP!TypeOK
<1>2. BP!NoneBefore /\ BP!FreshTypes
  BY DEF BP!NoneBefore, BP!FreshTypes
<1>3. BP!OwnerIndexExact
  BY DEF BP!OwnerIndexExact, BP!tokens_of, BP!total_supply, BP!Held
<1> QED BY <1>1, <1>2, <1>3 DEF BP!IInv

LEMMA InitRegistry == Init => RegistrySound
<1> SUFFICES ASSUME Init PROVE RegistrySound
  OBVIOUS
<1>1. profile \in [Account -> GP!Profile \cup {NoProfile}]
  <2>1. \A p \in Players :
            [username |-> UsernameOf[p], reputation |-> 0, wins |-> 0,
             tournaments_played |-> 0, games |-> [g \in GameId |-> 0], active |-> TRUE]
                \in GP!Profile
    BY DeploymentAssumption, Deployed DEF GP!Profile, GP!I128
  <2> QED BY <2>1 DEF Init
<1>2. usernameOwner \in [Username -> Account \cup {Nobody}]
  <2>1. \A n \in Username : (\E p \in Players : UsernameOf[p] = n) =>
            (CHOOSE p \in Players : UsernameOf[p] = n) \in Account
    BY Deployed
  <2> QED BY <2>1 DEF Init
<1>3. playerCount \in 0 .. MaxU32
  <2>1. IsFiniteSet(Players)
    BY Deployed, FS_Subset
  <2> QED BY <2>1, FS_CardinalityType, DeploymentAssumption DEF Init
<1>4. GP!TypeOK
  BY <1>1, <1>2, <1>3, Deployed DEF Init, GP!TypeOK
<1>5. GP!RecordedOnce
  <2>1. \A p \in Account : /\ \A a \in Achievement : claimedRewards[p][a] = 0
                           /\ \A i \in Badges!TokenId : badgeList[p][i] = 0
    BY DEF Init
  <2>2. \A p \in Account : profile[p] # NoProfile =>
            \A g \in GameId : profile[p].games[g] = 0
    BY DEF Init
  <2> QED BY <2>1, <2>2 DEF GP!RecordedOnce, GP!Registered
<1> QED BY <1>4, <1>5 DEF RegistrySound

LEMMA InitSound == Init => Sound
<1> SUFFICES ASSUME Init PROVE Sound
  OBVIOUS
<1>1. OwnTypes /\ badgeAdmin = Admin /\ Journaled /\ Progress
  BY Deployed DEF Init, OwnTypes, Journaled, Progress
<1>2. Callees
  BY InitVerifier, InitPool, InitBadges, InitRegistry DEF Callees
<1> QED BY <1>1, <1>2 DEF Sound

LEMMA StepSound == Sound /\ [Next]_vars => Sound'
<1> SUFFICES ASSUME Sound, [Next]_vars PROVE Sound'
  OBVIOUS
<1>1. OwnTypes /\ badgeAdmin = Admin /\ Callees /\ Journaled /\ Progress
  BY DEF Sound
<1>2. badgeAdmin' = Admin
  BY <1>1, ContractSteps, StepAdmin
<1> QED BY <1>1, <1>2, StepOwnTypes, StepCallees, StepJournaled, StepProgress DEF Sound

(***************************************************************************)
(* Type correctness of the five contracts together, and of the claim and   *)
(* the journal, however claims, rollbacks and other transactions follow    *)
(* each other.                                                             *)
(***************************************************************************)
THEOREM TypeCorrect == Spec => []TypeOK
<1>1. Sound => TypeOK
  BY VerifierTypes, PoolTypes, BadgeTypes, RegistryTypes
     DEF Sound, OwnTypes, Callees, PoolSound, RegistrySound, BP!IInv, TypeOK
<1> QED BY <1>1, InitSound, StepSound, PTL DEF Spec

-----------------------------------------------------------------------------
(***************************************************************************)
(* A claim that is carried out met every precondition when it began, and   *)
(* leaves all it stands for behind in the five contracts: by then each     *)
(* part of Progress says so of one of them.                                *)
(***************************************************************************)
LEMMA EmitCommits == Sound /\ Emit => CommitStep
<1> SUFFICES ASSUME Sound, Emit PROVE CommitStep
  OBVIOUS
<1>1. /\ call \in Call /\ call # NoCall /\ call.step = "emit"
      /\ Entered /\ VerifierPart /\ PoolPart /\ BadgePart /\ RecordPart /\ ListPart
      /\ ProfilePart /\ (PayableThen <=> call.payable)
      /\ Callees /\ BJ!IInv
  BY DEF Sound, Emit, OwnTypes, Progress, Journaled
<1> DEFINE c == call.req
           i == call.token
<1>2. c.player \in Account /\ i \in Badges!TokenId
  BY <1>1, Requested DEF Call
<1>3. PayableThen
  BY <1>1 DEF Entered, VerifierPart, PoolPart, BadgePart, RecordPart, PayableThen
<1>4. /\ spent = journal.spent \cup {Digest[c.proof]}
      /\ totalDeposited = journal.totalDeposited - c.amount
      /\ tokens = Rewards!Transferred(journal.tokens, Pool, c.player, c.amount)
  BY <1>1 DEF VerifierPart, PoolPart
<1>5. PICK b : /\ b = [badge_type_id |-> c.badgeType, owner |-> c.player, alive |-> TRUE]
               /\ b.owner = c.player /\ b.alive = TRUE
  <2>1. LET b == [badge_type_id |-> c.badgeType, owner |-> c.player, alive |-> TRUE]
        IN  b.owner = c.player /\ b.alive = TRUE
    OBVIOUS
  <2> QED BY <2>1
<1>6. b # NoBadge
  <2>1. b \in Badges!Badge
    BY <1>1, <1>2, <1>5, Requested DEF Call, Badges!Badge
  <2> QED BY <2>1, NoValueAssumption
<1>7. token[i] = b
  <2>1. journal.token \in [Badges!TokenId -> BJ!Badge \cup {NoBadge}]
    BY <1>1 DEF BJ!IInv, BJ!TypeOK, BJ!TokenId, Badges!TokenId
  <2> QED BY <1>1, <1>2, <1>5, <2>1 DEF BadgePart
<1>8. ownerTokens[c.player][i] = 1
  <2>1. BP!Held(c.player, i)
    BY <1>5, <1>6, <1>7 DEF BP!Held
  <2> QED BY <1>1, <1>2, <2>1 DEF Callees, BP!IInv, BP!OwnerIndexExact, BP!tokens_of,
             BP!TokenId, Badges!TokenId
<1>9. badgeList[c.player][i] = 1
  <2>1. badgeList[c.player][i] > 0 /\ badgeList[c.player][i] \in Nat
    BY <1>1, <1>2 DEF ListPart, Callees, RegistrySound, GP!TypeOK
  <2>2. badgeList[c.player][i] <= 1
    BY <1>1, <1>2, <2>1 DEF Callees, RegistrySound, GP!RecordedOnce
  <2> QED BY <2>1, <2>2
<1>10. LET before == journal.profile[c.player].reputation IN
       /\ profile[c.player].reputation \in {before + call.delta, MaxI128}
       /\ profile[c.player].reputation <= before + call.delta
  BY <1>1 DEF ProfilePart
<1> QED BY <1>1, <1>3, <1>4, <1>5, <1>7, <1>8, <1>9, <1>10 DEF CommitStep

LEMMA StepCommits == Sound /\ [Next]_vars => CommitStep
<1> SUFFICES ASSUME Sound, [Next]_vars PROVE CommitStep
  OBVIOUS
<1>1. Configures \/ Calls \/ Rollback \/ Others \/ UNCHANGED vars => claimOk' = claimOk
  BY CallsSteady, OtherSteps DEF Configures, Rollback, Steady, vars
<1>2. \A c \in Requests : Begin(c) => claimOk' = claimOk
  BY DEF Begin
<1>3. claimOk' = claimOk => CommitStep
  BY DEF CommitStep
<1> QED BY <1>1, <1>2, <1>3, EmitCommits, StepIs

(***************************************************************************)
(* No claim is carried out in part, or against a check that failed: each   *)
(* claim_ok event finds all five contracts as the claim is to leave them.  *)
(***************************************************************************)
THEOREM ClaimsCommitWhole == Spec => CommitsWhole
<1>1. Sound /\ [Next]_vars => [CommitStep]_vars
  BY StepCommits
<1> QED BY <1>1, InitSound, StepSound, PTL DEF Spec, CommitsWhole

-----------------------------------------------------------------------------
(***************************************************************************)
(* What the chain has committed, in the terms of ClaimProtocol.            *)
(***************************************************************************)
Spent0 == Committed(spent, journal.spent)
Claimed0 == Committed(claimed, journal.claimed)
Token0 == Committed(token, journal.token)
Rewards0 == Committed(claimedRewards, journal.claimedRewards)

LEMMA SameCommitted ==
    ASSUME UNCHANGED <<Spent0, Claimed0, Token0, Rewards0, claimOk>>
    PROVE  UNCHANGED Protocol!vars
<1>1. Owners(Token0)' = Owners(Token0)
  BY DEF Owners
<1>2. ListedPairs(Rewards0)' = ListedPairs(Rewards0)
  BY DEF ListedPairs
<1> QED BY <1>1, <1>2 DEF Protocol!vars, Spent0, Claimed0, Token0, Rewards0

\* Between transactions the storage is committed, during one the journal.
LEMMA CommittedIs ==
    /\ call = NoCall => /\ Spent0 = spent /\ Claimed0 = claimed
                        /\ Token0 = token /\ Rewards0 = claimedRewards
    /\ call # NoCall => /\ Spent0 = journal.spent /\ Claimed0 = journal.claimed
                        /\ Token0 = journal.token
                        /\ Rewards0 = journal.claimedRewards
BY DEF Committed, Spent0, Claimed0, Token0, Rewards0

\* A call begins and ends within the transaction.
LEMMA CallsRun ==
    ASSUME Sound, Calls
    PROVE  call # NoCall /\ call' # NoCall /\ UNCHANGED <<claimOk, journal>>
<1>1. ASSUME NEW s, NEW t, MovesOn(s, t)
      PROVE  call # NoCall /\ call' # NoCall /\ UNCHANGED <<claimOk, journal>>
  BY <1>1 DEF MovesOn
<1>2. BP!TypeOK /\ OwnTypes
  BY DEF Sound, Callees, BP!IInv
<1> QED BY <1>1, <1>2, GoesOn, MintGoesOn
        DEF Calls, VerifyProof, ReleaseReward, RecordClaim, RecordBadge,
            AwardReputation, Step

\* A claim is nothing to be seen until it ends, nor is one rolled back.
LEMMA InvisibleSteps ==
    ASSUME Sound, [Next]_vars
    PROVE  Emit \/ Others \/ UNCHANGED Protocol!vars
<1>1. ASSUME NEW c \in Requests, Begin(c) PROVE UNCHANGED Protocol!vars
  <2>1. Copied /\ call = NoCall
    BY <1>1 DEF Begin, Touched, Copied
  <2>2. call' # NoCall
    BY <1>1, BeginTypes DEF Sound
  <2>3. UNCHANGED <<Spent0, Claimed0, Token0, Rewards0, claimOk>>
    BY <1>1, <2>1, <2>2 DEF Begin, Copied, Committed, Spent0, Claimed0, Token0, Rewards0
  <2> QED BY <2>3, SameCommitted
<1>2. ASSUME Calls PROVE UNCHANGED Protocol!vars
  <2>1. call # NoCall /\ call' # NoCall /\ UNCHANGED <<claimOk, journal>>
    BY <1>2, CallsRun
  <2>2. UNCHANGED <<Spent0, Claimed0, Token0, Rewards0, claimOk>>
    BY <2>1 DEF Committed, Spent0, Claimed0, Token0, Rewards0
  <2> QED BY <2>2, SameCommitted
<1>3. ASSUME Rollback PROVE UNCHANGED Protocol!vars
  <2>1. UNCHANGED <<Spent0, Claimed0, Token0, Rewards0, claimOk>>
    BY <1>3 DEF Rollback, Committed, Spent0, Claimed0, Token0, Rewards0
  <2> QED BY <2>1, SameCommitted
<1>4. ASSUME Configures \/ UNCHANGED vars PROVE UNCHANGED Protocol!vars
  <2>1. UNCHANGED <<Spent0, Claimed0, Token0, Rewards0, claimOk>>
    BY <1>4 DEF Configures, vars, zkVars, poolVars, badgeVars, regVars, Committed,
       Spent0, Claimed0, Token0, Rewards0
  <2> QED BY <2>1, SameCommitted
<1> QED BY <1>1, <1>2, <1>3, <1>4, StepIs

(***************************************************************************)
(* What a single transaction with one of the contracts adds.               *)
(***************************************************************************)
SpendMove == \E n \in Verifier!Nullifier : n \notin spent /\ spent' = spent \cup {n}

PayMove ==
    \E p \in Rewards!Address, a \in Achievement :
        <<p, a>> \notin claimed /\ claimed' = claimed \cup {<<p, a>>}

IssueMove ==
    \E i \in Badges!TokenId, p \in Account \cup {Orchestrator} :
        /\ \A q : <<i, q>> \notin Owners(token)
        /\ Owners(token)' = Owners(token) \cup {<<i, p>>}

RecordMove ==
    \E p \in Account, a \in Achievement :
        ListedPairs(claimedRewards)' = ListedPairs(claimedRewards) \cup {<<p, a>>}

LEMMA SpendMoves == VP!Next => SpendMove \/ spent' = spent
<1> SUFFICES ASSUME VP!Next PROVE SpendMove \/ spent' = spent
  OBVIOUS
<1>1. ASSUME NEW s \in Account, NEW u \in Account, NEW c \in VP!CircuitId,
             NEW q \in Proof, NEW i \in Inputs, VP!Verify({s}, u, c, q, i)
      PROVE  SpendMove
  <2>1. Digest[q] \in Verifier!Nullifier
    BY DEF Verifier!Nullifier
  <2>2. Digest[q] \notin spent /\ spent' = spent \cup {Digest[q]}
    BY <1>1 DEF VP!Verify, VP!Unspent, VP!is_nullifier_used, VP!Spend
  <2> QED BY <2>1, <2>2 DEF SpendMove
<1>2. ASSUME NEW s \in Account,
             \/ \E a \in Account : VP!Initialize({s}, a)
             \/ \E vkLen \in 0 .. 1 : VP!RegisterCircuit({s}, vkLen)
             \/ \E c \in VP!CircuitId : VP!DeactivateCircuit({s}, c)
      PROVE  spent' = spent
  BY <1>2 DEF VP!Initialize, VP!RegisterCircuit, VP!DeactivateCircuit
<1> QED BY <1>1, <1>2 DEF VP!Next

LEMMA PayMoves == RP!Next => PayMove \/ claimed' = claimed
<1> SUFFICES ASSUME RP!Next PROVE PayMove \/ claimed' = claimed
  OBVIOUS
<1>1. ASSUME NEW s \in Account, NEW amount \in RP!I128, NEW to \in RP!Address,
             NEW id \in Achievement, RP!ClaimAchievementReward({s}, to, id, amount)
      PROVE  PayMove
  BY <1>1 DEF RP!ClaimAchievementReward, RP!MarkClaimed, PayMove, RP!Address,
     Rewards!Address
<1>2. ASSUME NEW s \in Account, NEW amount \in RP!I128,
             \/ \E a \in Account : RP!Initialize({s}, a)
             \/ \E from \in Account :
                    RP!Deposit({s}, from, amount) \/ RP!Withdraw({s}, from, amount)
             \/ \E id \in Achievement : RP!SetAchievementReward({s}, id, amount)
             \/ \E to \in RP!Address :
                    RP!Distribute({s}, to, amount) \/ RP!TokenTransfer(s, to, amount)
      PROVE  claimed' = claimed
  BY <1>2 DEF RP!Initialize, RP!Deposit, RP!Withdraw, RP!SetAchievementReward,
     RP!Distribute, RP!TokenTransfer
<1> QED BY <1>1, <1>2 DEF RP!Next

\* A new badge adds its one pair to the owners, a burned one stays in them.
LEMMA OwnersGrow ==
    ASSUME NEW T, NEW f, NEW g, NEW k \in T, DOMAIN f = T, DOMAIN g = T,
           f[k] = NoBadge, g[k] # NoBadge, \A i \in T \ {k} : g[i] = f[i]
    PROVE  /\ \A q : <<k, q>> \notin Owners(f)
           /\ Owners(g) = Owners(f) \cup {<<k, g[k].owner>>}
BY DEF Owners

LEMMA OwnersStay ==
    ASSUME NEW T, NEW f, NEW g, NEW k \in T, DOMAIN f = T, DOMAIN g = T,
           f[k] # NoBadge, g[k] # NoBadge, g[k].owner = f[k].owner,
           \A i \in T \ {k} : g[i] = f[i]
    PROVE  Owners(g) = Owners(f)
<1>1. \A i \in T : /\ g[i] # NoBadge <=> f[i] # NoBadge
                   /\ f[i] # NoBadge => g[i].owner = f[i].owner
  OBVIOUS
<1> QED BY <1>1 DEF Owners

LEMMA IssueMoves == BP!IInv /\ BP!Next => IssueMove \/ Owners(token)' = Owners(token)
<1> SUFFICES ASSUME BP!IInv, BP!Next
             PROVE  IssueMove \/ Owners(token)' = Owners(token)
  OBVIOUS
<1>1. /\ token \in [Badges!TokenId -> BP!Badge \cup {NoBadge}]
      /\ \A i \in Badges!TokenId : token[i] # NoBadge <=> i < nextTokenId
      /\ nextTokenId \in Nat /\ BP!TypeOK
  BY Deployed DEF BP!IInv, BP!TypeOK, BP!OwnerIndexExact, BP!total_supply, BP!TokenId,
     Badges!TokenId
<1>a. NoBadge \notin BP!Badge
  BY NoValueAssumption DEF Badges!Badge, BP!Badge, Badges!TypeId, BP!TypeId
<1>b. Account \cup {Orchestrator} \subseteq Account \cup {Orchestrator}
  OBVIOUS
<1>2. ASSUME NEW s \in Account \cup {Orchestrator}, NEW caller \in Account \cup {Orchestrator},
             NEW recipient \in Account \cup {Orchestrator}, NEW t \in BP!TypeId,
             BP!Mint({s}, caller, recipient, t)
      PROVE  IssueMove
  <2>1. BP!MintWrites(recipient, t)
    BY <1>1, <1>2, <1>a, <1>b, BP!MintEffect, Deployed
  <2>2. PICK f, g, k : f = token /\ g = token' /\ k = nextTokenId
    OBVIOUS
  <2>3. /\ k \in Badges!TokenId /\ DOMAIN f = Badges!TokenId /\ DOMAIN g = Badges!TokenId
        /\ f[k] = NoBadge /\ g[k] # NoBadge /\ g[k].owner = recipient
        /\ \A i \in Badges!TokenId \ {k} : g[i] = f[i]
    BY <1>1, <2>1, <2>2 DEF BP!MintWrites, BP!TokenId, Badges!TokenId
  <2>4. /\ \A q : <<k, q>> \notin Owners(f)
        /\ Owners(g) = Owners(f) \cup {<<k, recipient>>}
    BY <2>3, OwnersGrow
  <2>5. Owners(token)' = Owners(g) /\ Owners(token) = Owners(f)
    BY <2>2 DEF Owners
  <2> QED BY <2>3, <2>4, <2>5 DEF IssueMove
<1>3. ASSUME NEW s \in Account \cup {Orchestrator}, NEW owner \in Account \cup {Orchestrator},
             NEW j \in BP!TokenId, BP!Burn({s}, owner, j)
      PROVE  Owners(token)' = Owners(token)
  <2>1. BP!BurnWrites(owner, j)
    BY <1>1, <1>3, <1>a, <1>b, BP!BurnEffect, Deployed
  <2>2. PICK f, g : f = token /\ g = token'
    OBVIOUS
  <2>3. j \in Badges!TokenId /\ f[j] # NoBadge /\ f[j] \in BP!Badge
    BY <1>1, <1>3, <2>2 DEF BP!Burn, BP!TokenId, Badges!TokenId
  <2>4. /\ DOMAIN f = Badges!TokenId /\ DOMAIN g = Badges!TokenId
        /\ g[j] # NoBadge /\ g[j] = BP!Burned(f[j])
        /\ \A i \in Badges!TokenId \ {j} : g[i] = f[i]
    BY <1>1, <2>1, <2>2 DEF BP!BurnWrites, BP!TokenId, Badges!TokenId
  <2>5. g[j].owner = f[j].owner
    BY <2>3, <2>4 DEF BP!Burned, BP!Badge
  <2>6. Owners(g) = Owners(f)
    BY <2>3, <2>4, <2>5, OwnersStay
  <2> QED BY <2>2, <2>6 DEF Owners
<1>4. ASSUME NEW s \in Account \cup {Orchestrator},
             \/ \E a \in Account \cup {Orchestrator} :
                    BP!Initialize({s}, a) \/ BP!AddMinter({s}, a)
                        \/ BP!RemoveMinter({s}, a)
             \/ BP!CreateBadgeType({s})
             \/ \E t \in BP!TypeId : BP!DeactivateBadgeType({s}, t)
      PROVE  Owners(token)' = Owners(token)
  <2>1. token' = token
    BY <1>4 DEF BP!Initialize, BP!AddMinter, BP!RemoveMinter, BP!CreateBadgeType,
       BP!DeactivateBadgeType
  <2> QED BY <2>1 DEF Owners
<1> QED BY <1>2, <1>3, <1>4 DEF BP!Next

LEMMA RecordMoves ==
    GP!TypeOK /\ GP!Next
        => RecordMove \/ ListedPairs(claimedRewards)' = ListedPairs(claimedRewards)
<1> SUFFICES ASSUME GP!TypeOK, GP!Next
             PROVE  RecordMove \/ ListedPairs(claimedRewards)' = ListedPairs(claimedRewards)
  OBVIOUS
<1>1. ASSUME NEW s \in Account, NEW p \in Account, NEW a \in Achievement,
             GP!AddClaimedReward({s}, p, a)
      PROVE  RecordMove
  <2>1. PICK f, g : f = claimedRewards /\ g = claimedRewards'
    OBVIOUS
  <2>2. f \in [Account -> [Achievement -> Nat]]
    BY <2>1 DEF GP!TypeOK
  <2>3. g = [f EXCEPT ![p] = Registry!Pushed(@, a)]
    BY <1>1, <2>1 DEF GP!AddClaimedReward, GP!Pushed, Registry!Pushed
  <2>4. ListedPairs([f EXCEPT ![p] = Registry!Pushed(@, a)])
            = ListedPairs(f) \cup {<<p, a>>}
    BY <2>2, ListedGrow
  <2>5. /\ ListedPairs(claimedRewards)' = ListedPairs(g)
        /\ ListedPairs(claimedRewards) = ListedPairs(f)
    BY <2>1 DEF ListedPairs
  <2>6. ListedPairs(claimedRewards)' = ListedPairs(claimedRewards) \cup {<<p, a>>}
    BY <2>3, <2>4, <2>5
  <2> QED BY <2>6 DEF RecordMove
<1>2. ASSUME claimedRewards' = claimedRewards
      PROVE  ListedPairs(claimedRewards)' = ListedPairs(claimedRewards)
  BY <1>2 DEF ListedPairs
<1>3. ASSUME NEW s \in Account, NEW p \in Account,
             \/ GP!Initialize({s}, p)
             \/ \E name \in Username : GP!RegisterPlayer({s}, p, name)
             \/ GP!RecordWin({s}, p)
             \/ GP!RecordParticipation({s}, p)
             \/ \E delta \in GP!I128 : GP!AddReputation({s}, p, delta)
             \/ \E g \in GameId : GP!AddGame({s}, p, g)
             \/ \E i \in Badges!TokenId :
                    GP!AddBadge({s}, p, i) \/ GP!RemoveBadge({s}, p, i)
             \/ \E active \in BOOLEAN : GP!SetActive({s}, p, active)
      PROVE  claimedRewards' = claimedRewards
  BY <1>3 DEF GP!Initialize, GP!RegisterPlayer, GP!RecordWin, GP!RecordParticipation,
     GP!AddReputation, GP!AddGame, GP!AddBadge, GP!RemoveBadge, GP!SetActive,
     GP!UpdateActive
<1> QED BY <1>1, <1>2, <1>3 DEF GP!Next

\* Between transactions ClaimProtocol sees the storage itself.
LEMMA SeenBetween ==
    ASSUME call = NoCall, call' = NoCall
    PROVE  /\ Committed(spent, journal.spent) = spent
           /\ Committed(spent, journal.spent)' = spent'
           /\ Committed(claimed, journal.claimed) = claimed
           /\ Committed(claimed, journal.claimed)' = claimed'
           /\ Owners(Committed(token, journal.token)) = Owners(token)
           /\ Owners(Committed(token, journal.token))' = Owners(token)'
           /\ ListedPairs(Committed(claimedRewards, journal.claimedRewards))
                  = ListedPairs(claimedRewards)
           /\ ListedPairs(Committed(claimedRewards, journal.claimedRewards))'
                  = ListedPairs(claimedRewards)'
BY DEF Committed, Owners, ListedPairs

LEMMA OthersProtocol ==
    ASSUME Sound, Others
    PROVE  [Protocol!Next]_(Protocol!vars)
<1>1. call = NoCall /\ call' = NoCall /\ claimOk' = claimOk
  BY DEF Others, Other
<1>2. BP!IInv /\ GP!TypeOK
  BY DEF Sound, Callees, RegistrySound
<1> USE <1>1, SeenBetween
<1>3. ASSUME UNCHANGED <<claimed, token, claimedRewards>>, SpendMove \/ spent' = spent
      PROVE  [Protocol!Next]_(Protocol!vars)
  <2>1. /\ Owners(token)' = Owners(token)
        /\ ListedPairs(claimedRewards)' = ListedPairs(claimedRewards)
    BY <1>3 DEF Owners, ListedPairs
  <2>2. CASE spent' = spent
    BY <1>3, <2>1, <2>2 DEF Protocol!vars
  <2>3. CASE SpendMove
    BY <1>3, <2>1, <2>3 DEF SpendMove, Protocol!Next, Protocol!SpendProof
  <2> QED BY <1>3, <2>2, <2>3
<1>4. ASSUME UNCHANGED <<spent, token, claimedRewards>>, PayMove \/ claimed' = claimed
      PROVE  [Protocol!Next]_(Protocol!vars)
  <2>1. /\ Owners(token)' = Owners(token)
        /\ ListedPairs(claimedRewards)' = ListedPairs(claimedRewards)
    BY <1>4 DEF Owners, ListedPairs
  <2>2. CASE claimed' = claimed
    BY <1>4, <2>1, <2>2 DEF Protocol!vars
  <2>3. CASE PayMove
    BY <1>4, <2>1, <2>3 DEF PayMove, Protocol!Next, Protocol!PayReward
  <2> QED BY <1>4, <2>2, <2>3
<1>5. ASSUME UNCHANGED <<spent, claimed, claimedRewards>>,
             IssueMove \/ Owners(token)' = Owners(token)
      PROVE  [Protocol!Next]_(Protocol!vars)
  <2>1. ListedPairs(claimedRewards)' = ListedPairs(claimedRewards)
    BY <1>5 DEF ListedPairs
  <2>2. CASE Owners(token)' = Owners(token)
    BY <1>5, <2>1, <2>2 DEF Protocol!vars
  <2>3. CASE IssueMove
    BY <1>5, <2>1, <2>3 DEF IssueMove, Protocol!Next, Protocol!IssueBadge,
       Rewards!Address
  <2> QED BY <1>5, <2>2, <2>3
<1>6. ASSUME UNCHANGED <<spent, claimed, token>>,
             RecordMove \/ ListedPairs(claimedRewards)' = ListedPairs(claimedRewards)
      PROVE  [Protocol!Next]_(Protocol!vars)
  <2>1. Owners(token)' = Owners(token)
    BY <1>6 DEF Owners
  <2>2. CASE ListedPairs(claimedRewards)' = ListedPairs(claimedRewards)
    BY <1>6, <2>1, <2>2 DEF Protocol!vars
  <2>3. CASE RecordMove
    BY <1>6, <2>1, <2>3 DEF RecordMove, Protocol!Next, Protocol!Record, Rewards!Address
  <2> QED BY <1>6, <2>2, <2>3
<1>7. \/ UNCHANGED <<claimed, token, claimedRewards>> /\ Verifier!Next
      \/ UNCHANGED <<spent, token, claimedRewards>> /\ Rewards!Next
      \/ UNCHANGED <<spent, claimed, claimedRewards>> /\ Badges!Next
      \/ UNCHANGED <<spent, claimed, token>> /\ Registry!Next
      \/ UNCHANGED <<spent, claimed, token, claimedRewards>>
  BY DEF Others, Other, zkVars, poolVars, badgeVars, regVars
<1> QED BY <1>2, <1>3, <1>4, <1>5, <1>6, <1>7, VerifierStep, PoolStep, BadgeStep,
           RegistryStep, SpendMoves, PayMoves, IssueMoves, RecordMoves

(***************************************************************************)
(* The last step of a claim is the claim of ClaimProtocol.                 *)
(***************************************************************************)
LEMMA EmitProtocol ==
    ASSUME Sound, Emit
    PROVE  Protocol!Claim(call.req.player, Digest[call.req.proof], call.req.achievement,
                          call.token, call.req.amount)
<1>1. /\ call \in Call /\ call # NoCall /\ call' = NoCall /\ call.step = "emit"
      /\ Entered /\ VerifierPart /\ PoolPart /\ BadgePart /\ RecordPart /\ BJ!IInv
      /\ UNCHANGED <<spent, claimed, token, claimedRewards>>
  BY DEF Sound, Emit, OwnTypes, Progress, Journaled, zkVars, poolVars, badgeVars, regVars
<1> DEFINE c == call.req
           i == call.token
<1>2. /\ c.player \in Account /\ c.badgeType \in Badges!TypeId
      /\ i \in Badges!TokenId /\ i = journal.nextTokenId
  BY <1>1, Requested DEF Call, BadgePart
<1>3. Protocol!SpendProof(Digest[c.proof])
  BY <1>1 DEF VerifierPart, Protocol!SpendProof, Committed
<1>4. Protocol!PayReward(c.player, c.achievement)
  BY <1>1 DEF PoolPart, Protocol!PayReward, Committed
<1>5. Protocol!IssueBadge(i, c.player)
  <2>1. PICK f, g, p, b :
            /\ f = journal.token /\ g = token /\ p = c.player
            /\ b = [badge_type_id |-> c.badgeType, owner |-> c.player, alive |-> TRUE]
    OBVIOUS
  <2>2. b \in Badges!Badge /\ b.owner = p
    BY <1>2, <2>1 DEF Badges!Badge
  <2>3. b # NoBadge
    BY <2>2, NoValueAssumption
  <2>4. DOMAIN f = Badges!TokenId /\ f[i] = NoBadge
    BY <1>1, <1>2, <2>1 DEF BJ!IInv, BJ!TypeOK, BJ!OwnerIndexExact, BJ!total_supply,
       BJ!TokenId, Badges!TokenId
  <2>5. g = [f EXCEPT ![i] = b]
    BY <1>1, <2>1 DEF BadgePart
  <2>6. PICK k : k = i
    OBVIOUS
  <2>7. /\ k \in Badges!TokenId /\ DOMAIN f = Badges!TokenId /\ DOMAIN g = Badges!TokenId
        /\ f[k] = NoBadge /\ g[k] # NoBadge /\ g[k].owner = p
        /\ \A j \in Badges!TokenId \ {k} : g[j] = f[j]
    BY <1>2, <2>2, <2>3, <2>4, <2>5, <2>6
  <2>8. /\ \A q : <<k, q>> \notin Owners(f)
        /\ Owners(g) = Owners(f) \cup {<<k, p>>}
    BY <2>7, OwnersGrow
  <2>9. /\ Owners(Committed(token, journal.token)) = Owners(f)
        /\ Owners(Committed(token, journal.token))' = Owners(g)
    BY <1>1, <2>1 DEF Committed, Owners
  <2> QED BY <2>1, <2>6, <2>8, <2>9 DEF Protocol!IssueBadge
<1>6. Protocol!Record(c.player, c.achievement)
  <2>1. /\ ListedPairs(Committed(claimedRewards, journal.claimedRewards))
               = ListedPairs(journal.claimedRewards)
        /\ ListedPairs(Committed(claimedRewards, journal.claimedRewards))'
               = ListedPairs(claimedRewards)
    BY <1>1 DEF Committed, ListedPairs
  <2> QED BY <1>1, <2>1 DEF RecordPart, Protocol!Record
<1> QED BY <1>3, <1>4, <1>5, <1>6 DEF Emit, Protocol!Claim

LEMMA StepProtocol == Sound /\ [Next]_vars => [Protocol!Next]_(Protocol!vars)
<1> SUFFICES ASSUME Sound, [Next]_vars PROVE [Protocol!Next]_(Protocol!vars)
  OBVIOUS
<1>1. ASSUME Emit PROVE Protocol!Next
  <2>1. call \in Call /\ Entered
    BY <1>1 DEF Sound, Emit, OwnTypes, Progress
  <2>2. /\ call.req.player \in Account /\ call.req.achievement \in Achievement
        /\ Digest[call.req.proof] \in Verifier!Nullifier
        /\ call.token \in Badges!TokenId /\ call.req.amount \in 1 .. MaxI128
    BY <2>1, Requested, Deployed DEF Call, Entered, Verifier!Nullifier
  <2> QED BY <1>1, <2>2, EmitProtocol DEF Protocol!Next, Rewards!Address
<1> QED BY <1>1, OthersProtocol, InvisibleSteps

LEMMA InitProtocol == Init => Protocol!Init
<1> SUFFICES ASSUME Init PROVE Protocol!Init
  OBVIOUS
<1>1. Committed(spent, journal.spent) = {} /\ Committed(claimed, journal.claimed) = {}
  BY DEF Init, Committed
<1>2. Owners(Committed(token, journal.token)) = {}
  BY DEF Init, Committed, Owners
<1>3. ListedPairs(Committed(claimedRewards, journal.claimedRewards)) = {}
  BY DEF Init, Committed, ListedPairs
<1> QED BY <1>1, <1>2, <1>3 DEF Init, Protocol!Init

(***************************************************************************)
(* claim() implements ClaimProtocol: seen from outside a transaction its   *)
(* six calls and the event are one indivisible step, and a claim that is   *)
(* rolled back is none.                                                    *)
(***************************************************************************)
THEOREM ClaimRefines == Spec => ClaimIsAtomic
<1> QED BY InitSound, StepSound, InitProtocol, StepProtocol, PTL
        DEF Spec, ClaimIsAtomic, Protocol!Spec

-----------------------------------------------------------------------------
(***************************************************************************)
(* What stands behind the events L, given the nullifiers S spent, the      *)
(* rewards R paid, the badges I issued and the achievements C recorded.    *)
(***************************************************************************)
PairOf(e) == <<e.player, e.achievement>>

Backing(S, R, I, C, L) ==
    /\ IsFiniteSet(S) /\ Len(L) <= Cardinality(S)
    /\ \A n \in DOMAIN L : /\ PairOf(L[n]) \in R /\ PairOf(L[n]) \in C
                           /\ <<L[n].token, L[n].player>> \in I

Distinct(L) ==
    \A m, n \in DOMAIN L : m # n =>
        PairOf(L[m]) # PairOf(L[n]) /\ L[m].token # L[n].token

\* No other transaction takes any of it away.
LEMMA BackingGrows ==
    ASSUME NEW S, NEW S2, NEW R, NEW R2, NEW I, NEW I2, NEW C, NEW C2, NEW L,
           L \in Seq(Receipt), Backing(S, R, I, C, L), S2 = S \/ \E n : S2 = S \cup {n},
           R \subseteq R2, I \subseteq I2, C \subseteq C2
    PROVE  Backing(S2, R2, I2, C2, L)
<1>1. IsFiniteSet(S) /\ Len(L) <= Cardinality(S) /\ Len(L) \in Nat
      /\ Cardinality(S) \in Nat
  BY FS_CardinalityType DEF Backing
<1>2. IsFiniteSet(S2) /\ Len(L) <= Cardinality(S2)
  <2>1. ASSUME NEW n, S2 = S \cup {n}
        PROVE  IsFiniteSet(S2) /\ Len(L) <= Cardinality(S2)
    <3>1. /\ IsFiniteSet(S \cup {n})
          /\ Cardinality(S \cup {n}) = IF n \in S THEN Cardinality(S)
                                                  ELSE Cardinality(S) + 1
      BY <1>1, FS_AddElement
    <3> QED BY <1>1, <2>1, <3>1
  <2> QED BY <1>1, <2>1
<1> QED BY <1>2 DEF Backing

\* A claim has its own: a pair and a badge no earlier event can have.
LEMMA BackingLogs ==
    ASSUME NEW S, NEW R, NEW I, NEW C, NEW L, NEW k, NEW e, NEW C2,
           L \in Seq(Receipt), Backing(S, R, I, C, L), Distinct(L),
           e \in Receipt, k \notin S, PairOf(e) \notin R,
           \A q \in Account : <<e.token, q>> \notin I,
           C2 = C \cup {PairOf(e)}
    PROVE  /\ Backing(S \cup {k}, R \cup {PairOf(e)}, I \cup {<<e.token, e.player>>},
                      C2, Append(L, e))
           /\ Distinct(Append(L, e))
<1> DEFINE M == Append(L, e)
<1>1. /\ Len(L) \in Nat /\ DOMAIN L = 1 .. Len(L)
      /\ Len(M) = Len(L) + 1 /\ DOMAIN M = 1 .. Len(L) + 1
      /\ M[Len(L) + 1] = e /\ \A n \in 1 .. Len(L) : M[n] = L[n] /\ L[n] \in Receipt
  OBVIOUS
<1> HIDE DEF M
<1>2. IsFiniteSet(S \cup {k}) /\ Cardinality(S \cup {k}) = Cardinality(S) + 1
      /\ Cardinality(S) \in Nat /\ Len(L) <= Cardinality(S)
  BY FS_AddElement, FS_CardinalityType DEF Backing
<1>3. \A n \in DOMAIN L : /\ PairOf(L[n]) \in R /\ PairOf(L[n]) \in C
                          /\ <<L[n].token, L[n].player>> \in I
                          /\ L[n].player \in Account
  BY <1>1 DEF Backing, Receipt
<1>4. \A n \in DOMAIN M :
          \/ n \in DOMAIN L /\ M[n] = L[n]
          \/ n = Len(L) + 1 /\ M[n] = e
  BY <1>1
<1>5. Backing(S \cup {k}, R \cup {PairOf(e)}, I \cup {<<e.token, e.player>>}, C2, M)
  BY <1>1, <1>2, <1>3, <1>4 DEF Backing
<1>6. Distinct(M)
  <2>1. \A n \in DOMAIN L : PairOf(L[n]) # PairOf(e) /\ L[n].token # e.token
    BY <1>3
  <2>2. SUFFICES ASSUME NEW m \in DOMAIN M, NEW n \in DOMAIN M, m # n
                 PROVE  PairOf(M[m]) # PairOf(M[n]) /\ M[m].token # M[n].token
    BY DEF Distinct
  <2> QED BY <1>4, <2>1, <2>2 DEF Distinct
<1> QED BY <1>5, <1>6 DEF M

Issued0 == Owners(Committed(token, journal.token))
Recorded0 == ListedPairs(Committed(claimedRewards, journal.claimedRewards))

Receipts ==
    Backing(Spent0, Claimed0, Issued0, Recorded0, claimOk) /\ Distinct(claimOk)

LEMMA StepReceipts == Sound /\ Receipts /\ [Next]_vars => Receipts'
<1> SUFFICES ASSUME Sound, Receipts, [Next]_vars PROVE Receipts'
  OBVIOUS
<1>1. PICK S, S2, R, R2, I, I2, C, C2, L, L2 :
          /\ S = Spent0 /\ S2 = Spent0' /\ R = Claimed0 /\ R2 = Claimed0'
          /\ I = Issued0 /\ I2 = Issued0' /\ C = Recorded0 /\ C2 = Recorded0'
          /\ L = claimOk /\ L2 = claimOk'
  OBVIOUS
<1>2. Backing(S, R, I, C, L) /\ Distinct(L) /\ L \in Seq(Receipt)
  BY <1>1 DEF Receipts, Sound, OwnTypes
<1>3. Backing(S2, R2, I2, C2, L2) /\ Distinct(L2)
  <2>1. CASE Emit
    <3> DEFINE c == call.req
               n == Digest[c.proof]
               e == [player |-> c.player, achievement |-> c.achievement,
                     token |-> call.token, amount |-> c.amount]
    <3>1. PICK k, a, p, i, x : k = n /\ a = c.achievement /\ p = c.player
                                   /\ i = call.token /\ x = e
      OBVIOUS
    <3>2. /\ x.player = p /\ x.achievement = a /\ x.token = i /\ PairOf(x) = <<p, a>>
      BY <3>1 DEF PairOf
    <3>3. x \in Receipt
      <4>1. call \in Call /\ Entered
        BY <2>1 DEF Sound, Emit, OwnTypes, Progress
      <4> QED BY <3>1, <4>1, Requested, Deployed DEF Call, Entered, Receipt
    <3>4. /\ Protocol!SpendProof(n) /\ Protocol!PayReward(c.player, c.achievement)
          /\ Protocol!IssueBadge(call.token, c.player)
          /\ Protocol!Record(c.player, c.achievement) /\ claimOk' = Append(claimOk, e)
      BY <2>1, EmitProtocol DEF Protocol!Claim
    <3>5. /\ k \notin S /\ S2 = S \cup {k}
          /\ <<p, a>> \notin R /\ R2 = R \cup {<<p, a>>}
          /\ \A q \in Account : <<i, q>> \notin I
          /\ I2 = I \cup {<<i, p>>} /\ C2 = C \cup {<<p, a>>} /\ L2 = Append(L, x)
      BY <1>1, <3>1, <3>4 DEF Protocol!SpendProof, Protocol!PayReward,
         Protocol!IssueBadge, Protocol!Record, Spent0, Claimed0, Issued0, Recorded0,
         Rewards!Address
    <3> QED BY <1>2, <3>2, <3>3, <3>5, BackingLogs
  <2>2. CASE Others \/ UNCHANGED Protocol!vars
    <3>1. L2 = L
      BY <1>1, <2>2, OtherSteps DEF Protocol!vars
    <3>2. /\ S2 = S \/ \E n : S2 = S \cup {n}
          /\ R \subseteq R2 /\ I \subseteq I2 /\ C \subseteq C2
      <4>1. CASE UNCHANGED Protocol!vars
        BY <1>1, <4>1 DEF Protocol!vars, Spent0, Claimed0, Issued0, Recorded0
      <4>2. CASE Others /\ Protocol!Next
        BY <1>1, <4>2 DEF Protocol!Next, Protocol!Claim, Protocol!SpendProof,
           Protocol!PayReward, Protocol!IssueBadge, Protocol!Record, Spent0, Claimed0,
           Issued0, Recorded0
      <4>3. Others => Protocol!Next \/ UNCHANGED Protocol!vars
        BY OthersProtocol
      <4> QED BY <2>2, <4>1, <4>2, <4>3
    <3>3. Backing(S2, R2, I2, C2, L)
      BY <1>2, <3>2, BackingGrows
    <3> QED BY <1>2, <3>1, <3>3
  <2> QED BY <2>1, <2>2, InvisibleSteps
<1> QED BY <1>1, <1>3 DEF Receipts, Backing, Distinct, PairOf

LEMMA InitReceipts == Init => Receipts
<1> SUFFICES ASSUME Init PROVE Receipts
  OBVIOUS
<1>1. Spent0 = {} /\ claimOk = <<>>
  BY DEF Init, Spent0, Committed
<1>2. IsFiniteSet({}) /\ Cardinality({}) = 0
  BY FS_EmptySet
<1>3. Len(claimOk) = 0 /\ DOMAIN claimOk = {}
  BY <1>1
<1> QED BY <1>1, <1>2, <1>3 DEF Receipts, Backing, Distinct

(***************************************************************************)
(* The events' backing is committed, so it is there while a claim runs as  *)
(* well: no call takes a reward, a badge's owner or an achievement back.   *)
(***************************************************************************)
IInv == Sound /\ Receipts

LEMMA InitInv == Init => IInv
BY InitSound, InitReceipts DEF IInv

LEMMA StepInv == IInv /\ [Next]_vars => IInv'
BY StepSound, StepReceipts DEF IInv

(***************************************************************************)
(* Nobody is rewarded twice for one achievement and no two events share a  *)
(* badge.                                                                  *)
(***************************************************************************)
THEOREM ClaimsUnique == Spec => []ClaimedAtMostOnce
<1>1. IInv => ClaimedAtMostOnce
  BY DEF IInv, Receipts, Distinct, PairOf, ClaimedAtMostOnce
<1> QED BY <1>1, InitInv, StepInv, PTL DEF Spec

\* What a claim in progress has written comes on top of what is committed.
LEMMA NothingLost ==
    ASSUME Sound
    PROVE  /\ spent = Spent0 \/ \E n : spent = Spent0 \cup {n}
           /\ Claimed0 \subseteq claimed /\ Issued0 \subseteq Owners(token)
           /\ Recorded0 \subseteq ListedPairs(claimedRewards)
<1>1. CASE call = NoCall
  BY <1>1 DEF Spent0, Claimed0, Issued0, Recorded0, Committed
<1>2. CASE call # NoCall
  <2>1. /\ call \in Call /\ VerifierPart /\ PoolPart /\ BadgePart /\ RecordPart
        /\ BJ!IInv
    BY <1>2 DEF Sound, OwnTypes, Progress, Journaled
  <2>2. spent = Spent0 \/ \E n : spent = Spent0 \cup {n}
    BY <1>2, <2>1 DEF VerifierPart, Spent0, Committed
  <2>3. Claimed0 \subseteq claimed
    BY <1>2, <2>1 DEF PoolPart, Claimed0, Committed
  <2>4. Recorded0 \subseteq ListedPairs(claimedRewards)
    BY <1>2, <2>1 DEF RecordPart, Recorded0, Committed
  <2>5. Issued0 \subseteq Owners(token)
    <3>1. PICK f, g : f = journal.token /\ g = token
      OBVIOUS
    <3>2. DOMAIN f = Badges!TokenId
      BY <2>1, <3>1 DEF BJ!IInv, BJ!TypeOK, BJ!TokenId, Badges!TokenId
    <3>3. \A i \in DOMAIN f : f[i] # NoBadge => i \in DOMAIN g /\ g[i] = f[i]
      <4>1. CASE token = journal.token
        BY <3>1, <4>1
      <4>2. CASE token # journal.token
        <5>1. /\ call.token = journal.nextTokenId
              /\ g = [f EXCEPT ![call.token] = [badge_type_id |-> call.req.badgeType,
                                                owner |-> call.req.player,
                                                alive |-> TRUE]]
          BY <2>1, <3>1, <4>2 DEF BadgePart
        <5>2. \A i \in DOMAIN f : f[i] # NoBadge => i # call.token
          BY <2>1, <3>1, <3>2, <5>1 DEF BJ!IInv, BJ!OwnerIndexExact, BJ!total_supply,
             BJ!TypeOK, BJ!TokenId, Badges!TokenId
        <5> QED BY <5>1, <5>2
      <4> QED BY <4>1, <4>2
    <3>4. Owners(f) \subseteq Owners(g)
      BY <3>3 DEF Owners
    <3> QED BY <1>2, <3>1, <3>4 DEF Issued0, Committed
  <2> QED BY <2>2, <2>3, <2>4, <2>5
<1> QED BY <1>1, <1>2

(***************************************************************************)
(* Every claim_ok event stays backed, while later claims run and are       *)
(* rolled back as much as after them: its reward paid once, its badge the  *)
(* player's, its achievement on record, and as many proofs spent as there  *)
(* are events.                                                             *)
(***************************************************************************)
THEOREM ReceiptsBacked == Spec => []ReceiptBacked
<1>1. IInv => ReceiptBacked
  <2> SUFFICES ASSUME IInv PROVE ReceiptBacked
    OBVIOUS
  <2>1. Sound /\ claimOk \in Seq(Receipt) /\ PoolSound /\ RegistrySound
    BY DEF IInv, Sound, OwnTypes, Callees
  <2>2. Backing(spent, claimed, Owners(token), ListedPairs(claimedRewards), claimOk)
    <3>1. PICK S, S2, R, R2, I, I2, C, C2, L :
              /\ S = Spent0 /\ S2 = spent /\ R = Claimed0 /\ R2 = claimed
              /\ I = Issued0 /\ I2 = Owners(token)
              /\ C = Recorded0 /\ C2 = ListedPairs(claimedRewards) /\ L = claimOk
      OBVIOUS
    <3>2. Backing(S, R, I, C, L) /\ L \in Seq(Receipt)
      BY <2>1, <3>1 DEF IInv, Receipts
    <3>3. /\ S2 = S \/ \E n : S2 = S \cup {n}
          /\ R \subseteq R2 /\ I \subseteq I2 /\ C \subseteq C2
      BY <2>1, <3>1, NothingLost
    <3>4. Backing(S2, R2, I2, C2, L)
      BY <3>2, <3>3, BackingGrows
    <3> QED BY <3>1, <3>4
  <2>3. Len(claimOk) <= Cardinality(spent)
    BY <2>2 DEF Backing
  <2>4. ASSUME NEW n \in DOMAIN claimOk
        PROVE  /\ achClm[PairOf(claimOk[n])] = 1
               /\ token[claimOk[n].token] # NoBadge
               /\ token[claimOk[n].token].owner = claimOk[n].player
               /\ claimedRewards[claimOk[n].player][claimOk[n].achievement] = 1
    <3>1. /\ PairOf(claimOk[n]) \in claimed
          /\ PairOf(claimOk[n]) \in ListedPairs(claimedRewards)
          /\ <<claimOk[n].token, claimOk[n].player>> \in Owners(token)
      BY <2>2 DEF Backing
    <3>2. PICK p, a, i : /\ p = claimOk[n].player /\ a = claimOk[n].achievement
                         /\ i = claimOk[n].token
      OBVIOUS
    <3>3. <<p, a>> \in claimed /\ <<p, a>> \in ListedPairs(claimedRewards)
          /\ <<i, p>> \in Owners(token)
      BY <3>1, <3>2 DEF PairOf
    <3>4. claimOk[n] \in Receipt
      BY <2>1
    <3>5. p \in Account /\ a \in Achievement
      BY <3>2, <3>4 DEF Receipt
    <3>6. achClm[PairOf(claimOk[n])] = 1
      <4>1. PICK k : k = PairOf(claimOk[n])
        OBVIOUS
      <4>2. k \in RP!ClaimKey /\ k \in claimed
        BY <3>1, <3>2, <3>5, <4>1 DEF PairOf, RP!ClaimKey, RP!Address
      <4>3. achClm[k] = 1
        BY <2>1, <4>2 DEF PoolSound, RP!ClaimedOnce
      <4> QED BY <4>1, <4>3
    <3>7. token[i] # NoBadge /\ token[i].owner = p
      BY <3>3 DEF Owners
    <3>8. claimedRewards[p][a] = 1
      <4>1. claimedRewards[p][a] > 0
        BY <3>3, <3>5 DEF ListedPairs
      <4>2. claimedRewards[p][a] \in Nat
        BY <2>1, <3>5 DEF RegistrySound, GP!TypeOK
      <4>3. claimedRewards[p][a] <= 1
        BY <2>1, <3>5, <4>2 DEF RegistrySound, GP!RecordedOnce
      <4> QED BY <4>1, <4>2, <4>3
    <3> QED BY <3>2, <3>6, <3>7, <3>8
  <2> QED BY <2>3, <2>4 DEF ReceiptBacked, PairOf
<1> QED BY <1>1, InitInv, StepInv, PTL DEF Spec

-----------------------------------------------------------------------------
(***************************************************************************)
(* PayableNeverRefused without ENABLED: of a claim that was payable when   *)
(* it began, every check of its next call is met now (Clear).  The checks  *)
(* of a call are against storage the calls before it have written, and the *)
(* payment is one the token contract grants because the pool's total is    *)
(* covered by its tokens (Funded).                                         *)
(***************************************************************************)
Funded ==
    /\ RP!TotalBacked
    /\ call # NoCall => journal.totalDeposited <= journal.tokens[Pool]

LEMMA PoolStaysBacked ==
    RP!TypeOK /\ RP!TotalBacked /\ [RP!Next]_(RP!vars) => RP!TotalBacked'
<1>1. RP!TypeOK /\ RP!TotalBacked /\ [RP!Next]_(RP!vars) => RP!TotalBacked'
  BY RP!StepBacked, Deployed, PoolMinted, FiniteAccounts DEF RP!Address
<1> QED BY <1>1

LEMMA InitFunded == Init => Funded
<1> SUFFICES ASSUME Init PROVE Funded
  OBVIOUS
<1>1. /\ totalDeposited = Funds /\ call = NoCall
      /\ tokens = [a \in Account \cup {Pool} |->
             CASE a = Pool -> Funds [] a = Admin -> Minted[a] - Funds
               [] OTHER -> Minted[a]]
  BY DEF Init
<1>2. tokens[Pool] = Funds
  BY <1>1, Deployed
<1>3. Funds \in Nat
  BY PoolMinted, DeploymentAssumption
<1> QED BY <1>1, <1>2, <1>3 DEF Funded, RP!TotalBacked

LEMMA StepFunded == Sound /\ Funded /\ [Next]_vars => Funded'
<1> SUFFICES ASSUME Sound, Funded, [Next]_vars PROVE Funded'
  OBVIOUS
<1>1. RP!TypeOK /\ OwnTypes /\ Callees
  BY DEF Sound, Callees, PoolSound
<1>2. Rollback => Funded'
  BY DEF Rollback, Funded, RP!TotalBacked
<1>3. EachSteps => RP!TotalBacked'
  BY <1>1, PoolStaysBacked DEF EachSteps, Funded
<1>4. Rollback \/ EachSteps
  BY <1>1, ContractSteps
<1>5. Calls \/ UNCHANGED vars \/ Configures =>
          (call' # NoCall => call # NoCall) /\ journal' = journal
  <2>1. Calls => call # NoCall /\ journal' = journal
    BY CallsSteady DEF Calls, VerifyProof, ReleaseReward, MintBadge, RecordClaim,
       RecordBadge, AwardReputation, Goes, Steady
  <2> QED BY <2>1 DEF vars, Configures
<1>6. Emit \/ Others => call' = NoCall
  BY OtherSteps DEF Emit, Others
<1>7. ASSUME NEW c \in Requests, Begin(c)
      PROVE  journal'.totalDeposited <= journal'.tokens[Pool]
  <2>1. journal'.totalDeposited = totalDeposited /\ journal'.tokens = tokens
    BY <1>7 DEF Begin, Touched
  <2> QED BY <2>1 DEF Funded, RP!TotalBacked
<1>8. Calls \/ Emit \/ Others \/ UNCHANGED vars \/ Configures =>
          (call' # NoCall => journal'.totalDeposited <= journal'.tokens[Pool])
  BY <1>5, <1>6 DEF Funded
<1> QED BY <1>2, <1>3, <1>4, <1>7, <1>8, StepIs DEF Funded

(***************************************************************************)
(* The checks of the next call, all of them: those of the handler called,  *)
(* and in it of the token contract.                                        *)
(***************************************************************************)
VerifierAllows(c) ==
    /\ c.player \in c.auth
    /\ Verifier!Accepting(c.circuit) /\ c.proof \in WellFormed /\ c.inputs # <<>>
    /\ Verifier!Unspent(c.player, c.proof)

PoolAllows(c) ==
    /\ Rewards!RequireAdmin(c.auth) /\ c.amount > 0
    /\ <<c.player, c.achievement>> \notin claimed
    /\ Rewards!PoolCovers(c.amount) /\ Rewards!CanTransfer(tokens, Pool, c.amount)
    /\ totalDeposited - c.amount \in Rewards!I128

BadgesAllow(c) ==
    /\ badgeAdmin # NoAdmin /\ Orchestrator \in minters
    /\ Badges!Mintable(c.badgeType) /\ nextTokenId < MaxU32

RegistryAllows(c) == Registry!RequireAdmin(c.auth) /\ Registry!Active(c.player)

Clear ==
    LET c == call.req IN
    /\ call.step = "verify" => VerifierAllows(c)
    /\ call.step = "release" => PoolAllows(c)
    /\ call.step = "mint" => BadgesAllow(c)
    /\ call.step \in {"record", "badge", "reputation"} => RegistryAllows(c)

LEMMA PayableIsClear ==
    ASSUME Sound, Funded, call # NoCall, call.payable
    PROVE  Clear
<1>1. /\ call \in Call /\ Entered /\ VerifierPart /\ PoolPart /\ BadgePart
      /\ RecordPart /\ ProfilePart /\ PayableThen
      /\ badgeAdmin = Admin /\ RJ!TypeOK
  BY DEF Sound, OwnTypes, Progress, Journaled
<1> DEFINE c == call.req
<1>2. /\ c.player \in Account /\ c.amount \in 0 .. MaxI128 /\ c.amount > 0
      /\ c.auth \in SUBSET Account
  BY <1>1, Requested DEF Call, Entered
<1>3. call.step = "verify" => VerifierAllows(c)
  BY <1>1 DEF VerifierPart, PayableThen, VerifierAllows, Verifier!Accepting,
     Verifier!Unspent, Verifier!is_nullifier_used
<1>4. call.step = "release" => PoolAllows(c)
  <2> SUFFICES ASSUME call.step = "release" PROVE PoolAllows(c)
    OBVIOUS
  <2>1. /\ claimed = journal.claimed /\ tokens = journal.tokens
        /\ totalDeposited = journal.totalDeposited
    BY <1>1 DEF PoolPart
  <2>2. Rewards!RequireAdmin(c.auth)
    BY <1>1, <1>2, Deployed DEF PayableThen, Rewards!RequireAdmin
  <2>3. /\ totalDeposited \in -MaxI128 - 1 .. MaxI128 /\ MaxI128 \in Nat
        /\ tokens[Pool] \in Nat
        /\ totalDeposited >= c.amount /\ totalDeposited <= tokens[Pool]
    <3>1. RP!TypeOK
      BY DEF Sound, Callees, PoolSound
    <3> QED BY <1>1, <2>1, <3>1, Deployed
            DEF PayableThen, Funded, RP!TotalBacked, RP!TypeOK, RP!I128, RP!Address
  <2>4. /\ tokens[Pool] >= c.amount /\ c.amount >= 0
        /\ totalDeposited - c.amount \in -MaxI128 - 1 .. MaxI128
    BY <1>2, <2>3
  <2>5. <<c.player, c.achievement>> \notin claimed
    BY <1>1, <2>1 DEF PayableThen
  <2> QED BY <1>2, <2>2, <2>3, <2>4, <2>5
          DEF PoolAllows, Rewards!PoolCovers, Rewards!CanTransfer, Rewards!I128
<1>5. call.step = "mint" => BadgesAllow(c)
  BY <1>1, Deployed DEF BadgePart, PayableThen, BadgesAllow, Badges!Mintable
<1>6. call.step \in {"record", "badge", "reputation"} => RegistryAllows(c)
  <2>1. Registry!RequireAdmin(c.auth)
    BY <1>1, <1>2, Deployed DEF PayableThen, Registry!RequireAdmin
  <2> QED BY <1>1, <2>1 DEF ProfilePart, PayableThen, RegistryAllows, GJ!Active,
             GJ!Registered, Registry!Active, Registry!Registered
<1> QED BY <1>3, <1>4, <1>5, <1>6 DEF Clear

(***************************************************************************)
(* A claim's outcome is decided before its first call: none of the calls   *)
(* of a claim whose preconditions held then finds a check failing.         *)
(***************************************************************************)
THEOREM PayableClaimsAreClear == Spec => [](call # NoCall /\ call.payable => Clear)
<1>1. Sound /\ Funded => (call # NoCall /\ call.payable => Clear)
  BY PayableIsClear
<1> QED BY <1>1, InitSound, StepSound, InitFunded, StepFunded, PTL DEF Spec

(***************************************************************************)
(* What the next call writes: one value for each variable, so that there   *)
(* is always a state it describes.                                         *)
(***************************************************************************)
After(s) ==
    CASE s = "verify" -> "release" [] s = "release" -> "mint" [] s = "mint" -> "record"
      [] s = "record" -> "badge" [] s = "badge" -> "reputation" [] OTHER -> "emit"

At(s, new, old) == IF call.step = s THEN new ELSE old

Written ==
    LET c == call.req
        key == <<c.player, c.achievement>>
        p == profile[c.player]
    IN
    /\ call' = At("emit", NoCall,
           [call EXCEPT !.step = After(@), !.token = At("mint", nextTokenId, @)])
    /\ journal' = At("emit", NoJournal, journal)
    /\ claimOk' = At("emit", Append(claimOk,
           [player |-> c.player, achievement |-> c.achievement,
            token |-> call.token, amount |-> c.amount]), claimOk)
    /\ spent' = At("verify", spent \cup {Digest[c.proof]}, spent)
    /\ userRecords' = At("verify", [userRecords EXCEPT ![c.player] =
           Append(@, [circuit_id |-> c.circuit, proof_hash |-> Digest[c.proof]])],
           userRecords)
    /\ tokens' = At("release",
           Rewards!Transferred(tokens, Pool, c.player, c.amount), tokens)
    /\ totalDeposited' = At("release", totalDeposited - c.amount, totalDeposited)
    /\ claimed' = At("release", claimed \cup {key}, claimed)
    /\ achClm' = At("release", [achClm EXCEPT ![key] = @ + 1], achClm)
    /\ paid' = At("release", paid + c.amount, paid)
    /\ nextTokenId' = At("mint", nextTokenId + 1, nextTokenId)
    /\ token' = At("mint", [token EXCEPT ![nextTokenId] =
           [badge_type_id |-> c.badgeType, owner |-> c.player, alive |-> TRUE]], token)
    /\ ownerTokens' = At("mint",
           [ownerTokens EXCEPT ![c.player][nextTokenId] = @ + 1], ownerTokens)
    /\ claimedRewards' = At("record", [claimedRewards EXCEPT ![c.player] =
           Registry!Pushed(@, c.achievement)], claimedRewards)
    /\ badgeList' = At("badge", [badgeList EXCEPT ![c.player] =
           Registry!Pushed(@, call.token)], badgeList)
    /\ profile' = IF call.step = "reputation" /\ call.delta > 0
           THEN [profile EXCEPT ![c.player] = [p EXCEPT !.reputation =
                     Registry!Saturated(@ + call.delta)]]
           ELSE profile
    /\ UNCHANGED <<zkAdmin, nextCircuitId, circuit, poolAdmin, balances,
                   achievementPool, badgeAdmin, minters, nextTypeId, badgeType,
                   regAdmin, usernameOwner, playerCount, playerIndex, orcVars, others>>

(***************************************************************************)
(* The checks of Clear are all there are: whenever they are met, the step  *)
(* that Written describes is the next of the claim.                        *)
(***************************************************************************)
THEOREM ClearClaimsAdvance ==
    ASSUME call \in Call, call # NoCall, Clear, Written
    PROVE  Advance
<1>0. call.step \in Step
  BY DEF Call
<1>1. CASE call.step = "verify"
  <2>1. VerifyProof
    BY <1>1 DEF VerifyProof, Goes, Clear, Written, After, At, VerifierAllows,
       Verifier!Verify, Verifier!Spend, poolVars, badgeVars, regVars, orcVars, Call
  <2> QED BY <2>1 DEF Advance
<1>2. CASE call.step = "release"
  <2>1. ReleaseReward
    BY <1>2 DEF ReleaseReward, Goes, Clear, Written, After, At, PoolAllows,
       Rewards!ClaimAchievementReward, Rewards!PayOut, Rewards!MarkClaimed,
       zkVars, badgeVars, regVars, orcVars, Call
  <2> QED BY <2>1 DEF Advance
<1>3. CASE call.step = "mint"
  <2>1. MintBadge
    BY <1>3 DEF MintBadge, Clear, Written, After, At, BadgesAllow, Badges!Mint,
       zkVars, poolVars, regVars, orcVars, Call
  <2> QED BY <2>1 DEF Advance
<1>4. CASE call.step = "record"
  <2>1. RecordClaim
    BY <1>4 DEF RecordClaim, Goes, Clear, Written, After, At, RegistryAllows,
       Registry!AddClaimedReward, zkVars, poolVars, badgeVars, orcVars, Call
  <2> QED BY <2>1 DEF Advance
<1>5. CASE call.step = "badge"
  <2>1. RecordBadge
    BY <1>5 DEF RecordBadge, Goes, Clear, Written, After, At, RegistryAllows,
       Registry!AddBadge, zkVars, poolVars, badgeVars, orcVars, Call
  <2> QED BY <2>1 DEF Advance
<1>6. CASE call.step = "reputation"
  <2>1. AwardReputation
    BY <1>6 DEF AwardReputation, Goes, Clear, Written, After, At, RegistryAllows,
       Registry!AddReputation, Registry!UpdateActive, regVars, zkVars, poolVars,
       badgeVars, orcVars, Call
  <2> QED BY <2>1 DEF Advance
<1>7. CASE call.step = "emit"
  <2>1. Emit
    BY <1>7 DEF Emit, Written, At, zkVars, poolVars, badgeVars, regVars, orcVars
  <2> QED BY <2>1 DEF Advance
<1> QED BY <1>0, <1>1, <1>2, <1>3, <1>4, <1>5, <1>6, <1>7 DEF Step

-----------------------------------------------------------------------------
(***************************************************************************)
(* What the rest of the chain sees of the five contracts: the storage, but *)
(* while a claim runs what the claim found.                                *)
(***************************************************************************)
Chain ==
    <<Committed(Touched, journal),
      zkAdmin, nextCircuitId, circuit, poolAdmin, balances, achievementPool,
      badgeAdmin, minters, nextTypeId, badgeType, regAdmin, usernameOwner,
      playerCount, playerIndex, orcVars>>

\* A step between two states, of which one is within a claim.
AbortStep ==
    (call # NoCall \/ call' # NoCall) /\ claimOk' = claimOk => Chain' = Chain

LEMMA BeginInvisible == ASSUME Sound, NEW c \in Requests, Begin(c) PROVE Chain' = Chain
<1>1. call' # NoCall /\ call = NoCall /\ journal' = Touched
  BY BeginTypes DEF Sound, Begin
<1>2. Committed(Touched, journal)' = Committed(Touched, journal)
  BY <1>1 DEF Committed
<1> QED BY <1>2 DEF Begin, Chain, zkVars, poolVars, badgeVars, regVars

LEMMA CallsInvisible == ASSUME Sound, Calls PROVE Chain' = Chain
<1>1. call # NoCall /\ call' # NoCall /\ journal' = journal
  BY CallsRun
<1>2. Committed(Touched, journal)' = Committed(Touched, journal)
  BY <1>1 DEF Committed
<1> QED BY <1>2, CallsSteady DEF Chain, Steady

\* The journal has a copy of each variable that a claim may have written.
LEMMA RollbackInvisible == ASSUME Sound, Rollback PROVE Chain' = Chain
<1>1. call # NoCall /\ call' = NoCall
  BY DEF Rollback
<1>2. journal \in Journal
  BY <1>1 DEF Sound, OwnTypes
<1>3. Touched' = journal
  BY <1>2 DEF Rollback, Touched, Journal
<1>4. Committed(Touched, journal)' = Committed(Touched, journal)
  BY <1>1, <1>3 DEF Committed
<1> QED BY <1>4 DEF Rollback, Chain

LEMMA EmitPublishes == ASSUME Sound, Emit PROVE claimOk' # claimOk
<1>1. claimOk \in Seq(Receipt) /\ \E e : claimOk' = Append(claimOk, e)
  BY DEF Emit, Sound, OwnTypes
<1>2. Len(claimOk') = Len(claimOk) + 1 /\ Len(claimOk) \in Nat
  BY <1>1
<1> QED BY <1>2

LEMMA StepAbort == Sound /\ [Next]_vars => AbortStep
<1> SUFFICES ASSUME Sound, [Next]_vars PROVE AbortStep
  OBVIOUS
<1>1. Emit => claimOk' # claimOk
  BY EmitPublishes
<1>2. Others \/ Configures => call = NoCall /\ call' = NoCall
  BY OtherSteps DEF Others, Configures
<1>3. UNCHANGED vars => Chain' = Chain
  BY DEF vars, zkVars, poolVars, badgeVars, regVars, Chain, Committed, Touched
<1> QED BY <1>1, <1>2, <1>3, BeginInvisible, CallsInvisible, RollbackInvisible, StepIs
        DEF AbortStep

(***************************************************************************)
(* A claim that is not carried out, refused at whichever call or out of    *)
(* its budget anywhere, leaves nothing behind: from its start to its end   *)
(* the chain is as it was, in every variable of the five contracts, but    *)
(* for the step that publishes claim_ok.                                   *)
(***************************************************************************)
THEOREM AbortsLeaveNothing == Spec => [][AbortStep]_vars
<1>1. Sound /\ [Next]_vars => [AbortStep]_vars
  BY StepAbort
<1> QED BY <1>1, InitSound, StepSound, PTL DEF Spec

-----------------------------------------------------------------------------
(***************************************************************************)
(* Payable, of what the chain has committed.                               *)
(***************************************************************************)
Open(c) ==
    /\ {c.player, poolAdmin, regAdmin} \subseteq c.auth
    /\ circuit[c.circuit] = "active"
    /\ c.proof \in WellFormed /\ c.inputs # <<>>
    /\ Digest[c.proof] \notin Committed(spent, journal.spent)
    /\ <<c.player, c.achievement>> \notin Committed(claimed, journal.claimed)
    /\ Committed(totalDeposited, journal.totalDeposited) >= c.amount
    /\ Orchestrator \in minters /\ badgeType[c.badgeType] = "active"
    /\ Committed(nextTokenId, journal.nextTokenId) < MaxU32
    /\ Committed(Registry!Active(c.player), GJ!Active(c.player))

\* All that a claim carried out can take from another: the proof, the reward
\* of that player for that achievement, the last of the pool or of the ids.
Barred(c) ==
    \/ Digest[c.proof] = Digest[call.req.proof]
    \/ c.player = call.req.player /\ c.achievement = call.req.achievement
    \/ totalDeposited < c.amount
    \/ nextTokenId = MaxU32

RetryStep ==
    others' = others =>
        \A c \in Requests : Open(c) => Open(c)' \/ (claimOk' # claimOk /\ Barred(c))

\* No call of a claim bans a player, or lifts a ban.
Standing ==
    call # NoCall =>
        \A p \in Account : Registry!Active(p) <=> GJ!Active(p)

LEMMA InitStanding == Init => Standing
BY DEF Init, Standing

LEMMA AwardStanding ==
    ASSUME Sound, Standing, AwardReputation
    PROVE  Standing'
<1>1. /\ call # NoCall /\ call' # NoCall /\ journal' = journal
      /\ call \in Call /\ GP!TypeOK
  BY CallsRun DEF Calls, Sound, OwnTypes, Callees, RegistrySound
<1> DEFINE p == call.req.player
           old == profile[p]
<1>2. p \in Account /\ profile \in [Account -> GP!Profile \cup {NoProfile}]
  BY <1>1, Requested DEF Call, GP!TypeOK
<1>3. CASE call.delta > 0
  <2>1. /\ old # NoProfile /\ old.active
        /\ profile' = [profile EXCEPT ![p] =
               [old EXCEPT !.reputation = Registry!Saturated(@ + call.delta)]]
    BY <1>3 DEF AwardReputation, Registry!AddReputation, Registry!UpdateActive,
       Registry!Active, Registry!Registered
  <2>2. old \in GP!Profile
    BY <1>2, <2>1
  <2>3. profile'[p] = [old EXCEPT !.reputation =
                           Registry!Saturated(old.reputation + call.delta)]
    BY <1>2, <2>1, <2>2 DEF GP!Profile
  <2>4. profile'[p].active
    BY <2>1, <2>2, <2>3 DEF GP!Profile
  <2>5. profile'[p] # NoProfile
    <3>1. Registry!Saturated(old.reputation + call.delta) \in GP!I128
      <4>1. old.reputation \in Int /\ call.delta \in Int /\ MaxI128 \in Nat
        BY <1>1, <2>2, Deployed DEF GP!Profile, GP!I128, Call
      <4> QED BY <4>1 DEF Registry!Saturated, GP!I128
    <3>2. profile'[p] \in GP!Profile
      BY <2>2, <2>3, <3>1 DEF GP!Profile
    <3>3. NoProfile \notin GP!Profile
      BY NoValueAssumption
         DEF Registry!Profile, GP!Profile, Registry!I128, GP!I128
    <3> QED BY <3>2, <3>3
  <2>6. \A q \in Account : Registry!Active(q)' <=> Registry!Active(q)
    <3>1. \A q \in Account \ {p} : profile'[q] = profile[q]
      BY <1>2, <2>1
    <3> QED BY <2>1, <2>4, <2>5, <3>1 DEF Registry!Active, Registry!Registered
  <2>7. \A q \in Account : GJ!Active(q)' <=> GJ!Active(q)
    BY <1>1 DEF GJ!Active, GJ!Registered
  <2> QED BY <1>1, <2>6, <2>7 DEF Standing
<1>4. CASE ~(call.delta > 0)
  <2>1. profile' = profile
    BY <1>4 DEF AwardReputation, regVars
  <2> QED BY <1>1, <2>1 DEF Standing, Registry!Active, Registry!Registered, GJ!Active,
             GJ!Registered
<1> QED BY <1>3, <1>4

LEMMA StepStanding == Sound /\ Standing /\ [Next]_vars => Standing'
<1> SUFFICES ASSUME Sound, Standing, [Next]_vars PROVE Standing'
  OBVIOUS
<1>1. ASSUME NEW c \in Requests, Begin(c) PROVE Standing'
  <2>1. journal'.profile = profile /\ profile' = profile
    BY <1>1 DEF Begin, Touched, regVars
  <2> QED BY <2>1 DEF Standing, Registry!Active, Registry!Registered, GJ!Active,
             GJ!Registered
<1>2. ASSUME Calls PROVE Standing'
  <2>1. call # NoCall /\ journal' = journal
    BY <1>2, CallsRun
  <2>2. AwardReputation \/ profile' = profile
    BY <1>2 DEF Calls, VerifyProof, ReleaseReward, MintBadge, RecordClaim, RecordBadge,
       Registry!AddClaimedReward, Registry!AddBadge, regVars
  <2>3. profile' = profile => Standing'
    BY <2>1 DEF Standing, Registry!Active, Registry!Registered, GJ!Active, GJ!Registered
  <2> QED BY <2>2, <2>3, AwardStanding
<1>3. Emit \/ Rollback \/ Others \/ Configures => Standing'
  BY OtherSteps DEF Emit, Rollback, Others, Configures, Standing
<1>4. UNCHANGED vars => Standing'
  BY DEF vars, regVars, Standing, Registry!Active, Registry!Registered, GJ!Active,
     GJ!Registered
<1> QED BY <1>1, <1>2, <1>3, <1>4, StepIs

LEMMA EmitOpens ==
    ASSUME Sound, Standing, Emit, NEW c \in Requests, Open(c), ~Barred(c)
    PROVE  Open(c)'
<1>1. /\ call \in Call /\ call # NoCall /\ call.step = "emit" /\ call' = NoCall
      /\ VerifierPart /\ PoolPart /\ BP!TypeOK /\ RP!TypeOK
      /\ UNCHANGED <<zkVars, poolVars, badgeVars, regVars>>
  BY DEF Sound, Emit, OwnTypes, Progress, Callees, BP!IInv, PoolSound
<1>2. /\ c.player \in Account /\ c.amount \in 0 .. MaxI128
      /\ totalDeposited \in Int /\ nextTokenId \in 0 .. MaxU32
      /\ MaxI128 \in Nat /\ MaxU32 \in Nat
  BY <1>1, Requested, Deployed DEF RP!TypeOK, RP!I128, BP!TypeOK
<1>3. /\ Digest[c.proof] \notin spent
      /\ <<c.player, c.achievement>> \notin claimed
  BY <1>1 DEF Open, Committed, Barred, VerifierPart, PoolPart
<1>4. totalDeposited >= c.amount /\ nextTokenId < MaxU32
  BY <1>2 DEF Barred
<1>5. Registry!Active(c.player)'
  BY <1>1, <1>2 DEF Open, Committed, Standing, Registry!Active, Registry!Registered,
     regVars
<1> QED BY <1>1, <1>3, <1>4, <1>5 DEF Open, Committed, zkVars, poolVars, badgeVars, regVars

\* It depends on nothing but what there is to be seen.
LEMMA StaysOpen ==
    ASSUME Chain' = Chain, NEW c \in Requests, Open(c)
    PROVE  Open(c)'
<1>1. /\ Committed(Touched, journal)' = Committed(Touched, journal)
      /\ UNCHANGED <<poolAdmin, regAdmin, circuit, minters, badgeType>>
  BY DEF Chain
<1>2. /\ Committed(spent, journal.spent)' = Committed(spent, journal.spent)
      /\ Committed(claimed, journal.claimed)' = Committed(claimed, journal.claimed)
      /\ Committed(totalDeposited, journal.totalDeposited)'
             = Committed(totalDeposited, journal.totalDeposited)
      /\ Committed(nextTokenId, journal.nextTokenId)'
             = Committed(nextTokenId, journal.nextTokenId)
      /\ Committed(profile, journal.profile)' = Committed(profile, journal.profile)
  BY <1>1 DEF Committed, Touched
<1>3. Committed(Registry!Active(c.player), GJ!Active(c.player))'
  BY <1>2 DEF Open, Committed, Registry!Active, Registry!Registered, GJ!Active,
     GJ!Registered
<1> QED BY <1>1, <1>2, <1>3 DEF Open

LEMMA StepRetry == Sound /\ Standing /\ [Next]_vars => RetryStep
<1> SUFFICES ASSUME Sound, Standing, [Next]_vars, others' = others,
                    NEW c \in Requests, Open(c)
             PROVE  Open(c)' \/ (claimOk' # claimOk /\ Barred(c))
  BY DEF RetryStep
<1>1. CASE Emit
  BY <1>1, EmitPublishes, EmitOpens
<1>2. ~Others
  BY DEF Others, Other, Sound, OwnTypes
<1>3. Configures \/ UNCHANGED vars => Open(c)'
  BY DEF Configures, vars, zkVars, poolVars, badgeVars, regVars, Open, Committed,
     Registry!Active, Registry!Registered, GJ!Active, GJ!Registered
<1> QED BY <1>1, <1>2, <1>3, BeginInvisible, CallsInvisible, RollbackInvisible, StaysOpen,
           StepIs

(***************************************************************************)
(* A payable claim can be tried again: no attempt of its own, or of any    *)
(* other claim, makes it unpayable, but for one carried out that took the  *)
(* same proof, the same reward, or the last of the pool or of the ids.     *)
(***************************************************************************)
THEOREM RetriesStand == Spec => [][RetryStep]_vars
<1>1. Sound /\ Standing /\ [Next]_vars => [RetryStep]_vars
  BY StepRetry
<1> QED BY <1>1, InitSound, StepSound, InitStanding, StepStanding, PTL DEF Spec

(***************************************************************************)
(* And once submitted, a claim that is payable by what the chain has       *)
(* committed is the one of which every call finds its checks met.          *)
(***************************************************************************)
THEOREM OpenClaimsAreClear == Spec => [](call # NoCall /\ Open(call.req) => Clear)
<1>1. Sound /\ Funded => (call # NoCall /\ Open(call.req) => Clear)
  <2> SUFFICES ASSUME Sound, Funded, call # NoCall, Open(call.req) PROVE Clear
    OBVIOUS
  <2>1. PayableThen
    BY DEF Open, Committed, PayableThen
  <2>2. call.payable
    BY <2>1 DEF Sound, Progress
  <2> QED BY <2>2, PayableIsClear
<1> QED BY <1>1, InitSound, StepSound, InitFunded, StepFunded, PTL DEF Spec

-----------------------------------------------------------------------------
(***************************************************************************)
(* What is proved of each contract by itself, its callers being anybody,   *)
(* is true of it in the composition too, where a rollback takes back in    *)
(* one step what several calls have written.  For that it must be true of  *)
(* the journal, together with what a claim never writes: the credits of    *)
(* the depositors and the indices over the players.                        *)
(***************************************************************************)
VerifierBooks == VP!SpentIsRecorded /\ VP!ProofUsedOnce
PoolBooks == poolAdmin # NoAdmin /\ RP!LedgerBalanced
RegistryBooks == regAdmin # NoAdmin /\ GP!IndexExact /\ GP!WinsArePlayed
Books == VerifierBooks /\ PoolBooks /\ RegistryBooks

JournalBooks ==
    /\ VJ!SpentIsRecorded /\ VJ!ProofUsedOnce
    /\ poolAdmin # NoAdmin /\ RJ!LedgerBalanced
    /\ regAdmin # NoAdmin /\ GJ!IndexExact /\ GJ!WinsArePlayed

\* The deployment: one depositor, and a username of its own for every player.
LEMMA InitBooks == Init => Books
<1> SUFFICES ASSUME Init PROVE Books
  OBVIOUS
<1>1. VerifierBooks
  BY DEF Init, VerifierBooks, VP!SpentIsRecorded, VP!ProofUsedOnce
<1>2. RP!LedgerBalanced
  <2>1. PICK f : f = [a \in Account |-> 0]
    OBVIOUS
  <2>2. PICK g : g = balances /\ g = [a \in Account |-> IF a = Admin THEN Funds ELSE 0]
    BY DEF Init
  <2>3. /\ Funds \in 0 .. MaxI128 /\ f \in [Account -> 0 .. MaxI128]
        /\ g \in [Account -> 0 .. MaxI128] /\ f[Admin] = 0 /\ g[Admin] = Funds
        /\ \A a \in Account \ {Admin} : g[a] = f[a]
    <3>1. Funds \in 0 .. Minted[Admin] /\ Minted[Admin] \in 0 .. MaxI128
      BY DeploymentAssumption, Deployed
    <3> QED BY <2>1, <2>2, <3>1, Deployed
  <2>4. RP!Total(f) = 0
    BY <2>1, RP!TotalZero, Deployed, PoolMinted, FiniteAccounts DEF RP!Address
  <2>5. RP!Total(g) = RP!Total(f) - f[Admin] + g[Admin]
    <3>1. \A S : RP!IsFiniteSet(S) => \A M \in Nat : \A h, k \in [S -> 0 .. M] : \A x \in S :
              (\A y \in S \ {x} : k[y] = h[y])
                  => RP!Total(k) = RP!Total(h) - h[x] + k[x]
      BY RP!TotalChange, Deployed, PoolMinted, FiniteAccounts DEF RP!Address
    <3> QED BY <2>3, <3>1, Deployed, FiniteAccounts
  <2>6. totalDeposited = Funds /\ paid = 0 /\ balances = g
    BY <2>2 DEF Init
  <2>7. Funds \in Int
    BY <2>3, Deployed
  <2> QED BY <2>3, <2>4, <2>5, <2>6, <2>7 DEF RP!LedgerBalanced
<1>3. \A p \in Account : GP!Registered(p) <=> p \in Players
  <2>1. \A p \in Players :
            [username |-> UsernameOf[p], reputation |-> 0, wins |-> 0,
             tournaments_played |-> 0, games |-> [g \in GameId |-> 0], active |-> TRUE]
                \in Registry!Profile
    BY DeploymentAssumption, Deployed DEF Registry!Profile, Registry!I128
  <2>2. \A p \in Players : profile[p] \in Registry!Profile
    BY <2>1, Deployed DEF Init
  <2>3. \A p \in Account \ Players : profile[p] = NoProfile
    BY DEF Init
  <2> QED BY <2>2, <2>3, NoValueAssumption DEF GP!Registered
<1>4. \A p \in Players : profile[p].username = UsernameOf[p] /\ profile[p].wins = 0
                         /\ profile[p].tournaments_played = 0
  BY Deployed DEF Init
<1>5. ASSUME NEW n \in Username, NEW p \in Account
      PROVE  usernameOwner[n] = p <=> GP!Registered(p) /\ profile[p].username = n
  <2>1. CASE \E q \in Players : UsernameOf[q] = n
    <3>1. PICK o \in Players : UsernameOf[o] = n /\ usernameOwner[n] = o
      BY <2>1 DEF Init
    <3>2. \A q \in Players : UsernameOf[q] = n <=> q = o
      BY <3>1, DeploymentAssumption
    <3> QED BY <1>3, <1>4, <3>1, <3>2
  <2>2. CASE ~\E q \in Players : UsernameOf[q] = n
    <3>1. usernameOwner[n] = Nobody
      BY <2>2 DEF Init
    <3> QED BY <1>3, <1>4, <2>2, <3>1, Deployed
  <2> QED BY <2>1, <2>2
<1>6. GP!IndexExact
  <2>1. GP!RegisteredPlayers = Players
    BY <1>3, Deployed DEF GP!RegisteredPlayers
  <2>2. playerCount = Cardinality(Players)
        /\ \A p \in Account : playerIndex[p] = IF p \in Players THEN 1 ELSE 0
    BY DEF Init
  <2> QED BY <1>3, <1>5, <2>1, <2>2
     DEF GP!IndexExact, GP!lookup_username, GP!player_list, GP!player_count,
         GP!Cardinality, Cardinality, GP!IsFiniteSet
<1>7. GP!WinsArePlayed
  BY <1>3, <1>4 DEF GP!WinsArePlayed, GP!RegisteredPlayers
<1>8. poolAdmin # NoAdmin /\ regAdmin # NoAdmin
  BY Deployed DEF Init
<1> QED BY <1>1, <1>2, <1>6, <1>7, <1>8 DEF Books, PoolBooks, RegistryBooks

(***************************************************************************)
(* Operations of the contracts keep them, as the modules of the contracts  *)
(* show: pool and registry have had their admin set for good.              *)
(***************************************************************************)
LEMMA VerifierBooksKept ==
    VP!TypeOK /\ VerifierBooks /\ [VP!Next]_(VP!vars) => VerifierBooks'
<1>1. VP!TypeOK /\ VP!SpentIsRecorded /\ [VP!Next]_(VP!vars) => VP!SpentIsRecorded'
  BY VP!StepRecorded, Deployed
<1>2. VP!TypeOK /\ VP!SpentIsRecorded /\ VP!ProofUsedOnce /\ [VP!Next]_(VP!vars)
          => VP!ProofUsedOnce'
  BY VP!StepUsedOnce, Deployed
<1> QED BY <1>1, <1>2 DEF VerifierBooks

LEMMA PoolBooksKept == RP!TypeOK /\ PoolBooks /\ [RP!Next]_(RP!vars) => PoolBooks'
<1>1. RP!TypeOK /\ RP!NothingBefore /\ RP!LedgerBalanced /\ [RP!Next]_(RP!vars)
          => RP!LedgerBalanced'
  BY RP!StepBalanced, Deployed, PoolMinted, FiniteAccounts DEF RP!Address
<1>2. poolAdmin # NoAdmin => RP!NothingBefore
  BY DEF RP!NothingBefore
<1>3. poolAdmin # NoAdmin /\ [RP!Next]_(RP!vars) => poolAdmin' # NoAdmin
  <2>1. ASSUME poolAdmin # NoAdmin, NEW s, NEW x, NEW i, NEW n,
               \/ RP!Initialize(s, x) \/ RP!Deposit(s, x, n) \/ RP!Withdraw(s, x, n)
               \/ RP!SetAchievementReward(s, i, n) \/ RP!Distribute(s, x, n)
               \/ RP!TokenTransfer(s, x, n) \/ RP!ClaimAchievementReward(s, x, i, n)
               \/ UNCHANGED RP!vars
        PROVE  poolAdmin' # NoAdmin
    BY <2>1 DEF RP!vars, RP!Initialize, RP!Deposit, RP!Withdraw,
                RP!SetAchievementReward, RP!Distribute, RP!TokenTransfer,
                RP!ClaimAchievementReward
  <2> QED BY <2>1 DEF RP!Next
<1> QED BY <1>1, <1>2, <1>3 DEF PoolBooks

LEMMA RegistryBooksKept ==
    GP!TypeOK /\ RegistryBooks /\ [GP!Next]_(GP!vars) => RegistryBooks'
<1>0. NoProfile \notin GP!Profile /\ {NoAdmin, Nobody} \cap Account = {}
  BY NoValueAssumption, Deployed DEF Registry!Profile, GP!Profile, Registry!I128, GP!I128
<1>1. GP!TypeOK /\ GP!Empty /\ GP!IndexExact /\ [GP!Next]_(GP!vars) => GP!IndexExact'
  BY <1>0, GP!StepIndex, Deployed, FiniteAccounts
<1>2. GP!TypeOK /\ GP!WinsArePlayed /\ [GP!Next]_(GP!vars) => GP!WinsArePlayed'
  BY <1>0, GP!StepWins, Deployed, FiniteAccounts
<1>3. regAdmin # NoAdmin => GP!Empty
  BY DEF GP!Empty
<1>4. regAdmin # NoAdmin /\ [GP!Next]_(GP!vars) => regAdmin' # NoAdmin
  <2>1. ASSUME regAdmin # NoAdmin, NEW s, NEW p, NEW x,
               \/ GP!Initialize(s, p) \/ GP!RegisterPlayer(s, p, x) \/ GP!RecordWin(s, p)
               \/ GP!RecordParticipation(s, p) \/ GP!AddReputation(s, p, x)
               \/ GP!AddGame(s, p, x) \/ GP!AddClaimedReward(s, p, x)
               \/ GP!AddBadge(s, p, x) \/ GP!RemoveBadge(s, p, x)
               \/ GP!SetActive(s, p, x) \/ UNCHANGED GP!vars
        PROVE  regAdmin' # NoAdmin
    BY <2>1 DEF GP!vars, GP!Initialize, GP!RegisterPlayer, GP!RecordWin,
                GP!RecordParticipation, GP!AddReputation, GP!AddGame,
                GP!AddClaimedReward, GP!AddBadge, GP!RemoveBadge, GP!SetActive,
                GP!UpdateActive
  <2> QED BY <2>1 DEF GP!Next
<1> QED BY <1>1, <1>2, <1>3, <1>4 DEF RegistryBooks

(***************************************************************************)
(* The journal takes them over, keeps them while the claim runs, and gives *)
(* them back.                                                              *)
(***************************************************************************)
LEMMA BooksCopied ==
    ASSUME Books, Copied
    PROVE  JournalBooks'
<1> USE DEF Copied, zkVars, poolVars, badgeVars, regVars
<1>1. (VJ!SpentIsRecorded /\ VJ!ProofUsedOnce)'
  BY DEF Books, VerifierBooks, VJ!SpentIsRecorded, VP!SpentIsRecorded, VJ!ProofUsedOnce,
         VP!ProofUsedOnce
<1>2. poolAdmin' # NoAdmin /\ RJ!LedgerBalanced'
  BY DEF Books, PoolBooks, RJ!LedgerBalanced, RP!LedgerBalanced, RJ!Total, RP!Total,
         RJ!Units, RP!Units, RJ!Cardinality, RP!Cardinality
<1>3. regAdmin' # NoAdmin /\ (GJ!IndexExact /\ GJ!WinsArePlayed)'
  BY DEF Books, RegistryBooks, GJ!IndexExact, GP!IndexExact, GJ!WinsArePlayed,
         GP!WinsArePlayed, GJ!lookup_username, GP!lookup_username, GJ!player_list,
         GP!player_list, GJ!player_count, GP!player_count, GJ!RegisteredPlayers,
         GP!RegisteredPlayers, GJ!Registered, GP!Registered, GJ!Cardinality, GP!Cardinality
<1> QED BY <1>1, <1>2, <1>3 DEF JournalBooks

LEMMA BooksRestored ==
    ASSUME JournalBooks, Rollback
    PROVE  Books'
<1> USE DEF Rollback
<1>1. VerifierBooks'
  BY DEF JournalBooks, VerifierBooks, VJ!SpentIsRecorded, VP!SpentIsRecorded,
         VJ!ProofUsedOnce, VP!ProofUsedOnce
<1>2. PoolBooks'
  BY DEF JournalBooks, PoolBooks, RJ!LedgerBalanced, RP!LedgerBalanced, RJ!Total,
         RP!Total, RJ!Units, RP!Units, RJ!Cardinality, RP!Cardinality
<1>3. RegistryBooks'
  BY DEF JournalBooks, RegistryBooks, GJ!IndexExact, GP!IndexExact, GJ!WinsArePlayed,
         GP!WinsArePlayed, GJ!lookup_username, GP!lookup_username, GJ!player_list,
         GP!player_list, GJ!player_count, GP!player_count, GJ!RegisteredPlayers,
         GP!RegisteredPlayers, GJ!Registered, GP!Registered, GJ!Cardinality, GP!Cardinality
<1> QED BY <1>1, <1>2, <1>3 DEF Books

LEMMA BooksSteady == ASSUME JournalBooks, Steady PROVE JournalBooks'
<1> USE DEF Steady
<1>1. (VJ!SpentIsRecorded /\ VJ!ProofUsedOnce)'
  BY DEF JournalBooks, VJ!SpentIsRecorded, VJ!ProofUsedOnce
<1>2. poolAdmin' # NoAdmin /\ RJ!LedgerBalanced'
  BY DEF JournalBooks, RJ!LedgerBalanced
<1>3. regAdmin' # NoAdmin /\ (GJ!IndexExact /\ GJ!WinsArePlayed)'
  BY DEF JournalBooks, GJ!IndexExact, GJ!WinsArePlayed, GJ!lookup_username,
         GJ!player_list, GJ!player_count, GJ!RegisteredPlayers, GJ!Registered
<1> QED BY <1>1, <1>2, <1>3 DEF JournalBooks

Kept == Books /\ (call # NoCall => JournalBooks)

LEMMA StepKept == Sound /\ Kept /\ [Next]_vars => Kept'
<1> SUFFICES ASSUME Sound, Kept, [Next]_vars PROVE Kept'
  OBVIOUS
<1>1. OwnTypes /\ Callees /\ VP!TypeOK /\ RP!TypeOK /\ GP!TypeOK
  BY DEF Sound, Callees, PoolSound, RegistrySound
<1>2. Books'
  <2>1. Rollback => Books'
    BY BooksRestored DEF Kept, Rollback
  <2>2. EachSteps => Books'
    BY <1>1, VerifierBooksKept, PoolBooksKept, RegistryBooksKept DEF EachSteps, Kept, Books
  <2> QED BY <1>1, <2>1, <2>2, ContractSteps
<1>3. ASSUME NEW c \in Requests, Begin(c) PROVE JournalBooks'
  <2>1. Copied
    BY <1>3 DEF Begin, Touched, Copied
  <2> QED BY <2>1, BooksCopied DEF Kept
<1>4. Calls => call # NoCall /\ Steady
  BY CallsSteady, CallsRun
<1>5. Emit \/ Rollback \/ Others \/ Configures => call' = NoCall
  BY OtherSteps DEF Emit, Rollback, Others, Configures
<1>6. UNCHANGED vars => Steady /\ call' = call
  BY DEF vars, zkVars, poolVars, badgeVars, regVars, orcVars, Steady
<1>7. call' # NoCall => JournalBooks'
  BY <1>3, <1>4, <1>5, <1>6, BooksSteady, StepIs DEF Kept
<1> QED BY <1>2, <1>7 DEF Kept

(***************************************************************************)
(* At every moment, in the middle of a claim and after a rollback as well: *)
(* the proofs spent are those on record, each once; the pool's credits are *)
(* its total plus what it paid, and its total is in its tokens; claim      *)
(* flags count the payments; badges, players, usernames and wins agree     *)
(* with their indices.                                                     *)
(***************************************************************************)
THEOREM ContractsStaySound ==
    Spec => [](/\ Verifier!SpentIsRecorded /\ Verifier!ProofUsedOnce
               /\ Rewards!TotalBacked /\ Rewards!LedgerBalanced /\ Rewards!ClaimedOnce
               /\ Badges!OwnerIndexExact
               /\ Registry!IndexExact /\ Registry!WinsArePlayed /\ Registry!RecordedOnce)
<1>1. VerifierBooks => Verifier!SpentIsRecorded /\ Verifier!ProofUsedOnce
  BY DEF VerifierBooks, Verifier!SpentIsRecorded, VP!SpentIsRecorded,
         Verifier!ProofUsedOnce, VP!ProofUsedOnce
<1>2. PoolBooks /\ PoolSound /\ Funded
          => Rewards!TotalBacked /\ Rewards!LedgerBalanced /\ Rewards!ClaimedOnce
  BY DEF PoolBooks, PoolSound, Funded, Rewards!TotalBacked, RP!TotalBacked,
         Rewards!LedgerBalanced, RP!LedgerBalanced, Rewards!Total, RP!Total,
         Rewards!Units, RP!Units, Rewards!Cardinality, RP!Cardinality,
         Rewards!ClaimedOnce, RP!ClaimedOnce, Rewards!ClaimKey, RP!ClaimKey,
         Rewards!Address, RP!Address
<1>3. BP!IInv => Badges!OwnerIndexExact
  BY DEF BP!IInv, Badges!OwnerIndexExact, BP!OwnerIndexExact, Badges!tokens_of,
         BP!tokens_of, Badges!Held, BP!Held, Badges!total_supply, BP!total_supply,
         Badges!TokenId, BP!TokenId
<1>4. RegistryBooks /\ RegistrySound
          => Registry!IndexExact /\ Registry!WinsArePlayed /\ Registry!RecordedOnce
  BY DEF RegistryBooks, RegistrySound, Registry!IndexExact, GP!IndexExact,
         Registry!WinsArePlayed, GP!WinsArePlayed, Registry!RecordedOnce,
         GP!RecordedOnce, Registry!lookup_username, GP!lookup_username,
         Registry!player_list, GP!player_list, Registry!player_count, GP!player_count,
         Registry!RegisteredPlayers, GP!RegisteredPlayers, Registry!Registered,
         GP!Registered, Registry!Cardinality, GP!Cardinality
<1>5. Sound /\ Funded /\ Kept =>
          /\ Verifier!SpentIsRecorded /\ Verifier!ProofUsedOnce
          /\ Rewards!TotalBacked /\ Rewards!LedgerBalanced /\ Rewards!ClaimedOnce
          /\ Badges!OwnerIndexExact
          /\ Registry!IndexExact /\ Registry!WinsArePlayed /\ Registry!RecordedOnce
  BY <1>1, <1>2, <1>3, <1>4 DEF Sound, Callees, Kept, Books
<1>6. Init => Kept
  BY InitBooks DEF Kept, Init
<1> QED BY <1>5, <1>6, InitSound, StepSound, InitFunded, StepFunded, StepKept, PTL DEF Spec
=============================================================================

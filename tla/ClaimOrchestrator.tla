------------------------- MODULE ClaimOrchestrator -------------------------
(***************************************************************************)
(* claim_orchestrator and the four contracts it drives: claim() verifies a *)
(* proof, releases the reward, mints a badge and updates the registry, one *)
(* cross-contract call after the other, and emits claim_ok.                *)
(*                                                                         *)
(* Each call of claim is a step of the callee's own module, so that the    *)
(* order of the calls and the storage each of them sees are explicit.  A   *)
(* panic anywhere, in the orchestrator, in a callee or in the host when    *)
(* the transaction exceeds its resource limits, makes the host restore     *)
(* what the transaction wrote (journal).  Transactions are serial: all     *)
(* others run between claims, at most MaxOthers of them in a behaviour.    *)
(*                                                                         *)
(* Init is a deployment ready for claims, the orchestrator's initialize    *)
(* still to come: one circuit and one badge type, the accounts of Players  *)
(* registered, the pool funded by Admin, the orchestrator made a minter.   *)
(***************************************************************************)
EXTENDS Integers, Sequences, FiniteSets

CONSTANTS
    Account,            \* wallets
    Admin,              \* the wallet that administers three of the contracts ...
    RegAdmin,           \* ... and the one that administers player_registry
    Players,            \* wallets registered as players
    Orchestrator, Pool, \* addresses of the two contracts that act
    NoAdmin, NoBadge, NoProfile, Nobody, NoCall, NoJournal,
    Proof, WellFormed, Digest, Inputs,
    Achievement, Username, GameId,
    UsernameOf,         \* [Players -> Username], injective
    Minted,             \* [Account -> Nat], initial reward tokens
    Funds,              \* what Admin deposited into the pool
    RepPerClaim,        \* values tried for reputation_per_claim
    Requests,           \* arguments and signatures claims are tried with
    Retried,            \* those of them that are submitted again and again
    MaxU32, MaxI128,
    MaxOthers           \* bound on transactions other than claims

VARIABLES
    \* zk_verifier
    zkAdmin, nextCircuitId, circuit, spent, userRecords,
    \* reward_pool and its token
    poolAdmin, tokens, totalDeposited, balances, achievementPool, claimed,
    achClm, paid,
    \* badge_nft
    badgeAdmin, minters, nextTypeId, badgeType, nextTokenId, token, ownerTokens,
    \* player_registry
    regAdmin, profile, usernameOwner, playerCount, playerIndex,
    claimedRewards, badgeList,
    \* claim_orchestrator
    orcAdmin, reputationPerClaim,
    claimOk,            \* claim_ok events
    call,               \* the claim in progress: arguments and next step
    journal,            \* storage that claim may have written, as it was
    others              \* number of other transactions so far

Verifier == INSTANCE ZkVerifier WITH admin <- zkAdmin
Rewards == INSTANCE RewardPool WITH admin <- poolAdmin
Badges == INSTANCE BadgeNft WITH
    admin <- badgeAdmin, Account <- Account \cup {Orchestrator}, Signer <- Account
Registry == INSTANCE PlayerRegistry WITH
    admin <- regAdmin, AchievementId <- Achievement, TokenId <- Badges!TokenId

\* The arguments of claim, and the addresses that signed the transaction.
Request ==
    [player : Account, circuit : Verifier!CircuitId, proof : Proof,
     inputs : Inputs, achievement : Achievement, amount : 0 .. MaxI128,
     badgeType : Badges!TypeId, auth : SUBSET Account]

ASSUME RequestsAssumption == Requests \subseteq Request /\ Retried \subseteq Requests

\* A claim in progress: its next call, and the storage it may have to restore.
Step == {"verify", "release", "mint", "record", "badge", "reputation", "emit"}

Call ==
    [req : Requests, step : Step, delta : 0 .. MaxI128, token : Badges!TokenId,
     payable : BOOLEAN]

Journal ==
    [spent : SUBSET Verifier!Nullifier,
     userRecords : [Account -> Seq(Verifier!Record)],
     tokens : [Rewards!Address -> Nat],
     totalDeposited : Rewards!I128,
     claimed : SUBSET Rewards!ClaimKey, achClm : [Rewards!ClaimKey -> Nat],
     paid : Nat,
     nextTokenId : 0 .. MaxU32,
     token : [Badges!TokenId -> Badges!Badge \cup {NoBadge}],
     ownerTokens : [Account \cup {Orchestrator} -> [Badges!TokenId -> Nat]],
     claimedRewards : [Account -> [Achievement -> Nat]],
     badgeList : [Account -> [Badges!TokenId -> Nat]],
     profile : [Account -> Registry!Profile \cup {NoProfile}]]

\* claim_ok
Receipt ==
    [player : Account, achievement : Achievement, token : Badges!TokenId,
     amount : 1 .. MaxI128]

\* A deployment the contracts can be brought into: distinct addresses, and as
\* many players and tokens as their types can count.
ASSUME DeploymentAssumption ==
    /\ IsFiniteSet(Account) /\ {Admin, RegAdmin} \cup Players \subseteq Account
    /\ {Orchestrator, Pool, NoAdmin, Nobody} \cap Account = {}
    /\ NoAdmin \notin {Orchestrator, Pool}
    /\ MaxU32 \in Nat \ {0} /\ MaxI128 \in Nat /\ MaxOthers \in Nat
    /\ WellFormed \subseteq Proof /\ DOMAIN Digest = Proof
    /\ UsernameOf \in [Players -> Username] /\ Cardinality(Players) <= MaxU32
    /\ \A p, q \in Players : UsernameOf[p] = UsernameOf[q] => p = q
    /\ Minted \in [Account -> 0 .. MaxI128] /\ Funds \in 0 .. Minted[Admin]
    /\ RepPerClaim \subseteq -MaxI128 - 1 .. MaxI128

ASSUME NoValueAssumption ==
    /\ NoBadge \notin Badges!Badge /\ NoProfile \notin Registry!Profile
    /\ NoCall \notin Call /\ NoJournal \notin Journal

zkVars == <<zkAdmin, nextCircuitId, circuit, spent, userRecords>>
poolVars == <<poolAdmin, tokens, totalDeposited, balances, achievementPool,
              claimed, achClm, paid>>
badgeVars == <<badgeAdmin, minters, nextTypeId, badgeType, nextTokenId, token,
               ownerTokens>>
regVars == <<regAdmin, profile, usernameOwner, playerCount, playerIndex,
             claimedRewards, badgeList>>
orcVars == <<orcAdmin, reputationPerClaim>>
vars == <<zkVars, poolVars, badgeVars, regVars, orcVars,
          claimOk, call, journal, others>>

\* What the contracts write during a claim.
Touched ==
    [spent |-> spent, userRecords |-> userRecords, tokens |-> tokens,
     totalDeposited |-> totalDeposited, claimed |-> claimed, achClm |-> achClm,
     paid |-> paid, nextTokenId |-> nextTokenId, token |-> token,
     ownerTokens |-> ownerTokens, claimedRewards |-> claimedRewards,
     badgeList |-> badgeList, profile |-> profile]

Init ==
    /\ zkAdmin = Admin /\ nextCircuitId = 1
    /\ circuit = [c \in Verifier!CircuitId |-> IF c = 0 THEN "active" ELSE "absent"]
    /\ spent = {} /\ userRecords = [a \in Account |-> <<>>]
    /\ poolAdmin = Admin /\ totalDeposited = Funds
    /\ tokens = [a \in Account \cup {Pool} |->
           CASE a = Pool -> Funds [] a = Admin -> Minted[a] - Funds
             [] OTHER -> Minted[a]]
    /\ balances = [a \in Account |-> IF a = Admin THEN Funds ELSE 0]
    /\ achievementPool = [i \in Achievement |-> 0]
    /\ claimed = {} /\ achClm = [k \in Rewards!ClaimKey |-> 0] /\ paid = 0
    /\ badgeAdmin = Admin /\ minters = {Orchestrator} /\ nextTypeId = 1
    /\ badgeType = [t \in Badges!TypeId |-> IF t = 0 THEN "active" ELSE "absent"]
    /\ nextTokenId = 0 /\ token = [i \in Badges!TokenId |-> NoBadge]
    /\ ownerTokens = [a \in Account \cup {Orchestrator} |-> [i \in Badges!TokenId |-> 0]]
    /\ regAdmin = RegAdmin
    /\ profile = [p \in Account |-> IF p \notin Players THEN NoProfile ELSE
           [username |-> UsernameOf[p], reputation |-> 0, wins |-> 0,
            tournaments_played |-> 0, games |-> [g \in GameId |-> 0], active |-> TRUE]]
    /\ usernameOwner = [n \in Username |->
           IF \E p \in Players : UsernameOf[p] = n
           THEN CHOOSE p \in Players : UsernameOf[p] = n ELSE Nobody]
    /\ playerCount = Cardinality(Players)
    /\ playerIndex = [p \in Account |-> IF p \in Players THEN 1 ELSE 0]
    /\ claimedRewards = [p \in Account |-> [a \in Achievement |-> 0]]
    /\ badgeList = [p \in Account |-> [i \in Badges!TokenId |-> 0]]
    /\ orcAdmin = NoAdmin /\ reputationPerClaim = 0
    /\ claimOk = <<>> /\ call = NoCall /\ journal = NoJournal /\ others = 0

-----------------------------------------------------------------------------
Initialize(auth, a, delta) ==
    /\ call = NoCall
    /\ orcAdmin = NoAdmin
    /\ a \in auth
    /\ delta >= 0
    /\ orcAdmin' = a
    /\ reputationPerClaim' = delta
    /\ UNCHANGED <<zkVars, poolVars, badgeVars, regVars,
                   claimOk, call, journal, others>>

\* A mutation without the check of the sign.
MutSetReputationPerClaim(auth, delta) ==
    /\ orcAdmin # NoAdmin /\ orcAdmin \in auth
    /\ reputationPerClaim' = delta
    /\ UNCHANGED orcAdmin

SetReputationPerClaim(auth, delta) ==
    /\ orcAdmin # NoAdmin /\ orcAdmin \in auth
    /\ delta >= 0
    /\ reputationPerClaim' = delta
    /\ UNCHANGED orcAdmin

(***************************************************************************)
(* What every check along a claim amounts to, all read before it starts:   *)
(* the reward pool's and the registry's admin sign along with the player,  *)
(* the orchestrator mints on its own authority.  Ghost field of the call.  *)
(***************************************************************************)
Payable(c) ==
    /\ {c.player, poolAdmin, regAdmin} \subseteq c.auth
    /\ circuit[c.circuit] = "active"
    /\ c.proof \in WellFormed /\ c.inputs # <<>>
    /\ Digest[c.proof] \notin spent
    /\ <<c.player, c.achievement>> \notin claimed
    /\ totalDeposited >= c.amount
    /\ Orchestrator \in minters
    /\ badgeType[c.badgeType] = "active" /\ nextTokenId < MaxU32
    /\ Registry!Active(c.player)

\* claim() up to its first call: checks of its own, configuration loaded.
Begin(c) ==
    /\ call = NoCall
    /\ orcAdmin # NoAdmin
    /\ c.player \in c.auth
    /\ c.amount > 0
    /\ call' = [req |-> c, step |-> "verify", delta |-> reputationPerClaim,
                token |-> 0, payable |-> Payable(c)]
    /\ journal' = Touched
    /\ UNCHANGED <<zkVars, poolVars, badgeVars, regVars,
                   orcVars, claimOk, others>>

\* The claim is at step s and goes on to step t; only callee state changes.
Goes(s, t) ==
    /\ call # NoCall /\ call.step = s
    /\ call' = [call EXCEPT !.step = t]
    /\ UNCHANGED <<orcVars, claimOk, journal, others>>

\* A mutation that ignores the verifier's refusal.
MutVerifyProof ==
    /\ Goes("verify", "release")
    /\ \/ Verifier!Verify(call.req.auth, call.req.player, call.req.circuit,
                          call.req.proof, call.req.inputs)
       \/ UNCHANGED zkVars
    /\ UNCHANGED <<poolVars, badgeVars, regVars>>

VerifyProof ==
    /\ Goes("verify", "release")
    /\ Verifier!Verify(call.req.auth, call.req.player, call.req.circuit,
                       call.req.proof, call.req.inputs)
    /\ UNCHANGED <<poolVars, badgeVars, regVars>>

\* A mutation that carries on with the badge when the reward is refused.
MutReleaseReward ==
    /\ Goes("release", "mint")
    /\ \/ Rewards!ClaimAchievementReward(call.req.auth, call.req.player,
              call.req.achievement, call.req.amount)
       \/ UNCHANGED poolVars
    /\ UNCHANGED <<zkVars, badgeVars, regVars>>

ReleaseReward ==
    /\ Goes("release", "mint")
    /\ Rewards!ClaimAchievementReward(call.req.auth, call.req.player, call.req.achievement,
                                      call.req.amount)
    /\ UNCHANGED <<zkVars, badgeVars, regVars>>

\* A mutation of the mint call that swaps recipient and caller.
MutMintBadge ==
    /\ call # NoCall /\ call.step = "mint"
    /\ Badges!Mint(call.req.auth \cup {Orchestrator}, Orchestrator, Orchestrator,
                   call.req.badgeType)
    /\ call' = [call EXCEPT !.step = "record", !.token = nextTokenId]
    /\ UNCHANGED <<zkVars, poolVars, regVars, orcVars, claimOk, journal, others>>

\* The direct caller of a contract has its authorisation by being the caller.
MintBadge ==
    /\ call # NoCall /\ call.step = "mint"
    /\ Badges!Mint(call.req.auth \cup {Orchestrator}, Orchestrator, call.req.player,
                   call.req.badgeType)
    /\ call' = [call EXCEPT !.step = "record", !.token = nextTokenId]
    /\ UNCHANGED <<zkVars, poolVars, regVars, orcVars, claimOk,
                   journal, others>>

RecordClaim ==
    /\ Goes("record", "badge")
    /\ Registry!AddClaimedReward(call.req.auth, call.req.player, call.req.achievement)
    /\ UNCHANGED <<zkVars, poolVars, badgeVars>>

\* A mutation that passes the badge type for the badge.
MutRecordBadge ==
    /\ Goes("badge", "reputation")
    /\ Registry!AddBadge(call.req.auth, call.req.player, call.req.badgeType)
    /\ UNCHANGED <<zkVars, poolVars, badgeVars>>

RecordBadge ==
    /\ Goes("badge", "reputation")
    /\ Registry!AddBadge(call.req.auth, call.req.player, call.token)
    /\ UNCHANGED <<zkVars, poolVars, badgeVars>>

\* A mutation of the last call: a reputation at its maximum panics.
MutAwardReputation ==
    /\ Goes("reputation", "emit")
    /\ IF call.delta > 0
       THEN /\ profile[call.req.player].reputation + call.delta <= MaxI128
            /\ Registry!AddReputation(call.req.auth, call.req.player, call.delta)
       ELSE UNCHANGED regVars
    /\ UNCHANGED <<zkVars, poolVars, badgeVars>>

AwardReputation ==
    /\ Goes("reputation", "emit")
    /\ IF call.delta > 0
       THEN Registry!AddReputation(call.req.auth, call.req.player, call.delta)
       ELSE UNCHANGED regVars
    /\ UNCHANGED <<zkVars, poolVars, badgeVars>>

\* The event is published and the transaction commits.
Emit ==
    /\ call # NoCall /\ call.step = "emit"
    /\ claimOk' = Append(claimOk,
           [player |-> call.req.player, achievement |-> call.req.achievement,
            token |-> call.token, amount |-> call.req.amount])
    /\ call' = NoCall /\ journal' = NoJournal
    /\ UNCHANGED <<zkVars, poolVars, badgeVars, regVars,
                   orcVars, others>>

Advance == VerifyProof \/ ReleaseReward \/ MintBadge \/ RecordClaim
               \/ RecordBadge \/ AwardReputation \/ Emit

\* The host puts back all the transaction wrote, in every contract.
Rollback ==
    /\ call # NoCall
    /\ spent' = journal.spent /\ userRecords' = journal.userRecords
    /\ tokens' = journal.tokens /\ totalDeposited' = journal.totalDeposited
    /\ claimed' = journal.claimed /\ achClm' = journal.achClm
    /\ paid' = journal.paid /\ nextTokenId' = journal.nextTokenId
    /\ token' = journal.token /\ ownerTokens' = journal.ownerTokens
    /\ claimedRewards' = journal.claimedRewards
    /\ badgeList' = journal.badgeList /\ profile' = journal.profile
    /\ call' = NoCall /\ journal' = NoJournal
    /\ UNCHANGED <<zkAdmin, nextCircuitId, circuit, poolAdmin, balances,
                   achievementPool, badgeAdmin, minters, nextTypeId, badgeType,
                   regAdmin, usernameOwner, playerCount, playerIndex, orcVars,
                   claimOk, others>>

\* A check of the next call fails, and its panic propagates.
Refused == call # NoCall /\ ~ENABLED Advance
Refuse == Refused /\ Rollback

\* The transaction runs out of its budget, wherever it stands.
OutOfBudget == Rollback

\* A transaction that is not a claim, with any of the five contracts.
Other ==
    /\ call = NoCall
    /\ others < MaxOthers
    /\ others' = others + 1
    /\ UNCHANGED <<claimOk, call, journal>>
    /\ \/ Verifier!Next
          /\ UNCHANGED <<poolVars, badgeVars, regVars, orcVars>>
       \/ Rewards!Next
          /\ UNCHANGED <<zkVars, badgeVars, regVars, orcVars>>
       \/ Badges!Next
          /\ UNCHANGED <<zkVars, poolVars, regVars, orcVars>>
       \/ Registry!Next
          /\ UNCHANGED <<zkVars, poolVars, badgeVars, orcVars>>
       \/ (\E s \in Account, delta \in RepPerClaim : SetReputationPerClaim({s}, delta))
          /\ UNCHANGED <<zkVars, poolVars, badgeVars, regVars>>

Next ==
    \/ \E s \in Account, a \in Account, delta \in RepPerClaim : Initialize({s}, a, delta)
    \/ \E c \in Requests : Begin(c)
    \/ Advance
    \/ Refuse
    \/ OutOfBudget
    \/ Other

Spec == Init /\ [][Next]_vars

-----------------------------------------------------------------------------
TypeOK ==
    /\ Verifier!TypeOK /\ Rewards!TypeOK /\ Badges!TypeOK /\ Registry!TypeOK
    /\ orcAdmin \in Account \cup {NoAdmin}
    /\ reputationPerClaim \in 0 .. MaxI128
    /\ call \in Call \cup {NoCall} /\ journal \in Journal \cup {NoJournal}
    /\ call = NoCall <=> journal = NoJournal
    /\ claimOk \in Seq(Receipt)
    /\ others \in 0 .. MaxOthers

(***************************************************************************)
(* A claim_ok event is never a half-truth: the reward it names was paid    *)
(* once and only once, the badge it names was minted to that player, and   *)
(* the registry has the achievement.  The claims made leave as many spent  *)
(* nullifiers behind.                                                      *)
(***************************************************************************)
ReceiptBacked ==
    /\ Len(claimOk) <= Cardinality(spent)
    /\ \A n \in DOMAIN claimOk : LET e == claimOk[n] IN
           /\ achClm[<<e.player, e.achievement>>] = 1
           /\ token[e.token] # NoBadge /\ token[e.token].owner = e.player
           /\ claimedRewards[e.player][e.achievement] = 1

(***************************************************************************)
(* Nobody is rewarded twice for one achievement, whichever proofs, badge   *)
(* types and interleaved direct calls of the contracts are tried, and no   *)
(* two events share a badge.                                               *)
(***************************************************************************)
ClaimedAtMostOnce ==
    \A m, n \in DOMAIN claimOk : m # n =>
        /\ <<claimOk[m].player, claimOk[m].achievement>>
               # <<claimOk[n].player, claimOk[n].achievement>>
        /\ claimOk[m].token # claimOk[n].token

(***************************************************************************)
(* A claim's outcome is decided before its first call.  One that meets     *)
(* every precondition then is refused by none of the six calls (what one   *)
(* writes cannot fail another, and reputation saturates instead of         *)
(* overflowing); only the budget can still abort it ...                    *)
(***************************************************************************)
PayableNeverRefused == call # NoCall /\ call.payable => ENABLED Advance

(***************************************************************************)
(* ... and one that does not is never carried out.  A claim that is leaves *)
(* all it stands for in the five contracts at once, against what they had  *)
(* committed before it: the proof spent, the reward taken from the total   *)
(* and moved, the badge owned and on the lists of both badge_nft and       *)
(* player_registry, the reputation of its start added or at its maximum.   *)
(***************************************************************************)
CommitStep == claimOk' # claimOk =>
    LET c == call.req
        before == journal.profile[c.player].reputation
    IN  /\ call.payable
        /\ spent = journal.spent \cup {Digest[c.proof]}
        /\ totalDeposited = journal.totalDeposited - c.amount
        /\ tokens = Rewards!Transferred(journal.tokens, Pool, c.player, c.amount)
        /\ token[call.token].owner = c.player
        /\ ownerTokens[c.player][call.token] = 1 /\ badgeList[c.player][call.token] = 1
        /\ profile[c.player].reputation \in {before + call.delta, MaxI128}
        /\ profile[c.player].reputation <= before + call.delta

CommitsWhole == [][CommitStep]_vars

(***************************************************************************)
(* Seen from outside a transaction, claim() is the one indivisible step of *)
(* ClaimProtocol: what the chain has committed is the journal while a      *)
(* claim runs and the storage otherwise.                                   *)
(***************************************************************************)
Committed(now, before) == IF call = NoCall THEN now ELSE before

ListedPairs(lists) ==
    {k \in Account \X Achievement : lists[k[1]][k[2]] > 0}

Owners(badges) ==
    {<<i, badges[i].owner>> : i \in {j \in DOMAIN badges : badges[j] # NoBadge}}

Protocol == INSTANCE ClaimProtocol WITH
    Holder <- Rewards!Address \cup {Orchestrator},
    Nullifier <- Verifier!Nullifier,
    BadgeId <- Badges!TokenId,
    Amount <- 1 .. MaxI128,
    spentProofs <- Committed(spent, journal.spent),
    rewarded <- Committed(claimed, journal.claimed),
    issued <- Owners(Committed(token, journal.token)),
    recorded <- ListedPairs(Committed(claimedRewards, journal.claimedRewards)),
    log <- claimOk

ClaimIsAtomic == Protocol!Spec

-----------------------------------------------------------------------------
(***************************************************************************)
(* The host brings every transaction to its end, a player whose claim did  *)
(* not go through submits it again, and its transaction is in the end sent *)
(* with a budget that is enough.  A claim can be submitted only between    *)
(* transactions, now and again and not continuously: strong fairness.      *)
(***************************************************************************)
FairSpec ==
    /\ Spec
    /\ WF_vars(Advance \/ Refuse)
    /\ \A c \in Retried : SF_vars(Begin(c))
    /\ <>[][~(OutOfBudget /\ ~Refused)]_vars

(***************************************************************************)
(* Aborting leaves nothing behind that bars the next attempt: once only    *)
(* claims are submitted, a payable one leads to a claim that is carried    *)
(* out, its own or one that competes with it for what is left.             *)
(***************************************************************************)
RetriesGetThrough ==
    \A c \in Retried, n \in 0 .. MaxU32 :
        call = NoCall /\ orcAdmin # NoAdmin /\ others = MaxOthers
            /\ Payable(c) /\ Len(claimOk) = n
                ~> Len(claimOk) > n
=============================================================================

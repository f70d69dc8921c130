------------------------- MODULE TournamentRewards -------------------------
(***************************************************************************)
(* tournament_rewards: players pay an entry fee into a tournament's pool,  *)
(* sponsors top it up, and the ranked winners of a finalised tournament    *)
(* draw their shares, or the entrants of a cancelled one their fees.       *)
(*                                                                         *)
(* The contract holds the pools of all tournaments that use one token in a *)
(* single token balance, and keeps no record of what a pool has paid out.  *)
(* As in RewardPool a handler is one action and a panic is no step.        *)
(***************************************************************************)
EXTENDS Token, Sequences

CONSTANTS
    Account,        \* addresses that can sign
    Contract,       \* the address of the contract itself: it never signs
    RewardToken,    \* token contracts tournaments are paid in
    NoAdmin,        \* value of admin before initialize
    NoTournament,   \* value of tournament for an unused id
    Fees,           \* entry fees tried
    Amounts,        \* top-ups tried
    Splits,         \* values of payout_bps tried
    Rankings,       \* values of ranked_winners tried
    MaxU32,         \* largest u32
    MaxI128,        \* largest i128
    Minted          \* [Account -> Nat], who holds each reward token at first

Address == Account \cup {Contract}
I128 == -MaxI128 - 1 .. MaxI128
TournamentId == 0 .. MaxU32 - 1
Status == {"Open", "InProgress", "Finalised", "Cancelled"}

Tournament ==
    [reward_token : RewardToken, entry_fee : 0 .. MaxI128,
     total_pool : 0 .. MaxI128, status : Status,
     ranked_winners : Seq(Address), payout_bps : Seq(Nat)]

ASSUME TournamentAssumption ==
    /\ Contract \notin Account /\ NoAdmin \notin Address
    /\ NoTournament \notin Tournament
    /\ IsFiniteSet(Account) /\ RewardToken # {}
    /\ Fees \subseteq I128 /\ Amounts \subseteq I128
    /\ Splits \subseteq Seq(Nat) /\ Rankings \subseteq Seq(Address)
    /\ MaxU32 \in Nat /\ MaxI128 \in Nat
    /\ Minted \in [Account -> 0 .. MaxI128]

VARIABLES
    admin,          \* DataKey::Admin
    nextId,         \* DataKey::NextTournamentId
    tournament,     \* DataKey::Tournament
    entrants,       \* DataKey::Entrants: the keys of the map ...
    feeHeld,        \* ... and its values, 0 for an address that is no key
    entrantCount,   \* DataKey::EntrantCount
    claimed,        \* DataKey::Claimed: those mapped to true
    tokens,         \* balances kept by each reward token contract
    paidOut         \* history: claims and refunds paid, per tournament

vars == <<admin, nextId, tournament, entrants, feeHeld, entrantCount, claimed,
          tokens, paidOut>>

TypeOK ==
    /\ admin \in Account \cup {NoAdmin}
    /\ nextId \in 0 .. MaxU32
    /\ tournament \in [TournamentId -> Tournament \cup {NoTournament}]
    /\ entrants \in [TournamentId -> SUBSET Account]
    /\ feeHeld \in [TournamentId -> [Account -> 0 .. MaxI128]]
    /\ entrantCount \in [TournamentId -> 0 .. MaxU32]
    /\ claimed \in [TournamentId -> SUBSET Account]
    /\ tokens \in [RewardToken -> [Address -> Nat]]
    /\ paidOut \in [TournamentId -> Nat]

Init ==
    /\ admin = NoAdmin
    /\ nextId = 0
    /\ tournament = [id \in TournamentId |-> NoTournament]
    /\ entrants = [id \in TournamentId |-> {}]
    /\ feeHeld = [id \in TournamentId |-> [a \in Account |-> 0]]
    /\ entrantCount = [id \in TournamentId |-> 0]
    /\ claimed = [id \in TournamentId |-> {}]
    /\ tokens = [k \in RewardToken |->
           [a \in Address |-> IF a = Contract THEN 0 ELSE Minted[a]]]
    /\ paidOut = [id \in TournamentId |-> 0]

-----------------------------------------------------------------------------
RequireAdmin(auth) == admin # NoAdmin /\ admin \in auth

\* The tournament exists and its status is one of those given.
In(id, statuses) ==
    tournament[id] # NoTournament /\ tournament[id].status \in statuses

\* Token k lets from pay amount to to, and does.
Pays(k, from, to, amount) ==
    /\ CanTransfer(tokens[k], from, amount)
    /\ tokens' = [tokens EXCEPT ![k] = Transferred(@, from, to, amount)]

Initialize(auth, a) ==
    /\ admin = NoAdmin
    /\ a \in auth
    /\ admin' = a
    /\ nextId' = 0
    /\ UNCHANGED <<tournament, entrants, feeHeld, entrantCount, claimed,
                   tokens, paidOut>>

\* A sum overflowing its u32 is refused as one above 10000 is.
ValidSplits == {bps \in Splits : Len(bps) \in 1 .. 20 /\ Total(bps) <= 10000}

\* A mutation that lets the id counter run over.
MutCreateTournament(auth, k, fee, bps) ==
    /\ RequireAdmin(auth)
    /\ fee >= 0 /\ bps \in ValidSplits
    /\ nextId' = nextId + 1
    /\ UNCHANGED <<admin, tournament, entrants, feeHeld, entrantCount, claimed,
                   tokens, paidOut>>

CreateTournament(auth, k, fee, bps) ==
    /\ RequireAdmin(auth)
    /\ fee >= 0
    /\ bps \in ValidSplits
    /\ nextId < MaxU32
    /\ tournament' = [tournament EXCEPT ![nextId] =
           [reward_token |-> k, entry_fee |-> fee, total_pool |-> 0,
            status |-> "Open", ranked_winners |-> <<>>, payout_bps |-> bps]]
    /\ nextId' = nextId + 1
    /\ entrants' = [entrants EXCEPT ![nextId] = {}]
    /\ feeHeld' = [feeHeld EXCEPT ![nextId] = [a \in Account |-> 0]]
    /\ entrantCount' = [entrantCount EXCEPT ![nextId] = 0]
    /\ claimed' = [claimed EXCEPT ![nextId] = {}]
    /\ UNCHANGED <<admin, tokens, paidOut>>

Enter(auth, player, id) ==
    /\ player \in auth
    /\ In(id, {"Open"})
    /\ player \notin entrants[id]
    /\ entrantCount[id] < MaxU32
    /\ LET t == tournament[id] IN
           /\ IF t.entry_fee > 0
              THEN /\ Pays(t.reward_token, player, Contract, t.entry_fee)
                   /\ t.total_pool + t.entry_fee \in I128
              ELSE UNCHANGED tokens
           /\ tournament' = [tournament EXCEPT ![id].total_pool = @ + t.entry_fee]
           /\ feeHeld' = [feeHeld EXCEPT ![id][player] = t.entry_fee]
    /\ entrants' = [entrants EXCEPT ![id] = @ \cup {player}]
    /\ entrantCount' = [entrantCount EXCEPT ![id] = @ + 1]
    /\ UNCHANGED <<admin, nextId, claimed, paidOut>>

\* A mutation of the status check: any tournament that was not cancelled.
MutTakesTopUps(id) == In(id, {"Open", "InProgress", "Finalised"})

TakesTopUps(id) == In(id, {"Open", "InProgress"})

TopUp(auth, from, id, amount) ==
    /\ from \in auth
    /\ amount > 0
    /\ TakesTopUps(id)
    /\ Pays(tournament[id].reward_token, from, Contract, amount)
    /\ tournament[id].total_pool + amount \in I128
    /\ tournament' = [tournament EXCEPT ![id].total_pool = @ + amount]
    /\ UNCHANGED <<admin, nextId, entrants, feeHeld, entrantCount, claimed, paidOut>>

\* The admin moves a tournament from one of the statuses before to after.
Move(auth, id, before, after) ==
    /\ RequireAdmin(auth)
    /\ In(id, before)
    /\ tournament' = [tournament EXCEPT ![id] = after]
    /\ UNCHANGED <<admin, nextId, entrants, feeHeld, entrantCount, claimed,
                   tokens, paidOut>>

Start(auth, id) ==
    /\ In(id, {"Open"})
    /\ Move(auth, id, {"Open"}, [tournament[id] EXCEPT !.status = "InProgress"])

\* The winners need not have entered, nor be different from each other.
Finalise(auth, id, winners) ==
    /\ In(id, {"InProgress"})
    /\ Len(winners) <= Len(tournament[id].payout_bps)
    /\ Move(auth, id, {"InProgress"}, [tournament[id] EXCEPT
           !.ranked_winners = winners, !.status = "Finalised"])

Cancel(auth, id) ==
    /\ In(id, {"Open", "InProgress"})
    /\ Move(auth, id, {"Open", "InProgress"},
            [tournament[id] EXCEPT !.status = "Cancelled"])

\* The first place winner is listed at.
Rank(t, winner) ==
    CHOOSE r \in DOMAIN t.ranked_winners :
        /\ t.ranked_winners[r] = winner
        /\ \A q \in 1 .. r - 1 : t.ranked_winners[q] # winner

Share(t, rank) == (t.total_pool * t.payout_bps[rank]) \div 10000

\* A mutation that keeps the claims of first places only.
MutMarkClaimed(id, winner) ==
    claimed' = IF Rank(tournament[id], winner) = 1
               THEN [claimed EXCEPT ![id] = @ \cup {winner}] ELSE claimed

MarkClaimed(id, winner) == claimed' = [claimed EXCEPT ![id] = @ \cup {winner}]

\* The product of pool and share is computed in i128 and panics on overflow.
ClaimReward(auth, winner, id) ==
    /\ winner \in auth
    /\ In(id, {"Finalised"})
    /\ \E r \in DOMAIN tournament[id].ranked_winners :
           tournament[id].ranked_winners[r] = winner
    /\ winner \notin claimed[id]
    /\ LET t == tournament[id]
           r == Rank(t, winner)
       IN  /\ t.total_pool * t.payout_bps[r] \in I128
           /\ Share(t, r) > 0
           /\ Pays(t.reward_token, Contract, winner, Share(t, r))
           /\ paidOut' = [paidOut EXCEPT ![id] = @ + Share(t, r)]
    /\ MarkClaimed(id, winner)
    /\ UNCHANGED <<admin, nextId, tournament, entrants, feeHeld, entrantCount>>

\* A mutation that leaves the fee in the map of entrants.
MutMarkRefunded(id, player) == feeHeld' = feeHeld

MarkRefunded(id, player) == feeHeld' = [feeHeld EXCEPT ![id][player] = 0]

Refund(auth, player, id) ==
    /\ player \in auth
    /\ In(id, {"Cancelled"})
    /\ player \in entrants[id]
    /\ feeHeld[id][player] > 0
    /\ Pays(tournament[id].reward_token, Contract, player, feeHeld[id][player])
    /\ paidOut' = [paidOut EXCEPT ![id] = @ + feeHeld[id][player]]
    /\ MarkRefunded(id, player)
    /\ UNCHANGED <<admin, nextId, tournament, entrants, entrantCount, claimed>>

Next ==
    \E s \in Account :
        \/ \E a \in Account : Initialize({s}, a)
        \/ \E k \in RewardToken, fee \in Fees, bps \in Splits :
               CreateTournament({s}, k, fee, bps)
        \/ \E id \in TournamentId, a \in Account :
               \/ Enter({s}, a, id)
               \/ \E amount \in Amounts : TopUp({s}, a, id, amount)
               \/ ClaimReward({s}, a, id)
               \/ Refund({s}, a, id)
        \/ \E id \in TournamentId :
               \/ Start({s}, id)
               \/ \E winners \in Rankings : Finalise({s}, id, winners)
               \/ Cancel({s}, id)

Spec == Init /\ [][Next]_vars

-----------------------------------------------------------------------------
\* The queries about one player: a refunded entrant has paid 0, and is_claimed
\* answers for winners only.
entry_fee_paid(id, player) == feeHeld[id][player]
is_claimed(id, winner) == winner \in claimed[id]

Winners(t) == {t.ranked_winners[r] : r \in DOMAIN t.ranked_winners}

\* What account a may still draw from tournament id: the share of its best
\* rank if it has not claimed yet, or else the fee held for it.
Owed(id, a) ==
    IF In(id, {"Finalised"})
    THEN IF a \in Winners(tournament[id]) /\ ~is_claimed(id, a)
         THEN Share(tournament[id], Rank(tournament[id], a)) ELSE 0
    ELSE entry_fee_paid(id, a)

\* What is left of the pool of tournament id.
PoolLeft(id) == IF In(id, Status) THEN tournament[id].total_pool - paidOut[id] ELSE 0

(***************************************************************************)
(* Every tournament can pay its own debts from its own pool, and the one   *)
(* token balance behind them is exactly what is left of the pools: no      *)
(* claim or refund of one tournament takes the money of another, whatever  *)
(* the shares, ranks and cancellations, and what nobody may draw (rounding *)
(* rests, shares of no rank, top-ups of a cancelled tournament) stays in   *)
(* the contract.  Tokens sent to it directly, left out here, add to that.  *)
(***************************************************************************)
Solvent ==
    /\ \A id \in TournamentId : Total([a \in Account |-> Owed(id, a)]) <= PoolLeft(id)
    /\ \A k \in RewardToken :
           LET mine == {id \in TournamentId :
                           In(id, Status) /\ tournament[id].reward_token = k}
           IN  Total([id \in mine |-> PoolLeft(id)]) = tokens[k][Contract]

(***************************************************************************)
(* Every payment is accounted for by a mark that bars a second one: a      *)
(* finalised tournament has paid the share of the best rank of each winner *)
(* marked as claimed, a cancelled one the fees no longer held for its      *)
(* entrants, and one still running nothing.                                *)
(***************************************************************************)
PaidExactly ==
    \A id \in TournamentId : In(id, Status) =>
        LET t == tournament[id] IN
        paidOut[id] =
            CASE t.status = "Finalised" ->
                    Total([w \in claimed[id] |-> Share(t, Rank(t, w))])
              [] t.status = "Cancelled" ->
                    t.entry_fee * entrantCount[id] - Total(feeHeld[id])
              [] OTHER -> 0

(***************************************************************************)
(* Behind the one balance each tournament behaves as a purse of its own:   *)
(* filled only until its result is settled, its debts fixed by that, then  *)
(* drawn from once by each payee, early or late, for the same amount.      *)
(***************************************************************************)
Phase(id) ==
    CASE In(id, {"Open"}) -> "joining"
      [] In(id, {"InProgress"}) -> "running"
      [] In(id, {"Finalised", "Cancelled"}) -> "settled"
      [] OTHER -> "none"

Escrow == INSTANCE PrizeEscrow WITH
    Purse <- TournamentId,
    Payee <- Account,
    Coin <- RewardToken,
    Fee <- Fees \cap Nat,
    Amount <- Amounts \cap Nat,
    phase <- [id \in TournamentId |-> Phase(id)],
    coin <- [id \in TournamentId |->
                IF In(id, Status) THEN tournament[id].reward_token
                ELSE CHOOSE k \in RewardToken : TRUE],
    members <- entrants,
    purse <- [id \in TournamentId |-> PoolLeft(id)],
    owed <- [id \in TournamentId |-> [a \in Account |-> Owed(id, a)]],
    wallet <- [k \in RewardToken |-> [a \in Account |-> tokens[k][a]]]

PursesAreSeparate == Escrow!Spec

-----------------------------------------------------------------------------
(***************************************************************************)
(* An account asks for what it is owed, and asks again, until it has it:   *)
(* claim_reward and refund need no signature but its own.  Nothing else is *)
(* assumed to happen; no tournament need ever be opened, run or settled.   *)
(***************************************************************************)
Draw(a) == \E id \in TournamentId : ClaimReward({a}, a, id) \/ Refund({a}, a, id)

FairSpec == Spec /\ \A a \in Account : WF_vars(Draw(a))

\* a is owed something that the arithmetic of claim_reward can pay: a share
\* that rounds to zero, or whose product overflows i128, is lost.
Payable(id, a) ==
    /\ In(id, {"Finalised", "Cancelled"})
    /\ Owed(id, a) > 0
    /\ In(id, {"Finalised"}) =>
           LET t == tournament[id]
           IN  t.total_pool * t.payout_bps[Rank(t, a)] \in I128

(***************************************************************************)
(* Whoever is owed a payable amount gets it in the end, in whatever order  *)
(* the others draw theirs: no draw leaves too little for a later one.      *)
(***************************************************************************)
DuesDrawn ==
    \A id \in TournamentId, a \in Account : Payable(id, a) ~> Owed(id, a) = 0
=============================================================================

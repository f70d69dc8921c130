# ChronoRise contracts in TLA+

A specification of the Soroban smart contracts of ChronoRise: TLA+ modules for
every stateful contract and for the arithmetic of the crate they have in common,
TLC configurations that check them on small instances, and proofs, checked by
the TLA+ proof system, of the safety properties and refinements of all nine
contracts for every instance. Paths such as `reward_pool:201` mean line 201 of that
contract's `lib.rs` under `src/contracts/`.

Contents: [the system](#the-system), [how code becomes TLA+](#how-code-becomes-tla),
[modules](#modules), [runs](#runs), [disagreements with comments](#disagreements-between-comments-and-code),
[time and fairness](#time-and-fairness), [proofs](#proofs), [not modelled](#what-is-not-modelled), [plan](#plan).

## The system

Players prove game achievements in zero knowledge and are paid in tokens,
badges and reputation. Nine contracts hold state; the tenth crate, `shared`,
holds the arithmetic and the checks of prize splits, of which
`tournament_rewards` carries a copy of its own.

| contract | state | operations that change it |
|---|---|---|
| `zk_verifier` | admin, circuits and the id counter, spent nullifiers, records per user | initialize, register_circuit, deactivate_circuit, verify |
| `reward_pool` | admin, reward token, TotalDeposited, credit per depositor, configured reward per achievement, claim flags | initialize, deposit, distribute, withdraw, set_achievement_reward, claim_achievement_reward |
| `badge_nft` | admin, minters, badge types, badges, list of ids per owner, two id counters | initialize, add_minter, remove_minter, create_badge_type, deactivate_badge_type, mint, burn |
| `player_registry` | admin, profiles, name index, player list and count, claimed achievements and badge ids per player | initialize, register_player, record_win, record_participation, add_reputation, add_game, add_claimed_reward, add_badge, remove_badge, set_active |
| `claim_orchestrator` | admin, addresses of the four contracts above, reputation per claim | initialize, set_reputation_per_claim, claim |
| `tournament_rewards` | admin, tournaments, entrants and fees, claims, id counter | initialize, create_tournament, enter, top_up, start, finalise, cancel, claim_reward, refund |
| `governance` | admin, token, quorum, approval and period, proposals, weights voted | initialize, update_config, propose, vote, finalise, mark_executed, cancel |
| `treasury` | admin, supported tokens, spenders, statistics per token | initialize, add_supported_token, add_spender, remove_spender, deposit, disburse |
| `achievement_registry` | admin, awarders, achievements, awards per user, id counter | initialize, add_awarder, remove_awarder, register_achievement, deactivate_achievement, award |

**Interactions.** `claim_orchestrator.claim` calls, in this order,
`zk_verifier.verify`, `reward_pool.claim_achievement_reward`, `badge_nft.mint`
and, on `player_registry`, `add_claimed_reward`, `add_badge` and (if the
configured amount is positive) `add_reputation`. Each of these can be called
directly as well. `reward_pool`, `tournament_rewards`, `treasury` and
`governance` call a SEP-41 token (`balance`, `transfer`), whose holders also
move tokens without those contracts. `achievement_registry`, the treasury, the
tournaments and governance are not called by any other contract.

**Authority.** Every write needs somebody's authorisation: the admin's for
configuration and for most of the registry and the pool, the player's for its
own acts, a minter's or awarder's for theirs; `governance.finalise` alone needs
nobody's. A contract authorises a call by being its direct caller, which is how
the orchestrator mints. It cannot in that way act as the admin of the pool or
the registry, because their `initialize` makes the admin sign itself: a claim
therefore carries the signatures of the player and of both admins.

**What is hard here.** There are no threads: transactions run one after
another, each completely or not at all. What can go wrong lies in

- the *order* of transactions by different people: a deactivation, a ban, a
  change of parameters or a direct call of a contract between the submission of
  a transaction and its execution, a retry of what was already done;
- the *middle* of a transaction: `claim` crosses five contracts and may fail in
  any of them;
- *two records of one fact*: credits, TotalDeposited and token balance of the
  pool; statistics and reserves of the treasury; owner list, badge list and
  badge; name index and profile; one token balance behind many tournaments;
- the *ends of integers*: counters of `u32`, amounts of `i128`, saturating,
  panicking and rounded arithmetic.

`PROJECT.json` lists these hazards at the lines where they bite, each with the
properties that would notice, or with the reason why none does: a badge list of
`player_registry` does go stale after a burn, entries do grow, and the network
archives them.

**What makes each part correct.** In a sentence each, stated as TLA+ properties
in the modules: no nullifier is accepted twice and no retired circuit at all
(`zk_verifier`); a player is paid once per achievement, from deposits, and the
books balance (`reward_pool`); owner lists are exact, ids never reused, badges
never change hands (`badge_nft`); indices are exact, records free of duplicates
and frozen by a ban (`player_registry`); a claim is one indivisible step of all
five contracts that happens precisely when its preconditions hold, and one that was
aborted can be had by asking again (`claim_orchestrator`); every tournament pays
all it owes, once, from its own pool, by results that are final, to whoever asks
(`tournament_rewards`); tallies are the recorded weights, votes and decisions
stand, and no proposal stays undecided (`governance`); statistics are covered by reserves and
no outflow escapes them (`treasury`); each achievement is awarded once and not
after its retirement (`achievement_registry`).

## How code becomes TLA+

- **An operation is one action** that takes the signatures of the transaction
  (`auth`) and the arguments. `a.require_auth()` is the conjunct `a \in auth`;
  each `assert!`, `expect`, failing transfer and overflow is a conjunct too, for
  a panic reverts the transaction and is the absence of a step. The exception
  is `claim`, which is split at its cross-contract calls.
- **Signatures.** Next lets one account sign each transaction, which is all a
  stand-alone operation needs; the claim's requests say who signed.
- **Storage keys are variables** with the names of the code, `DataKey::X` in the
  comment. A missing entry has the value the code takes for it, or a model
  value (`NoAdmin`, `NoBadge`, `NoProfile`, `NoTournament`, `NoProposal`).
- **Vectors** whose order is never used (owner lists, badge lists, players) are
  functions that count how often an element is listed, so that duplicates stay
  visible; vectors whose order matters are sequences.
- **Integers.** `MaxU32` and `MaxI128` are the largest values of the types. All
  crates build with `overflow-checks = true`, so overflow is a panic.
- **The token** (`Token.tla`) is external: exact transfers that fail without
  funds. Everybody can transfer at any time.
- **History variables** (`achClm`, `paid`, `paidOut`, `claimOk`) count the events
  a contract emits or sum what it paid; no guard reads them.
- **Mutations.** An operator `MutX` beside `X` is `X` with a plausible bug. Every
  property that passes has one that breaks it, listed in `PROJECT.json`.

## Modules

**Token** - `CanTransfer` and `Transferred` for one token contract, and `Total`,
the sum of a function with natural values. It counts units rather than recursing
so that facts about it can be proved.

**RewardPool** - the pool with its token. `PayOut` is the common tail of
distribute, withdraw and claim: transfer, then subtract from TotalDeposited with
an overflow check of `i128` that lets it go negative. `TokenTransfer` is a
holder's transfer that the pool does not see.
`TotalBacked`, `LedgerBalanced`, `ClaimedOnce`, `ClaimsFromDeposits`,
`DebitIsPaid`.

**ZkVerifier** - `Digest` maps proofs to nullifiers and need not be injective:
the code hashes the three components without separators (`zk_verifier:171`).
`verify_proof_internal` is a stub that repeats the checks for empty components,
so validity is `WellFormed`.
`CircuitId` is every `u32`, the last included: `register_circuit` stores the key
before it advances the counter, so that only the undoing of a panic keeps a key
from an id which the counter does not cover. `ProofUsedOnce`, `SpentIsRecorded`,
and `CircuitLifeCycle`: a circuit is registered under a fresh id that the counter
passes, stays inactive once it is, and has records only from when it was active.

**BadgeNft** - `OwnerIndexExact` and `Soulbound`: the queries agree with each
other, ids are issued in order and never again, an owner only changes by mint
and burn, and no badge is minted of a retired type. `Account` holds minting
contracts as well; `Signer` those that start transactions.

**PlayerRegistry** - `Active` is `load_active_player`, `Pushed` the search before
a push, `Saturated` the saturating addition. `IndexExact`, `WinsArePlayed`,
`RecordedOnce`, `BanFreezes`.

**ClaimProtocol** - what the orchestrator promises: with no contracts or calls,
a claim is one step that consumes a nullifier and a (player, achievement) pair,
issues a fresh badge, records the achievement and logs the event.

**PrizeEscrow** - what the tournaments promise: with no shared balance, basis
points or claim marks, every tournament has a purse of its own, filled until its
result is settled, within which the result fixes what each payee may draw once.

**Ballot** - what governance promises: with no ledger, tokens or arithmetic, one
vote per voter while the poll is open, one decision after it has closed, by a
tally that no longer changes and the rule in force at that moment (`rule`, a
variable that `Adopt` changes at any time), and only accepted motions are carried
out.

**Shared** - the helpers of the common crate as operators, panics as conditions.
`Quotient` divides towards zero, as Rust does; `BpsComputable` is the width of
the intermediate product of `bps_of`.

**ClaimOrchestrator** - instances of the four contracts, with the claim between
them. `Begin` is the orchestrator's code up to the first call; `VerifyProof`,
`ReleaseReward`, `MintBadge`, `RecordClaim`, `RecordBadge`, `AwardReputation`
make one call each, the call being the callee's own action on the callee's
variables; `Emit` commits. `journal` holds the storage the claim may have
written as it was at `Begin`. `Refuse` happens exactly when the next call cannot
be made, `OutOfBudget` at any point; both restore the journal. `Other` is any
transaction of the five contracts between claims. `RegAdmin`, the admin of the
registry, need not be the admin of the others, and a claim needs both to sign.
`ReceiptBacked`, `ClaimedAtMostOnce`, `PayableNeverRefused`, `CommitsWhole` (what
a claim commits differs from the journal by exactly its effect on all five
contracts), `RetriesGetThrough`, and `ClaimIsAtomic`, which is
`ClaimProtocol!Spec` under a refinement mapping: the committed storage is the
journal while a claim runs and the variables otherwise; burned badges still
count as issued.

**TournamentRewards** - `Rank` is the first position of a winner, `Share` the
share rounded down, `Owed(id, a)` what an account may yet draw. `Solvent` (what a
tournament owes is within what is left of its own pool, and what is left of all
pools is the contract's balance), `PaidExactly`, `DuesDrawn`, and
`PursesAreSeparate`, which is `PrizeEscrow!Spec`: the purse of a tournament is
what is left of its pool, settled means finalised or cancelled.

**Governance** - `ledger` grows by `Tick`, any number of transactions sharing a
ledger; `TokenTransfer` moves voting weight. `Computable` is the absence of
overflow in `finalise`, with the short circuit of `&&`. `TallyExact`,
`ProposalsDecided`, and `IsBallot`, which is `Ballot!Spec`: a poll is closed when
the ledger number has passed `end_ledger`, and `rule` is `config`, so that a
decision by parameters other than those last set would be no step of the ballot.

**Treasury** - `StatsCovered`, `OutflowIsBooked`; the
treasury may be asked to pay itself.

**AchievementRegistry** - `AwardsAreHistory`, `RetirementFinal`.

## Runs

All runs are exhaustive for their instance. `MCX.tla` extends module X with the
values; the model values and bounds are in the `.cfg`.

| run | states | instance, and why it is enough |
|---|---|---|
| `reward_pool` | 52,298 | Two accounts share three units; i128 is -4..3. Both can be admin, depositor and payee. Three units suffice to deposit, distribute, deposit the same units again until a credit overflows, drive the total below zero and claim from donated tokens. One achievement: flags of different achievements are independent keys, and the claim run has two. |
| `zk_verifier` | 2,415 | Two users, two circuits and the id past them that the counter cannot cover, five proofs: two with one nullifier, two others, one with an empty part. |
| `badge_nft` | 70,365 | Two addresses that are owner, minter and admin in all combinations, three badges of three types: mint, burn, mint again, then both counters at their end. |
| `player_registry` | 148,226 | Two players, two names, counters to 2, reputation -2..1: overflow of either counter first, saturation at both ends. Game, achievement and badge are one each: lists of different elements are independent. |
| `claim` | 223,901 | Two players, one of them the admin of three contracts, the other that of the registry; two achievements, three good proofs with two nullifiers between them, two badge ids, and twenty-one requests: twelve well-formed ones and one for each thing that can be wrong (proof, inputs, circuit, badge type, amount of zero or above the funds, the signature of the player or of either admin missing). Any number of claims, MaxOthers = 1 other transaction at any point between them, of all those of the five contracts: a direct verify or payment, a burn, a ban, a deactivation, a revoked minter. Funds for two payments. One request is submitted again and again. |
| `tournament_rewards` | 260,939 | Accounts with two units and one, two tournaments of one token. Splits of 60/40 (rounding leaves a rest) and 100, and refused ones of 200 %, of no slot and of 21; rankings that name a winner twice, too many winners or the contract itself. i128 is 20,000, so that a pool of three times 10,000 overflows. |
| `governance` | 673,572 | Two units of the token, held by one of two voters at first and moved between them before, between and after votes, two proposals, four ledgers (one to open in, one to end in, and two, so that the first in which a proposal can be finalised may be missed), configurations for majority and for unanimity with a quorum of two, and three refused ones. i128 is 20,000: two units are the largest tally that can be scaled, and units that vote twice exceed it. |
| `treasury` | 34,020 | Two accounts with a unit each of two tokens; statistics overflow at 2. |
| `achievement_registry` | 8,359 | Two accounts, two achievements, three ledgers. |

What each passing run shows is its line in `PROJECT.json`. Deadlock is checked
everywhere but in `tournament_rewards`: once the ids are used up and every
tournament is closed and paid, that contract really has nothing left to do, for
tokens sent to it directly are not part of the model (they only help it pay).
Two purses of one token are the case in which one tournament could pay from
another's money; a second token would only make that impossible.
In `governance` and `achievement_registry` the ledger bound does not stop the
system either, since configuration stays possible.

Symmetry is used where accounts are interchangeable in Init and Next and only
safety is checked (`badge_nft`, `player_registry`, `treasury`,
`achievement_registry`); a run with a liveness property uses none.

`MCTournamentRewards` also assumes, and TLC evaluates, `CopiesAgree`: the checks
of a split and the shares of `tournament_rewards` are those of `shared` on all
splits and pools of the instance.

Bounds: `MaxU32`, `MaxI128` stand for the widths of the types; `MaxLedger` bounds
the ledger numbers of `governance` (where it is the width of the sequence
number) and `achievement_registry`; `MaxOthers` bounds the other transactions of
`claim`. Token supplies are conserved and therefore finite.

## Disagreements between comments and code

Three runs check what a comment says and find that it does not hold. Whether
comment or code should change is for the maintainers; the model follows the code.

| run | comment | what the code does |
|---|---|---|
| `pool_configured_doc` | `reward_pool:182` "The achievement must have a reward configured." | The configured reward is never read; the amount is the caller's. |
| `voting_end_doc` | `governance:27` "Voting period ends at this ledger (exclusive)" | The last ledger in which votes count is `end_ledger` itself (`:202`). |
| `spender_doc` | `treasury:94`, `:144` spenders may disburse | Only the admin's signature is accepted (`:159`). |

Noticed while modelling, without a run of their own:

- `reward_pool:254` calls balance_of "the reward-token balance of `address` inside
  the pool"; distribute pays tokens without lowering a credit, so credits can
  exceed what the pool holds. `LedgerBalanced` says by exactly how much.
- `player_registry:320` speaks of "all badge token IDs held by `player`"; a burn in
  badge_nft leaves the id on that list until the admin calls remove_badge.
- `governance:243`, "Anyone may call this once the voting period has ended":
  above a 10,000th of i128 the products of a tally that reaches the quorum
  overflow, and finalise panics for as long as the admin leaves the proposal and
  the parameters as they are (`Computable`; `ArithmeticFits` says with what supply
  of tokens that cannot happen).
- The README of badge_nft speaks of transfers, of which there are none; that of
  tournament_rewards of fee collection and that of governance of calling other
  contracts, for which there is no code; `reward_pool:180` says the orchestrator
  acts as the admin, which `initialize` excludes, for the admin signs it.

## Time and fairness

Time is the ledger sequence number, used by governance and for the date of an
award only. Every step but the closing of a ledger is somebody's decision to
submit a transaction; no contract schedules work or wakes anybody. `Spec` states
no fairness therefore, and safety is checked for every behaviour. Progress is
claimed where somebody can bring it about without the help of others, in a
`FairSpec` that says what they do:

| property | fairness of `FairSpec` | why the code justifies it |
|---|---|---|
| `DuesDrawn`: a payable debt of a settled tournament is drawn | WF of each account's own claims and refunds | `claim_reward` and `refund` need the signature of the payee alone, so a payee that keeps asking is stopped by nobody. No tournament need ever be created, started or settled. A share that rounds to zero or whose product overflows is excluded: the code never pays those. |
| `ProposalsDecided`: no proposal stays active | WF of `Tick` and of each `Finalise(id)` | The network closes ledgers, and `finalise` needs no signature at all. Tallies that overflow are excluded, and so are proposals that end in the last ledger number there is. |
| `RetriesGetThrough`: a payable claim leads to a claim that commits | WF of `Advance \/ Refuse`, SF of submitting the retried claims, finitely many aborts for want of budget | The host runs each transaction to its end. A claim can be submitted only between transactions, which come and go, hence SF. The last is an assumption about the environment: the player in the end sends enough fee. It starts from `others = MaxOthers`, when only claims are left, for an admin may at any time make a claim impossible. |

The admins' acts (start, finalise and cancel a tournament, execute a proposal)
have no fairness: nothing obliges them. Of the reward pool and the registries
nothing is claimed that must happen eventually; what could be asked there is
stated as safety (`PayableNeverRefused`: a claim whose preconditions hold is
never stuck).

## Proofs

The modules `...Proofs` prove, for every value of the constants, all invariants,
action properties and refinements that the passing runs check but what is listed
[below](#what-only-tlc-checks): liveness, and what is stated with ENABLED, of
which the steps and the guards are proved all the same. Every theorem is `Spec => []Inv`,
`Spec => [][Step]_vars` or `Spec => Abstract!Spec`, and follows from an
inductive invariant of the same module.

**Assumptions** are the ASSUMEs of the modules proved about, and TLC evaluates
each of them: accounts are a finite set where their tokens are summed or players
counted, the contract's own address signs nothing and is no account, widths are
naturals, values that stand for "absent" are not values of the type, and the
inputs tried are of the types the functions take. Of `TournamentRewards` also
that there is a token. `DeploymentAssumption` (`ClaimOrchestrator`) says that the
deployment of Init is one the contracts can be brought into: distinct addresses
and usernames, not more players than u32 can count, a deposit out of what the
admin has.
`Digest` is any function, injective or not; ids, amounts and ledgers have any
width; schedules are not restricted.

A theorem is proved of the component's module. The proofs of the treasury and of
`achievement_registry` stand at the end of `TournamentRewardsProofs` and of
`GovernanceProofs`, which have the constants they need, as theorems about
instances (`Vault`, `Awards`) with variables of their own.

### The token

`TokenProofs`: `Total(f)` is the cardinality of the set of units of `f`, so the
lemmas about it follow from the library's theorems on finite sets; a recursive
sum would need induction over data, which the installed provers cannot do.
`TotalChange` (a sum changes by what one term does), `TotalBound`,
`TotalMonotone`, `TotalPadded`, `TotalRelabelled` (sums over sets in bijection)
and `TotalScaled` carry the sums of the other modules; `TransferEffect` and
`TransferConserves` say what a transfer does.

### RewardPool

| theorem | statement | argument |
|---|---|---|
| `TypeCorrect` | `Spec => []TypeOK` | Inductive by itself. The overflow checks keep the total in i128; credits stay natural because withdraw compares before it subtracts. |
| `Backed` | `Spec => []TotalBacked` | Inductive with `TypeOK`: each step changes TotalDeposited by at most what it changes the pool's tokens. A payment of the pool to itself lowers only the total, a stray transfer raises only the tokens: hence <= and not =. |
| `BooksBalance` | `Spec => []LedgerBalanced` | Needs `NothingBefore`: while there is no admin there are no credits, no total and no payments. Without it `Initialize`, which writes an empty map and a zero total, could wipe out credits. The sum of credits changes by what one credit does (`TotalChange`). |
| `PaidOnce` | `Spec => []ClaimedOnce` | Inductive with `TypeOK`: only a claim touches a flag or an event, and only where there is no flag. |
| `DebitsArePaid` | `Spec => DebitIsPaid` | From `TypeOK` and `NothingBefore`, which again excludes that initialize debits anyone. |
| `ClaimsAreFunded` | `Spec => ClaimsFromDeposits` | From `TypeOK`: the claim's own check of the total. |
| `CreditsAreWithdrawable` | `amount + paid <= Total(balances)` and a credit of that much: no check of withdraw or of the token refuses | All four invariants together: the books say that the total still shows the amount, `Backed` that the tokens are there, `NothingBefore` that there is an admin. With `paid = 0` every credit can be taken back; the bound is sharp, one unit more and TLC finds a refusal. |

### ZkVerifier

| theorem | statement | argument |
|---|---|---|
| `TypeCorrect` | `Spec => []TypeOK` | Inductive: the guard of register_circuit bounds the counter. |
| `SpendingIsRecorded` | `Spec => []SpentIsRecorded` | Inductive with the types: verify records what it spends (`VerifyEffect` says so record by record). |
| `NoReplay` | `Spec => []ProofUsedOnce` | Not inductive alone: that an unspent nullifier is on no record is `SpentIsRecorded`. |
| `CircuitsLiveOnce` | `Spec => CircuitLifeCycle` | Needs that ids from the counter on have no circuit, or a registration could revive one (`FreshAbove`), and that the counter is zero before initialize, which sets it back (`NoneBefore`). |

### BadgeNft

| theorem | statement | argument |
|---|---|---|
| `TypeCorrect` | `Spec => []TypeOK` | With `NoneBefore` and `FreshTypes`. |
| `IndexIsExact` | `Spec => []OwnerIndexExact` | Inductive, but for initialize, which sets both counters back: `NoneBefore`. |
| `BadgesAreBound` | `Spec => Soulbound` | Needs `FreshTypes`, that types from their counter on do not exist, so that none retired is created anew. |

### PlayerRegistry

| theorem | statement | argument |
|---|---|---|
| `TypeCorrect` | `Spec => []TypeOK` | Inductive: counters are compared before they are increased, reputation saturates. |
| `IndexIsExact` | `Spec => []IndexExact` | Needs `Empty`, that there are no players before there is an admin. The count follows the cardinality of the registered players. |
| `WinsWerePlayed`, `RecordsAreUnique` | `Spec => []WinsArePlayed`, `Spec => []RecordedOnce` | Inductive with the types. Five handlers rewrite a profile, and one lemma each says what they may make of it (`Rewrites`). |
| `BansFreeze` | `Spec => BanFreezes` | From the types, by the same lemmas. |

### ClaimOrchestrator

| theorem | statement |
|---|---|
| `TypeCorrect` | `Spec => []TypeOK`, of the five contracts, the claim and its journal |
| `ClaimsCommitWhole` | `Spec => CommitsWhole` |
| `ClaimRefines` | `Spec => ClaimIsAtomic`, the refinement of `ClaimProtocol` |
| `ClaimsUnique` | `Spec => []ClaimedAtMostOnce` |
| `ReceiptsBacked` | `Spec => []ReceiptBacked` |
| `PayableClaimsAreClear` | a claim that was payable at its start meets every check of its next call |
| `ClearClaimsAdvance` | where those checks are met the claim's next step can be taken |
| `AbortsLeaveNothing` | a claim in progress or rolled back is not seen in what is committed of the five contracts (`Chain`): an abort puts all of it back |
| `RetriesStand` | a claim that could be paid (`Open`, of what is committed) still can after any attempt, but for one carried out that competes with it (`Barred`) |
| `OpenClaimsAreClear` | a claim that could be paid when it was submitted meets every check of its next call |
| `ContractsStaySound` | the invariants proved of the verifier, the pool, the badges and the registry alone hold of them here: `SpentIsRecorded`, `ProofUsedOnce`, `TotalBacked`, `LedgerBalanced`, `ClaimedOnce`, `OwnerIndexExact`, `IndexExact`, `WinsArePlayed`, `RecordedOnce` |

The invariant has these parts, none of which can be missing:

- `Callees`: each contract's own invariant. A call of the claim is an operation
  of the callee's module, one that a single signature would have allowed as
  well, so that the lemmas of the callee's proof module apply, instantiated
  (`VP`, `RP`, `BP`, `GP`).
- `Journaled`: the same of the storage in the journal, or a rollback would lose it.
- `Progress`: at each of the seven places a claim can be at, every contract's
  storage is the journal's, or the journal's with exactly the call's writes and
  with the call's checks met by the journal; and the claim's `payable` is what
  the journal says. At the last place this is `CommitStep`.
- `Receipts`: what is committed backs every event. Every step being one of
  `ClaimProtocol` or none, it is enough that the steps of `ClaimProtocol` keep it.
- `Funded`: the total of the pool is covered, now and in the journal. Only with
  this is a payment that the total allows also one that the token contract allows.
- `Standing`: the last call of a claim leaves nobody banned or unregistered, now
  against the journal, so that a claim carried out bars no other player's.
- `Kept`: usernames, player list, credits and records of proofs are right in the
  storage and, read with the journal in the place of what a claim writes, in the
  journal as well. A claim writes neither credits nor indices, so the two fit
  together again after a rollback.

`PayableClaimsAreClear` and `ClearClaimsAdvance` stand for `PayableNeverRefused`,
which is stated with ENABLED: `Clear` lists the checks of the next call, and
`Written` gives each variable one next value, so that there always is a state it
describes. With `AbortsLeaveNothing` and `RetriesStand` they are the steps of
`RetriesGetThrough`: what is left to TLC is that the retries are in the end given
their turn and their budget.

### TournamentRewards and the common arithmetic

| theorem | statement | argument |
|---|---|---|
| `TypeCorrect`, `PaymentsExact`, `EveryPoolSolvent` | `Spec => []TypeOK`, `[]PaidExactly`, `[]Solvent` | One invariant: `SoundOf`, a predicate of what is stored under one id, for every id; `Fresh` and `BeforeInitialize` (an unused id has left no trace); `Balanced` (the balance in a token is the sum of what is left of its pools). |
| `PoolsAreSeparate` | `Spec => PursesAreSeparate` | The refinement of `PrizeEscrow`, one lemma per operation: each writes one id, and changes the balance by what is left of that pool. |
| `PayableDuesAreClear` | a payable due meets every check of the call that draws it | `DebtIsCovered`: a debt is at most what is left of its pool (`Sound`), and that at most the balance (`Balanced`). |
| `ClearDuesAreDrawn` | where those checks are met the call can be made, and nothing is owed after it | `DueWritten` gives each variable one next value. |
| `DuesStandUntilPaid` | no step changes a payable due or makes it unpayable, but the one that pays it in full | From `IInv`, action by action: whatever else could write to the tournament needs another status, or another id. |
| `ResultsStand` | a settled tournament, its entrants and debts never change but by a payee paid in full, and what is paid and owed is the same sum for good | From `IInv`, action by action; a draw takes one account's debt from the sum (`TotalChange`). |
| `ShareWithinAmount` | A share of at most 10,000 basis points is between zero and the amount. | `BpsBounds`: the quotient is the integer q with 10000 q <= product < 10000 q + 10000. |
| `SplitNeverOverdraws` | Two shares taken apart are at most the one share of their sum, and at least that less one unit. | `BpsBounds` three times. |
| `ShareGrowsWithPool` | A top-up lowers nobody's share. | `TimesMonotone` and `BpsBounds`. |
| `SharesAreCommon` | `Share` of this contract is `bps_of` of the common crate. | Both divide the same product; amounts are not negative. |

The core is `WinnersFit`: the shares of any ranking, whoever it names and however
often, are within the pool. Each winner is paid for its best rank, best ranks of
different winners differ, so the basis points of the winners are a sum over some
of the places of the split (`TotalRelabelled`), which the check of the split
bounds by 10,000; and 10,000 times a rounded share is at most the product
(`TotalScaled`). Of `DuesDrawn` the three theorems about dues leave only what needs
fairness: that an account which keeps asking is served. The last four theorems
hold for all naturals, and hence for every width of i128; `BpsComputable` says
which amounts a width admits.

### Governance

| theorem | statement | argument |
|---|---|---|
| `TypeCorrect` | `Spec => []TypeOK` | Inductive: the tallies' overflow checks. |
| `TallyIsExact` | `Spec => []TallyExact` | Inductive with the types, by `TotalChange` on the weights of one side. |
| `GovernanceIsBallot` | `Spec => IsBallot` | The refinement of `Ballot`. Needs `Supply` (nobody has more tokens than were minted, so that no vote weighs more than all of them), `Fresh` and `BeforeInitialize` (an unused id has no proposal and no votes) and `RulesInForce` (from initialize on, the parameters are ones the contract accepted, so that there is a rule whenever something is proposed or decided). |
| `ArithmeticFits` | if 10,000 times `MostVotes` fits i128, no vote and no decision is refused by the arithmetic | `MostVotes` is the supply counted for every account: a tally can exceed the supply, as tokens that move between votes count again, but no account votes twice or with more than all tokens (`Weights`). The bound is sharp: TLC finds a proposal that cannot be decided one supply below it. |
| `VerdictsStand` | once its poll is over (`PollOver`) a proposal keeps its votes and its end; it is decided by that tally and the rules then in force, or cancelled, and carried out only when accepted; it stays decidable while the rules stay | From `IInv`: `Vote` needs an open poll and `Propose` a fresh id, a ledger number never falls, and what else writes a proposal writes its status only. |

Of `ProposalsDecided` these leave only that ledgers close and somebody calls finalise.

### Treasury and AchievementRegistry

| theorem | statement | argument |
|---|---|---|
| `TreasuryTypes`, `StatisticsCovered`, `OutflowsAreBooked` | `Vault!Spec => []Vault!TypeOK`, `[]Vault!StatsCovered`, `Vault!OutflowIsBooked` | Inductive with the types. Every step moves nothing, moves tokens of an account, books a deposit or books a disbursement (`VaultSteps`); in the last, paying itself leaves the reserves and still counts as disbursed. |
| `AwardTypes`, `AwardsAreAHistory` | `Awards!Spec => []Awards!TypeOK`, `[]Awards!AwardsAreHistory` | The order of dates needs `Past`: no award is dated ahead of the ledger. |
| `RetirementIsFinal` | `Awards!Spec => Awards!RetirementFinal` | Needs `Unregistered`: ids from the counter on have no achievement, and the counter is zero before initialize sets it so. |

### What only TLC checks

- Liveness: `DuesDrawn`, `ProposalsDecided` and `RetriesGetThrough`, for which the
  provers have no rules. Proved of them is what is no liveness: that the step
  asked for can be taken (`PayableDuesAreClear`, `ClearDuesAreDrawn`,
  `ArithmeticFits`, `OpenClaimsAreClear`, `ClearClaimsAdvance`), and that it still
  can be after any other (`DuesStandUntilPaid`, `VerdictsStand`, `RetriesStand`).
- What is stated with ENABLED: `PayableNeverRefused`, whose guards are proved.
- `CopiesAgree`, evaluated on the values of the run: that `validate_payout_bps` and
  the check in `tournament_rewards` accept the same splits. The common crate
  folds over the split, and what a fold computes for every sequence needs
  induction over data. The shares are proved equal.

## What is not modelled

- Of `shared`: the version number, the types of ids and rewards, error codes and
  event wording, which carry no behaviour.
- Cryptography: a stub in the code. `Digest` identifies proofs with the same bytes
  and no others, that is, SHA-256 is taken as free of collisions.
- Queries, event wording, names, descriptions, URIs, titles and dates nothing reads.
- Ledger entry limits, fees and archival of entries: `OutOfBudget` stands for the
  limits inside a claim.
- Fee-on-transfer or otherwise unusual tokens; tokens that call back.
- Backend, prover, front end and deployment, which are only described in the
  documents. The claim run starts from the deployment they describe.

## Plan

The order of the work was the most important behaviour first: the pool; the
contracts of the claim and the claim with its refinement and its retries;
tournaments with the escrow they implement; governance with the ballot it
implements; treasury and achievements; the common crate; then the proofs, in the
order of the sections above.

To come: a treasury funded together with tournaments on one token, and wider
claim runs (more interleaved transactions).

----------------------------- MODULE Governance -----------------------------
(***************************************************************************)
(* governance: anyone proposes, holders of the governance token vote with  *)
(* the balance they hold when they vote, anyone finalises once the period  *)
(* has ended, and the admin marks a passed proposal executed.              *)
(*                                                                         *)
(* The sequence number of the ledger, a u32 up to MaxLedger, only grows    *)
(* (Tick); several transactions share a ledger.  Titles, proposers and the *)
(* first ledger are data that nothing reads.                               *)
(***************************************************************************)
EXTENDS Token

CONSTANTS
    Account,        \* addresses: voters, proposers, admins
    NoAdmin,        \* value of admin before initialize
    NoProposal,     \* value of proposal for an unused id
    Configs,        \* quorum, approval_bps and voting_period tried
    MaxU32,         \* largest u32 of the id counter
    MaxI128,        \* largest i128
    MaxLedger,      \* largest u32 of the ledger sequence number
    Minted          \* [Account -> Nat], who holds the governance token at first

I128 == -MaxI128 - 1 .. MaxI128
ProposalId == 0 .. MaxU32 - 1
Status == {"Active", "Passed", "Rejected", "Executed", "Cancelled"}
Proposal == [end_ledger : 0 .. MaxLedger, votes_for : 0 .. MaxI128,
             votes_against : 0 .. MaxI128, status : Status]
Config == [quorum : Int, approval_bps : Nat, voting_period : Nat]

ASSUME GovernanceAssumption ==
    /\ NoAdmin \notin Account /\ NoProposal \notin Proposal
    /\ IsFiniteSet(Account)
    /\ Configs \subseteq Config
    /\ MaxU32 \in Nat /\ MaxI128 \in Nat /\ MaxLedger \in Nat
    /\ Minted \in [Account -> 0 .. MaxI128]

VARIABLES
    admin,          \* DataKey::Admin
    config,         \* DataKey::Quorum, ApprovalBps and VotingPeriod
    nextProposalId, \* DataKey::NextProposalId
    proposal,       \* DataKey::Proposal
    voted,          \* DataKey::Voted, 0 for an address that is no key
    tokens,         \* balances kept by the governance token contract
    ledger          \* sequence number of the current ledger

vars == <<admin, config, nextProposalId, proposal, voted, tokens, ledger>>

Unset == [quorum |-> 0, approval_bps |-> 0, voting_period |-> 0]

TypeOK ==
    /\ admin \in Account \cup {NoAdmin}
    /\ config \in Configs \cup {Unset}
    /\ nextProposalId \in 0 .. MaxU32
    /\ proposal \in [ProposalId -> Proposal \cup {NoProposal}]
    /\ voted \in [ProposalId -> [Account -> 0 .. MaxI128]]
    /\ tokens \in [Account -> Nat]
    /\ ledger \in 0 .. MaxLedger

Init ==
    /\ admin = NoAdmin
    /\ config = Unset
    /\ nextProposalId = 0
    /\ proposal = [id \in ProposalId |-> NoProposal]
    /\ voted = [id \in ProposalId |-> [a \in Account |-> 0]]
    /\ tokens = Minted
    /\ ledger = 0

-----------------------------------------------------------------------------
RequireAdmin(auth) == admin # NoAdmin /\ admin \in auth

Is(id, status) == proposal[id] # NoProposal /\ proposal[id].status = status

ValidConfig(c) == c.approval_bps <= 10000 /\ c.quorum > 0 /\ c.voting_period > 0

Initialize(auth, a, c) ==
    /\ admin = NoAdmin
    /\ ValidConfig(c)
    /\ a \in auth
    /\ admin' = a
    /\ config' = c
    /\ nextProposalId' = 0
    /\ UNCHANGED <<proposal, voted, tokens, ledger>>

\* The new parameters apply to proposals that are being voted on too, except
\* for their end.
UpdateConfig(auth, c) ==
    /\ RequireAdmin(auth)
    /\ ValidConfig(c)
    /\ config' = c
    /\ UNCHANGED <<admin, nextProposalId, proposal, voted, tokens, ledger>>

\* A mutation of propose that lets the id counter run over.
MutPropose(auth, proposer) ==
    /\ proposer \in auth
    /\ admin # NoAdmin
    /\ nextProposalId' = nextProposalId + 1
    /\ UNCHANGED <<admin, config, proposal, voted, tokens, ledger>>

Propose(auth, proposer) ==
    /\ proposer \in auth
    /\ admin # NoAdmin
    /\ nextProposalId < MaxU32
    /\ ledger + config.voting_period <= MaxLedger
    /\ proposal' = [proposal EXCEPT ![nextProposalId] =
           [end_ledger |-> ledger + config.voting_period,
            votes_for |-> 0, votes_against |-> 0, status |-> "Active"]]
    /\ nextProposalId' = nextProposalId + 1
    /\ voted' = [voted EXCEPT ![nextProposalId] = [a \in Account |-> 0]]
    /\ UNCHANGED <<admin, config, tokens, ledger>>

\* A mutation that counts the vote on the side last voted for.
MutCounted(p, weight, support) ==
    [p EXCEPT !.votes_for = IF support THEN @ + weight ELSE @,
              !.votes_against = IF support THEN @ ELSE weight]

Counted(p, weight, support) ==
    [p EXCEPT !.votes_for = IF support THEN @ + weight ELSE @,
              !.votes_against = IF support THEN @ ELSE @ + weight]

\* The queries; vote checks the first itself.
has_voted(id, voter) == voted[id][voter] # 0
vote_weight(id, voter) == voted[id][voter]

\* A mutation that takes voters whose recorded weight is below their balance.
MutMayVote(voter, id) ==
    /\ Is(id, "Active")
    /\ ledger <= proposal[id].end_ledger
    /\ voted[id][voter] < tokens[voter]

\* The last ledger of the period is end_ledger itself.
MayVote(voter, id) ==
    /\ Is(id, "Active")
    /\ ledger <= proposal[id].end_ledger
    /\ ~has_voted(id, voter)
    /\ tokens[voter] > 0

Vote(auth, voter, id, support) ==
    /\ voter \in auth
    /\ MayVote(voter, id)
    /\ LET after == Counted(proposal[id], tokens[voter], support) IN
           /\ {after.votes_for, after.votes_against} \subseteq I128
           /\ proposal' = [proposal EXCEPT ![id] = after]
    /\ voted' = [voted EXCEPT ![id][voter] = tokens[voter]]
    /\ UNCHANGED <<admin, config, nextProposalId, tokens, ledger>>

Ended(id) == ledger > proposal[id].end_ledger

\* Quorum and approval of configuration c, over exact integers.
Passes(c, votes_for, total) ==
    total >= c.quorum /\ votes_for * 10000 >= total * c.approval_bps

Outcome(p) ==
    IF Passes(config, p.votes_for, p.votes_for + p.votes_against)
    THEN "Passed" ELSE "Rejected"

\* The share is only computed when the quorum is met, and in i128.
Computable(p) ==
    LET total == p.votes_for + p.votes_against IN
    /\ total \in I128
    /\ total >= config.quorum =>
           p.votes_for * 10000 \in I128 /\ total * config.approval_bps \in I128

\* A mutation that decides in the first ledger after the end only.
MutFinalise(id) ==
    /\ Is(id, "Active")
    /\ ledger = proposal[id].end_ledger + 1
    /\ Computable(proposal[id])
    /\ proposal' = [proposal EXCEPT ![id].status = Outcome(proposal[id])]
    /\ UNCHANGED <<admin, config, nextProposalId, voted, tokens, ledger>>

\* Anyone may call: no authorisation is required.
Finalise(id) ==
    /\ Is(id, "Active")
    /\ Ended(id)
    /\ Computable(proposal[id])
    /\ proposal' = [proposal EXCEPT ![id].status = Outcome(proposal[id])]
    /\ UNCHANGED <<admin, config, nextProposalId, voted, tokens, ledger>>

MarkExecuted(auth, id) ==
    /\ RequireAdmin(auth)
    /\ Is(id, "Passed")
    /\ proposal' = [proposal EXCEPT ![id].status = "Executed"]
    /\ UNCHANGED <<admin, config, nextProposalId, voted, tokens, ledger>>

Cancel(auth, id) ==
    /\ RequireAdmin(auth)
    /\ Is(id, "Active")
    /\ proposal' = [proposal EXCEPT ![id].status = "Cancelled"]
    /\ UNCHANGED <<admin, config, nextProposalId, voted, tokens, ledger>>

\* Holders move their tokens at the token contract, between votes too.
TokenTransfer(from, to, amount) ==
    /\ CanTransfer(tokens, from, amount)
    /\ tokens' = Transferred(tokens, from, to, amount)
    /\ UNCHANGED <<admin, config, nextProposalId, proposal, voted, ledger>>

\* The network closes a ledger.
Tick ==
    /\ ledger < MaxLedger
    /\ ledger' = ledger + 1
    /\ UNCHANGED <<admin, config, nextProposalId, proposal, voted, tokens>>

Next ==
    \/ \E s \in Account :
           \/ \E a \in Account, c \in Configs : Initialize({s}, a, c)
           \/ \E c \in Configs : UpdateConfig({s}, c)
           \/ \E a \in Account : Propose({s}, a)
           \/ \E a \in Account, id \in ProposalId, support \in BOOLEAN :
                  Vote({s}, a, id, support)
           \/ \E id \in ProposalId : MarkExecuted({s}, id) \/ Cancel({s}, id)
           \/ \E to \in Account, amount \in 0 .. tokens[s] : TokenTransfer(s, to, amount)
    \/ \E id \in ProposalId : Finalise(id)
    \/ Tick

Spec == Init /\ [][Next]_vars

-----------------------------------------------------------------------------
(***************************************************************************)
(* The tally is the recorded weights and nothing else: no vote is counted  *)
(* twice or lost, whatever tokens its voter moves before or afterwards.    *)
(***************************************************************************)
TallyExact ==
    \A id \in ProposalId : proposal[id] # NoProposal =>
        proposal[id].votes_for + proposal[id].votes_against =
            Total([a \in Account |-> vote_weight(id, a)])

(***************************************************************************)
(* Seen without ledgers, tokens and arithmetic, the contract is a ballot:  *)
(* voting and deciding never race in the ledger a period ends in, a vote   *)
(* stands whatever its voter holds later, the parameters in force when it  *)
(* is finalised decide a proposal, and its decision stands however they    *)
(* change after it.                                                        *)
(***************************************************************************)
Phase(id) ==
    CASE Is(id, "Active") -> "voting"
      [] Is(id, "Passed") -> "accepted"
      [] Is(id, "Rejected") -> "refused"
      [] Is(id, "Executed") -> "done"
      [] Is(id, "Cancelled") -> "withdrawn"
      [] OTHER -> "none"

Proposed == {id \in ProposalId : proposal[id] # NoProposal}

Poll == INSTANCE Ballot WITH
    Motion <- ProposalId,
    Voter <- Account,
    Weight <- 1 .. Total(Minted),
    Rule <- {c \in Configs : ValidConfig(c)},
    NoRule <- Unset,
    Accepts <- Passes,
    phase <- [id \in ProposalId |-> Phase(id)],
    closed <- {id \in Proposed : ledger > proposal[id].end_ledger},
    cast <- voted,
    inFavour <- [id \in ProposalId |->
                    IF id \in Proposed THEN proposal[id].votes_for ELSE 0],
    rule <- config

IsBallot == Poll!Spec

-----------------------------------------------------------------------------
(***************************************************************************)
(* The network keeps closing ledgers, and somebody, as anyone may, calls   *)
(* finalise on a proposal whose period has ended.                          *)
(***************************************************************************)
FairSpec ==
    /\ Spec
    /\ WF_vars(Tick)
    /\ \A id \in ProposalId : WF_vars(Finalise(id))

(***************************************************************************)
(* No proposal stays active for ever, whatever the admin does and however  *)
(* many ledgers pass after its end before anybody finalises it, unless its *)
(* tally is too large to be multiplied in i128 with the parameters then in *)
(* force: while they stay as they are it can only be cancelled.  The last  *)
(* ledger number of the u32 leaves no later one to finalise in.            *)
(***************************************************************************)
ProposalsDecided ==
    \A id \in ProposalId :
        Is(id, "Active") /\ proposal[id].end_ledger < MaxLedger
            ~> ~Is(id, "Active") \/ ~Computable(proposal[id])

-----------------------------------------------------------------------------
(***************************************************************************)
(* What a comment of the contract says, and the code does not do.          *)
(***************************************************************************)

\* lib.rs:27: "Voting period ends at this ledger (exclusive)".
EndIsExclusive ==
    \A id \in ProposalId, a \in Account, support \in BOOLEAN :
        ENABLED Vote({a}, a, id, support) => ledger < proposal[id].end_ledger
=============================================================================

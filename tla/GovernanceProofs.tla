-------------------------- MODULE GovernanceProofs --------------------------
(***************************************************************************)
(* The properties of Governance, for every set of accounts and every       *)
(* number of tokens, and every width of ids, amounts and ledgers.          *)
(*                                                                         *)
(* TallyExact needs no more than the types.  That the contract is a ballot *)
(* needs to know that the tokens voted with are those minted (Supply), so  *)
(* that no vote weighs more than all of them; that an unused id has no     *)
(* proposal and no votes (Fresh, and BeforeInitialize for the step that    *)
(* sets the counter back); and that the rules a proposal is decided by     *)
(* were accepted by the contract (RulesInForce).                           *)
(*                                                                         *)
(* Then: the supply of tokens with which neither a vote nor a decision is  *)
(* refused by the arithmetic; and that what a poll has said stands (the    *)
(* steps of ProposalsDecided).  At the end: achievement_registry.          *)
(***************************************************************************)
EXTENDS Governance, Sequences, TokenProofs

NoVotes == [a \in Account |-> 0]

Supply ==
    /\ Total(tokens) = Total(Minted)
    /\ tokens \in [Account -> 0 .. Total(Minted)]

BeforeInitialize == admin = NoAdmin => nextProposalId = 0

Fresh ==
    \A id \in ProposalId : id >= nextProposalId =>
        proposal[id] = NoProposal /\ voted[id] = NoVotes

RulesInForce == admin # NoAdmin => config \in Configs /\ ValidConfig(config)

IInv == TypeOK /\ TallyExact /\ Supply /\ BeforeInitialize /\ Fresh /\ RulesInForce

(***************************************************************************)
(* Proposals, as propose, vote and the changes of status write them.       *)
(***************************************************************************)
Opened(end) == [end_ledger |-> end, votes_for |-> 0, votes_against |-> 0,
                status |-> "Active"]

WithStatus(p, s) == [p EXCEPT !.status = s]

LEMMA OpenedProposal ==
    ASSUME NEW end \in 0 .. MaxLedger
    PROVE  /\ Opened(end) \in Proposal /\ Opened(end) # NoProposal
           /\ Opened(end).votes_for = 0 /\ Opened(end).votes_against = 0
           /\ Opened(end).end_ledger = end /\ Opened(end).status = "Active"
<1>1. Opened(end) \in Proposal
  BY GovernanceAssumption DEF Opened, Proposal, Status
<1>2. Opened(end) # NoProposal
  BY <1>1, GovernanceAssumption
<1> QED BY <1>1, <1>2 DEF Opened

LEMMA StatusChange ==
    ASSUME NEW p \in Proposal, NEW s \in Status
    PROVE  /\ WithStatus(p, s) \in Proposal /\ WithStatus(p, s) # NoProposal
           /\ WithStatus(p, s).votes_for = p.votes_for
           /\ WithStatus(p, s).votes_against = p.votes_against
           /\ WithStatus(p, s).end_ledger = p.end_ledger
           /\ WithStatus(p, s).status = s
<1>1. WithStatus(p, s) \in Proposal
  BY DEF WithStatus, Proposal
<1>2. WithStatus(p, s) # NoProposal
  BY <1>1, GovernanceAssumption
<1> QED BY <1>1, <1>2 DEF WithStatus, Proposal

(***************************************************************************)
(* A vote adds its weight to one side and leaves the rest of the proposal. *)
(***************************************************************************)
LEMMA CountedVote ==
    ASSUME NEW p \in Proposal, NEW w \in Nat, NEW support \in BOOLEAN,
           {Counted(p, w, support).votes_for,
            Counted(p, w, support).votes_against} \subseteq I128
    PROVE  /\ Counted(p, w, support) \in Proposal
           /\ Counted(p, w, support) # NoProposal
           /\ Counted(p, w, support).votes_for
                  = IF support THEN p.votes_for + w ELSE p.votes_for
           /\ Counted(p, w, support).votes_for + Counted(p, w, support).votes_against
                  = p.votes_for + p.votes_against + w
           /\ Counted(p, w, support).end_ledger = p.end_ledger
           /\ Counted(p, w, support).status = p.status
           /\ w <= MaxI128
<1> DEFINE c == Counted(p, w, support)
<1> USE GovernanceAssumption
<1>1. /\ p.votes_for \in 0 .. MaxI128 /\ p.votes_against \in 0 .. MaxI128
      /\ p.end_ledger \in 0 .. MaxLedger /\ p.status \in Status
  BY DEF Proposal
<1>2. /\ c.votes_for = IF support THEN p.votes_for + w ELSE p.votes_for
      /\ c.votes_against = IF support THEN p.votes_against ELSE p.votes_against + w
      /\ c.end_ledger = p.end_ledger /\ c.status = p.status
  BY DEF Counted, Proposal
<1>3. c.votes_for <= MaxI128 /\ c.votes_against <= MaxI128
  BY DEF I128
<1>4. c \in [end_ledger : 0 .. MaxLedger, votes_for : Int, votes_against : Int,
             status : Status]
  <2>1. p \in [end_ledger : 0 .. MaxLedger, votes_for : Int, votes_against : Int,
              status : Status]
    BY DEF Proposal
  <2>2. \A m, n \in Int :
            [p EXCEPT !.votes_for = m, !.votes_against = n]
                \in [end_ledger : 0 .. MaxLedger, votes_for : Int, votes_against : Int,
                     status : Status]
    BY <2>1
  <2>3. PICK m \in Int, n \in Int :
            c = [p EXCEPT !.votes_for = m, !.votes_against = n]
    <3> DEFINE m == IF support THEN p.votes_for + w ELSE p.votes_for
               n == IF support THEN p.votes_against ELSE p.votes_against + w
    <3>1. m \in Int /\ n \in Int
      BY <1>1
    <3>2. c = [p EXCEPT !.votes_for = m, !.votes_against = n]
      BY DEF Counted
    <3> HIDE DEF m, n, c
    <3> QED BY <3>1, <3>2
  <2> QED BY <2>2, <2>3
<1> HIDE DEF c
<1>5. c \in Proposal
  BY <1>1, <1>2, <1>3, <1>4 DEF Proposal
<1>6. c # NoProposal
  BY <1>5
<1>7. c.votes_for + c.votes_against = p.votes_for + p.votes_against + w
  BY <1>1, <1>2
<1>8. w <= MaxI128
  BY <1>1, <1>2, <1>3
<1> QED BY <1>2, <1>5, <1>6, <1>7, <1>8 DEF c

(***************************************************************************)
(* What the three kinds of write do, proposal by proposal.                 *)
(***************************************************************************)
ProposalWritten(id, p) ==
    /\ proposal' \in [ProposalId -> Proposal \cup {NoProposal}]
    /\ proposal'[id] = p
    /\ p # NoProposal
    /\ \A i \in ProposalId \ {id} : proposal'[i] = proposal[i]

OpenWrites(id) ==
    /\ id = nextProposalId /\ id \in ProposalId
    /\ ProposalWritten(id, Opened(ledger + config.voting_period))
    /\ ledger + config.voting_period \in ledger .. MaxLedger
    /\ voted' \in [ProposalId -> [Account -> 0 .. MaxI128]]
    /\ voted'[id] = NoVotes
    /\ \A i \in ProposalId \ {id} : voted'[i] = voted[i]

VoteWrites(voter, id, support) ==
    /\ proposal[id] \in Proposal
    /\ proposal[id].status = "Active"
    /\ tokens[voter] \in 1 .. MaxI128
    /\ ProposalWritten(id, Counted(proposal[id], tokens[voter], support))
    /\ voted' \in [ProposalId -> [Account -> 0 .. MaxI128]]
    /\ voted[id][voter] = 0
    /\ voted'[id][voter] = tokens[voter]
    /\ \A a \in Account \ {voter} : voted'[id][a] = voted[id][a]
    /\ \A i \in ProposalId \ {id} : voted'[i] = voted[i]

StatusWrites(id, s) ==
    /\ proposal[id] \in Proposal
    /\ ProposalWritten(id, WithStatus(proposal[id], s))

LEMMA ConfigTypes ==
    ASSUME TypeOK
    PROVE  config.voting_period \in Nat /\ config.quorum \in Int /\ config.approval_bps \in Nat
BY GovernanceAssumption DEF TypeOK, Config, Unset

LEMMA ProposeEffect ==
    ASSUME TypeOK, NEW auth, NEW proposer, Propose(auth, proposer)
    PROVE  OpenWrites(nextProposalId)
<1> DEFINE id == nextProposalId
           end == ledger + config.voting_period
<1>1. id \in ProposalId
  BY GovernanceAssumption DEF TypeOK, ProposalId, Propose
<1>2. end \in ledger .. MaxLedger /\ end \in 0 .. MaxLedger
  BY ConfigTypes, GovernanceAssumption DEF TypeOK, Propose
<1>3. Opened(end) \in Proposal /\ Opened(end) # NoProposal
  BY <1>2, OpenedProposal, Zenon
<1>4. proposal' = [proposal EXCEPT ![id] = Opened(end)]
  BY DEF Propose, Opened
<1>5. proposal \in [ProposalId -> Proposal \cup {NoProposal}]
  BY DEF TypeOK
<1>6. voted' = [voted EXCEPT ![id] = NoVotes]
  BY DEF Propose, NoVotes
<1>7. voted \in [ProposalId -> [Account -> 0 .. MaxI128]]
  BY DEF TypeOK
<1>8. NoVotes \in [Account -> 0 .. MaxI128]
  BY GovernanceAssumption DEF NoVotes
<1> HIDE DEF id, end
<1>9. ProposalWritten(id, Opened(end))
  BY <1>1, <1>3, <1>4, <1>5 DEF ProposalWritten
<1>10. /\ voted' \in [ProposalId -> [Account -> 0 .. MaxI128]]
       /\ voted'[id] = NoVotes
       /\ \A i \in ProposalId \ {id} : voted'[i] = voted[i]
  BY <1>1, <1>6, <1>7, <1>8
<1> QED BY <1>1, <1>2, <1>9, <1>10 DEF OpenWrites, id, end

LEMMA VoteEffect ==
    ASSUME TypeOK, NEW auth, NEW voter \in Account, NEW id \in ProposalId,
           NEW support \in BOOLEAN, Vote(auth, voter, id, support)
    PROVE  VoteWrites(voter, id, support)
<1> DEFINE w == tokens[voter]
           after == Counted(proposal[id], w, support)
<1>1. proposal[id] \in Proposal /\ proposal[id].status = "Active"
  BY DEF TypeOK, Vote, MayVote, Is
<1>2. w \in Nat /\ w > 0 /\ voted[id][voter] = 0
  BY DEF TypeOK, Vote, MayVote, has_voted
<1>3. /\ {after.votes_for, after.votes_against} \subseteq I128
      /\ proposal' = [proposal EXCEPT ![id] = after]
      /\ voted' = [voted EXCEPT ![id][voter] = w]
  BY DEF Vote
<1>4. after \in Proposal /\ after # NoProposal /\ w <= MaxI128
  BY <1>1, <1>2, <1>3, CountedVote
<1>5. proposal \in [ProposalId -> Proposal \cup {NoProposal}]
  BY DEF TypeOK
<1>6. voted \in [ProposalId -> [Account -> 0 .. MaxI128]]
  BY DEF TypeOK
<1>7. w \in 1 .. MaxI128 /\ w \in 0 .. MaxI128
  BY <1>2, <1>4, GovernanceAssumption
<1> HIDE DEF w, after
<1>8. ProposalWritten(id, after)
  BY <1>3, <1>4, <1>5 DEF ProposalWritten
<1>9. /\ voted' \in [ProposalId -> [Account -> 0 .. MaxI128]]
      /\ voted'[id][voter] = w
      /\ \A a \in Account \ {voter} : voted'[id][a] = voted[id][a]
      /\ \A i \in ProposalId \ {id} : voted'[i] = voted[i]
  BY <1>3, <1>6, <1>7
<1> QED BY <1>1, <1>2, <1>7, <1>8, <1>9 DEF VoteWrites, after, w

LEMMA StatusEffect ==
    ASSUME TypeOK, NEW id \in ProposalId, NEW s \in Status, NEW before, Is(id, before),
           proposal' = [proposal EXCEPT ![id].status = s]
    PROVE  StatusWrites(id, s)
<1>1. /\ proposal \in [ProposalId -> Proposal \cup {NoProposal}]
      /\ proposal[id] \in Proposal
  BY DEF TypeOK, Is
<1>2. WithStatus(proposal[id], s) \in Proposal /\ WithStatus(proposal[id], s) # NoProposal
  BY <1>1, StatusChange, Zenon
<1>3. proposal' = [proposal EXCEPT ![id] = WithStatus(proposal[id], s)]
  BY <1>1 DEF WithStatus
<1> QED BY <1>1, <1>2, <1>3 DEF StatusWrites, ProposalWritten

LEMMA OutcomeIsStatus ==
    ASSUME NEW p
    PROVE  Outcome(p) \in {"Passed", "Rejected"} /\ Outcome(p) \in Status
BY DEF Outcome, Status

-----------------------------------------------------------------------------
LEMMA InitType == Init => TypeOK
BY GovernanceAssumption
   DEF Init, TypeOK, ProposalId

(***************************************************************************)
(* Every step keeps the types: the guards bound the ids, the tallies (and  *)
(* through them the weights) and the ledgers.                              *)
(***************************************************************************)
LEMMA StepType == TypeOK /\ [Next]_vars => TypeOK'
<1> SUFFICES ASSUME TypeOK, [Next]_vars PROVE TypeOK'
  OBVIOUS
<1>1. ASSUME NEW s \in Account, NEW a \in Account, NEW c \in Configs,
             Initialize({s}, a, c)
      PROVE  TypeOK'
  BY <1>1, GovernanceAssumption DEF Initialize, TypeOK
<1>2. ASSUME NEW s \in Account, NEW c \in Configs, UpdateConfig({s}, c)
      PROVE  TypeOK'
  BY <1>2 DEF UpdateConfig, TypeOK
<1>3. ASSUME NEW s \in Account, NEW a \in Account, Propose({s}, a)
      PROVE  TypeOK'
  <2>1. OpenWrites(nextProposalId)
    BY <1>3, ProposeEffect
  <2>2. nextProposalId' \in 0 .. MaxU32 /\ UNCHANGED <<admin, config, tokens, ledger>>
    BY <1>3, GovernanceAssumption DEF Propose, TypeOK
  <2> QED BY <2>1, <2>2 DEF OpenWrites, ProposalWritten, TypeOK
<1>4. ASSUME NEW s \in Account, NEW a \in Account, NEW id \in ProposalId,
             NEW support \in BOOLEAN, Vote({s}, a, id, support)
      PROVE  TypeOK'
  <2>1. VoteWrites(a, id, support)
    BY <1>4, VoteEffect
  <2>2. UNCHANGED <<admin, config, nextProposalId, tokens, ledger>>
    BY <1>4 DEF Vote
  <2> QED BY <2>1, <2>2 DEF VoteWrites, ProposalWritten, TypeOK
<1>5. ASSUME NEW id \in ProposalId, NEW s \in Status, StatusWrites(id, s),
             UNCHANGED <<admin, config, nextProposalId, voted, tokens, ledger>>
      PROVE  TypeOK'
  BY <1>5 DEF StatusWrites, ProposalWritten, TypeOK
<1>6. ASSUME NEW s \in Account, NEW id \in ProposalId,
             MarkExecuted({s}, id) \/ Cancel({s}, id)
      PROVE  TypeOK'
  <2>1. StatusWrites(id, "Executed") \/ StatusWrites(id, "Cancelled")
    BY <1>6, StatusEffect DEF MarkExecuted, Cancel, Status
  <2>2. UNCHANGED <<admin, config, nextProposalId, voted, tokens, ledger>>
    BY <1>6 DEF MarkExecuted, Cancel
  <2> QED BY <1>5, <2>1, <2>2 DEF Status
<1>7. ASSUME NEW s \in Account, NEW to \in Account, NEW amount \in 0 .. tokens[s],
             TokenTransfer(s, to, amount)
      PROVE  TypeOK'
  <2>1. tokens' \in [Account -> Nat]
    BY <1>7, TransferEffect DEF TokenTransfer, TypeOK
  <2> QED BY <1>7, <2>1 DEF TokenTransfer, TypeOK
<1>8. ASSUME NEW id \in ProposalId, Finalise(id)
      PROVE  TypeOK'
  <2>1. StatusWrites(id, Outcome(proposal[id]))
    BY <1>8, StatusEffect, OutcomeIsStatus DEF Finalise
  <2>2. UNCHANGED <<admin, config, nextProposalId, voted, tokens, ledger>>
    BY <1>8 DEF Finalise
  <2> QED BY <1>5, <2>1, <2>2, OutcomeIsStatus
<1>9. CASE Tick
  BY <1>9, GovernanceAssumption DEF Tick, TypeOK
<1>10. CASE UNCHANGED vars
  BY <1>10 DEF vars, TypeOK
<1> QED BY <1>1, <1>2, <1>3, <1>4, <1>6, <1>7, <1>8, <1>9, <1>10 DEF Next

(***************************************************************************)
(* Every variable has its type, whatever the widths of the counters are.   *)
(***************************************************************************)
THEOREM TypeCorrect == Spec => []TypeOK
BY InitType, StepType, PTL DEF Spec

(***************************************************************************)
(* The recorded weights of a proposal are a function of their own, and a   *)
(* weight in place of a 0 adds as much to their sum.                       *)
(***************************************************************************)
LEMMA WeightsAreVoted ==
    ASSUME TypeOK, NEW id \in ProposalId
    PROVE  [a \in Account |-> vote_weight(id, a)] = voted[id]
BY DEF TypeOK, vote_weight

LEMMA VoteAdds ==
    ASSUME TypeOK, NEW voter \in Account, NEW id \in ProposalId, NEW support,
           VoteWrites(voter, id, support)
    PROVE  Total(voted'[id]) = Total(voted[id]) + tokens[voter]
<1>1. /\ voted[id] \in [Account -> 0 .. MaxI128]
      /\ voted'[id] \in [Account -> 0 .. MaxI128]
      /\ \A a \in Account \ {voter} : voted'[id][a] = voted[id][a]
  BY DEF TypeOK, VoteWrites
<1>2. MaxI128 \in Nat /\ IsFiniteSet(Account)
  BY GovernanceAssumption
<1>3. Total(voted'[id]) = Total(voted[id]) - voted[id][voter] + voted'[id][voter]
  BY <1>1, <1>2, TotalChange
<1>4. Total(voted[id]) \in Nat
  BY <1>1, <1>2, UnitsFinite
<1>5. voted[id][voter] = 0 /\ voted'[id][voter] = tokens[voter] /\ tokens[voter] \in Nat
  BY <1>2 DEF VoteWrites
<1> QED BY <1>3, <1>4, <1>5

Tally(id) ==
    proposal[id] # NoProposal =>
        proposal[id].votes_for + proposal[id].votes_against = Total(voted[id])

LEMMA TallyByProposal ==
    ASSUME TypeOK
    PROVE  TallyExact <=> \A id \in ProposalId : Tally(id)
BY WeightsAreVoted DEF TallyExact, Tally

LEMMA TallyAfter ==
    ASSUME TypeOK'
    PROVE  TallyExact' <=> \A id \in ProposalId : Tally(id)'
<1>1. ASSUME NEW id \in ProposalId
      PROVE  [a \in Account |-> vote_weight(id, a)'] = voted'[id]
  BY DEF TypeOK, vote_weight
<1> QED BY <1>1 DEF TallyExact, Tally

(***************************************************************************)
(* Only propose and vote write a tally or a weight, and they write both.   *)
(***************************************************************************)
LEMMA StepTally == TypeOK /\ TallyExact /\ [Next]_vars => TallyExact'
<1> SUFFICES ASSUME TypeOK, TallyExact, [Next]_vars PROVE TallyExact'
  OBVIOUS
<1>0. TypeOK' /\ \A i \in ProposalId : Tally(i)
  BY StepType, TallyByProposal
<1> SUFFICES ASSUME NEW i \in ProposalId PROVE Tally(i)'
  BY <1>0, TallyAfter
<1>a. Tally(i)
  BY <1>0
<1>b. ASSUME UNCHANGED <<proposal, voted>> PROVE Tally(i)'
  BY <1>a, <1>b DEF Tally
<1>1. ASSUME NEW s \in Account, NEW a \in Account, Propose({s}, a)
      PROVE  Tally(i)'
  <2> DEFINE id == nextProposalId
             end == ledger + config.voting_period
  <2>1. OpenWrites(id)
    BY <1>1, ProposeEffect
  <2>2. CASE i = id
    <3>1. end \in 0 .. MaxLedger
      BY <2>1, GovernanceAssumption DEF OpenWrites, TypeOK
    <3>2. Opened(end).votes_for = 0 /\ Opened(end).votes_against = 0
      BY <3>1, OpenedProposal, Zenon
    <3>3. proposal'[i] = Opened(end) /\ voted'[i] = NoVotes
      BY <2>1, <2>2 DEF OpenWrites, ProposalWritten
    <3>4. Total(NoVotes) = 0
      BY TotalZero DEF NoVotes
    <3> HIDE DEF end
    <3> QED BY <3>2, <3>3, <3>4 DEF Tally
  <2>3. CASE i # id
    BY <1>a, <2>1, <2>3 DEF OpenWrites, ProposalWritten, Tally
  <2> QED BY <2>2, <2>3
<1>2. ASSUME NEW s \in Account, NEW a \in Account, NEW id \in ProposalId,
             NEW support \in BOOLEAN, Vote({s}, a, id, support)
      PROVE  Tally(i)'
  <2> DEFINE p == proposal[id]
             w == tokens[a]
             after == Counted(p, w, support)
  <2>1. VoteWrites(a, id, support)
    BY <1>2, VoteEffect
  <2>2. CASE i = id
    <3>1. {after.votes_for, after.votes_against} \subseteq I128
      BY <1>2 DEF Vote
    <3>2. /\ p \in Proposal /\ p # NoProposal /\ w \in Nat
          /\ proposal'[id] = after
      BY <2>1, GovernanceAssumption DEF VoteWrites, ProposalWritten
    <3>3. after.votes_for + after.votes_against = p.votes_for + p.votes_against + w
      BY <3>1, <3>2, CountedVote
    <3>4. Total(voted'[id]) = Total(voted[id]) + w
      BY <2>1, VoteAdds
    <3>5. p.votes_for + p.votes_against = Total(voted[id])
      BY <1>a, <2>2, <3>2 DEF Tally
    <3>6. proposal'[id].votes_for + proposal'[id].votes_against = Total(voted'[id])
      BY <3>2, <3>3, <3>4, <3>5
    <3> QED BY <2>2, <3>6 DEF Tally
  <2>3. CASE i # id
    BY <1>a, <2>1, <2>3 DEF VoteWrites, ProposalWritten, Tally
  <2> QED BY <2>2, <2>3
<1>3. ASSUME NEW id \in ProposalId, NEW s \in Status, StatusWrites(id, s), UNCHANGED voted
      PROVE  Tally(i)'
  <2>1. CASE i = id
    <3>1. proposal[id] \in Proposal /\ proposal'[id] = WithStatus(proposal[id], s)
      BY <1>3 DEF StatusWrites, ProposalWritten
    <3>2. /\ proposal'[id].votes_for = proposal[id].votes_for
          /\ proposal'[id].votes_against = proposal[id].votes_against
          /\ proposal[id] # NoProposal
      BY <3>1, StatusChange, GovernanceAssumption
    <3> QED BY <1>a, <1>3, <2>1, <3>2 DEF Tally
  <2>2. CASE i # id
    BY <1>a, <1>3, <2>2 DEF StatusWrites, ProposalWritten, Tally
  <2> QED BY <2>1, <2>2
<1>4. ASSUME NEW s \in Account, NEW id \in ProposalId,
             MarkExecuted({s}, id) \/ Cancel({s}, id)
      PROVE  Tally(i)'
  <2>1. (StatusWrites(id, "Executed") \/ StatusWrites(id, "Cancelled")) /\ UNCHANGED voted
    BY <1>4, StatusEffect DEF MarkExecuted, Cancel, Status
  <2> QED BY <1>3, <2>1 DEF Status
<1>5. ASSUME NEW id \in ProposalId, Finalise(id)
      PROVE  Tally(i)'
  <2>1. StatusWrites(id, Outcome(proposal[id])) /\ UNCHANGED voted
    BY <1>5, StatusEffect, OutcomeIsStatus DEF Finalise
  <2> QED BY <1>3, <2>1, OutcomeIsStatus
<1>6. ASSUME NEW s \in Account,
             \/ \E a \in Account, c \in Configs : Initialize({s}, a, c)
             \/ \E c \in Configs : UpdateConfig({s}, c)
             \/ \E to \in Account, amount \in 0 .. tokens[s] : TokenTransfer(s, to, amount)
      PROVE  Tally(i)'
  BY <1>b, <1>6 DEF Initialize, UpdateConfig, TokenTransfer
<1>7. CASE Tick \/ UNCHANGED vars
  BY <1>b, <1>7 DEF Tick, vars
<1> QED BY <1>1, <1>2, <1>4, <1>5, <1>6, <1>7 DEF Next

(***************************************************************************)
(* What a proposal has for and against it is exactly the weights that are  *)
(* recorded for it, in every reachable state.                              *)
(***************************************************************************)
THEOREM TallyIsExact == Spec => []TallyExact
<1>1. Init => TallyExact
  BY DEF Init, TallyExact
<1> QED BY <1>1, InitType, StepType, StepTally, PTL DEF Spec

-----------------------------------------------------------------------------
(***************************************************************************)
(* The variables of the ballot, as the refinement mapping gives them, and  *)
(* what each shows of one proposal.                                        *)
(***************************************************************************)
PhaseOf(p) ==
    CASE p # NoProposal /\ p.status = "Active" -> "voting"
      [] p # NoProposal /\ p.status = "Passed" -> "accepted"
      [] p # NoProposal /\ p.status = "Rejected" -> "refused"
      [] p # NoProposal /\ p.status = "Executed" -> "done"
      [] p # NoProposal /\ p.status = "Cancelled" -> "withdrawn"
      [] OTHER -> "none"

Over(p, l) == p # NoProposal /\ l > p.end_ledger

ForVotes(p) == IF p # NoProposal THEN p.votes_for ELSE 0

PollPhase == [id \in ProposalId |-> PhaseOf(proposal[id])]
PollClosed == {id \in ProposalId : Over(proposal[id], ledger)}
PollFor == [id \in ProposalId |-> ForVotes(proposal[id])]

LEMMA PollState ==
    /\ [id \in ProposalId |-> Phase(id)] = PollPhase
    /\ {id \in Proposed : ledger > proposal[id].end_ledger} = PollClosed
    /\ [id \in ProposalId |->
            IF id \in Proposed THEN proposal[id].votes_for ELSE 0] = PollFor
BY DEF PollPhase, PollClosed, PollFor, Phase, PhaseOf, Is, Proposed, Over, ForVotes

LEMMA PollStateAfter ==
    /\ [id \in ProposalId |-> Phase(id)]' = PollPhase'
    /\ {id \in Proposed : ledger > proposal[id].end_ledger}' = PollClosed'
    /\ [id \in ProposalId |->
            IF id \in Proposed THEN proposal[id].votes_for ELSE 0]' = PollFor'
<1>1. [id \in ProposalId |-> Phase(id)]' = PollPhase'
  BY DEF PollPhase, Phase, PhaseOf, Is
<1>2. {id \in Proposed : ledger > proposal[id].end_ledger}' = PollClosed'
  BY DEF PollClosed, Proposed, Over
<1>3. [id \in ProposalId |->
           IF id \in Proposed THEN proposal[id].votes_for ELSE 0]' = PollFor'
  BY DEF PollFor, Proposed, ForVotes
<1> QED BY <1>1, <1>2, <1>3

(***************************************************************************)
(* The steps of the ballot, said of these.                                 *)
(***************************************************************************)
LEMMA PollStutters ==
    UNCHANGED <<PollPhase, PollClosed, voted, PollFor, config>> => UNCHANGED Poll!vars
BY PollState, PollStateAfter DEF Poll!vars

LEMMA PollMoves ==
    ASSUME NEW m, NEW before, NEW after,
           PollPhase[m] = before,
           PollPhase' = [PollPhase EXCEPT ![m] = after],
           UNCHANGED <<PollClosed, voted, PollFor, config>>
    PROVE  Poll!Moves(m, before, after)
BY PollState, PollStateAfter DEF Poll!Moves

LEMMA PollAdopts ==
    ASSUME config' \in Configs, ValidConfig(config'),
           UNCHANGED <<PollPhase, PollClosed, voted, PollFor>>
    PROVE  Poll!Adopt
BY PollState, PollStateAfter DEF Poll!Adopt

LEMMA PollCast ==
    ASSUME NEW m, NEW v, NEW weight \in 1 .. Total(Minted),
           PollPhase[m] = "voting", m \notin PollClosed, voted[m][v] = 0,
           voted' = [voted EXCEPT ![m][v] = weight],
           PollFor' \in {PollFor, [PollFor EXCEPT ![m] = @ + weight]},
           UNCHANGED <<PollPhase, PollClosed, config>>
    PROVE  Poll!Cast(m, v)
<1> DEFINE for == [id \in ProposalId |->
                       IF id \in Proposed THEN proposal[id].votes_for ELSE 0]
<1>1. \E w \in 1 .. Total(Minted) :
          /\ voted' = [voted EXCEPT ![m][v] = w]
          /\ for' \in {for, [for EXCEPT ![m] = @ + w]}
  BY PollState, PollStateAfter
<1> QED BY <1>1, PollState, PollStateAfter DEF Poll!Cast

LEMMA PollCloses ==
    ASSUME PollClosed \subseteq PollClosed',
           \A m \in PollClosed' : PollPhase[m] # "none",
           UNCHANGED <<PollPhase, voted, PollFor, config>>
    PROVE  Poll!Close
BY PollState, PollStateAfter DEF Poll!Close

LEMMA PollDecides ==
    ASSUME NEW m, config \in Configs, ValidConfig(config),
           m \in PollClosed, PollPhase[m] = "voting",
           PollPhase' = [PollPhase EXCEPT ![m] =
               IF Passes(config, PollFor[m], Total(voted[m])) THEN "accepted" ELSE "refused"],
           UNCHANGED <<PollClosed, voted, PollFor, config>>
    PROVE  Poll!Decide(m)
<1> DEFINE for == [id \in ProposalId |->
                       IF id \in Proposed THEN proposal[id].votes_for ELSE 0]
<1>1. Poll!Total(voted[m]) = Total(voted[m])
  BY Zenon DEF Poll!Total, Poll!Units, Poll!Cardinality, Total, Units, Cardinality
<1>2. for = PollFor
  BY PollState
<1>3. Poll!Moves(m, "voting",
          IF Passes(config, for[m], Poll!Total(voted[m])) THEN "accepted" ELSE "refused")
  BY <1>1, <1>2, PollMoves
<1>4. config \in {r \in Configs : ValidConfig(r)}
  OBVIOUS
<1>5. m \in {id \in Proposed : ledger > proposal[id].end_ledger}
  BY PollState
<1> QED BY <1>3, <1>4, <1>5 DEF Poll!Decide

(***************************************************************************)
(* What a written proposal changes in them.                                *)
(***************************************************************************)
LEMMA PollWritten ==
    ASSUME NEW id \in ProposalId, NEW p, ProposalWritten(id, p)
    PROVE  /\ PollPhase' = [PollPhase EXCEPT ![id] = PhaseOf(p)]
           /\ PollFor' = [PollFor EXCEPT ![id] = ForVotes(p)]
           /\ UNCHANGED ledger /\ (Over(p, ledger) <=> Over(proposal[id], ledger))
                  => UNCHANGED PollClosed
<1>1. \A i \in ProposalId : proposal'[i] = IF i = id THEN p ELSE proposal[i]
  BY DEF ProposalWritten
<1>2. PollPhase' = [PollPhase EXCEPT ![id] = PhaseOf(p)]
  BY <1>1 DEF PollPhase
<1>3. PollFor' = [PollFor EXCEPT ![id] = ForVotes(p)]
  BY <1>1 DEF PollFor
<1>4. ASSUME UNCHANGED ledger, Over(p, ledger) <=> Over(proposal[id], ledger)
      PROVE  UNCHANGED PollClosed
  <2>1. \A i \in ProposalId : Over(proposal'[i], ledger') <=> Over(proposal[i], ledger)
    BY <1>1, <1>4
  <2> QED BY <2>1 DEF PollClosed
<1> QED BY <1>2, <1>3, <1>4

-----------------------------------------------------------------------------
(***************************************************************************)
(* The other parts of the invariant.                                       *)
(***************************************************************************)
LEMMA MintedTotal == Total(Minted) \in Nat /\ Minted \in [Account -> 0 .. Total(Minted)]
<1>1. MaxI128 \in Nat /\ IsFiniteSet(Account) /\ Minted \in [Account -> 0 .. MaxI128]
  BY GovernanceAssumption
<1>2. Total(Minted) \in Nat
  BY <1>1, UnitsFinite
<1>3. \A a \in Account : Minted[a] <= Total(Minted) /\ Minted[a] \in Nat
  BY <1>1, TotalBound
<1> QED BY <1>1, <1>2, <1>3

LEMMA InitInv == Init => IInv
<1> SUFFICES ASSUME Init PROVE IInv
  OBVIOUS
<1>1. TypeOK
  BY InitType
<1>2. Supply
  BY MintedTotal DEF Init, Supply
<1>3. TallyExact /\ BeforeInitialize /\ Fresh /\ RulesInForce
  BY DEF Init, TallyExact, BeforeInitialize, Fresh, NoVotes, RulesInForce
<1> QED BY <1>1, <1>2, <1>3 DEF IInv

(***************************************************************************)
(* Transfers are all that moves tokens, and they keep their number.        *)
(***************************************************************************)
LEMMA StepSupply == Supply /\ [Next]_vars => Supply'
<1> SUFFICES ASSUME Supply, [Next]_vars PROVE Supply'
  OBVIOUS
<1>1. ASSUME NEW s \in Account, NEW to \in Account, NEW amount \in 0 .. tokens[s],
             TokenTransfer(s, to, amount)
      PROVE  Supply'
  <2> DEFINE M == Total(Minted)
  <2>1. M \in Nat /\ IsFiniteSet(Account) /\ Total(tokens) = M
    BY MintedTotal, GovernanceAssumption DEF Supply
  <2>2. /\ tokens \in [Account -> 0 .. M] /\ amount \in Int
        /\ CanTransfer(tokens, s, amount)
        /\ tokens' = Transferred(tokens, s, to, amount)
    BY <1>1 DEF Supply, TokenTransfer
  <2> HIDE DEF M
  <2>3. Total(tokens') = M /\ tokens' \in [Account -> 0 .. M]
    BY <2>1, <2>2, TransferConserves
  <2> QED BY <2>3 DEF Supply, M
<1>2. ASSUME UNCHANGED tokens PROVE Supply'
  BY <1>2 DEF Supply
<1> QED
  BY <1>1, <1>2 DEF Next, Initialize, UpdateConfig, Propose, Vote, MarkExecuted, Cancel,
                    Finalise, Tick, vars

(***************************************************************************)
(* Ids are used from 0 upwards, and the counter is set back by initialize  *)
(* only, when none has been used.                                          *)
(***************************************************************************)
LEMMA StepFresh ==
    /\ TypeOK /\ BeforeInitialize /\ Fresh /\ [Next]_vars
    => BeforeInitialize' /\ Fresh'
<1> SUFFICES ASSUME TypeOK, BeforeInitialize, Fresh, [Next]_vars
             PROVE  BeforeInitialize' /\ Fresh'
  OBVIOUS
<1> USE DEF BeforeInitialize, Fresh
<1>1. ASSUME NEW s \in Account, NEW a \in Account, NEW c \in Configs,
             Initialize({s}, a, c)
      PROVE  BeforeInitialize' /\ Fresh'
  BY <1>1, GovernanceAssumption DEF Initialize
<1>2. ASSUME NEW s \in Account, NEW a \in Account, Propose({s}, a)
      PROVE  BeforeInitialize' /\ Fresh'
  <2>1. OpenWrites(nextProposalId)
    BY <1>2, ProposeEffect
  <2>2. nextProposalId' = nextProposalId + 1 /\ admin' = admin /\ admin # NoAdmin
    BY <1>2 DEF Propose
  <2>3. nextProposalId \in Nat
    BY GovernanceAssumption DEF TypeOK
  <2>4. ASSUME NEW id \in ProposalId, id >= nextProposalId'
        PROVE  proposal'[id] = NoProposal /\ voted'[id] = NoVotes
    <3>1. id # nextProposalId /\ id >= nextProposalId
      BY <2>2, <2>3, <2>4, GovernanceAssumption DEF ProposalId
    <3> QED BY <2>1, <3>1 DEF OpenWrites, ProposalWritten
  <2> QED BY <2>2, <2>4 DEF NoVotes
<1>3. ASSUME NEW id \in ProposalId, NEW p, ProposalWritten(id, p), proposal[id] # NoProposal,
             \A i \in ProposalId \ {id} : voted'[i] = voted[i],
             UNCHANGED <<admin, nextProposalId>>
      PROVE  BeforeInitialize' /\ Fresh'
  BY <1>3 DEF ProposalWritten, NoVotes
<1>4. ASSUME NEW s \in Account, NEW a \in Account, NEW id \in ProposalId,
             NEW support \in BOOLEAN, Vote({s}, a, id, support)
      PROVE  BeforeInitialize' /\ Fresh'
  <2>1. VoteWrites(a, id, support)
    BY <1>4, VoteEffect
  <2>2. UNCHANGED <<admin, nextProposalId>> /\ proposal[id] # NoProposal
    BY <1>4 DEF Vote, MayVote, Is
  <2> QED BY <1>3, <2>1, <2>2 DEF VoteWrites
<1>5. ASSUME NEW s \in Account, NEW id \in ProposalId,
             MarkExecuted({s}, id) \/ Cancel({s}, id)
      PROVE  BeforeInitialize' /\ Fresh'
  <2>1. StatusWrites(id, "Executed") \/ StatusWrites(id, "Cancelled")
    BY <1>5, StatusEffect DEF MarkExecuted, Cancel, Status
  <2>2. UNCHANGED <<admin, nextProposalId, voted>> /\ proposal[id] # NoProposal
    BY <1>5 DEF MarkExecuted, Cancel, Is
  <2> QED BY <1>3, <2>1, <2>2 DEF StatusWrites
<1>6. ASSUME NEW id \in ProposalId, Finalise(id)
      PROVE  BeforeInitialize' /\ Fresh'
  <2>1. StatusWrites(id, Outcome(proposal[id]))
    BY <1>6, StatusEffect, OutcomeIsStatus DEF Finalise
  <2>2. UNCHANGED <<admin, nextProposalId, voted>> /\ proposal[id] # NoProposal
    BY <1>6 DEF Finalise, Is
  <2> QED BY <1>3, <2>1, <2>2 DEF StatusWrites
<1>7. ASSUME UNCHANGED <<admin, nextProposalId, proposal, voted>>
      PROVE  BeforeInitialize' /\ Fresh'
  BY <1>7 DEF NoVotes
<1> QED
  BY <1>1, <1>2, <1>4, <1>5, <1>6, <1>7
     DEF Next, UpdateConfig, TokenTransfer, Tick, vars

(***************************************************************************)
(* The parameters in force have always been checked.                       *)
(***************************************************************************)
LEMMA StepRules == RulesInForce /\ [Next]_vars => RulesInForce'
BY DEF RulesInForce, Next, Initialize, UpdateConfig, Propose, Vote, MarkExecuted, Cancel,
       TokenTransfer, Finalise, Tick, vars

LEMMA StepInv == IInv /\ [Next]_vars => IInv'
BY StepType, StepTally, StepSupply, StepFresh, StepRules DEF IInv

-----------------------------------------------------------------------------
(***************************************************************************)
(* Every step of the contract is one of the ballot, or leaves it alone.    *)
(***************************************************************************)
LEMMA InitBallot == Init => Poll!Init
BY DEF Init, Poll!Init, Phase, Is, Proposed

LEMMA StepBallot == IInv /\ [Next]_vars => [Poll!Next]_(Poll!vars)
<1> SUFFICES ASSUME IInv, [Next]_vars PROVE [Poll!Next]_(Poll!vars)
  OBVIOUS
<1> USE DEF IInv
<1>a. MaxLedger \in Nat /\ ledger \in Nat
  BY GovernanceAssumption DEF TypeOK
<1>b. admin # NoAdmin => config \in {c \in Configs : ValidConfig(c)}
  BY DEF RulesInForce
<1>1. ASSUME NEW s \in Account, NEW a \in Account, Propose({s}, a)
      PROVE  [Poll!Next]_(Poll!vars)
  <2> DEFINE id == nextProposalId
             end == ledger + config.voting_period
  <2>1. OpenWrites(id) /\ UNCHANGED <<ledger, config>> /\ admin # NoAdmin
    BY <1>1, ProposeEffect DEF Propose
  <2>2. /\ id \in ProposalId /\ end \in 0 .. MaxLedger /\ end >= ledger
        /\ ProposalWritten(id, Opened(end))
    BY <1>a, <2>1 DEF OpenWrites
  <2>3. proposal[id] = NoProposal /\ voted[id] = NoVotes
    BY <2>2, <1>a, GovernanceAssumption DEF Fresh, ProposalId
  <2> HIDE DEF end, id
  <2>4. /\ Opened(end).status = "Active" /\ Opened(end) # NoProposal
        /\ Opened(end).end_ledger = end /\ Opened(end).votes_for = 0
    BY <2>2, OpenedProposal
  <2>5. PollPhase[id] = "none" /\ PhaseOf(Opened(end)) = "voting"
    BY <2>2, <2>3, <2>4 DEF PollPhase, PhaseOf
  <2>6. ~Over(proposal[id], ledger) /\ ~Over(Opened(end), ledger)
    BY <1>a, <2>2, <2>3, <2>4 DEF Over
  <2>7. ForVotes(Opened(end)) = 0 /\ PollFor[id] = 0
    BY <2>2, <2>3, <2>4 DEF ForVotes, PollFor
  <2>8. /\ PollPhase' = [PollPhase EXCEPT ![id] = "voting"]
        /\ PollFor' = [PollFor EXCEPT ![id] = 0]
        /\ UNCHANGED PollClosed
    BY <2>1, <2>2, <2>5, <2>6, <2>7, PollWritten
  <2>9. PollFor' = PollFor
    BY <2>7, <2>8 DEF PollFor
  <2>10. voted' = voted
    <3>1. /\ voted \in [ProposalId -> [Account -> 0 .. MaxI128]]
          /\ voted' \in [ProposalId -> [Account -> 0 .. MaxI128]]
      BY <2>1 DEF OpenWrites, TypeOK
    <3>2. \A i \in ProposalId : voted'[i] = voted[i]
      BY <2>1, <2>3 DEF OpenWrites
    <3> QED BY <3>1, <3>2
  <2>11. Poll!Moves(id, "none", "voting")
    BY <2>1, <2>5, <2>8, <2>9, <2>10, PollMoves
  <2>12. Poll!Open(id)
    BY <1>b, <2>1, <2>11 DEF Poll!Open
  <2> QED BY <2>2, <2>12 DEF Poll!Next
<1>2. ASSUME NEW s \in Account, NEW a \in Account, NEW id \in ProposalId,
             NEW support \in BOOLEAN, Vote({s}, a, id, support)
      PROVE  [Poll!Next]_(Poll!vars)
  <2> DEFINE p == proposal[id]
             w == tokens[a]
             after == Counted(p, w, support)
  <2>1. VoteWrites(a, id, support) /\ UNCHANGED <<ledger, config>>
    BY <1>2, VoteEffect DEF Vote
  <2>2. /\ p \in Proposal /\ p # NoProposal /\ p.status = "Active" /\ w \in Nat
        /\ ProposalWritten(id, after) /\ voted[id][a] = 0
    BY <2>1, GovernanceAssumption DEF VoteWrites
  <2>3. {after.votes_for, after.votes_against} \subseteq I128 /\ ~Ended(id)
    BY <1>2, <1>a, <2>2 DEF Vote, MayVote, Ended, Proposal
  <2>4. /\ after # NoProposal /\ after.status = "Active"
        /\ after.end_ledger = p.end_ledger
        /\ after.votes_for = IF support THEN p.votes_for + w ELSE p.votes_for
    BY <2>2, <2>3, CountedVote
  <2>5. w \in 1 .. Total(Minted)
    BY <2>1, MintedTotal DEF Supply, VoteWrites
  <2>6. voted' = [voted EXCEPT ![id][a] = w]
    BY <1>2 DEF Vote
  <2> HIDE DEF after, w
  <2>7. PollPhase[id] = "voting" /\ PhaseOf(after) = "voting"
    BY <2>2, <2>4 DEF PollPhase, PhaseOf
  <2>8. ~Over(p, ledger) /\ ~Over(after, ledger) /\ id \notin PollClosed
    BY <2>3, <2>4 DEF Over, Ended, PollClosed
  <2>9. /\ PollFor[id] = p.votes_for
        /\ ForVotes(after) = IF support THEN PollFor[id] + w ELSE PollFor[id]
    BY <2>2, <2>4 DEF PollFor, ForVotes
  <2>10. /\ PollPhase' = [PollPhase EXCEPT ![id] = "voting"]
         /\ PollFor' = [PollFor EXCEPT ![id] = ForVotes(after)]
         /\ UNCHANGED PollClosed
    BY <2>1, <2>2, <2>7, <2>8, PollWritten
  <2>11. PollPhase' = PollPhase
    BY <2>7, <2>10 DEF PollPhase
  <2>12. PollFor' \in {PollFor, [PollFor EXCEPT ![id] = @ + w]}
    BY <2>9, <2>10 DEF PollFor
  <2>13. Poll!Cast(id, a)
    BY <2>1, <2>2, <2>5, <2>6, <2>7, <2>8, <2>10, <2>11, <2>12, PollCast
  <2> QED BY <2>13 DEF Poll!Next
<1>3. ASSUME NEW id \in ProposalId, NEW s \in Status, StatusWrites(id, s),
             UNCHANGED <<voted, ledger>>
      PROVE  /\ PollPhase' = [PollPhase EXCEPT ![id] = PhaseOf(WithStatus(proposal[id], s))]
             /\ UNCHANGED <<PollClosed, voted, PollFor>>
  <2> DEFINE p == proposal[id]
             after == WithStatus(p, s)
  <2>1. p \in Proposal /\ p # NoProposal /\ ProposalWritten(id, after)
    BY <1>3, GovernanceAssumption DEF StatusWrites
  <2>2. /\ after # NoProposal /\ after.status = s
        /\ after.votes_for = p.votes_for /\ after.end_ledger = p.end_ledger
    BY <2>1, StatusChange
  <2> HIDE DEF after
  <2>3. /\ Over(after, ledger) <=> Over(p, ledger)
        /\ ForVotes(after) = ForVotes(p)
    BY <2>1, <2>2 DEF Over, ForVotes
  <2>4. /\ PollPhase' = [PollPhase EXCEPT ![id] = PhaseOf(after)]
        /\ PollFor' = [PollFor EXCEPT ![id] = ForVotes(after)]
        /\ UNCHANGED PollClosed
    BY <1>3, <2>1, <2>3, PollWritten
  <2>5. UNCHANGED PollFor
    BY <2>3, <2>4 DEF PollFor
  <2> QED BY <1>3, <2>4, <2>5 DEF after
<1>4. ASSUME NEW id \in ProposalId, NEW s \in Status, NEW before, Is(id, before)
      PROVE  /\ PhaseOf(WithStatus(proposal[id], "Executed")) = "done"
             /\ PhaseOf(WithStatus(proposal[id], "Cancelled")) = "withdrawn"
             /\ PhaseOf(WithStatus(proposal[id], "Passed")) = "accepted"
             /\ PhaseOf(WithStatus(proposal[id], "Rejected")) = "refused"
             /\ before = "Active" => PollPhase[id] = "voting"
             /\ before = "Passed" => PollPhase[id] = "accepted"
  <2>1. proposal[id] \in Proposal /\ proposal[id] # NoProposal
    BY <1>4 DEF TypeOK, Is
  <2>2. \A t \in Status : /\ WithStatus(proposal[id], t) # NoProposal
                          /\ WithStatus(proposal[id], t).status = t
    BY <2>1, StatusChange
  <2>3. /\ before = "Active" => PollPhase[id] = "voting"
        /\ before = "Passed" => PollPhase[id] = "accepted"
    BY <1>4 DEF Is, PollPhase, PhaseOf
  <2> QED BY <2>2, <2>3 DEF PhaseOf, Status
<1>5. ASSUME NEW s \in Account, NEW id \in ProposalId, MarkExecuted({s}, id)
      PROVE  [Poll!Next]_(Poll!vars)
  <2>1. /\ Is(id, "Passed") /\ UNCHANGED <<voted, ledger, config>>
        /\ StatusWrites(id, "Executed") /\ "Executed" \in Status
    BY <1>5, StatusEffect DEF MarkExecuted, Status
  <2>2. Poll!Moves(id, "accepted", "done")
    BY <1>3, <1>4, <2>1, PollMoves
  <2> QED BY <2>2 DEF Poll!Next
<1>6. ASSUME NEW s \in Account, NEW id \in ProposalId, Cancel({s}, id)
      PROVE  [Poll!Next]_(Poll!vars)
  <2>1. /\ Is(id, "Active") /\ UNCHANGED <<voted, ledger, config>>
        /\ StatusWrites(id, "Cancelled") /\ "Cancelled" \in Status
    BY <1>6, StatusEffect DEF Cancel, Status
  <2>2. Poll!Moves(id, "voting", "withdrawn")
    BY <1>3, <1>4, <2>1, PollMoves
  <2> QED BY <2>2 DEF Poll!Next
<1>7. ASSUME NEW id \in ProposalId, Finalise(id)
      PROVE  [Poll!Next]_(Poll!vars)
  <2> DEFINE p == proposal[id]
  <2>1. /\ Is(id, "Active") /\ Ended(id) /\ UNCHANGED <<voted, ledger, config>>
        /\ StatusWrites(id, Outcome(p)) /\ Outcome(p) \in Status
    BY <1>7, StatusEffect, OutcomeIsStatus DEF Finalise
  <2>2. id \in PollClosed /\ PollFor[id] = p.votes_for
    BY <2>1 DEF Is, Ended, Over, PollClosed, PollFor, ForVotes
  <2>3. p.votes_for + p.votes_against = Total(voted[id])
    BY <2>1, TallyByProposal DEF Is, Tally
  <2>4. config \in Configs /\ ValidConfig(config)
    <3>1. id < nextProposalId
      BY <1>a, <2>1, GovernanceAssumption DEF Is, Fresh, TypeOK, ProposalId
    <3>2. admin # NoAdmin
      BY <3>1, <1>a DEF BeforeInitialize, ProposalId
    <3> QED BY <3>2 DEF RulesInForce
  <2>5. PhaseOf(WithStatus(p, Outcome(p)))
            = IF Passes(config, PollFor[id], Total(voted[id])) THEN "accepted" ELSE "refused"
    BY <1>4, <2>1, <2>2, <2>3 DEF Outcome
  <2>6. PollPhase[id] = "voting"
    BY <1>4, <2>1
  <2>7. /\ PollPhase' = [PollPhase EXCEPT ![id] = PhaseOf(WithStatus(p, Outcome(p)))]
        /\ UNCHANGED <<PollClosed, voted, PollFor>>
    BY <1>3, <2>1
  <2>8. Poll!Decide(id)
    BY <2>1, <2>2, <2>4, <2>5, <2>6, <2>7, PollDecides
  <2> QED BY <2>8 DEF Poll!Next
<1>8. CASE Tick
  <2>1. ledger' = ledger + 1 /\ UNCHANGED <<proposal, voted, config>>
    BY <1>8 DEF Tick
  <2>2. UNCHANGED <<PollPhase, voted, PollFor>>
    BY <2>1 DEF PollPhase, PollFor
  <2>3. PollClosed \subseteq PollClosed'
    <3>1. \A i \in ProposalId : Over(proposal[i], ledger) => Over(proposal[i], ledger + 1)
      BY <1>a DEF TypeOK, Proposal, Over
    <3> QED BY <2>1, <3>1 DEF PollClosed
  <2>4. \A i \in PollClosed' : PollPhase[i] # "none"
    <3>1. \A i \in ProposalId : proposal[i] # NoProposal => PhaseOf(proposal[i]) # "none"
      BY DEF TypeOK, Proposal, Status, PhaseOf
    <3> QED BY <2>1, <3>1 DEF PollClosed, Over, PollPhase
  <2>5. Poll!Close
    BY <2>1, <2>2, <2>3, <2>4, PollCloses
  <2> QED BY <2>5 DEF Poll!Next
<1>9. ASSUME UNCHANGED <<proposal, voted, ledger>>
      PROVE  UNCHANGED <<PollPhase, PollClosed, voted, PollFor>>
  BY <1>9 DEF PollPhase, PollClosed, PollFor
<1>10. ASSUME NEW s \in Account, NEW c \in Configs,
              (\E a \in Account : Initialize({s}, a, c)) \/ UpdateConfig({s}, c)
       PROVE  [Poll!Next]_(Poll!vars)
  <2>1. /\ config' = c /\ ValidConfig(c)
        /\ UNCHANGED <<proposal, voted, ledger>>
    BY <1>10 DEF Initialize, UpdateConfig
  <2>2. Poll!Adopt
    BY <1>9, <2>1, PollAdopts
  <2> QED BY <2>2 DEF Poll!Next
<1>11. CASE UNCHANGED <<proposal, voted, ledger, config>>
  BY <1>9, <1>11, PollStutters
<1> QED
  BY <1>1, <1>2, <1>5, <1>6, <1>7, <1>8, <1>10, <1>11 DEF Next, TokenTransfer, vars

(***************************************************************************)
(* The contract implements the ballot, for every number of voters, tokens, *)
(* proposals and ledgers: an open poll takes one weight of each voter, no  *)
(* poll reopens, and a decision is by the tally and the parameters last    *)
(* set before it, of those the contract accepts.                           *)
(***************************************************************************)
THEOREM GovernanceIsBallot == Spec => IsBallot
<1>1. Spec => []IInv
  BY InitInv, StepInv, PTL DEF Spec
<1> QED BY <1>1, InitBallot, StepBallot, PTL DEF Spec, IsBallot, Poll!Spec

-----------------------------------------------------------------------------
(***************************************************************************)
(* When the arithmetic of vote and finalise cannot fail.  ProposalsDecided *)
(* excepts proposals whose tally is too large to be multiplied in i128.    *)
(* A tally can be larger than the number of tokens, as tokens that move to *)
(* another account between two votes are counted twice; but each account   *)
(* votes once, with no more than all of them (Weights).                    *)
(***************************************************************************)
Weights ==
    \A id \in ProposalId : voted[id] \in [Account -> 0 .. Total(Minted)]

\* The tally if every account voted with all tokens.
MostVotes == Total([a \in Account |-> Total(Minted)])

DecisionFits(id) == proposal[id] # NoProposal => Computable(proposal[id])

VoteFits(voter, id, support) ==
    MayVote(voter, id) =>
        LET after == Counted(proposal[id], tokens[voter], support)
        IN  {after.votes_for, after.votes_against} \subseteq I128

LEMMA StepWeights == IInv /\ Weights /\ [Next]_vars => Weights'
<1> SUFFICES ASSUME IInv, Weights, [Next]_vars, NEW i \in ProposalId
             PROVE  voted'[i] \in [Account -> 0 .. Total(Minted)]
  BY DEF Weights
<1>1. PICK M \in Nat : M = Total(Minted)
  BY MintedTotal
<1>2. voted[i] \in [Account -> 0 .. M]
  BY <1>1 DEF Weights
<1>3. ASSUME NEW s \in Account, NEW a \in Account, Propose({s}, a)
      PROVE  voted'[i] \in [Account -> 0 .. M]
  <2>1. voted'[i] = NoVotes \/ voted'[i] = voted[i]
    BY <1>3, ProposeEffect DEF IInv, OpenWrites
  <2> QED BY <1>1, <1>2, <2>1 DEF NoVotes
<1>4. ASSUME NEW s \in Account, NEW a \in Account, NEW id \in ProposalId,
             NEW support \in BOOLEAN, Vote({s}, a, id, support)
      PROVE  voted'[i] \in [Account -> 0 .. M]
  <2>1. VoteWrites(a, id, support)
    BY <1>4, VoteEffect DEF IInv
  <2>2. tokens[a] \in 0 .. M
    BY <1>1 DEF IInv, Supply
  <2>3. voted'[i] \in [Account -> 0 .. MaxI128]
    BY <2>1 DEF VoteWrites
  <2>4. \A b \in Account : voted'[i][b] \in 0 .. M
    BY <1>2, <2>1, <2>2 DEF VoteWrites
  <2> QED BY <2>3, <2>4
<1>5. ASSUME UNCHANGED voted PROVE voted'[i] \in [Account -> 0 .. M]
  BY <1>2, <1>5
<1> QED
  BY <1>1, <1>3, <1>4, <1>5 DEF Next, Initialize, UpdateConfig, MarkExecuted, Cancel,
                                TokenTransfer, Finalise, Tick, vars

LEMMA MostVotesBound ==
    ASSUME NEW f \in [Account -> 0 .. Total(Minted)]
    PROVE  Total(f) \in Nat /\ Total(f) <= MostVotes /\ MostVotes \in Nat
<1>1. PICK M : M = Total(Minted) /\ M \in Nat /\ f \in [Account -> 0 .. M]
  BY MintedTotal
<1>2. PICK g \in [Account -> 0 .. M] : g = [a \in Account |-> M]
  <2>1. [a \in Account |-> M] \in [Account -> 0 .. M]
    BY <1>1
  <2> QED BY <2>1
<1>3. IsFiniteSet(Account) /\ \A a \in Account : f[a] <= g[a]
  BY <1>1, <1>2, GovernanceAssumption
<1>4. Total(f) <= Total(g) /\ Total(f) \in Nat /\ Total(g) \in Nat
  BY <1>1, <1>3, TotalMonotone, UnitsFinite
<1> QED BY <1>1, <1>2, <1>4 DEF MostVotes

\* The tally of a proposal, and what it would be with one more vote.
LEMMA TallyBound ==
    ASSUME IInv, Weights, NEW id \in ProposalId, proposal[id] # NoProposal
    PROVE  /\ proposal[id] \in Proposal /\ MostVotes \in Nat
           /\ proposal[id].votes_for + proposal[id].votes_against <= MostVotes
           /\ \A voter \in Account : voted[id][voter] = 0 =>
                  proposal[id].votes_for + proposal[id].votes_against + tokens[voter]
                      <= MostVotes
<1>1. proposal[id] \in Proposal
  BY DEF IInv, TypeOK
<1>0. PICK M \in Nat : M = Total(Minted)
  BY MintedTotal
<1>2. PICK f \in [Account -> 0 .. M] : M = Total(Minted) /\ f = voted[id]
  BY <1>0 DEF Weights
<1>3. proposal[id].votes_for + proposal[id].votes_against = Total(f)
  BY <1>2, TallyByProposal DEF IInv, Tally
<1>4. Total(f) \in Nat /\ Total(f) <= MostVotes /\ MostVotes \in Nat
  BY <1>2, MostVotesBound
<1>5. ASSUME NEW voter \in Account, voted[id][voter] = 0
      PROVE  Total(f) + tokens[voter] <= MostVotes
  <2>1. PICK w \in 0 .. M : w = tokens[voter]
    BY <1>2 DEF IInv, Supply
  <2>2. PICK g \in [Account -> 0 .. M] : g = [f EXCEPT ![voter] = w]
    OBVIOUS
  <2>3. /\ f[voter] = 0 /\ g[voter] = w
        /\ \A a \in Account \ {voter} : g[a] = f[a]
    BY <1>2, <1>5, <2>2
  <2>4. Total(g) = Total(f) - f[voter] + g[voter]
    BY <2>3, TotalChange, GovernanceAssumption
  <2>5. Total(g) <= MostVotes
    BY <1>2, MostVotesBound
  <2> QED BY <1>4, <2>1, <2>3, <2>4, <2>5
<1> QED BY <1>1, <1>3, <1>4, <1>5

LEMMA DecisionsFit ==
    ASSUME MostVotes * 10000 <= MaxI128, IInv, Weights, NEW id \in ProposalId
    PROVE  DecisionFits(id)
<1> SUFFICES ASSUME proposal[id] # NoProposal PROVE Computable(proposal[id])
  BY DEF DecisionFits
<1>1. PICK f, g, m, b : /\ f = proposal[id].votes_for /\ g = proposal[id].votes_against
                        /\ m = MostVotes /\ b = config.approval_bps
  OBVIOUS
<1>2. f \in Nat /\ g \in Nat /\ m \in Nat /\ f + g <= m
  BY <1>1, TallyBound, GovernanceAssumption DEF Proposal
<1>3. b \in Nat /\ b <= 10000
  <2>1. admin # NoAdmin
    BY GovernanceAssumption DEF IInv, BeforeInitialize, Fresh, TypeOK, ProposalId
  <2> QED BY <1>1, <2>1, GovernanceAssumption DEF IInv, RulesInForce, Config, ValidConfig
<1>4. m * 10000 <= MaxI128 /\ MaxI128 \in Nat
  BY <1>1, GovernanceAssumption
<1>5. f + g \in I128 /\ f * 10000 \in I128
  BY <1>2, <1>4 DEF I128
<1>6. (f + g) * b \in I128
  <2>1. PICK t \in Nat : t = f + g /\ t <= m
    BY <1>2
  <2>2. t * b \in Nat /\ t * b <= t * 10000
    BY <1>3, Product, ProductOrder
  <2>3. t * 10000 <= m * 10000
    BY <1>2, <2>1
  <2>4. t * 10000 \in Nat /\ m * 10000 \in Nat
    BY <1>2
  <2>5. t * b \in I128
    BY <1>4, <2>2, <2>3, <2>4 DEF I128
  <2> QED BY <2>1, <2>5
<1> QED BY <1>1, <1>5, <1>6 DEF Computable

LEMMA VotesFit ==
    ASSUME MostVotes * 10000 <= MaxI128, IInv, Weights, NEW id \in ProposalId,
           NEW voter \in Account, NEW support \in BOOLEAN
    PROVE  VoteFits(voter, id, support)
<1> SUFFICES ASSUME MayVote(voter, id)
             PROVE  LET after == Counted(proposal[id], tokens[voter], support)
                    IN  {after.votes_for, after.votes_against} \subseteq I128
  BY DEF VoteFits
<1>1. proposal[id] # NoProposal /\ voted[id][voter] = 0
  BY DEF MayVote, Is, has_voted
<1>2. PICK p \in Proposal : p = proposal[id]
  BY <1>1, TallyBound
<1>3. PICK w \in Nat : w = tokens[voter]
  BY DEF IInv, TypeOK
<1>4. MostVotes \in Nat /\ p.votes_for + p.votes_against + w <= MostVotes
  BY <1>1, <1>2, <1>3, TallyBound
<1>5. MostVotes <= MaxI128 /\ MaxI128 \in Nat
  BY <1>4, GovernanceAssumption
<1>6. p.votes_for \in Nat /\ p.votes_against \in Nat
  BY GovernanceAssumption DEF Proposal
<1>7. Counted(p, w, support).votes_for \in 0 .. MostVotes
  BY <1>4, <1>6 DEF Counted, Proposal
<1>8. Counted(p, w, support).votes_against \in 0 .. MostVotes
  BY <1>4, <1>6 DEF Counted, Proposal
<1> QED BY <1>2, <1>3, <1>4, <1>5, <1>7, <1>8 DEF I128

(***************************************************************************)
(* If the tokens of the supply, counted for every account and scaled by    *)
(* 10000, fit i128, then no vote and no decision is ever refused by the    *)
(* arithmetic, however tokens move between votes and whatever rules the    *)
(* admin puts in force: the exception of ProposalsDecided is then empty.   *)
(***************************************************************************)
THEOREM ArithmeticFits ==
    ASSUME MostVotes * 10000 <= MaxI128
    PROVE  Spec => [](\A id \in ProposalId :
                          /\ DecisionFits(id)
                          /\ \A voter \in Account, support \in BOOLEAN :
                                 VoteFits(voter, id, support))
<1>1. Init => Weights
  BY MintedTotal DEF Init, Weights
<1>2. IInv /\ Weights =>
          \A id \in ProposalId :
              /\ DecisionFits(id)
              /\ \A voter \in Account, support \in BOOLEAN : VoteFits(voter, id, support)
  BY DecisionsFit, VotesFit
<1> QED BY <1>1, <1>2, InitInv, StepInv, StepWeights, PTL DEF Spec

-----------------------------------------------------------------------------
(***************************************************************************)
(* No more votes are taken on the proposal: it is decided, cancelled or    *)
(* past its end.                                                           *)
(***************************************************************************)
PollOver(id) ==
    proposal[id] # NoProposal /\ (~Is(id, "Active") \/ Ended(id))

\* What becomes of a status then; outcome is what the rules make of the tally.
Follows(before, after, outcome) ==
    \/ after = before
    \/ before = "Active" /\ after \in {outcome, "Cancelled"}
    \/ before = "Passed" /\ after = "Executed"

VerdictStands(id) ==
    PollOver(id) =>
        /\ PollOver(id)'
        /\ voted'[id] = voted[id]
        /\ \E s \in Status :
               /\ proposal'[id] = WithStatus(proposal[id], s)
               /\ Follows(proposal[id].status, s, Outcome(proposal[id]))
        /\ Computable(proposal[id]) /\ config' = config => Computable(proposal[id])'

VerdictStep == \A id \in ProposalId : VerdictStands(id)

\* A write of a status that may follow leaves the rest of the proposal.
LEMMA StatusStands ==
    ASSUME TypeOK, NEW id \in ProposalId, NEW s \in Status,
           PollOver(id), StatusWrites(id, s), UNCHANGED <<voted, ledger>>,
           Follows(proposal[id].status, s, Outcome(proposal[id]))
    PROVE  VerdictStands(id)
<1> DEFINE p == proposal[id]
           q == proposal'[id]
<1>1. p \in Proposal /\ q = WithStatus(p, s)
  BY DEF StatusWrites, ProposalWritten
<1>2. /\ q # NoProposal /\ q.votes_for = p.votes_for /\ q.votes_against = p.votes_against
      /\ q.end_ledger = p.end_ledger /\ q.status = s
  BY <1>1, StatusChange
<1>3. PollOver(id)'
  BY <1>2 DEF PollOver, Is, Ended, Follows
<1>4. Computable(p) /\ config' = config => Computable(p)'
  BY <1>2 DEF Computable
<1> QED BY <1>1, <1>3, <1>4 DEF VerdictStands

LEMMA SameStands ==
    ASSUME TypeOK, TypeOK', NEW id \in ProposalId, proposal'[id] = proposal[id],
           voted'[id] = voted[id], ledger' >= ledger
    PROVE  VerdictStands(id)
<1> SUFFICES ASSUME PollOver(id) PROVE VerdictStands(id)
  BY DEF VerdictStands
<1> DEFINE p == proposal[id]
<1>1. p \in Proposal /\ p.status \in Status /\ p = WithStatus(p, p.status)
  BY DEF PollOver, TypeOK, Proposal, WithStatus
<1>2. p.end_ledger \in Int /\ ledger \in Int /\ ledger' \in Int
  BY <1>1, GovernanceAssumption DEF Proposal, TypeOK
<1>3. PollOver(id)'
  BY <1>2 DEF PollOver, Is, Ended
<1>4. Computable(p) /\ config' = config => Computable(p)'
  BY DEF Computable
<1>5. Follows(p.status, p.status, Outcome(p))
  BY DEF Follows
<1> QED BY <1>1, <1>3, <1>4, <1>5 DEF VerdictStands

LEMMA StepVerdict == IInv /\ [Next]_vars => VerdictStep
<1> SUFFICES ASSUME IInv, [Next]_vars, NEW i \in ProposalId, PollOver(i)
             PROVE  VerdictStands(i)
  BY DEF VerdictStep, VerdictStands
<1>0. TypeOK /\ TypeOK' /\ ledger \in Int /\ proposal[i] # NoProposal
  BY StepType, GovernanceAssumption DEF IInv, TypeOK, PollOver
<1>1. ASSUME NEW s \in Account, NEW a \in Account, Propose({s}, a)
      PROVE  VerdictStands(i)
  <2>1. OpenWrites(nextProposalId) /\ ledger' = ledger
    BY <1>0, <1>1, ProposeEffect DEF Propose
  <2>2. i # nextProposalId
    <3>1. Fresh /\ nextProposalId \in Int
      BY <1>0, GovernanceAssumption DEF IInv, TypeOK
    <3> QED BY <1>0, <3>1 DEF Fresh
  <2>3. proposal'[i] = proposal[i] /\ voted'[i] = voted[i]
    BY <2>1, <2>2 DEF OpenWrites, ProposalWritten
  <2> QED BY <1>0, <2>1, <2>3, SameStands
<1>2. ASSUME NEW s \in Account, NEW a \in Account, NEW id \in ProposalId,
             NEW support \in BOOLEAN, Vote({s}, a, id, support)
      PROVE  VerdictStands(i)
  <2>1. VoteWrites(a, id, support) /\ ledger' = ledger
    BY <1>0, <1>2, VoteEffect DEF Vote
  <2>2. i # id
    <3>1. proposal[id].end_ledger \in Int
      BY <2>1, GovernanceAssumption DEF VoteWrites, Proposal
    <3> QED BY <1>0, <1>2, <3>1 DEF Vote, MayVote, Is, Ended, PollOver
  <2>3. proposal'[i] = proposal[i] /\ voted'[i] = voted[i]
    BY <2>1, <2>2 DEF VoteWrites, ProposalWritten
  <2> QED BY <1>0, <2>1, <2>3, SameStands
<1>3. ASSUME NEW id \in ProposalId, NEW t \in Status, StatusWrites(id, t),
             Follows(proposal[id].status, t, Outcome(proposal[id])),
             UNCHANGED <<voted, ledger>>
      PROVE  VerdictStands(i)
  <2>1. CASE i = id
    BY <1>0, <1>3, <2>1, StatusStands
  <2>2. CASE i # id
    <3>1. proposal'[i] = proposal[i]
      BY <1>3, <2>2 DEF StatusWrites, ProposalWritten
    <3> QED BY <1>0, <1>3, <3>1, SameStands
  <2> QED BY <2>1, <2>2
<1>4. ASSUME NEW s \in Account, NEW id \in ProposalId, MarkExecuted({s}, id)
      PROVE  VerdictStands(i)
  <2>1. StatusWrites(id, "Executed") /\ proposal[id].status = "Passed"
    BY <1>0, <1>4, StatusEffect DEF MarkExecuted, Status, Is
  <2> QED BY <1>3, <1>4, <2>1 DEF MarkExecuted, Follows, Status
<1>5. ASSUME NEW s \in Account, NEW id \in ProposalId, Cancel({s}, id)
      PROVE  VerdictStands(i)
  <2>1. StatusWrites(id, "Cancelled") /\ proposal[id].status = "Active"
    BY <1>0, <1>5, StatusEffect DEF Cancel, Status, Is
  <2> QED BY <1>3, <1>5, <2>1 DEF Cancel, Follows, Status
<1>6. ASSUME NEW id \in ProposalId, Finalise(id)
      PROVE  VerdictStands(i)
  <2>1. StatusWrites(id, Outcome(proposal[id])) /\ proposal[id].status = "Active"
    BY <1>0, <1>6, StatusEffect, OutcomeIsStatus DEF Finalise, Is
  <2> QED BY <1>3, <1>6, <2>1, OutcomeIsStatus DEF Finalise, Follows
<1>7. ASSUME NEW s \in Account,
             \/ \E a \in Account, c \in Configs : Initialize({s}, a, c)
             \/ \E c \in Configs : UpdateConfig({s}, c)
             \/ \E to \in Account, amount \in 0 .. tokens[s] : TokenTransfer(s, to, amount)
      PROVE  VerdictStands(i)
  <2>1. UNCHANGED <<proposal, voted, ledger>>
    BY <1>7 DEF Initialize, UpdateConfig, TokenTransfer
  <2> QED BY <1>0, <2>1, SameStands
<1>8. CASE Tick \/ UNCHANGED vars
  <2>1. UNCHANGED <<proposal, voted>> /\ ledger' >= ledger
    BY <1>0, <1>8 DEF Tick, vars
  <2> QED BY <1>0, <2>1, SameStands
<1> QED BY <1>1, <1>2, <1>4, <1>5, <1>6, <1>7, <1>8 DEF Next

(***************************************************************************)
(* Once its poll is over a proposal keeps its votes and its end for good.  *)
(* It is decided by that tally and the rules then in force, or cancelled,  *)
(* and carried out only when accepted; and while the rules stay, it goes   *)
(* on being one that can be decided.  Nobody's tokens matter any more.     *)
(***************************************************************************)
THEOREM VerdictsStand == Spec => [][VerdictStep]_vars
<1>1. IInv /\ [Next]_vars => [VerdictStep]_vars
  BY StepVerdict
<1> QED BY <1>1, InitInv, StepInv, PTL DEF Spec

-----------------------------------------------------------------------------
(***************************************************************************)
(* achievement_registry, on the same accounts and in the same ledgers,     *)
(* with a storage of its own.                                              *)
(*                                                                         *)
(* AwardsAreHistory needs to know that no award is dated ahead of the      *)
(* ledger (Past).  RetirementFinal needs that an unused id has no          *)
(* achievement (Unregistered), and for the step that sets the counter back *)
(* that there is none before initialize.                                   *)
(***************************************************************************)
VARIABLES awardAdmin, awarders, nextId, achievement, userAwards

Awards == INSTANCE AchievementRegistry WITH admin <- awardAdmin

Past ==
    \A u \in Account : \A i \in DOMAIN userAwards[u] :
        userAwards[u][i].awarded_at_ledger <= ledger

Unregistered ==
    /\ awardAdmin = NoAdmin => nextId = 0
    /\ \A id \in Awards!AchievementId : id >= nextId => achievement[id] = "absent"

AwardInv == Awards!TypeOK /\ Past /\ Unregistered /\ Awards!AwardsAreHistory

(***************************************************************************)
(* What award does to the awards of a user, one by one: the n-th is new.   *)
(***************************************************************************)
Awarded(user, id, n) ==
    /\ n \in Nat \ {0}
    /\ DOMAIN userAwards[user] = 1 .. n - 1
    /\ DOMAIN userAwards'[user] = 1 .. n
    /\ userAwards'[user][n].achievement_id = id
    /\ userAwards'[user][n].awarded_at_ledger = ledger
    /\ \A i \in 1 .. n - 1 : userAwards'[user][i] = userAwards[user][i]
    /\ \A u \in Account \ {user} : userAwards'[u] = userAwards[u]

LEMMA AwardEffect ==
    ASSUME Awards!TypeOK, NEW auth, NEW caller, NEW user \in Account,
           NEW id \in Awards!AchievementId, Awards!Award(auth, caller, user, id)
    PROVE  /\ userAwards' \in [Account -> Seq(Awards!AwardRecord)]
           /\ \E n \in Nat : Awarded(user, id, n)
<1> DEFINE r == [achievement_id |-> id, awarded_at_ledger |-> ledger]
<1>1. r \in Awards!AwardRecord
  BY DEF Awards!AwardRecord, Awards!TypeOK
<1>2. userAwards \in [Account -> Seq(Awards!AwardRecord)]
  BY DEF Awards!TypeOK
<1>3. userAwards' = [userAwards EXCEPT ![user] = Append(@, r)]
  BY DEF Awards!Award
<1>4. r.achievement_id = id /\ r.awarded_at_ledger = ledger
  OBVIOUS
<1> HIDE DEF r
<1>5. PICK old \in Seq(Awards!AwardRecord) : old = userAwards[user]
  BY <1>2
<1>6. PICK new : new = Append(old, r)
  OBVIOUS
<1>7. /\ new \in Seq(Awards!AwardRecord) /\ Len(old) \in Nat
      /\ DOMAIN old = 1 .. Len(old) /\ DOMAIN new = 1 .. Len(old) + 1
      /\ new[Len(old) + 1] = r
      /\ \A i \in 1 .. Len(old) : new[i] = old[i]
  BY <1>1, <1>6
<1>8. /\ userAwards' \in [Account -> Seq(Awards!AwardRecord)]
      /\ userAwards'[user] = new
      /\ \A u \in Account \ {user} : userAwards'[u] = userAwards[u]
  BY <1>2, <1>3, <1>5, <1>6, <1>7
<1>9. PICK n \in Nat \ {0} : n = Len(old) + 1 /\ n - 1 = Len(old)
  BY <1>7
<1>10. Awarded(user, id, n)
  BY <1>4, <1>5, <1>7, <1>8, <1>9 DEF Awarded
<1> QED BY <1>8, <1>9, <1>10

\* What any other step does to the awards and the ledger.
AwardsKept == UNCHANGED userAwards /\ ledger' \in {ledger, ledger + 1}

AwardStep ==
    \/ AwardsKept
    \/ \E user \in Account, id \in Awards!AchievementId, n \in Nat :
           /\ Awarded(user, id, n) /\ UNCHANGED <<ledger, achievement>>
           /\ achievement[id] = "active" /\ ~Awards!HasAchievement(user, id)

LEMMA AwardSteps ==
    ASSUME Awards!TypeOK, [Awards!Next]_(Awards!vars)
    PROVE  AwardStep
<1>1. ASSUME NEW s \in Account, NEW caller \in Account, NEW user \in Account,
             NEW id \in Awards!AchievementId, Awards!Award({s}, caller, user, id)
      PROVE  AwardStep
  <2>1. PICK n \in Nat : Awarded(user, id, n)
    BY <1>1, AwardEffect
  <2> QED BY <1>1, <2>1 DEF AwardStep, Awards!Award, Awards!Awardable
<1>2. CASE AwardsKept
  BY <1>2 DEF AwardStep
<1> QED BY <1>1, <1>2
        DEF Awards!Next, Awards!vars, Awards!Initialize, Awards!AddAwarder,
            Awards!RemoveAwarder, Awards!RegisterAchievement,
            Awards!DeactivateAchievement, Awards!Tick, AwardsKept

LEMMA AwardInit == Awards!Init => AwardInv
<1> SUFFICES ASSUME Awards!Init PROVE AwardInv
  OBVIOUS
<1>1. Awards!TypeOK
  BY GovernanceAssumption DEF Awards!Init, Awards!TypeOK
<1>2. \A u \in Account : DOMAIN userAwards[u] = {}
  BY DEF Awards!Init
<1> QED BY <1>1, <1>2
        DEF Awards!Init, AwardInv, Past, Unregistered, Awards!AwardsAreHistory

LEMMA AwardStepType == Awards!TypeOK /\ [Awards!Next]_(Awards!vars) => Awards!TypeOK'
<1> SUFFICES ASSUME Awards!TypeOK, [Awards!Next]_(Awards!vars) PROVE Awards!TypeOK'
  OBVIOUS
<1> USE GovernanceAssumption
<1>1. ASSUME NEW s \in Account, NEW a \in Account,
             \/ Awards!Initialize({s}, a)
             \/ Awards!AddAwarder({s}, a)
             \/ Awards!RemoveAwarder({s}, a)
      PROVE  Awards!TypeOK'
  BY <1>1 DEF Awards!TypeOK, Awards!Initialize, Awards!AddAwarder, Awards!RemoveAwarder
<1>2. ASSUME NEW s \in Account, Awards!RegisterAchievement({s})
      PROVE  Awards!TypeOK'
  BY <1>2 DEF Awards!TypeOK, Awards!RegisterAchievement, Awards!AchievementId
<1>3. ASSUME NEW s \in Account, NEW id \in Awards!AchievementId,
             Awards!DeactivateAchievement({s}, id)
      PROVE  Awards!TypeOK'
  BY <1>3 DEF Awards!TypeOK, Awards!DeactivateAchievement
<1>4. ASSUME NEW s \in Account, NEW caller \in Account, NEW user \in Account,
             NEW id \in Awards!AchievementId, Awards!Award({s}, caller, user, id)
      PROVE  Awards!TypeOK'
  <2>1. userAwards' \in [Account -> Seq(Awards!AwardRecord)]
    BY <1>4, AwardEffect
  <2> QED BY <1>4, <2>1 DEF Awards!TypeOK, Awards!Award
<1>5. CASE Awards!Tick
  BY <1>5 DEF Awards!TypeOK, Awards!Tick
<1>6. CASE UNCHANGED Awards!vars
  BY <1>6 DEF Awards!TypeOK, Awards!vars
<1> QED BY <1>1, <1>2, <1>3, <1>4, <1>5, <1>6 DEF Awards!Next

LEMMA AwardStepUnregistered ==
    Awards!TypeOK /\ Unregistered /\ [Awards!Next]_(Awards!vars) => Unregistered'
<1> SUFFICES ASSUME Awards!TypeOK, Unregistered, [Awards!Next]_(Awards!vars)
             PROVE  Unregistered'
  OBVIOUS
<1> USE GovernanceAssumption DEF Unregistered, Awards!TypeOK, Awards!RequireAdmin
<1>1. ASSUME NEW s \in Account, NEW a \in Account, Awards!Initialize({s}, a)
      PROVE  Unregistered'
  BY <1>1 DEF Awards!Initialize
<1>2. ASSUME NEW s \in Account, Awards!RegisterAchievement({s})
      PROVE  Unregistered'
  BY <1>2 DEF Awards!RegisterAchievement, Awards!AchievementId
<1>3. ASSUME NEW s \in Account, NEW id \in Awards!AchievementId,
             Awards!DeactivateAchievement({s}, id)
      PROVE  Unregistered'
  BY <1>3 DEF Awards!DeactivateAchievement
<1>4. CASE UNCHANGED <<awardAdmin, nextId, achievement>>
  BY <1>4
<1> QED BY <1>1, <1>2, <1>3, <1>4
        DEF Awards!Next, Awards!vars, Awards!AddAwarder, Awards!RemoveAwarder,
            Awards!Award, Awards!Tick

LEMMA AwardStepHistory ==
    Awards!TypeOK /\ Past /\ Awards!AwardsAreHistory /\ [Awards!Next]_(Awards!vars)
        => Past' /\ Awards!AwardsAreHistory'
<1> SUFFICES ASSUME Awards!TypeOK, Past, Awards!AwardsAreHistory,
                    [Awards!Next]_(Awards!vars)
             PROVE  Past' /\ Awards!AwardsAreHistory'
  OBVIOUS
<1>0. ledger \in Nat /\ \A u \in Account : \A i \in DOMAIN userAwards[u] :
          userAwards[u][i].awarded_at_ledger \in Nat
  <2>1. ASSUME NEW u \in Account, NEW i \in DOMAIN userAwards[u]
        PROVE  userAwards[u][i].awarded_at_ledger \in Nat
    <3>1. userAwards[u] \in Seq(Awards!AwardRecord)
      BY DEF Awards!TypeOK
    <3>2. userAwards[u][i] \in Awards!AwardRecord
      BY <3>1
    <3> QED BY <3>2, GovernanceAssumption DEF Awards!AwardRecord
  <2> QED BY <2>1, GovernanceAssumption DEF Awards!TypeOK
<1>1. CASE AwardsKept
  <2>1. Past'
    BY <1>0, <1>1 DEF AwardsKept, Past
  <2> QED BY <1>1, <2>1 DEF AwardsKept, Awards!AwardsAreHistory
<1>2. ASSUME NEW user \in Account, NEW id \in Awards!AchievementId, NEW n \in Nat,
             Awarded(user, id, n), UNCHANGED ledger,
             ~Awards!HasAchievement(user, id)
      PROVE  Past' /\ Awards!AwardsAreHistory'
  <2>1. ASSUME NEW u \in Account, NEW i \in DOMAIN userAwards'[u]
        PROVE  userAwards'[u][i].awarded_at_ledger <= ledger
    <3>1. CASE u # user
      BY <1>2, <2>1, <3>1 DEF Awarded, Past
    <3>2. CASE u = user /\ i = n
      BY <1>0, <1>2, <3>2 DEF Awarded
    <3>3. CASE u = user /\ i # n
      <4>1. i \in 1 .. n - 1
        BY <1>2, <2>1, <3>3 DEF Awarded
      <4> QED BY <1>2, <3>3, <4>1 DEF Awarded, Past
    <3> QED BY <3>1, <3>2, <3>3
  <2>2. ASSUME NEW u \in Account, NEW i \in DOMAIN userAwards'[u],
               NEW j \in DOMAIN userAwards'[u], i < j
        PROVE  /\ userAwards'[u][i].achievement_id # userAwards'[u][j].achievement_id
               /\ userAwards'[u][i].awarded_at_ledger
                      <= userAwards'[u][j].awarded_at_ledger
    <3>1. CASE u # user
      BY <1>2, <2>2, <3>1 DEF Awarded, Awards!AwardsAreHistory
    <3>2. CASE u = user /\ j = n
      <4>1. i \in 1 .. n - 1
        BY <1>2, <2>2, <3>2 DEF Awarded
      <4>2. userAwards[user][i].achievement_id # id
        BY <1>2, <4>1 DEF Awarded, Awards!HasAchievement
      <4> QED BY <1>2, <2>1, <3>2, <4>1, <4>2 DEF Awarded
    <3>3. CASE u = user /\ j # n
      <4>1. i \in 1 .. n - 1 /\ j \in 1 .. n - 1
        BY <1>2, <2>2, <3>3 DEF Awarded
      <4> QED BY <1>2, <2>2, <3>3, <4>1 DEF Awarded, Awards!AwardsAreHistory
    <3> QED BY <3>1, <3>2, <3>3
  <2> QED BY <1>2, <2>1, <2>2 DEF Past, Awards!AwardsAreHistory
<1>3. AwardStep
  BY AwardSteps
<1> QED BY <1>1, <1>2, <1>3 DEF AwardStep

LEMMA AwardStepInv == AwardInv /\ [Awards!Next]_(Awards!vars) => AwardInv'
BY AwardStepType, AwardStepUnregistered, AwardStepHistory DEF AwardInv

(***************************************************************************)
(* Ids stay below the end of the u32, and every award is of an id there    *)
(* can be and a ledger there was.                                          *)
(***************************************************************************)
THEOREM AwardTypes == Awards!Spec => []Awards!TypeOK
<1>1. AwardInv => Awards!TypeOK
  BY DEF AwardInv
<1> QED BY <1>1, AwardInit, AwardStepInv, PTL DEF Awards!Spec

(***************************************************************************)
(* Each user has each achievement once, in the order of the ledgers in     *)
(* which they were awarded.                                                *)
(***************************************************************************)
THEOREM AwardsAreAHistory == Awards!Spec => []Awards!AwardsAreHistory
<1>1. AwardInv => Awards!AwardsAreHistory
  BY DEF AwardInv
<1> QED BY <1>1, AwardInit, AwardStepInv, PTL DEF Awards!Spec

LEMMA AwardStepRetire == AwardInv /\ [Awards!Next]_(Awards!vars) => Awards!RetireStep
<1> SUFFICES ASSUME AwardInv, [Awards!Next]_(Awards!vars) PROVE Awards!RetireStep
  OBVIOUS
<1>1. ASSUME NEW id \in Awards!AchievementId, achievement[id] = "inactive"
      PROVE  achievement'[id] = "inactive"
  <2>1. nextId # id
    BY <1>1 DEF AwardInv, Unregistered, Awards!AchievementId
  <2> QED BY <1>1, <2>1
          DEF AwardInv, Awards!TypeOK, Awards!Next, Awards!vars, Awards!Initialize,
              Awards!AddAwarder, Awards!RemoveAwarder, Awards!RegisterAchievement,
              Awards!DeactivateAchievement, Awards!Award, Awards!Tick
<1>2. ASSUME NEW u \in Account, NEW id \in Awards!AchievementId
      PROVE  /\ Awards!HasAchievement(u, id) => Awards!HasAchievement(u, id)'
             /\ Awards!HasAchievement(u, id)' =>
                    Awards!HasAchievement(u, id) \/ achievement[id] = "active"
  <2>1. CASE AwardsKept
    BY <2>1 DEF AwardsKept, Awards!HasAchievement
  <2>2. ASSUME NEW user \in Account, NEW a \in Awards!AchievementId, NEW n \in Nat,
               Awarded(user, a, n), achievement[a] = "active"
        PROVE  /\ Awards!HasAchievement(u, id) => Awards!HasAchievement(u, id)'
               /\ Awards!HasAchievement(u, id)' =>
                      Awards!HasAchievement(u, id) \/ achievement[id] = "active"
    <3>1. CASE u # user
      BY <2>2, <3>1 DEF Awarded, Awards!HasAchievement
    <3>2. CASE u = user
      <4>1. \A i \in 1 .. n : i = n \/ i \in 1 .. n - 1
        BY <2>2
      <4>2. 1 .. n - 1 \subseteq 1 .. n
        BY <2>2
      <4> QED BY <2>2, <3>2, <4>1, <4>2 DEF Awarded, Awards!HasAchievement
    <3> QED BY <3>1, <3>2
  <2>3. AwardStep
    BY AwardSteps DEF AwardInv
  <2> QED BY <2>1, <2>2, <2>3 DEF AwardStep
<1> QED BY <1>1, <1>2 DEF Awards!RetireStep

(***************************************************************************)
(* A deactivated achievement is awarded to nobody and never active again;  *)
(* those who have one keep it.                                             *)
(***************************************************************************)
THEOREM RetirementIsFinal == Awards!Spec => Awards!RetirementFinal
<1> QED BY AwardInit, AwardStepInv, AwardStepRetire, PTL
        DEF Awards!Spec, Awards!RetirementFinal
=============================================================================

---------------------- MODULE GovernanceOutcomeProofs ----------------------
(***************************************************************************)
(* What becomes of a proposal, proved over the invariant of                *)
(* GovernanceProofs: the tallies its approval is decided by are the votes  *)
(* that were cast, and once it is scheduled it waits in exactly one queue  *)
(* and is activated on time.                                               *)
(***************************************************************************)
EXTENDS GovernanceProofs, CollectionsProofs

-----------------------------------------------------------------------------
(* Votes *)

\* The recorded power reaches half of the snapshot, and more than half of it is
\* in favour: the test of close_proposal.
Decided(p) ==
    /\ (p.Yes + p.No + p.Abstain) * 2 >= p.snapshot
    /\ 2 * p.Yes > p.Yes + p.No + p.Abstain

VoteTypes ==
    /\ votingPower \in [ProposalId -> [Voter -> Nat]]
    /\ votesByKey \in [ProposalId -> [Voter -> Choice \cup {"None"}]]

\* The tallies of a proposal on its source domain are what the voters' choices
\* add up to, and nobody has voted on a proposal that is not there yet.
TallyOK(id) ==
    LET p == SourceProposal(id)
    IN  IF Knows(id[1], id)
        THEN /\ p.snapshot = SumOver(votingPower[id], Voter)
             /\ \A choice \in Choice : p[choice] = PowerOf(id, {choice})
             /\ p.Yes + p.No + p.Abstain = PowerOf(id, Choice)
             /\ p.status \in Approved => Decided(p)
        ELSE \A v \in Voter : votesByKey[id][v] = "None"

VoteInv == VoteTypes /\ \A id \in ProposalId : TallyOK(id)

\* The record of a proposal moves on from approval, or stays.
Advanced(p, q) ==
    \/ q = p
    \/ p.status \in Approved /\ \E s \in Approved : q = [p EXCEPT !.status = s]

\* A step that only moves proposals on keeps their tallies.
LEMMA TallyKept ==
  ASSUME VoteInv, NEW id \in ProposalId, ProposalOK(id[1], id),
         UNCHANGED <<votesByKey, votingPower>>,
         Advanced(SourceProposal(id), SourceProposal(id)')
  PROVE  TallyOK(id)'
<1> DEFINE p == SourceProposal(id)
           q == SourceProposal(id)'
<1>0. TallyOK(id)
  BY DEF VoteInv
<1>1. \A choices : PowerOf(id, choices)' = PowerOf(id, choices)
  BY DEF PowerOf
<1>2. CASE q = p
  BY <1>0, <1>1, <1>2 DEF TallyOK, Knows, SourceProposal
<1>3. CASE p.status \in Approved /\ \E s \in Approved : q = [p EXCEPT !.status = s]
  <2>1. PICK s \in Approved : q = [p EXCEPT !.status = s]
    BY <1>3
  <2>2. Knows(id[1], id)
    BY <1>3 DEF Knows, Missing, SourceProposal, Approved
  <2>3. IsProposal(p)
    BY <2>2 DEF ProposalOK, SourceProposal
  <2>4. /\ q.snapshot = p.snapshot
        /\ q.Yes = p.Yes /\ q.No = p.No /\ q.Abstain = p.Abstain
        /\ \A choice \in Choice : q[choice] = p[choice]
    BY <2>1, <2>3 DEF IsProposal, Choice
  <2>5. /\ p.snapshot = SumOver(votingPower[id], Voter)
        /\ \A choice \in Choice : p[choice] = PowerOf(id, {choice})
        /\ p.Yes + p.No + p.Abstain = PowerOf(id, Choice)
        /\ Decided(p)
    BY <1>0, <1>3, <2>2 DEF TallyOK
  <2>6. Decided(q)
    BY <2>4, <2>5 DEF Decided
  <2>7. q # Missing
    <3>1. DOMAIN q # DOMAIN Missing
      BY <2>1, <2>3 DEF IsProposal, Missing
    <3> QED
      BY <3>1
  <2> HIDE DEF p
  <2>8. /\ q.snapshot = SumOver(votingPower'[id], Voter)
        /\ \A choice \in Choice : q[choice] = PowerOf(id, {choice})'
        /\ q.Yes + q.No + q.Abstain = PowerOf(id, Choice)'
    BY <1>1, <2>4, <2>5
  <2> QED
    BY <2>6, <2>7, <2>8 DEF TallyOK, Knows, SourceProposal
<1> QED
  BY <1>2, <1>3 DEF Advanced

\* Imports and blocks only move proposals on at their source.
LEMMA SourceAdvances ==
  ASSUME IInv, NEW d \in Domain,
         ImportProposal(d) \/ ImportAck(d) \/ Block(d) \/ FirstBlock(d)
  PROVE  /\ UNCHANGED <<votesByKey, votingPower>>
         /\ \A id \in ProposalId : Advanced(SourceProposal(id), SourceProposal(id)')
<1>1. UNCHANGED <<votesByKey, votingPower>>
  BY DEF ImportProposal, import_verified_governance_proposal, ImportAck,
         import_verified_governance_ack, Block, FirstBlock, voteVars
<1> SUFFICES ASSUME NEW id \in ProposalId
             PROVE  Advanced(proposalsById[id[1]][id], proposalsById'[id[1]][id])
  BY <1>1 DEF SourceProposal
<1>2. id[1] \in Domain
  BY ProposalIdFacts
<1>3. CASE ImportProposal(d)
  <2>1. PICK leaf \in Leaves("ProposalV1") : import_verified_governance_proposal(d, leaf)
    BY <1>3 DEF ImportProposal
  <2>2. PICK s \in Domain, e \in Epoch : leaf \in governanceRoot[s][e]
    BY CommittedLeaf
  <2>3. leaf \in epochLeaves[s][e] /\ leaf.kind = "ProposalV1"
    BY <2>2, CommittedLeaf, RootListed
  <2>4. /\ leaf.proposal_id \in ProposalId
        /\ leaf.proposal_id[1] = s
        /\ leaf.facts.source_domain = s
    <3>1. /\ leaf.proposal_id \in ProposalId
          /\ leaf.proposal_id[1] = s
          /\ proposalsById[s][leaf.proposal_id].source_domain = s
          /\ leaf = ProposalLeaf(leaf.proposal_id, proposalsById[s][leaf.proposal_id],
                                 leaf.target_domain)
      BY <2>3, ProposalLeafSource
    <3>2. leaf.facts.source_domain = proposalsById[s][leaf.proposal_id].source_domain
      BY <3>1 DEF ProposalLeaf, Facts
    <3> QED
      BY <3>1, <3>2
  <2>5. /\ s # d
        /\ maybe_schedule_activation(d, leaf.proposal_id, ImportedProposal(leaf),
                                     store_activation_record({d}))
    BY <2>1, <2>4, Zenon DEF import_verified_governance_proposal
  <2>6. PICK q : proposalsById' = [proposalsById EXCEPT ![d][leaf.proposal_id] = q]
    BY <2>5, ScheduleWrites
  <2>7. id[1] # d \/ id # leaf.proposal_id
    BY <2>4, <2>5
  <2>8. proposalsById'[id[1]][id] = proposalsById[id[1]][id]
    BY <1>2, <2>4, <2>6, <2>7, EntryWritten DEF IInv, Types
  <2> QED
    BY <2>8 DEF Advanced
<1>4. CASE ImportAck(d)
  <2>1. PICK leaf \in Leaves("AckV1") : import_verified_governance_ack(d, leaf)
    BY <1>4 DEF ImportAck
  <2>2. PICK s \in Domain, e \in Epoch : leaf \in governanceRoot[s][e]
    BY CommittedLeaf
  <2>3. leaf \in epochLeaves[s][e] /\ leaf.kind = "AckV1"
    BY <2>2, CommittedLeaf, RootListed
  <2>4. leaf.proposal_id \in ProposalId
    BY <2>3, AckLeafSource
  <2> DEFINE p == proposalsById[d][leaf.proposal_id]
  <2>5. \/ proposalsById' = proposalsById
        \/ maybe_schedule_activation(d, leaf.proposal_id, p,
               note_known_ack_domain(activationRecords[d][leaf.proposal_id],
                                     leaf.acknowledging_domain))
    BY <2>1, Zenon DEF import_verified_governance_ack
  <2>6. CASE proposalsById' = proposalsById
    BY <2>6 DEF Advanced
  <2>7. CASE maybe_schedule_activation(d, leaf.proposal_id, p,
                note_known_ack_domain(activationRecords[d][leaf.proposal_id],
                                      leaf.acknowledging_domain))
    <3>1. PICK q :
              /\ proposalsById' = [proposalsById EXCEPT ![d][leaf.proposal_id] = q]
              /\ \/ q = p
                 \/ p.status = "LocallyFinalized" /\ q = [p EXCEPT !.status = "Scheduled"]
      BY <2>7, ScheduleWrites
    <3>2. Advanced(p, q)
      BY <3>1 DEF Advanced, Approved
    <3>3. /\ proposalsById'[d][leaf.proposal_id] = q
          /\ id[1] # d \/ id # leaf.proposal_id =>
                proposalsById'[id[1]][id] = proposalsById[id[1]][id]
      BY <1>2, <2>4, <3>1, EntryWritten DEF IInv, Types
    <3>4. CASE id[1] # d \/ id # leaf.proposal_id
      BY <3>3, <3>4 DEF Advanced
    <3>5. CASE id[1] = d /\ id = leaf.proposal_id
      BY <3>2, <3>3, <3>5
    <3> QED
      BY <3>4, <3>5
  <2> QED
    BY <2>5, <2>6, <2>7
<1>5. CASE Block(d) \/ FirstBlock(d)
  <2>1. PICK e : on_initialize(d, e)
    BY <1>5 DEF Block, FirstBlock
  <2>2. \/ proposalsById'[id[1]][id] = proposalsById[id[1]][id]
        \/ id[1] = d /\ Activates(d, id)
    BY <1>2, <2>1, BlockWrites, Zenon DEF IInv
  <2>3. CASE proposalsById'[id[1]][id] = proposalsById[id[1]][id]
    BY <2>3 DEF Advanced
  <2>4. CASE id[1] = d /\ Activates(d, id)
    <3>1. "Activated" \in Approved /\ "Scheduled" \in Approved
      BY DEF Approved
    <3> QED
      BY <2>4, <3>1, Zenon DEF Advanced, Activates
  <2> QED
    BY <2>2, <2>3, <2>4
<1> QED
  BY <1>3, <1>4, <1>5

\* What one more vote adds to the power behind a set of choices.
LEMMA VoteAdds ==
  ASSUME NEW power \in [Voter -> Nat], NEW votes \in [Voter -> Choice \cup {"None"}],
         NEW voter \in Voter, votes[voter] = "None", NEW choice \in Choice,
         NEW choices \in SUBSET Choice,
         NEW votes1, votes1 = [votes EXCEPT ![voter] = choice]
  PROVE  LET before == SumOver(power, {v \in Voter : votes[v] \in choices})
             after == SumOver(power, {v \in Voter : votes1[v] \in choices})
         IN  /\ before \in Int
             /\ after = IF choice \in choices THEN before + power[voter] ELSE before
<1> DEFINE S == {v \in Voter : votes[v] \in choices}
           T == {v \in Voter : votes1[v] \in choices}
<1>1. IsFiniteSet(Voter)
  BY GovernanceAssumption
<1>2. IsFiniteSet(S)
  BY <1>1, FS_Subset
<1>3. voter \notin S
  BY DEF Choice
<1>4. IntOn(power, S) /\ IntOn(power, S \cup {voter}) /\ power[voter] \in Int
  BY DEF IntOn
<1>5. T = IF choice \in choices THEN S \cup {voter} ELSE S
  BY <1>3
<1> HIDE DEF S, T
<1>6. SumOver(power, S) \in Int
  BY <1>2, <1>4, SumsAreInt
<1>7. SumOver(power, S \cup {voter}) = power[voter] + SumOver(power, S)
  BY <1>2, <1>3, <1>4, SumInsert
<1>8. SumOver(power, T) =
          IF choice \in choices THEN SumOver(power, S) + power[voter] ELSE SumOver(power, S)
  BY <1>4, <1>5, <1>6, <1>7
<1> QED
  BY <1>6, <1>8 DEF S, T

\* create_proposal starts with empty tallies and the snapshot of the powers.
LEMMA CreateVotes ==
  ASSUME IInv, VoteInv, NEW d \in Domain, Propose(d)
  PROVE  VoteInv'
<1>1. PICK targets \in SUBSET Domain, version \in Version, power \in Snapshots :
          create_proposal(d, targets, version, power)
  BY DEF Propose
<1> DEFINE q == [source_domain |-> d, target_domains |-> targets,
                 new_protocol_version |-> version,
                 voting_end_epoch |-> currentEpoch[d] + 1,
                 approval_epoch |-> NoEpoch, activation_epoch |-> 0,
                 snapshot |-> snapshot_total_voting_power(power),
                 Yes |-> 0, No |-> 0, Abstain |-> 0, status |-> "Voting"]
<1>a. PICK id : id = <<d, nextProposalSequence[d]>>
  BY Zenon
<1>2. /\ Types
      /\ nextProposalSequence[d] \in Nat
      /\ nextProposalSequence[d] < MaxProposal[d]
      /\ proposalsById' = [proposalsById EXCEPT ![d][id] = q]
      /\ votingPower' = [votingPower EXCEPT ![id] = power]
      /\ votesByKey' = votesByKey
  BY <1>1, <1>a DEF IInv, Types, create_proposal, governance_proposal_id
<1>3. id \in ProposalId /\ id[1] = d /\ id[2] = nextProposalSequence[d]
  BY <1>2, <1>a, ProposalIdFacts
<1>4. /\ q.snapshot = SumOver(power, Voter)
      /\ q.status \notin Approved
      /\ \A choice \in Choice : q[choice] = 0
      /\ q.Yes + q.No + q.Abstain = 0
      /\ q # Missing
  BY DEF Approved, Choice, snapshot_total_voting_power, Missing
<1> HIDE DEF q
<1>5. /\ proposalsById'[d][id] = q
      /\ \A x \in Domain, i \in ProposalId :
            x # d \/ i # id => proposalsById'[x][i] = proposalsById[x][i]
  BY <1>2, <1>3, EntryWritten DEF Types
<1>6. ~ Knows(d, id)
  <2>1. ProposalOK(d, id)
    BY <1>3 DEF IInv
  <2> QED
    BY <1>2, <1>3, <2>1 DEF ProposalOK, Knows
<1>7. VoteTypes'
  BY <1>2, <1>3, GovernanceAssumption DEF VoteInv, VoteTypes
<1>8. ASSUME NEW i \in ProposalId, i # id
      PROVE  TallyOK(i)'
  <2>1. i[1] \in Domain
    BY ProposalIdFacts
  <2>2. proposalsById'[i[1]][i] = proposalsById[i[1]][i]
    BY <1>5, <1>8, <2>1
  <2>3. votingPower'[i] = votingPower[i]
    BY <1>2, <1>8 DEF VoteInv, VoteTypes
  <2>4. \A choices : PowerOf(i, choices)' = PowerOf(i, choices)
    BY <1>2, <2>3 DEF PowerOf
  <2> QED
    BY <1>2, <2>2, <2>3, <2>4 DEF VoteInv, TallyOK, Knows, SourceProposal
<1>9. TallyOK(id)'
  <2>1. \A v \in Voter : votesByKey'[id][v] = "None"
    BY <1>2, <1>3, <1>6 DEF VoteInv, TallyOK
  <2>2. votingPower'[id] = power
    BY <1>2, <1>3 DEF VoteInv, VoteTypes
  <2>3. ASSUME NEW choices \in SUBSET Choice
        PROVE  PowerOf(id, choices)' = 0
    <3>1. {v \in Voter : votesByKey'[id][v] \in choices} = {}
      BY <2>1 DEF Choice
    <3> QED
      BY <3>1, SumEmpty DEF PowerOf
  <2>4. /\ \A choice \in Choice : q[choice] = PowerOf(id, {choice})'
        /\ q.Yes + q.No + q.Abstain = PowerOf(id, Choice)'
    BY <1>4, <2>3
  <2> QED
    BY <1>3, <1>4, <1>5, <2>2, <2>4 DEF TallyOK, Knows, SourceProposal
<1> QED
  BY <1>7, <1>8, <1>9 DEF VoteInv

\* cast_vote adds the voter's power to the tally of their choice.
LEMMA CastVotes ==
  ASSUME IInv, VoteInv, NEW d \in Domain, Vote(d)
  PROVE  VoteInv'
<1>1. PICK id \in ProposalId, voter \in Voter, choice \in Choice :
          cast_vote(d, id, voter, choice)
  BY DEF Vote
<1> DEFINE p == proposalsById[d][id]
           q == [p EXCEPT ![choice] = @ + votingPower[id][voter]]
<1>2. /\ Types
      /\ ProposalOK(d, id)
      /\ p.status = "Voting"
      /\ votesByKey[id][voter] = "None"
      /\ votesByKey' = [votesByKey EXCEPT ![id][voter] = choice]
      /\ proposalsById' = [proposalsById EXCEPT ![d][id] = q]
      /\ votingPower' = votingPower
  BY <1>1 DEF IInv, cast_vote
<1>3. Knows(d, id) /\ IsProposal(p) /\ d = id[1]
  BY <1>2 DEF ProposalOK, Knows, Status, Missing, Approved
<1>4. /\ p.snapshot = SumOver(votingPower[id], Voter)
      /\ \A c \in Choice : p[c] = PowerOf(id, {c})
      /\ p.Yes + p.No + p.Abstain = PowerOf(id, Choice)
  BY <1>3 DEF VoteInv, TallyOK, SourceProposal
<1>5. VoteTypes'
  BY <1>2 DEF VoteInv, VoteTypes
<1>6. /\ proposalsById'[d][id] = q
      /\ \A x \in Domain, i \in ProposalId :
            x # d \/ i # id => proposalsById'[x][i] = proposalsById[x][i]
  <2> HIDE DEF q
  <2> QED
    BY <1>2, EntryWritten DEF Types
<1>7. ASSUME NEW i \in ProposalId, i # id
      PROVE  TallyOK(i)'
  <2>1. i[1] \in Domain
    BY ProposalIdFacts
  <2>2. proposalsById'[i[1]][i] = proposalsById[i[1]][i]
    BY <1>6, <1>7, <2>1
  <2>3. votesByKey'[i] = votesByKey[i]
    BY <1>2, <1>7 DEF VoteInv, VoteTypes
  <2>4. \A choices : PowerOf(i, choices)' = PowerOf(i, choices)
    BY <1>2, <2>3, Zenon DEF PowerOf
  <2> QED
    BY <1>2, <2>2, <2>3, <2>4 DEF VoteInv, TallyOK, Knows, SourceProposal
<1>8. PICK w : w = votingPower[id][voter]
  BY Zenon
<1>9. w \in Nat
  BY <1>8 DEF VoteInv, VoteTypes
<1>10. ASSUME NEW choices \in SUBSET Choice
       PROVE  /\ PowerOf(id, choices) \in Int
              /\ PowerOf(id, choices)' = IF choice \in choices THEN PowerOf(id, choices) + w
                                                              ELSE PowerOf(id, choices)
  <2>1. /\ votingPower[id] \in [Voter -> Nat]
        /\ votesByKey[id] \in [Voter -> Choice \cup {"None"}]
        /\ votesByKey'[id] = [votesByKey[id] EXCEPT ![voter] = choice]
    BY <1>2 DEF VoteInv, VoteTypes
  <2> QED
    BY <1>2, <1>8, <2>1, VoteAdds DEF PowerOf
<1>11. /\ q.snapshot = p.snapshot
       /\ q.status = "Voting"
       /\ q[choice] = p[choice] + w
       /\ \A c \in Choice : c # choice => q[c] = p[c]
       /\ DOMAIN q = DOMAIN p
  BY <1>2, <1>3, <1>8 DEF IsProposal, Choice
<1>12. \A c \in Choice : p[c] \in Int /\ q[c] = PowerOf(id, {c})'
  BY <1>4, <1>10, <1>11, Zenon
<1> HIDE DEF q
<1>13. q.Yes + q.No + q.Abstain = PowerOf(id, Choice)'
  <2>1. /\ p["Yes"] \in Int /\ p["No"] \in Int /\ p["Abstain"] \in Int
        /\ choice = "Yes" \/ choice = "No" \/ choice = "Abstain"
    BY <1>12 DEF Choice
  <2>2. PowerOf(id, Choice)' = p.Yes + p.No + p.Abstain + w
    BY <1>4, <1>10
  <2>3. q.Yes + q.No + q.Abstain = p.Yes + p.No + p.Abstain + w
    BY <1>9, <1>11, <2>1 DEF Choice
  <2> QED
    BY <2>2, <2>3
<1>14. q # Missing
  <2>1. DOMAIN q # DOMAIN Missing
    BY <1>3, <1>11 DEF IsProposal, Missing
  <2> QED
    BY <2>1
<1>15. TallyOK(id)'
  BY <1>2, <1>3, <1>4, <1>6, <1>11, <1>12, <1>13, <1>14
     DEF TallyOK, Knows, SourceProposal, Approved
<1> QED
  BY <1>5, <1>7, <1>15 DEF VoteInv

\* close_proposal approves only what the tallies decide.
LEMMA CloseVotes ==
  ASSUME IInv, VoteInv, NEW d \in Domain, Close(d)
  PROVE  VoteInv'
<1>1. PICK id \in ProposalId : close_proposal(d, id)
  BY DEF Close
<1> DEFINE p == proposalsById[d][id]
           approved == ApprovedIn(p, currentEpoch[d], ActivationDelay)
           rejected == [p EXCEPT !.status = "Rejected"]
<1>2. /\ Types
      /\ ProposalOK(d, id)
      /\ p.status = "Voting"
      /\ UNCHANGED <<votesByKey, votingPower>>
  BY <1>1 DEF IInv, close_proposal, voteVars
<1>3. PICK q : /\ proposalsById' = [proposalsById EXCEPT ![d][id] = q]
               /\ (q = approved /\ Decided(p)) \/ q = rejected
  BY <1>1, Zenon DEF close_proposal, Decided
<1>4. Knows(d, id) /\ IsProposal(p) /\ d = id[1]
  BY <1>2 DEF ProposalOK, Knows, Status, Missing, Approved
<1>5. /\ p.snapshot = SumOver(votingPower[id], Voter)
      /\ \A c \in Choice : p[c] = PowerOf(id, {c})
      /\ p.Yes + p.No + p.Abstain = PowerOf(id, Choice)
  BY <1>4 DEF VoteInv, TallyOK, SourceProposal
<1>6. /\ q.snapshot = p.snapshot
      /\ q.Yes = p.Yes /\ q.No = p.No /\ q.Abstain = p.Abstain
      /\ \A c \in Choice : q[c] = p[c]
      /\ q.status \in Approved => Decided(p)
      /\ DOMAIN q = DOMAIN p
  BY <1>3, <1>4, Zenon DEF IsProposal, Choice, ApprovedIn, Approved
<1> HIDE DEF p
<1>7. Decided(p) => Decided(q)
  BY <1>6 DEF Decided
<1>8. q # Missing
  <2>1. DOMAIN q # DOMAIN Missing
    BY <1>4, <1>6 DEF IsProposal, Missing
  <2> QED
    BY <2>1
<1>9. /\ proposalsById'[d][id] = q
      /\ \A x \in Domain, i \in ProposalId :
            x # d \/ i # id => proposalsById'[x][i] = proposalsById[x][i]
  BY <1>2, <1>3, EntryWritten DEF Types
<1>10. \A i, choices : PowerOf(i, choices)' = PowerOf(i, choices)
  BY <1>2 DEF PowerOf
<1>11. ASSUME NEW i \in ProposalId, i # id
       PROVE  TallyOK(i)'
  <2>1. i[1] \in Domain
    BY ProposalIdFacts
  <2>2. proposalsById'[i[1]][i] = proposalsById[i[1]][i]
    BY <1>9, <1>11, <2>1
  <2> QED
    BY <1>2, <1>10, <2>2 DEF VoteInv, TallyOK, Knows, SourceProposal
<1>12. TallyOK(id)'
  BY <1>2, <1>4, <1>5, <1>6, <1>7, <1>8, <1>9, <1>10 DEF TallyOK, Knows, SourceProposal
<1>13. VoteTypes'
  BY <1>2 DEF VoteInv, VoteTypes
<1> QED
  BY <1>11, <1>12, <1>13 DEF VoteInv

\* Every step keeps the tallies.
LEMMA NextVotes == IInv /\ VoteInv /\ [Next]_vars => VoteInv'
<1> SUFFICES ASSUME IInv, VoteInv, [Next]_vars PROVE VoteInv'
  OBVIOUS
<1>1. CASE Next
  <2>1. PICK d \in Domain :
            \/ Propose(d) \/ Vote(d) \/ Close(d) \/ ImportProposal(d)
            \/ ImportAck(d) \/ Block(d) \/ FirstBlock(d)
    BY <1>1 DEF Next
  <2>2. CASE ImportProposal(d) \/ ImportAck(d) \/ Block(d) \/ FirstBlock(d)
    <3>1. /\ UNCHANGED <<votesByKey, votingPower>>
          /\ \A id \in ProposalId : Advanced(SourceProposal(id), SourceProposal(id)')
      BY <2>2, SourceAdvances
    <3>2. \A id \in ProposalId : ProposalOK(id[1], id)
      BY ProposalIdFacts DEF IInv
    <3>3. \A id \in ProposalId : TallyOK(id)'
      BY <3>1, <3>2, TallyKept
    <3> QED
      BY <3>1, <3>3 DEF VoteInv, VoteTypes
  <2> QED
    BY <2>1, <2>2, CreateVotes, CastVotes, CloseVotes
<1>2. CASE UNCHANGED vars
  BY <1>2, Zenon DEF vars, voteVars, VoteInv, VoteTypes, TallyOK, PowerOf, Knows, SourceProposal
<1> QED
  BY <1>1, <1>2

\* Governance starts with no proposal to vote on.
LEMMA InitVotes == Init => VoteInv
<1> SUFFICES ASSUME Init PROVE VoteInv
  OBVIOUS
<1>1. VoteTypes
  BY DEF Init, VoteTypes
<1>2. \A id \in ProposalId : ~ Knows(id[1], id) /\ \A v \in Voter : votesByKey[id][v] = "None"
  BY ProposalIdFacts DEF Init, Knows
<1> QED
  BY <1>1, <1>2 DEF VoteInv, TallyOK

\* The tallies cast_vote keeps are the snapshot powers of the voters who chose
\* so, and close_proposal approves only with half of the snapshot recorded and
\* more than half of the recorded power in favour.
THEOREM ApprovedByMajorityHolds == Spec => []ApprovedByMajority
<1>1. VoteInv => ApprovedByMajority
  <2> SUFFICES ASSUME VoteInv, NEW id \in ProposalId, Knows(id[1], id)
               PROVE  /\ \A choice \in Choice : SourceProposal(id)[choice] = PowerOf(id, {choice})
                      /\ PowerOf(id, Choice) <= SourceProposal(id).snapshot
                      /\ SourceProposal(id).status \in Approved =>
                            /\ 2 * PowerOf(id, Choice) >= SourceProposal(id).snapshot
                            /\ 2 * PowerOf(id, {"Yes"}) > PowerOf(id, Choice)
    BY DEF ApprovedByMajority
  <2> DEFINE p == SourceProposal(id)
             V == {v \in Voter : votesByKey[id][v] \in Choice}
  <2>1. /\ p.snapshot = SumOver(votingPower[id], Voter)
        /\ \A choice \in Choice : p[choice] = PowerOf(id, {choice})
        /\ p.Yes + p.No + p.Abstain = PowerOf(id, Choice)
        /\ p.status \in Approved => Decided(p)
    BY DEF VoteInv, TallyOK
  <2>2. IsFiniteSet(Voter) /\ V \in SUBSET Voter /\ \A v \in Voter : votingPower[id][v] \in Nat
    BY GovernanceAssumption DEF VoteInv, VoteTypes
  <2>3. PowerOf(id, Choice) <= p.snapshot
    <3>1. PowerOf(id, Choice) = SumOver(votingPower[id], V)
      BY DEF PowerOf
    <3> HIDE DEF V
    <3> QED
      BY <2>1, <2>2, <3>1, SumMonotone
  <2>4. IntOn(votingPower[id], Voter)
    BY <2>2 DEF IntOn
  <2>5. PowerOf(id, Choice) \in Int
    <3>1. PowerOf(id, Choice) = SumOver(votingPower[id], V)
      BY DEF PowerOf
    <3> HIDE DEF V
    <3> QED
      BY <2>2, <2>4, <3>1, SumsAreInt
  <2>6. p.Yes = PowerOf(id, {"Yes"})
    BY <2>1 DEF Choice
  <2> HIDE DEF p
  <2>7. p.status \in Approved => /\ 2 * PowerOf(id, Choice) >= p.snapshot
                               /\ 2 * PowerOf(id, {"Yes"}) > PowerOf(id, Choice)
    BY <2>1, <2>5, <2>6 DEF Decided
  <2> QED
    BY <2>1, <2>3, <2>7 DEF p
<1> QED
  BY <1>1, InitVotes, NextVotes, GovernanceInvariant, PTL DEF Spec

-----------------------------------------------------------------------------
(* Queues *)

QueueTypes ==
    /\ scheduledByEpoch \in [Domain -> [Epoch -> Seq(ProposalId)]]
    /\ readyActivationIds \in [Domain -> Seq(ProposalId)]

InBucket(d, id, e) == id \in Range(scheduledByEpoch[d][e])
InReady(d, id) == id \in Range(readyActivationIds[d])

\* Where a proposal of domain d waits and when it was activated.  A bucket that
\* was run keeps its proposals, all activated; the ready queue is emptied by
\* every block, so that what it holds was scheduled in the current epoch.
QueueOK(d, id) ==
    LET due == proposalsById[d][id].activation_epoch
        record == activationRecords[d][id]
    IN  /\ \A e \in Epoch : InBucket(d, id, e) =>
              /\ e = due
              /\ Status(d, id) \in {"Scheduled", "Activated"}
              /\ Status(d, id) = "Scheduled" => due > currentEpoch[d]
        /\ InReady(d, id) => Status(d, id) = "Scheduled" /\ due <= currentEpoch[d]
        /\ Status(d, id) = "Scheduled" =>
              /\ record.scheduled_at_epoch \in Epoch
              /\ \/ /\ InBucket(d, id, due)
                    /\ record.scheduled_at_epoch < due
                 \/ /\ InReady(d, id)
                    /\ record.scheduled_at_epoch = currentEpoch[d]
        /\ Status(d, id) = "Activated" =>
              IF record.scheduled_at_epoch < due
              THEN record.activated_at_epoch = due
              ELSE record.activated_at_epoch - record.scheduled_at_epoch \in {0, 1}

QueueInv == QueueTypes /\ \A d \in Domain, id \in ProposalId : QueueOK(d, id)

Queued == {"Scheduled", "Activated"}

\* A step leaves alone what QueueOK says of a proposal: the epoch and the
\* queues, and either the records or a status that no queue is about.
Quiet(d, id) ==
    /\ currentEpoch'[d] = currentEpoch[d]
    /\ \A e \in Epoch : InBucket(d, id, e)' => InBucket(d, id, e)
    /\ \A e \in Epoch : InBucket(d, id, e) => InBucket(d, id, e)'
    /\ InReady(d, id)' <=> InReady(d, id)
    /\ \/ /\ proposalsById'[d][id].status = proposalsById[d][id].status
          /\ proposalsById'[d][id].activation_epoch = proposalsById[d][id].activation_epoch
          /\ activationRecords'[d][id].scheduled_at_epoch
                = activationRecords[d][id].scheduled_at_epoch
          /\ activationRecords'[d][id].activated_at_epoch
                = activationRecords[d][id].activated_at_epoch
       \/ /\ proposalsById[d][id].status \notin Queued
          /\ proposalsById'[d][id].status \notin Queued

\* A proposal stays queued while a step changes neither it nor its queues.
LEMMA QuietKept ==
  ASSUME NEW d \in Domain, NEW id \in ProposalId, QueueOK(d, id), Quiet(d, id),
         proposalsById[d][id].status \in Queued => proposalsById[d][id].activation_epoch \in Epoch
  PROVE  QueueOK(d, id)'
<1>1. CASE /\ proposalsById[d][id].status \notin Queued
           /\ proposalsById'[d][id].status \notin Queued
  <2>1. ~ InReady(d, id) /\ \A e \in Epoch : ~ InBucket(d, id, e)
    BY <1>1 DEF QueueOK, Status, Queued
  <2>2. ~ InReady(d, id)' /\ \A e \in Epoch : ~ InBucket(d, id, e)'
    BY <2>1 DEF Quiet
  <2> QED
    BY <1>1, <2>2 DEF QueueOK, Status, Queued
<1>2. CASE ~ (/\ proposalsById[d][id].status \notin Queued
              /\ proposalsById'[d][id].status \notin Queued)
  <2>1. /\ proposalsById'[d][id].status = proposalsById[d][id].status
        /\ proposalsById'[d][id].activation_epoch = proposalsById[d][id].activation_epoch
        /\ activationRecords'[d][id].scheduled_at_epoch
              = activationRecords[d][id].scheduled_at_epoch
        /\ activationRecords'[d][id].activated_at_epoch
              = activationRecords[d][id].activated_at_epoch
        /\ proposalsById[d][id].activation_epoch \in Epoch
    BY <1>2, Zenon DEF Quiet
  <2> QED
    BY <2>1 DEF Quiet, QueueOK, Status
<1> QED
  BY <1>1, <1>2

\* An approved proposal is due in an epoch.
LEMMA DueInEpoch ==
  ASSUME IInv, NEW d \in Domain, NEW id \in ProposalId, Status(d, id) \in Approved
  PROVE  /\ IsProposal(proposalsById[d][id])
         /\ proposalsById[d][id].activation_epoch \in Epoch
<1>1. Knows(d, id)
  BY DEF Knows, Status, Missing, Approved
<1> QED
  BY <1>1 DEF IInv, ProposalOK, IsProposal, Status

\* A proposal that is scheduled has an epoch to be activated in.
LEMMA QueuedDue ==
  ASSUME IInv, NEW d \in Domain, NEW id \in ProposalId,
         proposalsById[d][id].status \in Queued
  PROVE  proposalsById[d][id].activation_epoch \in Epoch
BY DueInEpoch DEF Status, Queued, Approved

\* A step that writes the entry of a proposal that is not scheduled, and no
\* queue, keeps the queues' invariant.
LEMMA EntryQueues ==
  ASSUME IInv, QueueInv, NEW d \in Domain, NEW id \in ProposalId, NEW q,
         proposalsById' = [proposalsById EXCEPT ![d][id] = q],
         \A x \in Domain, i \in ProposalId :
             x # d \/ i # id => activationRecords'[x][i] = activationRecords[x][i],
         UNCHANGED <<scheduledByEpoch, readyActivationIds, currentEpoch>>,
         proposalsById[d][id].status \notin Queued, q.status \notin Queued
  PROVE  QueueInv'
<1>1. /\ proposalsById'[d][id] = q
      /\ \A x \in Domain, i \in ProposalId :
            x # d \/ i # id => proposalsById'[x][i] = proposalsById[x][i]
  BY EntryWritten DEF IInv, Types
<1>2. \A x \in Domain, i \in ProposalId : Quiet(x, i)
  BY <1>1 DEF Quiet, InBucket, InReady
<1>3. \A x \in Domain, i \in ProposalId : QueueOK(x, i)'
  BY <1>2, QuietKept, QueuedDue DEF QueueInv
<1> QED
  BY <1>3 DEF QueueInv, QueueTypes

\* A step that changes no proposal, record, queue or epoch keeps the queues.
LEMMA QueuesUntouched ==
  ASSUME IInv, QueueInv,
         UNCHANGED <<proposalsById, activationRecords, scheduledByEpoch, readyActivationIds,
                     currentEpoch>>
  PROVE  QueueInv'
<1>1. \A x \in Domain, i \in ProposalId : Quiet(x, i)
  BY DEF Quiet, InBucket, InReady
<1>2. \A x \in Domain, i \in ProposalId : QueueOK(x, i)'
  BY <1>1, QuietKept, QueuedDue DEF QueueInv
<1> QED
  BY <1>2 DEF QueueInv, QueueTypes

\* Pushing an id that is not there yet.
LEMMA Pushes ==
  ASSUME NEW ids \in Seq(ProposalId), NEW id \in ProposalId
  PROVE  /\ PushNew(ids, id) \in Seq(ProposalId)
         /\ \A i : i \in Range(PushNew(ids, id)) <=> i \in Range(ids) \/ i = id
<1>1. CASE id \in Range(ids)
  BY <1>1 DEF PushNew
<1>2. CASE id \notin Range(ids)
  <2>1. PushNew(ids, id) = Append(ids, id)
    BY <1>2 DEF PushNew
  <2>2. \A i : i \in Range(Append(ids, id)) <=> i \in Range(ids) \/ i = id
    <3>1. DOMAIN Append(ids, id) = 1 .. Len(ids) + 1 /\ DOMAIN ids = 1 .. Len(ids)
          /\ Len(ids) \in Nat
      OBVIOUS
    <3>2. Append(ids, id)[Len(ids) + 1] = id
      OBVIOUS
    <3>3. \A k \in DOMAIN ids : Append(ids, id)[k] = ids[k]
      OBVIOUS
    <3>4. \A k \in DOMAIN Append(ids, id) : k \in DOMAIN ids \/ k = Len(ids) + 1
      BY <3>1
    <3>5. Len(ids) + 1 \in DOMAIN Append(ids, id) /\ \A k \in DOMAIN ids : k \in DOMAIN Append(ids, id)
      BY <3>1
    <3> QED
      BY <3>2, <3>3, <3>4, <3>5, Zenon DEF Range
  <2> QED
    BY <2>1, <2>2
<1> QED
  BY <1>1, <1>2

\* What maybe_schedule_activation does to the queues: nothing, or it puts a
\* proposal that was not scheduled in the bucket of its epoch or, when that has
\* come, in the ready queue.
Placed(d, id, p, r) ==
    LET q == proposalsById'[d][id]
        x == activationRecords'[d][id]
    IN  \/ /\ q = p /\ x = r
           /\ UNCHANGED <<scheduledByEpoch, readyActivationIds>>
        \/ /\ p.status = "LocallyFinalized"
           /\ q.status = "Scheduled"
           /\ q.activation_epoch = p.activation_epoch
           /\ x.scheduled_at_epoch = currentEpoch[d]
           /\ \/ /\ currentEpoch[d] < p.activation_epoch
                 /\ scheduledByEpoch' = [scheduledByEpoch EXCEPT
                        ![d][p.activation_epoch] = PushNew(@, id)]
                 /\ UNCHANGED readyActivationIds
              \/ /\ ~ currentEpoch[d] < p.activation_epoch
                 /\ readyActivationIds' = [readyActivationIds EXCEPT ![d] = PushNew(@, id)]
                 /\ UNCHANGED scheduledByEpoch

\* maybe_schedule_activation writes one proposal and puts it where it is due.
LEMMA SchedulePlaces ==
  ASSUME Types, NEW d \in Domain, NEW id \in ProposalId, NEW p, NEW r,
         IsProposal(p), IsRecord(r), maybe_schedule_activation(d, id, p, r)
  PROVE  /\ Placed(d, id, p, r)
         /\ \A x \in Domain, i \in ProposalId :
               x # d \/ i # id => /\ proposalsById'[x][i] = proposalsById[x][i]
                                  /\ activationRecords'[x][i] = activationRecords[x][i]
<1>1. CASE ~ ReadyToSchedule(p, r)
  <2>1. /\ proposalsById' = [proposalsById EXCEPT ![d][id] = p]
        /\ activationRecords' = [activationRecords EXCEPT ![d][id] = r]
        /\ UNCHANGED <<scheduledByEpoch, readyActivationIds>>
    BY <1>1 DEF maybe_schedule_activation, NotScheduled, queueVars
  <2>2. /\ proposalsById'[d][id] = p
        /\ \A x \in Domain, i \in ProposalId :
              x # d \/ i # id => proposalsById'[x][i] = proposalsById[x][i]
    BY <2>1, EntryWritten DEF Types
  <2>3. /\ activationRecords'[d][id] = r
        /\ \A x \in Domain, i \in ProposalId :
              x # d \/ i # id => activationRecords'[x][i] = activationRecords[x][i]
    BY <2>1, EntryWritten DEF Types
  <2> QED
    BY <2>1, <2>2, <2>3 DEF Placed
<1>2. CASE ReadyToSchedule(p, r)
  <2> DEFINE q == [p EXCEPT !.status = "Scheduled"]
             x == [r EXCEPT !.scheduled_at_epoch = currentEpoch[d]]
  <2>1. /\ proposalsById' = [proposalsById EXCEPT ![d][id] = q]
        /\ activationRecords' = [activationRecords EXCEPT ![d][id] = x]
    BY <1>2 DEF maybe_schedule_activation, ScheduleInBucket
  <2>2. \/ /\ currentEpoch[d] < p.activation_epoch
           /\ scheduledByEpoch' = [scheduledByEpoch EXCEPT
                  ![d][p.activation_epoch] = PushNew(@, id)]
           /\ UNCHANGED readyActivationIds
        \/ /\ ~ currentEpoch[d] < p.activation_epoch
           /\ readyActivationIds' = [readyActivationIds EXCEPT ![d] = PushNew(@, id)]
           /\ UNCHANGED scheduledByEpoch
    BY <1>2, Zenon DEF maybe_schedule_activation, ScheduleInBucket
  <2>3. /\ p.status = "LocallyFinalized"
        /\ q.status = "Scheduled"
        /\ q.activation_epoch = p.activation_epoch
        /\ x.scheduled_at_epoch = currentEpoch[d]
    BY <1>2 DEF ReadyToSchedule, IsProposal, IsRecord
  <2> HIDE DEF q, x
  <2>4. /\ proposalsById'[d][id] = q
        /\ \A y \in Domain, i \in ProposalId :
              y # d \/ i # id => proposalsById'[y][i] = proposalsById[y][i]
    BY <2>1, EntryWritten DEF Types
  <2>5. /\ activationRecords'[d][id] = x
        /\ \A y \in Domain, i \in ProposalId :
              y # d \/ i # id => activationRecords'[y][i] = activationRecords[y][i]
    BY <2>1, EntryWritten DEF Types
  <2> QED
    BY <2>2, <2>3, <2>4, <2>5, Zenon DEF Placed
<1> QED
  BY <1>1, <1>2

\* Where the ids are after one was put in a bucket or in the ready queue.
LEMMA BucketPushed ==
  ASSUME QueueTypes, NEW d \in Domain, NEW id \in ProposalId, NEW due \in Epoch,
         scheduledByEpoch' = [scheduledByEpoch EXCEPT ![d][due] = PushNew(@, id)],
         UNCHANGED readyActivationIds
  PROVE  /\ QueueTypes'
         /\ \A y \in Domain, i \in ProposalId, e \in Epoch :
               InBucket(y, i, e)' <=> InBucket(y, i, e) \/ (y = d /\ i = id /\ e = due)
         /\ \A y \in Domain, i \in ProposalId : InReady(y, i)' <=> InReady(y, i)
<1>1. scheduledByEpoch[d][due] \in Seq(ProposalId)
  BY DEF QueueTypes
<1>2. PICK ids : ids = PushNew(scheduledByEpoch[d][due], id)
  BY Zenon
<1>3. /\ ids \in Seq(ProposalId)
      /\ \A i : i \in Range(ids) <=> i \in Range(scheduledByEpoch[d][due]) \/ i = id
  BY <1>1, <1>2, Pushes
<1>4. /\ scheduledByEpoch' \in [Domain -> [Epoch -> Seq(ProposalId)]]
      /\ \A y \in Domain, e \in Epoch : scheduledByEpoch'[y][e] =
            IF y = d /\ e = due THEN ids ELSE scheduledByEpoch[y][e]
  BY <1>2, <1>3 DEF QueueTypes
<1> QED
  BY <1>3, <1>4 DEF QueueTypes, InBucket, InReady

\* A proposal pushed to the ready queue is in it, and nothing else has moved.
LEMMA ReadyPushed ==
  ASSUME QueueTypes, NEW d \in Domain, NEW id \in ProposalId,
         readyActivationIds' = [readyActivationIds EXCEPT ![d] = PushNew(@, id)],
         UNCHANGED scheduledByEpoch
  PROVE  /\ QueueTypes'
         /\ \A y \in Domain, i \in ProposalId, e \in Epoch :
               InBucket(y, i, e)' <=> InBucket(y, i, e)
         /\ \A y \in Domain, i \in ProposalId :
               InReady(y, i)' <=> InReady(y, i) \/ (y = d /\ i = id)
<1>1. readyActivationIds[d] \in Seq(ProposalId)
  BY DEF QueueTypes
<1>2. PICK ids : ids = PushNew(readyActivationIds[d], id)
  BY Zenon
<1>3. /\ ids \in Seq(ProposalId)
      /\ \A i : i \in Range(ids) <=> i \in Range(readyActivationIds[d]) \/ i = id
  BY <1>1, <1>2, Pushes
<1>4. /\ readyActivationIds' \in [Domain -> Seq(ProposalId)]
      /\ \A y \in Domain : readyActivationIds'[y] =
            IF y = d THEN ids ELSE readyActivationIds[y]
  BY <1>2, <1>3 DEF QueueTypes
<1> QED
  BY <1>3, <1>4 DEF QueueTypes, InBucket, InReady

\* A proposal is placed where a later block takes it.  Its records before the
\* step are those it is placed with, or it was not scheduled.
LEMMA PlacedQueues ==
  ASSUME IInv, QueueInv, NEW d \in Domain, NEW id \in ProposalId, NEW p, NEW r,
         Placed(d, id, p, r), p.activation_epoch \in Epoch,
         currentEpoch' = currentEpoch,
         \A x \in Domain, i \in ProposalId :
             x # d \/ i # id => /\ proposalsById'[x][i] = proposalsById[x][i]
                                /\ activationRecords'[x][i] = activationRecords[x][i],
         \/ /\ p = proposalsById[d][id]
            /\ r.scheduled_at_epoch = activationRecords[d][id].scheduled_at_epoch
            /\ r.activated_at_epoch = activationRecords[d][id].activated_at_epoch
         \/ proposalsById[d][id].status \notin Queued /\ p.status \notin Queued
  PROVE  QueueInv'
<1> DEFINE q == proposalsById'[d][id]
           x == activationRecords'[d][id]
           due == p.activation_epoch
<1>1. CASE q = p /\ x = r /\ UNCHANGED <<scheduledByEpoch, readyActivationIds>>
  <2>1. ASSUME NEW y \in Domain, NEW i \in ProposalId
        PROVE  Quiet(y, i)
    <3>1. CASE y = d /\ i = id
      BY <1>1, <3>1 DEF Quiet, InBucket, InReady
    <3>2. CASE y # d \/ i # id
      BY <1>1, <3>2 DEF Quiet, InBucket, InReady
    <3> QED
      BY <3>1, <3>2
  <2>2. \A y \in Domain, i \in ProposalId : QueueOK(y, i)'
    BY <2>1, QuietKept, QueuedDue DEF QueueInv
  <2> QED
    BY <1>1, <2>2 DEF QueueInv, QueueTypes
<1>2. CASE /\ p.status = "LocallyFinalized"
           /\ q.status = "Scheduled"
           /\ q.activation_epoch = due
           /\ x.scheduled_at_epoch = currentEpoch[d]
           /\ \/ /\ currentEpoch[d] < due
                 /\ scheduledByEpoch' = [scheduledByEpoch EXCEPT ![d][due] = PushNew(@, id)]
                 /\ UNCHANGED readyActivationIds
              \/ /\ ~ currentEpoch[d] < due
                 /\ readyActivationIds' = [readyActivationIds EXCEPT ![d] = PushNew(@, id)]
                 /\ UNCHANGED scheduledByEpoch
  <2>1. proposalsById[d][id].status \notin Queued
    BY <1>2 DEF Queued
  <2>2. ~ InReady(d, id) /\ \A e \in Epoch : ~ InBucket(d, id, e)
    BY <2>1 DEF QueueInv, QueueOK, Status, Queued
  <2>3. currentEpoch[d] \in Epoch /\ Epoch \subseteq Nat
    BY GovernanceAssumption DEF IInv, Types, Epoch
  <2>4. CASE /\ currentEpoch[d] < due
             /\ scheduledByEpoch' = [scheduledByEpoch EXCEPT ![d][due] = PushNew(@, id)]
             /\ UNCHANGED readyActivationIds
    <3>1. /\ QueueTypes'
          /\ \A y \in Domain, i \in ProposalId, e \in Epoch :
                InBucket(y, i, e)' <=> InBucket(y, i, e) \/ (y = d /\ i = id /\ e = due)
          /\ \A y \in Domain, i \in ProposalId : InReady(y, i)' <=> InReady(y, i)
      BY <2>4, BucketPushed, Zenon DEF QueueInv
    <3>2. ASSUME NEW y \in Domain, NEW i \in ProposalId, y # d \/ i # id
          PROVE  QueueOK(y, i)'
      <4>1. Quiet(y, i)
        BY <3>1, <3>2 DEF Quiet
      <4> QED
        BY <4>1, QuietKept, QueuedDue DEF QueueInv
    <3>3. QueueOK(d, id)'
      BY <1>2, <2>2, <2>3, <2>4, <3>1 DEF QueueOK, Status
    <3> QED
      BY <3>1, <3>2, <3>3 DEF QueueInv
  <2>5. CASE /\ ~ currentEpoch[d] < due
             /\ readyActivationIds' = [readyActivationIds EXCEPT ![d] = PushNew(@, id)]
             /\ UNCHANGED scheduledByEpoch
    <3>1. /\ QueueTypes'
          /\ \A y \in Domain, i \in ProposalId, e \in Epoch :
                InBucket(y, i, e)' <=> InBucket(y, i, e)
          /\ \A y \in Domain, i \in ProposalId :
                InReady(y, i)' <=> InReady(y, i) \/ (y = d /\ i = id)
      BY <2>5, ReadyPushed, Zenon DEF QueueInv
    <3>2. ASSUME NEW y \in Domain, NEW i \in ProposalId, y # d \/ i # id
          PROVE  QueueOK(y, i)'
      <4>1. Quiet(y, i)
        BY <3>1, <3>2 DEF Quiet
      <4> QED
        BY <4>1, QuietKept, QueuedDue DEF QueueInv
    <3>3. QueueOK(d, id)'
      BY <1>2, <2>2, <2>3, <2>5, <3>1 DEF QueueOK, Status
    <3> QED
      BY <3>1, <3>2, <3>3 DEF QueueInv
  <2> QED
    BY <1>2, <2>4, <2>5
<1> QED
  BY <1>1, <1>2 DEF Placed

\* Proposals are not scheduled before they are approved.
LEMMA CallQueues ==
  ASSUME IInv, QueueInv, NEW d \in Domain, Propose(d) \/ Vote(d) \/ Close(d)
  PROVE  QueueInv'
<1>1. CASE Propose(d)
  <2>1. PICK targets \in SUBSET Domain, version \in Version, power \in Snapshots :
            create_proposal(d, targets, version, power)
    BY <1>1 DEF Propose
  <2>2. PICK id : id = <<d, nextProposalSequence[d]>>
    BY Zenon
  <2>3. /\ nextProposalSequence[d] < MaxProposal[d] /\ nextProposalSequence[d] \in Nat
        /\ UNCHANGED <<activationRecords, scheduledByEpoch, readyActivationIds, currentEpoch>>
    BY <2>1 DEF create_proposal, IInv, Types, queueVars, epochVars
  <2>4. PICK q : /\ proposalsById' = [proposalsById EXCEPT ![d][id] = q]
                 /\ q.status = "Voting"
    <3> DEFINE v == [source_domain |-> d, target_domains |-> targets,
                     new_protocol_version |-> version,
                     voting_end_epoch |-> currentEpoch[d] + 1,
                     approval_epoch |-> NoEpoch, activation_epoch |-> 0,
                     snapshot |-> snapshot_total_voting_power(power),
                     Yes |-> 0, No |-> 0, Abstain |-> 0, status |-> "Voting"]
    <3>1. proposalsById' = [proposalsById EXCEPT ![d][id] = v] /\ v.status = "Voting"
      BY <2>1, <2>2, Zenon DEF create_proposal, governance_proposal_id
    <3> HIDE DEF v
    <3> QED
      BY <3>1, Zenon
  <2>5. id \in ProposalId /\ id[1] = d /\ id[2] = nextProposalSequence[d]
    BY <2>2, <2>3, ProposalIdFacts
  <2>6. ~ Knows(d, id)
    <3>1. ProposalOK(d, id)
      BY <2>5, EntryGood DEF EntryOK
    <3>2. ~ id[2] < nextProposalSequence[d]
      BY <2>3, <2>5
    <3> QED
      BY <2>5, <3>1, <3>2 DEF ProposalOK
  <2>7. proposalsById[d][id].status \notin Queued /\ q.status \notin Queued
    BY <2>4, <2>6 DEF Knows, Missing, Queued
  <2> QED
    BY <2>3, <2>4, <2>5, <2>7, EntryQueues, Zenon
<1>2. CASE Vote(d)
  <2>1. PICK id \in ProposalId, voter \in Voter, choice \in Choice :
            cast_vote(d, id, voter, choice)
    BY <1>2 DEF Vote
  <2> DEFINE p == proposalsById[d][id]
             q == [p EXCEPT ![choice] = @ + votingPower[id][voter]]
  <2>2. /\ p.status = "Voting"
        /\ proposalsById' = [proposalsById EXCEPT ![d][id] = q]
        /\ UNCHANGED <<activationRecords, scheduledByEpoch, readyActivationIds, currentEpoch>>
    BY <2>1 DEF cast_vote, queueVars, epochVars
  <2>3. IsProposal(p)
    BY <2>2 DEF IInv, ProposalOK, Knows, Missing
  <2>4. q.status = "Voting"
    BY <2>2, <2>3 DEF IsProposal, Choice
  <2>5. p.status \notin Queued /\ q.status \notin Queued
    BY <2>2, <2>4 DEF Queued
  <2> HIDE DEF q
  <2> QED
    BY <2>2, <2>5, EntryQueues, Zenon
<1>3. CASE Close(d)
  <2>1. PICK id \in ProposalId : close_proposal(d, id)
    BY <1>3 DEF Close
  <2> DEFINE p == proposalsById[d][id]
             approved == ApprovedIn(p, currentEpoch[d], ActivationDelay)
             rejected == [p EXCEPT !.status = "Rejected"]
  <2>2. /\ p.status = "Voting"
        /\ UNCHANGED <<scheduledByEpoch, readyActivationIds, currentEpoch>>
    BY <2>1 DEF close_proposal, queueVars, epochVars
  <2>3. IsProposal(p)
    BY <2>2 DEF IInv, ProposalOK, Knows, Missing
  <2>4. PICK q : /\ proposalsById' = [proposalsById EXCEPT ![d][id] = q]
                 /\ q = approved \/ q = rejected
    BY <2>1, Zenon DEF close_proposal
  <2>5. p.status \notin Queued /\ q.status \notin Queued
    BY <2>2, <2>3, <2>4, Zenon DEF Queued, IsProposal, ApprovedIn
  <2>6. \/ activationRecords' = activationRecords
        \/ activationRecords' =
              [activationRecords EXCEPT ![d][id] = store_activation_record({})]
    BY <2>1, Zenon DEF close_proposal
  <2>7. \A x \in Domain, i \in ProposalId :
            x # d \/ i # id => activationRecords'[x][i] = activationRecords[x][i]
    <3>1. CASE activationRecords' = activationRecords
      BY <3>1
    <3>2. CASE activationRecords' =
              [activationRecords EXCEPT ![d][id] = store_activation_record({})]
      <4>1. PICK w : activationRecords' = [activationRecords EXCEPT ![d][id] = w]
        BY <3>2, Zenon
      <4> QED
        BY <4>1, EntryWritten DEF IInv, Types
    <3> QED
      BY <2>6, <3>1, <3>2
  <2> QED
    BY <2>2, <2>4, <2>5, <2>7, EntryQueues, Zenon
<1> QED
  BY <1>1, <1>2, <1>3

\* The values of a concatenation.
LEMMA RangeConcat ==
  ASSUME NEW s \in Seq(ProposalId), NEW t \in Seq(ProposalId)
  PROVE  \A i : i \in Range(s \o t) <=> i \in Range(s) \/ i \in Range(t)
<1>1. /\ DOMAIN s = 1 .. Len(s) /\ DOMAIN t = 1 .. Len(t)
      /\ DOMAIN (s \o t) = 1 .. Len(s) + Len(t)
      /\ Len(s) \in Nat /\ Len(t) \in Nat
  OBVIOUS
<1>2. \A k \in DOMAIN s : k \in DOMAIN (s \o t) /\ (s \o t)[k] = s[k]
  BY <1>1
<1>3. \A k \in DOMAIN t : Len(s) + k \in DOMAIN (s \o t) /\ (s \o t)[Len(s) + k] = t[k]
  BY <1>1
<1>4. \A k \in DOMAIN (s \o t) : k \in DOMAIN s \/ \E j \in DOMAIN t : k = Len(s) + j
  <2> SUFFICES ASSUME NEW k \in DOMAIN (s \o t), k \notin DOMAIN s
               PROVE  \E j \in DOMAIN t : k = Len(s) + j
    OBVIOUS
  <2> WITNESS k - Len(s) \in DOMAIN t
  <2> QED
    BY <1>1
<1>5. ASSUME NEW i \in Range(s \o t)
      PROVE  i \in Range(s) \/ i \in Range(t)
  <2>1. PICK k \in DOMAIN (s \o t) : i = (s \o t)[k]
    BY DEF Range
  <2>2. CASE k \in DOMAIN s
    BY <1>2, <2>1, <2>2 DEF Range
  <2>3. CASE \E j \in DOMAIN t : k = Len(s) + j
    BY <1>3, <2>1, <2>3 DEF Range
  <2> QED
    BY <1>4, <2>2, <2>3
<1>6. Range(s) \subseteq Range(s \o t) /\ Range(t) \subseteq Range(s \o t)
  <2>1. ASSUME NEW i \in Range(s)
        PROVE  i \in Range(s \o t)
    <3>1. PICK k \in DOMAIN s : i = s[k]
      BY DEF Range
    <3> QED
      BY <1>2, <3>1 DEF Range
  <2>2. ASSUME NEW i \in Range(t)
        PROVE  i \in Range(s \o t)
    <3>1. PICK k \in DOMAIN t : i = t[k]
      BY DEF Range
    <3> QED
      BY <1>3, <3>1, Zenon DEF Range
  <2> QED
    BY <2>1, <2>2
<1> QED
  BY <1>5, <1>6

\* An import places the proposal it stores or acknowledges.
LEMMA ImportQueues ==
  ASSUME IInv, QueueInv, NEW d \in Domain, ImportProposal(d) \/ ImportAck(d)
  PROVE  QueueInv'
<1>1. CASE ImportProposal(d)
  <2>1. PICK leaf \in Leaves("ProposalV1") : import_verified_governance_proposal(d, leaf)
    BY <1>1 DEF ImportProposal
  <2>2. PICK s \in Domain, e \in Epoch : leaf \in governanceRoot[s][e]
    BY CommittedLeaf
  <2>3. leaf \in epochLeaves[s][e] /\ leaf.kind = "ProposalV1"
    BY <2>2, CommittedLeaf, RootListed
  <2> DEFINE id == leaf.proposal_id
             P == proposalsById[s][id]
             p == ImportedProposal(leaf)
             r == store_activation_record({d})
  <2>4. /\ id \in ProposalId
        /\ P.status \in Approved
        /\ IsProposal(P)
        /\ leaf = ProposalLeaf(id, P, leaf.target_domain)
        /\ e = P.approval_epoch
    BY <2>3, ProposalLeafSource
  <2>5. leaf.facts = Facts(P)
    BY <2>4 DEF ProposalLeaf
  <2>6. /\ p.activation_epoch \in Epoch
        /\ p.status = "LocallyFinalized"
        /\ p.approval_epoch \in Epoch
        /\ p.target_domains \subseteq Domain
    <3>1. /\ p.activation_epoch = P.activation_epoch
          /\ p.status = "LocallyFinalized"
          /\ p.target_domains = P.target_domains
          /\ p.approval_epoch = leaf.epoch
      <4>1. /\ p.activation_epoch = leaf.facts.activation_epoch
            /\ p.status = "LocallyFinalized"
            /\ p.target_domains = leaf.facts.target_domains
            /\ p.approval_epoch = leaf.epoch
        BY DEF ImportedProposal
      <4>2. /\ leaf.facts.activation_epoch = P.activation_epoch
            /\ leaf.facts.target_domains = P.target_domains
        BY <2>5 DEF Facts
      <4> HIDE DEF P, p
      <4> QED
        BY <4>1, <4>2
    <3>2. leaf.epoch = P.approval_epoch
      BY <2>4 DEF ProposalLeaf
    <3>3. P.activation_epoch \in Epoch /\ P.approval_epoch \in Epoch /\ P.target_domains \subseteq Domain
      BY <2>4 DEF IsProposal
    <3> HIDE DEF P, p
    <3> QED
      BY <3>1, <3>2, <3>3
  <2>7. IsProposal(p)
    <3>1. DOMAIN p = {"source_domain", "target_domains", "new_protocol_version",
                      "voting_end_epoch", "approval_epoch", "activation_epoch",
                      "snapshot", "Yes", "No", "Abstain", "status"}
      BY DEF ImportedProposal
    <3> HIDE DEF p
    <3> QED
      BY <2>6, <3>1 DEF IsProposal, Approved
  <2>8. IsRecord(r)
    BY DEF store_activation_record, IsRecord
  <2>9. /\ proposalsById[d][id] = Missing
        /\ maybe_schedule_activation(d, id, p, r)
        /\ currentEpoch' = currentEpoch
    BY <2>1 DEF import_verified_governance_proposal, epochVars
  <2> HIDE DEF p, r
  <2>10. /\ Placed(d, id, p, r)
         /\ \A x \in Domain, i \in ProposalId :
               x # d \/ i # id => /\ proposalsById'[x][i] = proposalsById[x][i]
                                  /\ activationRecords'[x][i] = activationRecords[x][i]
    BY <2>4, <2>7, <2>8, <2>9, SchedulePlaces DEF IInv
  <2>11. proposalsById[d][id].status \notin Queued /\ p.status \notin Queued
    BY <2>6, <2>9 DEF Missing, Queued
  <2> HIDE DEF id
  <2> QED
    BY <2>4, <2>6, <2>9, <2>10, <2>11, PlacedQueues
<1>2. CASE ImportAck(d)
  <2>1. PICK leaf \in Leaves("AckV1") : import_verified_governance_ack(d, leaf)
    BY <1>2 DEF ImportAck
  <2>2. PICK a \in Domain, e \in Epoch : leaf \in governanceRoot[a][e]
    BY CommittedLeaf
  <2>3. leaf \in epochLeaves[a][e] /\ leaf.kind = "AckV1"
    BY <2>2, CommittedLeaf, RootListed
  <2> DEFINE id == leaf.proposal_id
             p == proposalsById[d][id]
             r == activationRecords[d][id]
             r1 == note_known_ack_domain(r, leaf.acknowledging_domain)
  <2>4. /\ id \in ProposalId
        /\ leaf = AckLeaf(id, proposalsById[a][id], leaf.target_domain, a, e)
    BY <2>3, AckLeafSource
  <2>5. currentEpoch' = currentEpoch
    BY <2>1 DEF import_verified_governance_ack, epochVars
  <2>6. CASE r = Missing
    <3>1. UNCHANGED <<proposalsById, activationRecords, scheduledByEpoch, readyActivationIds>>
      BY <2>1, <2>6, Zenon DEF import_verified_governance_ack, queueVars
    <3> QED
      BY <2>5, <3>1, QueuesUntouched
  <2>7. CASE r # Missing
    <3>1. maybe_schedule_activation(d, id, p, r1)
      BY <2>1, <2>7, Zenon DEF import_verified_governance_ack
    <3>2. EntryOK(d, id)
      BY <2>4, EntryGood
    <3>3. IsRecord(r) /\ Status(d, id) \in Approved
      BY <2>7, <3>2 DEF EntryOK, RecordOK
    <3>4. IsProposal(p) /\ p.activation_epoch \in Epoch
      BY <2>4, <3>3, DueInEpoch
    <3>5. leaf.acknowledging_domain = a
      BY <2>4 DEF AckLeaf
    <3>6. /\ IsRecord(r1)
          /\ r1.scheduled_at_epoch = r.scheduled_at_epoch
          /\ r1.activated_at_epoch = r.activated_at_epoch
      BY <3>3, <3>5 DEF IsRecord, note_known_ack_domain
    <3> HIDE DEF r1
    <3>7. /\ Placed(d, id, p, r1)
          /\ \A x \in Domain, i \in ProposalId :
                x # d \/ i # id => /\ proposalsById'[x][i] = proposalsById[x][i]
                                   /\ activationRecords'[x][i] = activationRecords[x][i]
      BY <2>4, <3>1, <3>4, <3>6, SchedulePlaces, Zenon DEF IInv
    <3> HIDE DEF id
    <3> QED
      BY <2>4, <2>5, <3>4, <3>6, <3>7, PlacedQueues
  <2> QED
    BY <2>6, <2>7
<1> QED
  BY <1>1, <1>2

\* The block takes proposal i of domain d in epoch e.
Taken(d, i, e) == (InBucket(d, i, e) \/ InReady(d, i)) /\ CanActivate(d, i, e)

\* on_initialize activates exactly the proposals it takes, and keeps in the
\* ready queue only some that it does not.
LEMMA BlockTakes ==
  ASSUME Types, QueueTypes, NEW d \in Domain, NEW e \in Epoch, on_initialize(d, e)
  PROVE  /\ QueueTypes'
         /\ scheduledByEpoch' = scheduledByEpoch
         /\ \A y \in Domain : y # d =>
               /\ readyActivationIds'[y] = readyActivationIds[y]
               /\ proposalsById'[y] = proposalsById[y]
               /\ activationRecords'[y] = activationRecords[y]
         /\ \A i \in ProposalId : InReady(d, i)' => InReady(d, i) /\ ~ CanActivate(d, i, e)
         /\ \A i \in ProposalId :
               IF Taken(d, i, e)
               THEN /\ proposalsById'[d][i] =
                          [proposalsById[d][i] EXCEPT !.status = "Activated"]
                    /\ activationRecords'[d][i] =
                          [activationRecords[d][i] EXCEPT !.activated_at_epoch = e]
               ELSE /\ proposalsById'[d][i] = proposalsById[d][i]
                    /\ activationRecords'[d][i] = activationRecords[d][i]
<1> DEFINE bucket == scheduledByEpoch[d][e]
           ready == readyActivationIds[d]
           waiting == {i \in ProposalId : ~ CanActivate(d, i, e) /\ ~ Done(d, i)}
<1>1. PICK activated : activated =
          {i \in ProposalId : i \in Range(bucket \o ready) /\ CanActivate(d, i, e)}
  BY Zenon
<1>2. /\ proposalsById' = [proposalsById EXCEPT ![d] =
             [i \in ProposalId |->
                 IF i \in activated THEN [@[i] EXCEPT !.status = "Activated"] ELSE @[i]]]
      /\ activationRecords' = [activationRecords EXCEPT ![d] =
             [i \in ProposalId |->
                 IF i \in activated THEN [@[i] EXCEPT !.activated_at_epoch = e] ELSE @[i]]]
      /\ readyActivationIds' = [readyActivationIds EXCEPT ![d] = Only(ready, waiting)]
      /\ scheduledByEpoch' = scheduledByEpoch
  BY <1>1, Zenon DEF on_initialize, remaining
<1>3. bucket \in Seq(ProposalId) /\ ready \in Seq(ProposalId)
  BY DEF QueueTypes
<1> HIDE DEF bucket, ready
<1>4. \A i : i \in Range(bucket \o ready) <=> i \in Range(bucket) \/ i \in Range(ready)
  BY <1>3, RangeConcat
<1> USE DEF bucket, ready
<1>5. \A i \in ProposalId : i \in activated <=> Taken(d, i, e)
  BY <1>1, <1>4 DEF Taken, InBucket, InReady
<1>6. /\ \A y \in Domain : y # d => proposalsById'[y] = proposalsById[y]
      /\ \A i \in ProposalId : proposalsById'[d][i] =
             IF i \in activated THEN [proposalsById[d][i] EXCEPT !.status = "Activated"]
                               ELSE proposalsById[d][i]
  BY <1>2 DEF Types
<1>7. /\ \A y \in Domain : y # d => activationRecords'[y] = activationRecords[y]
      /\ \A i \in ProposalId : activationRecords'[d][i] =
             IF i \in activated THEN [activationRecords[d][i] EXCEPT !.activated_at_epoch = e]
                               ELSE activationRecords[d][i]
  BY <1>2 DEF Types
<1> HIDE DEF waiting
<1>8. PICK kept : kept = Only(ready, waiting)
  BY Zenon
<1>9. /\ kept \in Seq(ProposalId)
      /\ \A k \in DOMAIN kept : \E j \in DOMAIN ready : kept[k] = ready[j] /\ ready[j] \in waiting
  BY <1>3, <1>8, OnlySelects
<1>10. /\ readyActivationIds' \in [Domain -> Seq(ProposalId)]
       /\ readyActivationIds'[d] = kept
       /\ \A y \in Domain : y # d => readyActivationIds'[y] = readyActivationIds[y]
  BY <1>2, <1>8, <1>9 DEF QueueTypes
<1>11. QueueTypes'
  BY <1>2, <1>10 DEF QueueTypes
<1>12. \A i \in ProposalId : InReady(d, i)' => InReady(d, i) /\ ~ CanActivate(d, i, e)
  <2>1. \A i \in Range(kept) : i \in Range(ready) /\ i \in waiting
    BY <1>9, Zenon DEF Range
  <2> QED
    BY <1>10, <2>1 DEF InReady, waiting
<1> QED
  BY <1>2, <1>5, <1>6, <1>7, <1>10, <1>11, <1>12, Zenon

\* A block of epoch e, which is the current one or the next: what waits in the
\* ready queue or in the bucket of e is activated, and is on time.
LEMMA BlockQueues ==
  ASSUME IInv, QueueInv, NEW d \in Domain, NEW e \in Epoch, on_initialize(d, e),
         e = currentEpoch[d] \/ e = currentEpoch[d] + 1,
         currentEpoch'[d] = e,
         \A y \in Domain : y # d => currentEpoch'[y] = currentEpoch[y]
  PROVE  QueueInv'
<1>1. /\ QueueTypes'
      /\ scheduledByEpoch' = scheduledByEpoch
      /\ \A y \in Domain : y # d =>
            /\ readyActivationIds'[y] = readyActivationIds[y]
            /\ proposalsById'[y] = proposalsById[y]
            /\ activationRecords'[y] = activationRecords[y]
      /\ \A i \in ProposalId : InReady(d, i)' => InReady(d, i) /\ ~ CanActivate(d, i, e)
      /\ \A i \in ProposalId :
            IF Taken(d, i, e)
            THEN /\ proposalsById'[d][i] =
                       [proposalsById[d][i] EXCEPT !.status = "Activated"]
                 /\ activationRecords'[d][i] =
                       [activationRecords[d][i] EXCEPT !.activated_at_epoch = e]
            ELSE /\ proposalsById'[d][i] = proposalsById[d][i]
                 /\ activationRecords'[d][i] = activationRecords[d][i]
  BY BlockTakes DEF IInv, QueueInv
<1>2. ASSUME NEW y \in Domain, NEW i \in ProposalId, y # d
      PROVE  QueueOK(y, i)'
  <2>1. Quiet(y, i)
    BY <1>1, <1>2 DEF Quiet, InBucket, InReady
  <2> QED
    BY <2>1, QuietKept, QueuedDue DEF QueueInv
<1>3. ASSUME NEW i \in ProposalId
      PROVE  QueueOK(d, i)'
  <2> DEFINE p == proposalsById[d][i]
             r == activationRecords[d][i]
  <2>0. PICK due : due = p.activation_epoch
    BY Zenon
  <2> USE <2>0
  <2>1. QueueOK(d, i)
    BY DEF QueueInv
  <2>2. currentEpoch[d] \in Nat /\ e \in Nat /\ Epoch \subseteq Nat
    BY GovernanceAssumption DEF IInv, Types, Epoch
  <2>3. \A k \in Epoch : InBucket(d, i, k)' <=> InBucket(d, i, k)
    BY <1>1 DEF InBucket
  <2>4. CASE p.status # "Scheduled"
    <3>1. ~ InReady(d, i) /\ ~ InReady(d, i)'
      BY <1>1, <2>1, <2>4 DEF QueueOK, Status
    <3>2. ~ Taken(d, i, e)
      BY <2>4 DEF Taken, CanActivate
    <3>3. proposalsById'[d][i] = p /\ activationRecords'[d][i] = r
      BY <1>1, <3>2, Zenon
    <3> QED
      BY <2>1, <2>3, <2>4, <3>1, <3>3, Zenon DEF QueueOK, Status
  <2>5. CASE p.status = "Scheduled"
    <3>1. IsProposal(p) /\ due \in Epoch
      BY <2>5, DueInEpoch DEF Status, Approved
    <3>8. due \in Nat
      BY <2>2, <3>1
    <3>2. /\ r # Missing
          /\ IsRecord(r)
          /\ p.target_domains \subseteq r.known_ack_domains
      BY <2>5 DEF IInv, ScheduleOK, RecordOK, Status
    <3>3. /\ r.scheduled_at_epoch \in Nat
          /\ \/ InBucket(d, i, due) /\ r.scheduled_at_epoch < due
             \/ InReady(d, i) /\ r.scheduled_at_epoch = currentEpoch[d]
          /\ InReady(d, i) => due <= currentEpoch[d]
          /\ \A k \in Epoch : InBucket(d, i, k) => k = due /\ due > currentEpoch[d]
      BY <2>1, <2>2, <2>5, Zenon DEF QueueOK, Status
    <3>4. CanActivate(d, i, e) <=> e >= due
      BY <2>5, <3>2, Zenon DEF CanActivate, has_full_ack_set
    <3>5. ~ InReady(d, i)'
      BY <1>1, <2>2, <3>1, <3>3, <3>4
    <3>6. CASE Taken(d, i, e)
      <4>1. /\ proposalsById'[d][i] = [p EXCEPT !.status = "Activated"]
            /\ activationRecords'[d][i] = [r EXCEPT !.activated_at_epoch = e]
        BY <1>1, <3>6
      <4>2. /\ proposalsById'[d][i].status = "Activated"
            /\ proposalsById'[d][i].activation_epoch = due
            /\ activationRecords'[d][i].scheduled_at_epoch = r.scheduled_at_epoch
            /\ activationRecords'[d][i].activated_at_epoch = e
        BY <3>1, <3>2, <4>1 DEF IsProposal, IsRecord
      <4>3. IF r.scheduled_at_epoch < due THEN e = due
                                          ELSE e - r.scheduled_at_epoch \in {0, 1}
        <5>1. e >= due /\ (InBucket(d, i, e) \/ InReady(d, i))
          BY <3>4, <3>6 DEF Taken
        <5>2. CASE InReady(d, i)
          <6> HIDE DEF p, r
          <6>1. r.scheduled_at_epoch = currentEpoch[d] /\ due <= currentEpoch[d]
            BY <2>2, <3>1, <3>3, <3>8, <5>2
          <6>2. e - currentEpoch[d] \in {0, 1}
            BY <2>2
          <6>3. ~ r.scheduled_at_epoch < due
            BY <2>2, <3>8, <6>1
          <6> QED
            BY <6>1, <6>2, <6>3
        <5>3. CASE InBucket(d, i, e)
          BY <2>2, <3>1, <3>3, <5>3
        <5> QED
          BY <5>1, <5>2, <5>3
      <4> HIDE DEF p, r
      <4> QED
        BY <2>3, <3>3, <3>5, <4>2, <4>3, Zenon DEF QueueOK, Status
    <3>7. CASE ~ Taken(d, i, e)
      <4>1. proposalsById'[d][i] = p /\ activationRecords'[d][i] = r
        BY <1>1, <3>7, Zenon
      <4>2. ~ InReady(d, i) /\ InBucket(d, i, due) /\ r.scheduled_at_epoch < due
        <5>1. CASE InReady(d, i)
          BY <2>2, <3>1, <3>3, <3>4, <3>7, <5>1 DEF Taken
        <5> QED
          BY <3>3, <5>1
      <4>3. due > e
        <5>1. e # due
          BY <2>2, <3>4, <3>7, <4>2 DEF Taken
        <5>2. due > currentEpoch[d]
          BY <3>1, <3>3, <4>2
        <5> QED
          BY <2>2, <3>8, <5>1, <5>2
      <4>4. r.scheduled_at_epoch \in Epoch
        BY <2>1, <2>5 DEF QueueOK, Status
      <4>5. /\ proposalsById'[d][i].status = "Scheduled"
            /\ proposalsById'[d][i].activation_epoch = due
            /\ activationRecords'[d][i].scheduled_at_epoch = r.scheduled_at_epoch
        BY <2>5, <4>1
      <4> HIDE DEF p, r
      <4>6. \A k \in Epoch : InBucket(d, i, k)' => k = due
        BY <2>3, <3>3
      <4>7. InBucket(d, i, due)'
        BY <2>3, <3>1, <4>2
      <4>8. due > currentEpoch'[d]
        BY <4>3
      <4> QED
        BY <3>5, <4>2, <4>4, <4>5, <4>6, <4>7, <4>8 DEF QueueOK, Status
    <3> QED
      BY <3>6, <3>7, Zenon
  <2> QED
    BY <2>4, <2>5
<1> QED
  BY <1>1, <1>2, <1>3 DEF QueueInv

\* Every step keeps the queues' invariant.
LEMMA NextQueues == IInv /\ QueueInv /\ [Next]_vars => QueueInv'
<1> SUFFICES ASSUME IInv, QueueInv, [Next]_vars PROVE QueueInv'
  OBVIOUS
<1>1. CASE Next
  <2>1. PICK d \in Domain :
            \/ Propose(d) \/ Vote(d) \/ Close(d) \/ ImportProposal(d)
            \/ ImportAck(d) \/ Block(d) \/ FirstBlock(d)
    BY <1>1 DEF Next
  <2>2. currentEpoch \in [Domain -> Epoch] /\ currentEpoch[d] \in Nat
    BY GovernanceAssumption DEF IInv, Types, Epoch
  <2>3. CASE Block(d)
    <3>1. on_initialize(d, currentEpoch[d]) /\ currentEpoch' = currentEpoch
      BY <2>3 DEF Block, epochVars
    <3> QED
      BY <2>2, <3>1, BlockQueues
  <2>4. CASE FirstBlock(d)
    <3>1. /\ on_initialize(d, currentEpoch[d] + 1)
          /\ currentEpoch[d] < MaxEpoch
          /\ currentEpoch' = [currentEpoch EXCEPT ![d] = @ + 1]
      BY <2>4 DEF FirstBlock
    <3>2. PICK e : e = currentEpoch[d] + 1
      BY Zenon
    <3>3. e \in Epoch
      BY <2>2, <3>1, <3>2, GovernanceAssumption DEF Epoch
    <3>4. currentEpoch'[d] = e /\ \A y \in Domain : y # d => currentEpoch'[y] = currentEpoch[y]
      BY <2>2, <3>1, <3>2
    <3>5. on_initialize(d, e)
      BY <3>1, <3>2, Zenon
    <3> QED
      BY <3>2, <3>3, <3>4, <3>5, BlockQueues
  <2> QED
    BY <2>1, <2>3, <2>4, CallQueues, ImportQueues
<1>2. CASE UNCHANGED vars
  BY <1>2, QueuesUntouched DEF vars, queueVars, epochVars
<1> QED
  BY <1>1, <1>2

\* Governance starts with empty queues and nothing scheduled.
LEMMA InitQueues == Init => QueueInv
<1> SUFFICES ASSUME Init PROVE QueueInv
  OBVIOUS
<1>1. QueueTypes
  BY DEF Init, QueueTypes
<1>2. \A d \in Domain, id \in ProposalId :
          /\ ~ InReady(d, id)
          /\ \A e \in Epoch : ~ InBucket(d, id, e)
          /\ Status(d, id) = "Missing"
  BY DEF Init, InReady, InBucket, Status, Missing, Range
<1> QED
  BY <1>1, <1>2 DEF QueueInv, QueueOK

\* The two inductive invariants hold in every state.
LEMMA QueueInvariant == Spec => [](IInv /\ QueueInv)
  BY InitQueues, NextQueues, GovernanceInvariant, PTL DEF Spec

\* What maybe_schedule_activation schedules waits in exactly one place from
\* which a later block takes it: the bucket of an epoch still to come, or the
\* ready queue.
THEOREM ScheduledIsQueuedHolds == Spec => []ScheduledIsQueued
<1>1. IInv /\ QueueInv => ScheduledIsQueued
  <2> SUFFICES ASSUME IInv, QueueInv, NEW d \in Domain, NEW id \in ProposalId,
                      Status(d, id) = "Scheduled"
               PROVE  LET due == proposalsById[d][id].activation_epoch
                          bucketed == /\ due > currentEpoch[d]
                                      /\ id \in Range(scheduledByEpoch[d][due])
                      IN  bucketed # (id \in Range(readyActivationIds[d]))
    BY Zenon DEF ScheduledIsQueued
  <2> DEFINE due == proposalsById[d][id].activation_epoch
  <2>1. due \in Epoch
    BY DueInEpoch DEF Approved
  <2>2. due \in Int /\ currentEpoch[d] \in Int
    BY <2>1, GovernanceAssumption DEF IInv, Types, Epoch
  <2>3. /\ InBucket(d, id, due) => due > currentEpoch[d]
        /\ InReady(d, id) => due <= currentEpoch[d]
        /\ InBucket(d, id, due) \/ InReady(d, id)
    BY <2>1, Zenon DEF QueueInv, QueueOK
  <2>4. due > currentEpoch[d] /\ InBucket(d, id, due) <=> ~ InReady(d, id)
    BY <2>2, <2>3
  <2> QED
    BY <2>4, Zenon DEF InBucket, InReady
<1> QED
  BY <1>1, QueueInvariant, PTL

\* A proposal whose acknowledgments were complete in time is activated in
\* exactly its activation epoch; try_activate_proposal is late by at most one
\* epoch for one whose acknowledgments were not.
THEOREM ActivatedOnTimeHolds == Spec => []ActivatedOnTime
<1>1. IInv /\ QueueInv => ActivatedOnTime
  BY DEF QueueInv, QueueOK, ActivatedOnTime
<1> QED
  BY <1>1, QueueInvariant, PTL
=============================================================================

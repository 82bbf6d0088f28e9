----------------------------- MODULE Governance -----------------------------
(***************************************************************************)
(* pallet-governance on every domain of the network, with the part of the  *)
(* block execution that drives it.                                         *)
(*                                                                         *)
(* A proposal is created and voted on its source domain, is committed by   *)
(* the source's epoch summary when it is approved, is imported by each     *)
(* target domain, which acknowledges it to all the others, and is activated*)
(* by each domain on its own once it knows the acknowledgment of every     *)
(* target and its own epoch number has reached the activation epoch.       *)
(*                                                                         *)
(* Domains count epochs independently.  The transport is over-approximated *)
(* as in Transfers: a leaf of any closed epoch of any domain may be        *)
(* submitted to any domain, late, repeatedly and in any order.             *)
(***************************************************************************)
EXTENDS Integers, Sequences, Functions, Collections

CONSTANTS
    Domain,
    Voter,           \* GovernanceVoters, the same accounts on every domain
    Snapshots,       \* the balances the voters may have when a proposal is made
    Version,         \* protocol versions that may be proposed
    GenesisVersion,  \* protocol version at genesis
    MaxProposal,     \* bound on the proposals each domain creates
    MaxEpoch,        \* bound on the epochs per domain
    IdleEpoch        \* liveness only: the epoch up to which a domain runs ahead

ASSUME GovernanceAssumption ==
    /\ IsFiniteSet(Voter)
    /\ Snapshots \subseteq [Voter -> Nat]
    /\ Version \subseteq Nat
    /\ GenesisVersion \in Nat
    /\ MaxProposal \in [Domain -> Nat]
    /\ MaxEpoch \in Nat
    /\ IdleEpoch \in [Domain -> Nat]

VARIABLES
    protocolVersion,       \* ProtocolVersion
    nextProposalSequence,  \* NextProposalSequence
    proposalsById,         \* ProposalsById
    votesByKey,            \* VotesByKey, on the proposal's source domain
    votingPower,           \* ProposalVotingPowerByVoter, likewise
    activationRecords,     \* ActivationRecordsById
    ackRecords,            \* the keys of AckRecordsByKey
    epochLeaves,           \* EpochGovernanceLeafIds and GovernanceLeavesById
    scheduledByEpoch,      \* ScheduledProposalIdsByEpoch
    readyActivationIds,    \* ReadyActivationIds
    currentEpoch,          \* pallet-epochs: CurrentEpoch
    governanceRoot         \* the governance roots in pallet-epochs' SummaryHeaders

voteVars == <<nextProposalSequence, votesByKey, votingPower>>
queueVars == <<scheduledByEpoch, readyActivationIds>>
epochVars == <<currentEpoch, governanceRoot>>
vars == <<protocolVersion, voteVars, proposalsById, activationRecords, ackRecords,
          epochLeaves, queueVars, epochVars>>

-----------------------------------------------------------------------------
(* Data *)

Epoch == 0 .. MaxEpoch
NoEpoch == -1

\* governance_proposal_id hashes the pair without collisions.
ProposalId == UNION {{<<d, n>> : n \in 0 .. MaxProposal[d] - 1} : d \in Domain}
governance_proposal_id(source, sequence) == <<source, sequence>>

Missing == [status |-> "Missing"]
Choice == {"Yes", "No", "Abstain"}

\* Epochs between the approval and the activation.
ActivationDelay == 4

\* What a leaf, and a domain's copy of the proposal, say about the proposal.
Facts(proposal) ==
    [source_domain |-> proposal.source_domain,
     target_domains |-> proposal.target_domains,
     new_protocol_version |-> proposal.new_protocol_version,
     activation_epoch |-> proposal.activation_epoch]

ProposalLeaf(id, proposal, target) ==
    [kind |-> "ProposalV1", proposal_id |-> id, target_domain |-> target,
     facts |-> Facts(proposal), voting_end_epoch |-> proposal.voting_end_epoch,
     epoch |-> proposal.approval_epoch]

AckLeaf(id, proposal, target, acker, epoch) ==
    [kind |-> "AckV1", proposal_id |-> id, target_domain |-> target,
     facts |-> Facts(proposal), acknowledging_domain |-> acker, epoch |-> epoch]

-----------------------------------------------------------------------------
(* Proposals and votes *)

\* Target domains are a set: the code refuses duplicates and sorts the rest.
canonicalize_target_domains(targets, source) ==
    targets # {} /\ source \notin targets

snapshot_total_voting_power(power) == SumOver(power, Voter)

create_proposal(d, targets, version, power) ==
    LET id == governance_proposal_id(d, nextProposalSequence[d])
    IN  /\ nextProposalSequence[d] < MaxProposal[d]
        /\ currentEpoch[d] + 1 + ActivationDelay <= MaxEpoch
        /\ canonicalize_target_domains(targets, d)
        /\ version > 0
        /\ version # protocolVersion[d]
        /\ nextProposalSequence' = [nextProposalSequence EXCEPT ![d] = @ + 1]
        /\ votingPower' = [votingPower EXCEPT ![id] = power]
        /\ proposalsById' = [proposalsById EXCEPT ![d][id] =
               [source_domain |-> d, target_domains |-> targets,
                new_protocol_version |-> version,
                voting_end_epoch |-> currentEpoch[d] + 1,
                approval_epoch |-> NoEpoch, activation_epoch |-> 0,
                snapshot |-> snapshot_total_voting_power(power),
                Yes |-> 0, No |-> 0, Abstain |-> 0, status |-> "Voting"]]
        /\ UNCHANGED <<protocolVersion, votesByKey, activationRecords, ackRecords,
                       epochLeaves, queueVars, epochVars>>

\* Mutant: a voter may vote again.
cast_vote_Again(d, id, voter, choice) ==
    LET proposal == proposalsById[d][id]
    IN  /\ proposal.status = "Voting"
        /\ currentEpoch[d] < proposal.voting_end_epoch
        /\ votingPower[id][voter] > 0
        /\ proposal[choice] < 2 * proposal.snapshot
        /\ votesByKey' = [votesByKey EXCEPT ![id][voter] = choice]
        /\ proposalsById' = [proposalsById EXCEPT ![d][id][choice] = @ + votingPower[id][voter]]
        /\ UNCHANGED <<protocolVersion, nextProposalSequence, votingPower, activationRecords,
                       ackRecords, epochLeaves, queueVars, epochVars>>

cast_vote(d, id, voter, choice) ==
    LET proposal == proposalsById[d][id]
    IN  /\ proposal.status = "Voting"
        /\ currentEpoch[d] < proposal.voting_end_epoch
        /\ votesByKey[id][voter] = "None"
        /\ votingPower[id][voter] > 0
        /\ votesByKey' = [votesByKey EXCEPT ![id][voter] = choice]
        /\ proposalsById' = [proposalsById EXCEPT ![d][id][choice] = @ + votingPower[id][voter]]
        /\ UNCHANGED <<protocolVersion, nextProposalSequence, votingPower, activationRecords,
                       ackRecords, epochLeaves, queueVars, epochVars>>

\* The leaves are listed under the approval epoch, which is the current one.
insert_outbound_proposal_leaves(d, id, proposal) ==
    epochLeaves' = [epochLeaves EXCEPT ![d][proposal.approval_epoch] =
        @ \cup {ProposalLeaf(id, proposal, t) : t \in proposal.target_domains}]

\* The record of a proposal's activation on one domain; the fields that repeat
\* the proposal's are left out.
store_activation_record(known) ==
    [known_ack_domains |-> known, scheduled_at_epoch |-> NoEpoch,
     activated_at_epoch |-> NoEpoch]

ApprovedIn(proposal, epoch, delay) ==
    [proposal EXCEPT !.approval_epoch = epoch,
                     !.activation_epoch = epoch + delay,
                     !.status = "LocallyFinalized"]

close_proposal(d, id) ==
    LET proposal == proposalsById[d][id]
        recorded == proposal.Yes + proposal.No + proposal.Abstain
        quorum_met == recorded * 2 >= proposal.snapshot
        approved == ApprovedIn(proposal, currentEpoch[d], ActivationDelay)
    IN  /\ proposal.status = "Voting"
        /\ currentEpoch[d] >= proposal.voting_end_epoch
        /\ currentEpoch[d] + ActivationDelay <= MaxEpoch
        /\ IF quorum_met /\ 2 * proposal.Yes > recorded
           THEN /\ proposalsById' = [proposalsById EXCEPT ![d][id] = approved]
                /\ activationRecords' =
                      [activationRecords EXCEPT ![d][id] = store_activation_record({})]
                /\ insert_outbound_proposal_leaves(d, id, approved)
           ELSE /\ proposalsById' = [proposalsById EXCEPT ![d][id].status = "Rejected"]
                /\ UNCHANGED <<activationRecords, epochLeaves>>
        /\ UNCHANGED <<protocolVersion, voteVars, ackRecords, queueVars, epochVars>>

-----------------------------------------------------------------------------
(* Scheduling *)

has_full_ack_set(targets, known) == targets \subseteq known

PushNew(ids, id) == IF id \in Range(ids) THEN ids ELSE Append(ids, id)

ScheduleInBucket(d, id, proposal, activation, epoch) ==
    /\ proposalsById' = [proposalsById EXCEPT
           ![d][id] = [proposal EXCEPT !.status = "Scheduled"]]
    /\ activationRecords' = [activationRecords EXCEPT
           ![d][id] = [activation EXCEPT !.scheduled_at_epoch = currentEpoch[d]]]
    /\ scheduledByEpoch' = [scheduledByEpoch EXCEPT ![d][epoch] = PushNew(@, id)]
    /\ UNCHANGED readyActivationIds

NotScheduled(d, id, proposal, activation) ==
    /\ proposalsById' = [proposalsById EXCEPT ![d][id] = proposal]
    /\ activationRecords' = [activationRecords EXCEPT ![d][id] = activation]
    /\ UNCHANGED queueVars

ReadyToSchedule(proposal, activation) ==
    /\ proposal.status = "LocallyFinalized"
    /\ has_full_ack_set(proposal.target_domains, activation.known_ack_domains)

\* Mutant: a proposal whose activation epoch has passed goes to its bucket.
maybe_schedule_PastBucket(d, id, proposal, activation) ==
    IF ReadyToSchedule(proposal, activation)
    THEN ScheduleInBucket(d, id, proposal, activation, proposal.activation_epoch)
    ELSE NotScheduled(d, id, proposal, activation)

\* Mutant: the proposal goes to the bucket of the epoch after its own.
maybe_schedule_NextBucket(d, id, proposal, activation) ==
    IF ReadyToSchedule(proposal, activation)
    THEN ScheduleInBucket(d, id, proposal, activation, proposal.activation_epoch + 1)
    ELSE NotScheduled(d, id, proposal, activation)

\* Mutant: one acknowledgment is enough.
maybe_schedule_AnyAck(d, id, proposal, activation) ==
    IF proposal.status = "LocallyFinalized" /\ activation.known_ack_domains # {}
    THEN ScheduleInBucket(d, id, proposal, activation, proposal.activation_epoch)
    ELSE NotScheduled(d, id, proposal, activation)

\* proposal and activation are the records as the caller has just updated them.
maybe_schedule_activation(d, id, proposal, activation) ==
    IF ~ ReadyToSchedule(proposal, activation)
    THEN NotScheduled(d, id, proposal, activation)
    ELSE IF currentEpoch[d] < proposal.activation_epoch
    THEN ScheduleInBucket(d, id, proposal, activation, proposal.activation_epoch)
    ELSE /\ proposalsById' = [proposalsById EXCEPT
                ![d][id] = [proposal EXCEPT !.status = "Scheduled"]]
         /\ activationRecords' = [activationRecords EXCEPT
                ![d][id] = [activation EXCEPT !.scheduled_at_epoch = currentEpoch[d]]]
         /\ readyActivationIds' = [readyActivationIds EXCEPT ![d] = PushNew(@, id)]
         /\ UNCHANGED scheduledByEpoch

-----------------------------------------------------------------------------
(* Imports *)

\* Mutant: the acknowledgment goes to the source only.
record_local_ack_SourceOnly(d, id, proposal) ==
    /\ ackRecords' = [ackRecords EXCEPT ![d] = @ \cup {<<id, d>>}]
    /\ epochLeaves' = [epochLeaves EXCEPT ![d][currentEpoch[d]] =
           @ \cup {AckLeaf(id, proposal, proposal.source_domain, d, currentEpoch[d])}]

record_local_ack_and_fanout(d, id, proposal) ==
    LET fanout == (proposal.target_domains \cup {proposal.source_domain}) \ {d}
    IN  /\ ackRecords' = [ackRecords EXCEPT ![d] = @ \cup {<<id, d>>}]
        /\ epochLeaves' = [epochLeaves EXCEPT ![d][currentEpoch[d]] =
               @ \cup {AckLeaf(id, proposal, t, d, currentEpoch[d]) : t \in fanout}]

\* The proposal a target domain stores; it holds no votes.
ImportedProposal(leaf) ==
    [source_domain |-> leaf.facts.source_domain,
     target_domains |-> leaf.facts.target_domains,
     new_protocol_version |-> leaf.facts.new_protocol_version,
     voting_end_epoch |-> leaf.voting_end_epoch,
     approval_epoch |-> leaf.epoch,
     activation_epoch |-> leaf.facts.activation_epoch,
     snapshot |-> 0, Yes |-> 0, No |-> 0, Abstain |-> 0,
     status |-> "LocallyFinalized"]

\* Mutant: a proposal that is already known is imported again.
import_proposal_Again(d, leaf) ==
    /\ leaf.target_domain = d
    /\ leaf.facts.source_domain # d
    /\ record_local_ack_and_fanout(d, leaf.proposal_id, ImportedProposal(leaf))
    /\ maybe_schedule_activation(d, leaf.proposal_id, ImportedProposal(leaf),
                                 store_activation_record({d}))
    /\ UNCHANGED <<protocolVersion, voteVars, epochVars>>

\* Mutant: the leaf's target is not compared with the local domain.
import_proposal_AnyTarget(d, leaf) ==
    /\ leaf.facts.source_domain # d
    /\ proposalsById[d][leaf.proposal_id] = Missing
    /\ record_local_ack_and_fanout(d, leaf.proposal_id, ImportedProposal(leaf))
    /\ maybe_schedule_activation(d, leaf.proposal_id, ImportedProposal(leaf),
                                 store_activation_record({d}))
    /\ UNCHANGED <<protocolVersion, voteVars, epochVars>>

import_verified_governance_proposal(d, leaf) ==
    LET id == leaf.proposal_id
    IN  /\ leaf.target_domain = d
        /\ leaf.facts.source_domain # d
        /\ proposalsById[d][id] = Missing
        /\ d \in leaf.facts.target_domains
        /\ record_local_ack_and_fanout(d, id, ImportedProposal(leaf))
        /\ maybe_schedule_activation(d, id, ImportedProposal(leaf), store_activation_record({d}))
        /\ UNCHANGED <<protocolVersion, voteVars, epochVars>>

note_known_ack_domain(activation, acker) ==
    [activation EXCEPT !.known_ack_domains = @ \cup {acker}]

import_verified_governance_ack(d, leaf) ==
    LET id == leaf.proposal_id
        acker == leaf.acknowledging_domain
    IN  /\ leaf.target_domain = d
        /\ acker # d
        /\ acker \in leaf.facts.target_domains
        /\ <<id, acker>> \notin ackRecords[d]
        /\ proposalsById[d][id] # Missing
        /\ Facts(proposalsById[d][id]) = leaf.facts
        /\ ackRecords' = [ackRecords EXCEPT ![d] = @ \cup {<<id, acker>>}]
        /\ IF activationRecords[d][id] = Missing
           THEN UNCHANGED <<proposalsById, activationRecords, queueVars>>
           ELSE maybe_schedule_activation(d, id, proposalsById[d][id],
                    note_known_ack_domain(activationRecords[d][id], acker))
        /\ UNCHANGED <<protocolVersion, voteVars, epochLeaves, epochVars>>

-----------------------------------------------------------------------------
(* Block execution: epochs' on_initialize runs before governance's *)

canonical_epoch_governance_leaves(d, e) == epochLeaves[d][e]

commit_epoch_governance(d, e) ==
    governanceRoot' = [governanceRoot EXCEPT
        ![d][e] = canonical_epoch_governance_leaves(d, e)]

\* try_activate_proposal changes the proposal in epoch e, or has nothing to do.
CanActivate(d, id, e) ==
    /\ proposalsById[d][id].status = "Scheduled"
    /\ activationRecords[d][id] # Missing
    /\ e >= proposalsById[d][id].activation_epoch
    /\ has_full_ack_set(proposalsById[d][id].target_domains,
                        activationRecords[d][id].known_ack_domains)

Done(d, id) == proposalsById[d][id].status \in {"Missing", "Activated"}

\* What activate_ready_queue keeps: the proposals that are not yet activated.
remaining(d, e) ==
    Only(readyActivationIds[d],
         {id \in ProposalId : ~ CanActivate(d, id, e) /\ ~ Done(d, id)})

\* activate_epoch_bucket, then activate_ready_queue: the proposals are tried in
\* the order they were listed, so the last one activated sets the version.
on_initialize(d, e) ==
    LET proposal_ids == scheduledByEpoch[d][e] \o readyActivationIds[d]
        activated == {id \in ProposalId : id \in Range(proposal_ids) /\ CanActivate(d, id, e)}
    IN  /\ \/ activated = {} /\ UNCHANGED protocolVersion
           \/ \E k \in DOMAIN proposal_ids :
                 /\ proposal_ids[k] \in activated
                 /\ \A j \in DOMAIN proposal_ids : j > k => proposal_ids[j] \notin activated
                 /\ protocolVersion' = [protocolVersion EXCEPT
                        ![d] = proposalsById[d][proposal_ids[k]].new_protocol_version]
        /\ proposalsById' = [proposalsById EXCEPT ![d] =
               [id \in ProposalId |->
                   IF id \in activated THEN [@[id] EXCEPT !.status = "Activated"] ELSE @[id]]]
        /\ activationRecords' = [activationRecords EXCEPT ![d] =
               [id \in ProposalId |->
                   IF id \in activated THEN [@[id] EXCEPT !.activated_at_epoch = e] ELSE @[id]]]
        /\ readyActivationIds' = [readyActivationIds EXCEPT ![d] = remaining(d, e)]
        /\ UNCHANGED scheduledByEpoch

\* A block inside an epoch.
Block(d) ==
    /\ on_initialize(d, currentEpoch[d])
    /\ UNCHANGED <<voteVars, ackRecords, epochLeaves, epochVars>>

\* The first block of an epoch: its on_initialize closes the previous epoch.
FirstBlock(d) ==
    /\ currentEpoch[d] < MaxEpoch
    /\ commit_epoch_governance(d, currentEpoch[d])
    /\ currentEpoch' = [currentEpoch EXCEPT ![d] = @ + 1]
    /\ on_initialize(d, currentEpoch[d] + 1)
    /\ UNCHANGED <<voteVars, ackRecords, epochLeaves>>

-----------------------------------------------------------------------------
(* The network *)

Propose(d) ==
    \E targets \in SUBSET Domain, version \in Version, power \in Snapshots :
        create_proposal(d, targets, version, power)

Vote(d) ==
    \E id \in ProposalId, voter \in Voter, choice \in Choice : cast_vote(d, id, voter, choice)

Close(d) == \E id \in ProposalId : close_proposal(d, id)

Leaves(kind) ==
    {leaf \in UNION {governanceRoot[s][e] : s \in Domain, e \in Epoch} : leaf.kind = kind}

ImportProposal(d) ==
    \E leaf \in Leaves("ProposalV1") : import_verified_governance_proposal(d, leaf)

ImportAck(d) ==
    \E leaf \in Leaves("AckV1") : import_verified_governance_ack(d, leaf)

Init ==
    /\ protocolVersion = [d \in Domain |-> GenesisVersion]
    /\ nextProposalSequence = [d \in Domain |-> 0]
    /\ proposalsById = [d \in Domain |-> [id \in ProposalId |-> Missing]]
    /\ votesByKey = [id \in ProposalId |-> [v \in Voter |-> "None"]]
    /\ votingPower = [id \in ProposalId |-> [v \in Voter |-> 0]]
    /\ activationRecords = [d \in Domain |-> [id \in ProposalId |-> Missing]]
    /\ ackRecords = [d \in Domain |-> {}]
    /\ epochLeaves = [d \in Domain |-> [e \in Epoch |-> {}]]
    /\ scheduledByEpoch = [d \in Domain |-> [e \in Epoch |-> <<>>]]
    /\ readyActivationIds = [d \in Domain |-> <<>>]
    /\ currentEpoch = [d \in Domain |-> 0]
    /\ governanceRoot = [d \in Domain |-> [e \in Epoch |-> {}]]

Next ==
    \E d \in Domain :
        \/ Propose(d)
        \/ Vote(d)
        \/ Close(d)
        \/ ImportProposal(d)
        \/ ImportAck(d)
        \/ Block(d)
        \/ FirstBlock(d)

Spec == Init /\ [][Next]_vars
-----------------------------------------------------------------------------
(* Properties *)

SourceProposal(id) == proposalsById[id[1]][id]

Knows(d, id) == proposalsById[d][id] # Missing

Status(d, id) == proposalsById[d][id].status

Approved == {"LocallyFinalized", "Scheduled", "Activated"}

\* A domain holds a proposal of another only if that domain approved it, named
\* this one as a target, and committed it in the summary of its approval epoch,
\* and the two agree on what is to be activated and when.  About
\* import_verified_governance_proposal against close_proposal.
ImportedWasApproved ==
    \A d \in Domain, id \in ProposalId :
        Knows(d, id) /\ d # id[1] =>
            /\ Status(id[1], id) \in Approved
            /\ Facts(proposalsById[d][id]) = Facts(SourceProposal(id))
            /\ d \in SourceProposal(id).target_domains
            /\ ProposalLeaf(id, SourceProposal(id), d)
                  \in governanceRoot[id[1]][SourceProposal(id).approval_epoch]

\* A domain schedules, and so activates, a proposal only when every target
\* domain has imported it and every other target has committed its
\* acknowledgment to this domain.
ScheduledByEveryTarget ==
    \A d \in Domain, id \in ProposalId :
        Status(d, id) \in {"Scheduled", "Activated"} =>
            \A t \in proposalsById[d][id].target_domains :
                /\ Knows(t, id)
                /\ t # d => \E e \in Epoch :
                      AckLeaf(id, proposalsById[d][id], d, t, e) \in governanceRoot[t][e]

\* A scheduled proposal waits in exactly one place from which a later block
\* takes it: the bucket of an epoch still to come, or the ready queue.
ScheduledIsQueued ==
    \A d \in Domain, id \in ProposalId :
        Status(d, id) = "Scheduled" =>
            LET due == proposalsById[d][id].activation_epoch
                bucketed == due > currentEpoch[d] /\ id \in Range(scheduledByEpoch[d][due])
            IN  bucketed # (id \in Range(readyActivationIds[d]))

\* A proposal whose acknowledgments were complete in time is activated in
\* exactly its activation epoch; one that was late is activated by the next
\* block, in the same epoch or the one after.
ActivatedOnTime ==
    \A d \in Domain, id \in ProposalId :
        Status(d, id) = "Activated" =>
            LET record == activationRecords[d][id]
                due == proposalsById[d][id].activation_epoch
            IN  IF record.scheduled_at_epoch < due
                THEN record.activated_at_epoch = due
                ELSE record.activated_at_epoch - record.scheduled_at_epoch \in {0, 1}

PowerOf(id, choices) ==
    SumOver(votingPower[id], {v \in Voter : votesByKey[id][v] \in choices})

\* The tallies kept vote by vote are the snapshot powers of the voters who
\* chose so, and a proposal is approved only with half of the snapshot recorded
\* and more than half of the recorded power in favour.
ApprovedByMajority ==
    \A id \in ProposalId :
        Knows(id[1], id) =>
            LET proposal == SourceProposal(id)
            IN  /\ \A choice \in Choice : proposal[choice] = PowerOf(id, {choice})
                /\ PowerOf(id, Choice) <= proposal.snapshot
                /\ proposal.status \in Approved =>
                      /\ 2 * PowerOf(id, Choice) >= proposal.snapshot
                      /\ 2 * PowerOf(id, {"Yes"}) > PowerOf(id, Choice)

ActivationStep(d) ==
    /\ protocolVersion'[d] # protocolVersion[d] =>
          \E id \in ProposalId :
              /\ Status(d, id) = "Scheduled"
              /\ Status(d, id)' = "Activated"
              /\ proposalsById[d][id].new_protocol_version = protocolVersion'[d]
    /\ \A id \in ProposalId :
          Status(d, id) = "Activated" => UNCHANGED proposalsById[d][id]

\* The protocol version of a domain changes only in a step that activates a
\* scheduled proposal for that version, and no step undoes an activation:
\* replayed packages and the bucket, which is never emptied, activate nothing
\* twice.
ActivatedOnce == [][\A d \in Domain : ActivationStep(d)]_vars

-----------------------------------------------------------------------------
(* Liveness *)

\* Beyond IdleEpoch an epoch is closed only when something waits for it, so
\* that MaxEpoch is not spent on empty epochs.
UsefulFirstBlock(d) ==
    /\ \/ currentEpoch[d] < IdleEpoch[d]
       \/ epochLeaves[d][currentEpoch[d]] # {}
       \/ \E id \in ProposalId : Status(d, id) \in {"Voting", "Scheduled"}
    /\ FirstBlock(d)

LiveNext ==
    \E d \in Domain :
        \/ Propose(d)
        \/ Vote(d)
        \/ Close(d)
        \/ ImportProposal(d)
        \/ ImportAck(d)
        \/ Block(d)
        \/ UsefulFirstBlock(d)

\* Blocks are produced and epochs close; importers keep submitting a leaf until
\* the chain has accepted it.
Fairness ==
    \A d \in Domain :
        /\ WF_vars(Block(d))
        /\ WF_vars(UsefulFirstBlock(d))
        /\ WF_vars(ImportProposal(d))
        /\ WF_vars(ImportAck(d))

LiveSpec == Init /\ [][LiveNext]_vars /\ Fairness

\* An approved proposal is eventually activated by its source and by every
\* target, however late and in whatever order proposal and acknowledgments
\* arrive.
EveryApprovedActivates ==
    \A id \in ProposalId, d \in Domain :
        (/\ Status(id[1], id) = "LocallyFinalized"
         /\ d \in SourceProposal(id).target_domains \cup {id[1]})
            ~> Status(d, id) = "Activated"
=============================================================================

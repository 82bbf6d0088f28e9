-------------------------- MODULE GovernanceProofs --------------------------
(***************************************************************************)
(* Proofs about Governance, for any number of domains, voters, proposals   *)
(* and epochs: a domain holds only proposals their source has approved and *)
(* committed, schedules one only when every target has acknowledged it, and*)
(* activates it once and on time; and a source approves only what the      *)
(* recorded votes decide.                                                  *)
(***************************************************************************)
EXTENDS Governance, TLAPS

-----------------------------------------------------------------------------
(* The inductive invariant *)

\* The tallies and the snapshot are left untyped here: VoteInv is about them.
IsProposal(p) ==
    /\ DOMAIN p = {"source_domain", "target_domains", "new_protocol_version",
                   "voting_end_epoch", "approval_epoch", "activation_epoch",
                   "snapshot", "Yes", "No", "Abstain", "status"}
    /\ p.target_domains \subseteq Domain
    /\ p.status \in {"Voting", "Rejected"} \cup Approved
    /\ p.status \in Approved => p.approval_epoch \in Epoch /\ p.activation_epoch \in Epoch

IsRecord(r) ==
    /\ DOMAIN r = {"known_ack_domains", "scheduled_at_epoch", "activated_at_epoch"}
    /\ r.known_ack_domains \subseteq Domain

Types ==
    /\ DOMAIN proposalsById = Domain
    /\ DOMAIN activationRecords = Domain
    /\ DOMAIN epochLeaves = Domain
    /\ DOMAIN governanceRoot = Domain
    /\ \A d \in Domain :
          /\ DOMAIN proposalsById[d] = ProposalId
          /\ DOMAIN activationRecords[d] = ProposalId
          /\ DOMAIN epochLeaves[d] = Epoch
          /\ DOMAIN governanceRoot[d] = Epoch
    /\ currentEpoch \in [Domain -> Epoch]
    /\ nextProposalSequence \in [Domain -> Nat]

\* Only the source holds a proposal that is not approved, and the sequence
\* numbers from NextProposalSequence on are unused.
ProposalOK(d, id) ==
    Knows(d, id) =>
        /\ IsProposal(proposalsById[d][id])
        /\ proposalsById[d][id].source_domain = id[1]
        /\ d = id[1] => id[2] < nextProposalSequence[d]
        /\ d # id[1] => Status(d, id) \in Approved

\* Every acknowledgment a record knows, other than the domain's own, was
\* committed to the domain by the one that gave it.
RecordOK(d, id) ==
    activationRecords[d][id] # Missing =>
        /\ IsRecord(activationRecords[d][id])
        /\ Status(d, id) \in Approved
        /\ \A t \in activationRecords[d][id].known_ack_domains :
              t # d => \E e \in Epoch :
                  AckLeaf(id, proposalsById[d][id], d, t, e) \in governanceRoot[t][e]

\* A proposal is scheduled with all its acknowledgments.
ScheduleOK(d, id) ==
    Status(d, id) \in {"Scheduled", "Activated"} =>
        /\ activationRecords[d][id] # Missing
        /\ proposalsById[d][id].target_domains \subseteq activationRecords[d][id].known_ack_domains

\* A listed leaf says what the domain that lists it says of the proposal: as its
\* source, in the approval epoch, or as a domain that acknowledges it.
LeafOK(s, e, leaf) ==
    LET id == leaf.proposal_id
        proposal == proposalsById[s][id]
    IN  /\ id \in ProposalId
        /\ proposal.status \in Approved
        /\ \/ /\ leaf = ProposalLeaf(id, proposal, leaf.target_domain)
              /\ id[1] = s
              /\ leaf.target_domain \in proposal.target_domains
              /\ e = proposal.approval_epoch
           \/ leaf = AckLeaf(id, proposal, leaf.target_domain, s, e)

IInv ==
    /\ Types
    /\ \A d \in Domain, id \in ProposalId :
          ProposalOK(d, id) /\ RecordOK(d, id) /\ ScheduleOK(d, id)
    /\ \A s \in Domain, e \in Epoch :
          /\ governanceRoot[s][e] \subseteq epochLeaves[s][e]
          /\ \A leaf \in epochLeaves[s][e] : LeafOK(s, e, leaf)
    /\ ImportedWasApproved

-----------------------------------------------------------------------------
(* What every step keeps *)

\* Two records of a proposal from which the same leaves are made.
Same(p, q) ==
    /\ Facts(q) = Facts(p)
    /\ q.voting_end_epoch = p.voting_end_epoch
    /\ q.approval_epoch = p.approval_epoch

\* An approved proposal stays approved and as it is, sequence numbers grow, and
\* listed and committed leaves stay.
Kept ==
    /\ \A d \in Domain, id \in ProposalId :
          Status(d, id) \in Approved =>
              /\ Same(proposalsById[d][id], proposalsById'[d][id])
              /\ proposalsById'[d][id].status \in Approved
    /\ \A d \in Domain : nextProposalSequence'[d] >= nextProposalSequence[d]
    /\ \A s \in Domain, e \in Epoch :
          /\ epochLeaves[s][e] \subseteq epochLeaves'[s][e]
          /\ governanceRoot[s][e] \subseteq governanceRoot'[s][e]

\* The conjunct of ImportedWasApproved about one domain and one proposal.
Imported(d, id) ==
    /\ Status(id[1], id) \in Approved
    /\ Facts(proposalsById[d][id]) = Facts(SourceProposal(id))
    /\ d \in SourceProposal(id).target_domains
    /\ ProposalLeaf(id, SourceProposal(id), d)
          \in governanceRoot[id[1]][SourceProposal(id).approval_epoch]

\* A proposal id names a domain and a sequence number below the domain's bound.
LEMMA ProposalIdFacts ==
    /\ \A id \in ProposalId : id[1] \in Domain /\ id[2] \in Nat /\ id = <<id[1], id[2]>>
    /\ \A d \in Domain, n \in Nat : n < MaxProposal[d] => <<d, n>> \in ProposalId
  BY GovernanceAssumption DEF ProposalId

\* Records that are the Same yield the same leaves, and agree on the targets.
LEMMA SameLeaves ==
  ASSUME NEW p, NEW q, Same(p, q)
  PROVE  /\ \A id, t : ProposalLeaf(id, q, t) = ProposalLeaf(id, p, t)
         /\ \A id, t, a, e : AckLeaf(id, q, t, a, e) = AckLeaf(id, p, t, a, e)
         /\ q.target_domains = p.target_domains
         /\ q.source_domain = p.source_domain
         /\ q.approval_epoch = p.approval_epoch
<1>1. Facts(q) = Facts(p)
  BY DEF Same
<1>2. q.target_domains = p.target_domains /\ q.source_domain = p.source_domain
  BY <1>1 DEF Facts
<1>3. q.voting_end_epoch = p.voting_end_epoch /\ q.approval_epoch = p.approval_epoch
  BY DEF Same
<1> QED
  BY <1>1, <1>2, <1>3 DEF ProposalLeaf, AckLeaf

\* A leaf that was listed is still true of its proposal.
LEMMA LeafKept ==
  ASSUME Kept, NEW s \in Domain, NEW e \in Epoch, NEW leaf, LeafOK(s, e, leaf)
  PROVE  LeafOK(s, e, leaf)'
<1> DEFINE id == leaf.proposal_id
           p == proposalsById[s][id]
           q == proposalsById'[s][id]
<1>1. id \in ProposalId /\ p.status \in Approved
  BY DEF LeafOK
<1>2. Same(p, q) /\ q.status \in Approved
  BY <1>1 DEF Kept, Status
<1>3. CASE leaf = AckLeaf(id, p, leaf.target_domain, s, e)
  <2>1. leaf = AckLeaf(id, q, leaf.target_domain, s, e)
    BY <1>2, <1>3, SameLeaves
  <2> QED
    BY <1>1, <1>2, <2>1 DEF LeafOK
<1>4. CASE /\ leaf = ProposalLeaf(id, p, leaf.target_domain)
           /\ id[1] = s
           /\ leaf.target_domain \in p.target_domains
           /\ e = p.approval_epoch
  <2>1. /\ leaf = ProposalLeaf(id, q, leaf.target_domain)
        /\ leaf.target_domain \in q.target_domains
        /\ e = q.approval_epoch
    BY <1>2, <1>4, SameLeaves
  <2> QED
    BY <1>1, <1>2, <1>4, <2>1 DEF LeafOK
<1> QED
  BY <1>3, <1>4 DEF LeafOK

\* What was imported is still what the source approved.
LEMMA ImportedKept ==
  ASSUME Kept, NEW d \in Domain, NEW id \in ProposalId,
         Status(d, id) \in Approved, ProposalOK(id[1], id), Imported(d, id)
  PROVE  Imported(d, id)'
<1> DEFINE s == id[1]
<1>1. s \in Domain
  BY ProposalIdFacts
<1>2. /\ Same(proposalsById[d][id], proposalsById'[d][id])
      /\ Same(proposalsById[s][id], proposalsById'[s][id])
      /\ proposalsById'[s][id].status \in Approved
  BY <1>1 DEF Kept, Imported
<1>3. Facts(proposalsById'[d][id]) = Facts(proposalsById'[s][id])
  BY <1>2 DEF Imported, SourceProposal, Same
<1>4. /\ d \in proposalsById'[s][id].target_domains
      /\ proposalsById'[s][id].approval_epoch = proposalsById[s][id].approval_epoch
      /\ ProposalLeaf(id, proposalsById'[s][id], d) = ProposalLeaf(id, proposalsById[s][id], d)
  BY <1>2, SameLeaves DEF Imported, SourceProposal
<1>5. proposalsById[s][id].approval_epoch \in Epoch
  <2>1. Knows(s, id)
    BY DEF Imported, Status, Approved, Knows, Missing
  <2> QED
    BY <2>1 DEF ProposalOK, IsProposal, Imported, Status
<1>6. ProposalLeaf(id, proposalsById'[s][id], d)
          \in governanceRoot'[s][proposalsById'[s][id].approval_epoch]
  <2>1. ProposalLeaf(id, proposalsById[s][id], d)
            \in governanceRoot[s][proposalsById[s][id].approval_epoch]
    BY DEF Imported, SourceProposal
  <2>2. governanceRoot[s][proposalsById[s][id].approval_epoch]
            \subseteq governanceRoot'[s][proposalsById[s][id].approval_epoch]
    BY <1>1, <1>5 DEF Kept
  <2> QED
    BY <1>4, <2>1, <2>2
<1> QED
  BY <1>2, <1>3, <1>4, <1>6 DEF Imported, SourceProposal, Status

\* A committed acknowledgment of an approved proposal stays committed.
LEMMA AckKept ==
  ASSUME Kept, NEW d \in Domain, NEW id \in ProposalId, Status(d, id) \in Approved,
         NEW t \in Domain, NEW e \in Epoch,
         AckLeaf(id, proposalsById[d][id], d, t, e) \in governanceRoot[t][e]
  PROVE  AckLeaf(id, proposalsById'[d][id], d, t, e) \in governanceRoot'[t][e]
<1>1. Same(proposalsById[d][id], proposalsById'[d][id])
  BY DEF Kept
<1>2. AckLeaf(id, proposalsById'[d][id], d, t, e) = AckLeaf(id, proposalsById[d][id], d, t, e)
  BY <1>1, SameLeaves
<1>3. governanceRoot[t][e] \subseteq governanceRoot'[t][e]
  BY DEF Kept
<1> QED
  BY <1>2, <1>3

EntryOK(d, id) == ProposalOK(d, id) /\ RecordOK(d, id) /\ ScheduleOK(d, id)

\* An entry that a step does not write stays good.
LEMMA EntryKept ==
  ASSUME Types, Types', Kept, NEW d \in Domain, NEW id \in ProposalId, EntryOK(d, id),
         proposalsById'[d][id] = proposalsById[d][id],
         activationRecords'[d][id] = activationRecords[d][id]
  PROVE  EntryOK(d, id)'
<1>1. ProposalOK(d, id)'
  <2>1. nextProposalSequence'[d] >= nextProposalSequence[d]
    BY DEF Kept
  <2>2. id[2] \in Nat /\ nextProposalSequence[d] \in Nat /\ nextProposalSequence'[d] \in Nat
    BY ProposalIdFacts DEF Types
  <2>3. id[2] < nextProposalSequence[d] => id[2] < nextProposalSequence'[d]
    BY <2>1, <2>2
  <2> QED
    BY <2>3 DEF EntryOK, ProposalOK, Knows, Status
<1>2. RecordOK(d, id)'
  <2> SUFFICES ASSUME activationRecords[d][id] # Missing PROVE RecordOK(d, id)'
    BY DEF RecordOK
  <2>1. /\ IsRecord(activationRecords[d][id])
        /\ Status(d, id) \in Approved
        /\ \A t \in activationRecords[d][id].known_ack_domains :
              t # d => \E e \in Epoch :
                  AckLeaf(id, proposalsById[d][id], d, t, e) \in governanceRoot[t][e]
    BY DEF EntryOK, RecordOK
  <2>2. ASSUME NEW t \in activationRecords[d][id].known_ack_domains, t # d
        PROVE  \E e \in Epoch :
                  AckLeaf(id, proposalsById'[d][id], d, t, e) \in governanceRoot'[t][e]
    <3>1. t \in Domain
      BY <2>1 DEF IsRecord
    <3>2. PICK e \in Epoch : AckLeaf(id, proposalsById[d][id], d, t, e) \in governanceRoot[t][e]
      BY <2>1, <2>2
    <3> QED
      BY <2>1, <3>1, <3>2, AckKept
  <2> QED
    BY <2>1, <2>2 DEF RecordOK, IsRecord, Status
<1>3. ScheduleOK(d, id)'
  BY DEF EntryOK, ScheduleOK, Status
<1> QED
  BY <1>1, <1>2, <1>3 DEF EntryOK

\* It is enough to look at what a step writes.
LEMMA StepIInv ==
  ASSUME IInv, Types', Kept,
         \A d \in Domain, id \in ProposalId : EntryOK(d, id)',
         \A s \in Domain, e \in Epoch :
             /\ governanceRoot'[s][e] \subseteq epochLeaves'[s][e]
             /\ \A leaf \in epochLeaves'[s][e] \ epochLeaves[s][e] : LeafOK(s, e, leaf)',
         \A d \in Domain, id \in ProposalId :
             /\ proposalsById'[d][id] # Missing
             /\ d # id[1]
             /\ Status(d, id) \notin Approved
             => Imported(d, id)'
  PROVE  IInv'
<1>1. \A s \in Domain, e \in Epoch : \A leaf \in epochLeaves'[s][e] : LeafOK(s, e, leaf)'
  <2> SUFFICES ASSUME NEW s \in Domain, NEW e \in Epoch, NEW leaf \in epochLeaves[s][e]
               PROVE  LeafOK(s, e, leaf)'
    OBVIOUS
  <2>1. LeafOK(s, e, leaf)
    BY DEF IInv
  <2> QED
    BY <2>1, LeafKept
<1>2. ASSUME NEW d \in Domain, NEW id \in ProposalId,
             proposalsById'[d][id] # Missing, d # id[1]
      PROVE  Imported(d, id)'
  <2>1. CASE Status(d, id) \notin Approved
    BY <1>2, <2>1
  <2>2. CASE Status(d, id) \in Approved
    <3>1. Knows(d, id)
      BY <2>2 DEF Status, Knows, Approved, Missing
    <3>2. Imported(d, id)
      BY <1>2, <3>1 DEF IInv, ImportedWasApproved, Imported
    <3>3. ProposalOK(id[1], id)
      BY ProposalIdFacts DEF IInv
    <3> QED
      BY <2>2, <3>2, <3>3, ImportedKept
  <2> QED
    BY <2>1, <2>2
<1>3. ImportedWasApproved'
  BY <1>2 DEF ImportedWasApproved, Imported, Knows
<1> QED
  BY <1>1, <1>3 DEF IInv, EntryOK

\* The empty chains satisfy the invariant.
LEMMA InitIInv == Init => IInv
<1> SUFFICES ASSUME Init PROVE IInv
  OBVIOUS
<1>1. Types
  BY GovernanceAssumption DEF Init, Types, Epoch
<1>2. \A d \in Domain, id \in ProposalId :
          /\ proposalsById[d][id] = Missing
          /\ activationRecords[d][id] = Missing
  BY DEF Init
<1>3. \A s \in Domain, e \in Epoch : governanceRoot[s][e] = {} /\ epochLeaves[s][e] = {}
  BY DEF Init
<1>4. Missing.status = "Missing"
  BY DEF Missing
<1>5. \A d \in Domain, id \in ProposalId : ~ Knows(d, id) /\ Status(d, id) = "Missing"
  BY <1>2, <1>4 DEF Knows, Status
<1> QED
  BY <1>1, <1>2, <1>3, <1>5 DEF IInv, ProposalOK, RecordOK, ScheduleOK, ImportedWasApproved

-----------------------------------------------------------------------------
(* Proposals and votes *)

\* A write of one entry of a table by domain and proposal.
LEMMA EntryWritten ==
  ASSUME NEW table, NEW table1, NEW d \in Domain, NEW id \in ProposalId, NEW q,
         DOMAIN table = Domain, \A x \in Domain : DOMAIN table[x] = ProposalId,
         table1 = [table EXCEPT ![d][id] = q]
  PROVE  /\ DOMAIN table1 = Domain
         /\ \A x \in Domain : DOMAIN table1[x] = ProposalId
         /\ table1[d][id] = q
         /\ \A x \in Domain, i \in ProposalId :
               x # d \/ i # id => table1[x][i] = table[x][i]
  OBVIOUS

\* A step writes at most the entry of one proposal in one domain.
OthersKept(d, id) ==
    \A x \in Domain, i \in ProposalId :
        x # d \/ i # id =>
            /\ proposalsById'[x][i] = proposalsById[x][i]
            /\ activationRecords'[x][i] = activationRecords[x][i]

\* The leaves a step lists are true after it.
NewLeavesOK ==
    \A s \in Domain, e \in Epoch :
        \A leaf \in epochLeaves'[s][e] \ epochLeaves[s][e] : LeafOK(s, e, leaf)'

\* A step that writes one entry keeps the invariant if the entry is good.
LEMMA EntryIInv ==
  ASSUME IInv, Types', Kept, NEW d \in Domain, NEW id \in ProposalId,
         OthersKept(d, id), EntryOK(d, id)', governanceRoot' = governanceRoot, NewLeavesOK,
         d # id[1] /\ Status(d, id) \notin Approved => Imported(d, id)'
  PROVE  IInv'
<1>1. ASSUME NEW x \in Domain, NEW i \in ProposalId
      PROVE  EntryOK(x, i)'
  <2>1. CASE x = d /\ i = id
    BY <2>1
  <2>2. CASE x # d \/ i # id
    BY <2>2, EntryKept DEF IInv, EntryOK, OthersKept
  <2> QED
    BY <2>1, <2>2
<1>2. ASSUME NEW x \in Domain, NEW i \in ProposalId,
             proposalsById'[x][i] # Missing, x # i[1], Status(x, i) \notin Approved
      PROVE  Imported(x, i)'
  <2>1. CASE x = d /\ i = id
    BY <1>2, <2>1
  <2>2. CASE x # d \/ i # id
    <3>1. proposalsById'[x][i] = proposalsById[x][i]
      BY <2>2 DEF OthersKept
    <3> QED
      BY <1>2, <3>1 DEF IInv, ProposalOK, Knows
  <2> QED
    BY <2>1, <2>2
<1>3. \A s \in Domain, e \in Epoch : governanceRoot'[s][e] \subseteq epochLeaves'[s][e]
  BY DEF IInv, Kept
<1> QED
  BY <1>1, <1>2, <1>3, StepIInv DEF NewLeavesOK

\* What a committed leaf is, and that it was listed.
LEMMA CommittedLeaf ==
  ASSUME NEW kind, NEW leaf \in Leaves(kind)
  PROVE  leaf.kind = kind /\ \E s \in Domain, e \in Epoch : leaf \in governanceRoot[s][e]
BY DEF Leaves

\* A leaf under an exported root is one of the leaves of its epoch.
LEMMA RootListed ==
  ASSUME IInv, NEW s \in Domain, NEW e \in Epoch, NEW leaf \in governanceRoot[s][e]
  PROVE  leaf \in epochLeaves[s][e]
BY DEF IInv

\* The invariant, for one proposal of one domain.
LEMMA EntryGood ==
  ASSUME IInv, NEW d \in Domain, NEW id \in ProposalId
  PROVE  EntryOK(d, id)
BY DEF IInv, EntryOK

\* A record is not the mark of an absent one.
LEMMA RecordPresent ==
  ASSUME NEW x, IsRecord(x)
  PROVE  x # Missing
<1>1. DOMAIN x # DOMAIN Missing
  BY DEF IsRecord, Missing
<1> QED
  BY <1>1

\* A counter that is not written does not fall.
LEMMA SequencesKept ==
  ASSUME Types, nextProposalSequence' = nextProposalSequence
  PROVE  \A x \in Domain : nextProposalSequence'[x] >= nextProposalSequence[x]
BY DEF Types

\* A step that leaves approved proposals alone and only adds leaves keeps them.
LEMMA UntouchedKept ==
  ASSUME Types, UNCHANGED <<nextProposalSequence, governanceRoot>>,
         \A x \in Domain, i \in ProposalId : Status(x, i) \in Approved =>
             proposalsById'[x][i] = proposalsById[x][i],
         \A x \in Domain, k \in Epoch : epochLeaves[x][k] \subseteq epochLeaves'[x][k]
  PROVE  Kept
<1>1. \A x \in Domain, i \in ProposalId : Status(x, i) \in Approved =>
          /\ Same(proposalsById[x][i], proposalsById'[x][i])
          /\ proposalsById'[x][i].status \in Approved
  BY DEF Same, Status
<1>2. \A x \in Domain : nextProposalSequence'[x] >= nextProposalSequence[x]
  BY SequencesKept
<1> QED
  BY <1>1, <1>2 DEF Kept

\* create_proposal writes an entry nobody has used.
LEMMA CreateIInv ==
  ASSUME IInv, NEW d \in Domain, Propose(d)
  PROVE  IInv'
<1>1. PICK targets \in SUBSET Domain, version \in Version, power \in Snapshots :
          create_proposal(d, targets, version, power)
  BY DEF Propose
<1> DEFINE q == [source_domain |-> d, target_domains |-> targets,
                 new_protocol_version |-> version,
                 voting_end_epoch |-> currentEpoch[d] + 1,
                 approval_epoch |-> NoEpoch, activation_epoch |-> 0,
                 snapshot |-> snapshot_total_voting_power(power),
                 Yes |-> 0, No |-> 0, Abstain |-> 0, status |-> "Voting"]
<1>a. PICK id : id = <<d, nextProposalSequence[d]>>
  BY Zenon
<1>2. /\ Types
      /\ nextProposalSequence[d] \in Nat
      /\ nextProposalSequence[d] < MaxProposal[d]
      /\ nextProposalSequence' = [nextProposalSequence EXCEPT ![d] = @ + 1]
      /\ proposalsById' = [proposalsById EXCEPT ![d][id] = q]
      /\ UNCHANGED <<activationRecords, epochLeaves, currentEpoch, governanceRoot>>
  BY <1>1, <1>a DEF IInv, Types, create_proposal, governance_proposal_id, epochVars
<1>3. id \in ProposalId /\ id[1] = d /\ id[2] = nextProposalSequence[d]
  BY <1>2, <1>a, ProposalIdFacts
<1>4. /\ q.source_domain = d
      /\ q.status = "Voting"
      /\ IsProposal(q)
  BY DEF IsProposal, Approved
<1> HIDE DEF q
<1>5. /\ DOMAIN proposalsById' = Domain
      /\ \A x \in Domain : DOMAIN proposalsById'[x] = ProposalId
      /\ proposalsById'[d][id] = q
      /\ \A x \in Domain, i \in ProposalId :
            x # d \/ i # id => proposalsById'[x][i] = proposalsById[x][i]
  BY <1>2, <1>3, EntryWritten DEF Types
<1>6. proposalsById[d][id] = Missing
  <2>1. ProposalOK(d, id)
    BY <1>3 DEF IInv
  <2> QED
    BY <1>2, <1>3, <2>1 DEF ProposalOK, Knows
<1>7. activationRecords[d][id] = Missing
  <2>1. RecordOK(d, id)
    BY <1>3 DEF IInv
  <2> QED
    BY <1>6, <2>1 DEF RecordOK, Status, Approved, Missing
<1>8. Types'
  BY <1>2, <1>5 DEF Types
<1>9. Kept
  <2>1. ASSUME NEW x \in Domain, NEW i \in ProposalId, Status(x, i) \in Approved
        PROVE  /\ Same(proposalsById[x][i], proposalsById'[x][i])
               /\ proposalsById'[x][i].status \in Approved
    <3>1. x # d \/ i # id
      BY <1>6, <2>1 DEF Status, Approved, Missing
    <3> QED
      BY <1>5, <2>1, <3>1 DEF Same, Status
  <2>2. \A x \in Domain : nextProposalSequence'[x] >= nextProposalSequence[x]
    BY <1>2 DEF Types
  <2> QED
    BY <1>2, <2>1, <2>2 DEF Kept
<1>10. EntryOK(d, id)'
  <2>1. id[2] < nextProposalSequence'[d]
    BY <1>2, <1>3 DEF Types
  <2>2. IsProposal(proposalsById[d][id])'
    BY <1>4, <1>5 DEF IsProposal
  <2>3. ProposalOK(d, id)'
    BY <1>3, <1>4, <1>5, <2>1, <2>2 DEF ProposalOK
  <2>4. RecordOK(d, id)'
    BY <1>2, <1>7 DEF RecordOK
  <2>5. ScheduleOK(d, id)'
    BY <1>4, <1>5 DEF ScheduleOK, Status
  <2> QED
    BY <2>3, <2>4, <2>5 DEF EntryOK
<1>11. OthersKept(d, id) /\ NewLeavesOK
  BY <1>2, <1>5 DEF OthersKept, NewLeavesOK
<1> QED
  BY <1>2, <1>3, <1>8, <1>9, <1>10, <1>11, EntryIInv

\* cast_vote changes the tallies of a proposal that is not approved.
LEMMA VoteIInv ==
  ASSUME IInv, NEW d \in Domain, Vote(d)
  PROVE  IInv'
<1>1. PICK id \in ProposalId, voter \in Voter, choice \in Choice :
          cast_vote(d, id, voter, choice)
  BY DEF Vote
<1> DEFINE p == proposalsById[d][id]
           q == [p EXCEPT ![choice] = @ + votingPower[id][voter]]
<1>2. /\ Types
      /\ EntryOK(d, id)
      /\ p.status = "Voting"
      /\ proposalsById' = [proposalsById EXCEPT ![d][id] = q]
      /\ UNCHANGED <<activationRecords, epochLeaves, currentEpoch, governanceRoot,
                     nextProposalSequence>>
  BY <1>1 DEF IInv, EntryOK, cast_vote, epochVars
<1>3. /\ Knows(d, id)
      /\ Status(d, id) \notin Approved
      /\ IsProposal(p)
      /\ d = id[1]
      /\ activationRecords[d][id] = Missing
  BY <1>2 DEF EntryOK, ProposalOK, RecordOK, Knows, Status, Missing, Approved
<1>4. IsProposal(q) /\ q.source_domain = p.source_domain /\ q.status = "Voting"
  BY <1>2, <1>3 DEF IsProposal, Choice, Approved
<1> HIDE DEF q
<1>5. /\ DOMAIN proposalsById' = Domain
      /\ \A x \in Domain : DOMAIN proposalsById'[x] = ProposalId
      /\ proposalsById'[d][id] = q
      /\ \A x \in Domain, i \in ProposalId :
            x # d \/ i # id => proposalsById'[x][i] = proposalsById[x][i]
  BY <1>2, EntryWritten DEF Types
<1>6. Types'
  BY <1>2, <1>5 DEF Types
<1>7. Kept
  BY <1>2, <1>3, <1>5, UntouchedKept
<1>8. EntryOK(d, id)'
  <2>1. IsProposal(proposalsById[d][id])'
    BY <1>4, <1>5 DEF IsProposal
  <2>2. ProposalOK(d, id)'
    BY <1>2, <1>3, <1>4, <1>5, <2>1 DEF EntryOK, ProposalOK
  <2>3. RecordOK(d, id)'
    BY <1>2, <1>3 DEF RecordOK
  <2>4. ScheduleOK(d, id)'
    BY <1>4, <1>5 DEF ScheduleOK, Status
  <2> QED
    BY <2>2, <2>3, <2>4 DEF EntryOK
<1>9. OthersKept(d, id) /\ NewLeavesOK
  BY <1>2, <1>5 DEF OthersKept, NewLeavesOK
<1> QED
  BY <1>2, <1>3, <1>6, <1>7, <1>8, <1>9, EntryIInv

\* Leaves added to one epoch of one domain.
LEMMA LeavesAdded ==
  ASSUME NEW table, NEW table1, NEW d \in Domain, NEW e \in Epoch, NEW L,
         DOMAIN table = Domain, \A x \in Domain : DOMAIN table[x] = Epoch,
         table1 = [table EXCEPT ![d][e] = @ \cup L]
  PROVE  /\ DOMAIN table1 = Domain
         /\ \A x \in Domain : DOMAIN table1[x] = Epoch
         /\ \A x \in Domain, k \in Epoch :
               /\ table[x][k] \subseteq table1[x][k]
               /\ \A leaf \in table1[x][k] \ table[x][k] : x = d /\ k = e /\ leaf \in L
<1>1. /\ DOMAIN table1 = Domain
      /\ \A x \in Domain : DOMAIN table1[x] = Epoch
      /\ \A x \in Domain, k \in Epoch :
            table1[x][k] = IF x = d /\ k = e THEN table[x][k] \cup L ELSE table[x][k]
  BY Zenon
<1> QED
  BY <1>1

\* close_proposal approves a proposal nobody else has and lists its leaves, or
\* rejects it.
LEMMA CloseIInv ==
  ASSUME IInv, NEW d \in Domain, Close(d)
  PROVE  IInv'
<1>1. PICK id \in ProposalId : close_proposal(d, id)
  BY DEF Close
<1> DEFINE p == proposalsById[d][id]
           q == ApprovedIn(p, currentEpoch[d], ActivationDelay)
           r == store_activation_record({})
           L == {ProposalLeaf(id, q, t) : t \in q.target_domains}
<1>2. /\ Types
      /\ EntryOK(d, id)
      /\ currentEpoch[d] \in Epoch
      /\ currentEpoch[d] + ActivationDelay <= MaxEpoch
      /\ p.status = "Voting"
      /\ UNCHANGED <<currentEpoch, governanceRoot, nextProposalSequence>>
  BY <1>1 DEF IInv, EntryOK, Types, close_proposal, epochVars, voteVars
<1>3. /\ Knows(d, id)
      /\ Status(d, id) \notin Approved
      /\ IsProposal(p)
      /\ d = id[1]
      /\ activationRecords[d][id] = Missing
  BY <1>2 DEF EntryOK, ProposalOK, RecordOK, Knows, Status, Missing, Approved
<1>4. CASE /\ proposalsById' = [proposalsById EXCEPT ![d][id] = q]
           /\ activationRecords' = [activationRecords EXCEPT ![d][id] = r]
           /\ insert_outbound_proposal_leaves(d, id, q)
  <2>1. /\ IsProposal(q)
        /\ q.source_domain = p.source_domain
        /\ q.approval_epoch = currentEpoch[d]
        /\ q.status = "LocallyFinalized"
    <3>1. currentEpoch[d] + ActivationDelay \in Epoch
      BY <1>2, GovernanceAssumption DEF Epoch, ActivationDelay
    <3> QED
      BY <1>2, <1>3, <3>1 DEF IsProposal, ApprovedIn, Approved
  <2>2. r # Missing /\ IsRecord(r) /\ r.known_ack_domains = {}
    BY DEF store_activation_record, IsRecord, Missing
  <2>3. epochLeaves' = [epochLeaves EXCEPT ![d][currentEpoch[d]] = @ \cup L]
    BY <1>4, <2>1 DEF insert_outbound_proposal_leaves
  <2>4. \A leaf \in L :
            /\ leaf.proposal_id = id
            /\ leaf = ProposalLeaf(id, q, leaf.target_domain)
            /\ leaf.target_domain \in q.target_domains
    BY DEF ProposalLeaf
  <2> HIDE DEF q, r, L
  <2>5. /\ DOMAIN proposalsById' = Domain
        /\ \A x \in Domain : DOMAIN proposalsById'[x] = ProposalId
        /\ proposalsById'[d][id] = q
        /\ \A x \in Domain, i \in ProposalId :
              x # d \/ i # id => proposalsById'[x][i] = proposalsById[x][i]
    BY <1>2, <1>4, EntryWritten DEF Types
  <2>6. /\ DOMAIN activationRecords' = Domain
        /\ \A x \in Domain : DOMAIN activationRecords'[x] = ProposalId
        /\ activationRecords'[d][id] = r
        /\ \A x \in Domain, i \in ProposalId :
              x # d \/ i # id => activationRecords'[x][i] = activationRecords[x][i]
    BY <1>2, <1>4, EntryWritten DEF Types
  <2>7. /\ DOMAIN epochLeaves' = Domain
        /\ \A x \in Domain : DOMAIN epochLeaves'[x] = Epoch
        /\ \A x \in Domain, k \in Epoch :
              /\ epochLeaves[x][k] \subseteq epochLeaves'[x][k]
              /\ \A leaf \in epochLeaves'[x][k] \ epochLeaves[x][k] :
                    x = d /\ k = currentEpoch[d] /\ leaf \in L
    BY <1>2, <2>3, LeavesAdded DEF Types
  <2>8. Types'
    BY <1>2, <2>5, <2>6, <2>7 DEF Types
  <2>9. Kept
    BY <1>2, <1>3, <2>5, <2>7, UntouchedKept
  <2>10. EntryOK(d, id)'
    <3>1. IsProposal(proposalsById[d][id])' /\ IsRecord(activationRecords[d][id])'
      BY <2>1, <2>2, <2>5, <2>6 DEF IsProposal, IsRecord
    <3>2. ProposalOK(d, id)'
      BY <1>2, <1>3, <2>1, <2>5, <3>1 DEF EntryOK, ProposalOK
    <3>3. RecordOK(d, id)'
      BY <2>1, <2>2, <2>5, <2>6, <3>1 DEF RecordOK, Status, Approved
    <3>4. ScheduleOK(d, id)'
      BY <2>1, <2>5 DEF ScheduleOK, Status
    <3> QED
      BY <3>2, <3>3, <3>4 DEF EntryOK
  <2>11. ASSUME NEW x \in Domain, NEW k \in Epoch,
                NEW leaf \in epochLeaves'[x][k] \ epochLeaves[x][k]
         PROVE  LeafOK(x, k, leaf)'
    <3>1. x = d /\ k = q.approval_epoch /\ leaf \in L
      BY <2>1, <2>7
    <3>2. leaf.proposal_id = id /\ q.status \in Approved
      BY <2>1, <2>4, <3>1 DEF Approved
    <3> QED
      BY <1>3, <2>4, <2>5, <3>1, <3>2 DEF LeafOK
  <2>12. OthersKept(d, id) /\ NewLeavesOK
    BY <2>5, <2>6, <2>11 DEF OthersKept, NewLeavesOK
  <2> QED
    BY <1>2, <1>3, <2>8, <2>9, <2>10, <2>12, EntryIInv
<1>5. CASE /\ proposalsById' = [proposalsById EXCEPT ![d][id].status = "Rejected"]
           /\ UNCHANGED <<activationRecords, epochLeaves>>
  <2> DEFINE z == [p EXCEPT !.status = "Rejected"]
  <2>1. IsProposal(z) /\ z.source_domain = p.source_domain /\ z.status = "Rejected"
    BY <1>3 DEF IsProposal, Approved
  <2>2. proposalsById' = [proposalsById EXCEPT ![d][id] = z]
    BY <1>5
  <2> HIDE DEF z
  <2>3. /\ DOMAIN proposalsById' = Domain
        /\ \A x \in Domain : DOMAIN proposalsById'[x] = ProposalId
        /\ proposalsById'[d][id] = z
        /\ \A x \in Domain, i \in ProposalId :
              x # d \/ i # id => proposalsById'[x][i] = proposalsById[x][i]
    BY <1>2, <2>2, EntryWritten DEF Types
  <2>4. Types'
    BY <1>2, <1>5, <2>3 DEF Types
  <2>5. Kept
    BY <1>2, <1>3, <1>5, <2>3, UntouchedKept
  <2>6. EntryOK(d, id)'
    <3>1. IsProposal(proposalsById[d][id])'
      BY <2>1, <2>3 DEF IsProposal
    <3>2. ProposalOK(d, id)'
      BY <1>2, <1>3, <2>1, <2>3, <3>1 DEF EntryOK, ProposalOK
    <3>3. RecordOK(d, id)'
      BY <1>3, <1>5 DEF RecordOK
    <3>4. ScheduleOK(d, id)'
      BY <2>1, <2>3 DEF ScheduleOK, Status
    <3> QED
      BY <3>2, <3>3, <3>4 DEF EntryOK
  <2>7. OthersKept(d, id) /\ NewLeavesOK
    BY <1>5, <2>3 DEF OthersKept, NewLeavesOK
  <2> QED
    BY <1>2, <1>3, <2>4, <2>5, <2>6, <2>7, EntryIInv
<1> QED
  BY <1>1, <1>4, <1>5 DEF close_proposal

-----------------------------------------------------------------------------
(* Imports *)

\* q and x are the records maybe_schedule_activation stores for p and r.
Stored(p, r, q, x) ==
    /\ IsProposal(q)
    /\ IsRecord(x)
    /\ Same(p, q)
    /\ q.status \in Approved
    /\ x.known_ack_domains = r.known_ack_domains
    /\ \/ q = p
       \/ /\ p.status = "LocallyFinalized"
          /\ q.status = "Scheduled"
          /\ q.target_domains \subseteq x.known_ack_domains

\* maybe_schedule_activation stores the records as they are, or schedules a
\* proposal whose acknowledgments are complete.
LEMMA ScheduleStores ==
  ASSUME NEW d \in Domain, NEW id \in ProposalId, NEW p, NEW r,
         IsProposal(p), IsRecord(r), p.status \in Approved,
         maybe_schedule_activation(d, id, p, r)
  PROVE  \E q, x :
            /\ Stored(p, r, q, x)
            /\ proposalsById' = [proposalsById EXCEPT ![d][id] = q]
            /\ activationRecords' = [activationRecords EXCEPT ![d][id] = x]
<1>1. CASE ~ ReadyToSchedule(p, r)
  <2>1. Stored(p, r, p, r)
    BY DEF Stored, Same
  <2> QED
    BY <1>1, <2>1 DEF maybe_schedule_activation, NotScheduled
<1>2. CASE ReadyToSchedule(p, r)
  <2> DEFINE q == [p EXCEPT !.status = "Scheduled"]
             x == [r EXCEPT !.scheduled_at_epoch = currentEpoch[d]]
  <2>1. /\ proposalsById' = [proposalsById EXCEPT ![d][id] = q]
        /\ activationRecords' = [activationRecords EXCEPT ![d][id] = x]
    BY <1>2 DEF maybe_schedule_activation, ScheduleInBucket
  <2>2. /\ IsProposal(q)
        /\ q.status = "Scheduled"
        /\ q.target_domains = p.target_domains
    BY DEF IsProposal, Approved
  <2>3. Same(p, q)
    BY DEF Same, Facts, IsProposal
  <2>4. IsRecord(x) /\ x.known_ack_domains = r.known_ack_domains
    BY DEF IsRecord
  <2>5. p.status = "LocallyFinalized" /\ p.target_domains \subseteq r.known_ack_domains
    BY <1>2 DEF ReadyToSchedule, has_full_ack_set
  <2> HIDE DEF q, x
  <2>6. Stored(p, r, q, x)
    BY <2>2, <2>3, <2>4, <2>5 DEF Stored, Approved
  <2> QED
    BY <2>1, <2>6, Zenon
<1> QED
  BY <1>1, <1>2

\* A listed proposal leaf is what its source says.
LEMMA ProposalLeafSource ==
  ASSUME IInv, NEW s \in Domain, NEW e \in Epoch, NEW leaf \in epochLeaves[s][e],
         leaf.kind = "ProposalV1"
  PROVE  LET id == leaf.proposal_id
             proposal == proposalsById[s][id]
         IN  /\ id \in ProposalId
             /\ id[1] = s
             /\ proposal.status \in Approved
             /\ IsProposal(proposal)
             /\ proposal.source_domain = s
             /\ leaf = ProposalLeaf(id, proposal, leaf.target_domain)
             /\ leaf.target_domain \in proposal.target_domains
             /\ e = proposal.approval_epoch
<1> DEFINE id == leaf.proposal_id
           proposal == proposalsById[s][id]
<1>1. LeafOK(s, e, leaf)
  BY DEF IInv
<1>2. id \in ProposalId /\ proposal.status \in Approved
  BY <1>1 DEF LeafOK
<1>3. leaf # AckLeaf(id, proposal, leaf.target_domain, s, e)
  BY DEF AckLeaf
<1>4. /\ leaf = ProposalLeaf(id, proposal, leaf.target_domain)
      /\ id[1] = s
      /\ leaf.target_domain \in proposal.target_domains
      /\ e = proposal.approval_epoch
  BY <1>1, <1>3 DEF LeafOK
<1>5. Knows(s, id) /\ ProposalOK(s, id)
  BY <1>2 DEF IInv, Knows, Missing, Approved
<1> QED
  BY <1>2, <1>4, <1>5 DEF ProposalOK

\* A listed acknowledgment is what the acknowledging domain says.
LEMMA AckLeafSource ==
  ASSUME IInv, NEW s \in Domain, NEW e \in Epoch, NEW leaf \in epochLeaves[s][e],
         leaf.kind = "AckV1"
  PROVE  LET id == leaf.proposal_id
             proposal == proposalsById[s][id]
         IN  /\ id \in ProposalId
             /\ proposal.status \in Approved
             /\ leaf = AckLeaf(id, proposal, leaf.target_domain, s, e)
<1>1. LeafOK(s, e, leaf)
  BY DEF IInv
<1>2. \A id, p, t : leaf # ProposalLeaf(id, p, t)
  BY DEF ProposalLeaf
<1> QED
  BY <1>1, <1>2 DEF LeafOK

\* import_verified_governance_proposal stores what the source approved and lists
\* acknowledgments of it.
LEMMA ImportProposalIInv ==
  ASSUME IInv, NEW d \in Domain, ImportProposal(d)
  PROVE  IInv'
<1>1. PICK leaf \in Leaves("ProposalV1") : import_verified_governance_proposal(d, leaf)
  BY DEF ImportProposal
<1>2. PICK s \in Domain, e \in Epoch : leaf \in governanceRoot[s][e]
  BY CommittedLeaf
<1>3. leaf \in epochLeaves[s][e] /\ leaf.kind = "ProposalV1"
  BY <1>2, CommittedLeaf, RootListed
<1> DEFINE id == leaf.proposal_id
           P == proposalsById[s][id]
           p == ImportedProposal(leaf)
           r == store_activation_record({d})
<1>4. /\ id \in ProposalId
      /\ id[1] = s
      /\ P.status \in Approved
      /\ IsProposal(P)
      /\ P.source_domain = s
      /\ leaf = ProposalLeaf(id, P, leaf.target_domain)
      /\ e = P.approval_epoch
  BY <1>3, ProposalLeafSource
<1>5. /\ Types
      /\ leaf.target_domain = d
      /\ leaf.facts.source_domain # d
      /\ proposalsById[d][id] = Missing
      /\ d \in leaf.facts.target_domains
      /\ record_local_ack_and_fanout(d, id, p)
      /\ maybe_schedule_activation(d, id, p, r)
      /\ currentEpoch[d] \in Epoch
      /\ UNCHANGED <<currentEpoch, governanceRoot, nextProposalSequence>>
  BY <1>1 DEF IInv, Types, import_verified_governance_proposal, voteVars, epochVars
<1>6. /\ leaf.facts = Facts(P)
      /\ leaf.voting_end_epoch = P.voting_end_epoch
      /\ leaf.epoch = e
  BY <1>4 DEF ProposalLeaf
<1>7. s # d /\ d \in P.target_domains
  <2>1. leaf.facts.source_domain = P.source_domain /\ leaf.facts.target_domains = P.target_domains
    BY <1>6 DEF Facts
  <2> QED
    BY <1>4, <1>5, <2>1
<1>8. /\ Same(P, p)
      /\ p.source_domain = s
      /\ p.status = "LocallyFinalized"
      /\ p.target_domains = P.target_domains
      /\ p.approval_epoch = e
      /\ p.activation_epoch = P.activation_epoch
  <2>1. p.voting_end_epoch = P.voting_end_epoch /\ p.approval_epoch = e
        /\ p.status = "LocallyFinalized"
    BY <1>4, <1>6, Zenon DEF ImportedProposal
  <2>2. Facts(p) = Facts(P)
    BY <1>4, <1>6, Zenon DEF ImportedProposal, Facts
  <2>3. /\ p.source_domain = P.source_domain
        /\ p.target_domains = P.target_domains
        /\ p.activation_epoch = P.activation_epoch
    BY <2>2 DEF Facts
  <2> QED
    BY <1>4, <1>6, <2>1, <2>2, <2>3 DEF Same
<1>9. IsProposal(p)
  <2>1. DOMAIN p = {"source_domain", "target_domains", "new_protocol_version",
                    "voting_end_epoch", "approval_epoch", "activation_epoch",
                    "snapshot", "Yes", "No", "Abstain", "status"}
    BY DEF ImportedProposal
  <2> HIDE DEF p
  <2> QED
    BY <1>4, <1>8, <2>1 DEF IsProposal, Approved
<1>10. IsRecord(r) /\ r.known_ack_domains = {d}
  BY DEF store_activation_record, IsRecord
<1> HIDE DEF p, r
<1>11. PICK q, x :
          /\ Stored(p, r, q, x)
          /\ proposalsById' = [proposalsById EXCEPT ![d][id] = q]
          /\ activationRecords' = [activationRecords EXCEPT ![d][id] = x]
  BY <1>4, <1>5, <1>8, <1>9, <1>10, ScheduleStores DEF Approved
<1>12. /\ IsProposal(q)
       /\ IsRecord(x)
       /\ Same(p, q)
       /\ q.status \in Approved
       /\ q.source_domain = s
       /\ x.known_ack_domains = {d}
       /\ q.status = "LocallyFinalized" \/ q.target_domains \subseteq x.known_ack_domains
  BY <1>8, <1>10, <1>11, SameLeaves DEF Stored
<1>13. /\ DOMAIN proposalsById' = Domain
       /\ \A y \in Domain : DOMAIN proposalsById'[y] = ProposalId
       /\ proposalsById'[d][id] = q
       /\ \A y \in Domain, i \in ProposalId :
             y # d \/ i # id => proposalsById'[y][i] = proposalsById[y][i]
  BY <1>4, <1>5, <1>11, EntryWritten DEF Types
<1>14. /\ DOMAIN activationRecords' = Domain
       /\ \A y \in Domain : DOMAIN activationRecords'[y] = ProposalId
       /\ activationRecords'[d][id] = x
       /\ \A y \in Domain, i \in ProposalId :
             y # d \/ i # id => activationRecords'[y][i] = activationRecords[y][i]
  BY <1>4, <1>5, <1>11, EntryWritten DEF Types
<1> DEFINE L == {AckLeaf(id, p, t, d, currentEpoch[d]) :
                     t \in (p.target_domains \cup {p.source_domain}) \ {d}}
<1>15. epochLeaves' = [epochLeaves EXCEPT ![d][currentEpoch[d]] = @ \cup L]
  BY <1>5 DEF record_local_ack_and_fanout
<1>16. \A l \in L : /\ l.proposal_id = id
                   /\ l = AckLeaf(id, p, l.target_domain, d, currentEpoch[d])
  BY DEF AckLeaf
<1> HIDE DEF L
<1>17. /\ DOMAIN epochLeaves' = Domain
       /\ \A y \in Domain : DOMAIN epochLeaves'[y] = Epoch
       /\ \A y \in Domain, k \in Epoch :
             /\ epochLeaves[y][k] \subseteq epochLeaves'[y][k]
             /\ \A l \in epochLeaves'[y][k] \ epochLeaves[y][k] :
                   y = d /\ k = currentEpoch[d] /\ l \in L
  BY <1>5, <1>15, LeavesAdded DEF Types
<1>18. Types'
  BY <1>5, <1>13, <1>14, <1>17, Zenon DEF Types
<1>19. Kept
  <2>0. proposalsById[d][id] = Missing
    BY <1>5
  <2>1. Status(d, id) \notin Approved
    BY <2>0 DEF Status, Approved, Missing
  <2> QED
    BY <1>5, <1>13, <1>17, <2>1, UntouchedKept, Zenon
<1>20. EntryOK(d, id)'
  <2>1. IsProposal(proposalsById[d][id])' /\ IsRecord(activationRecords[d][id])'
    BY <1>12, <1>13, <1>14 DEF IsProposal, IsRecord
  <2>2. x # Missing
    BY <1>12, RecordPresent
  <2>3. ProposalOK(d, id)'
    BY <1>4, <1>7, <1>12, <1>13, <2>1 DEF ProposalOK, Status
  <2>4. RecordOK(d, id)'
    <3>1. \A t \in x.known_ack_domains : t = d
      BY <1>12
    <3>2. proposalsById'[d][id].status \in Approved
      BY <1>12, <1>13
    <3> QED
      BY <1>14, <2>1, <3>1, <3>2 DEF RecordOK, Status
  <2>5. ScheduleOK(d, id)'
    BY <1>12, <1>13, <1>14, <2>2 DEF ScheduleOK, Status
  <2> QED
    BY <2>3, <2>4, <2>5 DEF EntryOK
<1>21. ASSUME NEW y \in Domain, NEW k \in Epoch,
              NEW l \in epochLeaves'[y][k] \ epochLeaves[y][k]
       PROVE  LeafOK(y, k, l)'
  <2>1. y = d /\ k = currentEpoch[d] /\ l \in L
    BY <1>17
  <2>2. l.proposal_id = id /\ l = AckLeaf(id, q, l.target_domain, d, k)
    <3>1. l.proposal_id = id /\ l = AckLeaf(id, p, l.target_domain, d, k)
      BY <1>16, <2>1
    <3>2. AckLeaf(id, q, l.target_domain, d, k) = AckLeaf(id, p, l.target_domain, d, k)
      BY <1>12, SameLeaves
    <3> QED
      BY <3>1, <3>2
  <2> QED
    BY <1>4, <1>12, <1>13, <2>1, <2>2 DEF LeafOK
<1>22. Imported(d, id)'
  <2>1. proposalsById'[s][id] = P
    BY <1>4, <1>7, <1>13
  <2>2. Facts(q) = Facts(P)
    BY <1>8, <1>12 DEF Same
  <2>3. ProposalLeaf(id, P, d) \in governanceRoot'[s][P.approval_epoch]
    BY <1>2, <1>4, <1>5
  <2> QED
    BY <1>4, <1>7, <1>13, <2>1, <2>2, <2>3 DEF Imported, SourceProposal, Status
<1>23. OthersKept(d, id)
  BY <1>13, <1>14 DEF OthersKept
<1>24. NewLeavesOK
  BY <1>21 DEF NewLeavesOK
<1> QED
  BY <1>4, <1>5, <1>18, <1>19, <1>20, <1>22, <1>23, <1>24, EntryIInv

\* import_verified_governance_ack notes an acknowledgment that was committed to
\* this domain.
LEMMA ImportAckIInv ==
  ASSUME IInv, NEW d \in Domain, ImportAck(d)
  PROVE  IInv'
<1>1. PICK leaf \in Leaves("AckV1") : import_verified_governance_ack(d, leaf)
  BY DEF ImportAck
<1>2. PICK a \in Domain, e \in Epoch : leaf \in governanceRoot[a][e]
  BY CommittedLeaf
<1>3. leaf \in epochLeaves[a][e] /\ leaf.kind = "AckV1"
  BY <1>2, CommittedLeaf, RootListed
<1> DEFINE id == leaf.proposal_id
           p == proposalsById[d][id]
           r == activationRecords[d][id]
           r1 == note_known_ack_domain(r, leaf.acknowledging_domain)
<1>4. /\ id \in ProposalId
      /\ leaf = AckLeaf(id, proposalsById[a][id], leaf.target_domain, a, e)
  BY <1>3, AckLeafSource
<1>5. /\ Types
      /\ EntryOK(d, id)
      /\ leaf.target_domain = d
      /\ p # Missing
      /\ Facts(p) = leaf.facts
      /\ UNCHANGED <<epochLeaves, currentEpoch, governanceRoot, nextProposalSequence>>
  BY <1>1, <1>4 DEF IInv, EntryOK, import_verified_governance_ack, voteVars, epochVars
<1>6. leaf.acknowledging_domain = a /\ leaf = AckLeaf(id, p, d, a, e)
  BY <1>4, <1>5 DEF AckLeaf
<1>7. ~ (d # id[1] /\ Status(d, id) \notin Approved)
  BY <1>5 DEF EntryOK, ProposalOK, Knows
<1>8. CASE r = Missing
  <2>1. UNCHANGED <<proposalsById, activationRecords>>
    BY <1>1, <1>8 DEF import_verified_governance_ack
  <2>2. Types'
    BY <1>5, <2>1 DEF Types
  <2>3. Kept
    BY <1>5, <2>1, UntouchedKept
  <2>4. EntryOK(d, id)'
    BY <1>4, <1>5, <2>1, <2>2, <2>3, EntryKept
  <2>5. OthersKept(d, id) /\ NewLeavesOK
    BY <1>5, <2>1 DEF OthersKept, NewLeavesOK
  <2> QED
    BY <1>4, <1>5, <1>7, <2>2, <2>3, <2>4, <2>5, EntryIInv
<1>9. CASE r # Missing
  <2>1. maybe_schedule_activation(d, id, p, r1)
    BY <1>1, <1>9, Zenon DEF import_verified_governance_ack
  <2>2. /\ IsRecord(r)
        /\ p.status \in Approved
        /\ \A t \in r.known_ack_domains : t # d => \E k \in Epoch :
               AckLeaf(id, p, d, t, k) \in governanceRoot[t][k]
    BY <1>5, <1>9 DEF EntryOK, RecordOK, Status
  <2>3. IsRecord(r1) /\ r1.known_ack_domains = r.known_ack_domains \cup {a}
    BY <1>6, <2>2 DEF IsRecord, note_known_ack_domain
  <2>4. IsProposal(p) /\ p.source_domain = id[1]
    BY <1>5 DEF EntryOK, ProposalOK, Knows
  <2> HIDE DEF p, r1
  <2>5. PICK q, x :
            /\ Stored(p, r1, q, x)
            /\ proposalsById' = [proposalsById EXCEPT ![d][id] = q]
            /\ activationRecords' = [activationRecords EXCEPT ![d][id] = x]
    BY <1>4, <2>1, <2>2, <2>3, <2>4, ScheduleStores
  <2> USE DEF p
  <2>6. /\ IsProposal(q)
        /\ IsRecord(x)
        /\ Same(p, q)
        /\ q.status \in Approved
        /\ q.source_domain = id[1]
        /\ q.target_domains = p.target_domains
        /\ x.known_ack_domains = r.known_ack_domains \cup {a}
        /\ q = p \/ q.target_domains \subseteq x.known_ack_domains
    BY <2>3, <2>4, <2>5, SameLeaves DEF Stored
  <2>7. /\ DOMAIN proposalsById' = Domain
        /\ \A y \in Domain : DOMAIN proposalsById'[y] = ProposalId
        /\ proposalsById'[d][id] = q
        /\ \A y \in Domain, i \in ProposalId :
              y # d \/ i # id => proposalsById'[y][i] = proposalsById[y][i]
    BY <1>4, <1>5, <2>5, EntryWritten DEF Types
  <2>8. /\ DOMAIN activationRecords' = Domain
        /\ \A y \in Domain : DOMAIN activationRecords'[y] = ProposalId
        /\ activationRecords'[d][id] = x
        /\ \A y \in Domain, i \in ProposalId :
              y # d \/ i # id => activationRecords'[y][i] = activationRecords[y][i]
    BY <1>4, <1>5, <2>5, EntryWritten DEF Types
  <2>9. Types'
    BY <1>5, <2>7, <2>8 DEF Types
  <2>10. Kept
    <3>1. ASSUME NEW y \in Domain, NEW i \in ProposalId, Status(y, i) \in Approved
          PROVE  /\ Same(proposalsById[y][i], proposalsById'[y][i])
                 /\ proposalsById'[y][i].status \in Approved
      <4>1. CASE y = d /\ i = id
        BY <2>6, <2>7, <4>1
      <4>2. CASE y # d \/ i # id
        BY <2>7, <3>1, <4>2 DEF Same, Status
      <4> QED
        BY <4>1, <4>2
    <3>2. \A y \in Domain : nextProposalSequence'[y] >= nextProposalSequence[y]
      BY <1>5, SequencesKept
    <3> QED
      BY <1>5, <3>1, <3>2 DEF Kept
  <2>11. EntryOK(d, id)'
    <3>1. IsProposal(proposalsById[d][id])' /\ IsRecord(activationRecords[d][id])'
      BY <2>6, <2>7, <2>8 DEF IsProposal, IsRecord
    <3>2. x # Missing
      BY <2>6, RecordPresent
    <3>3. ProposalOK(d, id)'
      BY <1>5, <2>6, <2>7, <3>1 DEF EntryOK, ProposalOK, Knows, Status
    <3>4. ASSUME NEW t \in x.known_ack_domains, t # d
          PROVE  \E k \in Epoch : AckLeaf(id, q, d, t, k) \in governanceRoot'[t][k]
      <4>1. t \in Domain
        BY <2>6 DEF IsRecord
      <4>2. PICK k \in Epoch : AckLeaf(id, p, d, t, k) \in governanceRoot[t][k]
        <5>1. CASE t = a
          BY <1>2, <1>6, <5>1
        <5>2. CASE t # a
          <6>1. t \in r.known_ack_domains
            BY <2>6, <5>2
          <6> QED
            BY <2>2, <3>4, <6>1
        <5> QED
          BY <5>1, <5>2
      <4> QED
        BY <1>4, <2>2, <2>7, <2>10, <4>1, <4>2, AckKept DEF Status
    <3>5. RecordOK(d, id)'
      BY <2>6, <2>7, <2>8, <3>1, <3>4 DEF RecordOK, Status
    <3>6. ScheduleOK(d, id)'
      <4>1. q.status \in {"Scheduled", "Activated"} => q.target_domains \subseteq x.known_ack_domains
        BY <1>5, <2>6 DEF EntryOK, ScheduleOK, Status
      <4> QED
        BY <2>7, <2>8, <3>2, <4>1 DEF ScheduleOK, Status
    <3> QED
      BY <3>3, <3>5, <3>6 DEF EntryOK
  <2>12. OthersKept(d, id) /\ NewLeavesOK
    BY <1>5, <2>7, <2>8 DEF OthersKept, NewLeavesOK
  <2> QED
    BY <1>4, <1>5, <1>7, <2>9, <2>10, <2>11, <2>12, EntryIInv
<1> QED
  BY <1>8, <1>9

-----------------------------------------------------------------------------
(* Blocks *)

\* The step activates proposal i on domain d.
Activates(d, i) ==
    /\ proposalsById[d][i].status = "Scheduled"
    /\ proposalsById'[d][i] = [proposalsById[d][i] EXCEPT !.status = "Activated"]
    /\ \E e : activationRecords'[d][i] =
                 [activationRecords[d][i] EXCEPT !.activated_at_epoch = e]

\* on_initialize activates scheduled proposals of its domain, takes the version
\* of one of them, and writes nothing else of the proposals.
LEMMA BlockWrites ==
  ASSUME Types, NEW d \in Domain, NEW e, on_initialize(d, e)
  PROVE  /\ DOMAIN proposalsById' = Domain
         /\ DOMAIN activationRecords' = Domain
         /\ \A y \in Domain : /\ DOMAIN proposalsById'[y] = ProposalId
                             /\ DOMAIN activationRecords'[y] = ProposalId
         /\ \A y \in Domain, i \in ProposalId :
               \/ /\ proposalsById'[y][i] = proposalsById[y][i]
                  /\ activationRecords'[y][i] = activationRecords[y][i]
               \/ y = d /\ Activates(d, i)
         /\ \/ protocolVersion' = protocolVersion
            \/ \E i \in ProposalId :
                  /\ Activates(d, i)
                  /\ protocolVersion' = [protocolVersion EXCEPT
                         ![d] = proposalsById[d][i].new_protocol_version]
<1> DEFINE queue == scheduledByEpoch[d][e] \o readyActivationIds[d]
<1>1. PICK activated : activated =
          {i \in ProposalId : i \in Range(queue) /\ CanActivate(d, i, e)}
  BY Zenon
<1>2. /\ proposalsById' = [proposalsById EXCEPT ![d] =
             [i \in ProposalId |->
                 IF i \in activated THEN [@[i] EXCEPT !.status = "Activated"] ELSE @[i]]]
      /\ activationRecords' = [activationRecords EXCEPT ![d] =
             [i \in ProposalId |->
                 IF i \in activated THEN [@[i] EXCEPT !.activated_at_epoch = e] ELSE @[i]]]
  BY <1>1, Zenon DEF on_initialize
<1>3. \/ protocolVersion' = protocolVersion
      \/ \E k \in DOMAIN queue :
            /\ queue[k] \in activated
            /\ protocolVersion' = [protocolVersion EXCEPT
                   ![d] = proposalsById[d][queue[k]].new_protocol_version]
  BY <1>1, Zenon DEF on_initialize
<1>4. \A i \in activated : i \in ProposalId /\ proposalsById[d][i].status = "Scheduled"
  BY <1>1 DEF CanActivate
<1> HIDE DEF queue
<1>5. /\ DOMAIN proposalsById' = Domain
      /\ \A y \in Domain : DOMAIN proposalsById'[y] = ProposalId
      /\ \A y \in Domain : y # d => proposalsById'[y] = proposalsById[y]
      /\ \A i \in ProposalId : proposalsById'[d][i] =
             IF i \in activated THEN [proposalsById[d][i] EXCEPT !.status = "Activated"]
                               ELSE proposalsById[d][i]
  BY <1>2 DEF Types
<1>6. /\ DOMAIN activationRecords' = Domain
      /\ \A y \in Domain : DOMAIN activationRecords'[y] = ProposalId
      /\ \A y \in Domain : y # d => activationRecords'[y] = activationRecords[y]
      /\ \A i \in ProposalId : activationRecords'[d][i] =
             IF i \in activated THEN [activationRecords[d][i] EXCEPT !.activated_at_epoch = e]
                               ELSE activationRecords[d][i]
  BY <1>2 DEF Types
<1>7. \A i \in activated : Activates(d, i)
  BY <1>4, <1>5, <1>6, Zenon DEF Activates
<1> QED
  BY <1>3, <1>4, <1>5, <1>6, <1>7, Zenon

\* The invariant survives a block, whether or not it closes an epoch.
LEMMA ActivationIInv ==
  ASSUME IInv, Types', NEW d \in Domain, NEW e, on_initialize(d, e),
         UNCHANGED <<epochLeaves, nextProposalSequence>>,
         \A s \in Domain, k \in Epoch :
             /\ governanceRoot[s][k] \subseteq governanceRoot'[s][k]
             /\ governanceRoot'[s][k] \subseteq epochLeaves[s][k]
  PROVE  IInv'
<1>1. \A y \in Domain, i \in ProposalId :
          \/ /\ proposalsById'[y][i] = proposalsById[y][i]
             /\ activationRecords'[y][i] = activationRecords[y][i]
          \/ y = d /\ Activates(d, i)
  BY BlockWrites DEF IInv
<1>2. ASSUME NEW i \in ProposalId, Activates(d, i)
      PROVE  /\ EntryOK(d, i)
             /\ Status(d, i) \in Approved
             /\ activationRecords[d][i] # Missing
             /\ IsProposal(proposalsById[d][i])
             /\ IsRecord(activationRecords[d][i])
             /\ proposalsById[d][i].target_domains
                   \subseteq activationRecords[d][i].known_ack_domains
  <2>1. EntryOK(d, i) /\ proposalsById[d][i].status = "Scheduled"
    BY <1>2 DEF IInv, EntryOK, Activates
  <2>2. Knows(d, i)
    BY <2>1, SMTT(30) DEF Knows, Missing
  <2> QED
    BY <2>1, <2>2, Zenon DEF EntryOK, ProposalOK, RecordOK, ScheduleOK, Status, Approved
<1>3. ASSUME NEW i \in ProposalId, Activates(d, i)
      PROVE  /\ Same(proposalsById[d][i], proposalsById'[d][i])
             /\ proposalsById'[d][i].status = "Activated"
             /\ IsProposal(proposalsById'[d][i])
             /\ IsRecord(activationRecords'[d][i])
             /\ activationRecords'[d][i].known_ack_domains
                   = activationRecords[d][i].known_ack_domains
  <2> DEFINE p == proposalsById[d][i]
             q == [p EXCEPT !.status = "Activated"]
             r == activationRecords[d][i]
  <2>1. PICK k : activationRecords'[d][i] = [r EXCEPT !.activated_at_epoch = k]
    BY <1>3, Zenon DEF Activates
  <2>2. proposalsById'[d][i] = q
    BY <1>3 DEF Activates
  <2>3. IsProposal(p) /\ IsRecord(r) /\ p.status \in Approved
    BY <1>2, <1>3 DEF Status
  <2>4. Same(p, q)
    BY <2>3 DEF Same, Facts, IsProposal
  <2>5. IsProposal(q) /\ q.status = "Activated"
    BY <2>3 DEF IsProposal, Approved
  <2>6. /\ IsRecord([r EXCEPT !.activated_at_epoch = k])
        /\ [r EXCEPT !.activated_at_epoch = k].known_ack_domains = r.known_ack_domains
    BY <2>3 DEF IsRecord
  <2> QED
    BY <2>1, <2>2, <2>4, <2>5, <2>6
<1>4. Kept
  <2>1. ASSUME NEW y \in Domain, NEW i \in ProposalId, Status(y, i) \in Approved
        PROVE  /\ Same(proposalsById[y][i], proposalsById'[y][i])
               /\ proposalsById'[y][i].status \in Approved
    <3>1. CASE y = d /\ Activates(d, i)
      BY <1>3, <3>1 DEF Approved
    <3>2. CASE proposalsById'[y][i] = proposalsById[y][i]
      BY <2>1, <3>2 DEF Same, Status
    <3> QED
      BY <1>1, <3>1, <3>2
  <2>2. \A y \in Domain : nextProposalSequence'[y] >= nextProposalSequence[y]
    <3>1. Types
      BY DEF IInv
    <3> QED
      BY <3>1, SequencesKept
  <2> QED
    BY <2>1, <2>2 DEF Kept
<1>5. ASSUME NEW y \in Domain, NEW i \in ProposalId
      PROVE  EntryOK(y, i)'
  <2>1. CASE /\ proposalsById'[y][i] = proposalsById[y][i]
             /\ activationRecords'[y][i] = activationRecords[y][i]
    BY <1>4, <2>1, EntryKept, Zenon DEF IInv, EntryOK
  <2>2. CASE y = d /\ Activates(d, i)
    <3>1. IsProposal(proposalsById[d][i])' /\ IsRecord(activationRecords[d][i])'
      BY <1>3, <2>2 DEF IsProposal, IsRecord
    <3>2. Knows(d, i) /\ proposalsById'[d][i].source_domain = proposalsById[d][i].source_domain
      <4>1. Same(proposalsById[d][i], proposalsById'[d][i])
        BY <1>3, <2>2
      <4>2. proposalsById[d][i].status # "Missing"
        BY <1>2, <2>2 DEF Status, Approved
      <4>3. Knows(d, i)
        BY <4>2 DEF Knows, Missing
      <4> QED
        BY <4>1, <4>3, SameLeaves
    <3>3. ProposalOK(d, i)'
      BY <1>2, <1>3, <2>2, <3>1, <3>2, Zenon DEF EntryOK, ProposalOK, Status, Approved
    <3>4. ASSUME NEW t \in activationRecords[d][i].known_ack_domains, t # d
          PROVE  \E k \in Epoch :
                     AckLeaf(i, proposalsById'[d][i], d, t, k) \in governanceRoot'[t][k]
      <4>1. t \in Domain
        BY <1>2, <2>2 DEF IsRecord
      <4>2. PICK k \in Epoch : AckLeaf(i, proposalsById[d][i], d, t, k) \in governanceRoot[t][k]
        BY <1>2, <2>2, <3>4, Zenon DEF EntryOK, RecordOK
      <4> QED
        BY <1>2, <1>4, <2>2, <4>1, <4>2, AckKept, Zenon
    <3>5. RecordOK(d, i)'
      BY <1>3, <2>2, <3>1, <3>4 DEF RecordOK, Status, Approved
    <3>6. ScheduleOK(d, i)'
      <4>1. activationRecords'[d][i] # Missing
        BY <1>3, <2>2 DEF IsRecord, Missing
      <4>2. proposalsById'[d][i].target_domains = proposalsById[d][i].target_domains
        BY <1>3, <2>2, SameLeaves
      <4> QED
        BY <1>2, <1>3, <2>2, <4>1, <4>2 DEF ScheduleOK
    <3> QED
      BY <2>2, <3>3, <3>5, <3>6 DEF EntryOK
  <2> QED
    BY <1>1, <2>1, <2>2
<1>6. ASSUME NEW y \in Domain, NEW i \in ProposalId,
             proposalsById'[y][i] # Missing, y # i[1], Status(y, i) \notin Approved
      PROVE  Imported(y, i)'
  <2>1. proposalsById'[y][i] = proposalsById[y][i]
    BY <1>1, <1>2, <1>6
  <2> QED
    BY <1>6, <2>1 DEF IInv, ProposalOK, Knows
<1> QED
  BY <1>4, <1>5, <1>6, StepIInv

\* A block inside an epoch keeps the invariant.
LEMMA BlockIInv ==
  ASSUME IInv, NEW d \in Domain, Block(d)
  PROVE  IInv'
<1>1. /\ on_initialize(d, currentEpoch[d])
      /\ UNCHANGED <<epochLeaves, nextProposalSequence, currentEpoch, governanceRoot>>
  BY DEF Block, voteVars, epochVars
<1>2. Types'
  BY <1>1, BlockWrites, Zenon DEF IInv, Types
<1> QED
  BY <1>1, <1>2, ActivationIInv, Zenon DEF IInv

\* The first block of an epoch commits what the closed epoch lists.
LEMMA FirstBlockIInv ==
  ASSUME IInv, NEW d \in Domain, FirstBlock(d)
  PROVE  IInv'
<1>1. /\ on_initialize(d, currentEpoch[d] + 1)
      /\ currentEpoch[d] < MaxEpoch
      /\ currentEpoch' = [currentEpoch EXCEPT ![d] = @ + 1]
      /\ governanceRoot' = [governanceRoot EXCEPT
             ![d][currentEpoch[d]] = epochLeaves[d][currentEpoch[d]]]
      /\ UNCHANGED <<epochLeaves, nextProposalSequence>>
  BY DEF FirstBlock, voteVars, commit_epoch_governance, canonical_epoch_governance_leaves
<1>2. Types /\ currentEpoch[d] \in Epoch
  BY DEF IInv, Types
<1>3. currentEpoch' \in [Domain -> Epoch]
  BY <1>1, <1>2, GovernanceAssumption DEF Types, Epoch
<1>4. /\ DOMAIN governanceRoot' = Domain
      /\ \A s \in Domain : DOMAIN governanceRoot'[s] = Epoch
      /\ \A s \in Domain, k \in Epoch :
            governanceRoot'[s][k] = IF s = d /\ k = currentEpoch[d]
                                    THEN epochLeaves[s][k] ELSE governanceRoot[s][k]
  BY <1>1, <1>2 DEF Types
<1>5. Types'
  BY <1>1, <1>2, <1>3, <1>4, BlockWrites DEF Types
<1>6. \A s \in Domain, k \in Epoch : governanceRoot[s][k] \subseteq epochLeaves[s][k]
  BY Zenon DEF IInv
<1> QED
  BY <1>1, <1>4, <1>5, <1>6, ActivationIInv

\* Every step keeps the invariant.
LEMMA NextIInv == IInv /\ [Next]_vars => IInv'
<1> SUFFICES ASSUME IInv, [Next]_vars PROVE IInv'
  OBVIOUS
<1>1. CASE Next
  <2>1. PICK d \in Domain :
            \/ Propose(d) \/ Vote(d) \/ Close(d) \/ ImportProposal(d)
            \/ ImportAck(d) \/ Block(d) \/ FirstBlock(d)
    BY <1>1 DEF Next
  <2> QED
    BY <2>1, CreateIInv, VoteIInv, CloseIInv, ImportProposalIInv, ImportAckIInv,
       BlockIInv, FirstBlockIInv
<1>2. CASE UNCHANGED vars
  <2>1. UNCHANGED <<proposalsById, activationRecords, epochLeaves, currentEpoch,
                    governanceRoot, nextProposalSequence>>
    BY <1>2 DEF vars, voteVars, epochVars
  <2>2. Types' /\ Types
    BY <2>1 DEF IInv, Types
  <2>3. Kept
    BY <2>1, <2>2, UntouchedKept
  <2>4. \A d \in Domain, id \in ProposalId : EntryOK(d, id)'
    BY <2>1, <2>2, <2>3, EntryKept, Zenon DEF IInv, EntryOK
  <2>5. \A d \in Domain, id \in ProposalId :
            ~ (proposalsById'[d][id] # Missing /\ d # id[1] /\ Status(d, id) \notin Approved)
    BY <2>1 DEF IInv, ProposalOK, Knows
  <2>6. \A s \in Domain, e \in Epoch :
            /\ governanceRoot'[s][e] \subseteq epochLeaves'[s][e]
            /\ epochLeaves'[s][e] \ epochLeaves[s][e] = {}
    BY <2>1 DEF IInv
  <2> QED
    BY <2>2, <2>3, <2>4, <2>5, <2>6, StepIInv
<1> QED
  BY <1>1, <1>2

-----------------------------------------------------------------------------
(* Theorems *)

\* The inductive invariant holds in every state of the network.
THEOREM GovernanceInvariant == Spec => []IInv
<1>1. Init => IInv
  BY InitIInv
<1>2. IInv /\ [Next]_vars => IInv'
  BY NextIInv
<1> QED
  BY <1>1, <1>2, PTL DEF Spec

\* Whatever the transport delivers, late or repeatedly, a domain holds a
\* proposal of another (import_verified_governance_proposal) only if its source
\* approved it for this domain (close_proposal) and committed it.
THEOREM ImportedProposalsApproved == Spec => []ImportedWasApproved
<1>1. IInv => ImportedWasApproved
  BY DEF IInv
<1> QED
  BY <1>1, GovernanceInvariant, PTL

\* A domain schedules and activates (maybe_schedule_activation,
\* try_activate_proposal) only what every target has imported and acknowledged
\* to it, however far the domains' epochs are apart.
THEOREM ScheduledAcknowledged == Spec => []ScheduledByEveryTarget
<1>1. IInv => ScheduledByEveryTarget
  <2> SUFFICES ASSUME IInv, NEW d \in Domain, NEW id \in ProposalId,
                      Status(d, id) \in {"Scheduled", "Activated"},
                      NEW t \in proposalsById[d][id].target_domains
               PROVE  /\ Knows(t, id)
                      /\ t # d => \E e \in Epoch :
                            AckLeaf(id, proposalsById[d][id], d, t, e) \in governanceRoot[t][e]
    BY DEF ScheduledByEveryTarget
  <2>1. /\ activationRecords[d][id] # Missing
        /\ t \in activationRecords[d][id].known_ack_domains
        /\ RecordOK(d, id)
    BY DEF IInv, ScheduleOK
  <2>2. t \in Domain
    BY <2>1 DEF RecordOK, IsRecord
  <2>3. CASE t = d
    BY <2>3 DEF Status, Knows, Missing
  <2>4. CASE t # d
    <3>1. PICK e \in Epoch :
              AckLeaf(id, proposalsById[d][id], d, t, e) \in governanceRoot[t][e]
      BY <2>1, <2>4 DEF RecordOK
    <3> DEFINE leaf == AckLeaf(id, proposalsById[d][id], d, t, e)
    <3>2. leaf.kind = "AckV1" /\ leaf.proposal_id = id
      BY DEF AckLeaf
    <3>3. leaf \in epochLeaves[t][e]
      BY <2>2, <3>1 DEF IInv
    <3> HIDE DEF leaf
    <3>4. proposalsById[t][id].status \in Approved
      BY <2>2, <3>2, <3>3, AckLeafSource
    <3>5. Knows(t, id)
      BY <3>4 DEF Knows, Missing, Approved
    <3> QED
      BY <3>1, <3>5
  <2> QED
    BY <2>3, <2>4
<1> QED
  BY <1>1, GovernanceInvariant, PTL

-----------------------------------------------------------------------------
(* Activation happens once *)

\* maybe_schedule_activation writes p, or p scheduled if it was not yet.
LEMMA ScheduleWrites ==
  ASSUME NEW d, NEW id, NEW p, NEW r, maybe_schedule_activation(d, id, p, r)
  PROVE  \E q : /\ proposalsById' = [proposalsById EXCEPT ![d][id] = q]
                /\ \/ q = p
                   \/ /\ p.status = "LocallyFinalized"
                      /\ q = [p EXCEPT !.status = "Scheduled"]
<1>1. CASE ~ ReadyToSchedule(p, r)
  BY <1>1 DEF maybe_schedule_activation, NotScheduled
<1>2. CASE ReadyToSchedule(p, r)
  <2> DEFINE q == [p EXCEPT !.status = "Scheduled"]
  <2>1. proposalsById' = [proposalsById EXCEPT ![d][id] = q]
    BY <1>2 DEF maybe_schedule_activation, ScheduleInBucket
  <2>2. p.status = "LocallyFinalized"
    BY <1>2 DEF ReadyToSchedule
  <2> QED
    BY <2>1, <2>2, Zenon
<1> QED
  BY <1>1, <1>2

\* Actions other than blocks leave the version and the activated proposals.
LEMMA CallsKeepActivated ==
  ASSUME IInv, NEW d \in Domain,
         Propose(d) \/ Vote(d) \/ Close(d) \/ ImportProposal(d) \/ ImportAck(d)
  PROVE  /\ protocolVersion' = protocolVersion
         /\ \A y \in Domain, i \in ProposalId :
               Status(y, i) = "Activated" => proposalsById'[y][i] = proposalsById[y][i]
<1> DEFINE Goal == /\ protocolVersion' = protocolVersion
                   /\ \A y \in Domain, i \in ProposalId :
                         Status(y, i) = "Activated" =>
                             proposalsById'[y][i] = proposalsById[y][i]
<1>1. ASSUME NEW id \in ProposalId, NEW q, protocolVersion' = protocolVersion,
             proposalsById' = [proposalsById EXCEPT ![d][id] = q],
             Status(d, id) # "Activated" \/ q = proposalsById[d][id]
      PROVE  Goal
  <2>1. /\ proposalsById'[d][id] = q
        /\ \A y \in Domain, i \in ProposalId :
              y # d \/ i # id => proposalsById'[y][i] = proposalsById[y][i]
    BY <1>1, EntryWritten DEF IInv, Types
  <2> QED
    BY <1>1, <2>1
<1> HIDE DEF Goal
<1>2. CASE Propose(d)
  <2>1. PICK targets \in SUBSET Domain, version \in Version, power \in Snapshots :
            create_proposal(d, targets, version, power)
    BY <1>2 DEF Propose
  <2>2. PICK id : id = <<d, nextProposalSequence[d]>>
    BY Zenon
  <2>3. PICK q : /\ protocolVersion' = protocolVersion
                 /\ proposalsById' = [proposalsById EXCEPT ![d][id] = q]
    BY <2>1, <2>2, Zenon DEF create_proposal, governance_proposal_id
  <2>4. nextProposalSequence[d] < MaxProposal[d] /\ nextProposalSequence[d] \in Nat
    BY <2>1 DEF create_proposal, IInv, Types
  <2>5. id \in ProposalId /\ id[1] = d /\ id[2] = nextProposalSequence[d]
    BY <2>2, <2>4, ProposalIdFacts
  <2>6. ~ Knows(d, id)
    <3>1. ProposalOK(d, id)
      BY <2>5, EntryGood DEF EntryOK
    <3>2. ~ id[2] < nextProposalSequence[d]
      BY <2>4, <2>5
    <3> QED
      BY <2>5, <3>1, <3>2 DEF ProposalOK
  <2>7. Status(d, id) # "Activated"
    BY <2>6 DEF Knows, Status, Missing
  <2> QED
    BY <1>1, <2>3, <2>5, <2>7
<1>3. CASE Vote(d)
  <2>1. PICK id \in ProposalId, voter \in Voter, choice \in Choice :
            cast_vote(d, id, voter, choice)
    BY <1>3 DEF Vote
  <2>2. /\ Status(d, id) # "Activated"
        /\ protocolVersion' = protocolVersion
        /\ proposalsById' = [proposalsById EXCEPT ![d][id] =
               [proposalsById[d][id] EXCEPT ![choice] = @ + votingPower[id][voter]]]
    BY <2>1 DEF cast_vote, Status
  <2> QED
    BY <1>1, <2>2
<1>4. CASE Close(d)
  <2>1. PICK id \in ProposalId : close_proposal(d, id)
    BY <1>4 DEF Close
  <2> DEFINE approved == ApprovedIn(proposalsById[d][id], currentEpoch[d], ActivationDelay)
             rejected == [proposalsById[d][id] EXCEPT !.status = "Rejected"]
  <2>2. /\ Status(d, id) # "Activated"
        /\ protocolVersion' = protocolVersion
        /\ \/ proposalsById' = [proposalsById EXCEPT ![d][id] = approved]
           \/ proposalsById' = [proposalsById EXCEPT ![d][id] = rejected]
    BY <2>1 DEF close_proposal, Status
  <2> HIDE DEF approved, rejected
  <2>3. CASE proposalsById' = [proposalsById EXCEPT ![d][id] = approved]
    BY <1>1, <2>2, <2>3 DEF Goal
  <2>4. CASE proposalsById' = [proposalsById EXCEPT ![d][id] = rejected]
    BY <1>1, <2>2, <2>4 DEF Goal
  <2> QED
    BY <2>2, <2>3, <2>4
<1>5. CASE ImportProposal(d)
  <2>1. PICK leaf \in Leaves("ProposalV1") : import_verified_governance_proposal(d, leaf)
    BY <1>5 DEF ImportProposal
  <2>2. PICK s \in Domain, e \in Epoch : leaf \in governanceRoot[s][e]
    BY CommittedLeaf
  <2>3. leaf \in epochLeaves[s][e] /\ leaf.kind = "ProposalV1"
    BY <2>2, CommittedLeaf, RootListed
  <2>4. leaf.proposal_id \in ProposalId
    BY <2>3, ProposalLeafSource
  <2>5. /\ proposalsById[d][leaf.proposal_id] = Missing
        /\ protocolVersion' = protocolVersion
        /\ \E q : proposalsById' = [proposalsById EXCEPT ![d][leaf.proposal_id] = q]
    <3>1. /\ proposalsById[d][leaf.proposal_id] = Missing
          /\ protocolVersion' = protocolVersion
          /\ maybe_schedule_activation(d, leaf.proposal_id, ImportedProposal(leaf),
                                       store_activation_record({d}))
      BY <2>1 DEF import_verified_governance_proposal
    <3> QED
      BY <3>1, ScheduleWrites
  <2>6. Status(d, leaf.proposal_id) # "Activated"
    BY <2>5 DEF Status, Missing
  <2> QED
    BY <1>1, <2>4, <2>5, <2>6
<1>6. CASE ImportAck(d)
  <2>1. PICK leaf \in Leaves("AckV1") : import_verified_governance_ack(d, leaf)
    BY <1>6 DEF ImportAck
  <2>2. PICK s \in Domain, e \in Epoch : leaf \in governanceRoot[s][e]
    BY CommittedLeaf
  <2>3. leaf \in epochLeaves[s][e] /\ leaf.kind = "AckV1"
    BY <2>2, CommittedLeaf, RootListed
  <2>4. leaf.proposal_id \in ProposalId
    BY <2>3, AckLeafSource
  <2>5. /\ protocolVersion' = protocolVersion
        /\ \/ proposalsById' = proposalsById
           \/ \E q :
                 /\ proposalsById' = [proposalsById EXCEPT ![d][leaf.proposal_id] = q]
                 /\ \/ q = proposalsById[d][leaf.proposal_id]
                    \/ Status(d, leaf.proposal_id) = "LocallyFinalized"
    <3>1. /\ protocolVersion' = protocolVersion
          /\ \/ proposalsById' = proposalsById
             \/ maybe_schedule_activation(d, leaf.proposal_id, proposalsById[d][leaf.proposal_id],
                    note_known_ack_domain(activationRecords[d][leaf.proposal_id],
                                          leaf.acknowledging_domain))
      BY <2>1, Zenon DEF import_verified_governance_ack
    <3> QED
      BY <3>1, ScheduleWrites DEF Status
  <2>6. CASE proposalsById' = proposalsById
    BY <2>5, <2>6
  <2>7. CASE proposalsById' # proposalsById
    <3>1. PICK q :
              /\ proposalsById' = [proposalsById EXCEPT ![d][leaf.proposal_id] = q]
              /\ \/ q = proposalsById[d][leaf.proposal_id]
                 \/ Status(d, leaf.proposal_id) = "LocallyFinalized"
      BY <2>5, <2>7
    <3>2. Status(d, leaf.proposal_id) # "Activated" \/ q = proposalsById[d][leaf.proposal_id]
      BY <3>1
    <3> QED
      BY <1>1, <2>4, <2>5, <3>1, <3>2 DEF Goal
  <2> QED
    BY <2>6, <2>7
<1> QED
  BY <1>2, <1>3, <1>4, <1>5, <1>6 DEF Goal

Versions == DOMAIN protocolVersion = Domain

\* Every step is a step that activates at most once, and every domain keeps a
\* version.
LEMMA NextActivation ==
  ASSUME IInv, Versions, [Next]_vars
  PROVE  Versions' /\ \A y \in Domain : ActivationStep(y)
<1>1. CASE Next
  <2>1. PICK d \in Domain :
            \/ Propose(d) \/ Vote(d) \/ Close(d) \/ ImportProposal(d)
            \/ ImportAck(d) \/ Block(d) \/ FirstBlock(d)
    BY <1>1 DEF Next
  <2>2. CASE Propose(d) \/ Vote(d) \/ Close(d) \/ ImportProposal(d) \/ ImportAck(d)
    BY <2>2, CallsKeepActivated DEF ActivationStep, Versions
  <2>3. CASE Block(d) \/ FirstBlock(d)
    <3>1. PICK e : on_initialize(d, e)
      BY <2>3 DEF Block, FirstBlock
    <3>2. /\ \A y \in Domain, i \in ProposalId :
                \/ proposalsById'[y][i] = proposalsById[y][i]
                \/ y = d /\ Activates(d, i)
          /\ \/ protocolVersion' = protocolVersion
             \/ \E i \in ProposalId :
                   /\ Activates(d, i)
                   /\ protocolVersion' = [protocolVersion EXCEPT
                          ![d] = proposalsById[d][i].new_protocol_version]
      BY <3>1, BlockWrites, Zenon DEF IInv
    <3>3. \A y \in Domain, i \in ProposalId :
              Status(y, i) = "Activated" => proposalsById'[y][i] = proposalsById[y][i]
      BY <3>2, Zenon DEF Activates, Status
    <3>4. CASE protocolVersion' = protocolVersion
      BY <3>3, <3>4 DEF ActivationStep, Versions
    <3>5. CASE \E i \in ProposalId :
                   /\ Activates(d, i)
                   /\ protocolVersion' = [protocolVersion EXCEPT
                          ![d] = proposalsById[d][i].new_protocol_version]
      <4>1. PICK i \in ProposalId :
                /\ Activates(d, i)
                /\ protocolVersion' = [protocolVersion EXCEPT
                       ![d] = proposalsById[d][i].new_protocol_version]
        BY <3>5, Zenon
      <4>2. /\ Versions'
            /\ protocolVersion'[d] = proposalsById[d][i].new_protocol_version
            /\ \A y \in Domain : y # d => protocolVersion'[y] = protocolVersion[y]
        BY <4>1 DEF Versions
      <4>3. Status(d, i) = "Scheduled" /\ Status(d, i)' = "Activated"
        <5>1. Knows(d, i) /\ ProposalOK(d, i)
          BY <4>1 DEF Activates, IInv, Knows, Missing
        <5> QED
          BY <4>1, <5>1 DEF Activates, Status, ProposalOK, IsProposal
      <4> QED
        BY <3>3, <4>2, <4>3 DEF ActivationStep
    <3> QED
      BY <3>2, <3>4, <3>5
  <2> QED
    BY <2>1, <2>2, <2>3
<1>2. CASE UNCHANGED vars
  BY <1>2 DEF vars, ActivationStep, Versions
<1> QED
  BY <1>1, <1>2

\* A domain's version changes only by activating a scheduled proposal for that
\* version (try_activate_proposal), and an activated proposal is never touched
\* again, whatever is replayed.
THEOREM ActivationIsOnce == Spec => ActivatedOnce
<1>1. Init => Versions
  BY DEF Init, Versions
<1>2. IInv /\ Versions /\ [Next]_vars => Versions'
  BY NextActivation
<1>3. IInv /\ Versions /\ [Next]_vars => [\A d \in Domain : ActivationStep(d)]_vars
  BY NextActivation
<1> QED
  BY <1>1, <1>2, <1>3, GovernanceInvariant, PTL DEF Spec, ActivatedOnce

-----------------------------------------------------------------------------
\* The instance checked for liveness is one of the behaviours proved about.
LEMMA LiveIsSpec == LiveSpec => Spec
<1>1. [LiveNext]_vars => [Next]_vars
  BY DEF LiveNext, Next, UsefulFirstBlock
<1> QED
  BY <1>1, PTL DEF LiveSpec, Spec
=============================================================================

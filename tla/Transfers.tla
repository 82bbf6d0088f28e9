----------------------------- MODULE Transfers -----------------------------
(***************************************************************************)
(* pallet-transfers on every domain of the network, and the part of the    *)
(* epoch close that commits its state.                                     *)
(*                                                                         *)
(* A cross-domain transfer holds the amount on the source chain, is        *)
(* committed by the source's epoch summary, is observed and then minted on *)
(* the target chain, is committed as a finalized import by the target's    *)
(* epoch summary, and finally has its hold burned on the source chain.     *)
(*                                                                         *)
(* Everything between two chains (certification, exporter, relay, importer)*)
(* is over-approximated here: a claim drawn from any closed epoch of any   *)
(* domain may be submitted to any domain, at any later time, any number of *)
(* times and in any order.  A dispatch that returns an error changes no    *)
(* state, so the actions model the successful calls only.                  *)
(*                                                                         *)
(* A Merkle root is modelled by the set of leaves it commits to.           *)
(***************************************************************************)
EXTENDS Integers, Collections

CONSTANTS
    Domain,             \* the domains (chains)
    Account,            \* account ids, meaningful on every chain
    Amount,             \* the amounts a transfer may carry
    InitialFree,        \* genesis balances, per domain and account
    ExistentialDeposit, \* minimum free balance of a live account
    MaxSequence,        \* bound on the exports each domain creates
    MaxEpoch            \* bound on the epochs per domain

ASSUME ConstantsAssumption ==
    /\ IsFiniteSet(Domain)
    /\ IsFiniteSet(Account)
    /\ Amount \subseteq Nat
    /\ InitialFree \in [Domain -> [Account -> Nat]]
    /\ ExistentialDeposit \in Nat
    /\ MaxSequence \in [Domain -> Nat]
    /\ MaxEpoch \in Nat

VARIABLES
    nextExportSequence,      \* NextExportSequence
    exportsById,             \* ExportsById
    epochExportIds,          \* EpochExportIds
    observedImportsById,     \* ObservedImportsById
    epochFinalizedImportIds, \* EpochFinalizedImportIds
    free, held,              \* pallet-balances: free and held balances
    currentEpoch,            \* pallet-epochs: CurrentEpoch
    exportRoot, importRoot   \* the roots in pallet-epochs' SummaryHeaders

exportVars == <<nextExportSequence, exportsById, epochExportIds>>
importVars == <<observedImportsById, epochFinalizedImportIds>>
balanceVars == <<free, held>>
epochVars == <<currentEpoch, exportRoot, importRoot>>
vars == <<exportVars, importVars, balanceVars, epochVars>>

-----------------------------------------------------------------------------
(* Data *)

Epoch == 0 .. MaxEpoch

\* export_id hashes the pair without collisions.
ExportId == UNION {{<<d, n>> : n \in 0 .. MaxSequence[d] - 1} : d \in Domain}

export_id(source, sequence) == <<source, sequence>>

\* Block height and extrinsic index only order the leaves under the root.
ExportLeaf ==
    [export_id : ExportId, source_domain : Domain, target_domain : Domain,
     sender : Account, recipient : Account, amount : Amount,
     source_epoch_id : Epoch]

\* The facts shared by ObservedImportClaim, FinalizedImportLeaf and
\* RemoteFinalizationClaim.
Claim ==
    [export_id : ExportId, source_domain : Domain, target_domain : Domain,
     recipient : Account, amount : Amount, source_epoch_id : Epoch]

ClaimOf(leaf) ==
    [export_id |-> leaf.export_id,
     source_domain |-> leaf.source_domain,
     target_domain |-> leaf.target_domain,
     recipient |-> leaf.recipient,
     amount |-> leaf.amount,
     source_epoch_id |-> leaf.source_epoch_id]

Missing == [status |-> "Missing"]

ExportStatus == {"LocalFinal", "Exported", "RemoteFinalized"}
ExportRecord == [leaf : ExportLeaf, status : ExportStatus]

ImportObservationStatus == {"RemoteObserved", "RemoteFinalized"}
ObservedImportRecord == [claim : Claim, status : ImportObservationStatus]

-----------------------------------------------------------------------------
(* pallet-balances, as the transfers pallet uses it *)

can_hold(d, who, amount) == free[d][who] - amount >= ExistentialDeposit

can_mint(d, who, amount) == free[d][who] + amount >= ExistentialDeposit

hold(d, who, amount) ==
    /\ can_hold(d, who, amount)
    /\ free' = [free EXCEPT ![d][who] = @ - amount]
    /\ held' = [held EXCEPT ![d][who] = @ + amount]

mint_into(d, who, amount) ==
    /\ can_mint(d, who, amount)
    /\ free' = [free EXCEPT ![d][who] = @ + amount]
    /\ UNCHANGED held

burn_held(d, who, amount) ==
    /\ held[d][who] >= amount
    /\ held' = [held EXCEPT ![d][who] = @ - amount]
    /\ UNCHANGED free

-----------------------------------------------------------------------------
(* Dispatchables *)

create_cross_domain_transfer(d, who, target, recipient, amount) ==
    LET id == export_id(d, nextExportSequence[d])
        leaf == [export_id |-> id, source_domain |-> d,
                 target_domain |-> target, sender |-> who,
                 recipient |-> recipient, amount |-> amount,
                 source_epoch_id |-> currentEpoch[d]]
    IN  /\ nextExportSequence[d] < MaxSequence[d]
        /\ amount > 0
        /\ target # d
        /\ hold(d, who, amount)
        /\ nextExportSequence' = [nextExportSequence EXCEPT ![d] = @ + 1]
        /\ exportsById' = [exportsById EXCEPT
               ![d][id] = [leaf |-> leaf, status |-> "LocalFinal"]]
        /\ epochExportIds' = [epochExportIds EXCEPT
               ![d][currentEpoch[d]] = @ \cup {id}]
        /\ UNCHANGED <<importVars, epochVars>>

\* Mutant: the claim's target domain is not compared with the local one.
observe_AnyTarget(d, claim) ==
    /\ observedImportsById[d][claim.export_id] = Missing
    /\ observedImportsById' = [observedImportsById EXCEPT
           ![d][claim.export_id] = [claim |-> claim, status |-> "RemoteObserved"]]
    /\ UNCHANGED <<exportVars, epochFinalizedImportIds, balanceVars, epochVars>>

observe_verified_import(d, claim) ==
    /\ claim.target_domain = d
    /\ observedImportsById[d][claim.export_id] = Missing
    /\ observedImportsById' = [observedImportsById EXCEPT
           ![d][claim.export_id] = [claim |-> claim, status |-> "RemoteObserved"]]
    /\ UNCHANGED <<exportVars, epochFinalizedImportIds, balanceVars, epochVars>>

FinalizeIn(d, id, epochs) ==
    LET claim == observedImportsById[d][id].claim
    IN  /\ mint_into(d, claim.recipient, claim.amount)
        /\ observedImportsById' = [observedImportsById EXCEPT
               ![d][id].status = "RemoteFinalized"]
        /\ epochFinalizedImportIds' = [epochFinalizedImportIds EXCEPT
               ![d] = [e \in Epoch |-> IF e \in epochs THEN @[e] \cup {id} ELSE @[e]]]
        /\ UNCHANGED <<exportVars, epochVars>>

\* Mutant: an import that is already finalized is minted again.
finalize_Again(d, id) ==
    /\ observedImportsById[d][id] # Missing
    /\ FinalizeIn(d, id, {currentEpoch[d]})

\* Mutant: the import is listed under the source's epoch, not the local one.
finalize_SourceEpoch(d, id) ==
    /\ observedImportsById[d][id].status = "RemoteObserved"
    /\ FinalizeIn(d, id, {observedImportsById[d][id].claim.source_epoch_id})

\* Mutant: the import is listed under no epoch.
finalize_Unlisted(d, id) ==
    /\ observedImportsById[d][id].status = "RemoteObserved"
    /\ FinalizeIn(d, id, {})

finalize_verified_import(d, id) ==
    LET record == observedImportsById[d][id]
    IN  /\ record # Missing
        /\ record.claim.target_domain = d
        /\ record.status = "RemoteObserved"
        /\ mint_into(d, record.claim.recipient, record.claim.amount)
        /\ observedImportsById' = [observedImportsById EXCEPT
               ![d][id].status = "RemoteFinalized"]
        /\ epochFinalizedImportIds' = [epochFinalizedImportIds EXCEPT
               ![d][currentEpoch[d]] = @ \cup {id}]
        /\ UNCHANGED <<exportVars, epochVars>>

\* Mutant: the status is not checked, so a replayed completion burns again.
acknowledge_Again(d, claim) ==
    LET record == exportsById[d][claim.export_id]
    IN  /\ claim.source_domain = d
        /\ record # Missing
        /\ burn_held(d, record.leaf.sender, record.leaf.amount)
        /\ exportsById' = [exportsById EXCEPT
               ![d][claim.export_id].status = "RemoteFinalized"]
        /\ UNCHANGED <<nextExportSequence, epochExportIds, importVars, epochVars>>

\* Mutant: the hold is released to the sender instead of burned.
acknowledge_Release(d, claim) ==
    LET record == exportsById[d][claim.export_id]
    IN  /\ claim.source_domain = d
        /\ record # Missing
        /\ record.status = "Exported"
        /\ free' = [free EXCEPT ![d][record.leaf.sender] = @ + record.leaf.amount]
        /\ held' = [held EXCEPT ![d][record.leaf.sender] = @ - record.leaf.amount]
        /\ exportsById' = [exportsById EXCEPT
               ![d][claim.export_id].status = "RemoteFinalized"]
        /\ UNCHANGED <<nextExportSequence, epochExportIds, importVars, epochVars>>

acknowledge_remote_finalization(d, claim) ==
    LET record == exportsById[d][claim.export_id]
    IN  /\ claim.source_domain = d
        /\ record # Missing
        /\ ClaimOf(record.leaf) = claim
        /\ record.status = "Exported"
        /\ burn_held(d, record.leaf.sender, record.leaf.amount)
        /\ exportsById' = [exportsById EXCEPT
               ![d][claim.export_id].status = "RemoteFinalized"]
        /\ UNCHANGED <<nextExportSequence, epochExportIds, importVars, epochVars>>

-----------------------------------------------------------------------------
(* The epoch close *)

canonical_epoch_exports(d, e) ==
    {exportsById[d][id].leaf :
        id \in {i \in epochExportIds[d][e] : exportsById[d][i] # Missing}}

canonical_epoch_finalized_imports(d, e) ==
    {observedImportsById[d][id].claim :
        id \in {i \in epochFinalizedImportIds[d][e] :
                   observedImportsById[d][i].status = "RemoteFinalized"}}

\* Mutant: every export of the chain is set to Exported, not only the epoch's.
commit_exports_All(d, e) ==
    /\ exportRoot' = [exportRoot EXCEPT ![d][e] = canonical_epoch_exports(d, e)]
    /\ exportsById' = [exportsById EXCEPT
           ![d] = [id \in ExportId |->
                      IF exportsById[d][id] # Missing
                      THEN [exportsById[d][id] EXCEPT !.status = "Exported"]
                      ELSE exportsById[d][id]]]

commit_epoch_exports(d, e) ==
    LET ids == {leaf.export_id : leaf \in canonical_epoch_exports(d, e)}
    IN  /\ exportRoot' = [exportRoot EXCEPT ![d][e] = canonical_epoch_exports(d, e)]
        /\ exportsById' = [exportsById EXCEPT
               ![d] = [id \in ExportId |->
                          IF id \in ids /\ exportsById[d][id] # Missing
                          THEN [exportsById[d][id] EXCEPT !.status = "Exported"]
                          ELSE exportsById[d][id]]]

\* Mutant: imports that are only observed are committed as finalized.
commit_imports_Observed(d, e) ==
    importRoot' = [importRoot EXCEPT
        ![d][e] = {observedImportsById[d][id].claim :
                      id \in {i \in ExportId : observedImportsById[d][i] # Missing}}]

commit_epoch_imports(d, e) ==
    importRoot' = [importRoot EXCEPT
        ![d][e] = canonical_epoch_finalized_imports(d, e)]

\* Mutant: the epoch advances before it is committed.
stage_summary_AfterAdvance(d) ==
    /\ currentEpoch[d] < MaxEpoch
    /\ commit_epoch_exports(d, currentEpoch[d] + 1)
    /\ commit_epoch_imports(d, currentEpoch[d] + 1)
    /\ currentEpoch' = [currentEpoch EXCEPT ![d] = @ + 1]
    /\ UNCHANGED <<nextExportSequence, epochExportIds, importVars, balanceVars>>

stage_summary_for_closed_epoch(d) ==
    /\ currentEpoch[d] < MaxEpoch
    /\ commit_epoch_exports(d, currentEpoch[d])
    /\ commit_epoch_imports(d, currentEpoch[d])
    /\ currentEpoch' = [currentEpoch EXCEPT ![d] = @ + 1]
    /\ UNCHANGED <<nextExportSequence, epochExportIds, importVars, balanceVars>>

-----------------------------------------------------------------------------
(* The network: an importer submits what a certified package proves, that is *)
(* a leaf under a root of a summary.  The package of epoch e of domain s may *)
(* reach any chain any number of times.                                      *)

Create(d) ==
    \E who, recipient \in Account, target \in Domain, amount \in Amount :
        create_cross_domain_transfer(d, who, target, recipient, amount)

Observe(d) ==
    \E s \in Domain, e \in Epoch : \E leaf \in exportRoot[s][e] :
        observe_verified_import(d, ClaimOf(leaf))

Finalize(d) ==
    \E id \in ExportId : finalize_verified_import(d, id)

Acknowledge(d) ==
    \E t \in Domain, e \in Epoch : \E claim \in importRoot[t][e] :
        acknowledge_remote_finalization(d, claim)

Init ==
    /\ nextExportSequence = [d \in Domain |-> 0]
    /\ exportsById = [d \in Domain |-> [id \in ExportId |-> Missing]]
    /\ epochExportIds = [d \in Domain |-> [e \in Epoch |-> {}]]
    /\ observedImportsById = [d \in Domain |-> [id \in ExportId |-> Missing]]
    /\ epochFinalizedImportIds = [d \in Domain |-> [e \in Epoch |-> {}]]
    /\ free = InitialFree
    /\ held = [d \in Domain |-> [a \in Account |-> 0]]
    /\ currentEpoch = [d \in Domain |-> 0]
    /\ exportRoot = [d \in Domain |-> [e \in Epoch |-> {}]]
    /\ importRoot = [d \in Domain |-> [e \in Epoch |-> {}]]

Next ==
    \E d \in Domain :
        \/ Create(d)
        \/ Observe(d)
        \/ Finalize(d)
        \/ Acknowledge(d)
        \/ stage_summary_for_closed_epoch(d)

Spec == Init /\ [][Next]_vars
-----------------------------------------------------------------------------
(* Properties *)

\* The storage of every pallet keeps its type and no balance or hold, which
\* hold, mint_into and burn_held change, goes below zero.
TypeOK ==
    /\ nextExportSequence \in [Domain -> Nat]
    /\ exportsById \in [Domain -> [ExportId -> ExportRecord \cup {Missing}]]
    /\ epochExportIds \in [Domain -> [Epoch -> SUBSET ExportId]]
    /\ observedImportsById \in
          [Domain -> [ExportId -> ObservedImportRecord \cup {Missing}]]
    /\ epochFinalizedImportIds \in [Domain -> [Epoch -> SUBSET ExportId]]
    /\ free \in [Domain -> [Account -> Nat]]
    /\ held \in [Domain -> [Account -> Nat]]
    /\ currentEpoch \in [Domain -> Epoch]
    /\ exportRoot \in [Domain -> [Epoch -> SUBSET ExportLeaf]]
    /\ importRoot \in [Domain -> [Epoch -> SUBSET Claim]]

\* The source chain's record of an export.
SourceRecord(id) == exportsById[id[1]][id]

\* A transfer exists once its source chain has a record of it.
Created == {id \in ExportId : SourceRecord(id) # Missing}

Minted(id) ==
    /\ id \in Created
    /\ observedImportsById[SourceRecord(id).leaf.target_domain][id].status
           = "RemoteFinalized"

Burned(id) == SourceRecord(id).status = "RemoteFinalized"

\* An import is observed (and so may be minted) only on the target chain of an
\* export that its source chain really created and committed in the summary of
\* the epoch it was created in, with the same amount and recipient; hence an
\* amount is minted at most once in the whole network.  About
\* observe_verified_import and finalize_verified_import against commit_epoch_exports.
ObservedWasCommitted ==
    \A t \in Domain, id \in ExportId :
        LET import == observedImportsById[t][id]
            export == SourceRecord(id)
        IN  import # Missing =>
                /\ export # Missing
                /\ export.status # "LocalFinal"
                /\ import.claim = ClaimOf(export.leaf)
                /\ export.leaf.target_domain = t
                /\ export.leaf \in exportRoot[id[1]][export.leaf.source_epoch_id]

\* The source hold is burned only after the recipient was credited on the
\* target chain.  About acknowledge_remote_finalization on one chain against
\* finalize_verified_import on another.
BurnedWasMinted == \A id \in ExportId : Burned(id) => Minted(id)

Amounts == [id \in Created |-> SourceRecord(id).leaf.amount]

\* On every chain each account's held balance is exactly the sum of its
\* exports not yet resolved: burn_held can never fail for lack of held funds,
\* and no hold outlives its export.
HeldBacksUnresolved ==
    \A d \in Domain, a \in Account :
        held[d][a] =
            SumOver(Amounts, {id \in Created : /\ id[1] = d
                                               /\ SourceRecord(id).leaf.sender = a
                                               /\ ~ Burned(id)})

TotalOf(balance) ==
    SumOver([x \in Domain \X Account |-> balance[x[1]][x[2]]], Domain \X Account)

\* Value is neither created nor destroyed across the network: the balances of
\* all chains add up to the genesis supply, apart from the transfers that are
\* minted on the target and not yet burned on the source, which count twice.
SupplyConserved ==
    TotalOf(free) + TotalOf(held) =
        TotalOf(InitialFree)
        + SumOver(Amounts, {id \in Created : Minted(id) /\ ~ Burned(id)})

\* The leaves of a closed epoch, recomputed at any later time from the current
\* storage, are those its summary committed: the exporter recomputes both roots
\* on every sync and stops when one differs.  Exports and imports keep changing
\* status after the close.
RecomputedRootsMatch ==
    \A d \in Domain, e \in Epoch :
        e < currentEpoch[d] =>
            /\ canonical_epoch_exports(d, e) = exportRoot[d][e]
            /\ canonical_epoch_finalized_imports(d, e) = importRoot[d][e]

\* An export waits for its commitment exactly while its epoch is open; after
\* that its leaf is under the root of that epoch and of no other.  No transfer
\* slips between two epochs or is exported twice.
ExportCommittedOnce ==
    \A d \in Domain, id \in ExportId :
        LET record == exportsById[d][id]
        IN  record # Missing =>
                /\ id[1] = d
                /\ (record.status = "LocalFinal")
                       = (record.leaf.source_epoch_id = currentEpoch[d])
                /\ {e \in Epoch : record.leaf \in exportRoot[d][e]} =
                       IF record.status = "LocalFinal"
                       THEN {} ELSE {record.leaf.source_epoch_id}

\* A finalized import is listed in exactly one epoch of the target chain, so
\* its completion is proved to the source by exactly one summary.
CompletionCommittedOnce ==
    \A t \in Domain, id \in ExportId :
        LET epochs == {e \in Epoch : id \in epochFinalizedImportIds[t][e]}
        IN  IF observedImportsById[t][id].status = "RemoteFinalized"
            THEN /\ \E e \in epochs : epochs = {e} /\ e <= currentEpoch[t]
                 /\ {e \in Epoch : observedImportsById[t][id].claim \in importRoot[t][e]}
                        = {e \in epochs : e < currentEpoch[t]}
            ELSE epochs = {}

ExportRank(record) ==
    CASE record.status = "Missing" -> 0
      [] record.status = "LocalFinal" -> 1
      [] record.status = "Exported" -> 2
      [] record.status = "RemoteFinalized" -> 3

\* No step takes an export back to an earlier status, skips a status, or
\* changes the leaf a summary may already have committed; in particular the
\* epoch close, which sets Exported on everything it lists, never reopens a
\* resolved export.
SettlementOnlyAdvances ==
    [][\A d \in Domain, id \in ExportId :
          LET before == exportsById[d][id]
              after == exportsById[d][id]'
          IN  /\ ExportRank(after) - ExportRank(before) \in {0, 1}
              /\ before # Missing => after.leaf = before.leaf]_vars

-----------------------------------------------------------------------------
(* Refinement of the abstract transfer *)

dealBar ==
    [id \in ExportId |->
        IF id \in Created THEN SourceRecord(id).leaf ELSE Missing]

phaseBar ==
    [id \in ExportId |->
        IF id \notin Created THEN "None"
        ELSE IF Burned(id) THEN "Settled"
        ELSE IF Minted(id) THEN "Credited"
        ELSE "Locked"]

E == INSTANCE Escrow WITH
        Id <- ExportId, Deal <- ExportLeaf, NoDeal <- Missing,
        deal <- dealBar, phase <- phaseBar

\* The four dispatchables and the epoch close, over every interleaving of the
\* chains and every replay of a claim, implement the abstract transfer: lock
\* once, credit once, settle once, in this order.
EscrowSpec == E!Spec

-----------------------------------------------------------------------------
(* Liveness *)

\* Closing an epoch that lists nothing only advances the epoch number.  Leaving
\* those closes out keeps MaxEpoch from being spent on them.
CloseBusyEpoch(d) ==
    /\ \/ epochExportIds[d][currentEpoch[d]] # {}
       \/ epochFinalizedImportIds[d][currentEpoch[d]] # {}
    /\ stage_summary_for_closed_epoch(d)

BusyNext ==
    \E d \in Domain :
        \/ Create(d)
        \/ Observe(d)
        \/ Finalize(d)
        \/ Acknowledge(d)
        \/ CloseBusyEpoch(d)

\* Blocks keep being produced, so epochs close; the importers submit what the
\* delivered packages prove until the chain has accepted it.
Fairness ==
    \A d \in Domain :
        /\ WF_vars(CloseBusyEpoch(d))
        /\ \A id \in ExportId :
              /\ WF_vars(Observe(d) /\ observedImportsById'[d][id] # observedImportsById[d][id])
              /\ WF_vars(finalize_verified_import(d, id))
              /\ WF_vars(Acknowledge(d) /\ exportsById'[d][id] # exportsById[d][id])

LiveSpec == Init /\ [][BusyNext]_vars /\ Fairness

\* Every transfer that was created is minted on its target and then has its
\* source hold burned: nothing in the protocol leaves a hold waiting forever.
EveryTransferSettles ==
    \A id \in ExportId : id \in Created ~> Burned(id)
=============================================================================

-------------------------- MODULE TransfersProofs --------------------------
(* Proofs about Transfers for every choice of its constants. *)
EXTENDS Transfers, CollectionsProofs, TLAPS

-----------------------------------------------------------------------------
(* Identifiers *)

\* An export id names a domain and a sequence number below the domain's bound.
LEMMA ExportIdFacts ==
    /\ \A id \in ExportId : id[1] \in Domain /\ id[2] \in Nat
    /\ \A d \in Domain, n \in Nat : n < MaxSequence[d] => <<d, n>> \in ExportId
  BY ConstantsAssumption DEF ExportId

\* A claim carries the recipient and the amount of its leaf.
LEMMA ClaimFields ==
  ASSUME NEW leaf
  PROVE  ClaimOf(leaf).recipient = leaf.recipient /\ ClaimOf(leaf).amount = leaf.amount
  BY DEF ClaimOf

\* An export that exists has a well-formed record.
LEMMA RecordFacts ==
  ASSUME TypeOK, NEW d \in Domain, NEW id \in ExportId, exportsById[d][id] # Missing
  PROVE  /\ exportsById[d][id] \in ExportRecord
         /\ exportsById[d][id].leaf.target_domain \in Domain
         /\ exportsById[d][id].leaf.source_epoch_id \in Epoch
<1>1. exportsById \in [Domain -> [ExportId -> ExportRecord \cup {Missing}]]
  BY DEF TypeOK
<1>2. exportsById[d][id] \in ExportRecord
  BY <1>1
<1> QED
  BY <1>2 DEF ExportRecord, ExportLeaf

-----------------------------------------------------------------------------
(* Type correctness *)

\* The initial state is well typed.
LEMMA InitTypeOK == Init => TypeOK
  BY ConstantsAssumption DEF Init, TypeOK, Epoch

\* create_cross_domain_transfer keeps the types; the hold keeps a non-negative
\* free balance because the existential deposit stays behind.
LEMMA CreateTypeOK ==
  ASSUME TypeOK, NEW d \in Domain, Create(d)
  PROVE  TypeOK'
<1>1. PICK who \in Account, recipient \in Account, target \in Domain, amount \in Amount :
          create_cross_domain_transfer(d, who, target, recipient, amount)
  BY DEF Create
<1> DEFINE id == <<d, nextExportSequence[d]>>
           leaf == [export_id |-> id, source_domain |-> d,
                    target_domain |-> target, sender |-> who,
                    recipient |-> recipient, amount |-> amount,
                    source_epoch_id |-> currentEpoch[d]]
<1>2. id \in ExportId /\ currentEpoch[d] \in Epoch
  BY <1>1, ExportIdFacts DEF TypeOK, create_cross_domain_transfer
<1>3. leaf \in ExportLeaf
  BY <1>2 DEF ExportLeaf
<1>4. exportsById' \in [Domain -> [ExportId -> ExportRecord \cup {Missing}]]
  BY <1>1, <1>2, <1>3 DEF TypeOK, create_cross_domain_transfer, export_id,
                          ExportRecord, ExportStatus
<1>5. /\ nextExportSequence' \in [Domain -> Nat]
      /\ epochExportIds' \in [Domain -> [Epoch -> SUBSET ExportId]]
  <2>1. epochExportIds' = [epochExportIds EXCEPT ![d][currentEpoch[d]] = @ \cup {id}]
    BY <1>1 DEF create_cross_domain_transfer, export_id
  <2>2. nextExportSequence' = [nextExportSequence EXCEPT ![d] = @ + 1]
    BY <1>1 DEF create_cross_domain_transfer
  <2> HIDE DEF id
  <2> QED
    BY <1>2, <2>1, <2>2 DEF TypeOK
<1>6. /\ free' \in [Domain -> [Account -> Nat]]
      /\ held' \in [Domain -> [Account -> Nat]]
  BY <1>1, ConstantsAssumption DEF TypeOK, create_cross_domain_transfer, hold, can_hold
<1>7. UNCHANGED <<importVars, epochVars>>
  BY <1>1 DEF create_cross_domain_transfer
<1> QED
  BY <1>4, <1>5, <1>6, <1>7 DEF TypeOK, importVars, epochVars

\* observe_verified_import keeps the types.
LEMMA ObserveTypeOK ==
  ASSUME TypeOK, NEW d \in Domain, Observe(d)
  PROVE  TypeOK'
<1>1. PICK s \in Domain, e \in Epoch : \E leaf \in exportRoot[s][e] :
          observe_verified_import(d, ClaimOf(leaf))
  BY DEF Observe
<1>2. PICK leaf \in exportRoot[s][e] : observe_verified_import(d, ClaimOf(leaf))
  BY <1>1
<1>3. leaf \in ExportLeaf
  BY <1>2 DEF TypeOK
<1>4. ClaimOf(leaf) \in Claim /\ ClaimOf(leaf).export_id \in ExportId
  BY <1>3 DEF ClaimOf, Claim, ExportLeaf
<1>5. observedImportsById' \in
          [Domain -> [ExportId -> ObservedImportRecord \cup {Missing}]]
  BY <1>2, <1>4 DEF TypeOK, observe_verified_import, ObservedImportRecord,
                    ImportObservationStatus
<1>6. UNCHANGED <<exportVars, epochFinalizedImportIds, balanceVars, epochVars>>
  BY <1>2 DEF observe_verified_import
<1> QED
  BY <1>5, <1>6 DEF TypeOK, exportVars, balanceVars, epochVars

\* finalize_verified_import keeps the types.
LEMMA FinalizeTypeOK ==
  ASSUME TypeOK, NEW d \in Domain, Finalize(d)
  PROVE  TypeOK'
<1>1. PICK id \in ExportId : finalize_verified_import(d, id)
  BY DEF Finalize
<1>2. observedImportsById[d][id] \in ObservedImportRecord
  BY <1>1 DEF TypeOK, finalize_verified_import
<1>3. /\ observedImportsById[d][id].claim.recipient \in Account
      /\ observedImportsById[d][id].claim.amount \in Nat
  BY <1>2, ConstantsAssumption, Zenon DEF ObservedImportRecord, Claim
<1>4. observedImportsById' \in
          [Domain -> [ExportId -> ObservedImportRecord \cup {Missing}]]
  BY <1>1, <1>2, Zenon DEF TypeOK, finalize_verified_import, ObservedImportRecord,
                    ImportObservationStatus
<1>5. /\ free' \in [Domain -> [Account -> Nat]]
      /\ held' \in [Domain -> [Account -> Nat]]
  BY <1>1, <1>3 DEF TypeOK, finalize_verified_import, mint_into
<1>6. epochFinalizedImportIds' \in [Domain -> [Epoch -> SUBSET ExportId]]
  BY <1>1 DEF TypeOK, finalize_verified_import
<1>7. UNCHANGED <<exportVars, epochVars>>
  BY <1>1 DEF finalize_verified_import
<1> QED
  BY <1>4, <1>5, <1>6, <1>7 DEF TypeOK, exportVars, epochVars

\* acknowledge_remote_finalization keeps the types; burn_held takes no more
\* than is held.
LEMMA AcknowledgeTypeOK ==
  ASSUME TypeOK, NEW d \in Domain, Acknowledge(d)
  PROVE  TypeOK'
<1>1. PICK t \in Domain, e \in Epoch : \E claim \in importRoot[t][e] :
          acknowledge_remote_finalization(d, claim)
  BY DEF Acknowledge
<1>2. PICK claim \in importRoot[t][e] : acknowledge_remote_finalization(d, claim)
  BY <1>1
<1> DEFINE id == claim.export_id
<1>3. id \in ExportId
  BY <1>2 DEF TypeOK, Claim
<1>4. exportsById[d][id] \in ExportRecord
  BY <1>2, <1>3 DEF TypeOK, acknowledge_remote_finalization
<1>5. /\ exportsById[d][id].leaf.sender \in Account
      /\ exportsById[d][id].leaf.amount \in Nat
  BY <1>4, ConstantsAssumption, Zenon DEF ExportRecord, ExportLeaf
<1>6. exportsById' \in [Domain -> [ExportId -> ExportRecord \cup {Missing}]]
  BY <1>2, <1>3, <1>4 DEF TypeOK, acknowledge_remote_finalization, ExportRecord,
                          ExportStatus
<1>7. /\ free' \in [Domain -> [Account -> Nat]]
      /\ held' \in [Domain -> [Account -> Nat]]
  <2>1. burn_held(d, exportsById[d][id].leaf.sender, exportsById[d][id].leaf.amount)
    BY <1>2 DEF acknowledge_remote_finalization
  <2>2. /\ free \in [Domain -> [Account -> Nat]]
        /\ held \in [Domain -> [Account -> Nat]]
    BY DEF TypeOK
  <2> DEFINE who == exportsById[d][id].leaf.sender
             amount == exportsById[d][id].leaf.amount
  <2>3. who \in Account /\ amount \in Nat
    BY <1>5
  <2>4. held[d][who] >= amount /\ held' = [held EXCEPT ![d][who] = held[d][who] - amount]
        /\ free' = free
    BY <2>1, Zenon DEF burn_held
  <2> HIDE DEF who, amount
  <2>5. held[d][who] - amount \in Nat
    BY <2>2, <2>3, <2>4
  <2> QED
    BY <2>2, <2>3, <2>4, <2>5
<1>8. UNCHANGED <<nextExportSequence, epochExportIds, importVars, epochVars>>
  BY <1>2 DEF acknowledge_remote_finalization
<1> QED
  BY <1>6, <1>7, <1>8 DEF TypeOK, importVars, epochVars

\* The epoch close keeps the types.
LEMMA CloseTypeOK ==
  ASSUME TypeOK, NEW d \in Domain, stage_summary_for_closed_epoch(d)
  PROVE  TypeOK'
<1> DEFINE e == currentEpoch[d]
<1>1. e \in Epoch /\ e + 1 \in Epoch
  BY ConstantsAssumption DEF TypeOK, stage_summary_for_closed_epoch, Epoch
<1>2. canonical_epoch_exports(d, e) \in SUBSET ExportLeaf
  BY <1>1 DEF TypeOK, canonical_epoch_exports, ExportRecord
<1>3. canonical_epoch_finalized_imports(d, e) \in SUBSET Claim
  <2>1. \A i \in ExportId : observedImportsById[d][i].status = "RemoteFinalized" =>
            observedImportsById[d][i] \in ObservedImportRecord
    BY DEF TypeOK, Missing
  <2> QED
    BY <1>1, <2>1 DEF TypeOK, canonical_epoch_finalized_imports, ObservedImportRecord
<1>4. /\ exportRoot' \in [Domain -> [Epoch -> SUBSET ExportLeaf]]
      /\ importRoot' \in [Domain -> [Epoch -> SUBSET Claim]]
      /\ currentEpoch' \in [Domain -> Epoch]
  BY <1>1, <1>2, <1>3 DEF TypeOK, stage_summary_for_closed_epoch, commit_epoch_exports,
                          commit_epoch_imports
<1>5. exportsById' \in [Domain -> [ExportId -> ExportRecord \cup {Missing}]]
  <2> DEFINE ids == {leaf.export_id : leaf \in canonical_epoch_exports(d, e)}
             after(id) == IF id \in ids /\ exportsById[d][id] # Missing
                          THEN [exportsById[d][id] EXCEPT !.status = "Exported"]
                          ELSE exportsById[d][id]
  <2>1. ASSUME NEW id \in ExportId PROVE after(id) \in ExportRecord \cup {Missing}
    BY DEF TypeOK, ExportRecord, ExportStatus
  <2>2. exportsById' = [exportsById EXCEPT ![d] = [id \in ExportId |-> after(id)]]
    BY DEF stage_summary_for_closed_epoch, commit_epoch_exports
  <2> QED
    BY <2>1, <2>2 DEF TypeOK
<1>6. UNCHANGED <<nextExportSequence, epochExportIds, importVars, balanceVars>>
  BY DEF stage_summary_for_closed_epoch
<1> QED
  BY <1>4, <1>5, <1>6 DEF TypeOK, importVars, balanceVars

\* Every step keeps the types.
LEMMA NextTypeOK == TypeOK /\ [Next]_vars => TypeOK'
<1> SUFFICES ASSUME TypeOK, [Next]_vars PROVE TypeOK'
  OBVIOUS
<1>1. ASSUME NEW d \in Domain, Create(d) PROVE TypeOK'
  BY <1>1, CreateTypeOK
<1>2. ASSUME NEW d \in Domain, Observe(d) PROVE TypeOK'
  BY <1>2, ObserveTypeOK
<1>3. ASSUME NEW d \in Domain, Finalize(d) PROVE TypeOK'
  BY <1>3, FinalizeTypeOK
<1>4. ASSUME NEW d \in Domain, Acknowledge(d) PROVE TypeOK'
  BY <1>4, AcknowledgeTypeOK
<1>5. ASSUME NEW d \in Domain, stage_summary_for_closed_epoch(d) PROVE TypeOK'
  BY <1>5, CloseTypeOK
<1>6. CASE UNCHANGED vars
  BY <1>6 DEF TypeOK, vars, exportVars, importVars, balanceVars, epochVars
<1> QED
  BY <1>1, <1>2, <1>3, <1>4, <1>5, <1>6 DEF Next

\* Type correctness of pallet-transfers on all chains; in particular no
\* balance ever goes below zero.
THEOREM TypeCorrect == Spec => []TypeOK
  BY InitTypeOK, NextTypeOK, PTL DEF Spec

\* Epoch numbers are integers.
LEMMA EpochsAreIntegers ==
    TypeOK => \A d \in Domain, e \in Epoch : e \in Int /\ currentEpoch[d] \in Int
<1> SUFFICES ASSUME TypeOK, NEW d \in Domain, NEW e \in Epoch
             PROVE  e \in Int /\ currentEpoch[d] \in Int
  OBVIOUS
<1>1. currentEpoch \in [Domain -> Epoch]
  BY DEF TypeOK
<1> QED
  BY <1>1, ConstantsAssumption DEF Epoch

-----------------------------------------------------------------------------
(* The inductive invariant *)

\* A record describes the export it is stored under, is listed in the epoch
\* its leaf names, and is LocalFinal exactly while that epoch is open.
ExportsWellFormed ==
    \A d \in Domain, id \in ExportId :
        exportsById[d][id] # Missing =>
            LET leaf == exportsById[d][id].leaf
            IN  /\ id[1] = d
                /\ id[2] < nextExportSequence[d]
                /\ leaf.export_id = id
                /\ leaf.source_domain = d
                /\ leaf.target_domain # d
                /\ leaf.source_epoch_id <= currentEpoch[d]
                /\ id \in epochExportIds[d][leaf.source_epoch_id]
                /\ exportsById[d][id].status = "LocalFinal"
                       <=> leaf.source_epoch_id = currentEpoch[d]

\* What an epoch lists was created in that epoch.
ListedExports ==
    \A d \in Domain, e \in Epoch : \A id \in epochExportIds[d][e] :
        /\ exportsById[d][id] # Missing
        /\ exportsById[d][id].leaf.source_epoch_id = e

\* What an epoch lists as finalized stays finalized.
ListedImports ==
    \A t \in Domain, e \in Epoch : \A id \in epochFinalizedImportIds[t][e] :
        /\ e <= currentEpoch[t]
        /\ observedImportsById[t][id].status = "RemoteFinalized"

\* An open or future epoch has no roots yet.
OpenRootsEmpty ==
    \A d \in Domain, e \in Epoch :
        e >= currentEpoch[d] => exportRoot[d][e] = {} /\ importRoot[d][e] = {}

\* An observed import carries the facts of a committed export to this chain.
ObservedFacts ==
    \A t \in Domain, id \in ExportId :
        observedImportsById[t][id] # Missing =>
            /\ SourceRecord(id) # Missing
            /\ SourceRecord(id).status # "LocalFinal"
            /\ SourceRecord(id).leaf.target_domain = t
            /\ observedImportsById[t][id].claim = ClaimOf(SourceRecord(id).leaf)

IInv ==
    /\ TypeOK
    /\ ExportsWellFormed
    /\ ListedExports
    /\ ListedImports
    /\ OpenRootsEmpty
    /\ RecomputedRootsMatch
    /\ ObservedFacts
    /\ BurnedWasMinted

\* What the invariant says of one export that exists.
LEMMA WellFormedAt ==
  ASSUME IInv, NEW d \in Domain, NEW id \in ExportId, exportsById[d][id] # Missing
  PROVE  /\ id[1] = d
         /\ id[2] < nextExportSequence[d]
         /\ exportsById[d][id].leaf.export_id = id
         /\ exportsById[d][id].leaf.source_domain = d
         /\ exportsById[d][id].leaf.target_domain # d
         /\ exportsById[d][id].leaf.source_epoch_id <= currentEpoch[d]
         /\ id \in epochExportIds[d][exportsById[d][id].leaf.source_epoch_id]
         /\ exportsById[d][id].status = "LocalFinal"
                <=> exportsById[d][id].leaf.source_epoch_id = currentEpoch[d]
  BY DEF IInv, ExportsWellFormed

\* The target of an export that exists is a domain.
LEMMA CreatedTarget ==
  ASSUME IInv
  PROVE  \A id \in Created : SourceRecord(id).leaf.target_domain \in Domain
<1> SUFFICES ASSUME NEW id \in Created
             PROVE  SourceRecord(id).leaf.target_domain \in Domain
  OBVIOUS
<1>1. id \in ExportId /\ id[1] \in Domain /\ exportsById[id[1]][id] # Missing
  BY ExportIdFacts DEF Created, SourceRecord
<1>2. TypeOK
  BY DEF IInv
<1> QED
  BY <1>1, <1>2, RecordFacts DEF SourceRecord

\* The invariant holds at genesis.
LEMMA InitIInv == Init => IInv
<1> SUFFICES ASSUME Init PROVE IInv
  OBVIOUS
<1>1. TypeOK
  BY InitTypeOK
<1>2. /\ ExportsWellFormed
      /\ ListedExports
      /\ ListedImports
      /\ OpenRootsEmpty
      /\ ObservedFacts
  BY ExportIdFacts DEF Init, ExportsWellFormed, ListedExports, ListedImports,
                       OpenRootsEmpty, ObservedFacts, SourceRecord
<1>3. RecomputedRootsMatch
  BY DEF Init, RecomputedRootsMatch, Epoch
<1>4. BurnedWasMinted
  BY ExportIdFacts DEF Init, BurnedWasMinted, Burned, SourceRecord, Missing
<1> QED
  BY <1>1, <1>2, <1>3, <1>4 DEF IInv

\* A leaf under an export root is the leaf of a committed record of the chain.
LEMMA CommittedLeaf ==
  ASSUME IInv, NEW s \in Domain, NEW e \in Epoch, NEW leaf \in exportRoot[s][e]
  PROVE  /\ leaf \in ExportLeaf
         /\ leaf.export_id \in ExportId
         /\ leaf.export_id[1] = s
         /\ SourceRecord(leaf.export_id) # Missing
         /\ SourceRecord(leaf.export_id).leaf = leaf
         /\ SourceRecord(leaf.export_id).status # "LocalFinal"
         /\ leaf.source_epoch_id = e
<1>1. leaf \in ExportLeaf /\ leaf.export_id \in ExportId
  BY DEF IInv, TypeOK, ExportLeaf
<1>2. e < currentEpoch[s]
  BY EpochsAreIntegers DEF IInv, OpenRootsEmpty
<1>3. leaf \in canonical_epoch_exports(s, e)
  BY <1>2 DEF IInv, RecomputedRootsMatch
<1>4. PICK i \in epochExportIds[s][e] :
          exportsById[s][i] # Missing /\ leaf = exportsById[s][i].leaf
  BY <1>3 DEF canonical_epoch_exports
<1>5. i \in ExportId
  BY DEF IInv, TypeOK
<1>6. leaf.source_epoch_id = e
  BY <1>4 DEF IInv, ListedExports
<1>7. /\ leaf.export_id = i
      /\ i[1] = s
      /\ exportsById[s][i].status # "LocalFinal"
  BY <1>2, <1>4, <1>5, <1>6 DEF IInv, ExportsWellFormed, TypeOK, Epoch
<1> QED
  BY <1>1, <1>4, <1>6, <1>7 DEF SourceRecord

\* A claim under an import root is that of an import finalized on the chain.
LEMMA CommittedClaim ==
  ASSUME IInv, NEW t \in Domain, NEW e \in Epoch, NEW claim \in importRoot[t][e]
  PROVE  /\ claim.export_id \in ExportId
         /\ observedImportsById[t][claim.export_id].claim = claim
         /\ observedImportsById[t][claim.export_id].status = "RemoteFinalized"
<1>1. e < currentEpoch[t]
  BY EpochsAreIntegers DEF IInv, OpenRootsEmpty
<1>2. claim \in canonical_epoch_finalized_imports(t, e)
  BY <1>1 DEF IInv, RecomputedRootsMatch
<1>3. PICK i \in epochFinalizedImportIds[t][e] :
          /\ observedImportsById[t][i].status = "RemoteFinalized"
          /\ claim = observedImportsById[t][i].claim
  BY <1>2 DEF canonical_epoch_finalized_imports
<1>4. i \in ExportId /\ i[1] \in Domain
  BY ExportIdFacts DEF IInv, TypeOK
<1>5. observedImportsById[t][i] # Missing
  BY <1>3 DEF Missing
<1>6. SourceRecord(i) # Missing /\ claim = ClaimOf(SourceRecord(i).leaf)
  BY <1>3, <1>4, <1>5 DEF IInv, ObservedFacts
<1>7. claim.export_id = i
  <2>1. exportsById[i[1]][i].leaf.export_id = i
    BY <1>4, <1>6, ExportIdFacts, WellFormedAt DEF SourceRecord
  <2> QED
    BY <1>6, <2>1 DEF SourceRecord, ClaimOf
<1> QED
  BY <1>3, <1>4, <1>7

\* create_cross_domain_transfer adds a fresh record, listed in the open epoch.
LEMMA CreateIInv ==
  ASSUME IInv, TypeOK', NEW d \in Domain, Create(d)
  PROVE  IInv'
<1>1. PICK who \in Account, recipient \in Account, target \in Domain, amount \in Amount :
          create_cross_domain_transfer(d, who, target, recipient, amount)
  BY DEF Create
<1> DEFINE new == <<d, nextExportSequence[d]>>
           leaf == [export_id |-> new, source_domain |-> d,
                    target_domain |-> target, sender |-> who,
                    recipient |-> recipient, amount |-> amount,
                    source_epoch_id |-> currentEpoch[d]]
           rec == [leaf |-> leaf, status |-> "LocalFinal"]
<1>2. new \in ExportId /\ currentEpoch[d] \in Epoch /\ new[1] = d
      /\ new[2] = nextExportSequence[d]
  BY <1>1, ExportIdFacts DEF IInv, TypeOK, create_cross_domain_transfer
<1>3. exportsById[d][new] = Missing
  <2>1. nextExportSequence[d] \in Nat /\ new[2] = nextExportSequence[d]
    BY <1>2 DEF IInv, TypeOK
  <2>2. ~(new[2] < nextExportSequence[d])
    BY <2>1
  <2> QED
    BY <1>2, <2>2, WellFormedAt
<1>4. /\ exportsById' = [exportsById EXCEPT ![d][new] = rec]
      /\ epochExportIds' = [epochExportIds EXCEPT ![d][currentEpoch[d]] = @ \cup {new}]
      /\ nextExportSequence' = [nextExportSequence EXCEPT ![d] = @ + 1]
      /\ target # d
      /\ UNCHANGED <<importVars, epochVars>>
  BY <1>1 DEF create_cross_domain_transfer, export_id
<1>5. /\ rec.leaf = leaf
      /\ rec.status = "LocalFinal"
      /\ leaf.export_id = new
      /\ leaf.source_domain = d
      /\ leaf.target_domain = target
      /\ leaf.source_epoch_id = currentEpoch[d]
      /\ rec # Missing
  BY DEF Missing
<1> HIDE DEF new, leaf, rec
<1>6. \A x \in Domain, id \in ExportId :
          exportsById'[x][id] = IF x = d /\ id = new THEN rec ELSE exportsById[x][id]
  BY <1>2, <1>4 DEF IInv, TypeOK
<1>7. /\ epochExportIds'[d][currentEpoch[d]] = epochExportIds[d][currentEpoch[d]] \cup {new}
      /\ \A x \in Domain, e \in Epoch :
            ~(x = d /\ e = currentEpoch[d]) => epochExportIds'[x][e] = epochExportIds[x][e]
  <2>1. epochExportIds \in [Domain -> [Epoch -> SUBSET ExportId]]
    BY DEF IInv, TypeOK
  <2> QED
    BY <1>2, <1>4, <2>1
<1>8. ExportsWellFormed'
  <2> SUFFICES ASSUME NEW x \in Domain, NEW id \in ExportId,
                      exportsById'[x][id] # Missing
               PROVE  LET lf == exportsById'[x][id].leaf
                      IN  /\ id[1] = x
                          /\ id[2] < nextExportSequence'[x]
                          /\ lf.export_id = id
                          /\ lf.source_domain = x
                          /\ lf.target_domain # x
                          /\ lf.source_epoch_id <= currentEpoch'[x]
                          /\ id \in epochExportIds'[x][lf.source_epoch_id]
                          /\ exportsById'[x][id].status = "LocalFinal"
                                 <=> lf.source_epoch_id = currentEpoch'[x]
    BY DEF ExportsWellFormed
  <2>1. currentEpoch' = currentEpoch /\ nextExportSequence[x] \in Nat
        /\ nextExportSequence[d] \in Nat /\ currentEpoch[x] \in Int
        /\ id[2] \in Nat
    BY <1>4, ExportIdFacts DEF IInv, TypeOK, epochVars, Epoch
  <2>2. CASE x = d /\ id = new
    <3>1. exportsById'[x][id].leaf = leaf /\ exportsById'[x][id].status = "LocalFinal"
      BY <1>5, <1>6, <2>2
    <3>2. id[1] = d /\ id[2] = nextExportSequence[d] /\ nextExportSequence'[d] > id[2]
      <4>1. nextExportSequence \in [Domain -> Nat]
        BY DEF IInv, TypeOK
      <4>2. nextExportSequence'[d] = nextExportSequence[d] + 1
        BY <1>4, <4>1
      <4> QED
        BY <1>2, <2>1, <2>2, <4>2
    <3> QED
      BY <1>2, <1>4, <1>5, <1>7, <2>1, <2>2, <3>1, <3>2, EpochsAreIntegers
  <2>3. CASE ~(x = d /\ id = new)
    <3>1. exportsById'[x][id] = exportsById[x][id]
      BY <1>6, <2>3
    <3>2. exportsById[x][id].leaf.source_epoch_id \in Epoch
      BY <3>1, RecordFacts DEF IInv
    <3>3. nextExportSequence'[x] >= nextExportSequence[x]
      BY <1>4, <2>1 DEF IInv, TypeOK
    <3>4. /\ id[1] = x
          /\ id[2] < nextExportSequence[x]
          /\ exportsById[x][id].leaf.export_id = id
          /\ exportsById[x][id].leaf.source_domain = x
          /\ exportsById[x][id].leaf.target_domain # x
          /\ exportsById[x][id].leaf.source_epoch_id <= currentEpoch[x]
          /\ id \in epochExportIds[x][exportsById[x][id].leaf.source_epoch_id]
          /\ exportsById[x][id].status = "LocalFinal"
                 <=> exportsById[x][id].leaf.source_epoch_id = currentEpoch[x]
      BY <3>1 DEF IInv, ExportsWellFormed
    <3>5. id \in epochExportIds'[x][exportsById[x][id].leaf.source_epoch_id]
      BY <1>7, <3>2, <3>4
    <3>6. id[2] < nextExportSequence'[x]
      BY <2>1, <3>3, <3>4 DEF TypeOK
    <3> QED
      BY <2>1, <3>1, <3>4, <3>5, <3>6
  <2> QED
    BY <2>2, <2>3
<1>9. ListedExports'
  <2> SUFFICES ASSUME NEW x \in Domain, NEW e \in Epoch, NEW id \in epochExportIds'[x][e]
               PROVE  /\ exportsById'[x][id] # Missing
                      /\ exportsById'[x][id].leaf.source_epoch_id = e
    BY DEF ListedExports
  <2>1. CASE x = d /\ id = new /\ e = currentEpoch[d]
    BY <1>2, <1>5, <1>6, <2>1
  <2>2. CASE ~(x = d /\ id = new /\ e = currentEpoch[d])
    <3>1. id \in epochExportIds[x][e]
      BY <1>7, <2>2
    <3>3. id \in ExportId
      BY <3>1 DEF IInv, TypeOK
    <3>2. ~(x = d /\ id = new)
      BY <1>3, <3>1 DEF IInv, ListedExports
    <3> QED
      BY <1>6, <3>1, <3>2, <3>3 DEF IInv, ListedExports
  <2> QED
    BY <2>1, <2>2
<1>10. ListedImports' /\ OpenRootsEmpty'
  BY <1>4 DEF IInv, ListedImports, OpenRootsEmpty, importVars, epochVars
<1>11. RecomputedRootsMatch'
  <2> SUFFICES ASSUME NEW x \in Domain, NEW e \in Epoch, e < currentEpoch[x]
               PROVE  /\ canonical_epoch_exports(x, e)' = exportRoot[x][e]
                      /\ canonical_epoch_finalized_imports(x, e)' = importRoot[x][e]
    BY <1>4 DEF RecomputedRootsMatch, epochVars
  <2>1. epochExportIds'[x][e] = epochExportIds[x][e]
    BY <1>7, EpochsAreIntegers DEF IInv
  <2>2. \A id \in epochExportIds[x][e] : exportsById'[x][id] = exportsById[x][id]
    BY <1>3, <1>6, SMTT(30) DEF IInv, TypeOK, ListedExports
  <2>3. canonical_epoch_exports(x, e)' = canonical_epoch_exports(x, e)
    BY <2>1, <2>2 DEF canonical_epoch_exports
  <2>4. canonical_epoch_finalized_imports(x, e)' = canonical_epoch_finalized_imports(x, e)
    BY <1>4 DEF canonical_epoch_finalized_imports, importVars
  <2> QED
    BY <2>3, <2>4 DEF IInv, RecomputedRootsMatch
<1>12. \A id \in ExportId : SourceRecord(id) # Missing => SourceRecord(id)' = SourceRecord(id)
  BY <1>2, <1>3, <1>6, ExportIdFacts DEF SourceRecord
<1>13. ObservedFacts'
  BY <1>4, <1>12 DEF IInv, ObservedFacts, importVars
<1>14. BurnedWasMinted'
  <2> SUFFICES ASSUME NEW id \in ExportId, Burned(id)' PROVE Minted(id)'
    BY DEF BurnedWasMinted
  <2>1. id[1] \in Domain /\ ~(id[1] = d /\ id = new)
    BY <1>2, <1>5, <1>6, ExportIdFacts DEF Burned, SourceRecord
  <2>2. SourceRecord(id)' = SourceRecord(id)
    BY <1>6, <2>1 DEF SourceRecord
  <2>3. Minted(id)
    BY <2>2 DEF IInv, BurnedWasMinted, Burned
  <2> QED
    BY <1>4, <2>2, <2>3 DEF Minted, Created, importVars
<1> QED
  BY <1>8, <1>9, <1>10, <1>11, <1>13, <1>14 DEF IInv

\* A step that leaves the exports and the summaries alone keeps what the
\* invariant says of them.
LEMMA ExportFrame ==
  ASSUME IInv, UNCHANGED <<exportVars, epochVars>>
  PROVE  /\ ExportsWellFormed'
         /\ ListedExports'
         /\ OpenRootsEmpty'
         /\ \A id : SourceRecord(id)' = SourceRecord(id)
         /\ \A d \in Domain, e \in Epoch :
               canonical_epoch_exports(d, e)' = canonical_epoch_exports(d, e)
  BY SMTT(30) DEF IInv, ExportsWellFormed, ListedExports, OpenRootsEmpty, SourceRecord,
         canonical_epoch_exports, exportVars, epochVars

\* observe_verified_import stores the facts of a committed export.
LEMMA ObserveIInv ==
  ASSUME IInv, TypeOK', NEW d \in Domain, Observe(d)
  PROVE  IInv'
<1>1. PICK s \in Domain, e \in Epoch : \E leaf \in exportRoot[s][e] :
          observe_verified_import(d, ClaimOf(leaf))
  BY DEF Observe
<1>2. PICK leaf \in exportRoot[s][e] : observe_verified_import(d, ClaimOf(leaf))
  BY <1>1
<1> DEFINE new == leaf.export_id
           rec == [claim |-> ClaimOf(leaf), status |-> "RemoteObserved"]
<1>3. /\ new \in ExportId
      /\ SourceRecord(new) # Missing
      /\ SourceRecord(new).leaf = leaf
      /\ SourceRecord(new).status # "LocalFinal"
  BY CommittedLeaf
<1>4. /\ leaf.target_domain = d
      /\ observedImportsById[d][new] = Missing
      /\ observedImportsById' = [observedImportsById EXCEPT ![d][new] = rec]
      /\ epochFinalizedImportIds' = epochFinalizedImportIds
      /\ UNCHANGED <<exportVars, epochVars>>
  BY <1>2 DEF observe_verified_import, ClaimOf
<1>5. rec.claim = ClaimOf(leaf) /\ rec.status = "RemoteObserved"
  OBVIOUS
<1> HIDE DEF new, rec
<1>6. observedImportsById'[d][new] = rec
      /\ \A x \in Domain, id \in ExportId :
            ~(x = d /\ id = new) => observedImportsById'[x][id] = observedImportsById[x][id]
  <2>1. observedImportsById \in [Domain -> [ExportId -> ObservedImportRecord \cup {Missing}]]
    BY DEF IInv, TypeOK
  <2> QED
    BY <1>3, <1>4, <2>1
<1>7. \A x \in Domain, id \in ExportId :
          observedImportsById[x][id].status = "RemoteFinalized" =>
              observedImportsById'[x][id] = observedImportsById[x][id]
  BY <1>4, <1>6 DEF Missing
<1>8. ListedImports'
  <2>1. \A x \in Domain, k \in Epoch : epochFinalizedImportIds[x][k] \subseteq ExportId
    BY DEF IInv, TypeOK
  <2> QED
    BY <1>4, <1>7, <2>1 DEF IInv, ListedImports, epochVars
<1>9. RecomputedRootsMatch'
  <2> SUFFICES ASSUME NEW x \in Domain, NEW k \in Epoch, k < currentEpoch[x]
               PROVE  /\ canonical_epoch_exports(x, k)' = exportRoot[x][k]
                      /\ canonical_epoch_finalized_imports(x, k)' = importRoot[x][k]
    BY <1>4 DEF RecomputedRootsMatch, epochVars
  <2>1. \A id \in epochFinalizedImportIds[x][k] :
            observedImportsById'[x][id] = observedImportsById[x][id]
    BY <1>7 DEF IInv, TypeOK, ListedImports
  <2>2. canonical_epoch_finalized_imports(x, k)' = canonical_epoch_finalized_imports(x, k)
    BY <1>4, <2>1 DEF canonical_epoch_finalized_imports
  <2> QED
    BY <1>4, <2>2, ExportFrame DEF IInv, RecomputedRootsMatch
<1>10. ObservedFacts'
  <2> SUFFICES ASSUME NEW t \in Domain, NEW id \in ExportId,
                      observedImportsById'[t][id] # Missing
               PROVE  /\ SourceRecord(id) # Missing
                      /\ SourceRecord(id).status # "LocalFinal"
                      /\ SourceRecord(id).leaf.target_domain = t
                      /\ observedImportsById'[t][id].claim = ClaimOf(SourceRecord(id).leaf)
    BY <1>4, ExportFrame DEF ObservedFacts
  <2>1. CASE t = d /\ id = new
    BY <1>3, <1>4, <1>5, <1>6, <2>1
  <2>2. CASE ~(t = d /\ id = new)
    BY <1>6, <2>2 DEF IInv, ObservedFacts
  <2> QED
    BY <2>1, <2>2
<1>11. BurnedWasMinted'
  <2> SUFFICES ASSUME NEW id \in ExportId, Burned(id) PROVE Minted(id)'
    BY <1>4, ExportFrame DEF BurnedWasMinted, Burned
  <2>1. Minted(id)
    BY DEF IInv, BurnedWasMinted
  <2>2. SourceRecord(id).leaf.target_domain \in Domain
    BY <2>1, ExportIdFacts, RecordFacts DEF IInv, Minted, Created, SourceRecord
  <2>3. SourceRecord(id)' = SourceRecord(id)
    BY <1>4, ExportFrame
  <2> QED
    BY <1>7, <2>1, <2>2, <2>3 DEF Minted, Created
<1> QED
  BY <1>4, <1>8, <1>9, <1>10, <1>11, ExportFrame DEF IInv

\* finalize_verified_import finalizes an observed import, which no closed
\* epoch lists yet.
LEMMA FinalizeIInv ==
  ASSUME IInv, TypeOK', NEW d \in Domain, Finalize(d)
  PROVE  IInv'
<1>1. PICK fin \in ExportId : finalize_verified_import(d, fin)
  BY DEF Finalize
<1>2. /\ observedImportsById[d][fin] # Missing
      /\ observedImportsById[d][fin].status = "RemoteObserved"
      /\ observedImportsById' = [observedImportsById EXCEPT ![d][fin].status = "RemoteFinalized"]
      /\ epochFinalizedImportIds' = [epochFinalizedImportIds EXCEPT
                                        ![d][currentEpoch[d]] = @ \cup {fin}]
      /\ UNCHANGED <<exportVars, epochVars>>
  BY <1>1 DEF finalize_verified_import
<1>3. /\ observedImportsById'[d][fin].claim = observedImportsById[d][fin].claim
      /\ observedImportsById'[d][fin].status = "RemoteFinalized"
      /\ observedImportsById'[d][fin] # Missing
      /\ \A x \in Domain, id \in ExportId :
            ~(x = d /\ id = fin) => observedImportsById'[x][id] = observedImportsById[x][id]
  <2>1. observedImportsById \in [Domain -> [ExportId -> ObservedImportRecord \cup {Missing}]]
    BY DEF IInv, TypeOK
  <2>2. observedImportsById[d][fin] \in ObservedImportRecord
    BY <1>2, <2>1
  <2> QED
    BY <1>2, <2>1, <2>2 DEF ObservedImportRecord, Missing
<1>4. /\ epochFinalizedImportIds'[d][currentEpoch[d]]
             = epochFinalizedImportIds[d][currentEpoch[d]] \cup {fin}
      /\ \A x \in Domain, e \in Epoch :
            ~(x = d /\ e = currentEpoch[d]) =>
                epochFinalizedImportIds'[x][e] = epochFinalizedImportIds[x][e]
  <2>1. /\ epochFinalizedImportIds \in [Domain -> [Epoch -> SUBSET ExportId]]
        /\ currentEpoch[d] \in Epoch
    BY DEF IInv, TypeOK
  <2> QED
    BY <1>2, <2>1
<1>5. \A x \in Domain, id \in ExportId :
          observedImportsById[x][id].status = "RemoteFinalized" =>
              observedImportsById'[x][id] = observedImportsById[x][id]
  BY <1>2, <1>3
<1>6. \A x \in Domain, k \in Epoch : epochFinalizedImportIds[x][k] \subseteq ExportId
  BY DEF IInv, TypeOK
<1>7. ListedImports'
  <2> SUFFICES ASSUME NEW x \in Domain, NEW k \in Epoch,
                      NEW id \in epochFinalizedImportIds'[x][k]
               PROVE  /\ k <= currentEpoch[x]
                      /\ observedImportsById'[x][id].status = "RemoteFinalized"
    BY <1>2 DEF ListedImports, epochVars
  <2>1. CASE x = d /\ k = currentEpoch[d] /\ id = fin
    BY <1>3, <2>1, EpochsAreIntegers DEF IInv
  <2>2. CASE ~(x = d /\ k = currentEpoch[d] /\ id = fin)
    <3>1. id \in epochFinalizedImportIds[x][k]
      BY <1>4, <2>2
    <3> QED
      BY <1>5, <1>6, <3>1 DEF IInv, ListedImports
  <2> QED
    BY <2>1, <2>2
<1>8. RecomputedRootsMatch'
  <2> SUFFICES ASSUME NEW x \in Domain, NEW k \in Epoch, k < currentEpoch[x]
               PROVE  /\ canonical_epoch_exports(x, k)' = exportRoot[x][k]
                      /\ canonical_epoch_finalized_imports(x, k)' = importRoot[x][k]
    BY <1>2 DEF RecomputedRootsMatch, epochVars
  <2>1. epochFinalizedImportIds'[x][k] = epochFinalizedImportIds[x][k]
    BY <1>4, EpochsAreIntegers DEF IInv
  <2>2. \A id \in epochFinalizedImportIds[x][k] :
            observedImportsById'[x][id] = observedImportsById[x][id]
    BY <1>5, <1>6 DEF IInv, ListedImports
  <2>3. canonical_epoch_finalized_imports(x, k)' = canonical_epoch_finalized_imports(x, k)
    BY <2>1, <2>2 DEF canonical_epoch_finalized_imports
  <2> QED
    BY <1>2, <2>3, ExportFrame DEF IInv, RecomputedRootsMatch
<1>9. ObservedFacts'
  <2> SUFFICES ASSUME NEW t \in Domain, NEW id \in ExportId,
                      observedImportsById'[t][id] # Missing
               PROVE  /\ SourceRecord(id) # Missing
                      /\ SourceRecord(id).status # "LocalFinal"
                      /\ SourceRecord(id).leaf.target_domain = t
                      /\ observedImportsById'[t][id].claim = ClaimOf(SourceRecord(id).leaf)
    BY <1>2, ExportFrame DEF ObservedFacts
  <2>1. /\ observedImportsById[t][id] # Missing
        /\ observedImportsById'[t][id].claim = observedImportsById[t][id].claim
    BY <1>2, <1>3
  <2> QED
    BY <2>1 DEF IInv, ObservedFacts
<1>10. BurnedWasMinted'
  <2> SUFFICES ASSUME NEW id \in ExportId, Burned(id) PROVE Minted(id)'
    BY <1>2, ExportFrame DEF BurnedWasMinted, Burned
  <2>1. Minted(id)
    BY DEF IInv, BurnedWasMinted
  <2>2. SourceRecord(id).leaf.target_domain \in Domain
    BY <2>1, ExportIdFacts, RecordFacts, Zenon DEF IInv, Minted, Created, SourceRecord
  <2>3. SourceRecord(id)' = SourceRecord(id)
    BY <1>2, ExportFrame
  <2> QED
    BY <1>5, <2>1, <2>2, <2>3 DEF Minted, Created
<1> QED
  BY <1>2, <1>7, <1>8, <1>9, <1>10, ExportFrame DEF IInv

\* A step that changes nothing about exports but their status, and takes none
\* back to LocalFinal, keeps the leaves every epoch commits to.
LEMMA StatusFrame ==
  ASSUME IInv, UNCHANGED epochExportIds,
         \A x \in Domain, id \in ExportId :
             /\ exportsById'[x][id] # Missing <=> exportsById[x][id] # Missing
             /\ exportsById[x][id] # Missing => exportsById'[x][id].leaf = exportsById[x][id].leaf
  PROVE  /\ ListedExports'
         /\ \A x \in Domain, e \in Epoch :
               canonical_epoch_exports(x, e)' = canonical_epoch_exports(x, e)
<1>1. \A x \in Domain, e \in Epoch : epochExportIds[x][e] \subseteq ExportId
  BY DEF IInv, TypeOK
<1>2. ListedExports'
  <2> SUFFICES ASSUME NEW x \in Domain, NEW e \in Epoch, NEW id \in epochExportIds'[x][e]
               PROVE  exportsById'[x][id] # Missing /\ exportsById'[x][id].leaf.source_epoch_id = e
    BY DEF ListedExports
  <2>1. id \in epochExportIds[x][e] /\ id \in ExportId
    BY <1>1
  <2>2. exportsById[x][id] # Missing /\ exportsById[x][id].leaf.source_epoch_id = e
    BY <2>1 DEF IInv, ListedExports
  <2> QED
    BY <2>1, <2>2
<1>3. ASSUME NEW x \in Domain, NEW e \in Epoch
      PROVE  canonical_epoch_exports(x, e)' = canonical_epoch_exports(x, e)
  <2>1. \A id \in epochExportIds[x][e] :
            /\ exportsById'[x][id] # Missing
            /\ exportsById[x][id] # Missing
            /\ exportsById'[x][id].leaf = exportsById[x][id].leaf
    BY <1>1 DEF IInv, ListedExports
  <2> QED
    BY <2>1 DEF canonical_epoch_exports
<1> QED
  BY <1>2, <1>3

\* acknowledge_remote_finalization resolves an export its target has minted.
LEMMA AcknowledgeIInv ==
  ASSUME IInv, TypeOK', NEW d \in Domain, Acknowledge(d)
  PROVE  IInv'
<1>1. PICK t \in Domain, e \in Epoch : \E claim \in importRoot[t][e] :
          acknowledge_remote_finalization(d, claim)
  BY DEF Acknowledge
<1>2. PICK claim \in importRoot[t][e] : acknowledge_remote_finalization(d, claim)
  BY <1>1
<1> DEFINE ack == claim.export_id
<1>3. /\ ack \in ExportId
      /\ observedImportsById[t][ack].claim = claim
      /\ observedImportsById[t][ack].status = "RemoteFinalized"
  BY CommittedClaim
<1>4. /\ exportsById[d][ack] # Missing
      /\ exportsById[d][ack].status = "Exported"
      /\ exportsById' = [exportsById EXCEPT ![d][ack].status = "RemoteFinalized"]
      /\ UNCHANGED <<nextExportSequence, epochExportIds, importVars, epochVars>>
  BY <1>2 DEF acknowledge_remote_finalization
<1> HIDE DEF ack
<1>5. /\ exportsById'[d][ack].leaf = exportsById[d][ack].leaf
      /\ exportsById'[d][ack].status = "RemoteFinalized"
      /\ exportsById'[d][ack] # Missing
      /\ \A x \in Domain, id \in ExportId :
            ~(x = d /\ id = ack) => exportsById'[x][id] = exportsById[x][id]
  <2>1. exportsById \in [Domain -> [ExportId -> ExportRecord \cup {Missing}]]
    BY DEF IInv, TypeOK
  <2>2. exportsById[d][ack] \in ExportRecord
    BY <1>3, <1>4, <2>1
  <2> QED
    BY <1>3, <1>4, <2>1, <2>2 DEF ExportRecord, Missing
<1>6. \A x \in Domain, id \in ExportId :
          /\ exportsById'[x][id] # Missing <=> exportsById[x][id] # Missing
          /\ exportsById[x][id] # Missing => exportsById'[x][id].leaf = exportsById[x][id].leaf
          /\ exportsById'[x][id].status = "LocalFinal" <=> exportsById[x][id].status = "LocalFinal"
  BY <1>4, <1>5
<1>7. ExportsWellFormed'
  <2> SUFFICES ASSUME NEW x \in Domain, NEW id \in ExportId, exportsById'[x][id] # Missing
               PROVE  LET lf == exportsById'[x][id].leaf
                      IN  /\ id[1] = x
                          /\ id[2] < nextExportSequence'[x]
                          /\ lf.export_id = id
                          /\ lf.source_domain = x
                          /\ lf.target_domain # x
                          /\ lf.source_epoch_id <= currentEpoch'[x]
                          /\ id \in epochExportIds'[x][lf.source_epoch_id]
                          /\ exportsById'[x][id].status = "LocalFinal"
                                 <=> lf.source_epoch_id = currentEpoch'[x]
    BY DEF ExportsWellFormed
  <2>1. /\ nextExportSequence' = nextExportSequence
        /\ epochExportIds' = epochExportIds
        /\ currentEpoch' = currentEpoch
    BY <1>4 DEF epochVars
  <2>2. /\ exportsById[x][id] # Missing
        /\ exportsById'[x][id].leaf = exportsById[x][id].leaf
        /\ exportsById'[x][id].status = "LocalFinal" <=> exportsById[x][id].status = "LocalFinal"
    BY <1>6
  <2>3. /\ id[1] = x
        /\ id[2] < nextExportSequence[x]
        /\ exportsById[x][id].leaf.export_id = id
        /\ exportsById[x][id].leaf.source_domain = x
        /\ exportsById[x][id].leaf.target_domain # x
        /\ exportsById[x][id].leaf.source_epoch_id <= currentEpoch[x]
        /\ id \in epochExportIds[x][exportsById[x][id].leaf.source_epoch_id]
        /\ exportsById[x][id].status = "LocalFinal"
               <=> exportsById[x][id].leaf.source_epoch_id = currentEpoch[x]
    BY <2>2, WellFormedAt, SMTT(30)
  <2> QED
    BY <2>1, <2>2, <2>3
<1>8. ListedExports' /\ RecomputedRootsMatch'
  BY <1>4, <1>6, StatusFrame DEF IInv, RecomputedRootsMatch,
     canonical_epoch_finalized_imports, importVars, epochVars
<1>9. ListedImports' /\ OpenRootsEmpty'
  BY <1>4 DEF IInv, ListedImports, OpenRootsEmpty, importVars, epochVars
<1>10. \A id \in ExportId :
          /\ SourceRecord(id)' # Missing <=> SourceRecord(id) # Missing
          /\ SourceRecord(id) # Missing => SourceRecord(id)'.leaf = SourceRecord(id).leaf
          /\ SourceRecord(id)'.status = "LocalFinal" <=> SourceRecord(id).status = "LocalFinal"
  BY <1>6, ExportIdFacts DEF SourceRecord
<1>11. ObservedFacts'
  BY <1>4, <1>10 DEF IInv, ObservedFacts, importVars
<1>12. BurnedWasMinted'
  <2> SUFFICES ASSUME NEW id \in ExportId, Burned(id)' PROVE Minted(id)'
    BY DEF BurnedWasMinted
  <2>1. Minted(id)
    <3>1. CASE id = ack
      <4>1. SourceRecord(ack) # Missing /\ SourceRecord(ack).leaf.target_domain = t
        BY <1>3 DEF IInv, ObservedFacts, Missing
      <4> QED
        BY <1>3, <3>1, <4>1 DEF Minted, Created
    <3>2. CASE id # ack
      BY <1>5, <3>2, ExportIdFacts DEF IInv, BurnedWasMinted, Burned, SourceRecord
    <3> QED
      BY <3>1, <3>2
  <2> QED
    BY <1>4, <1>10, <2>1 DEF Minted, Created, importVars
<1> QED
  BY <1>7, <1>8, <1>9, <1>11, <1>12 DEF IInv

\* The epoch close moves the LocalFinal exports of its chain, all of the epoch
\* it closes, to Exported and changes nothing else about exports.
LEMMA CloseOnlyExports ==
  ASSUME IInv, TypeOK', NEW d \in Domain, stage_summary_for_closed_epoch(d)
  PROVE  \A x \in Domain, id \in ExportId :
            /\ exportsById'[x][id] # Missing <=> exportsById[x][id] # Missing
            /\ exportsById[x][id] # Missing => exportsById'[x][id].leaf = exportsById[x][id].leaf
            /\ exportsById'[x][id].status =
                  IF x = d /\ exportsById[x][id].status = "LocalFinal"
                  THEN "Exported" ELSE exportsById[x][id].status
<1> DEFINE cur == currentEpoch[d]
           ids == {leaf.export_id : leaf \in canonical_epoch_exports(d, cur)}
<1>1. exportsById' = [exportsById EXCEPT
               ![d] = [id \in ExportId |->
                          IF id \in ids /\ exportsById[d][id] # Missing
                          THEN [exportsById[d][id] EXCEPT !.status = "Exported"]
                          ELSE exportsById[d][id]]]
  BY DEF stage_summary_for_closed_epoch, commit_epoch_exports
<1>2. cur \in Epoch
  BY DEF IInv, TypeOK
<1>3. \A id \in ExportId : exportsById[d][id] # Missing =>
          (id \in ids <=> exportsById[d][id].leaf.source_epoch_id = cur)
  <2> SUFFICES ASSUME NEW id \in ExportId, exportsById[d][id] # Missing
               PROVE  id \in ids <=> exportsById[d][id].leaf.source_epoch_id = cur
    OBVIOUS
  <2>1. ASSUME id \in ids PROVE exportsById[d][id].leaf.source_epoch_id = cur
    <3>1. PICK leaf \in canonical_epoch_exports(d, cur) : id = leaf.export_id
      BY <2>1
    <3>2. PICK i \in epochExportIds[d][cur] :
              exportsById[d][i] # Missing /\ leaf = exportsById[d][i].leaf
      BY <3>1 DEF canonical_epoch_exports
    <3>3. i \in ExportId
      BY <1>2 DEF IInv, TypeOK
    <3>4. i = id
      <4>1. exportsById[d][i].leaf.export_id = i
        BY <3>2, <3>3, WellFormedAt
      <4> QED
        BY <3>1, <3>2, <4>1
    <3> QED
      BY <1>2, <3>2, <3>4 DEF IInv, ListedExports
  <2>2. ASSUME exportsById[d][id].leaf.source_epoch_id = cur PROVE id \in ids
    <3>1. /\ id \in epochExportIds[d][cur]
          /\ exportsById[d][id].leaf.export_id = id
      BY <2>2 DEF IInv, ExportsWellFormed
    <3>2. exportsById[d][id].leaf \in canonical_epoch_exports(d, cur)
      BY <3>1 DEF canonical_epoch_exports
    <3> QED
      BY <3>1, <3>2
  <2> QED
    BY <2>1, <2>2
<1> HIDE DEF ids
<1>4. ASSUME NEW id \in ExportId
      PROVE  /\ exportsById'[d][id] # Missing <=> exportsById[d][id] # Missing
             /\ exportsById[d][id] # Missing => exportsById'[d][id].leaf = exportsById[d][id].leaf
             /\ exportsById'[d][id].status =
                   IF exportsById[d][id].status = "LocalFinal"
                   THEN "Exported" ELSE exportsById[d][id].status
  <2>1. exportsById \in [Domain -> [ExportId -> ExportRecord \cup {Missing}]]
    BY DEF IInv, TypeOK
  <2>2. exportsById'[d][id] =
            IF id \in ids /\ exportsById[d][id] # Missing
            THEN [exportsById[d][id] EXCEPT !.status = "Exported"]
            ELSE exportsById[d][id]
    BY <1>1, <2>1
  <2>3. CASE exportsById[d][id] = Missing
    BY <2>2, <2>3 DEF Missing
  <2>4. CASE exportsById[d][id] # Missing
    <3>1. exportsById[d][id] \in ExportRecord
      BY <2>1, <2>4
    <3>2. id \in ids <=> exportsById[d][id].status = "LocalFinal"
      BY <1>3, <2>4, WellFormedAt, SMTT(30)
    <3> QED
      BY <2>2, <2>4, <3>1, <3>2 DEF ExportRecord, Missing
  <2> QED
    BY <2>3, <2>4
<1>5. \A x \in Domain : x # d => exportsById'[x] = exportsById[x]
  BY <1>1 DEF IInv, TypeOK
<1> QED
  BY <1>4, <1>5

\* The epoch close commits exactly the exports of the epoch it closes.
LEMMA CloseIInv ==
  ASSUME IInv, TypeOK', NEW d \in Domain, stage_summary_for_closed_epoch(d)
  PROVE  IInv'
<1> DEFINE cur == currentEpoch[d]
<1>1. /\ cur \in Epoch
      /\ cur \in Int
      /\ currentEpoch' = [currentEpoch EXCEPT ![d] = cur + 1]
      /\ exportRoot' = [exportRoot EXCEPT ![d][cur] = canonical_epoch_exports(d, cur)]
      /\ importRoot' = [importRoot EXCEPT ![d][cur] = canonical_epoch_finalized_imports(d, cur)]
      /\ UNCHANGED <<nextExportSequence, epochExportIds, importVars>>
  <2>1. cur \in Epoch
    BY DEF IInv, TypeOK
  <2> QED
    BY <2>1, EpochsAreIntegers DEF IInv, stage_summary_for_closed_epoch,
       commit_epoch_exports, commit_epoch_imports
<1>2. /\ currentEpoch'[d] = cur + 1
      /\ \A x \in Domain : x # d => currentEpoch'[x] = currentEpoch[x]
      /\ \A x \in Domain : currentEpoch'[x] \in Int /\ currentEpoch[x] \in Int
      /\ \A x \in Domain : currentEpoch'[x] >= currentEpoch[x]
  <2>1. currentEpoch \in [Domain -> Epoch]
    BY DEF IInv, TypeOK
  <2> QED
    BY <1>1, <2>1, EpochsAreIntegers DEF IInv
<1>3. /\ exportRoot'[d][cur] = canonical_epoch_exports(d, cur)
      /\ importRoot'[d][cur] = canonical_epoch_finalized_imports(d, cur)
      /\ \A x \in Domain, e \in Epoch : ~(x = d /\ e = cur) =>
            exportRoot'[x][e] = exportRoot[x][e] /\ importRoot'[x][e] = importRoot[x][e]
  <2>1. /\ exportRoot \in [Domain -> [Epoch -> SUBSET ExportLeaf]]
        /\ importRoot \in [Domain -> [Epoch -> SUBSET Claim]]
    BY DEF IInv, TypeOK
  <2> HIDE DEF cur
  <2> QED
    BY <1>1, <2>1
<1>7. \A x \in Domain, id \in ExportId :
          /\ exportsById'[x][id] # Missing <=> exportsById[x][id] # Missing
          /\ exportsById[x][id] # Missing => exportsById'[x][id].leaf = exportsById[x][id].leaf
          /\ exportsById'[x][id].status =
                IF x = d /\ exportsById[x][id].status = "LocalFinal"
                THEN "Exported" ELSE exportsById[x][id].status
  BY CloseOnlyExports
<1>8. ExportsWellFormed'
  <2> SUFFICES ASSUME NEW x \in Domain, NEW id \in ExportId,
                      exportsById'[x][id] # Missing
               PROVE  LET lf == exportsById'[x][id].leaf
                      IN  /\ id[1] = x
                          /\ id[2] < nextExportSequence[x]
                          /\ lf.export_id = id
                          /\ lf.source_domain = x
                          /\ lf.target_domain # x
                          /\ lf.source_epoch_id <= currentEpoch'[x]
                          /\ id \in epochExportIds[x][lf.source_epoch_id]
                          /\ exportsById'[x][id].status = "LocalFinal"
                                 <=> lf.source_epoch_id = currentEpoch'[x]
    BY <1>1 DEF ExportsWellFormed
  <2>4. exportsById[x][id] # Missing /\ exportsById'[x][id].leaf = exportsById[x][id].leaf
    BY <1>7
  <2>3. /\ id[1] = x
        /\ id[2] < nextExportSequence[x]
        /\ exportsById[x][id].leaf.export_id = id
        /\ exportsById[x][id].leaf.source_domain = x
        /\ exportsById[x][id].leaf.target_domain # x
        /\ exportsById[x][id].leaf.source_epoch_id <= currentEpoch[x]
        /\ id \in epochExportIds[x][exportsById[x][id].leaf.source_epoch_id]
        /\ exportsById[x][id].status = "LocalFinal"
               <=> exportsById[x][id].leaf.source_epoch_id = currentEpoch[x]
    BY <2>4, WellFormedAt
  <2>1. CASE x # d
    BY <1>2, <1>7, <2>4, <2>1, <2>3
  <2>2. CASE x = d
    <3>1. exportsById[x][id].leaf.source_epoch_id \in Int
      BY <2>4, EpochsAreIntegers, RecordFacts DEF IInv
    <3>2. /\ exportsById[x][id].leaf.source_epoch_id <= cur
          /\ exportsById[x][id].status = "LocalFinal"
                 <=> exportsById[x][id].leaf.source_epoch_id = cur
      BY <2>2, <2>3
    <3>3. exportsById'[x][id].status # "LocalFinal"
      BY <1>7, <2>2
    <3>4. exportsById[x][id].leaf.source_epoch_id < currentEpoch'[x]
      BY <1>1, <1>2, <2>2, <3>1, <3>2
    <3>5. currentEpoch'[x] \in Int
      BY <1>2
    <3>6. /\ exportsById[x][id].leaf.source_epoch_id <= currentEpoch'[x]
          /\ exportsById[x][id].leaf.source_epoch_id # currentEpoch'[x]
      BY <3>1, <3>4, <3>5
    <3> QED
      BY <2>3, <2>4, <3>3, <3>6
  <2> QED
    BY <2>1, <2>2
<1>9. /\ ListedExports'
      /\ \A x \in Domain, e \in Epoch :
            canonical_epoch_exports(x, e)' = canonical_epoch_exports(x, e)
  BY <1>1, <1>7, StatusFrame
<1>10. ListedImports'
  <2>1. \A x \in Domain, e \in Epoch : e \in Int
    BY EpochsAreIntegers DEF IInv
  <2> QED
    BY <1>1, <1>2, <2>1 DEF IInv, ListedImports, importVars
<1>11. OpenRootsEmpty'
  <2> SUFFICES ASSUME NEW x \in Domain, NEW e \in Epoch, e >= currentEpoch'[x]
               PROVE  exportRoot'[x][e] = {} /\ importRoot'[x][e] = {}
    BY DEF OpenRootsEmpty
  <2>1. e \in Int
    BY EpochsAreIntegers DEF IInv
  <2>2. ~(x = d /\ e = cur) /\ e >= currentEpoch[x]
    BY <1>1, <1>2, <2>1
  <2> QED
    BY <1>3, <2>2 DEF IInv, OpenRootsEmpty
<1>12. RecomputedRootsMatch'
  <2> SUFFICES ASSUME NEW x \in Domain, NEW e \in Epoch, e < currentEpoch'[x]
               PROVE  /\ canonical_epoch_exports(x, e)' = exportRoot'[x][e]
                      /\ canonical_epoch_finalized_imports(x, e)' = importRoot'[x][e]
    BY DEF RecomputedRootsMatch
  <2>1. canonical_epoch_finalized_imports(x, e)' = canonical_epoch_finalized_imports(x, e)
    BY <1>1 DEF canonical_epoch_finalized_imports, importVars
  <2>2. CASE x = d /\ e = cur
    BY <1>3, <1>9, <2>1, <2>2
  <2>3. CASE ~(x = d /\ e = cur)
    <3>1. e < currentEpoch[x]
      BY <1>1, <1>2, <2>3, EpochsAreIntegers DEF IInv
    <3> QED
      <4>1. /\ canonical_epoch_exports(x, e) = exportRoot[x][e]
            /\ canonical_epoch_finalized_imports(x, e) = importRoot[x][e]
        BY <3>1 DEF IInv, RecomputedRootsMatch
      <4>2. exportRoot'[x][e] = exportRoot[x][e] /\ importRoot'[x][e] = importRoot[x][e]
        BY <1>3, <2>3
      <4> QED
        BY <1>9, <2>1, <4>1, <4>2
  <2> QED
    BY <2>2, <2>3
<1>13. \A id \in ExportId :
          /\ SourceRecord(id)' # Missing <=> SourceRecord(id) # Missing
          /\ SourceRecord(id) # Missing => SourceRecord(id)'.leaf = SourceRecord(id).leaf
          /\ SourceRecord(id)'.status \in {"Exported", SourceRecord(id).status}
          /\ SourceRecord(id).status # "LocalFinal" =>
                SourceRecord(id)'.status = SourceRecord(id).status
  BY <1>7, ExportIdFacts DEF SourceRecord
<1>14. ObservedFacts'
  BY <1>1, <1>13 DEF IInv, ObservedFacts, importVars
<1>15. BurnedWasMinted'
  <2> SUFFICES ASSUME NEW id \in ExportId, Burned(id)' PROVE Minted(id)'
    BY DEF BurnedWasMinted
  <2>1. SourceRecord(id)' # Missing
    BY DEF Burned, Missing
  <2>2. Burned(id)
    BY <1>13, <2>1 DEF Burned
  <2>3. Minted(id)
    BY <2>2 DEF IInv, BurnedWasMinted
  <2> QED
    BY <1>1, <1>13, <2>1, <2>3 DEF Minted, Created, importVars
<1> QED
  BY <1>8, <1>9, <1>10, <1>11, <1>12, <1>14, <1>15 DEF IInv

\* Every step keeps the invariant.
LEMMA NextIInv == IInv /\ [Next]_vars => IInv'
<1> SUFFICES ASSUME IInv, [Next]_vars PROVE IInv'
  OBVIOUS
<1>1. TypeOK'
  BY NextTypeOK DEF IInv
<1>2. ASSUME NEW d \in Domain, Create(d) PROVE IInv'
  BY <1>1, <1>2, CreateIInv
<1>3. ASSUME NEW d \in Domain, Observe(d) PROVE IInv'
  BY <1>1, <1>3, ObserveIInv
<1>4. ASSUME NEW d \in Domain, Finalize(d) PROVE IInv'
  BY <1>1, <1>4, FinalizeIInv
<1>5. ASSUME NEW d \in Domain, Acknowledge(d) PROVE IInv'
  BY <1>1, <1>5, AcknowledgeIInv
<1>6. ASSUME NEW d \in Domain, stage_summary_for_closed_epoch(d) PROVE IInv'
  BY <1>1, <1>6, CloseIInv
<1>7. CASE UNCHANGED vars
  <2>1. UNCHANGED <<exportVars, epochVars>>
    BY <1>7 DEF vars
  <2>2. /\ observedImportsById' = observedImportsById
        /\ UNCHANGED importVars
    BY <1>7 DEF vars, importVars
  <2>3. ListedImports' /\ RecomputedRootsMatch'
    <3>1. ListedImports'
      BY <2>1, <2>2 DEF IInv, ListedImports, importVars, epochVars
    <3>2. \A d \in Domain, e \in Epoch :
             canonical_epoch_finalized_imports(d, e)' = canonical_epoch_finalized_imports(d, e)
      BY <2>2 DEF canonical_epoch_finalized_imports, importVars
    <3>3. \A d \in Domain, e \in Epoch :
             canonical_epoch_exports(d, e)' = canonical_epoch_exports(d, e)
      BY <2>1, ExportFrame
    <3> QED
      BY <2>1, <3>1, <3>2, <3>3 DEF IInv, RecomputedRootsMatch, epochVars
  <2>4. ObservedFacts'
    <3>1. \A id : SourceRecord(id)' = SourceRecord(id)
      BY <2>1, ExportFrame
    <3> QED
      BY <2>2, <3>1 DEF IInv, ObservedFacts
  <2>5. BurnedWasMinted'
    <3>1. \A id \in ExportId : SourceRecord(id)' = SourceRecord(id)
      BY <2>1, ExportFrame
    <3>2. \A id \in ExportId : (Burned(id)' <=> Burned(id)) /\ (Minted(id)' <=> Minted(id))
      BY <2>2, <3>1 DEF Burned, Minted, Created
    <3> QED
      BY <3>2 DEF IInv, BurnedWasMinted
  <2> QED
    BY <1>1, <2>1, <2>3, <2>4, <2>5, ExportFrame DEF IInv
<1> QED
  BY <1>2, <1>3, <1>4, <1>5, <1>6, <1>7 DEF Next

\* The inductive invariant holds in every reachable state.
THEOREM Invariance == Spec => []IInv
  BY InitIInv, NextIInv, PTL DEF Spec

-----------------------------------------------------------------------------
(* Safety *)

\* The leaf of an export whose epoch is closed is under that epoch's root.
LEMMA ClosedExportIsCommitted ==
  ASSUME IInv, NEW d \in Domain, NEW id \in ExportId,
         exportsById[d][id] # Missing, exportsById[d][id].status # "LocalFinal"
  PROVE  /\ exportsById[d][id].leaf.source_epoch_id \in Epoch
         /\ exportsById[d][id].leaf \in exportRoot[d][exportsById[d][id].leaf.source_epoch_id]
<1> DEFINE leaf == exportsById[d][id].leaf
           e == leaf.source_epoch_id
<1>1. e \in Epoch
  BY RecordFacts DEF IInv
<1>2. /\ e <= currentEpoch[d]
      /\ e # currentEpoch[d]
      /\ id \in epochExportIds[d][e]
  BY SMTT(30) DEF IInv, ExportsWellFormed
<1>3. e < currentEpoch[d]
  BY <1>1, <1>2, EpochsAreIntegers DEF IInv
<1>4. leaf \in canonical_epoch_exports(d, e)
  BY <1>2 DEF canonical_epoch_exports
<1> QED
  BY <1>1, <1>3, <1>4 DEF IInv, RecomputedRootsMatch

\* A chain observes, and so mints, only what the source chain committed for
\* it, with the facts it committed, over every replay of every claim.
THEOREM ObservedWasCommittedHolds == Spec => []ObservedWasCommitted
<1>1. IInv => ObservedWasCommitted
  <2> SUFFICES ASSUME IInv, NEW t \in Domain, NEW id \in ExportId,
                      observedImportsById[t][id] # Missing
               PROVE  /\ SourceRecord(id) # Missing
                      /\ SourceRecord(id).status # "LocalFinal"
                      /\ observedImportsById[t][id].claim = ClaimOf(SourceRecord(id).leaf)
                      /\ SourceRecord(id).leaf.target_domain = t
                      /\ SourceRecord(id).leaf \in
                            exportRoot[id[1]][SourceRecord(id).leaf.source_epoch_id]
    BY DEF ObservedWasCommitted
  <2>1. /\ SourceRecord(id) # Missing
        /\ SourceRecord(id).status # "LocalFinal"
        /\ SourceRecord(id).leaf.target_domain = t
        /\ observedImportsById[t][id].claim = ClaimOf(SourceRecord(id).leaf)
    BY DEF IInv, ObservedFacts
  <2> QED
    BY <2>1, ClosedExportIsCommitted, ExportIdFacts DEF SourceRecord
<1> QED
  BY <1>1, Invariance, PTL

\* The source hold is burned only after the target minted.
THEOREM BurnedWasMintedHolds == Spec => []BurnedWasMinted
<1>1. IInv => BurnedWasMinted
  BY DEF IInv
<1> QED
  BY <1>1, Invariance, PTL

\* The roots of a closed epoch can be recomputed from storage forever.
THEOREM RecomputedRootsMatchHolds == Spec => []RecomputedRootsMatch
<1>1. IInv => RecomputedRootsMatch
  BY DEF IInv
<1> QED
  BY <1>1, Invariance, PTL

\* Every export is committed by the summary of its own epoch and by no other.
THEOREM ExportCommittedOnceHolds == Spec => []ExportCommittedOnce
<1>1. IInv => ExportCommittedOnce
  <2> SUFFICES ASSUME IInv, NEW d \in Domain, NEW id \in ExportId,
                      exportsById[d][id] # Missing
               PROVE  LET record == exportsById[d][id]
                      IN  /\ id[1] = d
                          /\ (record.status = "LocalFinal")
                                 = (record.leaf.source_epoch_id = currentEpoch[d])
                          /\ {e \in Epoch : record.leaf \in exportRoot[d][e]} =
                                 IF record.status = "LocalFinal"
                                 THEN {} ELSE {record.leaf.source_epoch_id}
    BY DEF ExportCommittedOnce
  <2>1. /\ id[1] = d
        /\ exportsById[d][id].leaf.export_id = id
        /\ exportsById[d][id].status = "LocalFinal"
               <=> exportsById[d][id].leaf.source_epoch_id = currentEpoch[d]
    BY DEF IInv, ExportsWellFormed
  <2>2. ASSUME NEW e \in Epoch, exportsById[d][id].leaf \in exportRoot[d][e]
        PROVE  /\ exportsById[d][id].status # "LocalFinal"
               /\ exportsById[d][id].leaf.source_epoch_id = e
    BY <2>1, <2>2, CommittedLeaf, SMTT(30) DEF SourceRecord
  <2>3. CASE exportsById[d][id].status = "LocalFinal"
    BY <2>1, <2>2, <2>3
  <2>4. CASE exportsById[d][id].status # "LocalFinal"
    BY <2>1, <2>2, <2>4, ClosedExportIsCommitted
  <2> QED
    BY <2>3, <2>4
<1> QED
  BY <1>1, Invariance, PTL

-----------------------------------------------------------------------------
(* Refinement: the abstract transfer *)

\* The facts a step of an action leaves for the refinement mapping: the records
\* of the source chains and the minted imports determine the mapped state.
LEMMA BarUnchanged ==
  ASSUME \A id \in ExportId : /\ id \in Created' <=> id \in Created
                              /\ id \in Created => SourceRecord(id)'.leaf = SourceRecord(id).leaf
                              /\ Burned(id)' <=> Burned(id)
                              /\ Minted(id)' <=> Minted(id)
  PROVE  dealBar' = dealBar /\ phaseBar' = phaseBar
  BY DEF dealBar, phaseBar

\* The initial state maps to an initial state.
LEMMA InitRefines == Init => E!Init
<1> SUFFICES ASSUME Init PROVE E!Init
  OBVIOUS
<1>1. \A id \in ExportId : id \notin Created
  BY ExportIdFacts DEF Init, Created, SourceRecord
<1>2. dealBar = [id \in ExportId |-> Missing] /\ phaseBar = [id \in ExportId |-> "None"]
  BY <1>1 DEF dealBar, phaseBar
<1>3. held = [d \in DOMAIN InitialFree |-> [a \in DOMAIN InitialFree[d] |-> 0]]
  BY ConstantsAssumption DEF Init
<1> QED
  BY <1>2, <1>3 DEF Init, E!Init

\* create_cross_domain_transfer locks a new deal.
LEMMA CreateRefines ==
  ASSUME IInv, NEW d \in Domain, Create(d)
  PROVE  \E id \in ExportId : E!Lock(id)
<1>1. PICK who \in Account, recipient \in Account, target \in Domain, amount \in Amount :
          create_cross_domain_transfer(d, who, target, recipient, amount)
  BY DEF Create
<1>2. PICK new \in ExportId : new = <<d, nextExportSequence[d]>>
  BY <1>1, ExportIdFacts, Zenon DEF IInv, TypeOK, create_cross_domain_transfer
<1> DEFINE leaf == [export_id |-> new, source_domain |-> d,
                    target_domain |-> target, sender |-> who,
                    recipient |-> recipient, amount |-> amount,
                    source_epoch_id |-> currentEpoch[d]]
           rec == [leaf |-> leaf, status |-> "LocalFinal"]
<1>3. exportsById[d][new] = Missing
  <2>1. nextExportSequence[d] \in Nat /\ new[2] = nextExportSequence[d]
    BY <1>2 DEF IInv, TypeOK
  <2>2. ~(new[2] < nextExportSequence[d])
    BY <2>1
  <2> QED
    BY <1>2, <2>2, WellFormedAt, Zenon
<1>4. leaf \in ExportLeaf
  BY <1>2 DEF IInv, TypeOK, ExportLeaf
<1>5. /\ exportsById' = [exportsById EXCEPT ![d][new] = rec]
      /\ target # d
      /\ UNCHANGED observedImportsById
      /\ hold(d, who, amount)
  BY <1>1, <1>2 DEF create_cross_domain_transfer, export_id, importVars
<1>6. /\ free[d][who] >= amount
      /\ free' = [free EXCEPT ![d][who] = @ - amount]
      /\ held' = [held EXCEPT ![d][who] = @ + amount]
  <2>1. free[d][who] \in Nat /\ amount \in Nat
    BY ConstantsAssumption DEF IInv, TypeOK
  <2> QED
    BY <1>5, <2>1, ConstantsAssumption, SMTT(30) DEF hold, can_hold
<1>7. /\ rec.leaf = leaf
      /\ rec.status = "LocalFinal"
      /\ rec # Missing
      /\ leaf.source_domain = d
      /\ leaf.target_domain = target
      /\ leaf.sender = who
      /\ leaf.amount = amount
  BY Zenon DEF Missing
<1> HIDE DEF leaf, rec
<1>8. /\ SourceRecord(new) = Missing
      /\ SourceRecord(new)' = rec
      /\ \A id \in ExportId : id # new => SourceRecord(id)' = SourceRecord(id)
  BY <1>2, <1>3, <1>5, ExportIdFacts DEF IInv, TypeOK, SourceRecord
<1>9. /\ new \notin Created
      /\ new \in Created'
      /\ \A id \in ExportId : id # new =>
            /\ id \in Created' <=> id \in Created
            /\ Burned(id)' <=> Burned(id)
            /\ Minted(id)' <=> Minted(id)
  BY <1>2, <1>5, <1>7, <1>8 DEF Created, Burned, Minted
<1>10. phaseBar[new] = "None"
  BY <1>2, <1>9 DEF phaseBar
<1>11. dealBar' = [dealBar EXCEPT ![new] = leaf]
  BY <1>2, <1>7, <1>8, <1>9, Zenon DEF dealBar
<1>12. ~ Burned(new)' /\ ~ Minted(new)'
  <2>1. ~ Burned(new)'
    BY <1>7, <1>8 DEF Burned
  <2>2. observedImportsById[target][new] = Missing
    BY <1>2, <1>8 DEF IInv, ObservedFacts
  <2>3. ~ Minted(new)'
    BY <1>5, <1>7, <1>8, <2>2 DEF Minted, Missing
  <2> QED
    BY <2>1, <2>3
<1>13. phaseBar' = [phaseBar EXCEPT ![new] = "Locked"]
  BY <1>2, <1>9, <1>12, Zenon DEF phaseBar
<1> QED
  BY <1>2, <1>4, <1>5, <1>6, <1>7, <1>10, <1>11, <1>13, Zenon DEF E!Lock

\* finalize_verified_import credits a locked deal.
LEMMA FinalizeRefines ==
  ASSUME IInv, NEW d \in Domain, Finalize(d)
  PROVE  \E id \in ExportId : E!Credit(id)
<1>1. PICK fin \in ExportId : finalize_verified_import(d, fin)
  BY DEF Finalize
<1>2. /\ observedImportsById[d][fin] # Missing
      /\ observedImportsById[d][fin].status = "RemoteObserved"
      /\ observedImportsById' = [observedImportsById EXCEPT ![d][fin].status = "RemoteFinalized"]
      /\ mint_into(d, observedImportsById[d][fin].claim.recipient,
                      observedImportsById[d][fin].claim.amount)
      /\ UNCHANGED exportVars
  BY <1>1 DEF finalize_verified_import
<1>3. /\ SourceRecord(fin) # Missing
      /\ SourceRecord(fin).leaf.target_domain = d
      /\ observedImportsById[d][fin].claim = ClaimOf(SourceRecord(fin).leaf)
  BY <1>2 DEF IInv, ObservedFacts
<1>4. \A id : SourceRecord(id)' = SourceRecord(id)
  BY <1>2 DEF SourceRecord, exportVars
<1>5. /\ Created' = Created
      /\ \A id \in ExportId : Burned(id)' <=> Burned(id)
  BY <1>4 DEF Created, Burned
<1>6. /\ observedImportsById'[d][fin].status = "RemoteFinalized"
      /\ \A x \in Domain, id \in ExportId :
            ~(x = d /\ id = fin) => observedImportsById'[x][id] = observedImportsById[x][id]
  <2>1. observedImportsById \in [Domain -> [ExportId -> ObservedImportRecord \cup {Missing}]]
    BY DEF IInv, TypeOK
  <2>2. observedImportsById[d][fin] \in ObservedImportRecord
    BY <1>2, <2>1
  <2> QED
    BY <1>2, <2>1, <2>2 DEF ObservedImportRecord
<1>7. /\ ~ Minted(fin)
      /\ Minted(fin)'
      /\ \A id \in ExportId : id # fin => (Minted(id)' <=> Minted(id))
  <2>1. \A id \in Created : SourceRecord(id).leaf.target_domain \in Domain
    BY CreatedTarget
  <2> QED
    BY <1>2, <1>3, <1>4, <1>5, <1>6, <2>1 DEF Minted, Created
<1>8. fin \in Created /\ ~ Burned(fin)
  BY <1>3, <1>7 DEF IInv, BurnedWasMinted, Created
<1>9. phaseBar[fin] = "Locked"
  BY <1>7, <1>8 DEF phaseBar
<1>10. phaseBar' = [phaseBar EXCEPT ![fin] = "Credited"]
  BY <1>5, <1>7, <1>8, Zenon DEF phaseBar
<1>11. dealBar' = dealBar
  BY <1>4, <1>5 DEF dealBar
<1>12. /\ dealBar[fin].target_domain = d
       /\ dealBar[fin].recipient = observedImportsById[d][fin].claim.recipient
       /\ dealBar[fin].amount = observedImportsById[d][fin].claim.amount
  <2>1. dealBar[fin] = SourceRecord(fin).leaf
    BY <1>8 DEF dealBar
  <2>2. /\ observedImportsById[d][fin].claim = ClaimOf(SourceRecord(fin).leaf)
        /\ SourceRecord(fin).leaf.target_domain = d
    BY <1>3
  <2>3. /\ observedImportsById[d][fin].claim.recipient = SourceRecord(fin).leaf.recipient
        /\ observedImportsById[d][fin].claim.amount = SourceRecord(fin).leaf.amount
    BY <2>2, ClaimFields
  <2> QED
    BY <2>1, <2>2, <2>3
<1> QED
  BY <1>2, <1>9, <1>10, <1>11, <1>12, Zenon DEF E!Credit, mint_into

\* acknowledge_remote_finalization settles a credited deal.
LEMMA AcknowledgeRefines ==
  ASSUME IInv, NEW d \in Domain, Acknowledge(d)
  PROVE  \E id \in ExportId : E!Settle(id)
<1>1. PICK t \in Domain, e \in Epoch : \E claim \in importRoot[t][e] :
          acknowledge_remote_finalization(d, claim)
  BY DEF Acknowledge
<1>2. PICK claim \in importRoot[t][e] : acknowledge_remote_finalization(d, claim)
  BY <1>1
<1> DEFINE ack == claim.export_id
<1>3. /\ ack \in ExportId
      /\ observedImportsById[t][ack].status = "RemoteFinalized"
  BY CommittedClaim
<1>4. /\ exportsById[d][ack] # Missing
      /\ exportsById[d][ack].status = "Exported"
      /\ exportsById' = [exportsById EXCEPT ![d][ack].status = "RemoteFinalized"]
      /\ burn_held(d, exportsById[d][ack].leaf.sender, exportsById[d][ack].leaf.amount)
      /\ UNCHANGED observedImportsById
  BY <1>2 DEF acknowledge_remote_finalization, importVars
<1> HIDE DEF ack
<1>5. ack[1] = d /\ exportsById[d][ack].leaf.source_domain = d
  BY <1>3, <1>4 DEF IInv, ExportsWellFormed
<1>6. /\ SourceRecord(ack) = exportsById[d][ack]
      /\ SourceRecord(ack)' # Missing
      /\ SourceRecord(ack)'.leaf = SourceRecord(ack).leaf
      /\ SourceRecord(ack)'.status = "RemoteFinalized"
      /\ \A id \in ExportId : id # ack => SourceRecord(id)' = SourceRecord(id)
  <2>1. exportsById \in [Domain -> [ExportId -> ExportRecord \cup {Missing}]]
    BY DEF IInv, TypeOK
  <2>2. exportsById[d][ack] \in ExportRecord
    BY <1>3, <1>4, <2>1
  <2> QED
    BY <1>3, <1>4, <1>5, <2>1, <2>2, ExportIdFacts DEF SourceRecord, ExportRecord, Missing
<1>7. SourceRecord(ack).leaf.target_domain = t
  BY <1>3 DEF IInv, ObservedFacts, Missing
<1>8. /\ ack \in Created
      /\ Created' = Created
      /\ Minted(ack) /\ ~ Burned(ack) /\ Burned(ack)'
      /\ \A id \in ExportId : id # ack => (Burned(id)' <=> Burned(id))
      /\ \A id \in ExportId : Minted(id)' <=> Minted(id)
  BY <1>3, <1>4, <1>6, <1>7 DEF Created, Minted, Burned
<1>9. phaseBar[ack] = "Credited"
  BY <1>3, <1>8 DEF phaseBar
<1>10. phaseBar' = [phaseBar EXCEPT ![ack] = "Settled"]
  BY <1>3, <1>8, Zenon DEF phaseBar
<1>11. dealBar' = dealBar
  BY <1>6, <1>8 DEF dealBar
<1>12. /\ dealBar[ack].source_domain = d
       /\ dealBar[ack].sender = exportsById[d][ack].leaf.sender
       /\ dealBar[ack].amount = exportsById[d][ack].leaf.amount
  BY <1>3, <1>5, <1>6, <1>8 DEF dealBar
<1> QED
  BY <1>3, <1>4, <1>9, <1>10, <1>11, <1>12, Zenon DEF E!Settle, burn_held

\* Observing an import is invisible to the abstract transfer.
LEMMA ObserveStutters ==
  ASSUME IInv, NEW d \in Domain, Observe(d)
  PROVE  UNCHANGED <<dealBar, phaseBar, free, held>>
<1>1. PICK s \in Domain, e \in Epoch : \E leaf \in exportRoot[s][e] :
          observe_verified_import(d, ClaimOf(leaf))
  BY DEF Observe
<1>2. PICK leaf \in exportRoot[s][e] : observe_verified_import(d, ClaimOf(leaf))
  BY <1>1
<1> DEFINE new == leaf.export_id
           rec == [claim |-> ClaimOf(leaf), status |-> "RemoteObserved"]
<1>3. /\ new \in ExportId
      /\ observedImportsById[d][new] = Missing
      /\ observedImportsById' = [observedImportsById EXCEPT ![d][new] = rec]
      /\ UNCHANGED <<exportVars, free, held>>
  BY <1>2, CommittedLeaf DEF observe_verified_import, ClaimOf, balanceVars
<1>4. \A id : SourceRecord(id)' = SourceRecord(id)
  BY <1>3 DEF SourceRecord, exportVars
<1>5. \A x \in Domain, id \in ExportId :
          observedImportsById'[x][id].status = "RemoteFinalized"
              <=> observedImportsById[x][id].status = "RemoteFinalized"
  <2>1. observedImportsById \in [Domain -> [ExportId -> ObservedImportRecord \cup {Missing}]]
    BY DEF IInv, TypeOK
  <2>2. rec.status = "RemoteObserved" /\ Missing.status = "Missing"
    BY DEF Missing
  <2> HIDE DEF new, rec
  <2> QED
    BY <1>3, <2>1, <2>2
<1>6. \A id \in Created : SourceRecord(id).leaf.target_domain \in Domain
  BY CreatedTarget
<1>7. \A id \in ExportId : /\ id \in Created' <=> id \in Created
                           /\ Burned(id)' <=> Burned(id)
                           /\ Minted(id)' <=> Minted(id)
  BY <1>4, <1>5, <1>6 DEF Created, Burned, Minted
<1> QED
  BY <1>3, <1>4, <1>7, BarUnchanged

\* The epoch close is invisible to the abstract transfer.
LEMMA CloseStutters ==
  ASSUME IInv, TypeOK', NEW d \in Domain, stage_summary_for_closed_epoch(d)
  PROVE  UNCHANGED <<dealBar, phaseBar, free, held>>
<1>1. UNCHANGED <<free, held, observedImportsById>>
  BY DEF stage_summary_for_closed_epoch, balanceVars, importVars
<1>2. \A x \in Domain, id \in ExportId :
          /\ exportsById'[x][id] # Missing <=> exportsById[x][id] # Missing
          /\ exportsById[x][id] # Missing => exportsById'[x][id].leaf = exportsById[x][id].leaf
          /\ exportsById'[x][id].status = "RemoteFinalized"
                <=> exportsById[x][id].status = "RemoteFinalized"
  BY CloseOnlyExports
<1>3. \A id \in ExportId : /\ id \in Created' <=> id \in Created
                           /\ id \in Created => SourceRecord(id)'.leaf = SourceRecord(id).leaf
                           /\ Burned(id)' <=> Burned(id)
  BY <1>2, ExportIdFacts DEF Created, SourceRecord, Burned
<1>4. \A id \in ExportId : Minted(id)' <=> Minted(id)
  BY <1>1, <1>3 DEF Minted
<1> QED
  BY <1>1, <1>3, <1>4, BarUnchanged

\* Every step maps to a step of the abstract transfer or changes nothing of it.
LEMMA NextRefines ==
  ASSUME IInv, [Next]_vars
  PROVE  [E!Next]_(E!vars)
<1>1. ASSUME NEW d \in Domain, Create(d) PROVE E!Next
  BY <1>1, CreateRefines DEF E!Next
<1>2. ASSUME NEW d \in Domain, Finalize(d) PROVE E!Next
  BY <1>2, FinalizeRefines DEF E!Next
<1>3. ASSUME NEW d \in Domain, Acknowledge(d) PROVE E!Next
  BY <1>3, AcknowledgeRefines DEF E!Next
<1>4. ASSUME NEW d \in Domain, Observe(d) PROVE UNCHANGED E!vars
  BY <1>4, ObserveStutters DEF E!vars
<1>5. ASSUME NEW d \in Domain, stage_summary_for_closed_epoch(d) PROVE UNCHANGED E!vars
  BY <1>5, CloseStutters, NextTypeOK DEF E!vars, IInv, Next
<1>6. CASE UNCHANGED vars
  BY <1>6 DEF vars, exportVars, importVars, balanceVars, E!vars, dealBar, phaseBar,
              Created, Burned, Minted, SourceRecord
<1> QED
  BY <1>1, <1>2, <1>3, <1>4, <1>5, <1>6 DEF Next

\* The pallet and the epoch close, on any number of chains and over every
\* interleaving and replay, implement the abstract transfer.
THEOREM Refinement == Spec => EscrowSpec
<1>1. Init => E!Init
  BY InitRefines
<1>2. IInv /\ [Next]_vars => [E!Next]_(E!vars)
  BY NextRefines
<1> QED
  BY <1>1, <1>2, Invariance, PTL DEF Spec, EscrowSpec, E!Spec

-----------------------------------------------------------------------------
(* The action property *)

\* One export of one chain advances by at most one status and keeps its leaf.
Advances(before, after) ==
    /\ ExportRank(after) - ExportRank(before) \in {0, 1}
    /\ before # Missing => after.leaf = before.leaf

\* An unchanged record advances by nothing.
LEMMA UnchangedAdvances ==
  ASSUME NEW record \in ExportRecord \cup {Missing}
  PROVE  Advances(record, record)
BY DEF Advances, ExportRank, ExportRecord, ExportStatus, Missing

\* The three ways a record changes are each one status forward.
LEMMA OneStatusForward ==
  ASSUME NEW before \in ExportRecord \cup {Missing}, NEW after \in ExportRecord,
         before # Missing => after.leaf = before.leaf,
         \/ before.status = "Missing" /\ after.status = "LocalFinal"
         \/ before.status = "LocalFinal" /\ after.status = "Exported"
         \/ before.status = "Exported" /\ after.status = "RemoteFinalized"
  PROVE  Advances(before, after)
BY DEF Advances, ExportRank, ExportRecord, ExportStatus, Missing

\* No step takes an export back, skips a status or changes its leaf.
THEOREM SettlementOnlyAdvancesHolds == Spec => SettlementOnlyAdvances
<1>1. ASSUME IInv, [Next]_vars, NEW d \in Domain, NEW id \in ExportId
      PROVE  Advances(exportsById[d][id], exportsById[d][id]')
  <2>1. exportsById \in [Domain -> [ExportId -> ExportRecord \cup {Missing}]]
    BY <1>1 DEF IInv, TypeOK
  <2>2. TypeOK'
    BY <1>1, NextTypeOK DEF IInv
  <2>3. exportsById' \in [Domain -> [ExportId -> ExportRecord \cup {Missing}]]
    BY <2>2 DEF TypeOK
  <2>4. CASE exportsById[d][id]' = exportsById[d][id]
    BY <2>1, <2>4, UnchangedAdvances
  <2>5. ASSUME NEW x \in Domain, Create(x), exportsById[d][id]' # exportsById[d][id]
        PROVE  Advances(exportsById[d][id], exportsById[d][id]')
    <3>1. PICK who \in Account, recipient \in Account, target \in Domain, amount \in Amount :
              create_cross_domain_transfer(x, who, target, recipient, amount)
      BY <2>5 DEF Create
    <3>2. PICK new, leaf :
              /\ new = <<x, nextExportSequence[x]>>
              /\ exportsById' = [exportsById EXCEPT
                     ![x][new] = [leaf |-> leaf, status |-> "LocalFinal"]]
      BY <3>1, Zenon DEF create_cross_domain_transfer, export_id
    <3>3. d = x /\ id = new
      BY <2>1, <2>5, <3>2
    <3>4. exportsById[d][id] = Missing
      <4>1. nextExportSequence[d] \in Nat
        BY <1>1 DEF IInv, TypeOK
      <4>2. ~ (id[2] < nextExportSequence[d])
        BY <3>2, <3>3, <4>1
      <4> QED
        BY <1>1, <4>2, Zenon DEF IInv, ExportsWellFormed
    <3>5. exportsById'[d][id] = [leaf |-> leaf, status |-> "LocalFinal"]
      BY <2>1, <3>2, <3>3
    <3>6. exportsById'[d][id] \in ExportRecord
      <4>1. exportsById'[d][id] # Missing
        BY <3>5 DEF Missing
      <4>2. exportsById'[d][id] \in ExportRecord \cup {Missing}
        BY <2>3
      <4> QED
        BY <4>1, <4>2
    <3> QED
      BY <3>4, <3>5, <3>6, OneStatusForward DEF Missing
  <2>6. ASSUME NEW x \in Domain, Acknowledge(x), exportsById[d][id]' # exportsById[d][id]
        PROVE  Advances(exportsById[d][id], exportsById[d][id]')
    <3>1. PICK ack : /\ exportsById[x][ack].status = "Exported"
                     /\ exportsById[x][ack] # Missing
                     /\ exportsById' = [exportsById EXCEPT
                            ![x][ack].status = "RemoteFinalized"]
      BY <2>6, Zenon DEF Acknowledge, acknowledge_remote_finalization
    <3>2. d = x /\ id = ack
      BY <2>1, <2>6, <3>1
    <3>3. exportsById[d][id] \in ExportRecord
      BY <2>1, <3>1, <3>2
    <3>4. exportsById'[d][id] = [exportsById[d][id] EXCEPT !.status = "RemoteFinalized"]
      BY <2>1, <3>1, <3>2
    <3>5. /\ exportsById'[d][id] \in ExportRecord
          /\ exportsById'[d][id].leaf = exportsById[d][id].leaf
          /\ exportsById'[d][id].status = "RemoteFinalized"
      BY <3>3, <3>4 DEF ExportRecord, ExportStatus
    <3> QED
      BY <3>1, <3>2, <3>3, <3>5, OneStatusForward, Zenon
  <2>7. ASSUME NEW x \in Domain, stage_summary_for_closed_epoch(x),
               exportsById[d][id]' # exportsById[d][id]
        PROVE  Advances(exportsById[d][id], exportsById[d][id]')
    <3>1. /\ exportsById'[d][id] # Missing <=> exportsById[d][id] # Missing
          /\ exportsById[d][id] # Missing => exportsById'[d][id].leaf = exportsById[d][id].leaf
          /\ exportsById'[d][id].status =
                IF d = x /\ exportsById[d][id].status = "LocalFinal"
                THEN "Exported" ELSE exportsById[d][id].status
      BY <1>1, <2>2, <2>7, CloseOnlyExports
    <3>2. exportsById[d][id] \in ExportRecord /\ exportsById'[d][id] \in ExportRecord
      BY <2>1, <2>3, <2>7, <3>1
    <3>3. exportsById'[d][id].status # exportsById[d][id].status
      <4>1. exportsById'[d][id].leaf = exportsById[d][id].leaf
        BY <3>1, <3>2 DEF ExportRecord, Missing
      <4> QED
        BY <2>7, <3>2, <4>1 DEF ExportRecord
    <3> QED
      BY <3>1, <3>2, <3>3, OneStatusForward
  <2>8. ASSUME NEW x \in Domain, Observe(x) \/ Finalize(x) PROVE exportsById' = exportsById
    BY <2>8, Zenon DEF Observe, Finalize, observe_verified_import, finalize_verified_import, exportVars
  <2>9. UNCHANGED vars => exportsById' = exportsById
    BY DEF vars, exportVars
  <2> QED
    BY <1>1, <2>4, <2>5, <2>6, <2>7, <2>8, <2>9 DEF Next
<1>2. IInv /\ [Next]_vars =>
        [\A d \in Domain, id \in ExportId :
            LET before == exportsById[d][id]
                after == exportsById[d][id]'
            IN  /\ ExportRank(after) - ExportRank(before) \in {0, 1}
                /\ before # Missing => after.leaf = before.leaf]_vars
  BY <1>1 DEF Advances
<1> QED
  BY <1>2, Invariance, PTL DEF Spec, SettlementOnlyAdvances

-----------------------------------------------------------------------------
(* Completions *)

ListedEpochs(t, id) == {e \in Epoch : id \in epochFinalizedImportIds[t][e]}

\* A finalized import is listed in one epoch.
ImportListedOnce ==
    \A t \in Domain, id \in ExportId :
        observedImportsById[t][id].status = "RemoteFinalized" =>
            \E e \in Epoch : ListedEpochs(t, id) = {e}

\* Nothing but finalize_verified_import adds to the lists.
LEMMA FinalizeListsOnce ==
  ASSUME IInv, ImportListedOnce, NEW d \in Domain, Finalize(d)
  PROVE  ImportListedOnce'
<1>1. PICK fin \in ExportId : finalize_verified_import(d, fin)
  BY DEF Finalize
<1>2. PICK c \in Epoch : c = currentEpoch[d]
  BY DEF IInv, TypeOK
<1>3. /\ observedImportsById[d][fin].status = "RemoteObserved"
      /\ observedImportsById' = [observedImportsById EXCEPT ![d][fin].status = "RemoteFinalized"]
      /\ epochFinalizedImportIds' = [epochFinalizedImportIds EXCEPT ![d][c] = @ \cup {fin}]
  BY <1>1, <1>2 DEF finalize_verified_import
<1>4. \A t \in Domain, id \in ExportId :
          ~(t = d /\ id = fin) => observedImportsById'[t][id] = observedImportsById[t][id]
  BY <1>3 DEF IInv, TypeOK
<1>5. \A t \in Domain, e \in Epoch, id \in ExportId :
          id \in epochFinalizedImportIds'[t][e] <=>
              \/ id \in epochFinalizedImportIds[t][e]
              \/ t = d /\ e = c /\ id = fin
  <2>1. epochFinalizedImportIds \in [Domain -> [Epoch -> SUBSET ExportId]]
    BY DEF IInv, TypeOK
  <2> QED
    BY <1>3, <2>1
<1>6. ListedEpochs(d, fin) = {}
  BY <1>3 DEF ListedEpochs, IInv, ListedImports
<1>7. ASSUME NEW t \in Domain, NEW id \in ExportId,
             observedImportsById'[t][id].status = "RemoteFinalized"
      PROVE  \E e \in Epoch : ListedEpochs(t, id)' = {e}
  <2>1. CASE t = d /\ id = fin
    <3>1. ListedEpochs(t, id)' = {c}
      BY <1>2, <1>5, <1>6, <2>1 DEF ListedEpochs
    <3> QED
      BY <3>1
  <2>2. CASE ~(t = d /\ id = fin)
    <3>1. ListedEpochs(t, id)' = ListedEpochs(t, id)
      BY <1>5, <2>2 DEF ListedEpochs
    <3> QED
      BY <1>4, <1>7, <2>2, <3>1 DEF ImportListedOnce
  <2> QED
    BY <2>1, <2>2
<1> QED
  BY <1>7 DEF ImportListedOnce

\* observe_verified_import finalizes nothing.
LEMMA ObserveListsOnce ==
  ASSUME IInv, ImportListedOnce, NEW d \in Domain, Observe(d)
  PROVE  ImportListedOnce'
<1>1. PICK s \in Domain, k \in Epoch : \E leaf \in exportRoot[s][k] :
          observe_verified_import(d, ClaimOf(leaf))
  BY DEF Observe
<1>2. PICK leaf \in exportRoot[s][k] : observe_verified_import(d, ClaimOf(leaf))
  BY <1>1
<1>3. PICK claim : claim = ClaimOf(leaf)
  OBVIOUS
<1>4. /\ observedImportsById' = [observedImportsById EXCEPT
             ![d][claim.export_id] = [claim |-> claim, status |-> "RemoteObserved"]]
      /\ epochFinalizedImportIds' = epochFinalizedImportIds
  BY <1>2, <1>3 DEF observe_verified_import
<1>5. \A t \in Domain, id \in ExportId :
          observedImportsById'[t][id].status = "RemoteFinalized" =>
              observedImportsById[t][id].status = "RemoteFinalized"
  <2>1. observedImportsById \in [Domain -> [ExportId -> ObservedImportRecord \cup {Missing}]]
    BY DEF IInv, TypeOK
  <2> QED
    BY <1>4, <2>1
<1>6. \A t, id : ListedEpochs(t, id)' = ListedEpochs(t, id)
  BY <1>4 DEF ListedEpochs
<1> QED
  BY <1>5, <1>6 DEF ImportListedOnce

\* Every step keeps a finalized import listed in one epoch.
LEMMA NextListsOnce ==
  ASSUME IInv, ImportListedOnce, [Next]_vars
  PROVE  ImportListedOnce'
<1>1. ASSUME UNCHANGED importVars PROVE ImportListedOnce'
  BY <1>1 DEF importVars, ImportListedOnce, ListedEpochs
<1>2. ASSUME NEW d \in Domain, Create(d) PROVE UNCHANGED importVars
  BY <1>2 DEF Create, create_cross_domain_transfer
<1>3. ASSUME NEW d \in Domain, Acknowledge(d) PROVE UNCHANGED importVars
  BY <1>3 DEF Acknowledge, acknowledge_remote_finalization
<1>4. ASSUME NEW d \in Domain, stage_summary_for_closed_epoch(d) PROVE UNCHANGED importVars
  BY <1>4 DEF stage_summary_for_closed_epoch
<1>5. UNCHANGED vars => UNCHANGED importVars
  BY DEF vars
<1> QED
  BY <1>1, <1>2, <1>3, <1>4, <1>5, ObserveListsOnce, FinalizeListsOnce DEF Next

\* A record whose status is not that of a missing one is there.
LEMMA StatusPresent ==
  ASSUME NEW record, record.status # "Missing"
  PROVE  record # Missing
BY DEF Missing

\* An observed claim names the export it is kept under.
LEMMA ClaimNames ==
  ASSUME IInv, NEW t \in Domain, NEW i \in ExportId, observedImportsById[t][i] # Missing
  PROVE  observedImportsById[t][i].claim.export_id = i
<1>1. /\ SourceRecord(i) # Missing
      /\ observedImportsById[t][i].claim = ClaimOf(SourceRecord(i).leaf)
  BY DEF IInv, ObservedFacts
<1>2. i[1] \in Domain /\ exportsById[i[1]][i] = SourceRecord(i)
  BY ExportIdFacts DEF SourceRecord
<1>3. exportsById[i[1]][i].leaf.export_id = i
  BY <1>1, <1>2, WellFormedAt
<1>4. ClaimOf(SourceRecord(i).leaf).export_id = SourceRecord(i).leaf.export_id
  BY DEF ClaimOf
<1> QED
  BY <1>1, <1>2, <1>3, <1>4

\* finalize_verified_import lists an import in one epoch for good, and the claim
\* is under the root of that epoch, once it is closed, and under no other.
THEOREM CompletionCommittedOnceHolds == Spec => []CompletionCommittedOnce
<1>1. Init => ImportListedOnce
  BY DEF Init, ImportListedOnce, Missing
<1>2. IInv /\ ImportListedOnce /\ [Next]_vars => ImportListedOnce'
  BY NextListsOnce
<1>3. IInv /\ ImportListedOnce => CompletionCommittedOnce
  <2> SUFFICES ASSUME IInv, ImportListedOnce, NEW t \in Domain, NEW id \in ExportId
               PROVE  IF observedImportsById[t][id].status = "RemoteFinalized"
                      THEN /\ \E e \in ListedEpochs(t, id) :
                                 ListedEpochs(t, id) = {e} /\ e <= currentEpoch[t]
                           /\ {e \in Epoch : observedImportsById[t][id].claim \in importRoot[t][e]}
                                 = {e \in ListedEpochs(t, id) : e < currentEpoch[t]}
                      ELSE ListedEpochs(t, id) = {}
    BY DEF CompletionCommittedOnce, ListedEpochs
  <2>1. CASE observedImportsById[t][id].status # "RemoteFinalized"
    BY <2>1 DEF ListedEpochs, IInv, ListedImports
  <2>2. CASE observedImportsById[t][id].status = "RemoteFinalized"
    <3>1. \E e \in ListedEpochs(t, id) : ListedEpochs(t, id) = {e} /\ e <= currentEpoch[t]
      BY <2>2 DEF ImportListedOnce, ListedEpochs, IInv, ListedImports
    <3>2. ASSUME NEW i \in ExportId, observedImportsById[t][i] # Missing
          PROVE  observedImportsById[t][i].claim.export_id = i
      BY <3>2, ClaimNames
    <3>3. observedImportsById[t][id] # Missing
      BY <2>2, StatusPresent
    <3>4. ASSUME NEW e \in Epoch, observedImportsById[t][id].claim \in importRoot[t][e]
          PROVE  e \in ListedEpochs(t, id) /\ e < currentEpoch[t]
      <4>1. e < currentEpoch[t]
        BY <3>4, EpochsAreIntegers DEF IInv, OpenRootsEmpty
      <4>2. observedImportsById[t][id].claim \in canonical_epoch_finalized_imports(t, e)
        BY <3>4, <4>1 DEF IInv, RecomputedRootsMatch
      <4>3. PICK i \in epochFinalizedImportIds[t][e] :
                /\ observedImportsById[t][i].status = "RemoteFinalized"
                /\ observedImportsById[t][id].claim = observedImportsById[t][i].claim
        BY <4>2 DEF canonical_epoch_finalized_imports
      <4>4. i \in ExportId /\ observedImportsById[t][i] # Missing
        <5>1. epochFinalizedImportIds[t][e] \subseteq ExportId
          BY DEF IInv, TypeOK
        <5> QED
          BY <4>3, <5>1, StatusPresent
      <4>5. i = id
        BY <3>2, <3>3, <4>3, <4>4, Zenon
      <4> QED
        BY <4>1, <4>3, <4>5 DEF ListedEpochs
    <3>5. ASSUME NEW e \in ListedEpochs(t, id), e < currentEpoch[t]
          PROVE  e \in Epoch /\ observedImportsById[t][id].claim \in importRoot[t][e]
      <4>1. e \in Epoch /\ id \in epochFinalizedImportIds[t][e]
        BY DEF ListedEpochs
      <4>2. observedImportsById[t][id].claim \in canonical_epoch_finalized_imports(t, e)
        BY <2>2, <4>1 DEF canonical_epoch_finalized_imports
      <4> QED
        BY <3>5, <4>1, <4>2 DEF IInv, RecomputedRootsMatch
    <3> QED
      BY <2>2, <3>1, <3>4, <3>5
  <2> QED
    BY <2>1, <2>2
<1> QED
  BY <1>1, <1>2, <1>3, Invariance, PTL DEF Spec


-----------------------------------------------------------------------------
(* The supply: what the deals of the abstract transfer add up to *)

AmountBar == [id \in ExportId |-> dealBar[id].amount]

Open == {"Locked", "Credited"}

\* The deals whose amount is still held, on one chain for one account, and those
\* that count twice.
Backs(d, a) ==
    {id \in ExportId : /\ phaseBar[id] \in Open
                       /\ dealBar[id].source_domain = d
                       /\ dealBar[id].sender = a}

InFlight == {id \in ExportId : phaseBar[id] = "Credited"}

HeldIsBacked ==
    \A d \in Domain, a \in Account : held[d][a] = SumOver(AmountBar, Backs(d, a))

SupplyIsKept ==
    TotalOf(free) + TotalOf(held) = TotalOf(InitialFree) + SumOver(AmountBar, InFlight)

\* The terms of a deal that was struck.
Struck(id) ==
    /\ dealBar[id].amount \in Nat
    /\ dealBar[id].source_domain \in Domain
    /\ dealBar[id].target_domain \in Domain
    /\ dealBar[id].sender \in Account
    /\ dealBar[id].recipient \in Account

\* There are finitely many exports to sum over.
LEMMA IdsFinite ==
    /\ IsFiniteSet(ExportId)
    /\ \A S \in SUBSET ExportId : IsFiniteSet(S)
<1>1. IsFiniteSet(Domain) /\ MaxSequence \in [Domain -> Nat]
  BY ConstantsAssumption
<1>2. IsFiniteSet(ExportId)
  BY <1>1, PairsFinite DEF ExportId
<1> QED
  BY <1>2, FS_Subset

\* The phase of a transfer and the terms it was struck with.
LEMMA BarFacts ==
  ASSUME IInv, NEW id \in ExportId
  PROVE  /\ phaseBar[id] \in {"None", "Locked", "Credited", "Settled"}
         /\ id \in Created <=> phaseBar[id] # "None"
         /\ id \in Created => /\ dealBar[id] = SourceRecord(id).leaf
                              /\ dealBar[id].source_domain = id[1]
                              /\ Struck(id)
                              /\ phaseBar[id] \in Open <=> ~ Burned(id)
                              /\ phaseBar[id] = "Credited" <=> Minted(id) /\ ~ Burned(id)
<1>1. /\ phaseBar[id] \in {"None", "Locked", "Credited", "Settled"}
      /\ id \in Created <=> phaseBar[id] # "None"
      /\ id \in Created => /\ phaseBar[id] \in Open <=> ~ Burned(id)
                           /\ phaseBar[id] = "Credited" <=> Minted(id) /\ ~ Burned(id)
  BY DEF phaseBar, Open
<1>2. ASSUME id \in Created
      PROVE  /\ dealBar[id] = SourceRecord(id).leaf
             /\ dealBar[id].source_domain = id[1]
             /\ Struck(id)
  <2>1. dealBar[id] = SourceRecord(id).leaf
    BY <1>2 DEF dealBar
  <2>2. id[1] \in Domain /\ exportsById[id[1]][id] # Missing
    BY <1>2, ExportIdFacts DEF Created, SourceRecord
  <2>3. exportsById[id[1]][id].leaf.source_domain = id[1]
    BY <2>2, WellFormedAt
  <2>4. exportsById[id[1]][id].leaf \in ExportLeaf
    BY <2>2, RecordFacts DEF IInv, ExportRecord
  <2>5. dealBar[id] \in ExportLeaf
    BY <2>1, <2>4 DEF SourceRecord
  <2>6. Struck(id)
    BY <2>5, ConstantsAssumption DEF Struck, ExportLeaf
  <2> QED
    BY <2>1, <2>3, <2>6 DEF SourceRecord
<1> QED
  BY <1>1, <1>2

Balances == [Domain -> [Account -> Int]]
Changed(b, c, d, a, k) == c = [b EXCEPT ![d][a] = @ + k]

\* A balance that changes by k changes the total by k.
LEMMA TotalChange ==
  ASSUME NEW b \in Balances, NEW d \in Domain, NEW a \in Account, NEW k \in Int,
         NEW c, Changed(b, c, d, a, k)
  PROVE  /\ TotalOf(b) \in Int
         /\ TotalOf(c) = TotalOf(b) + k
<1>0. b \in [Domain -> [Account -> Int]] /\ c = [b EXCEPT ![d][a] = @ + k]
  BY DEF Balances, Changed
<1>1. PICK P : P = Domain \X Account
  BY Zenon
<1>2. IsFiniteSet(P)
  BY <1>1, ConstantsAssumption, FS_Product
<1>3. PICK f : f = [x \in P |-> b[x[1]][x[2]]]
  BY Zenon
<1>4. PICK g : g = [x \in P |-> c[x[1]][x[2]]]
  BY Zenon
<1>5. PICK p : p = <<d, a>>
  BY Zenon
<1>6. p \in P /\ p[1] = d /\ p[2] = a
  BY <1>1, <1>5
<1>7. \A x \in P : /\ x[1] \in Domain /\ x[2] \in Account
                   /\ x # p => x[1] # d \/ x[2] # a
  BY <1>1, <1>5
<1>8. IntOn(f, P)
  BY <1>0, <1>3, <1>7 DEF IntOn
<1>9. \A x \in P : x # p => f[x] = g[x]
  BY <1>0, <1>3, <1>4, <1>7
<1>10. g[p] = f[p] + k /\ f[p] \in Int
  BY <1>0, <1>3, <1>4, <1>6
<1>11. IntOn(g, P)
  BY <1>8, <1>9, <1>10 DEF IntOn
<1>12. PICK s, t : s = SumOver(f, P) /\ t = SumOver(g, P)
  BY Zenon
<1>13. t = s - f[p] + g[p]
  <2>1. SumOver(g, P) = SumOver(f, P) - f[p] + g[p]
    BY <1>2, <1>6, <1>8, <1>9, <1>11, SumChange
  <2> QED
    BY <1>12, <2>1, Zenon
<1>14. s \in Int
  BY <1>2, <1>8, <1>12, SumsAreInt
<1>15. t = s + k
  BY <1>10, <1>13, <1>14
<1>16. TotalOf(b) = s /\ TotalOf(c) = t
  BY <1>1, <1>3, <1>4, <1>12 DEF TotalOf
<1> QED
  BY <1>14, <1>15, <1>16

\* No balance is outside the integers, in particular for the totals.
LEMMA BalancesAreInt ==
  ASSUME TypeOK
  PROVE  free \in Balances /\ held \in Balances
<1>1. free \in [Domain -> [Account -> Nat]] /\ held \in [Domain -> [Account -> Nat]]
  BY DEF TypeOK
<1> QED
  BY <1>1 DEF Balances

\* The deals that are open, or credited, have amounts.
LEMMA OpenAmounts ==
  ASSUME IInv
  PROVE  /\ \A id \in ExportId : phaseBar[id] # "None" => AmountBar[id] \in Int
         /\ \A d, a : Backs(d, a) \subseteq ExportId /\ IntOn(AmountBar, Backs(d, a))
         /\ InFlight \subseteq ExportId /\ IntOn(AmountBar, InFlight)
<1>1. \A id \in ExportId : phaseBar[id] # "None" => AmountBar[id] \in Int
  <2> TAKE id \in ExportId
  <2>1. phaseBar[id] # "None" => dealBar[id].amount \in Nat
    BY BarFacts DEF Struck
  <2>2. AmountBar[id] = dealBar[id].amount
    BY DEF AmountBar
  <2> QED
    BY <2>1, <2>2
<1> QED
  BY <1>1 DEF IntOn, Backs, InFlight, Open

\* create_cross_domain_transfer: one more deal backs what the sender has held,
\* and what becomes held is no longer free.
LEMMA LockKeeps ==
  ASSUME IInv, IInv', HeldIsBacked, SupplyIsKept, NEW i \in ExportId, E!Lock(i)
  PROVE  HeldIsBacked' /\ SupplyIsKept'
<1>1. PICK terms \in ExportLeaf :
          /\ dealBar' = [dealBar EXCEPT ![i] = terms]
          /\ free' = [free EXCEPT ![terms.source_domain][terms.sender] = @ - terms.amount]
          /\ held' = [held EXCEPT ![terms.source_domain][terms.sender] = @ + terms.amount]
  BY Zenon DEF E!Lock
<1>2. phaseBar[i] = "None" /\ phaseBar' = [phaseBar EXCEPT ![i] = "Locked"]
  BY Zenon DEF E!Lock
<1>3. PICK s \in Domain, w \in Account, k \in Nat :
          s = terms.source_domain /\ w = terms.sender /\ k = terms.amount
  BY <1>1, ConstantsAssumption DEF ExportLeaf
<1>4. /\ dealBar'[i] = terms
      /\ phaseBar'[i] = "Locked"
      /\ \A id \in ExportId : id # i => dealBar'[id] = dealBar[id] /\ phaseBar'[id] = phaseBar[id]
  BY <1>1, <1>2 DEF dealBar, phaseBar
<1>5. AmountBar'[i] = k /\ \A id \in ExportId : id # i => AmountBar'[id] = AmountBar[id]
  BY <1>3, <1>4 DEF AmountBar
<1>6. /\ i \notin InFlight /\ InFlight' = InFlight
      /\ \A d, a : i \notin Backs(d, a)
      /\ Backs(s, w)' = Backs(s, w) \cup {i}
      /\ \A d, a : d # s \/ a # w => Backs(d, a)' = Backs(d, a)
  BY <1>2, <1>3, <1>4 DEF Backs, InFlight, Open
<1>7. \A S \in SUBSET ExportId : i \notin S => SumOver(AmountBar', S) = SumOver(AmountBar, S)
  <2> SUFFICES ASSUME NEW S \in SUBSET ExportId, i \notin S
               PROVE  SumOver(AmountBar', S) = SumOver(AmountBar, S)
    OBVIOUS
  <2>1. IsFiniteSet(S)
    BY IdsFinite
  <2>2. \A x \in S : AmountBar'[x] = AmountBar[x]
    BY <1>5
  <2> QED
    BY <2>1, <2>2, SumSame
<1>8. HeldIsBacked'
  <2> SUFFICES ASSUME NEW d \in Domain, NEW a \in Account
               PROVE  held'[d][a] = SumOver(AmountBar', Backs(d, a)')
    BY DEF HeldIsBacked
  <2>1. Backs(d, a) \in SUBSET ExportId
    BY DEF Backs
  <2>2. held[d][a] = SumOver(AmountBar', Backs(d, a))
    BY <1>6, <1>7, <2>1 DEF HeldIsBacked
  <2>3. held[d][a] \in Int
    BY BalancesAreInt DEF IInv, Balances
  <2>4. CASE d = s /\ a = w
    <3>1. held'[d][a] = held[d][a] + k
      BY <1>1, <1>3, <2>4, BalancesAreInt DEF IInv, Balances
    <3>2. IntOn(AmountBar', Backs(d, a) \cup {i})
      <4>1. \A id \in Backs(d, a) : AmountBar[id] \in Int
        BY OpenAmounts DEF IntOn
      <4>2. \A id \in Backs(d, a) : AmountBar'[id] = AmountBar[id]
        BY <1>5, <1>6, <2>1
      <4>3. AmountBar'[i] \in Int
        BY <1>5
      <4>4. \A id \in Backs(d, a) \cup {i} : AmountBar'[id] \in Int
        BY <4>1, <4>2, <4>3
      <4> QED
        BY <4>4 DEF IntOn
    <3>3. SumOver(AmountBar', Backs(d, a) \cup {i}) = AmountBar'[i] + SumOver(AmountBar', Backs(d, a))
      BY <1>6, <2>1, <3>2, IdsFinite, SumInsert
    <3>4. AmountBar'[i] + SumOver(AmountBar', Backs(d, a)) = held[d][a] + k
      BY <1>5, <2>2, <2>3
    <3>5. Backs(d, a)' = Backs(d, a) \cup {i}
      BY <1>6, <2>4
    <3> QED
      BY <3>1, <3>3, <3>4, <3>5
  <2>5. CASE d # s \/ a # w
    <3>1. held'[d][a] = held[d][a]
      BY <1>1, <1>3, <2>5, BalancesAreInt DEF IInv, Balances
    <3> QED
      BY <1>6, <2>2, <2>5, <3>1
  <2> QED
    BY <2>4, <2>5
<1>9. SupplyIsKept'
  <2>1. SumOver(AmountBar, InFlight)' = SumOver(AmountBar, InFlight)
    BY <1>6, <1>7 DEF InFlight
  <2>2. TotalOf(held) \in Int /\ TotalOf(held') = TotalOf(held) + k
    <3>1. Changed(held, held', s, w, k)
      BY <1>1, <1>3 DEF Changed
    <3>2. held \in Balances /\ k \in Int
      BY BalancesAreInt DEF IInv
    <3> QED
      BY <3>1, <3>2, TotalChange
  <2>3. TotalOf(free) \in Int /\ TotalOf(free') = TotalOf(free) + (-k)
    <3>1. Changed(free, free', s, w, -k)
      BY <1>1, <1>3, BalancesAreInt DEF IInv, Balances, Changed
    <3>2. free \in Balances /\ -k \in Int
      BY BalancesAreInt DEF IInv
    <3> QED
      BY <3>1, <3>2, TotalChange
  <2>4. TotalOf(free') + TotalOf(held') = TotalOf(free) + TotalOf(held)
    BY <2>2, <2>3
  <2> QED
    BY <2>1, <2>4 DEF SupplyIsKept
<1> QED
  BY <1>8, <1>9

\* The total of all balances is a number.
LEMMA TotalIsInt ==
  ASSUME NEW b \in Balances
  PROVE  TotalOf(b) \in Int
<1>1. PICK P : P = Domain \X Account
  BY Zenon
<1>2. IsFiniteSet(P)
  BY <1>1, ConstantsAssumption, FS_Product
<1>3. PICK f : f = [x \in P |-> b[x[1]][x[2]]]
  BY Zenon
<1>4. \A x \in P : f[x] \in Int
  BY <1>1, <1>3 DEF Balances
<1>5. SumOver(f, P) \in Int
  BY <1>2, <1>4, SumType
<1> QED
  BY <1>1, <1>3, <1>5 DEF TotalOf

\* The totals of the free and of the held balances are numbers.
LEMMA TotalsAreInt ==
    /\ TypeOK => TotalOf(free) \in Int /\ TotalOf(held) \in Int
    /\ TotalOf(InitialFree) \in Int
<1>1. InitialFree \in Balances
  BY ConstantsAssumption DEF Balances
<1> QED
  BY <1>1, BalancesAreInt, TotalIsInt

\* At genesis nothing is held.
LEMMA ZeroTotal == TotalOf([d \in Domain |-> [a \in Account |-> 0]]) = 0
<1>1. PICK z : z = [d \in Domain |-> [a \in Account |-> 0]]
  BY Zenon
<1>2. PICK P : P = Domain \X Account
  BY Zenon
<1>3. PICK f : f = [x \in P |-> z[x[1]][x[2]]]
  BY Zenon
<1>4. \A x \in P : f[x] = 0
  BY <1>1, <1>2, <1>3
<1>5. IsFiniteSet(P)
  BY <1>2, ConstantsAssumption, FS_Product
<1>6. SumOver(f, P) = 0
  BY <1>4, <1>5, SumZero
<1> QED
  BY <1>1, <1>2, <1>3, <1>6 DEF TotalOf

\* The amounts of the properties are those of the abstract transfer.
LEMMA AmountsAgree ==
  ASSUME IInv, NEW S \in SUBSET Created
  PROVE  SumOver(Amounts, S) = SumOver(AmountBar, S)
<1>1. S \subseteq ExportId /\ IsFiniteSet(S)
  BY IdsFinite DEF Created
<1>2. \A id \in S : Amounts[id] = AmountBar[id]
  <2> TAKE id \in S
  <2>1. id \in ExportId /\ id \in Created
    BY <1>1
  <2>2. dealBar[id] = SourceRecord(id).leaf
    BY <2>1 DEF dealBar
  <2> QED
    BY <2>1, <2>2 DEF Amounts, AmountBar
<1> QED
  BY <1>1, <1>2, SumSame

\* finalize_verified_import: what is minted counts twice until the hold is burned.
LEMMA CreditKeeps ==
  ASSUME IInv, HeldIsBacked, SupplyIsKept, NEW i \in ExportId, E!Credit(i)
  PROVE  HeldIsBacked' /\ SupplyIsKept'
<1>1. /\ phaseBar[i] = "Locked"
      /\ phaseBar' = [phaseBar EXCEPT ![i] = "Credited"]
      /\ dealBar' = dealBar
      /\ held' = held
      /\ free' = [free EXCEPT ![dealBar[i].target_domain][dealBar[i].recipient] =
                                 @ + dealBar[i].amount]
  BY Zenon DEF E!Credit
<1>2. Struck(i)
  BY <1>1, BarFacts
<1>3. PICK t \in Domain, r \in Account, k \in Nat :
          t = dealBar[i].target_domain /\ r = dealBar[i].recipient /\ k = dealBar[i].amount
  BY <1>2, Zenon DEF Struck
<1>4. phaseBar'[i] = "Credited" /\ \A id \in ExportId : id # i => phaseBar'[id] = phaseBar[id]
  BY <1>1 DEF phaseBar
<1>5. AmountBar' = AmountBar /\ AmountBar[i] = k
  BY <1>1, <1>3 DEF AmountBar
<1>6. /\ i \notin InFlight
      /\ InFlight' = InFlight \cup {i}
      /\ \A d, a : Backs(d, a)' = Backs(d, a)
  BY <1>1, <1>4 DEF Backs, InFlight, Open
<1>7. HeldIsBacked'
  BY <1>1, <1>5, <1>6 DEF HeldIsBacked
<1>8. SupplyIsKept'
  <2>1. PICK u, v : u = SumOver(AmountBar, InFlight) /\ v = SumOver(AmountBar, InFlight')
    BY Zenon
  <2>2. u \in Int
    <3>1. IsFiniteSet(InFlight) /\ IntOn(AmountBar, InFlight) /\ InFlight \in SUBSET InFlight
      BY OpenAmounts, IdsFinite
    <3> QED
      BY <2>1, <3>1, SumsAreInt
  <2>3. v = k + u
    <3>1. IntOn(AmountBar, InFlight \cup {i})
      BY <1>1, OpenAmounts DEF IntOn
    <3>2. IsFiniteSet(InFlight)
      BY OpenAmounts, IdsFinite
    <3>3. SumOver(AmountBar, InFlight \cup {i}) = AmountBar[i] + SumOver(AmountBar, InFlight)
      BY <1>6, <3>1, <3>2, SumInsert
    <3> QED
      BY <1>5, <1>6, <2>1, <3>3
  <2>4. TotalOf(free) \in Int /\ TotalOf(free') = TotalOf(free) + k
    <3>1. Changed(free, free', t, r, k)
      BY <1>1, <1>3 DEF Changed
    <3>2. free \in Balances /\ k \in Int
      BY BalancesAreInt DEF IInv
    <3> QED
      BY <3>1, <3>2, TotalChange
  <2>5. PICK f, h, o, f2 : /\ f = TotalOf(free) /\ h = TotalOf(held)
                           /\ o = TotalOf(InitialFree) /\ f2 = TotalOf(free')
    BY Zenon
  <2>6. h \in Int /\ o \in Int
    BY <2>5, TotalsAreInt DEF IInv
  <2>7. f + h = o + u
    BY <2>1, <2>5 DEF SupplyIsKept
  <2>8. f2 + h = o + v
    BY <2>2, <2>3, <2>4, <2>5, <2>6, <2>7
  <2> QED
    BY <1>1, <1>5, <2>1, <2>5, <2>8 DEF SupplyIsKept
<1> QED
  BY <1>7, <1>8

\* acknowledge_remote_finalization: the deal no longer backs what is held, and no
\* longer counts twice.
LEMMA SettleKeeps ==
  ASSUME IInv, HeldIsBacked, SupplyIsKept, NEW i \in ExportId, E!Settle(i)
  PROVE  HeldIsBacked' /\ SupplyIsKept'
<1>1. /\ phaseBar[i] = "Credited"
      /\ phaseBar' = [phaseBar EXCEPT ![i] = "Settled"]
      /\ dealBar' = dealBar
      /\ free' = free
      /\ held' = [held EXCEPT ![dealBar[i].source_domain][dealBar[i].sender] =
                                 @ - dealBar[i].amount]
  BY Zenon DEF E!Settle
<1>2. Struck(i)
  BY <1>1, BarFacts
<1>3. PICK s \in Domain, w \in Account, k \in Nat :
          s = dealBar[i].source_domain /\ w = dealBar[i].sender /\ k = dealBar[i].amount
  BY <1>2, Zenon DEF Struck
<1>4. phaseBar'[i] = "Settled" /\ \A id \in ExportId : id # i => phaseBar'[id] = phaseBar[id]
  BY <1>1 DEF phaseBar
<1>5. AmountBar' = AmountBar /\ AmountBar[i] = k
  BY <1>1, <1>3 DEF AmountBar
<1>6. /\ i \in InFlight
      /\ InFlight' = InFlight \ {i}
      /\ i \in Backs(s, w)
      /\ Backs(s, w)' = Backs(s, w) \ {i}
      /\ \A d, a : d # s \/ a # w => Backs(d, a)' = Backs(d, a)
  BY <1>1, <1>3, <1>4 DEF Backs, InFlight, Open
<1>7. HeldIsBacked'
  <2> SUFFICES ASSUME NEW d \in Domain, NEW a \in Account
               PROVE  held'[d][a] = SumOver(AmountBar, Backs(d, a)')
    BY <1>5 DEF HeldIsBacked
  <2>1. held[d][a] = SumOver(AmountBar, Backs(d, a))
    BY DEF HeldIsBacked
  <2>2. held[d][a] \in Int /\ held \in [Domain -> [Account -> Int]]
    BY BalancesAreInt DEF IInv, Balances
  <2>3. CASE d = s /\ a = w
    <3>1. held'[d][a] = held[d][a] - k
      BY <1>1, <1>3, <2>2, <2>3
    <3>2. IsFiniteSet(Backs(d, a)) /\ IntOn(AmountBar, Backs(d, a)) /\ i \in Backs(d, a)
      BY <1>6, <2>3, OpenAmounts, IdsFinite
    <3>3. PICK r : r = SumOver(AmountBar, Backs(d, a) \ {i})
      BY Zenon
    <3>4. held[d][a] = k + r
      BY <1>5, <2>1, <3>2, <3>3, SumRemove
    <3>5. r \in Int
      <4>1. Backs(d, a) \ {i} \in SUBSET Backs(d, a)
        OBVIOUS
      <4> QED
        BY <3>2, <3>3, <4>1, SumsAreInt
    <3>6. held'[d][a] = r
      BY <2>2, <3>1, <3>4, <3>5
    <3> QED
      BY <1>6, <2>3, <3>3, <3>6
  <2>4. CASE d # s \/ a # w
    <3>1. held'[d][a] = held[d][a]
      BY <1>1, <1>3, <2>2, <2>4
    <3> QED
      BY <1>6, <2>1, <2>4, <3>1
  <2> QED
    BY <2>3, <2>4
<1>8. SupplyIsKept'
  <2>1. PICK u, v : u = SumOver(AmountBar, InFlight) /\ v = SumOver(AmountBar, InFlight')
    BY Zenon
  <2>2. IsFiniteSet(InFlight) /\ IntOn(AmountBar, InFlight)
    BY OpenAmounts, IdsFinite
  <2>3. v \in Int
    <3>1. InFlight' \in SUBSET InFlight
      BY <1>6
    <3> QED
      BY <2>1, <2>2, <3>1, SumsAreInt
  <2>4. u = k + v
    BY <1>5, <1>6, <2>1, <2>2, SumRemove
  <2>5. TotalOf(held) \in Int /\ TotalOf(held') = TotalOf(held) + (-k)
    <3>1. Changed(held, held', s, w, -k)
      BY <1>1, <1>3, BalancesAreInt DEF IInv, Balances, Changed
    <3>2. held \in Balances /\ -k \in Int
      BY BalancesAreInt DEF IInv
    <3> QED
      BY <3>1, <3>2, TotalChange
  <2>6. PICK f, h, o, h2 : /\ f = TotalOf(free) /\ h = TotalOf(held)
                           /\ o = TotalOf(InitialFree) /\ h2 = TotalOf(held')
    BY Zenon
  <2>7. f \in Int /\ o \in Int
    BY <2>6, TotalsAreInt DEF IInv
  <2>8. f + h = o + u
    BY <2>1, <2>6 DEF SupplyIsKept
  <2>9. f + h2 = o + v
    BY <2>3, <2>4, <2>5, <2>6, <2>7, <2>8
  <2> QED
    BY <1>1, <1>5, <2>1, <2>6, <2>9 DEF SupplyIsKept
<1> QED
  BY <1>7, <1>8

\* The two sums hold in every state.
LEMMA SumsHold == Spec => [](HeldIsBacked /\ SupplyIsKept)
<1>1. Init => HeldIsBacked /\ SupplyIsKept
  <2> SUFFICES ASSUME Init PROVE HeldIsBacked /\ SupplyIsKept
    OBVIOUS
  <2>1. \A id \in ExportId : phaseBar[id] = "None"
    BY InitRefines DEF E!Init
  <2>2. InFlight = {} /\ \A d, a : Backs(d, a) = {}
    BY <2>1 DEF InFlight, Backs, Open
  <2>3. HeldIsBacked
    BY <2>2, SumEmpty DEF HeldIsBacked, Init
  <2>4. TotalOf(held) = 0
    BY ZeroTotal DEF Init
  <2>5. TotalOf(InitialFree) \in Int
    BY TotalsAreInt
  <2>6. SupplyIsKept
    BY <2>2, <2>4, <2>5, SumEmpty DEF SupplyIsKept, Init
  <2> QED
    BY <2>3, <2>6
<1>2. IInv /\ IInv' /\ [Next]_vars /\ HeldIsBacked /\ SupplyIsKept
          => HeldIsBacked' /\ SupplyIsKept'
  <2> SUFFICES ASSUME IInv, IInv', [Next]_vars, HeldIsBacked, SupplyIsKept
               PROVE  HeldIsBacked' /\ SupplyIsKept'
    OBVIOUS
  <2>1. ASSUME NEW i \in ExportId, E!Lock(i) PROVE HeldIsBacked' /\ SupplyIsKept'
    BY <2>1, LockKeeps
  <2>2. ASSUME NEW i \in ExportId, E!Credit(i) PROVE HeldIsBacked' /\ SupplyIsKept'
    BY <2>2, CreditKeeps
  <2>3. ASSUME NEW i \in ExportId, E!Settle(i) PROVE HeldIsBacked' /\ SupplyIsKept'
    BY <2>3, SettleKeeps
  <2>4. CASE UNCHANGED E!vars
    BY <2>4 DEF E!vars, HeldIsBacked, SupplyIsKept, AmountBar, Backs, InFlight
  <2>5. [E!Next]_(E!vars)
    BY NextRefines
  <2> QED
    BY <2>1, <2>2, <2>3, <2>4, <2>5 DEF E!Next
<1> QED
  BY <1>1, <1>2, Invariance, PTL DEF Spec

\* On every chain what an account has held is the sum of its unresolved exports,
\* for any number of chains, accounts and transfers: burn_held never lacks funds.
THEOREM HeldBacksUnresolvedHolds == Spec => []HeldBacksUnresolved
<1>1. IInv /\ HeldIsBacked => HeldBacksUnresolved
  <2> SUFFICES ASSUME IInv, HeldIsBacked, NEW d \in Domain, NEW a \in Account
               PROVE  held[d][a] =
                          SumOver(Amounts, {id \in Created : /\ id[1] = d
                                                             /\ SourceRecord(id).leaf.sender = a
                                                             /\ ~ Burned(id)})
    BY DEF HeldBacksUnresolved
  <2>1. Backs(d, a) = {id \in Created : /\ id[1] = d
                                        /\ SourceRecord(id).leaf.sender = a
                                        /\ ~ Burned(id)}
    <3>1. Created \subseteq ExportId
      BY DEF Created
    <3>2. \A id \in ExportId : id \in Backs(d, a) <=>
              /\ id \in Created
              /\ id[1] = d
              /\ SourceRecord(id).leaf.sender = a
              /\ ~ Burned(id)
      <4> TAKE id \in ExportId
      <4>1. phaseBar[id] \in Open => id \in Created
        BY BarFacts DEF Open
      <4> QED
        BY <4>1, BarFacts DEF Backs
    <3>3. Backs(d, a) \subseteq ExportId
      BY DEF Backs
    <3> QED
      BY <3>1, <3>2, <3>3
  <2>2. SumOver(Amounts, Backs(d, a)) = SumOver(AmountBar, Backs(d, a))
    BY <2>1, AmountsAgree, Zenon
  <2> QED
    BY <2>1, <2>2 DEF HeldIsBacked
<1> QED
  BY <1>1, SumsHold, Invariance, PTL

\* The balances of all chains add up to the genesis supply and the transfers that
\* are minted and not yet burned, for any number of chains, accounts and transfers.
THEOREM SupplyConservedHolds == Spec => []SupplyConserved
<1>1. IInv /\ SupplyIsKept => SupplyConserved
  <2> SUFFICES ASSUME IInv, SupplyIsKept PROVE SupplyConserved
    OBVIOUS
  <2>1. InFlight = {id \in Created : Minted(id) /\ ~ Burned(id)}
    <3>1. Created \subseteq ExportId
      BY DEF Created
    <3>2. \A id \in ExportId : id \in InFlight <=> id \in Created /\ Minted(id) /\ ~ Burned(id)
      <4> TAKE id \in ExportId
      <4> QED
        BY BarFacts DEF InFlight
    <3>3. InFlight \subseteq ExportId
      BY DEF InFlight
    <3> QED
      BY <3>1, <3>2, <3>3
  <2>2. SumOver(Amounts, InFlight) = SumOver(AmountBar, InFlight)
    BY <2>1, AmountsAgree
  <2> QED
    BY <2>1, <2>2 DEF SupplyIsKept, SupplyConserved
<1> QED
  BY <1>1, SumsHold, Invariance, PTL
=============================================================================

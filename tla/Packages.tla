------------------------------ MODULE Packages ------------------------------
(***************************************************************************)
(* Certified packages as the three services see them.  The exporter builds *)
(* a package from inclusion proofs and wraps it in an envelope; the relay  *)
(* and the importer each work out from the proofs, on their own, where it  *)
(* goes and how many leaves it has; the importer verifies every leaf.      *)
(*                                                                         *)
(* A leaf is [kind, id, at, hash, source_domain, target_domain, epoch]; a  *)
(* governance leaf is a proposal or an acknowledgment (form).  The first   *)
(* proof of a package, the storage proof of its header, stands here for    *)
(* itself: Certification models what it proves.                            *)
(***************************************************************************)
EXTENDS Merkle

SummaryHeaderStorageV1 == [leaf |-> [kind |-> "summary"]]

\* Mutant: a completion is taken to the domain that completed it.
Destination_Target(leaf) == leaf.target_domain

\* Completions go back to the domain the transfer came from.
Destination(leaf) ==
    IF leaf.kind = "import" THEN leaf.source_domain ELSE leaf.target_domain

-----------------------------------------------------------------------------
(* Exporter *)

root(kind, leaves) ==
    CASE kind = "export" -> export_merkle_root(leaves)
      [] kind = "import" -> import_merkle_root(leaves)
      [] kind = "governance" -> governance_merkle_root(leaves)

ProofsOf(kind, leaves, leaf) ==
    CASE kind = "export" -> build_export_inclusion_proof(leaves, leaf.id)
      [] kind = "import" -> build_finalized_import_inclusion_proof(leaves, leaf.id)
      [] kind = "governance" -> build_governance_inclusion_proof(leaves, leaf.hash)

OfTree(kind, leaves) == {l \in leaves : l.kind = kind}

\* The proofs, in the tree of all leaves of the kind, of those of one package.
TargetProofs(kind, leaves, chosen) ==
    LET ordered == sort_leaves(kind, OfTree(kind, chosen))
    IN  [i \in DOMAIN ordered |->
            CHOOSE p \in ProofsOf(kind, OfTree(kind, leaves), ordered[i]) : TRUE]

compute_package_hash(package) == <<package.header, package.inclusion_proofs>>

from_fields(header, proofs) ==
    LET package == [header |-> header, inclusion_proofs |-> proofs]
    IN  [header |-> header, inclusion_proofs |-> proofs,
         package_hash |-> compute_package_hash(package)]

from_bundle_with_mixed_proofs(header, leaves, chosen) ==
    from_fields(header, <<SummaryHeaderStorageV1>> \o TargetProofs("export", leaves, chosen)
                        \o TargetProofs("import", leaves, chosen)
                        \o TargetProofs("governance", leaves, chosen))

Envelope(package, target) ==
    [source_domain |-> package.header.domain_id, target_domain |-> target,
     epoch_id |-> package.header.epoch_id, summary_hash |-> package.header.summary_hash,
     package_hash |-> package.package_hash, package |-> package,
     export_count |-> Len(package.inclusion_proofs) - 1]

-----------------------------------------------------------------------------
(* Relay and importer: where a package goes *)

proof_leaf(package, i) == package.inclusion_proofs[i].leaf

\* The leaf says it is of the domain and the epoch of the header, as far as it says so.
OfHeader(header, leaf) ==
    CASE leaf.kind = "import" -> leaf.target_domain = header.domain_id
      [] leaf.kind = "governance" /\ leaf.form = "ack" -> leaf.epoch = header.epoch_id
      [] OTHER -> leaf.source_domain = header.domain_id /\ leaf.epoch = header.epoch_id

\* The loop over the proofs comes to its end, with one target for all of them.
Inspected(package) ==
    LET count == Len(package.inclusion_proofs)
    IN  /\ count >= 2
        /\ proof_leaf(package, 1).kind = "summary"
        /\ \A i \in 2 .. count :
              /\ proof_leaf(package, i).kind # "summary"
              /\ Destination(proof_leaf(package, i)) = Destination(proof_leaf(package, 2))
              /\ OfHeader(package.header, proof_leaf(package, i))

DerivedView(package) ==
    [target |-> Destination(proof_leaf(package, 2)), count |-> Len(package.inclusion_proofs) - 1]

derive_target_domain(package) == DerivedView(package)

\* The envelope repeats what the package says.
Matches(envelope, view) ==
    /\ envelope.source_domain = envelope.package.header.domain_id
    /\ envelope.target_domain = view.target
    /\ envelope.epoch_id = envelope.package.header.epoch_id
    /\ envelope.summary_hash = envelope.package.header.summary_hash
    /\ envelope.package_hash = envelope.package.package_hash
    /\ envelope.export_count = view.count

\* The relay takes the package.
decode_and_validate_envelope(envelope) ==
    /\ envelope.package.package_hash = compute_package_hash(envelope.package)
    /\ Inspected(envelope.package)
    /\ Matches(envelope, derive_target_domain(envelope.package))

inspect_package_for_ingest(package, importer_domain) ==
    Inspected(package) /\ DerivedView(package).target = importer_domain

\* The importer takes the package.
Ingested(envelope, importer_domain) ==
    /\ envelope.package.package_hash = compute_package_hash(envelope.package)
    /\ inspect_package_for_ingest(envelope.package, importer_domain)
    /\ Matches(envelope, DerivedView(envelope.package))

-----------------------------------------------------------------------------
(* Importer: verification of the leaves *)

verify_forward_export_proofs(header, proof, importer_domain) ==
    /\ OfHeader(header, proof.leaf)
    /\ proof.leaf.target_domain = importer_domain
    /\ verify_export_inclusion_proof(header.export_root, proof)

verify_finalized_import_proofs(header, proof, importer_domain) ==
    /\ OfHeader(header, proof.leaf)
    /\ proof.leaf.source_domain = importer_domain
    /\ verify_finalized_import_inclusion_proof(header.import_root, proof)

verify_governance_proofs(header, proof, importer_domain) ==
    /\ verify_governance_inclusion_proof(header.governance_root, proof)
    /\ proof.leaf.target_domain = importer_domain
    /\ OfHeader(header, proof.leaf)

verify_package_flow(package, importer_domain) ==
    /\ Len(package.inclusion_proofs) >= 2
    /\ \A i \in 2 .. Len(package.inclusion_proofs) :
          LET proof == package.inclusion_proofs[i]
          IN  CASE proof.leaf.kind = "export" ->
                     verify_forward_export_proofs(package.header, proof, importer_domain)
                [] proof.leaf.kind = "import" ->
                     verify_finalized_import_proofs(package.header, proof, importer_domain)
                [] proof.leaf.kind = "governance" ->
                     verify_governance_proofs(package.header, proof, importer_domain)
                [] OTHER -> FALSE

\* what the importer goes on to submit
VerifiedLeaves(package) ==
    {proof_leaf(package, i) : i \in 2 .. Len(package.inclusion_proofs)}
=============================================================================

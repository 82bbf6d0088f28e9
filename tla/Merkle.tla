------------------------------- MODULE Merkle -------------------------------
(***************************************************************************)
(* The Merkle trees of common-types: roots, inclusion proofs and their     *)
(* verification.  The code has the same algorithm three times, for export, *)
(* finalized-import and governance leaves; they differ in the labels that  *)
(* are hashed and in the order of the leaves.  A hash is the tuple of what *)
(* it is computed from; its kind is the label of a node, and for a leaf,   *)
(* which has none, the layout of the encoded record.                       *)
(*                                                                         *)
(* A leaf has an id, a position `at' (block and extrinsic of an export,    *)
(* target and kind of a governance leaf) and the hash stored with it.      *)
(***************************************************************************)
EXTENDS Integers, SequencesExt

compute_leaf_hash(kind, leaf) == <<kind, <<leaf.at, leaf.id>>>>
merkle_parent_hash(kind, left, right) == <<kind, left, right>>
merkle_empty_root(kind) == <<kind>>

leaf_ordering(l, m) == IF l.at = m.at THEN l.id < m.id ELSE l.at < m.at
finalized_import_leaf_ordering(l, m) == l.id < m.id

sort_leaves(kind, leaves) ==
    IF kind = "import" THEN SetToSortSeq(leaves, finalized_import_leaf_ordering)
                       ELSE SetToSortSeq(leaves, leaf_ordering)

Hashes(ordered) == [k \in DOMAIN ordered |-> ordered[k].hash]

\* Neighbours are paired; the last of an odd number is paired with itself.
NextLevel(kind, level) ==
    [k \in 1 .. (Len(level) + 1) \div 2 |->
        merkle_parent_hash(kind, level[2 * k - 1], level[Min({2 * k, Len(level)})])]

RECURSIVE Top(_, _)
Top(kind, level) == IF Len(level) = 1 THEN level[1] ELSE Top(kind, NextLevel(kind, level))

merkle_root(kind, leaves) ==
    IF leaves = {} THEN merkle_empty_root(kind)
                   ELSE Top(kind, Hashes(sort_leaves(kind, leaves)))

export_merkle_root(leaves) == merkle_root("export", leaves)
import_merkle_root(leaves) == merkle_root("import", leaves)
governance_merkle_root(leaves) == merkle_root("governance", leaves)

\* Indices count from zero, as in the code.
SiblingIndex(level, index) ==
    IF index % 2 = 0 THEN Min({index + 1, Len(level) - 1}) ELSE index - 1

RECURSIVE Siblings(_, _, _)
Siblings(kind, level, index) ==
    IF Len(level) = 1 THEN <<>>
    ELSE <<level[SiblingIndex(level, index) + 1]>>
         \o Siblings(kind, NextLevel(kind, level), index \div 2)

\* The proofs built for the wanted leaves, of which there is one or none.
build_inclusion_proof(kind, leaves, wanted) ==
    LET ordered == sort_leaves(kind, leaves)
    IN  {[leaf |-> ordered[k], leaf_index |-> k - 1, leaf_count |-> Len(ordered),
          siblings |-> Siblings(kind, Hashes(ordered), k - 1)] :
            k \in {k \in DOMAIN ordered : ordered[k] \in wanted}}

build_export_inclusion_proof(leaves, id) ==
    build_inclusion_proof("export", leaves, {l \in leaves : l.id = id})
build_finalized_import_inclusion_proof(leaves, id) ==
    build_inclusion_proof("import", leaves, {l \in leaves : l.id = id})
build_governance_inclusion_proof(leaves, hash) ==
    build_inclusion_proof("governance", leaves, {l \in leaves : l.hash = hash})

\* One sibling of a proof.
Climb(kind, at, sibling) ==
    LET duplicate == at.width % 2 = 1 /\ at.index = at.width - 1
    IN  [hash |-> IF at.index % 2 = 0
                  THEN merkle_parent_hash(kind, at.hash, IF duplicate THEN at.hash ELSE sibling)
                  ELSE merkle_parent_hash(kind, sibling, at.hash),
         index |-> at.index \div 2,
         width |-> (at.width + 1) \div 2]

verify_inclusion_proof(kind, root, proof) ==
    /\ proof.leaf.hash = compute_leaf_hash(kind, proof.leaf)
    /\ proof.leaf_index < proof.leaf_count
    /\ IF proof.leaf_count = 1
       THEN proof.leaf.hash = root /\ proof.siblings = <<>>
       ELSE LET start == [hash |-> proof.leaf.hash, index |-> proof.leaf_index,
                          width |-> proof.leaf_count]
            IN  FoldLeft(LAMBDA at, s : Climb(kind, at, s), start, proof.siblings).hash = root

verify_export_inclusion_proof(root, proof) ==
    verify_inclusion_proof("export", root, proof)
verify_finalized_import_inclusion_proof(root, proof) ==
    verify_inclusion_proof("import", root, proof)
verify_governance_inclusion_proof(root, proof) ==
    verify_inclusion_proof("governance", root, proof)
=============================================================================

----------------------------- MODULE MCExporter -----------------------------
(* Instances of Exporter for model checking, and the Merkle trees whose    *)
(* roots and proofs Exporter and the other modules take as sets of leaves. *)
EXTENDS Exporter

\* A leaf on its way from the exporter's domain to another one: an export or a
\* governance leaf of its own, or the completion of a transfer from there.
Leaf(k, f, e, i, t) ==
    [kind |-> k, form |-> f, epoch |-> e, id |-> i, at |-> i \div 2, target |-> t,
     hash |-> P!compute_leaf_hash(k, [at |-> i \div 2, id |-> i]),
     source_domain |-> IF k = "import" THEN t ELSE Local,
     target_domain |-> IF k = "import" THEN Local ELSE t]

\* Epoch 0 has three exports, a completion and two governance leaves for the Moon and
\* one for Mars, which gets nothing else, the same on both forks.  Epoch 1 differs
\* from fork to fork, and one of its versions is empty.
TwoForks ==
    [e \in Epoch |-> [v \in Version |->
        IF e = 0 THEN {Leaf("export", "export", e, i, "moon") : i \in 1 .. 3}
                      \cup {Leaf("import", "import", e, 4, "moon"),
                            Leaf("governance", "ack", e, 5, "moon"),
                            Leaf("governance", "proposal", e, 6, "moon"),
                            Leaf("governance", "proposal", e, 7, "mars")}
        ELSE IF v = "a" THEN {Leaf("export", "export", e, 8, "mars")}
        ELSE {}]]

-----------------------------------------------------------------------------
TreeKind == {"export", "import", "governance"}

TreeLeaf(kind, at, id) ==
    [at |-> at, id |-> id, hash |-> P!compute_leaf_hash(kind, [at |-> at, id |-> id])]

\* Leaves of up to n ids; the positions run against the ids.
TreeLeaves(kind, n) == {TreeLeaf(kind, (n - i) \div 2, i) : i \in 1 .. n}
LeavesUpTo(kind, n) == SUBSET TreeLeaves(kind, n)

Verifies(kind, root, proof) ==
    CASE kind = "export" -> P!verify_export_inclusion_proof(root, proof)
      [] kind = "import" -> P!verify_finalized_import_inclusion_proof(root, proof)
      [] kind = "governance" -> P!verify_governance_inclusion_proof(root, proof)

\* Roots identify what they commit: equal roots, of trees of whatever width and
\* kind, come from the same leaves.  The other modules rely on it when they
\* take a root for the set of its leaves.
ASSUME RootsIdentifyLeaves ==
    LET roots(kind) == {<<leaves, P!root(kind, leaves)>> : leaves \in LeavesUpTo(kind, 5)}
    IN  \A r, s \in UNION {roots(kind) : kind \in TreeKind} : r[2] = s[2] => r = s

\* For trees of up to seven leaves: a proof is built for exactly the leaves of
\* the tree, it is about the leaf asked for, and it verifies against the root.
ASSUME ProofsVerify ==
    \A kind \in TreeKind : \A leaves \in LeavesUpTo(kind, 7) :
      \A root \in {P!root(kind, leaves)}, leaf \in TreeLeaves(kind, 7) :
        LET proofs == P!ProofsOf(kind, leaves, leaf)
        IN  /\ {proof.leaf : proof \in proofs} = leaves \cap {leaf}
            /\ \A proof \in proofs : Verifies(kind, root, proof)

\* Whatever index, width and siblings a proof names, and whatever hash its leaf
\* carries, it is accepted only when the leaf, with its own hash, is in the tree.
ASSUME AcceptedIsMember ==
    LET all == TreeLeaves("export", 3)
        pairs == {P!merkle_parent_hash("export", l.hash, m.hash) : l, m \in all}
        siblings == P!BoundedSeq({l.hash : l \in all} \cup pairs, 2)
        claims == {[l EXCEPT !.hash = m.hash] : l, m \in all}
        proofs == {proof \in [leaf : claims, leaf_index : 0 .. 4, leaf_count : 1 .. 4,
                              siblings : siblings] : proof.leaf_index <= proof.leaf_count}
    IN  \A leaves \in SUBSET all : \A root \in {P!root("export", leaves)} :
          \A proof \in proofs :
            Verifies("export", root, proof) => proof.leaf \in leaves
=============================================================================

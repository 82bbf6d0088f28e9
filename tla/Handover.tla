------------------------------ MODULE Handover ------------------------------
(***************************************************************************)
(* What the exporter of a domain promises: once an epoch is final, one     *)
(* package with its leaves is stored for each target domain, never changed *)
(* after that, and handed over to the relay.  Exporter says how, and       *)
(* implements this.                                                        *)
(*                                                                         *)
(* A header is the version of its epoch: two versions of an epoch belong   *)
(* to two forks, and a root is the set of the leaves it commits to.        *)
(***************************************************************************)
EXTENDS Naturals, FiniteSets

CONSTANTS
    Domain,        \* the target domains
    Version,       \* versions of an epoch
    MaxEpoch,      \* bound on the epochs
    Leaves,        \* per epoch and version, leaves [kind, id, target]
    MaxReorgs      \* bound on the changes of fork

Epoch == 0..MaxEpoch
Kind == {"export", "import", "governance"}

ASSUME HandoverAssumption ==
    /\ MaxEpoch \in Nat /\ MaxReorgs \in Nat
    /\ \A e \in Epoch, v \in Version : \A l \in Leaves[e][v] :
          l.kind \in Kind /\ l.target \in Domain

VARIABLES
    best,       \* the version of each epoch staged on the node's best chain
    final,      \* epochs below this one have a finalized, justified staging block
    reorgs,
    files,      \* the package file of each key
    relay       \* packages the relay has accepted

chain == <<best, final, reorgs>>

None == "None"
NoFile == [header |-> None]
Key == Epoch \X Domain

Staged == {e \in Epoch : best[e] # None}
OfKind(leaves, k) == {l \in leaves : l.kind = k}
For(leaves, t) == {l \in leaves : l.target = t}

-----------------------------------------------------------------------------
(* The node's chain *)

Stage ==
    /\ Staged # Epoch
    /\ \E v \in Version : best' = [best EXCEPT ![Cardinality(Staged)] = v]
    /\ UNCHANGED <<final, reorgs>>

Finalize ==
    /\ final < Cardinality(Staged)
    /\ final' = final + 1
    /\ UNCHANGED <<best, reorgs>>

\* The best chain moves to another fork; what is final stays.
Reorg ==
    /\ reorgs < MaxReorgs
    /\ \E b \in [Epoch -> Version \cup {None}] :
          /\ \A e \in Epoch : e < final => b[e] = best[e]
          /\ \A e \in Epoch : b[e] # None => \A d \in 0..e : b[d] # None
          /\ b # best
          /\ best' = b
    /\ reorgs' = reorgs + 1
    /\ UNCHANGED final

ChainStep == Stage \/ Finalize \/ Reorg

-----------------------------------------------------------------------------
(* The packages *)

FinalLeaves(e) == Leaves[e][best[e]]

\* The leaves are those of the final chain.  The header may be one of another
\* fork, when that fork has the same leaves.
StorePackage(k) ==
    /\ files[k] = NoFile
    /\ k[1] < final
    /\ For(FinalLeaves(k[1]), k[2]) # {}
    /\ \E v \in Version :
          /\ Leaves[k[1]][v] = FinalLeaves(k[1])
          /\ files' = [files EXCEPT ![k] = [header |-> v, bundle |-> best[k[1]],
                                            leaves |-> For(FinalLeaves(k[1]), k[2])]]
    /\ UNCHANGED <<chain, relay>>

Payload(k) == [key |-> k, package |-> files[k]]

HandOver(k) ==
    /\ files[k] # NoFile
    /\ Payload(k) \notin relay
    /\ relay' = relay \cup {Payload(k)}
    /\ UNCHANGED <<chain, files>>

HandoverInit ==
    /\ best = [e \in Epoch |-> None]
    /\ final = 0 /\ reorgs = 0
    /\ files = [k \in Key |-> NoFile]
    /\ relay = {}

HandoverNext ==
    \/ ChainStep /\ UNCHANGED <<files, relay>>
    \/ \E k \in Key : StorePackage(k) \/ HandOver(k)

\* The exporter implements its promise: a package file is written for a final
\* epoch only, with the leaves of the final chain for its target, although every
\* read goes to the best chain of its moment; passes that build the package again,
\* restarts and changes of fork leave it as it is; and what the relay accepts is
\* a stored package.
HandoverSpec == HandoverInit /\ [][HandoverNext]_<<chain, files, relay>>

-----------------------------------------------------------------------------
NoMixedFile == \A k \in Key : files[k] # NoFile => files[k].header = files[k].bundle

Held(k) == k[1] < final /\ For(FinalLeaves(k[1]), k[2]) # {} => Payload(k) \in relay

\* Again and again the relay has a package for every target that a finalized epoch
\* has leaves for: none is left behind for good by crashes and lost requests, unless
\* a package was stored with the header of one fork and the bundle of another.  The
\* exporter stops whenever it comes to such a package again.
HandedOver == [] NoMixedFile => []<> (\A k \in Key : Held(k))
=============================================================================

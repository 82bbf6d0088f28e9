---------------------------- MODULE Certification ----------------------------
(***************************************************************************)
(* How an epoch summary is certified and how the certificate is verified.  *)
(* The node answers ialp_summary_certificationReadiness: it looks for the  *)
(* earliest justified block from the block that staged the summary on, and *)
(* proves the summary by the state of that block.  The exporter pairs the  *)
(* answer with a header it read before, and the importer of another domain *)
(* accepts the pair, or not, knowing nothing of the chain.                 *)
(*                                                                         *)
(* A block is the sequence of the choices made from genesis to it: equal   *)
(* sequences are equal hashes, the parent is the sequence without its last *)
(* element, and the state of a block is a function of the sequence.  The   *)
(* node's best chain changes fork above what is final, finality jumps over *)
(* blocks, and old states are pruned, between any two reads of a request.  *)
(***************************************************************************)
EXTENDS Integers, SequencesExt

CONSTANTS
    Branch,        \* the choices that make blocks differ
    MaxHeight,     \* bound on the chain
    MaxEpoch,      \* bound on the epochs
    EpochLength,   \* in blocks
    SetChanges,    \* last block of each authority set but the current one
    KeptStates,    \* finalized states the node keeps
    MaxReorgs      \* bound on the changes of fork

Epoch == 0 .. MaxEpoch

ASSUME CertificationAssumption ==
    /\ Branch # {}
    /\ EpochLength \in Nat \ {0} /\ MaxEpoch \in Nat /\ MaxHeight \in Nat
    /\ KeptStates \in Nat /\ MaxReorgs \in Nat
    /\ SetChanges \in Seq(Nat)
    /\ \A i, j \in DOMAIN SetChanges : i < j => SetChanges[i] < SetChanges[j]

VARIABLES
    best,       \* the best block
    finalized,  \* number of the last finalized block
    justified,  \* blocks stored with a justification
    task,       \* the exporter's visit of an epoch and the request it has made
    bundles,    \* per epoch, the bundles the node has answered with
    packages,   \* per epoch, the headers and bundles the exporter has paired
    reorgs

chain == <<best, finalized, justified, reorgs>>
vars == <<chain, task, bundles, packages>>

None == [epoch |-> -1, blocks |-> <<>>]    \* no header

-----------------------------------------------------------------------------
(* Blocks and their states *)

number(b) == Len(b)
parent_hash(b) == Front(b)
Ancestor(b, n) == SubSeq(b, 1, n)
hash(n) == Ancestor(best, n)            \* the canonical block of that number
FinalBlock == hash(finalized)

\* The first block after an epoch stages its summary, and the summary commits to
\* the blocks before.
staged_at_block_number(e) == (e + 1) * EpochLength + 1

SummaryHeaders(e, b) ==
    IF number(b) >= staged_at_block_number(e)
    THEN [epoch |-> e, blocks |-> Ancestor(b, (e + 1) * EpochLength)]
    ELSE None

\* States of forks that lost, and finalized states that are old, are discarded.
HasState(b) ==
    \/ IsPrefix(FinalBlock, b)
    \/ IsPrefix(b, FinalBlock) /\ number(b) + KeptStates >= finalized

-----------------------------------------------------------------------------
(* The chain *)

\* Which choice a block is does not matter until a fork makes the other one.
Extend ==
    /\ Len(best) < MaxHeight
    /\ best' = Append(best, CHOOSE c \in Branch : TRUE)
    /\ UNCHANGED <<finalized, justified, reorgs, task, bundles, packages>>

\* A fork, perhaps a shorter one, becomes the best one; what is final stays.
Reorg ==
    /\ reorgs < MaxReorgs
    /\ \E n \in finalized + 1 .. Len(best), c \in Branch :
          /\ c # best[n]
          /\ \E m \in n .. Len(best) : best' = SubSeq([best EXCEPT ![n] = c], 1, m)
    /\ reorgs' = reorgs + 1
    /\ UNCHANGED <<finalized, justified, task, bundles, packages>>

\* The authority set that votes on block n: the sets before it have their last
\* blocks before n.  SetChanges is in order, so there is one such number.
SetOf(n) ==
    CHOOSE k \in 0 .. Len(SetChanges) :
        \A i \in DOMAIN SetChanges : i <= k <=> SetChanges[i] < n

SetsUntil(n) == SubSeq(SetChanges, 1, SetOf(n + 1))

\* Authorities finalize a block of the best chain, the last one of their set at
\* most.  With a justification period of one the block keeps its justification,
\* and the blocks that were skipped have none.
Finalize ==
    \E n \in finalized + 1 .. Len(best) :
        /\ SetOf(n) = SetOf(finalized + 1)
        /\ finalized' = n
        /\ justified' = justified \cup {hash(n)}
        /\ UNCHANGED <<best, reorgs, task, bundles, packages>>

-----------------------------------------------------------------------------
(* The exporter's visit of an epoch *)

Idle(e) == [pc |-> "summary", epoch |-> e, header |-> None, best |-> <<>>, finalized |-> 0,
            target |-> <<>>]

Done == task' = Idle(IF task.epoch = MaxEpoch THEN 0 ELSE task.epoch + 1)

\* The header is read at the best block of its moment.
summary_by_epoch ==
    LET header == SummaryHeaders(task.epoch, best)
    IN  /\ task.pc = "summary"
        /\ IF header = None THEN Done
           ELSE task' = [task EXCEPT !.pc = "best", !.header = header]
        /\ UNCHANGED <<chain, bundles, packages>>

-----------------------------------------------------------------------------
(* certification_readiness, read by read *)

ReadBest ==
    /\ task.pc = "best"
    /\ task' = [task EXCEPT !.pc = "finalized", !.best = best]
    /\ UNCHANGED <<chain, bundles, packages>>

ReadFinalized ==
    /\ task.pc = "finalized"
    /\ task' = [task EXCEPT !.pc = "slot", !.finalized = finalized]
    /\ UNCHANGED <<chain, bundles, packages>>

\* The slot is read in the state of the best block noted before; the request
\* fails when that state is gone or has no staged slot, and is answered with
\* pending when the staging block is not canonical yet or not final.
ReadSlot ==
    LET staged == staged_at_block_number(task.epoch)
    IN  /\ task.pc = "slot"
        /\ IF \/ ~ HasState(task.best) \/ SummaryHeaders(task.epoch, task.best) = None
              \/ staged > number(best)
              \/ task.finalized < staged
           THEN Done
           ELSE task' = [task EXCEPT !.pc = "bundle", !.target = hash(staged)]
        /\ UNCHANGED <<chain, bundles, packages>>

\* Mutant: the latest justified block.
find_LatestJustified(first, last) ==
    LET found == {n \in first .. last : hash(n) \in justified}
    IN  IF found = {} THEN 0 ELSE CHOOSE n \in found : \A m \in found : m <= n

\* Mutant: the last block of the range is left out.
find_HalfOpen(first, last) ==
    LET found == {n \in first .. last - 1 : hash(n) \in justified}
    IN  IF found = {} THEN 0 ELSE CHOOSE n \in found : \A m \in found : n <= m

\* zero when there is none
find_earliest_justified_descendant(first, last) ==
    LET found == {n \in first .. last : hash(n) \in justified}
    IN  IF found = {} THEN 0 ELSE CHOOSE n \in found : \A m \in found : n <= m

\* Mutant: the target block is listed too.
ancestry_WithTarget(target, proof) == [i \in 1 .. proof - target + 1 |-> hash(target + i - 1)]

\* the headers after the target up to the proof block
ancestry_headers(target, proof) == [i \in 1 .. proof - target |-> hash(target + i)]

\* The sets with their last blocks, in order; the first that reaches the block.
resolve_grandpa_set_id(current, changes, n) ==
    LET reach == {i \in DOMAIN changes : n <= changes[i]}
    IN  IF reach = {} THEN current ELSE (CHOOSE i \in reach : \A j \in reach : i <= j) - 1

Bundle(proof) ==
    [grandpa_set_id |-> resolve_grandpa_set_id(SetOf(finalized + 1), SetsUntil(finalized), proof),
     target |-> task.target, target_number |-> number(task.target),
     proof |-> hash(proof), proof_number |-> proof,
     justification |-> [target |-> hash(proof), set |-> SetOf(proof)],
     ancestry |-> ancestry_headers(number(task.target), proof),
     storage |-> [block |-> hash(proof), key |-> task.epoch,
                  value |-> SummaryHeaders(task.epoch, hash(proof))]]

\* The proof is built when both states are there and agree on the header.
Provable(proof) ==
    /\ HasState(task.best) /\ HasState(hash(proof))
    /\ SummaryHeaders(task.epoch, task.best) = SummaryHeaders(task.epoch, hash(proof))

build_summary_certification_bundle ==
    LET e == task.epoch
        proof == find_earliest_justified_descendant(number(task.target), task.finalized)
    IN  /\ task.pc = "bundle"
        /\ IF proof # 0 /\ Provable(proof)
           THEN /\ bundles' = [bundles EXCEPT ![e] = @ \cup {Bundle(proof)}]
                /\ packages' = [packages EXCEPT
                       ![e] = @ \cup {[header |-> task.header, bundle |-> Bundle(proof)]}]
           ELSE UNCHANGED <<bundles, packages>>
        /\ Done
        /\ UNCHANGED chain

-----------------------------------------------------------------------------
(* The importer's verification of a package *)

\* Mutant: any header the proof block has a value for.
verify_storage_AnyValue(p) ==
    /\ p.bundle.storage.key = p.header.epoch
    /\ p.bundle.storage.value # None

\* The trie nodes prove the value of one key in the state of the proof block;
\* it has to be the header of the package.
verify_summary_storage_proof(p) ==
    /\ p.bundle.storage.key = p.header.epoch
    /\ SummaryHeaders(p.bundle.storage.key, p.bundle.storage.block) = p.header

verify_ancestry_chain(c) ==
    LET path == <<c.target>> \o c.ancestry
    IN  /\ \A i \in DOMAIN c.ancestry :
              /\ parent_hash(path[i + 1]) = path[i]
              /\ number(path[i + 1]) = c.target_number + i
        /\ Last(path) = c.proof
        /\ c.target_number + Len(c.ancestry) = c.proof_number

verify_summary_chain_context(p) ==
    /\ p.bundle.storage.block = p.bundle.proof
    /\ number(p.bundle.storage.block) = p.bundle.proof_number
    /\ verify_summary_storage_proof(p)
    /\ verify_ancestry_chain(p.bundle)

\* The signatures of a justification hold for the authority set that made it.
verify_grandpa_certificate(c) ==
    /\ c.justification.target = c.proof
    /\ c.justification.set = c.grandpa_set_id

Accepted(p) == verify_summary_chain_context(p) /\ verify_grandpa_certificate(p.bundle)

-----------------------------------------------------------------------------

Init ==
    /\ best = <<>> /\ finalized = 0 /\ justified = {} /\ reorgs = 0
    /\ task = Idle(0)
    /\ bundles = [e \in Epoch |-> {}]
    /\ packages = [e \in Epoch |-> {}]

ExporterStep ==
    \/ summary_by_epoch \/ ReadBest \/ ReadFinalized \/ ReadSlot
    \/ build_summary_certification_bundle

Next == Extend \/ Reorg \/ Finalize \/ ExporterStep

\* Finalized heads keep coming, and at each of them the exporter visits the epochs.
Spec == Init /\ [][Next]_vars /\ WF_vars(ExporterStep)

-----------------------------------------------------------------------------
(* Properties *)

\* What an importer accepts is final: the header is the one of the finalized
\* chain, although the exporter read it from the best chain of another moment
\* than the node read the bundle; a header of one fork with a bundle of another
\* does not pass.
AcceptedIsFinal ==
    \A e \in Epoch : \A p \in packages[e] :
        Accepted(p) => p.header = SummaryHeaders(e, FinalBlock)

\* The node and the importer agree: every bundle the node answers with, whatever
\* changed between its reads and whichever authority set signed, passes the
\* importer's verification together with the finalized header of the epoch.
ReadyIsAccepted ==
    \A e \in Epoch : \A b \in bundles[e] :
        Accepted([header |-> SummaryHeaders(e, FinalBlock), bundle |-> b])

\* The node gives the same bundle for an epoch whenever it is asked, after more
\* blocks were finalized and justified too: the exporter builds the packages of
\* all epochs in every pass and stops when one differs from the stored file.
BundleIsStable ==
    \A e \in Epoch : \A b, c \in bundles[e] : b = c

\* An epoch whose staging block is final gets its bundle, unless the state it
\* would be proved by has been pruned before the exporter came to it.
EventuallyReady ==
    \A e \in Epoch :
        LET staged == staged_at_block_number(e)
        IN  finalized >= staged ~>
                \/ bundles[e] # {}
                \/ ~ HasState(hash(find_earliest_justified_descendant(staged, finalized)))
=============================================================================

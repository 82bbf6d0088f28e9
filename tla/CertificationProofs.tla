------------------------ MODULE CertificationProofs -------------------------
(***************************************************************************)
(* Proofs about Certification, for any chain, epoch length, authority sets *)
(* and number of forks: what an importer accepts is final, and the node    *)
(* has one bundle per epoch, which every importer accepts.                 *)
(***************************************************************************)
EXTENDS Certification, WellFoundedInduction, SequenceTheorems, TLAPS

-----------------------------------------------------------------------------
(* The inductive invariant *)

ChainOK ==
    /\ best \in Seq(Branch)
    /\ finalized \in 0 .. Len(best)

\* What a visit has read: a header of its epoch, and a finalized height that has
\* not been taken back.
TaskOK ==
    /\ DOMAIN task = {"pc", "epoch", "header", "best", "finalized", "target"}
    /\ task.epoch \in Epoch
    /\ task.pc # "summary" => task.header # None /\ task.header.epoch = task.epoch
    /\ task.finalized \in 0 .. finalized
    /\ task.target \in Seq(Branch)

\* A package has a header of its epoch, and its storage proof is about a block
\* of the finalized chain; the header need not be of that chain.
PackagesOK ==
    /\ DOMAIN packages = Epoch
    /\ \A e \in Epoch : \A p \in packages[e] :
          /\ p.header # None
          /\ p.header.epoch = e
          /\ \E n \in 0 .. finalized : p.bundle.storage.block = hash(n)

IInv == ChainOK /\ TaskOK /\ PackagesOK

-----------------------------------------------------------------------------
(* Blocks *)

\* Chains that agree up to a block have the same ancestors up to it.
LEMMA SameAncestor ==
  ASSUME NEW S, NEW s \in Seq(S), NEW t \in Seq(S), NEW n \in Nat,
         n <= Len(s), n <= Len(t), \A i \in 1 .. n : s[i] = t[i]
  PROVE  Ancestor(s, n) = Ancestor(t, n)
<1>1. \A i \in 1 .. n : s[i] \in S /\ t[i] \in S
  BY ElementOfSeq
<1>2. /\ SubSeq(s, 1, n) \in Seq(S) /\ Len(SubSeq(s, 1, n)) = n
      /\ \A i \in 1 .. n : SubSeq(s, 1, n)[i] = s[i]
  BY <1>1, SubSeqProperties
<1>3. /\ SubSeq(t, 1, n) \in Seq(S) /\ Len(SubSeq(t, 1, n)) = n
      /\ \A i \in 1 .. n : SubSeq(t, 1, n)[i] = t[i]
  BY <1>1, SubSeqProperties
<1> QED
  BY <1>2, <1>3, SeqEqual DEF Ancestor

\* An ancestor is a block of its own number.
LEMMA AncestorIsBlock ==
  ASSUME NEW S, NEW s \in Seq(S), NEW n \in Nat, n <= Len(s)
  PROVE  /\ Ancestor(s, n) \in Seq(S)
         /\ Len(Ancestor(s, n)) = n
         /\ \A i \in 1 .. n : Ancestor(s, n)[i] = s[i]
<1>1. \A i \in 1 .. n : s[i] \in S
  BY ElementOfSeq
<1> QED
  BY <1>1, SubSeqProperties DEF Ancestor

\* An ancestor of an ancestor is an ancestor.
LEMMA AncestorOfAncestor ==
  ASSUME NEW S, NEW s \in Seq(S), NEW n \in Nat, n <= Len(s), NEW k \in Nat, k <= n
  PROVE  Ancestor(Ancestor(s, n), k) = Ancestor(s, k)
<1>1. PICK t : t = Ancestor(s, n)
  OBVIOUS
<1>2. t \in Seq(S) /\ Len(t) = n /\ \A i \in 1 .. n : t[i] = s[i]
  BY <1>1, AncestorIsBlock
<1>3. \A i \in 1 .. k : t[i] = s[i]
  BY <1>2
<1>4. k <= Len(t) /\ k <= Len(s)
  BY <1>2
<1> QED
  BY <1>1, <1>2, <1>3, <1>4, SameAncestor

-----------------------------------------------------------------------------
(* Steps *)

\* A set of numbers that is not empty has a smallest one.
LEMMA Smallest ==
  ASSUME NEW S, S \subseteq Nat, S # {}
  PROVE  \E n \in S : \A m \in S : n <= m
<1>1. PICK R : R = OpToRel(<, Nat)
  OBVIOUS
<1>2. IsWellFoundedOn(R, Nat)
  BY <1>1, NatLessThanWellFounded
<1>3. PICK n \in S : \A m \in S : ~ (<<m, n>> \in R)
  BY <1>2, WFMin
<1>4. \A m \in Nat : m < n => <<m, n>> \in R
  BY <1>1 DEF OpToRel
<1>5. \A m \in S : n <= m
  <2>1. \A m \in S : ~ (m < n)
    BY <1>3, <1>4
  <2> QED
    BY <2>1
<1> QED
  BY <1>5

\* No step of the chain changes a block that is final.
LEMMA FinalKept ==
  ASSUME ChainOK, Extend \/ Reorg \/ Finalize
  PROVE  /\ best' \in Seq(Branch) /\ finalized' \in 0 .. Len(best')
         /\ finalized <= finalized'
         /\ \A n \in 0 .. finalized : hash(n)' = hash(n)
<1>1. best \in Seq(Branch) /\ finalized \in Nat /\ finalized <= Len(best) /\ Len(best) \in Nat
  BY DEF ChainOK
<1>2. CASE Extend
  <2>1. PICK c \in Branch : best' = Append(best, c) /\ finalized' = finalized
    BY <1>2, CertificationAssumption DEF Extend
  <2>2. /\ best' \in Seq(Branch) /\ Len(best') = Len(best) + 1
        /\ \A i \in 1 .. Len(best) : best'[i] = best[i]
    BY <1>1, <2>1, AppendProperties
  <2>3. ASSUME NEW n \in 0 .. finalized
        PROVE  Ancestor(best', n) = Ancestor(best, n)
    <3>1. n \in Nat /\ n <= Len(best) /\ n <= Len(best') /\ \A i \in 1 .. n : best'[i] = best[i]
      BY <1>1, <2>2
    <3> QED
      BY <1>1, <2>2, <3>1, SameAncestor
  <2> QED
    BY <1>1, <2>1, <2>2, <2>3 DEF hash
<1>3. CASE Reorg
  <2>0. PICK n \in finalized + 1 .. Len(best), c \in Branch :
            \E m \in n .. Len(best) : best' = SubSeq([best EXCEPT ![n] = c], 1, m)
    BY <1>3 DEF Reorg
  <2>1. PICK m \in n .. Len(best) : best' = SubSeq([best EXCEPT ![n] = c], 1, m)
    BY <2>0
  <2>2. finalized' = finalized /\ n \in Nat /\ m \in Nat /\ finalized < n /\ n <= m
        /\ m <= Len(best)
    BY <1>1, <1>3, <2>1 DEF Reorg
  <2>3. PICK fork : fork = [best EXCEPT ![n] = c]
    OBVIOUS
  <2>4. /\ fork \in Seq(Branch) /\ Len(fork) = Len(best)
        /\ \A i \in 1 .. finalized : fork[i] = best[i]
    BY <1>1, <2>1, <2>2, <2>3
  <2>5. best' = Ancestor(fork, m)
    BY <2>1, <2>3 DEF Ancestor
  <2>6. best' \in Seq(Branch) /\ Len(best') = m
    BY <2>2, <2>4, <2>5, AncestorIsBlock
  <2>7. ASSUME NEW k \in 0 .. finalized
        PROVE  Ancestor(best', k) = Ancestor(best, k)
    <3>1. k \in Nat /\ k <= m /\ k <= Len(best) /\ k <= Len(fork)
      BY <1>1, <2>2, <2>4
    <3>2. Ancestor(best', k) = Ancestor(fork, k)
      BY <2>2, <2>4, <2>5, <3>1, AncestorOfAncestor
    <3>3. \A i \in 1 .. k : fork[i] = best[i]
      BY <1>1, <2>4
    <3>4. Ancestor(fork, k) = Ancestor(best, k)
      BY <1>1, <2>4, <3>1, <3>3, SameAncestor
    <3> QED
      BY <3>2, <3>4
  <2> QED
    BY <1>1, <2>2, <2>6, <2>7 DEF hash
<1>4. CASE Finalize
  <2>1. best' = best /\ finalized' \in finalized + 1 .. Len(best)
    BY <1>4 DEF Finalize
  <2> QED
    BY <1>1, <2>1 DEF hash
<1> QED
  BY <1>2, <1>3, <1>4

\* The chain's steps keep the invariant.
LEMMA ChainIInv ==
  ASSUME IInv, Extend \/ Reorg \/ Finalize
  PROVE  IInv'
<1>1. /\ best' \in Seq(Branch) /\ finalized' \in 0 .. Len(best')
      /\ finalized <= finalized'
      /\ \A n \in 0 .. finalized : hash(n)' = hash(n)
  BY FinalKept DEF IInv
<1>2. UNCHANGED <<task, packages>>
  BY DEF Extend, Reorg, Finalize
<1>3. finalized \in Nat /\ finalized' \in Nat /\ 0 .. finalized \subseteq 0 .. finalized'
  <2>1. finalized \in Nat /\ finalized' \in Nat
    BY <1>1 DEF IInv, ChainOK
  <2> QED
    BY <1>1, <2>1
<1>4. TaskOK'
  BY <1>2, <1>3 DEF IInv, TaskOK
<1>5. ASSUME NEW e \in Epoch, NEW p \in packages[e]
      PROVE  \E n \in 0 .. finalized' : p.bundle.storage.block = hash(n)'
  BY <1>1, <1>3 DEF IInv, PackagesOK
<1>6. PackagesOK'
  BY <1>2, <1>5 DEF IInv, PackagesOK
<1> QED
  BY <1>1, <1>4, <1>6 DEF IInv, ChainOK

\* The number of a staging block, and of the last block its summary commits to.
LEMMA StagedNumbers ==
  ASSUME NEW e \in Epoch
  PROVE  /\ (e + 1) * EpochLength \in Nat
         /\ staged_at_block_number(e) = (e + 1) * EpochLength + 1
         /\ staged_at_block_number(e) \in Nat
<1>1. e + 1 \in Nat /\ EpochLength \in Nat
  BY CertificationAssumption DEF Epoch
<1>2. (e + 1) * EpochLength \in Nat
  BY <1>1
<1> QED
  BY <1>2 DEF staged_at_block_number

\* A visit that ends leaves the next one to begin.
LEMMA DoneTask ==
  ASSUME TaskOK, ChainOK, Done, UNCHANGED finalized
  PROVE  TaskOK'
<1>1. PICK e : e = IF task.epoch = MaxEpoch THEN 0 ELSE task.epoch + 1
  OBVIOUS
<1>2. e \in Epoch
  BY <1>1, CertificationAssumption DEF TaskOK, Epoch
<1>3. task' = Idle(e)
  BY <1>1 DEF Done
<1>4. 0 \in 0 .. finalized /\ <<>> \in Seq(Branch)
  BY DEF ChainOK
<1> QED
  BY <1>2, <1>3, <1>4 DEF TaskOK, Idle

\* The exporter's reads keep the invariant.
LEMMA ReadIInv ==
  ASSUME IInv, summary_by_epoch \/ ReadBest \/ ReadFinalized \/ ReadSlot
  PROVE  IInv'
<1>1. UNCHANGED <<best, finalized, packages>>
  BY DEF summary_by_epoch, ReadBest, ReadFinalized, ReadSlot, chain
<1>2. ChainOK' /\ PackagesOK'
  BY <1>1 DEF IInv, ChainOK, PackagesOK, hash
<1>3. TaskOK /\ ChainOK
  BY DEF IInv
<1>4. TaskOK'
  <2>1. CASE Done
    BY <1>1, <1>3, <2>1, DoneTask
  <2>2. CASE summary_by_epoch /\ ~ Done
    <3>1. PICK header : header = SummaryHeaders(task.epoch, best)
      OBVIOUS
    <3>2. header # None /\ task' = [task EXCEPT !.pc = "best", !.header = header]
      BY <2>2, <3>1 DEF summary_by_epoch
    <3>3. header.epoch = task.epoch
      BY <3>1, <3>2 DEF SummaryHeaders
    <3> QED
      BY <1>1, <1>3, <3>2, <3>3 DEF TaskOK
  <2>3. CASE ReadBest
    <3>1. task.pc # "summary" /\ task' = [task EXCEPT !.pc = "finalized", !.best = best]
      BY <2>3 DEF ReadBest
    <3> QED
      BY <1>1, <1>3, <3>1 DEF TaskOK
  <2>4. CASE ReadFinalized
    <3>1. task.pc # "summary" /\ task' = [task EXCEPT !.pc = "slot", !.finalized = finalized]
      BY <2>4 DEF ReadFinalized
    <3>2. finalized \in 0 .. finalized
      BY <1>3 DEF ChainOK
    <3> QED
      BY <1>1, <1>3, <3>1, <3>2 DEF TaskOK
  <2>5. CASE ReadSlot /\ ~ Done
    <3>1. PICK n : n = staged_at_block_number(task.epoch)
      OBVIOUS
    <3>2. /\ task.pc # "summary" /\ ~ (n > number(best))
          /\ task' = [task EXCEPT !.pc = "bundle", !.target = hash(n)]
      BY <2>5, <3>1 DEF ReadSlot
    <3>3. n \in Nat
      BY <1>3, <3>1, StagedNumbers DEF TaskOK
    <3>4. hash(n) \in Seq(Branch)
      <4>1. best \in Seq(Branch) /\ n <= Len(best)
        BY <1>3, <3>2, <3>3 DEF ChainOK, number
      <4> QED
        BY <3>3, <4>1, AncestorIsBlock DEF hash
    <3> QED
      BY <1>1, <1>3, <3>2, <3>4 DEF TaskOK
  <2> QED
    BY <2>1, <2>2, <2>3, <2>4, <2>5
<1> QED
  BY <1>2, <1>4 DEF IInv

\* A bundle is proved by a block that was final when the visit read the height.
LEMMA BundleIInv ==
  ASSUME IInv, build_summary_certification_bundle
  PROVE  IInv'
<1>1. PICK e : e = task.epoch
  OBVIOUS
<1>2. PICK proof : proof = find_earliest_justified_descendant(number(task.target), task.finalized)
  OBVIOUS
<1>3. /\ UNCHANGED <<best, finalized>> /\ Done /\ task.pc = "bundle"
      /\ \/ packages' = packages
         \/ /\ proof # 0
            /\ packages' = [packages EXCEPT
                   ![e] = @ \cup {[header |-> task.header, bundle |-> Bundle(proof)]}]
  BY <1>1, <1>2 DEF build_summary_certification_bundle, chain
<1>4. TaskOK /\ ChainOK /\ PackagesOK
  BY DEF IInv
<1>5. TaskOK' /\ ChainOK'
  BY <1>3, <1>4, DoneTask DEF ChainOK
<1>6. \A n : hash(n)' = hash(n)
  BY <1>3 DEF hash
<1>7. ASSUME packages' = packages
      PROVE  PackagesOK'
  BY <1>3, <1>4, <1>6, <1>7 DEF PackagesOK
<1>8. ASSUME proof # 0,
             packages' = [packages EXCEPT
                 ![e] = @ \cup {[header |-> task.header, bundle |-> Bundle(proof)]}]
      PROVE  PackagesOK'
  <2>1. /\ e \in Epoch /\ task.finalized \in Nat /\ task.finalized <= finalized
        /\ finalized \in Nat /\ number(task.target) \in Nat
    BY <1>1, <1>4 DEF TaskOK, ChainOK, number
  <2>2. proof \in 0 .. finalized
    <3>1. PICK first \in Nat : first = number(task.target)
      BY <2>1
    <3>2. PICK found : found = {n \in first .. task.finalized : hash(n) \in justified}
      OBVIOUS
    <3>3. proof = IF found = {} THEN 0 ELSE CHOOSE n \in found : \A m \in found : n <= m
      BY <1>2, <3>1, <3>2 DEF find_earliest_justified_descendant
    <3>4. found # {} /\ found \in SUBSET Nat
      BY <1>8, <2>1, <3>1, <3>2, <3>3
    <3>5. \E n \in found : \A m \in found : n <= m
      BY <3>4, Smallest
    <3>6. proof \in found
      BY <3>3, <3>4, <3>5
    <3> QED
      BY <2>1, <3>1, <3>2, <3>6
  <2>3. PICK p : p = [header |-> task.header, bundle |-> Bundle(proof)]
    OBVIOUS
  <2>4. p.header # None /\ p.header.epoch = e /\ p.bundle.storage.block = hash(proof)
    BY <1>1, <1>3, <1>4, <2>3 DEF TaskOK, Bundle
  <2>5. /\ DOMAIN packages' = Epoch
        /\ packages'[e] = packages[e] \cup {p}
        /\ \A f \in Epoch : f # e => packages'[f] = packages[f]
    BY <1>4, <1>8, <2>1, <2>3 DEF PackagesOK
  <2>6. ASSUME NEW f \in Epoch, NEW q \in packages'[f]
        PROVE  /\ q.header # None
               /\ q.header.epoch = f
               /\ \E n \in 0 .. finalized : q.bundle.storage.block = hash(n)
    <3>1. CASE q \in packages[f]
      BY <1>4, <3>1 DEF PackagesOK
    <3>2. CASE q \notin packages[f]
      <4>1. f = e /\ q = p
        BY <2>5, <2>6, <3>2
      <4> QED
        BY <2>2, <2>4, <4>1
    <3> QED
      BY <3>1, <3>2
  <2> QED
    BY <1>3, <1>6, <2>5, <2>6 DEF PackagesOK
<1>9. PackagesOK'
  BY <1>3, <1>7, <1>8
<1> QED
  BY <1>5, <1>9 DEF IInv

\* Nothing is accepted before the first visit.
LEMMA InitIInv == Init => IInv
<1> SUFFICES ASSUME Init PROVE IInv
  OBVIOUS
<1>1. best = <<>> /\ finalized = 0 /\ Len(best) = 0 /\ best \in Seq(Branch)
  BY DEF Init
<1>2. ChainOK
  BY <1>1 DEF ChainOK
<1>3. TaskOK
  <2>1. task = Idle(0) /\ 0 \in Epoch /\ 0 \in 0 .. finalized
    BY <1>1, CertificationAssumption DEF Init, Epoch
  <2> QED
    BY <1>1, <2>1 DEF TaskOK, Idle
<1>4. PackagesOK
  BY DEF Init, PackagesOK
<1> QED
  BY <1>2, <1>3, <1>4 DEF IInv

\* Every step keeps the invariant.
LEMMA NextIInv == IInv /\ [Next]_vars => IInv'
<1>1. IInv /\ UNCHANGED vars => IInv'
  BY DEF vars, chain, IInv, ChainOK, TaskOK, PackagesOK, hash
<1> QED
  BY <1>1, ChainIInv, ReadIInv, BundleIInv DEF Next, ExporterStep

-----------------------------------------------------------------------------
(* Theorems *)

\* The inductive invariant holds in every state.
THEOREM CertificationInvariant == Spec => []IInv
<1>1. Init => IInv
  BY InitIInv
<1>2. IInv /\ [Next]_vars => IInv'
  BY NextIInv
<1> QED
  BY <1>1, <1>2, PTL DEF Spec

\* verify_summary_chain_context lets a header pass only if the finalized chain
\* has it: the storage proof is about a final block, and a final block that has
\* the epoch's header has the same one as every final block after it.
THEOREM AcceptedHeaderIsFinal == Spec => []AcceptedIsFinal
<1>1. IInv => AcceptedIsFinal
  <2> SUFFICES ASSUME IInv, NEW e \in Epoch, NEW p \in packages[e], Accepted(p)
               PROVE  p.header = SummaryHeaders(e, FinalBlock)
    BY DEF AcceptedIsFinal
  <2>1. best \in Seq(Branch) /\ finalized \in Nat /\ finalized <= Len(best)
    BY DEF IInv, ChainOK
  <2>2. p.header # None /\ p.header.epoch = e
    BY DEF IInv, PackagesOK
  <2>3. PICK n \in 0 .. finalized : p.bundle.storage.block = hash(n)
    BY DEF IInv, PackagesOK
  <2>4. n \in Nat /\ n <= finalized /\ n <= Len(best)
    BY <2>1, <2>3
  <2>5. SummaryHeaders(e, hash(n)) = p.header
    BY <2>2, <2>3 DEF Accepted, verify_summary_chain_context, verify_summary_storage_proof
  <2>6. PICK k \in Nat : k = (e + 1) * EpochLength /\ staged_at_block_number(e) = k + 1
    BY StagedNumbers
  <2>7. Len(hash(n)) = n /\ Len(FinalBlock) = finalized
    BY <2>1, <2>4, AncestorIsBlock DEF hash, FinalBlock
  <2>8. n >= k + 1 /\ p.header = [epoch |-> e, blocks |-> Ancestor(hash(n), k)]
    BY <2>2, <2>5, <2>6, <2>7 DEF SummaryHeaders, number
  <2>9. SummaryHeaders(e, FinalBlock) = [epoch |-> e, blocks |-> Ancestor(FinalBlock, k)]
    BY <2>1, <2>4, <2>6, <2>7, <2>8 DEF SummaryHeaders, number
  <2>10. k <= n /\ k <= finalized
    BY <2>1, <2>4, <2>8
  <2>11. Ancestor(hash(n), k) = Ancestor(best, k)
    BY <2>1, <2>4, <2>10, AncestorOfAncestor DEF hash
  <2>12. Ancestor(FinalBlock, k) = Ancestor(best, k)
    BY <2>1, <2>10, AncestorOfAncestor DEF hash, FinalBlock
  <2> QED
    BY <2>8, <2>9, <2>11, <2>12
<1> QED
  BY <1>1, CertificationInvariant, PTL
-----------------------------------------------------------------------------
(* Bundles *)

\* The number of the block that proves the summary of epoch e.
IsProofOf(e, n) ==
    /\ n \in staged_at_block_number(e) .. finalized
    /\ hash(n) \in justified
    /\ \A m \in staged_at_block_number(e) .. finalized : hash(m) \in justified => n <= m

\* The bundle that proves the summary of epoch e by block n.
BundleOf(e, n) ==
    [grandpa_set_id |-> SetOf(n),
     target |-> hash(staged_at_block_number(e)),
     target_number |-> staged_at_block_number(e),
     proof |-> hash(n), proof_number |-> n,
     justification |-> [target |-> hash(n), set |-> SetOf(n)],
     ancestry |-> ancestry_headers(staged_at_block_number(e), n),
     storage |-> [block |-> hash(n), key |-> e, value |-> SummaryHeaders(e, hash(n))]]

\* Only final blocks are justified, a visit that has found the staging block
\* final holds that block, and every bundle is the one of the block that proves
\* its epoch.
BundleInv ==
    /\ \A b \in justified : \E n \in 1 .. finalized : b = hash(n)
    /\ task.pc = "bundle" =>
          /\ staged_at_block_number(task.epoch) <= task.finalized
          /\ task.target = hash(staged_at_block_number(task.epoch))
    /\ DOMAIN bundles = Epoch
    /\ \A e \in Epoch : \A b \in bundles[e] : \E n \in Nat : IsProofOf(e, n) /\ b = BundleOf(e, n)

\* There is exactly one authority set per block.
LEMMA SetOfIs ==
  ASSUME NEW n \in Int
  PROVE  /\ SetOf(n) \in 0 .. Len(SetChanges)
         /\ \A i \in DOMAIN SetChanges : i <= SetOf(n) <=> SetChanges[i] < n
<1>1. /\ Len(SetChanges) \in Nat
      /\ DOMAIN SetChanges = 1 .. Len(SetChanges)
      /\ \A i \in DOMAIN SetChanges : SetChanges[i] \in Nat
      /\ \A i, j \in DOMAIN SetChanges : i < j => SetChanges[i] < SetChanges[j]
  BY CertificationAssumption
<1>2. PICK late : late = {i \in DOMAIN SetChanges : ~ SetChanges[i] < n}
  OBVIOUS
<1>3. \E k \in 0 .. Len(SetChanges) : \A i \in DOMAIN SetChanges : i <= k <=> SetChanges[i] < n
  <2>1. CASE late = {}
    <3>1. \A i \in DOMAIN SetChanges : i <= Len(SetChanges) /\ SetChanges[i] < n
      BY <1>1, <1>2, <2>1
    <3> QED
      BY <1>1, <3>1
  <2>2. CASE late # {}
    <3>1. late \subseteq Nat
      BY <1>1, <1>2
    <3>2. PICK l \in late : \A m \in late : l <= m
      BY <2>2, <3>1, Smallest
    <3>3. l - 1 \in 0 .. Len(SetChanges) /\ l \in Nat /\ ~ SetChanges[l] < n /\ l \in DOMAIN SetChanges
      BY <1>1, <1>2, <3>1
    <3>4. ASSUME NEW i \in DOMAIN SetChanges
          PROVE  i <= l - 1 <=> SetChanges[i] < n
      <4>1. CASE i <= l - 1
        BY <1>1, <1>2, <3>2, <3>3, <4>1
      <4>2. CASE i = l
        BY <1>1, <3>3, <4>2
      <4>3. CASE l < i
        <5>1. SetChanges[l] < SetChanges[i]
          BY <1>1, <3>3, <4>3
        <5>2. SetChanges[l] \in Nat /\ SetChanges[i] \in Nat /\ i \in Nat
          BY <1>1, <3>3
        <5> QED
          BY <3>3, <4>3, <5>1, <5>2
      <4>4. i \in Nat
        BY <1>1
      <4> QED
        BY <3>3, <4>1, <4>2, <4>3, <4>4
    <3> QED
      BY <3>3, <3>4
  <2> QED
    BY <2>1, <2>2
<1> QED
  BY <1>3 DEF SetOf

\* A number that parts the set changes before a block from the others is its set.
LEMMA SetOfOnly ==
  ASSUME NEW n \in Int, NEW k \in 0 .. Len(SetChanges),
         \A i \in DOMAIN SetChanges : i <= k <=> SetChanges[i] < n
  PROVE  SetOf(n) = k
<1>1. Len(SetChanges) \in Nat /\ DOMAIN SetChanges = 1 .. Len(SetChanges)
  BY CertificationAssumption
<1>2. PICK s : s = SetOf(n)
  OBVIOUS
<1>3. s \in 0 .. Len(SetChanges) /\ \A i \in DOMAIN SetChanges : i <= s <=> i <= k
  BY <1>2, SetOfIs
<1>4. CASE s < k
  <2>1. k \in DOMAIN SetChanges
    BY <1>1, <1>3, <1>4
  <2> QED
    BY <1>3, <1>4, <2>1
<1>5. CASE k < s
  <2>1. s \in DOMAIN SetChanges
    BY <1>1, <1>3, <1>5
  <2> QED
    BY <1>3, <1>5, <2>1
<1> QED
  BY <1>2, <1>3, <1>4, <1>5

\* resolve_grandpa_set_id, asked for a final block with the sets of the current
\* finalized block, finds the set that voted on it.
LEMMA ResolvesSet ==
  ASSUME NEW f \in Nat, NEW n \in Nat, n <= f
  PROVE  resolve_grandpa_set_id(SetOf(f + 1), SetsUntil(f), n) = SetOf(n)
<1>1. /\ Len(SetChanges) \in Nat
      /\ DOMAIN SetChanges = 1 .. Len(SetChanges)
      /\ \A i \in DOMAIN SetChanges : SetChanges[i] \in Nat
      /\ \A i, j \in DOMAIN SetChanges : i < j => SetChanges[i] < SetChanges[j]
  BY CertificationAssumption
<1>2. PICK k : k = SetOf(f + 1)
  OBVIOUS
<1>3. k \in 0 .. Len(SetChanges) /\ \A i \in DOMAIN SetChanges : i <= k <=> SetChanges[i] < f + 1
  <2>1. f + 1 \in Int
    OBVIOUS
  <2> QED
    BY <1>2, <2>1, SetOfIs, Zenon
<1>4. PICK changes : changes = SetsUntil(f)
  OBVIOUS
<1>5. DOMAIN changes = 1 .. k /\ \A i \in 1 .. k : changes[i] = SetChanges[i]
  <2>1. \A i \in 1 .. k : SetChanges[i] \in Nat
    BY <1>1, <1>3
  <2>2. changes = SubSeq(SetChanges, 1, k)
    BY <1>2, <1>4 DEF SetsUntil
  <2>3. k \in Nat /\ k <= Len(SetChanges) /\ SetChanges \in Seq(Nat)
    BY <1>1, <1>3, CertificationAssumption
  <2>4. Len(SubSeq(SetChanges, 1, k)) = k /\ SubSeq(SetChanges, 1, k) \in Seq(Nat)
        /\ \A i \in 1 .. k : SubSeq(SetChanges, 1, k)[i] = SetChanges[i]
    BY <2>1, <2>3, SubSeqProperties
  <2> QED
    BY <2>2, <2>4
<1>6. PICK reach : reach = {i \in DOMAIN changes : n <= changes[i]}
  OBVIOUS
<1>7. resolve_grandpa_set_id(k, changes, n) =
          IF reach = {} THEN k ELSE (CHOOSE i \in reach : \A j \in reach : i <= j) - 1
  BY <1>6 DEF resolve_grandpa_set_id
<1>8. \A i \in DOMAIN SetChanges : k < i => ~ SetChanges[i] < n
  BY <1>1, <1>3
<1>9. CASE reach = {}
  <2>1. \A i \in DOMAIN SetChanges : i <= k => SetChanges[i] < n
    BY <1>1, <1>3, <1>5, <1>6, <1>9
  <2>2. \A i \in DOMAIN SetChanges : i <= k <=> SetChanges[i] < n
    BY <1>1, <1>3, <1>8, <2>1
  <2>3. SetOf(n) = k
    BY <1>3, <2>2, SetOfOnly
  <2> QED
    BY <1>2, <1>4, <1>7, <1>9, <2>3
<1>10. CASE reach # {}
  <2>1. reach \subseteq Nat
    BY <1>3, <1>5, <1>6
  <2>2. \E i \in reach : \A j \in reach : i <= j
    BY <1>10, <2>1, Smallest
  <2>3. PICK l : l = CHOOSE i \in reach : \A j \in reach : i <= j
    OBVIOUS
  <2>4. l \in reach /\ \A j \in reach : l <= j
    BY <2>2, <2>3
  <2>5. l \in 1 .. k /\ n <= SetChanges[l] /\ l \in DOMAIN SetChanges
    BY <1>1, <1>3, <1>5, <1>6, <2>4
  <2>6. ASSUME NEW i \in DOMAIN SetChanges
        PROVE  i <= l - 1 <=> SetChanges[i] < n
    <3>0. i \in Nat /\ l \in Nat /\ SetChanges[i] \in Nat /\ SetChanges[l] \in Nat
      BY <1>1, <2>5
    <3>1. CASE i < l
      <4>1. i \in 1 .. k /\ i \notin reach
        BY <1>1, <1>3, <2>4, <2>5, <3>0, <3>1
      <4> QED
        BY <1>5, <1>6, <3>0, <3>1, <4>1
    <3>2. CASE i = l
      BY <2>5, <3>0, <3>2
    <3>3. CASE l < i
      <4>1. SetChanges[l] < SetChanges[i]
        BY <1>1, <2>5, <3>3
      <4> QED
        BY <2>5, <3>0, <3>3, <4>1
    <3> QED
      BY <3>0, <3>1, <3>2, <3>3
  <2>7. l - 1 \in 0 .. Len(SetChanges)
    BY <1>1, <1>3, <2>5
  <2>8. SetOf(n) = l - 1
    BY <2>6, <2>7, SetOfOnly
  <2> QED
    BY <1>2, <1>4, <1>7, <1>10, <2>3, <2>8
<1> QED
  BY <1>9, <1>10

\* Blocks of different numbers are different.
LEMMA HashNumber ==
  ASSUME ChainOK, NEW n \in 0 .. finalized
  PROVE  /\ n \in Nat /\ n <= Len(best)
         /\ hash(n) \in Seq(Branch)
         /\ Len(hash(n)) = n
<1>1. n \in Nat /\ n <= Len(best) /\ best \in Seq(Branch)
  BY DEF ChainOK
<1> QED
  BY <1>1, AncestorIsBlock DEF hash

\* A step of the chain that keeps the final blocks keeps the bundles of the
\* epochs proved by them.
LEMMA BundleKept ==
  ASSUME ChainOK, finalized' \in Nat, finalized <= finalized',
         \A n \in 0 .. finalized : hash(n)' = hash(n),
         \A n \in 0 .. finalized : hash(n) \in justified' <=> hash(n) \in justified,
         NEW e \in Epoch, NEW n \in Nat, IsProofOf(e, n)
  PROVE  IsProofOf(e, n)' /\ BundleOf(e, n)' = BundleOf(e, n)
<1>1. PICK s \in Nat : s = staged_at_block_number(e)
  BY StagedNumbers
<1>2. /\ finalized \in Nat /\ n \in s .. finalized /\ hash(n) \in justified
      /\ \A m \in s .. finalized : hash(m) \in justified => n <= m
  BY <1>1 DEF IsProofOf, ChainOK
<1>3. hash(n)' = hash(n) /\ hash(s)' = hash(s)
  BY <1>1, <1>2
<1>4. IsProofOf(e, n)'
  <2>1. n \in s .. finalized' /\ hash(n)' \in justified'
    BY <1>1, <1>2, <1>3
  <2>2. ASSUME NEW m \in s .. finalized', hash(m)' \in justified'
        PROVE  n <= m
    <3>1. CASE m <= finalized
      <4>1. m \in s .. finalized /\ m \in 0 .. finalized
        BY <1>1, <1>2, <3>1
      <4>2. hash(m) \in justified
        BY <2>2, <4>1
      <4> QED
        BY <1>2, <4>1, <4>2
    <3>2. CASE ~ (m <= finalized)
      BY <1>1, <1>2, <3>2
    <3> QED
      BY <3>1, <3>2
  <2>3. staged_at_block_number(e)' = s
    BY <1>1 DEF staged_at_block_number
  <2> QED
    BY <1>1, <2>1, <2>2, <2>3 DEF IsProofOf
<1>5. ancestry_headers(s, n)' = ancestry_headers(s, n)
  <2>1. \A i \in 1 .. n - s : hash(s + i)' = hash(s + i)
    BY <1>1, <1>2
  <2> QED
    BY <2>1 DEF ancestry_headers
<1>6. SummaryHeaders(e, hash(n))' = SummaryHeaders(e, hash(n))
  BY <1>3 DEF SummaryHeaders, number, Ancestor, staged_at_block_number
<1>7. SetOf(n)' = SetOf(n)
  BY DEF SetOf
<1> QED
  BY <1>1, <1>3, <1>4, <1>5, <1>6, <1>7 DEF BundleOf, staged_at_block_number

\* Finality reaches blocks above the final ones only, and those alone get a
\* justification.
LEMMA JustifiedKept ==
  ASSUME ChainOK, \A b \in justified : \E n \in 1 .. finalized : b = hash(n),
         Extend \/ Reorg \/ Finalize
  PROVE  /\ \A n \in 0 .. finalized : hash(n) \in justified' <=> hash(n) \in justified
         /\ \A b \in justified' : \E n \in 1 .. finalized' : b = hash(n)'
<1>1. /\ finalized \in Nat /\ finalized' \in Nat /\ finalized <= finalized'
      /\ finalized' <= Len(best')
      /\ \A n \in 0 .. finalized : hash(n)' = hash(n)
  BY FinalKept DEF ChainOK
<1>2. ASSUME NEW b \in justified
      PROVE  \E n \in 1 .. finalized' : b = hash(n)'
  <2>1. PICK n \in 1 .. finalized : b = hash(n)
    OBVIOUS
  <2>2. n \in 0 .. finalized /\ n \in 1 .. finalized'
    BY <1>1
  <2> QED
    BY <1>1, <2>1, <2>2
<1>3. CASE Extend \/ Reorg
  <2>1. justified' = justified
    BY <1>3 DEF Extend, Reorg
  <2> QED
    BY <1>2, <2>1
<1>4. CASE Finalize
  <2>1. PICK n \in finalized + 1 .. Len(best) :
            finalized' = n /\ justified' = justified \cup {hash(n)} /\ best' = best
    BY <1>4 DEF Finalize
  <2>2. n \in Nat /\ finalized < n /\ n <= Len(best) /\ best \in Seq(Branch)
    BY <1>1, <2>1 DEF ChainOK
  <2>3. Len(hash(n)) = n
    BY <2>2, AncestorIsBlock DEF hash
  <2>4. \A m \in 0 .. finalized : hash(m) # hash(n)
    BY <1>1, <2>2, <2>3, HashNumber
  <2>5. hash(n)' = hash(n) /\ n \in 1 .. finalized'
    BY <1>1, <2>1, <2>2 DEF hash
  <2> QED
    BY <1>2, <2>1, <2>4, <2>5
<1> QED
  BY <1>3, <1>4

\* The chain's steps keep every bundle the one of its epoch.
LEMMA ChainBundles ==
  ASSUME IInv, BundleInv, Extend \/ Reorg \/ Finalize
  PROVE  BundleInv'
<1>1. /\ finalized \in Nat /\ finalized' \in Nat /\ finalized <= finalized'
      /\ \A n \in 0 .. finalized : hash(n)' = hash(n)
  BY FinalKept DEF IInv, ChainOK
<1>2. ChainOK /\ TaskOK /\ \A b \in justified : \E n \in 1 .. finalized : b = hash(n)
  BY DEF IInv, BundleInv
<1>3. /\ \A n \in 0 .. finalized : hash(n) \in justified' <=> hash(n) \in justified
      /\ \A b \in justified' : \E n \in 1 .. finalized' : b = hash(n)'
  BY <1>2, JustifiedKept
<1>4. task' = task /\ bundles' = bundles
  BY DEF Extend, Reorg, Finalize
<1>5. ASSUME task.pc = "bundle"
      PROVE  /\ staged_at_block_number(task.epoch) <= task.finalized
             /\ task.target = hash(staged_at_block_number(task.epoch))'
  <2>1. PICK s \in Nat : s = staged_at_block_number(task.epoch)
    BY <1>2, StagedNumbers DEF TaskOK
  <2>2. s <= task.finalized /\ task.target = hash(s)
    BY <1>5, <2>1 DEF BundleInv
  <2>3. s \in 0 .. finalized
    BY <1>1, <1>2, <2>1, <2>2 DEF TaskOK
  <2>4. hash(s)' = hash(s)
    BY <1>1, <2>3
  <2>5. staged_at_block_number(task.epoch)' = s
    BY <1>4, <2>1 DEF staged_at_block_number
  <2> QED
    BY <2>1, <2>2, <2>4, <2>5
<1>6. ASSUME NEW e \in Epoch, NEW b \in bundles[e]
      PROVE  \E n \in Nat : IsProofOf(e, n)' /\ b = BundleOf(e, n)'
  <2>1. PICK n \in Nat : IsProofOf(e, n) /\ b = BundleOf(e, n)
    BY DEF BundleInv
  <2>2. IsProofOf(e, n)' /\ BundleOf(e, n)' = BundleOf(e, n)
    BY <1>1, <1>2, <1>3, <2>1, BundleKept
  <2> QED
    BY <2>1, <2>2
<1>7. DOMAIN bundles = Epoch
  BY DEF BundleInv
<1> QED
  BY <1>3, <1>4, <1>5, <1>6, <1>7 DEF BundleInv, staged_at_block_number

\* What the invariant says of the bundles when the chain stands still.
LEMMA SameBundles ==
  ASSUME UNCHANGED <<best, finalized, justified>>
  PROVE  /\ \A n : hash(n)' = hash(n)
         /\ \A e, n : IsProofOf(e, n)' <=> IsProofOf(e, n)
         /\ \A e, n : BundleOf(e, n)' = BundleOf(e, n)
<1>1. \A n : hash(n)' = hash(n)
  BY DEF hash
<1>2. \A s, n : ancestry_headers(s, n)' = ancestry_headers(s, n)
  BY DEF ancestry_headers, hash
<1> QED
  BY <1>1, <1>2 DEF IsProofOf, BundleOf, hash

\* The exporter's reads change no bundle, and the slot is read when the staging
\* block is final.
LEMMA ReadBundles ==
  ASSUME IInv, BundleInv, summary_by_epoch \/ ReadBest \/ ReadFinalized \/ ReadSlot
  PROVE  BundleInv'
<1>1. UNCHANGED <<best, finalized, justified, bundles>>
  BY DEF summary_by_epoch, ReadBest, ReadFinalized, ReadSlot, chain
<1>2. /\ \A n : hash(n)' = hash(n)
      /\ \A e, n : IsProofOf(e, n)' <=> IsProofOf(e, n)
      /\ \A e, n : BundleOf(e, n)' = BundleOf(e, n)
  BY <1>1, SameBundles
<1>3. TaskOK /\ ChainOK
  BY DEF IInv
<1>4. task'.pc = "bundle" =>
          /\ staged_at_block_number(task'.epoch) <= task'.finalized
          /\ task'.target = hash(staged_at_block_number(task'.epoch))
  <2>1. CASE Done
    BY <2>1 DEF Done, Idle
  <2>2. CASE summary_by_epoch /\ ~ Done
    BY <1>3, <2>2 DEF summary_by_epoch, TaskOK
  <2>3. CASE ReadBest
    BY <1>3, <2>3 DEF ReadBest, TaskOK
  <2>4. CASE ReadFinalized
    BY <1>3, <2>4 DEF ReadFinalized, TaskOK
  <2>5. CASE ReadSlot /\ ~ Done
    <3>1. PICK s : s = staged_at_block_number(task.epoch)
      OBVIOUS
    <3>2. ~ task.finalized < s /\ task' = [task EXCEPT !.pc = "bundle", !.target = hash(s)]
      BY <2>5, <3>1 DEF ReadSlot
    <3>3. task'.epoch = task.epoch /\ task'.finalized = task.finalized /\ task'.target = hash(s)
      BY <1>3, <3>2 DEF TaskOK
    <3>4. s \in Nat /\ task.finalized \in Nat
      BY <1>3, <3>1, StagedNumbers DEF TaskOK, ChainOK
    <3> QED
      BY <3>1, <3>2, <3>3, <3>4
  <2> QED
    BY <2>1, <2>2, <2>3, <2>4, <2>5
<1>5. staged_at_block_number(task.epoch)' = staged_at_block_number(task'.epoch)
  BY DEF staged_at_block_number
<1> QED
  BY <1>1, <1>2, <1>4, <1>5 DEF BundleInv

\* The bundle that is built is the one of the earliest final block that is
\* justified, although finality has gone on since the height was read.
LEMMA BuildBundles ==
  ASSUME IInv, BundleInv, build_summary_certification_bundle
  PROVE  BundleInv'
<1>1. PICK e : e = task.epoch
  OBVIOUS
<1>2. PICK proof : proof = find_earliest_justified_descendant(number(task.target), task.finalized)
  OBVIOUS
<1>3. /\ UNCHANGED <<best, finalized, justified>> /\ Done /\ task.pc = "bundle"
      /\ \/ bundles' = bundles
         \/ /\ proof # 0
            /\ bundles' = [bundles EXCEPT ![e] = @ \cup {Bundle(proof)}]
  BY <1>1, <1>2 DEF build_summary_certification_bundle, chain
<1>4. TaskOK /\ ChainOK /\ DOMAIN bundles = Epoch
  BY DEF IInv, BundleInv
<1>5. e \in Epoch /\ task.finalized \in Nat /\ task.finalized <= finalized /\ finalized \in Nat
  BY <1>1, <1>4 DEF TaskOK, ChainOK
<1>6. PICK s \in Nat : s = staged_at_block_number(e)
  BY <1>5, StagedNumbers
<1>7. s <= task.finalized /\ task.target = hash(s)
  BY <1>1, <1>3, <1>6 DEF BundleInv
<1>8. number(task.target) = s
  <2>1. s \in 0 .. finalized
    BY <1>5, <1>7
  <2> QED
    BY <1>4, <1>7, <2>1, HashNumber DEF number
<1>9. ASSUME proof # 0
      PROVE  proof \in Nat /\ IsProofOf(e, proof) /\ Bundle(proof) = BundleOf(e, proof)
  <2>1. PICK found : found = {n \in s .. task.finalized : hash(n) \in justified}
    OBVIOUS
  <2>2. proof = IF found = {} THEN 0 ELSE CHOOSE n \in found : \A m \in found : n <= m
    BY <1>2, <1>8, <2>1 DEF find_earliest_justified_descendant
  <2>3. found # {} /\ found \subseteq Nat
    BY <1>5, <1>9, <2>1, <2>2
  <2>4. \E n \in found : \A m \in found : n <= m
    BY <2>3, Smallest
  <2>5. proof \in found /\ \A m \in found : proof <= m
    BY <2>2, <2>3, <2>4
  <2>6. proof \in Nat /\ proof \in s .. task.finalized /\ hash(proof) \in justified
    BY <2>1, <2>3, <2>5
  <2>7. ASSUME NEW m \in s .. finalized, hash(m) \in justified
        PROVE  proof <= m
    <3>1. CASE m <= task.finalized
      BY <1>5, <2>1, <2>5, <2>7, <3>1
    <3>2. CASE ~ m <= task.finalized
      BY <1>5, <2>6, <3>2
    <3> QED
      BY <3>1, <3>2
  <2>8. IsProofOf(e, proof)
    BY <1>5, <1>6, <2>6, <2>7 DEF IsProofOf
  <2>9. resolve_grandpa_set_id(SetOf(finalized + 1), SetsUntil(finalized), proof) = SetOf(proof)
    BY <1>5, <2>6, ResolvesSet
  <2>10. Bundle(proof) = BundleOf(e, proof)
    BY <1>1, <1>6, <1>7, <1>8, <2>9 DEF Bundle, BundleOf
  <2> QED
    BY <2>6, <2>8, <2>10
<1>10. /\ \A n : hash(n)' = hash(n)
       /\ \A f, n : IsProofOf(f, n)' <=> IsProofOf(f, n)
       /\ \A f, n : BundleOf(f, n)' = BundleOf(f, n)
  BY <1>3, SameBundles
<1>11. DOMAIN bundles' = Epoch
  BY <1>3, <1>4
<1>12. ASSUME NEW f \in Epoch, NEW b \in bundles'[f]
       PROVE  \E n \in Nat : IsProofOf(f, n) /\ b = BundleOf(f, n)
  <2>1. CASE b \in bundles[f]
    BY <2>1 DEF BundleInv
  <2>2. CASE b \notin bundles[f]
    <3>1. proof # 0 /\ f = e /\ b = Bundle(proof)
      BY <1>3, <1>4, <1>5, <1>12, <2>2
    <3> QED
      BY <1>9, <3>1
  <2> QED
    BY <2>1, <2>2
<1>13. task'.pc # "bundle"
  BY <1>3 DEF Done, Idle
<1>14. \A b \in justified' : \E n \in 1 .. finalized' : b = hash(n)'
  BY <1>3, <1>10 DEF BundleInv
<1> QED
  BY <1>10, <1>11, <1>12, <1>13, <1>14 DEF BundleInv

\* The node starts with no justification and no bundle.
LEMMA InitBundles == Init => BundleInv
BY DEF Init, BundleInv, Idle

\* Every step keeps the bundles.
LEMMA NextBundles == IInv /\ BundleInv /\ [Next]_vars => BundleInv'
<1>1. ASSUME BundleInv, UNCHANGED vars
      PROVE  BundleInv'
  <2>1. UNCHANGED <<best, finalized, justified, task, bundles>>
    BY <1>1 DEF vars, chain
  <2>2. /\ \A n : hash(n)' = hash(n)
        /\ \A e, n : IsProofOf(e, n)' <=> IsProofOf(e, n)
        /\ \A e, n : BundleOf(e, n)' = BundleOf(e, n)
    BY <2>1, SameBundles
  <2>3. staged_at_block_number(task.epoch)' = staged_at_block_number(task.epoch)
    BY <2>1 DEF staged_at_block_number
  <2> QED
    BY <1>1, <2>1, <2>2, <2>3 DEF BundleInv
<1> QED
  BY <1>1, ChainBundles, ReadBundles, BuildBundles DEF Next, ExporterStep

\* Every bundle is, in every state, the one of the block that proves its epoch.
THEOREM BundlesAreProofs == Spec => [](IInv /\ BundleInv)
<1>1. Init => IInv /\ BundleInv
  BY InitIInv, InitBundles
<1>2. (IInv /\ BundleInv) /\ [Next]_vars => (IInv /\ BundleInv)'
  BY NextIInv, NextBundles
<1> QED
  BY <1>1, <1>2, PTL DEF Spec

\* certification_readiness answers with one bundle per epoch, whenever it is
\* asked: the earliest justified block from the staging block on stays the
\* earliest one, and neither its ancestry nor its authority set changes.
THEOREM BundleIsStableHolds == Spec => []BundleIsStable
<1>1. IInv /\ BundleInv => BundleIsStable
  <2> SUFFICES ASSUME IInv, BundleInv, NEW e \in Epoch, NEW b \in bundles[e], NEW c \in bundles[e]
               PROVE  b = c
    BY DEF BundleIsStable
  <2>1. PICK n \in Nat : IsProofOf(e, n) /\ b = BundleOf(e, n)
    BY DEF BundleInv
  <2>2. PICK m \in Nat : IsProofOf(e, m) /\ c = BundleOf(e, m)
    BY DEF BundleInv
  <2>3. n <= m /\ m <= n
    BY <2>1, <2>2 DEF IsProofOf
  <2>4. n = m
    BY <2>3
  <2> QED
    BY <2>1, <2>2, <2>4
<1> QED
  BY <1>1, BundlesAreProofs, PTL

\* The parent of a final block is the final block before it.
LEMMA ParentIsBefore ==
  ASSUME ChainOK, NEW n \in 1 .. finalized
  PROVE  parent_hash(hash(n)) = hash(n - 1)
<1>1. best \in Seq(Branch) /\ n \in Nat /\ n - 1 \in Nat /\ n <= Len(best) /\ n - 1 <= n
  BY DEF ChainOK
<1>2. Len(hash(n)) = n
  BY <1>1, AncestorIsBlock DEF hash
<1>3. parent_hash(hash(n)) = Ancestor(hash(n), n - 1)
  BY <1>2 DEF parent_hash, Front, Ancestor
<1>4. Ancestor(hash(n), n - 1) = hash(n - 1)
  BY <1>1, AncestorOfAncestor DEF hash
<1> QED
  BY <1>3, <1>4

\* verify_ancestry_chain follows the headers of a bundle from the staging block
\* to the block that proves the summary.
LEMMA AncestryVerifies ==
  ASSUME ChainOK, NEW e \in Epoch, NEW n \in Nat, IsProofOf(e, n)
  PROVE  verify_ancestry_chain(BundleOf(e, n))
<1>1. PICK s \in Nat : s = staged_at_block_number(e)
  BY StagedNumbers
<1>2. finalized \in Nat /\ s <= n /\ n <= finalized
  BY <1>1 DEF IsProofOf, ChainOK
<1>3. PICK c : c = BundleOf(e, n)
  OBVIOUS
<1>4. /\ c.target = hash(s) /\ c.target_number = s /\ c.proof = hash(n) /\ c.proof_number = n
      /\ c.ancestry = [i \in 1 .. n - s |-> hash(s + i)]
  BY <1>1, <1>3 DEF BundleOf, ancestry_headers
<1>5. \A m \in 0 .. finalized : hash(m) \in Seq(Branch) /\ Len(hash(m)) = m
  BY HashNumber
<1>6. PICK a : a = c.ancestry
  OBVIOUS
<1>7. a \in Seq(Seq(Branch)) /\ Len(a) = n - s /\ \A i \in 1 .. n - s : a[i] = hash(s + i)
  <2>1. n - s \in Nat /\ \A i \in 1 .. n - s : s + i \in 0 .. finalized
    BY <1>2
  <2>2. a = [i \in 1 .. n - s |-> hash(s + i)] /\ \A i \in 1 .. n - s : hash(s + i) \in Seq(Branch)
    BY <1>4, <1>5, <1>6, <2>1
  <2> QED
    BY <2>1, <2>2
<1>8. PICK path : path = <<hash(s)>> \o a
  OBVIOUS
<1>9. hash(s) \in Seq(Branch)
  BY <1>2, <1>5
<1>10. /\ path \in Seq(Seq(Branch)) /\ Len(path) = n - s + 1
       /\ path[1] = hash(s) /\ \A i \in 1 .. n - s : path[i + 1] = hash(s + i)
  BY <1>2, <1>7, <1>8, <1>9
<1>11. \A j \in 1 .. n - s + 1 : path[j] = hash(s + j - 1)
  <2> TAKE j \in 1 .. n - s + 1
  <2>1. CASE j = 1
    <3>1. s + j - 1 = s
      BY <2>1
    <3> QED
      BY <1>10, <2>1, <3>1
  <2>2. CASE j # 1
    <3>1. j - 1 \in 1 .. n - s /\ (j - 1) + 1 = j /\ s + (j - 1) = s + j - 1
      BY <1>2, <2>2
    <3> QED
      BY <1>10, <3>1
  <2> QED
    BY <2>1, <2>2
<1>12. ASSUME NEW i \in DOMAIN a
       PROVE  parent_hash(path[i + 1]) = path[i] /\ number(path[i + 1]) = s + i
  <2>1. i \in 1 .. n - s
    BY <1>2, <1>7
  <2>2. s + i \in 1 .. finalized /\ s + i \in 0 .. finalized /\ i \in 1 .. n - s + 1
    BY <1>2, <2>1
  <2>3. path[i + 1] = hash(s + i) /\ path[i] = hash(s + i - 1)
    BY <1>10, <1>11, <2>1, <2>2
  <2>4. parent_hash(hash(s + i)) = hash(s + i - 1)
    BY <2>2, ParentIsBefore
  <2>5. number(hash(s + i)) = s + i
    BY <1>5, <2>2 DEF number
  <2> QED
    BY <2>3, <2>4, <2>5
<1>13. Last(path) = hash(n)
  <2>1. n - s + 1 \in 1 .. n - s + 1 /\ s + (n - s + 1) - 1 = n
    BY <1>2
  <2>2. path[n - s + 1] = hash(n)
    BY <1>11, <2>1
  <2> QED
    BY <1>10, <2>2 DEF Last
<1>14. s + Len(a) = n
  BY <1>2, <1>7
<1> QED
  BY <1>3, <1>4, <1>6, <1>8, <1>12, <1>13, <1>14 DEF verify_ancestry_chain

\* The header a final block has for an epoch is the one of every final block
\* after it.
LEMMA HeaderIsFinal ==
  ASSUME ChainOK, NEW e \in Epoch, NEW n \in staged_at_block_number(e) .. finalized
  PROVE  /\ SummaryHeaders(e, hash(n)) = SummaryHeaders(e, FinalBlock)
         /\ SummaryHeaders(e, FinalBlock).epoch = e
<1>1. best \in Seq(Branch) /\ finalized \in Nat /\ finalized <= Len(best)
  BY DEF ChainOK
<1>2. PICK k \in Nat : k = (e + 1) * EpochLength /\ staged_at_block_number(e) = k + 1
  BY StagedNumbers
<1>3. n \in Nat /\ k + 1 <= n /\ n <= finalized /\ n <= Len(best) /\ k <= n /\ k <= finalized
  BY <1>1, <1>2
<1>4. Len(hash(n)) = n /\ Len(FinalBlock) = finalized
  BY <1>1, <1>3, AncestorIsBlock DEF hash, FinalBlock
<1>5. SummaryHeaders(e, hash(n)) = [epoch |-> e, blocks |-> Ancestor(hash(n), k)]
  BY <1>2, <1>3, <1>4 DEF SummaryHeaders, number
<1>6. SummaryHeaders(e, FinalBlock) = [epoch |-> e, blocks |-> Ancestor(FinalBlock, k)]
  BY <1>1, <1>2, <1>3, <1>4 DEF SummaryHeaders, number
<1>7. Ancestor(hash(n), k) = Ancestor(best, k)
  BY <1>1, <1>3, AncestorOfAncestor DEF hash
<1>8. Ancestor(FinalBlock, k) = Ancestor(best, k)
  BY <1>1, <1>3, AncestorOfAncestor DEF hash, FinalBlock
<1> QED
  BY <1>5, <1>6, <1>7, <1>8

\* Every bundle certification_readiness answers with passes the importer's
\* verification with the finalized header of its epoch: the value is proved at
\* a final block, the ancestry leads from the staging block to it, and the set
\* identifier is the one of the authorities that signed.
THEOREM ReadyIsAcceptedHolds == Spec => []ReadyIsAccepted
<1>1. IInv /\ BundleInv => ReadyIsAccepted
  <2> SUFFICES ASSUME IInv, BundleInv, NEW e \in Epoch, NEW b \in bundles[e]
               PROVE  Accepted([header |-> SummaryHeaders(e, FinalBlock), bundle |-> b])
    BY DEF ReadyIsAccepted
  <2>1. PICK n \in Nat : IsProofOf(e, n) /\ b = BundleOf(e, n)
    BY DEF BundleInv
  <2>2. ChainOK /\ n \in staged_at_block_number(e) .. finalized
    BY <2>1 DEF IInv, IsProofOf
  <2>3. verify_ancestry_chain(b)
    BY <2>1, <2>2, AncestryVerifies
  <2>4. PICK header : header = SummaryHeaders(e, FinalBlock)
    OBVIOUS
  <2>5. SummaryHeaders(e, hash(n)) = header /\ header.epoch = e
    BY <2>2, <2>4, HeaderIsFinal
  <2>6. number(hash(n)) = n
    <3>1. n \in 0 .. finalized
      BY <2>1, <2>2, StagedNumbers DEF ChainOK
    <3> QED
      BY <2>2, <3>1, HashNumber DEF number
  <2>7. /\ b.storage.block = hash(n) /\ b.storage.key = e /\ b.proof = hash(n)
        /\ b.proof_number = n /\ b.justification.target = hash(n)
        /\ b.justification.set = SetOf(n) /\ b.grandpa_set_id = SetOf(n)
    BY <2>1 DEF BundleOf
  <2>8. PICK p : p = [header |-> header, bundle |-> b]
    OBVIOUS
  <2>9. p.header = header /\ p.bundle = b
    BY <2>8
  <2>10. verify_summary_chain_context(p)
    BY <2>3, <2>5, <2>6, <2>7, <2>9 DEF verify_summary_chain_context, verify_summary_storage_proof
  <2>11. verify_grandpa_certificate(b)
    BY <2>7 DEF verify_grandpa_certificate
  <2> QED
    BY <2>4, <2>8, <2>9, <2>10, <2>11 DEF Accepted
<1> QED
  BY <1>1, BundlesAreProofs, PTL
=============================================================================

---------------------------- MODULE EpochsProofs ----------------------------
(***************************************************************************)
(* Proofs about Epochs, for any epoch length, any number of blocks and any *)
(* extrinsics: the headers chain, each folds the blocks of its range once  *)
(* and in order, and each commits what was listed in those blocks.         *)
(***************************************************************************)
EXTENDS Epochs, SequenceTheorems, TLAPS

-----------------------------------------------------------------------------
(* The inductive invariant *)

\* The first and the last block of epoch e when epochs have l blocks.
First(l, e) == e * l + 1
Last(l, e) == (e + 1) * l

\* The accumulator of epoch e over k observed blocks, beginning at block a.
Folded(e, a, k, obs) ==
    seed_epoch_accumulator(e) \o [i \in 1 .. k |-> <<a + i - 1, obs[a + i - 1]>>]

SlotFields ==
    {"start_height", "end_height", "reserved_at_block", "staged_at_block_number",
     "last_touched_block", "header", "status", "state_root", "root",
     "blocks_observed", "last_observed_block"}

Item == (1 .. MaxBlock) \X (1 .. MaxExtrinsics)

Types ==
    /\ epochLengthBlocks \in Nat \ {0}
    /\ block \in 0 .. MaxBlock
    /\ phase \in {"Building", "Sealed"}
    /\ extrinsics \in 0 .. MaxExtrinsics
    /\ initialized \in BOOLEAN
    /\ initialized <=> block # 0
    /\ DOMAIN summarySlots = Epoch
    /\ DOMAIN summaryHeaders = Epoch
    /\ DOMAIN work = Epoch
    /\ \A e \in Epoch : work[e] \subseteq Item
    /\ observed \in Seq(PendingBlockObservation)

\* The block being executed, or sealed last, belongs to the current epoch; one
\* that is sealed has been observed and not yet folded.
Position ==
    /\ currentEpoch \in Nat
    /\ currentEpochStart = First(epochLengthBlocks, currentEpoch)
    /\ block = 0 => currentEpoch = 0 /\ phase = "Sealed" /\ pendingBlockObservation = Missing
    /\ block # 0 => /\ First(epochLengthBlocks, currentEpoch) <= block
                    /\ block <= Last(epochLengthBlocks, currentEpoch)
    /\ Len(observed) = IF phase = "Sealed" THEN block ELSE block - 1
    /\ block # 0 /\ phase = "Sealed" => pendingBlockObservation = observed[block]

\* The open slot has folded the blocks of its epoch before this one.
SlotOK ==
    block # 0 =>
        LET slot == summarySlots[currentEpoch]
        IN  /\ DOMAIN slot = SlotFields
            /\ slot.status = "Reserved"
            /\ slot.root = Folded(currentEpoch, currentEpochStart, block - currentEpochStart,
                                  observed)

\* Items are listed under the epoch of the block that listed them.
WorkOK ==
    \A e \in Epoch : \A item \in work[e] :
        /\ e <= currentEpoch
        /\ First(epochLengthBlocks, e) <= item[1]
        /\ item[1] <= Last(epochLengthBlocks, e)

HeadersOK ==
    \A e \in Closed :
        /\ summaryHeaders[e].commitment = work[e]
        /\ summaryHeaders[e].root =
              Folded(e, First(epochLengthBlocks, e), epochLengthBlocks, observed)
        /\ summaryHeaders[e].state_root = observed[Last(epochLengthBlocks, e)].state_root

IInv == Types /\ Position /\ SlotOK /\ WorkOK /\ HeadersOK /\ SummariesChain

-----------------------------------------------------------------------------
(* Blocks and epochs *)

\* Consecutive epochs are adjacent, and an epoch's number is below its blocks'.
LEMMA EpochRange ==
  ASSUME NEW l \in Nat \ {0}, NEW e \in Nat
  PROVE  /\ First(l, e) \in Nat /\ First(l, e) > e
         /\ Last(l, e) = First(l, e) + l - 1
         /\ First(l, e + 1) = Last(l, e) + 1
         /\ First(l, 0) = 1
<1>1. e * l \in Nat /\ e * l >= e
  OBVIOUS
<1>2. (e + 1) * l = e * l + l
  OBVIOUS
<1> QED
  BY <1>1, <1>2 DEF First, Last

\* Epochs do not overlap.
LEMMA EpochsDisjoint ==
  ASSUME NEW l \in Nat \ {0}, NEW e \in Nat, NEW f \in Nat, e < f
  PROVE  Last(l, e) < First(l, f)
<1>1. PICK d \in Nat : f = e + 1 + d
  <2>1. f - e - 1 \in Nat /\ f = e + 1 + (f - e - 1)
    OBVIOUS
  <2> QED
    BY <2>1
<1>2. d * l \in Nat
  OBVIOUS
<1>3. f * l = (e + 1) * l + d * l
  BY <1>1
<1> QED
  BY <1>2, <1>3 DEF First, Last

\* The boundary test of apply_parent_block_observation holds at the last block of
\* an epoch only.
LEMMA BoundaryIsLast ==
  ASSUME NEW l \in Nat \ {0}, NEW e \in Nat, NEW n \in Nat,
         First(l, e) <= n, n <= Last(l, e)
  PROVE  n % l = 0 <=> n = Last(l, e)
<1>1. /\ n \div l \in Int /\ n % l \in 0 .. l - 1
      /\ n = l * (n \div l) + (n % l)
  OBVIOUS
<1>2. PICK d \in Int, m \in 0 .. l - 1 : d = n \div l /\ m = n % l /\ n = l * d + m
  BY <1>1
<1>3. e * l + 1 <= l * d + m /\ l * d + m <= e * l + l
  BY <1>2 DEF First, Last
<1>4. PICK k \in Int : k = d - e
  OBVIOUS
<1>5. l * d = e * l + l * k
  BY <1>4
<1>6. 1 <= l * k + m /\ l * k + m <= l
  <2>1. PICK a \in Int, b \in Int, c \in Int : a = e * l /\ b = l * d /\ c = l * k
    OBVIOUS
  <2> QED
    BY <1>3, <1>5, <2>1
<1>7. CASE k <= 0
  <2>1. l * k <= 0
    BY <1>7
  <2>2. m # 0
    BY <1>6, <2>1
  <2>3. k = 0
    <3>1. SUFFICES ASSUME k <= -1 PROVE FALSE
      BY <1>7
    <3>2. l * k <= -l
      BY <3>1
    <3> QED
      BY <1>6, <3>2
  <2>4. n # Last(l, e)
    BY <1>2, <1>5, <2>3 DEF Last
  <2> QED
    BY <1>2, <2>2, <2>4
<1>8. CASE k >= 1
  <2>1. l * k >= l
    BY <1>8
  <2>2. m = 0 /\ l * k = l
    BY <1>6, <2>1
  <2>3. n = Last(l, e)
    BY <1>2, <1>5, <2>2 DEF Last
  <2> QED
    BY <1>2, <2>2, <2>3
<1> QED
  BY <1>7, <1>8

-----------------------------------------------------------------------------
(* The accumulator *)

\* The entry of the accumulator for the i-th block from a.
Entry(a, obs, i) == <<a + i - 1, obs[a + i - 1]>>

EntriesIn(T, a, k, obs) == \A i \in 1 .. k : Entry(a, obs, i) \in T

IsFolded(s, T, e, a, k, obs) ==
    /\ s \in Seq(T)
    /\ Len(s) = k + 1
    /\ s[1] = e
    /\ \A i \in 1 .. k : s[i + 1] = Entry(a, obs, i)

\* The accumulator, element by element.
LEMMA FoldedSeq ==
  ASSUME NEW e, NEW a, NEW k, k \in Nat, NEW obs, NEW T, e \in T, EntriesIn(T, a, k, obs)
  PROVE  IsFolded(Folded(e, a, k, obs), T, e, a, k, obs)
<1> DEFINE s == [i \in 1 .. k |-> Entry(a, obs, i)]
<1>1. s \in Seq(T) /\ Len(s) = k /\ \A i \in 1 .. k : s[i] = Entry(a, obs, i)
  <2>1. \A i \in 1 .. k : s[i] \in T
    BY DEF EntriesIn
  <2> QED
    BY <2>1, IsASeq
<1>2. <<e>> \in Seq(T) /\ Len(<<e>>) = 1 /\ <<e>>[1] = e
  OBVIOUS
<1>3. Folded(e, a, k, obs) = <<e>> \o s
  BY DEF Folded, Entry, seed_epoch_accumulator
<1> HIDE DEF s
<1>4. /\ <<e>> \o s \in Seq(T)
      /\ Len(<<e>> \o s) = 1 + k
      /\ \A i \in 1 .. 1 + k : (<<e>> \o s)[i] = IF i <= 1 THEN <<e>>[i] ELSE s[i - 1]
  BY <1>1, <1>2, ConcatProperties
<1>5. ASSUME NEW i \in 1 .. k
      PROVE  (<<e>> \o s)[i + 1] = Entry(a, obs, i)
  <2>1. i + 1 \in 1 .. 1 + k /\ ~ (i + 1 <= 1) /\ (i + 1) - 1 = i
    OBVIOUS
  <2> QED
    BY <1>1, <1>4, <2>1
<1>6. (<<e>> \o s)[1] = e
  BY <1>2, <1>4
<1> QED
  BY <1>3, <1>4, <1>5, <1>6 DEF IsFolded

\* An accumulator that nothing was folded into is the seed.
LEMMA FoldedNone ==
  ASSUME NEW e, NEW a \in Nat, NEW obs
  PROVE  Folded(e, a, 0, obs) = seed_epoch_accumulator(e)
<1>1. IsFolded(Folded(e, a, 0, obs), {e}, e, a, 0, obs)
  <2>1. EntriesIn({e}, a, 0, obs)
    BY DEF EntriesIn
  <2> QED
    BY <2>1, FoldedSeq
<1>2. <<e>> \in Seq({e}) /\ Len(<<e>>) = 1 /\ <<e>>[1] = e
  OBVIOUS
<1> QED
  BY <1>1, <1>2, SeqEqual DEF seed_epoch_accumulator, IsFolded

\* Folding the next block extends the accumulator by it.
LEMMA FoldedOneMore ==
  ASSUME NEW e, NEW a \in Nat, NEW k \in Nat, NEW obs
  PROVE  fold_epoch_accumulator(Folded(e, a, k, obs), a + k, obs[a + k])
            = Folded(e, a, k + 1, obs)
<1> DEFINE T == {e} \cup {Entry(a, obs, i) : i \in 1 .. k + 1}
           s == Folded(e, a, k, obs)
           t == Folded(e, a, k + 1, obs)
           x == Entry(a, obs, k + 1)
<1>1. e \in T /\ x \in T /\ \A i \in 1 .. k + 1 : Entry(a, obs, i) \in T
  OBVIOUS
<1>2. fold_epoch_accumulator(s, a + k, obs[a + k]) = Append(s, x)
  BY DEF fold_epoch_accumulator, Entry
<1> HIDE DEF T
<1>3. /\ s \in Seq(T) /\ Len(s) = k + 1 /\ s[1] = e
      /\ \A i \in 1 .. k : s[i + 1] = Entry(a, obs, i)
  <2>1. EntriesIn(T, a, k, obs)
    BY <1>1 DEF EntriesIn
  <2>2. IsFolded(s, T, e, a, k, obs)
    BY <1>1, <2>1, FoldedSeq
  <2> QED
    BY <2>2 DEF IsFolded
<1>4. /\ t \in Seq(T) /\ Len(t) = (k + 1) + 1 /\ t[1] = e
      /\ \A i \in 1 .. k + 1 : t[i + 1] = Entry(a, obs, i)
  <2>1. k + 1 \in Nat /\ EntriesIn(T, a, k + 1, obs)
    BY <1>1 DEF EntriesIn
  <2>2. IsFolded(t, T, e, a, k + 1, obs)
    BY <1>1, <2>1, FoldedSeq
  <2> QED
    BY <2>2 DEF IsFolded
<1>5. t[k + 2] = x
  <2>1. k + 1 \in 1 .. k + 1 /\ k + 2 = (k + 1) + 1
    OBVIOUS
  <2>2. t[(k + 1) + 1] = Entry(a, obs, k + 1)
    BY <1>4, <2>1
  <2> QED
    BY <2>1, <2>2
<1> HIDE DEF s, t, x
<1>6. /\ Append(s, x) \in Seq(T) /\ Len(Append(s, x)) = k + 2
      /\ \A i \in 1 .. k + 1 : Append(s, x)[i] = s[i]
      /\ Append(s, x)[k + 2] = x
  BY <1>1, <1>3, AppendProperties
<1>7. ASSUME NEW i \in 1 .. k + 2
      PROVE  Append(s, x)[i] = t[i]
  <2>1. CASE i = 1
    BY <1>3, <1>4, <1>6, <2>1
  <2>2. CASE i = k + 2
    BY <1>5, <1>6, <2>2
  <2>3. CASE i # 1 /\ i # k + 2
    <3>1. PICK j \in 1 .. k : i = j + 1
      <4>1. i - 1 \in 1 .. k /\ i = (i - 1) + 1
        BY <2>3
      <4> QED
        BY <4>1
    <3>2. s[j + 1] = Entry(a, obs, j) /\ t[j + 1] = Entry(a, obs, j)
      BY <1>3, <1>4, <3>1
    <3> QED
      BY <1>6, <2>3, <3>1, <3>2
  <2> QED
    BY <2>1, <2>2, <2>3
<1>8. Append(s, x) = t
  BY <1>4, <1>6, <1>7, SeqEqual
<1> QED
  BY <1>2, <1>8 DEF s, t

\* Observations of later blocks do not change what was folded.
LEMMA FoldedKept ==
  ASSUME NEW e, NEW a \in Nat, a >= 1, NEW k \in Nat, NEW S, NEW obs \in Seq(S), NEW x \in S,
         a + k <= Len(obs) + 1
  PROVE  Folded(e, a, k, Append(obs, x)) = Folded(e, a, k, obs)
<1>1. ASSUME NEW i \in 1 .. k
      PROVE  Append(obs, x)[a + i - 1] = obs[a + i - 1]
  <2>1. a + i - 1 \in 1 .. Len(obs)
    OBVIOUS
  <2> QED
    BY <2>1, AppendProperties
<1> QED
  BY <1>1 DEF Folded

-----------------------------------------------------------------------------
(* Steps *)

\* An observation is not the absence of one.
LEMMA ObservationNotMissing ==
  ASSUME NEW o \in PendingBlockObservation
  PROVE  o # Missing
<1>1. DOMAIN o = {"block_number", "state_root", "extrinsic_count"}
  BY DEF PendingBlockObservation
<1>2. DOMAIN Missing = {"status"}
  BY DEF Missing
<1> QED
  BY <1>1, <1>2

\* The chain starts with no work done.
LEMMA InitIInv == Init => IInv
<1> SUFFICES ASSUME Init PROVE IInv
  OBVIOUS
<1> USE EpochsAssumption
<1>1. \A e \in Epoch : summaryHeaders[e] = Missing /\ work[e] = {}
  BY DEF Init
<1>2. Types
  <2>1. epochLengthBlocks \in Nat \ {0}
    BY DEF Init
  <2> QED
    BY <2>1 DEF Init, Types, Epoch
<1>3. Closed = {}
  BY <1>1 DEF Closed
<1>4. Position
  <2>1. First(epochLengthBlocks, 0) = 1
    BY <1>2, EpochRange DEF Types
  <2> QED
    BY <2>1 DEF Init, Position
<1>5. SlotOK
  BY DEF Init, SlotOK
<1>6. WorkOK
  BY <1>1 DEF WorkOK
<1>7. HeadersOK
  BY <1>3 DEF HeadersOK
<1>8. SummariesChain
  BY <1>3 DEF Init, SummariesChain
<1> QED
  BY <1>2, <1>4, <1>5, <1>6, <1>7, <1>8 DEF IInv

\* The current epoch is open and within the bound while blocks are executed.
LEMMA CurrentOpen ==
  ASSUME IInv, block # 0
  PROVE  currentEpoch \in Epoch /\ currentEpoch \notin Closed
<1> USE EpochsAssumption
<1>1. /\ currentEpoch \in Nat /\ epochLengthBlocks \in Nat \ {0} /\ block \in 0 .. MaxBlock
      /\ First(epochLengthBlocks, currentEpoch) <= block
  BY DEF IInv, Types, Position
<1>2. First(epochLengthBlocks, currentEpoch) > currentEpoch
      /\ First(epochLengthBlocks, currentEpoch) \in Nat
  BY <1>1, EpochRange
<1>3. Closed = 0 .. currentEpoch - 1
  BY DEF IInv, SummariesChain
<1> QED
  BY <1>1, <1>2, <1>3 DEF Epoch

\* An extrinsic lists its item under the epoch of the block it executes in.
LEMMA ExtrinsicIInv ==
  ASSUME IInv, NEW lists \in BOOLEAN, Extrinsic(lists)
  PROVE  IInv'
<1> USE EpochsAssumption
<1>1. /\ phase = "Building" /\ extrinsics < MaxExtrinsics
      /\ extrinsics' = extrinsics + 1
      /\ UNCHANGED <<block, phase, initialized, epochLengthBlocks, currentEpoch,
                     currentEpochStart, summaryHeaders, latestSummaryHash, summaryCount,
                     summarySlots, pendingBlockObservation, observed>>
  BY DEF Extrinsic, summaryVars
<1>2. block # 0
  BY <1>1 DEF IInv, Position
<1>3. currentEpoch \in Epoch /\ currentEpoch \notin Closed
  BY <1>2, CurrentOpen
<1> DEFINE item == <<block, extrinsics + 1>>
<1>4. /\ DOMAIN work' = Epoch
      /\ \A e \in Epoch : e # currentEpoch => work'[e] = work[e]
      /\ work'[currentEpoch] \subseteq work[currentEpoch] \cup {item}
  BY <1>3 DEF Extrinsic, IInv, Types
<1>5. item \in Item
  BY <1>1, <1>2 DEF IInv, Types, Item
<1>6. Types'
  <2>1. \A e \in Epoch : work'[e] \subseteq Item
    BY <1>4, <1>5 DEF IInv, Types
  <2>2. extrinsics' \in 0 .. MaxExtrinsics
    BY <1>1 DEF IInv, Types
  <2> QED
    BY <1>1, <1>4, <2>1, <2>2 DEF IInv, Types
<1>7. Position' /\ SlotOK'
  BY <1>1 DEF IInv, Position, SlotOK
<1>8. WorkOK'
  <2>1. /\ First(epochLengthBlocks, currentEpoch) <= item[1]
        /\ item[1] <= Last(epochLengthBlocks, currentEpoch)
        /\ currentEpoch <= currentEpoch
    BY <1>2 DEF IInv, Position
  <2> HIDE DEF item
  <2> QED
    BY <1>1, <1>3, <1>4, <2>1 DEF IInv, WorkOK
<1>9. Closed' = Closed
  BY <1>1 DEF Closed
<1>10. HeadersOK'
  BY <1>1, <1>3, <1>4, <1>9 DEF IInv, HeadersOK, Closed
<1>11. SummariesChain'
  BY <1>1, <1>9 DEF IInv, SummariesChain
<1> QED
  BY <1>6, <1>7, <1>8, <1>10, <1>11 DEF IInv

\* on_finalize observes the block; what was folded before stays.
LEMMA FinalizeIInv ==
  ASSUME IInv, on_finalize
  PROVE  IInv'
<1> USE EpochsAssumption
<1>1. /\ phase = "Building" /\ phase' = "Sealed"
      /\ pendingBlockObservation' = [block_number |-> block, state_root |-> current_storage_root,
                                     extrinsic_count |-> extrinsics]
      /\ observed' = Append(observed, pendingBlockObservation')
      /\ UNCHANGED <<block, extrinsics, initialized, epochLengthBlocks, currentEpoch,
                     currentEpochStart, summaryHeaders, latestSummaryHash, summaryCount,
                     summarySlots, work>>
  BY DEF on_finalize, store_pending_block_observation, summaryVars
<1>2. block # 0 /\ block \in 1 .. MaxBlock /\ Len(observed) = block - 1
  BY <1>1 DEF IInv, Position, Types
<1>3. current_storage_root \in SUBSET Item
  BY DEF IInv, Types, current_storage_root
<1>4. PICK x : x = pendingBlockObservation'
  OBVIOUS
<1>5. x \in PendingBlockObservation
  BY <1>1, <1>2, <1>3, <1>4 DEF IInv, Types, PendingBlockObservation, Item
<1>6. observed \in Seq(PendingBlockObservation) /\ observed' = Append(observed, x)
  BY <1>1, <1>4 DEF IInv, Types
<1>7. /\ observed' \in Seq(PendingBlockObservation)
      /\ Len(observed') = block
      /\ \A i \in 1 .. block - 1 : observed'[i] = observed[i]
      /\ observed'[block] = x
  BY <1>2, <1>5, <1>6, AppendProperties
<1>8. Types'
  BY <1>1, <1>7 DEF IInv, Types
<1>9. Position'
  BY <1>1, <1>2, <1>4, <1>7 DEF IInv, Position
<1>10. PICK l \in Nat \ {0} : l = epochLengthBlocks
  BY DEF IInv, Types
<1>11. currentEpoch \in Nat /\ First(l, currentEpoch) <= block
  BY <1>2, <1>10 DEF IInv, Position
<1>12. First(l, currentEpoch) \in Nat /\ First(l, currentEpoch) >= 1
  BY <1>10, <1>11, EpochRange
<1>13. SlotOK'
  <2>1. currentEpochStart = First(l, currentEpoch)
    BY <1>10 DEF IInv, Position
  <2>2. Folded(currentEpoch, currentEpochStart, block - currentEpochStart, observed')
          = Folded(currentEpoch, currentEpochStart, block - currentEpochStart, observed)
    BY <1>2, <1>5, <1>6, <1>11, <1>12, <2>1, FoldedKept
  <2> QED
    BY <1>1, <1>2, <2>2 DEF IInv, SlotOK
<1>14. Closed' = Closed
  BY <1>1 DEF Closed
<1>15. HeadersOK'
  <2>1. ASSUME NEW e \in Closed
        PROVE  /\ Folded(e, First(l, e), l, observed') = Folded(e, First(l, e), l, observed)
               /\ observed'[Last(l, e)] = observed[Last(l, e)]
    <3>1. e \in Nat /\ e < currentEpoch
      BY <1>11, <2>1 DEF IInv, SummariesChain
    <3>2. Last(l, e) < First(l, currentEpoch)
      BY <1>10, <1>11, <3>1, EpochsDisjoint
    <3>3. /\ First(l, e) \in Nat /\ First(l, e) >= 1
          /\ Last(l, e) = First(l, e) + l - 1
      BY <1>10, <3>1, EpochRange
    <3>4. First(l, e) + l <= Len(observed) + 1
      BY <1>2, <1>10, <1>11, <1>12, <3>2, <3>3
    <3>5. Last(l, e) \in 1 .. block - 1
      BY <1>2, <1>10, <3>3, <3>4
    <3> QED
      BY <1>5, <1>6, <1>7, <1>10, <3>3, <3>4, <3>5, FoldedKept
  <2> QED
    BY <1>1, <1>10, <1>14, <2>1 DEF IInv, HeadersOK
<1>16. WorkOK' /\ SummariesChain'
  BY <1>1, <1>14 DEF IInv, WorkOK, SummariesChain
<1> QED
  BY <1>8, <1>9, <1>13, <1>15, <1>16 DEF IInv

\* The first block reserves the slot of epoch 0.
LEMMA FirstBlockIInv ==
  ASSUME IInv, on_initialize, block = 0
  PROVE  IInv'
<1> USE EpochsAssumption
<1>1. /\ block' = 1 /\ phase' = "Building" /\ extrinsics' = 0 /\ initialized' = TRUE
      /\ summarySlots' = reserve_slot(summarySlots, 0, 1, 1)
      /\ UNCHANGED <<epochLengthBlocks, currentEpoch, currentEpochStart, summaryHeaders,
                     latestSummaryHash, summaryCount, work, observed>>
  <2>1. ~ initialized /\ ~ (block + 1 > 1) /\ block + 1 = 1
    BY DEF IInv, Types
  <2> QED
    BY <2>1 DEF on_initialize, summaryVars
<1>2. PICK l \in Nat \ {0} : l = epochLengthBlocks
  BY DEF IInv, Types
<1>3. First(l, 0) = 1 /\ Last(l, 0) = l
  BY <1>2, EpochRange
<1>4. currentEpoch = 0 /\ currentEpochStart = 1 /\ Len(observed) = 0
  BY <1>2, <1>3 DEF IInv, Position
<1>5. 1 \in 0 .. MaxBlock /\ 0 \in Epoch
  BY DEF on_initialize, Epoch
<1>6. /\ DOMAIN summarySlots' = Epoch
      /\ DOMAIN summarySlots'[0] = SlotFields
      /\ summarySlots'[0].status = "Reserved"
      /\ summarySlots'[0].root = seed_epoch_accumulator(0)
  BY <1>1, <1>5 DEF reserve_slot, IInv, Types, SlotFields
<1>7. Types'
  BY <1>1, <1>5, <1>6 DEF IInv, Types
<1>8. Position'
  BY <1>1, <1>2, <1>3, <1>4 DEF IInv, Position
<1>9. SlotOK'
  <2>1. Folded(0, 1, 0, observed) = seed_epoch_accumulator(0)
    BY FoldedNone
  <2> QED
    BY <1>1, <1>4, <1>6, <2>1 DEF SlotOK
<1>10. Closed' = Closed
  BY <1>1 DEF Closed
<1>11. WorkOK' /\ HeadersOK' /\ SummariesChain'
  BY <1>1, <1>10 DEF IInv, WorkOK, HeadersOK, SummariesChain
<1> QED
  BY <1>7, <1>8, <1>9, <1>11 DEF IInv

\* The open slot once its epoch's latest block is folded in.
LEMMA SlotFolded ==
  ASSUME IInv, block # 0, NEW slot,
         slot = fold_observation_into_slot(summarySlots[currentEpoch], block, observed[block])
  PROVE  /\ DOMAIN slot = SlotFields
         /\ slot.status = "Reserved"
         /\ slot.state_root = observed[block].state_root
         /\ slot.root = Folded(currentEpoch, currentEpochStart, block - currentEpochStart + 1,
                               observed)
<1>1. PICK s : s = summarySlots[currentEpoch]
  OBVIOUS
<1>2. /\ DOMAIN s = SlotFields
      /\ s.status = "Reserved"
      /\ s.root = Folded(currentEpoch, currentEpochStart, block - currentEpochStart, observed)
  BY <1>1 DEF IInv, SlotOK
<1>3. /\ DOMAIN slot = SlotFields
      /\ slot.status = "Reserved"
      /\ slot.state_root = observed[block].state_root
      /\ slot.root = fold_epoch_accumulator(s.root, block, observed[block])
  BY <1>1, <1>2 DEF fold_observation_into_slot, SlotFields
<1>4. /\ currentEpochStart \in Nat /\ block - currentEpochStart \in Nat
      /\ currentEpochStart + (block - currentEpochStart) = block
  <2>1. /\ currentEpoch \in Nat /\ epochLengthBlocks \in Nat \ {0} /\ block \in Nat
        /\ currentEpochStart = First(epochLengthBlocks, currentEpoch)
        /\ First(epochLengthBlocks, currentEpoch) <= block
    BY EpochsAssumption DEF IInv, Types, Position
  <2>2. First(epochLengthBlocks, currentEpoch) \in Nat
    BY <2>1, EpochRange
  <2> QED
    BY <2>1, <2>2
<1>5. PICK k \in Nat : k = block - currentEpochStart
  BY <1>4
<1>6. fold_epoch_accumulator(Folded(currentEpoch, currentEpochStart, k, observed),
                             currentEpochStart + k, observed[currentEpochStart + k])
        = Folded(currentEpoch, currentEpochStart, k + 1, observed)
  BY <1>4, <1>5, FoldedOneMore
<1> QED
  BY <1>2, <1>3, <1>4, <1>5, <1>6

\* What every later block does before the boundary test.
LEMMA LaterBlock ==
  ASSUME IInv, on_initialize, block # 0
  PROVE  /\ block \in 1 .. MaxBlock - 1 /\ phase = "Sealed"
         /\ block' = block + 1 /\ phase' = "Building" /\ extrinsics' = 0 /\ initialized' = TRUE
         /\ pendingBlockObservation = observed[block]
         /\ summarySlots[currentEpoch] # Missing
         /\ apply_parent_block_observation(block + 1, summarySlots)
         /\ UNCHANGED <<epochLengthBlocks, work, observed>>
<1> USE EpochsAssumption
<1>1. /\ phase = "Sealed" /\ initialized /\ block < MaxBlock /\ block \in 1 .. MaxBlock
      /\ pendingBlockObservation = observed[block] /\ Len(observed) = block
  BY DEF on_initialize, IInv, Types, Position
<1>2. pendingBlockObservation # Missing
  <2>1. observed[block] \in PendingBlockObservation
    BY <1>1 DEF IInv, Types
  <2> QED
    BY <1>1, <2>1, ObservationNotMissing
<1>3. block + 1 > 1
  BY <1>1
<1>4. summarySlots[currentEpoch] # Missing
  <2>1. DOMAIN summarySlots[currentEpoch] = SlotFields
    BY DEF IInv, SlotOK
  <2>2. "root" \in SlotFields /\ "root" \notin DOMAIN Missing
    BY DEF SlotFields, Missing
  <2> QED
    BY <2>1, <2>2
<1> QED
  BY <1>1, <1>2, <1>3, <1>4 DEF on_initialize

\* A block that does not follow a boundary only folds its parent.
LEMMA WithinEpochIInv ==
  ASSUME IInv, on_initialize, block # 0, block % epochLengthBlocks # 0
  PROVE  IInv'
<1> USE EpochsAssumption
<1>1. /\ block \in 1 .. MaxBlock - 1 /\ phase = "Sealed"
      /\ block' = block + 1 /\ phase' = "Building" /\ extrinsics' = 0 /\ initialized' = TRUE
      /\ pendingBlockObservation = observed[block]
      /\ summarySlots[currentEpoch] # Missing
      /\ apply_parent_block_observation(block + 1, summarySlots)
      /\ UNCHANGED <<epochLengthBlocks, work, observed>>
  BY LaterBlock
<1>2. (block + 1) - 1 = block
  BY <1>1
<1>3. PICK slot :
        slot = fold_observation_into_slot(summarySlots[currentEpoch], block, observed[block])
  OBVIOUS
<1>4. /\ summarySlots' = [summarySlots EXCEPT ![currentEpoch] = slot]
      /\ UNCHANGED <<currentEpoch, currentEpochStart, summaryHeaders, latestSummaryHash,
                     summaryCount>>
  BY <1>1, <1>2, <1>3 DEF apply_parent_block_observation, summaryVars
<1>5. currentEpoch \in Epoch
  BY CurrentOpen
<1>6. DOMAIN summarySlots' = Epoch /\ summarySlots'[currentEpoch] = slot
  BY <1>4, <1>5 DEF IInv, Types
<1>7. Types'
  <2>1. block + 1 \in 0 .. MaxBlock /\ block + 1 # 0
    BY <1>1
  <2> QED
    BY <1>1, <1>4, <1>6, <2>1 DEF IInv, Types
<1>8. PICK l \in Nat \ {0} : l = epochLengthBlocks
  BY DEF IInv, Types
<1>9. /\ currentEpoch \in Nat
      /\ currentEpochStart = First(l, currentEpoch)
      /\ First(l, currentEpoch) <= block /\ block <= Last(l, currentEpoch)
      /\ Len(observed) = block
  BY <1>1, <1>8 DEF IInv, Position
<1>10. block # Last(l, currentEpoch)
  BY <1>1, <1>8, <1>9, BoundaryIsLast
<1>11. /\ First(l, currentEpoch) \in Nat
       /\ Last(l, currentEpoch) = First(l, currentEpoch) + l - 1
  BY <1>8, <1>9, EpochRange
<1>12. Position'
  <2>1. First(l, currentEpoch) <= block + 1 /\ block + 1 <= Last(l, currentEpoch)
    BY <1>1, <1>8, <1>9, <1>10, <1>11
  <2>2. block + 1 # 0
    BY <1>1
  <2> QED
    BY <1>1, <1>2, <1>4, <1>8, <1>9, <2>1, <2>2 DEF Position
<1>13. SlotOK'
  <2>1. /\ DOMAIN slot = SlotFields
        /\ slot.status = "Reserved"
        /\ slot.root = Folded(currentEpoch, currentEpochStart, block - currentEpochStart + 1,
                              observed)
    BY <1>3, SlotFolded
  <2>2. block - currentEpochStart + 1 = (block + 1) - currentEpochStart
    BY <1>1, <1>9, <1>11
  <2> QED
    BY <1>1, <1>4, <1>6, <2>1, <2>2 DEF SlotOK
<1>14. Closed' = Closed
  BY <1>4 DEF Closed
<1>15. WorkOK' /\ HeadersOK' /\ SummariesChain'
  BY <1>1, <1>4, <1>14 DEF IInv, WorkOK, HeadersOK, SummariesChain
<1> QED
  BY <1>7, <1>12, <1>13, <1>15 DEF IInv

\* The block after a boundary stages the header of the closed epoch and opens the
\* next one.
LEMMA CloseEpochIInv ==
  ASSUME IInv, on_initialize, block # 0, block % epochLengthBlocks = 0
  PROVE  IInv'
<1> USE EpochsAssumption
<1>1. /\ block \in 1 .. MaxBlock - 1 /\ phase = "Sealed"
      /\ block' = block + 1 /\ phase' = "Building" /\ extrinsics' = 0 /\ initialized' = TRUE
      /\ pendingBlockObservation = observed[block]
      /\ summarySlots[currentEpoch] # Missing
      /\ apply_parent_block_observation(block + 1, summarySlots)
      /\ UNCHANGED <<epochLengthBlocks, work, observed>>
  BY LaterBlock
<1>2. (block + 1) - 1 = block
  BY <1>1
<1>3. PICK c : c = currentEpoch
  OBVIOUS
<1>4. PICK l \in Nat \ {0} : l = epochLengthBlocks
  BY DEF IInv, Types
<1>5. /\ c \in Nat
      /\ currentEpochStart = First(l, c)
      /\ First(l, c) <= block /\ block <= Last(l, c)
      /\ Len(observed) = block
  BY <1>1, <1>3, <1>4 DEF IInv, Position
<1>6. block = Last(l, c)
  BY <1>1, <1>4, <1>5, BoundaryIsLast
<1>7. /\ First(l, c) \in Nat /\ First(l, c) >= 1
      /\ Last(l, c) = First(l, c) + l - 1
      /\ First(l, c + 1) = block + 1
      /\ First(l, c + 1) > c + 1
      /\ Last(l, c + 1) = First(l, c + 1) + l - 1
  <2>1. c + 1 \in Nat
    BY <1>5
  <2>2. /\ First(l, c) \in Nat /\ First(l, c) > c
        /\ Last(l, c) = First(l, c) + l - 1
        /\ First(l, c + 1) = Last(l, c) + 1
    BY <1>4, <1>5, EpochRange
  <2>3. /\ First(l, c + 1) > c + 1
        /\ Last(l, c + 1) = First(l, c + 1) + l - 1
    BY <1>4, <2>1, EpochRange
  <2> QED
    BY <1>5, <1>6, <2>2, <2>3
<1>8. c \in Epoch /\ c + 1 \in Epoch /\ c \notin Closed
  <2>1. c + 1 \in Epoch
    BY <1>1, <1>5, <1>7 DEF Epoch
  <2> QED
    BY <1>3, <2>1, CurrentOpen
<1>9. PICK slot : slot = fold_observation_into_slot(summarySlots[c], block, observed[block])
  OBVIOUS
<1>10. /\ DOMAIN slot = SlotFields
       /\ slot.status = "Reserved"
       /\ slot.state_root = observed[block].state_root
       /\ slot.root = Folded(c, First(l, c), l, observed)
  <2>1. block - currentEpochStart + 1 = l
    BY <1>1, <1>4, <1>5, <1>6, <1>7
  <2> QED
    BY <1>3, <1>5, <1>9, <2>1, SlotFolded
<1>11. slot # Missing /\ slot.status # "Staged"
  <2>1. "root" \in SlotFields /\ "root" \notin DOMAIN Missing
    BY DEF SlotFields, Missing
  <2> QED
    BY <1>10, <2>1
<1>12. PICK folded : folded = [summarySlots EXCEPT ![c] = slot]
  OBVIOUS
<1>13. DOMAIN folded = Epoch /\ folded[c] = slot
  BY <1>8, <1>12 DEF IInv, Types
<1>14. stage_summary_for_closed_epoch(c, block, block + 1, folded)
  BY <1>1, <1>2, <1>3, <1>9, <1>12 DEF apply_parent_block_observation
<1>15. PICK header :
         header = [epoch_id |-> c,
                   prev_summary_hash |-> IF c = 0 THEN EMPTY_HASH ELSE latestSummaryHash,
                   start_block_height |-> currentEpochStart,
                   end_block_height |-> block,
                   state_root |-> slot.state_root,
                   root |-> slot.root,
                   commitment |-> work[c]]
  OBVIOUS
<1>16. PICK staged : /\ DOMAIN staged = Epoch
                     /\ summarySlots' = reserve_slot(staged, c + 1, block + 1, block + 1)
  <2>1. ASSUME NEW s
        PROVE  DOMAIN [folded EXCEPT ![c] = s] = Epoch
    BY <1>13
  <2> QED
    BY <1>11, <1>13, <1>14, <2>1 DEF stage_summary_for_closed_epoch
<1>17. /\ summaryHeaders' = [summaryHeaders EXCEPT ![c] = header]
       /\ latestSummaryHash' = summary_hash(header)
       /\ summaryCount' = summaryCount + 1
       /\ currentEpoch' = c + 1
       /\ currentEpochStart' = block + 1
  BY <1>11, <1>13, <1>14, <1>15 DEF stage_summary_for_closed_epoch
<1>18. /\ header.epoch_id = c
       /\ header.prev_summary_hash = IF c = 0 THEN EMPTY_HASH ELSE latestSummaryHash
       /\ header.start_block_height = First(l, c)
       /\ header.end_block_height = Last(l, c)
       /\ header.state_root = observed[Last(l, c)].state_root
       /\ header.root = Folded(c, First(l, c), l, observed)
       /\ header.commitment = work[c]
       /\ header # Missing
  <2>1. "root" \in DOMAIN header /\ "root" \notin DOMAIN Missing
    BY <1>15 DEF Missing
  <2> QED
    BY <1>5, <1>6, <1>10, <1>15, <2>1
<1>19. /\ DOMAIN summarySlots' = Epoch
       /\ DOMAIN summarySlots'[c + 1] = SlotFields
       /\ summarySlots'[c + 1].status = "Reserved"
       /\ summarySlots'[c + 1].root = seed_epoch_accumulator(c + 1)
  BY <1>8, <1>16 DEF reserve_slot, SlotFields
<1>20. /\ DOMAIN summaryHeaders' = Epoch
       /\ summaryHeaders'[c] = header
       /\ \A e \in Epoch : e # c => summaryHeaders'[e] = summaryHeaders[e]
  BY <1>8, <1>17 DEF IInv, Types
<1>21. Types'
  <2>1. block + 1 \in 0 .. MaxBlock /\ block + 1 # 0
    BY <1>1
  <2> QED
    BY <1>1, <1>19, <1>20, <2>1 DEF IInv, Types
<1>22. Position'
  <2>1. /\ c + 1 \in Nat /\ block + 1 # 0
        /\ First(l, c + 1) <= block + 1 /\ block + 1 <= Last(l, c + 1)
    BY <1>1, <1>4, <1>5, <1>7
  <2> QED
    BY <1>1, <1>2, <1>4, <1>5, <1>7, <1>17, <2>1 DEF Position
<1>23. SlotOK'
  <2>1. (block + 1) - (block + 1) = 0 /\ block + 1 \in Nat
    BY <1>1
  <2>2. Folded(c + 1, block + 1, 0, observed) = seed_epoch_accumulator(c + 1)
    BY <2>1, FoldedNone
  <2> QED
    BY <1>1, <1>17, <1>19, <2>1, <2>2 DEF SlotOK
<1>24. WorkOK'
  <2>1. \A e \in Epoch : e <= c => e <= c + 1
    BY <1>5 DEF Epoch
  <2> QED
    BY <1>1, <1>3, <1>17, <2>1 DEF IInv, WorkOK
<1>25. Closed' = Closed \cup {c}
  BY <1>8, <1>18, <1>20 DEF Closed
<1>26. \A e \in Closed : summaryHeaders'[e] = summaryHeaders[e]
  BY <1>8, <1>20 DEF Closed
<1>27. HeadersOK'
  <2>1. ASSUME NEW e \in Closed
        PROVE  /\ summaryHeaders'[e].commitment = work'[e]
               /\ summaryHeaders'[e].root = Folded(e, First(l, e), l, observed')
               /\ summaryHeaders'[e].state_root = observed'[Last(l, e)].state_root
    BY <1>1, <1>4, <1>26 DEF IInv, HeadersOK
  <2>2. /\ summaryHeaders'[c].commitment = work'[c]
        /\ summaryHeaders'[c].root = Folded(c, First(l, c), l, observed')
        /\ summaryHeaders'[c].state_root = observed'[Last(l, c)].state_root
    BY <1>1, <1>18, <1>20
  <2> QED
    BY <1>1, <1>4, <1>25, <2>1, <2>2 DEF HeadersOK
<1>28. SummariesChain'
  <2>1. /\ Closed = 0 .. c - 1 /\ summaryCount = c
        /\ latestSummaryHash = IF c = 0 THEN EMPTY_HASH
                               ELSE summary_hash(summaryHeaders[c - 1])
    BY <1>3 DEF IInv, SummariesChain
  <2>2. Closed' = 0 .. (c + 1) - 1 /\ summaryCount' = c + 1 /\ (c + 1) - 1 = c /\ c + 1 # 0
    BY <1>5, <1>17, <1>25, <2>1
  <2>3. \A e \in Closed' : e # 0 => e - 1 \in Closed
    BY <1>5, <2>1, <2>2
  <2>4. ASSUME NEW e \in Closed
        PROVE  /\ summaryHeaders'[e].epoch_id = e
               /\ summaryHeaders'[e].start_block_height = e * l + 1
               /\ summaryHeaders'[e].end_block_height = (e + 1) * l
               /\ summaryHeaders'[e].prev_summary_hash =
                     IF e = 0 THEN EMPTY_HASH ELSE summary_hash(summaryHeaders'[e - 1])
    <3>1. /\ summaryHeaders[e].epoch_id = e
          /\ summaryHeaders[e].start_block_height = e * l + 1
          /\ summaryHeaders[e].end_block_height = (e + 1) * l
          /\ summaryHeaders[e].prev_summary_hash =
                IF e = 0 THEN EMPTY_HASH ELSE summary_hash(summaryHeaders[e - 1])
      BY <1>4 DEF IInv, SummariesChain
    <3>2. e # 0 => summaryHeaders'[e - 1] = summaryHeaders[e - 1]
      BY <1>25, <1>26, <2>3
    <3> QED
      BY <1>26, <3>1, <3>2
  <2>5. /\ summaryHeaders'[c].epoch_id = c
        /\ summaryHeaders'[c].start_block_height = c * l + 1
        /\ summaryHeaders'[c].end_block_height = (c + 1) * l
        /\ summaryHeaders'[c].prev_summary_hash =
              IF c = 0 THEN EMPTY_HASH ELSE summary_hash(summaryHeaders'[c - 1])
    <3>1. c # 0 => summaryHeaders'[c - 1] = summaryHeaders[c - 1]
      BY <1>25, <1>26, <2>3
    <3> QED
      BY <1>18, <1>20, <2>1, <3>1 DEF First, Last
  <2>6. latestSummaryHash' = summary_hash(summaryHeaders'[c])
    BY <1>17, <1>20
  <2>7. \A e \in Closed' :
            /\ summaryHeaders'[e].epoch_id = e
            /\ summaryHeaders'[e].start_block_height = e * l + 1
            /\ summaryHeaders'[e].end_block_height = (e + 1) * l
            /\ summaryHeaders'[e].prev_summary_hash =
                  IF e = 0 THEN EMPTY_HASH ELSE summary_hash(summaryHeaders'[e - 1])
    BY <1>25, <2>4, <2>5
  <2>8. /\ Closed' = 0 .. currentEpoch' - 1
        /\ summaryCount' = currentEpoch'
        /\ latestSummaryHash' = IF currentEpoch' = 0 THEN EMPTY_HASH
                                ELSE summary_hash(summaryHeaders'[currentEpoch' - 1])
    BY <1>17, <2>2, <2>6
  <2>9. epochLengthBlocks' = l
    BY <1>1, <1>4
  <2> QED
    BY <2>7, <2>8, <2>9, Zenon DEF SummariesChain, summary_hash
<1> QED
  BY <1>21, <1>22, <1>23, <1>24, <1>27, <1>28 DEF IInv

\* Every step keeps the invariant.
LEMMA NextIInv == IInv /\ [Next]_vars => IInv'
<1> SUFFICES ASSUME IInv, [Next]_vars PROVE IInv'
  OBVIOUS
<1>1. CASE on_initialize
  BY <1>1, FirstBlockIInv, WithinEpochIInv, CloseEpochIInv
<1>2. CASE UNCHANGED vars
  <2>1. Closed' = Closed
    BY <1>2 DEF vars, summaryVars, Closed
  <2> QED
    BY <1>2, <2>1 DEF vars, blockVars, summaryVars, IInv, Types, Position, SlotOK, WorkOK,
                      HeadersOK, SummariesChain
<1> QED
  BY <1>1, <1>2, ExtrinsicIInv, FinalizeIInv DEF Next

-----------------------------------------------------------------------------
(* Theorems *)

\* The inductive invariant holds in every state of the chain.
THEOREM EpochsInvariant == Spec => []IInv
<1>1. Init => IInv
  BY InitIInv
<1>2. IInv /\ [Next]_vars => IInv'
  BY NextIInv
<1> QED
  BY <1>1, <1>2, PTL DEF Spec

\* stage_summary_for_closed_epoch closes every epoch once, in order, at the block
\* its number and the epoch length determine, and chains the headers by hash.
THEOREM HeadersChain == Spec => []SummariesChain
<1>1. IInv => SummariesChain
  BY DEF IInv
<1> QED
  BY <1>1, EpochsInvariant, PTL

\* A header folds each block of its range once and in order, although
\* apply_parent_block_observation folds a block only when the next one begins.
THEOREM HeadersFoldTheirBlocks == Spec => []BlocksFoldedOnce
<1>1. IInv => BlocksFoldedOnce
  <2> SUFFICES ASSUME IInv, NEW e \in Closed
               PROVE  LET header == summaryHeaders[e]
                          first == header.start_block_height
                          last == header.end_block_height
                      IN  /\ header.root = Folded(e, first, last - first + 1, observed)
                          /\ header.state_root = observed[last].state_root
    BY DEF BlocksFoldedOnce, Folded
  <2>1. PICK l \in Nat \ {0} : l = epochLengthBlocks
    BY DEF IInv, Types
  <2>2. /\ e \in Nat
        /\ summaryHeaders[e].start_block_height = First(l, e)
        /\ summaryHeaders[e].end_block_height = Last(l, e)
    BY <2>1 DEF IInv, Position, SummariesChain, First, Last
  <2>3. /\ summaryHeaders[e].root = Folded(e, First(l, e), l, observed)
        /\ summaryHeaders[e].state_root = observed[Last(l, e)].state_root
    BY <2>1 DEF IInv, HeadersOK
  <2>4. Last(l, e) - First(l, e) + 1 = l
    <3>1. First(l, e) \in Nat /\ Last(l, e) = First(l, e) + l - 1
      BY <2>1, <2>2, EpochRange
    <3> QED
      BY <2>1, <3>1
  <2> QED
    BY <2>2, <2>3, <2>4
<1> QED
  BY <1>1, EpochsInvariant, PTL

\* The epoch another pallet reads from current_epoch() is the epoch of the block
\* it executes in: what it lists is committed by the header of that block's range.
THEOREM WorkIsCommitted == Spec => []WorkCommittedInItsEpoch
<1>1. IInv => WorkCommittedInItsEpoch
  <2> SUFFICES ASSUME IInv PROVE WorkCommittedInItsEpoch
    OBVIOUS
  <2>1. PICK l \in Nat \ {0} : l = epochLengthBlocks
    BY DEF IInv, Types
  <2>2. Closed = 0 .. currentEpoch - 1 /\ currentEpoch \in Nat /\ Epoch \subseteq Nat
    BY EpochsAssumption DEF IInv, SummariesChain, Position, Epoch
  <2>3. ASSUME NEW e \in Closed
        PROVE  summaryHeaders[e].commitment =
                 {item \in current_storage_root :
                    item[1] \in summaryHeaders[e].start_block_height
                                .. summaryHeaders[e].end_block_height}
    <3>1. /\ e \in Epoch /\ e \in Nat
          /\ summaryHeaders[e].start_block_height = First(l, e)
          /\ summaryHeaders[e].end_block_height = Last(l, e)
          /\ summaryHeaders[e].commitment = work[e]
      BY <2>1, <2>2 DEF IInv, SummariesChain, HeadersOK, First, Last, Closed
    <3>2. ASSUME NEW f \in Epoch, NEW item \in work[f]
          PROVE  /\ item[1] \in Nat
                 /\ First(l, f) <= item[1] /\ item[1] <= Last(l, f)
      BY <2>1 DEF IInv, Types, WorkOK, Item
    <3>3. ASSUME NEW f \in Epoch, NEW item \in work[f],
                 First(l, e) <= item[1], item[1] <= Last(l, e)
          PROVE  f = e
      <4>1. item[1] \in Nat /\ First(l, f) <= item[1] /\ item[1] <= Last(l, f)
        BY <3>2
      <4>2. f \in Nat
        BY <2>2
      <4>3. /\ First(l, e) \in Nat /\ Last(l, e) = First(l, e) + l - 1
            /\ First(l, f) \in Nat /\ Last(l, f) = First(l, f) + l - 1
        BY <2>1, <3>1, <4>2, EpochRange
      <4>4. f < e => Last(l, f) < First(l, e)
        BY <2>1, <3>1, <4>2, EpochsDisjoint
      <4>5. e < f => Last(l, e) < First(l, f)
        BY <2>1, <3>1, <4>2, EpochsDisjoint
      <4>6. ~ f < e
        BY <2>1, <3>3, <4>1, <4>3, <4>4
      <4>7. ~ e < f
        BY <2>1, <3>3, <4>1, <4>3, <4>5
      <4> QED
        BY <3>1, <4>2, <4>6, <4>7
    <3>4. First(l, e) \in Int /\ Last(l, e) \in Int
      BY <2>1, <3>1, EpochRange
    <3>5. ASSUME NEW item \in work[e]
          PROVE  item \in current_storage_root /\ item[1] \in First(l, e) .. Last(l, e)
      BY <3>1, <3>2, <3>4 DEF current_storage_root
    <3>6. ASSUME NEW item \in current_storage_root, item[1] \in First(l, e) .. Last(l, e)
          PROVE  item \in work[e]
      <4>1. PICK f \in Epoch : item \in work[f]
        BY DEF current_storage_root
      <4>2. First(l, e) <= item[1] /\ item[1] <= Last(l, e)
        BY <3>4, <3>6
      <4> QED
        BY <3>3, <4>1, <4>2
    <3> QED
      BY <3>1, <3>5, <3>6
  <2>4. ASSUME NEW e \in Epoch \ Closed, NEW item \in work[e]
        PROVE  e = currentEpoch /\ item[1] >= currentEpochStart
    <3>1. e <= currentEpoch /\ First(l, e) <= item[1]
      BY <2>1, <2>4 DEF IInv, WorkOK
    <3>2. e = currentEpoch
      BY <2>2, <3>1
    <3> QED
      BY <2>1, <3>1, <3>2 DEF IInv, Position
  <2> QED
    BY <2>3, <2>4 DEF WorkCommittedInItsEpoch
<1> QED
  BY <1>1, EpochsInvariant, PTL
=============================================================================

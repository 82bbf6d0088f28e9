------------------------------- MODULE Epochs -------------------------------
(***************************************************************************)
(* pallet-epochs on one chain, block by block.                             *)
(*                                                                         *)
(* Block n is executed in three steps: on_initialize, its extrinsics, and  *)
(* on_finalize.  What on_finalize observes about block n is folded into    *)
(* the open epoch only by on_initialize of block n + 1, which also closes  *)
(* the epoch when n was its last block: the close runs one block late, in  *)
(* a block that belongs to the next epoch, before that block's extrinsics. *)
(*                                                                         *)
(* The commitment providers (transfers and governance) are represented by  *)
(* the list of work they keep per epoch: an extrinsic may list an item     *)
(* under the current epoch, and a root is the set of items listed.         *)
(***************************************************************************)
EXTENDS Integers, Sequences

CONSTANTS
    EpochLengths,  \* the configured epoch lengths to consider, 0 included
    MaxBlock,      \* bound on the blocks produced
    MaxExtrinsics  \* bound on the extrinsics of a block

ASSUME EpochsAssumption ==
    /\ EpochLengths \subseteq Nat
    /\ MaxBlock \in Nat
    /\ MaxExtrinsics \in Nat

VARIABLES
    block,                   \* number of the last block begun
    phase,                   \* "Building" after on_initialize, "Sealed" after on_finalize
    extrinsics,              \* extrinsics executed so far in this block
    initialized,             \* Initialized
    epochLengthBlocks,       \* EpochLengthBlocks
    currentEpoch,            \* CurrentEpoch
    currentEpochStart,       \* CurrentEpochStart
    summarySlots,            \* SummarySlots
    summaryHeaders,          \* SummaryHeaders
    latestSummaryHash,       \* LatestSummaryHash
    summaryCount,            \* SummaryCount
    pendingBlockObservation, \* PendingBlockObservationStore
    work,                    \* what the commitment providers list per epoch
    observed                 \* history: the observation of every finished block

blockVars == <<block, phase, extrinsics>>
summaryVars == <<currentEpoch, currentEpochStart, summaryHeaders,
                 latestSummaryHash, summaryCount>>
vars == <<blockVars, initialized, epochLengthBlocks, summaryVars, summarySlots,
          pendingBlockObservation, work, observed>>

-----------------------------------------------------------------------------
(* Data *)

Epoch == 0 .. MaxBlock
Missing == [status |-> "Missing"]
EMPTY_HASH == <<>>

\* Hashes are injective: a hash is its tagged argument.
summary_hash(header) == <<"summary", header>>

\* block_root, tx_root and event_root fold the same blocks in the same order;
\* one accumulator stands for the three.
seed_epoch_accumulator(e) == <<e>>
fold_epoch_accumulator(acc, n, observation) == Append(acc, <<n, observation>>)

PendingBlockObservation ==
    [block_number : 1 .. MaxBlock, state_root : SUBSET ((1 .. MaxBlock) \X (1 .. MaxExtrinsics)),
     extrinsic_count : 0 .. MaxExtrinsics]

-----------------------------------------------------------------------------
(* Slots *)

\* The slot record of a newly opened epoch; height 0 stands for None.
reserve_slot(slots, e, start, n) ==
    [slots EXCEPT ![e] =
        [start_height |-> start, end_height |-> 0, reserved_at_block |-> n,
         staged_at_block_number |-> 0, last_touched_block |-> n,
         header |-> Missing, status |-> "Reserved",
         state_root |-> {}, root |-> seed_epoch_accumulator(e),
         blocks_observed |-> 0, last_observed_block |-> 0]]

fold_observation_into_slot(slot, n, observation) ==
    [slot EXCEPT !.state_root = observation.state_root,
                 !.root = fold_epoch_accumulator(@, n, observation),
                 !.blocks_observed = @ + 1,
                 !.last_observed_block = n,
                 !.last_touched_block = n + 1]

\* Mutant: the next epoch starts at the last block of the closed one.
stage_summary_Overlap(e, end, n, slots) ==
    LET header == [epoch_id |-> e, prev_summary_hash |-> latestSummaryHash,
                   start_block_height |-> currentEpochStart, end_block_height |-> end,
                   state_root |-> slots[e].state_root, root |-> slots[e].root,
                   commitment |-> work[e]]
    IN  /\ summaryHeaders' = [summaryHeaders EXCEPT ![e] = header]
        /\ latestSummaryHash' = summary_hash(header)
        /\ summaryCount' = summaryCount + 1
        /\ currentEpoch' = e + 1
        /\ currentEpochStart' = end
        /\ summarySlots' = reserve_slot(slots, e + 1, end, n)

stage_summary_for_closed_epoch(e, end, n, slots) ==
    LET slot == slots[e]
        header ==
            [epoch_id |-> e,
             prev_summary_hash |-> IF e = 0 THEN EMPTY_HASH ELSE latestSummaryHash,
             start_block_height |-> currentEpochStart,
             end_block_height |-> end,
             state_root |-> slot.state_root,
             root |-> slot.root,
             commitment |-> work[e]]
        stages == slot # Missing /\ slot.status # "Staged"
        staged ==
            IF stages
            THEN [slots EXCEPT ![e] =
                     [slot EXCEPT !.end_height = end,
                                  !.staged_at_block_number = n,
                                  !.last_touched_block = n,
                                  !.header = header,
                                  !.status = "Staged"]]
            ELSE slots
    IN  /\ IF stages
           THEN /\ summaryHeaders' = [summaryHeaders EXCEPT ![e] = header]
                /\ latestSummaryHash' = summary_hash(header)
                /\ summaryCount' = summaryCount + 1
           ELSE UNCHANGED <<summaryHeaders, latestSummaryHash, summaryCount>>
        /\ currentEpoch' = e + 1
        /\ currentEpochStart' = n
        /\ summarySlots' = reserve_slot(staged, e + 1, n, n)

\* Mutant: the boundary is tested on the opening block, not on its parent.
apply_parent_OpeningBlock(n, slots) ==
    LET folded == [slots EXCEPT ![currentEpoch] =
                      fold_observation_into_slot(@, n - 1, pendingBlockObservation)]
    IN  IF n % epochLengthBlocks = 0
        THEN stage_summary_for_closed_epoch(currentEpoch, n - 1, n, folded)
        ELSE summarySlots' = folded /\ UNCHANGED summaryVars

\* Mutant: the epoch is closed before its last block is folded in.
apply_parent_CloseFirst(n, slots) ==
    IF (n - 1) % epochLengthBlocks = 0
    THEN stage_summary_for_closed_epoch(currentEpoch, n - 1, n, slots)
    ELSE /\ summarySlots' = [slots EXCEPT ![currentEpoch] =
                fold_observation_into_slot(@, n - 1, pendingBlockObservation)]
         /\ UNCHANGED summaryVars

apply_parent_block_observation(n, slots) ==
    LET parent == n - 1
        folded ==
            IF slots[currentEpoch] = Missing THEN slots
            ELSE [slots EXCEPT ![currentEpoch] =
                     fold_observation_into_slot(@, parent, pendingBlockObservation)]
    IN  IF parent % epochLengthBlocks = 0
        THEN stage_summary_for_closed_epoch(currentEpoch, parent, n, folded)
        ELSE summarySlots' = folded /\ UNCHANGED summaryVars

-----------------------------------------------------------------------------
(* The steps of a block *)

on_initialize ==
    LET n == block + 1
        slots == IF initialized THEN summarySlots ELSE reserve_slot(summarySlots, 0, 1, n)
    IN  /\ phase = "Sealed"
        /\ block < MaxBlock
        /\ block' = n
        /\ phase' = "Building"
        /\ extrinsics' = 0
        /\ initialized' = TRUE
        /\ IF n > 1 /\ pendingBlockObservation # Missing
           THEN /\ apply_parent_block_observation(n, slots)
                /\ pendingBlockObservation' = Missing
           ELSE summarySlots' = slots /\ UNCHANGED <<summaryVars, pendingBlockObservation>>
        /\ UNCHANGED <<epochLengthBlocks, work, observed>>

\* An extrinsic of another pallet that may list an item under current_epoch().
Extrinsic(lists) ==
    /\ phase = "Building"
    /\ extrinsics < MaxExtrinsics
    /\ extrinsics' = extrinsics + 1
    /\ work' = IF lists
               THEN [work EXCEPT ![currentEpoch] = @ \cup {<<block, extrinsics + 1>>}]
               ELSE work
    /\ UNCHANGED <<block, phase, initialized, epochLengthBlocks, summaryVars, summarySlots,
                   pendingBlockObservation, observed>>

\* The state root commits to everything listed so far.
current_storage_root == UNION {work[e] : e \in Epoch}

store_pending_block_observation ==
    pendingBlockObservation' =
        [block_number |-> block, state_root |-> current_storage_root,
         extrinsic_count |-> extrinsics]

on_finalize ==
    /\ phase = "Building"
    /\ phase' = "Sealed"
    /\ store_pending_block_observation
    /\ observed' = Append(observed, pendingBlockObservation')
    /\ UNCHANGED <<block, extrinsics, initialized, epochLengthBlocks, summaryVars,
                   summarySlots, work>>

Init ==
    /\ block = 0
    /\ phase = "Sealed"
    /\ extrinsics = 0
    /\ initialized = FALSE
    /\ epochLengthBlocks \in {IF l > 1 THEN l ELSE 1 : l \in EpochLengths}
    /\ currentEpoch = 0
    /\ currentEpochStart = 1
    /\ summarySlots = [e \in Epoch |-> Missing]
    /\ summaryHeaders = [e \in Epoch |-> Missing]
    /\ latestSummaryHash = EMPTY_HASH
    /\ summaryCount = 0
    /\ pendingBlockObservation = Missing
    /\ work = [e \in Epoch |-> {}]
    /\ observed = <<>>

Next ==
    \/ on_initialize
    \/ \E lists \in BOOLEAN : Extrinsic(lists)
    \/ on_finalize

Spec == Init /\ [][Next]_vars
-----------------------------------------------------------------------------
(* Properties *)

Closed == {e \in Epoch : summaryHeaders[e] # Missing}

\* Every epoch before the current one, and no other, has a header; each header
\* names its predecessor's hash, starts one block after it and spans one epoch
\* length, and the latest hash and the count agree with them.  About
\* stage_summary_for_closed_epoch over many closes.
SummariesChain ==
    /\ Closed = 0 .. currentEpoch - 1
    /\ summaryCount = currentEpoch
    /\ \A e \in Closed :
          LET header == summaryHeaders[e]
          IN  /\ header.epoch_id = e
              /\ header.start_block_height = e * epochLengthBlocks + 1
              /\ header.end_block_height = (e + 1) * epochLengthBlocks
              /\ header.prev_summary_hash =
                    IF e = 0 THEN EMPTY_HASH ELSE summary_hash(summaryHeaders[e - 1])
    /\ latestSummaryHash =
          IF currentEpoch = 0 THEN EMPTY_HASH
          ELSE summary_hash(summaryHeaders[currentEpoch - 1])

\* A header folds the observation of each block of its range, once, in order,
\* and nothing else; its state root is the one of the range's last block.  The
\* fold of a block happens in the next block, which may already belong to the
\* next epoch.
BlocksFoldedOnce ==
    \A e \in Closed :
        LET header == summaryHeaders[e]
            first == header.start_block_height
            last == header.end_block_height
        IN  /\ header.root =
                  seed_epoch_accumulator(e)
                  \o [i \in 1 .. last - first + 1 |-> <<first + i - 1, observed[first + i - 1]>>]
            /\ header.state_root = observed[last].state_root

\* Whatever an extrinsic of block b listed is committed by the header whose
\* range contains b: the epoch another pallet reads from current_epoch() is the
\* epoch of the block it executes in, on both sides of a boundary.
WorkCommittedInItsEpoch ==
    /\ \A e \in Closed :
          summaryHeaders[e].commitment =
              {item \in current_storage_root :
                  item[1] \in summaryHeaders[e].start_block_height
                              .. summaryHeaders[e].end_block_height}
    /\ \A e \in Epoch \ Closed : \A item \in work[e] :
          e = currentEpoch /\ item[1] >= currentEpochStart
=============================================================================

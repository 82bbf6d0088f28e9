SPECIFICATION Spec
CONSTANTS
    EpochLengths = {0, 1, 2, 3}
    MaxBlock = 7
    MaxExtrinsics = 1
INVARIANT SummariesChain
INVARIANT BlocksFoldedOnce
INVARIANT WorkCommittedInItsEpoch
CHECK_DEADLOCK FALSE

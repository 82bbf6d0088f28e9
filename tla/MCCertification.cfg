\* Two forks, epochs of one block, an authority set that ends with block 3, and
\* a node that keeps two finalized states.
SPECIFICATION Spec
CONSTANTS
    Branch = {"a", "b"}
    MaxHeight = 5
    MaxEpoch = 1
    EpochLength = 1
    SetChanges <- SetEndsAtThree
    KeptStates = 2
    MaxReorgs = 2
INVARIANT AcceptedIsFinal
 
INVARIANT BundleIsStable
PROPERTY EventuallyReady

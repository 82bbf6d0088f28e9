\* A proposal and its acknowledgment, and a package the chain always refuses.
SPECIFICATION LiveSpec
CONSTANTS
    p = p
    q = q
    r = r
    x = x
    c = c
    g = g
    a = a
    Package = {p, q, r}
    Item = {c, g, a}
    Proofs <- SeparateProofs
    Prerequisite <- AckOfProposal
    Invalid = {}
    Refused = {c}
    MaxRequests = 3
    MaxCrashes = 0
    MaxPool = 2
    MaxCopies = 1
    MaxReorgs = 0
    MaxDepth = 0
PROPERTY KeptIsAcked
CHECK_DEADLOCK FALSE

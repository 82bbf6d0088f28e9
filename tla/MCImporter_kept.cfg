\* A package arrives while another one is being processed.
SPECIFICATION Spec
CONSTANTS
    p = p
    q = q
    r = r
    x = x
    c = c
    g = g
    a = a
    Package = {p, q}
    Item = {x, c, g, a}
    Proofs <- MixedProofs
    Prerequisite <- AckOfProposal
    Invalid = {}
    Refused = {}
    MaxRequests = 2
    MaxCrashes = 0
    MaxPool = 2
    MaxCopies = 2
    MaxReorgs = 0
    MaxDepth = 0
INVARIANT ReceivedIsKept
CHECK_DEADLOCK FALSE

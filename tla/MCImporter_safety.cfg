\* Two packages that share an export, one that fails verification, one restart.
SPECIFICATION Spec
CONSTANTS
    p = p
    q = q
    r = r
    x = x
    c = c
    g = g
    a = a
    Package = {p, q, r}
    Item = {x, c, g, a}
    Proofs <- MixedProofs
    Prerequisite <- AckOfProposal
    Invalid = {r}
    Refused = {}
    MaxRequests = 2
    MaxCrashes = 1
    MaxPool = 2
    MaxCopies = 2
    MaxReorgs = 1
    MaxDepth = 2
INVARIANT IndexMatchesChain
INVARIANT OnlyVerifiedApplied
CHECK_DEADLOCK FALSE

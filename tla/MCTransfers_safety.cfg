\* Two domains, two transfers from Earth and one from the Moon; a transfer of 1
\* to an account that does not exist cannot be minted.
CONSTANTS
    earth = earth
    moon = moon
    mars = mars
    alice = alice
    bob = bob
    Domain = {earth, moon}
    Account = {alice, bob}
    Amount = {1, 2}
    InitialFree <- GenesisBalances
    ExistentialDeposit = 2
    MaxSequence <- ThreeTransfers
    MaxEpoch = 2
SPECIFICATION Spec
CHECK_DEADLOCK FALSE
INVARIANTS
    ObservedWasCommitted
    BurnedWasMinted
    HeldBacksUnresolved
    SupplyConserved
    RecomputedRootsMatch
    ExportCommittedOnce
    CompletionCommittedOnce
PROPERTIES
    EscrowSpec
    SettlementOnlyAdvances
